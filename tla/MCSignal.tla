------------------------------ MODULE MCSignal ------------------------------
(* Scenes of Signal for TLC, chosen in the initial state.                  *)
EXTENDS Signal

VARIABLE scene

\* The second signal's handler blocks the first one too; the first one's
\* blocks nothing more.  So nested frames save masks that differ.
Masks == [s \in Sig |-> IF s = 2 THEN {1} ELSE {}]

\* Two threads and one signal, which senders, sigaction, masks and faults are
\* about; a handler leaves its mask alone, so its thread has one frame.
RacingStep ==
  /\ Next
  /\ post' # Free => post'.sig = 1
  /\ \A s \in Sig \ {1} : action'[s] = "dfl"
  /\ \A t \in Thread :
       /\ blocked'[t] \subseteq {1} /\ Len(frames'[t]) <= 1
       /\ pc[t] = "user" /\ blocked'[t] # blocked[t] =>
            frames[t] = << >> \/ frames'[t] = << >>

\* One thread, whose handlers are entered on top of each other by faults and by
\* signals from another program, and change their masks.  It never waits.
NestingStep ==
  /\ Next
  /\ pc'[1] # "wait" /\ \A t \in Thread \ {1} : pc'[t] = "none"
  /\ post' # Free => post'.by = Outside

SceneInit == Init /\ scene \in {"racing", "nesting"}
SceneNext ==
  /\ \/ scene = "racing" /\ RacingStep
     \/ scene = "nesting" /\ NestingStep
  /\ UNCHANGED scene
SceneSpec == SceneInit /\ [][SceneNext]_<<vars, scene>>
FairScenes == SceneSpec /\ Fairness

\* Bound: once a group exit has begun, the steps are followed only while some
\* thread is about to sleep; the others are on their way out.
EndsSoon == exiting => \E t \in Thread : pc[t] = "wait"
=============================================================================
