------------------------------ MODULE MCSched ------------------------------
(***************************************************************************)
(* Instance of Sched for TLC.                                              *)
(***************************************************************************)
EXTENDS Sched, TLC

VARIABLE scene  \* which of the scenes below the behaviour is one of

\* The tids other than init's are interchangeable.
Perms == Permutations(Task \ {Root}) \cup Permutations(Cpu)

TwoTasks == Cardinality({t \in Task : state[t] # "none"}) <= 2

\* The lives of programs alone: nothing but exits is waited for.
LifeNext == ~panicked /\ ((\E t \in Task : LifeStep(t)) \/ KernelStep)

(***************************************************************************)
(* The safety scenes.  "life": up to three tasks start, exit, are killed   *)
(* and are waited for.  "events": two tasks also wait for and send events, *)
(* sleep and time out.                                                     *)
(***************************************************************************)
SafeInit == Init /\ scene \in {"life", "events"}
SafeNext ==
  /\ \/ scene = "life" /\ LifeNext
     \/ scene = "events" /\ Next /\ TwoTasks'
  /\ UNCHANGED scene
SafeSpec == SafeInit /\ [][SafeNext]_<<vars, scene>>

(***************************************************************************)
(* The liveness scenes.  "orphans": init or the one program it starts may  *)
(* end at any time.  "supervise": init, with one thread, supervises a      *)
(* single program (tid 2) that may start one more thread (tid 3) but no    *)
(* program, and so waits for none.                                         *)
(***************************************************************************)
Supervised ==
  /\ live[Root] = 1 /\ ~exiting[Root]
  /\ parent[2] = Root \/ state[2] = "none"
  /\ process[3] = 2 \/ state[3] = "none"
  /\ chan[Root] # 3 /\ \A t \in {2, 3} : chan[t] \notin Task

LiveInit == Init /\ scene \in {"orphans", "supervise"}
LiveNext ==
  /\ LifeNext
  /\ scene = "orphans" => state'[3] = "none"
  /\ scene = "supervise" => Supervised'
  /\ UNCHANGED scene
LiveSpec == LiveInit /\ [][LiveNext]_<<vars, scene>> /\ Fairness

\* The program ends once exitGroup or a kill has marked it (killProcessLocked,
\* exitGroup), wherever its two threads are at that moment.
ProgramEnds == (scene = "supervise" /\ exiting[2]) ~> exited[2]

\* init blocked in sysWait returns once the child it waits for has exited, also
\* when the child's leader is not the thread that published the exit.
WaitReturns ==
  (/\ scene = "supervise"
   /\ state[Root] = "blocked" /\ chan[Root] \in Task /\ exited[chan[Root]])
    ~> pc[Root] = "ret"
=============================================================================
