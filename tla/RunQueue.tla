------------------------------ MODULE RunQueue ------------------------------
(***************************************************************************)
(* What a dispatcher promises, without priorities, quanta or reasons to    *)
(* wait: a task is ready, running on one CPU, or outside (asleep, not yet  *)
(* created, dead).  A CPU idles only if nothing else was ready when it     *)
(* last chose.                                                             *)
(***************************************************************************)
CONSTANTS Cpu, Task, Idle

VARIABLES
  ready,     \* the tasks waiting for a CPU
  running    \* the task each CPU runs, or Idle

dispatchVars == <<ready, running>>

Outside == {t \in Task : t \notin ready /\ \A c \in Cpu : running[c] # t}

Init ==
  /\ ready \subseteq Task
  /\ running = [c \in Cpu |-> Idle]

\* Tasks become ready from outside.
Admit ==
  /\ \E T \in SUBSET Outside : ready' = ready \cup T
  /\ UNCHANGED running

\* CPU c gives up its task, which goes back to the ready tasks or outside, and
\* takes another.  Tasks may be admitted in the same step.
Switch(c) ==
  \E T \in SUBSET Outside, back \in SUBSET ({running[c]} \ {Idle}) :
    \/ /\ ready \cup T = {}
       /\ running' = [running EXCEPT ![c] = Idle]
       /\ ready' = back
    \/ \E n \in ready \cup T :
         /\ running' = [running EXCEPT ![c] = n]
         /\ ready' = ((ready \cup T) \ {n}) \cup back

Next == Admit \/ \E c \in Cpu : Switch(c)

Spec == Init /\ [][Next]_dispatchVars

\* Every ready task is run eventually.
ReadyRuns(t) == t \in ready ~> \E c \in Cpu : running[c] = t
=============================================================================
