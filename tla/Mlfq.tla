-------------------------------- MODULE Mlfq --------------------------------
(***************************************************************************)
(* The multi-level feedback queues of kernel/sched/sched.zig: four FIFO    *)
(* levels, quanta counted in timer ticks, demotion of a thread that used   *)
(* its whole quantum, and the periodic boost by the boot CPU.  What Sched  *)
(* abstracts to "some ready task is picked" is exact here; why a task      *)
(* blocks or wakes is left to Sched.                                       *)
(***************************************************************************)
EXTENDS Naturals, FiniteSets, Sequences, SequencesExt

CONSTANTS
  Cpu,
  Boot,        \* CPU 0, the one that boosts
  Task,        \* at most MAX_TASKS of them
  Realtime,    \* the tasks spawned at the realtime level
  Idle,        \* stands for a CPU's own idle task
  Quantum,     \* quantumMs, per level, in ticks
  BoostTicks   \* BOOST_INTERVAL_TICKS

Levels == 0..3

ASSUME MlfqAssumption ==
  /\ Boot \in Cpu
  /\ IsFiniteSet(Task) /\ Realtime \subseteq Task /\ Idle \notin Task
  /\ Quantum \in [Levels -> Nat \ {0}] /\ BoostTicks \in Nat \ {0}

VARIABLES
  current,     \* PerCpu.current
  queue,       \* queues: for each level the ready tasks, head first
  level,       \* Task.priority
  quantum,     \* Task.quantum_left
  resched,     \* PerCpu.need_resched
  sinceBoost   \* ticks of the boot CPU since last_boost_tick

vars == <<current, queue, level, quantum, resched, sinceBoost>>

Ready == UNION {ToSet(queue[l]) : l \in Levels}
Running == {current[c] : c \in Cpu} \ {Idle}
Blocked == Task \ (Ready \cup Running)

\* Priority.lower: realtime is never demoted and batch is the bottom.
Lower(l) == IF l \in {0, 3} THEN l ELSE l + 1

Init ==
  /\ current = [c \in Cpu |-> Idle]
  /\ level = [t \in Task |-> IF t \in Realtime THEN 0 ELSE 2]
  /\ quantum = [t \in Task |-> Quantum[level[t]]]
  /\ queue = [l \in Levels |-> SetToSeq({t \in Task : level[t] = l})]
  /\ resched = [c \in Cpu |-> FALSE]
  /\ sinceBoost = 0

----------------------------------------------------------------------------
\* The highest level that has a ready task.
Best == CHOOSE l \in Levels : queue[l] # <<>> /\ \A m \in 0..(l - 1) : queue[m] = <<>>

\* pickNext: the task, and the queues without it.
Picked == IF Ready = {} THEN Idle ELSE Head(queue[Best])

\* Seeded fault: the picked task stays queued.
PeekNotPop == queue
Popped == IF Ready = {} THEN queue ELSE [queue EXCEPT ![Best] = Tail(@)]

\* Where enqueue puts a thread, and its quantum there.
LevelAfter(t) == IF quantum[t] = 0 THEN Lower(level[t]) ELSE level[t]
QuantumAfter(t) == IF quantum[t] = 0 THEN Quantum[LevelAfter(t)] ELSE quantum[t]

\* yield and preemptIfNeeded: pick, then enqueue the previous thread.
Reschedule(c) ==
  LET t == current[c] IN
  /\ current' = [current EXCEPT ![c] = Picked]
  /\ IF t = Idle
     THEN queue' = Popped /\ UNCHANGED <<level, quantum>>
     ELSE /\ queue' = [Popped EXCEPT ![LevelAfter(t)] = Append(@, t)]
          /\ level' = [level EXCEPT ![t] = LevelAfter(t)]
          /\ quantum' = [quantum EXCEPT ![t] = QuantumAfter(t)]

Yield(c) ==
  /\ current[c] # Idle
  /\ Reschedule(c)
  /\ UNCHANGED <<resched, sinceBoost>>

\* The end of an interrupt on a CPU whose need_resched is set.
PreemptIfNeeded(c) ==
  /\ resched[c]
  /\ resched' = [resched EXCEPT ![c] = FALSE]
  /\ Reschedule(c)
  /\ UNCHANGED sinceBoost

\* sleepMs, commitWait: the thread sleeps without being enqueued.
Block(c) ==
  /\ current[c] # Idle
  /\ current' = [current EXCEPT ![c] = Picked]
  /\ queue' = Popped
  /\ UNCHANGED <<level, quantum, resched, sinceBoost>>

\* A wake on CPU c of a sleeping task.  wakeChannel asks for a reschedule when
\* the woken task is at least as urgent; interrupts and timeouts do not.
Wake(c, t) ==
  /\ t \in Blocked
  /\ queue' = [queue EXCEPT ![level[t]] = Append(@, t)]
  /\ \/ UNCHANGED resched
     \/ /\ current[c] # Idle => level[t] <= level[current[c]]
        /\ resched' = [resched EXCEPT ![c] = TRUE]
  /\ UNCHANGED <<current, level, quantum, sinceBoost>>

----------------------------------------------------------------------------
\* boostAll: every ready thread below interactive moves to interactive's tail,
\* the higher level first.
BoostedQueue ==
  [l \in Levels |-> CASE l = 0 -> queue[0]
                      [] l = 1 -> queue[1] \o queue[2] \o queue[3]
                      [] OTHER -> <<>>]

Lifted == ToSet(queue[2] \o queue[3])

\* Seeded fault: the boost never comes.
BoostNever(c) == FALSE

\* Whether the tick on CPU c is the one that boosts.
BoostDue(c) == c = Boot /\ sinceBoost + 1 >= BoostTicks

\* tick: charge the running thread, boost when it is time, and ask for a
\* reschedule when the quantum is used up or an idle CPU finds work.
Tick(c) ==
  LET t == current[c]
      boost == BoostDue(c)
      charged == [u \in Task |-> IF u = t /\ quantum[u] > 0 THEN quantum[u] - 1 ELSE quantum[u]]
      due == IF t = Idle THEN Ready # {} ELSE charged[t] = 0
  IN
  /\ queue' = IF boost THEN BoostedQueue ELSE queue
  /\ level' = [u \in Task |-> IF boost /\ u \in Lifted THEN 1 ELSE level[u]]
  /\ quantum' = [u \in Task |-> IF boost /\ u \in Lifted THEN Quantum[1] ELSE charged[u]]
  /\ sinceBoost' = IF c # Boot THEN sinceBoost ELSE (sinceBoost + 1) % BoostTicks
  /\ resched' = [resched EXCEPT ![c] = @ \/ due]
  /\ UNCHANGED current

Next ==
  \E c \in Cpu :
    \/ Tick(c) \/ PreemptIfNeeded(c) \/ Yield(c) \/ Block(c)
    \/ \E t \in Task : Wake(c, t)

Spec == Init /\ [][Next]_vars

(***************************************************************************)
(* Timer interrupts keep coming and end in preemptIfNeeded.  A realtime    *)
(* thread (the kernel has one, usb-input) waits again after each event;    *)
(* nothing is assumed of the others.                                       *)
(***************************************************************************)
Fairness ==
  /\ \A c \in Cpu : WF_vars(Tick(c)) /\ WF_vars(PreemptIfNeeded(c))
  /\ \A t \in Realtime : SF_vars(\E c \in Cpu : current[c] = t /\ Block(c))

FairSpec == Spec /\ Fairness

----------------------------------------------------------------------------
(***************************************************************************)
(* Properties.                                                             *)
(***************************************************************************)
Dispatcher == INSTANCE RunQueue WITH ready <- Ready, running <- current

\* The queues implement the abstract dispatcher: no task is lost, duplicated
\* or run twice by queueing, demotion and boosts (pickNext, enqueue, boostAll).
Refines == Dispatcher!Spec

\* No ready thread waits forever, whatever the interactive threads do: the
\* boost lifts it past a stream of higher-priority work (boostAll).
NoStarvation == \A t \in Task : Dispatcher!ReadyRuns(t)
=============================================================================
