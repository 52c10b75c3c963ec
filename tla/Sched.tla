------------------------------- MODULE Sched -------------------------------
(***************************************************************************)
(* The scheduler of the kernel (kernel/sched/sched.zig, task.zig) with the *)
(* life of user programs: run queue, per-CPU current task, two-phase wait  *)
(* with timeouts, sleep, kill and signal interruption, thread and program  *)
(* creation, exit, group exit, child collection and the orphan reaper.     *)
(*                                                                         *)
(* Every section of the code that holds the scheduler lock runs with       *)
(* interrupts masked and hands the lock over through the context switch,   *)
(* so it is one action here.  The steps a thread takes between two such    *)
(* sections are separate actions: another CPU may run in between.          *)
(*                                                                         *)
(* A task stands for one tid.  Tids are never reused, and a program is     *)
(* named by its pid, which is the tid of its first thread (the leader).    *)
(* The order inside the run queues, priorities and quanta are abstracted   *)
(* to "some ready task is picked"; module Mlfq keeps them.                 *)
(***************************************************************************)
EXTENDS Integers, FiniteSets

CONSTANTS
  Cpu,          \* the CPUs that run the scheduler
  Task,         \* tids, at most MAX_TASKS of them registered at once
  Root,         \* init, PID 1: the program present after boot
  Idle,         \* stands for a CPU's own idle task
  Nobody,       \* parent_tid = 0: the orphan reaper collects the record
  Event,        \* the wait channel of one shared object (port, pipe, ...)
  MaxEvents,    \* capacity of that object's queue
  MaxThreads,   \* MAX_THREADS_PER_PROCESS
  ExitCodes     \* statuses a program can end with

ASSUME ConstantsAssumption ==
  /\ Cpu # {} /\ Root \in Task
  /\ Idle \notin Task /\ Nobody \notin Task /\ Event \notin Task
  /\ MaxEvents \in Nat /\ MaxThreads \in Nat \ {0}
  /\ 0 \in ExitCodes /\ ExitCodes \subseteq Nat

VARIABLES
  state,        \* Task.state; "none" before creation, "gone" once destroyed
  current,      \* PerCpu.current
  runq,         \* the tasks linked on a run queue (on_run_queue)
  waiters,      \* the tasks linked on the wait list (on_wait_list)
  chan,         \* wait_channel of the call in progress: a program's exit or Event
  sleepers,     \* the tasks linked on the sleeper list (wake_at_ns # 0)
  pc,           \* where the task is in its kernel code path
  process,      \* Task.process, as the pid of the program
  parent,       \* parent_tid: the program that may collect the record
  live,         \* Process.live_threads
  exiting,      \* Process.exiting
  exited,       \* Process.exited
  exitCode,     \* Process.exit_code
  space,        \* the task holds a reference on the address space
  last,         \* exit() found this thread to be the last of its program
  kill,         \* kill_pending
  sigInterrupt, \* sig_interrupt
  events,       \* messages queued on the object behind Event
  panicked      \* schedulerBug or a failed assertion stopped the kernel

taskVars == <<state, current, runq>>
waitVars == <<waiters, chan, sleepers>>
progVars == <<process, parent, live, exiting, exited, exitCode, space, last>>
flagVars == <<kill, sigInterrupt>>
vars == <<taskVars, waitVars, progVars, flagVars, pc, events, panicked>>

States == {"none", "ready", "running", "blocked", "zombie", "gone"}
(***************************************************************************)
(* Places of a thread: "exec" loads the program image, "start" is where a  *)
(* thread of a running program begins, "user" is ring 3,                   *)
(* "ret" is the way back to ring 3, "look" "reg" "test" "commit" "cancel"  *)
(* are the steps of a blocking call, "post" has published an event but not *)
(* woken the channel, "exit1" and "exit2" are inside exit().               *)
(***************************************************************************)
Places == {"exec", "start", "user", "ret", "look", "reg", "test", "commit", "cancel",
           "post", "exit1", "exit2"}

Channels == Task \cup {Event}

Registered(t) == state[t] \notin {"none", "gone"}
Threads(p) == {t \in Task : Registered(t) /\ process[t] = p}
Running(t) == state[t] = "running"
Interrupted(t) == kill[t] \/ sigInterrupt[t]

\* finishedLocked: a leader's record stays until its program has exited.
Finished(t) == state[t] = "zombie" /\ (process[t] = t => exited[t])

\* findChildLocked
IsChild(t, p) == Registered(t) /\ parent[t] = p

----------------------------------------------------------------------------
(***************************************************************************)
(* Pieces of a lock-held section.                                          *)
(***************************************************************************)

\* Seeded fault: a woken task is queued whatever state it is in.
AsleepAnyState(W) == W

\* The members of W that got as far as sleeping; only these are queued.
Asleep(W) == {t \in W : state[t] = "blocked"}

\* state after the sleeping members of W were made ready
Readied(W) == [t \in Task |-> IF t \in Asleep(W) THEN "ready" ELSE state[t]]

\* Queue.push refuses a task that is queued already.
PushFails(W) == Asleep(W) \cap runq # {}

\* Seeded fault: a wake marks the task ready and does not queue it.
WakeForgetsPush(W) ==
  /\ state' = Readied(W)
  /\ panicked' = PushFails(W)
  /\ waiters' = waiters \ W
  /\ sleepers' = sleepers \ W
  /\ UNCHANGED <<current, runq>>

\* Wake W outside of a reschedule; wakeChannelLocked, wakeForInterruptLocked.
Wake(W) ==
  /\ state' = Readied(W)
  /\ runq' = runq \cup Asleep(W)
  /\ panicked' = PushFails(W)
  /\ waiters' = waiters \ W
  /\ sleepers' = sleepers \ W
  /\ UNCHANGED current

\* Seeded fault: the picked task stays at the head of the queue.
DispatchPeeks(c, st, rq, back) ==
  \/ /\ rq = {}
     /\ current' = [current EXCEPT ![c] = Idle]
     /\ state' = st
     /\ runq' = back
     /\ panicked' = FALSE
  \/ \E n \in rq :
       /\ current' = [current EXCEPT ![c] = n]
       /\ state' = [st EXCEPT ![n] = "running"]
       /\ runq' = rq \cup back
       /\ panicked' = (st[n] # "ready" \/ back \cap rq # {})

\* pickNext and switchTo on CPU c, with `st` and `rq` the task states and run
\* queue the section has built, and `back` the task to enqueue afterwards.
Dispatch(c, st, rq, back) ==
  \/ /\ rq = {}
     /\ current' = [current EXCEPT ![c] = Idle]
     /\ state' = st
     /\ runq' = back
     /\ panicked' = FALSE
  \/ \E n \in rq :
       /\ current' = [current EXCEPT ![c] = n]
       /\ state' = [st EXCEPT ![n] = "running"]
       /\ runq' = (rq \ {n}) \cup back
       /\ panicked' = (st[n] # "ready" \/ back \cap rq # {})

\* The running task t gives up its CPU in state "blocked".
Block(t) ==
  \E c \in Cpu : /\ current[c] = t
                 /\ Dispatch(c, [state EXCEPT ![t] = "blocked"], runq, {})

Goto(t, place) == pc' = [pc EXCEPT ![t] = place]

----------------------------------------------------------------------------
Init ==
  /\ state = [t \in Task |-> IF t = Root THEN "ready" ELSE "none"]
  /\ current = [c \in Cpu |-> Idle]
  /\ runq = {Root}
  /\ waiters = {} /\ sleepers = {}
  /\ chan = [t \in Task |-> Event]
  /\ pc = [t \in Task |-> "exec"]
  /\ process = [t \in Task |-> t]
  /\ parent = [t \in Task |-> Nobody]
  /\ live = [p \in Task |-> IF p = Root THEN 1 ELSE 0]
  /\ exiting = [p \in Task |-> FALSE]
  /\ exited = [p \in Task |-> FALSE]
  /\ exitCode = [p \in Task |-> 0]
  /\ space = [t \in Task |-> FALSE]
  /\ last = [t \in Task |-> FALSE]
  /\ kill = [t \in Task |-> FALSE]
  /\ sigInterrupt = [t \in Task |-> FALSE]
  /\ events = 0
  /\ panicked = FALSE

----------------------------------------------------------------------------
(***************************************************************************)
(* Switching.                                                              *)
(***************************************************************************)

\* An idle CPU's tick finds ready work (tick, preemptIfNeeded).
IdleDispatch(c) ==
  /\ current[c] = Idle /\ runq # {}
  /\ Dispatch(c, state, runq, {})
  /\ UNCHANGED <<waitVars, progVars, flagVars, pc, events>>

\* Interrupts are on in ring 3, while a thread starts, in blocking calls, and
\* while a copy at the end of a call brings in pages (validate.prefault); the
\* rest of a system call and exit() run with them masked.
Preemptible ==
  {"exec", "start", "user", "ret", "look", "reg", "test", "commit", "cancel"}

\* yield, or preemptIfNeeded from the timer.  From ring 3 the thread resumes on
\* the return path.
Preempt(c) ==
  LET t == current[c] IN
  /\ t \in Task /\ pc[t] \in Preemptible
  /\ Dispatch(c, [state EXCEPT ![t] = "ready"], runq, {t})
  /\ Goto(t, IF pc[t] = "user" THEN "ret" ELSE pc[t])
  /\ UNCHANGED <<waitVars, progVars, flagVars, events>>

\* A timer interrupt in ring 3 that does not preempt.
Trap(t) ==
  /\ Running(t) /\ pc[t] = "user"
  /\ Goto(t, "ret")
  /\ UNCHANGED <<taskVars, waitVars, progVars, flagVars, events, panicked>>

\* exit() from its entry to the choice of the last thread.
ExitDecrement(t) ==
  /\ Goto(t, "exit1")
  /\ live' = [live EXCEPT ![process[t]] = @ - 1]
  /\ last' = [last EXCEPT ![t] = (live[process[t]] = 1)]
  /\ UNCHANGED <<taskVars, waitVars, process, parent, exiting, exited, exitCode,
                 space, flagVars, events, panicked>>

\* Seeded fault: the way back to ring 3 has no test of kill_pending.
ReturnIgnoringKill(t) ==
  /\ Running(t) /\ pc[t] = "ret"
  /\ Goto(t, "user")
  /\ sigInterrupt' = [sigInterrupt EXCEPT ![t] = FALSE]
  /\ chan' = [chan EXCEPT ![t] = Event]
  /\ UNCHANGED <<taskVars, waiters, sleepers, progVars, kill, events, panicked>>

\* The end of syscallDispatch and of isrDispatch: a killed thread leaves,
\* otherwise deliver() has taken the pending signals.
ReturnToUser(t) ==
  /\ Running(t) /\ pc[t] = "ret"
  /\ IF kill[t] THEN ExitDecrement(t)
     ELSE /\ Goto(t, "user")
          /\ sigInterrupt' = [sigInterrupt EXCEPT ![t] = FALSE]
          /\ chan' = [chan EXCEPT ![t] = Event]
          /\ UNCHANGED <<taskVars, waiters, sleepers, progVars, kill, events, panicked>>

----------------------------------------------------------------------------
(***************************************************************************)
(* Creation.                                                               *)
(***************************************************************************)

\* registerTask and push of a new record.
Publish(n) ==
  /\ state[n] = "none"
  /\ state' = [state EXCEPT ![n] = "ready"]
  /\ runq' = runq \cup {n}
  /\ panicked' = (n \in runq)
  /\ UNCHANGED <<current, waitVars, exiting, exited, exitCode, last, flagVars, events>>

\* spawnProcess: the new program belongs to the spawning program.
SpawnProgram(t, n) ==
  /\ Running(t) /\ pc[t] = "user"
  /\ Publish(n)
  /\ process' = [process EXCEPT ![n] = n]
  /\ parent' = [parent EXCEPT ![n] = process[t]]
  /\ live' = [live EXCEPT ![n] = 1]
  /\ pc' = [pc EXCEPT ![t] = "ret", ![n] = "exec"]
  /\ UNCHANGED space

\* spawnUserThread: refused once the program is exiting or at its limit.
SpawnThread(t, n) ==
  /\ Running(t) /\ pc[t] = "user"
  /\ ~exiting[process[t]] /\ live[process[t]] < MaxThreads
  /\ Publish(n)
  /\ process' = [process EXCEPT ![n] = process[t]]
  /\ parent' = [parent EXCEPT ![n] = Nobody]
  /\ live' = [live EXCEPT ![process[t]] = @ + 1]
  /\ space' = [space EXCEPT ![n] = TRUE]
  /\ pc' = [pc EXCEPT ![t] = "ret", ![n] = "start"]

\* spawnThread: execNode attaches the new address space, or the program ends.
Exec(t) ==
  /\ Running(t) /\ pc[t] = "exec"
  /\ \/ /\ Goto(t, "user")
        /\ space' = [space EXCEPT ![t] = TRUE]
        /\ UNCHANGED <<taskVars, waitVars, process, parent, live, exiting, exited,
                       exitCode, last, flagVars, events, panicked>>
     \/ ExitDecrement(t)

\* userThreadEntry: a thread killed before it first ran never enters ring 3.
ThreadStart(t) ==
  /\ Running(t) /\ pc[t] = "start"
  /\ IF kill[t] THEN ExitDecrement(t)
     ELSE /\ Goto(t, "user")
          /\ UNCHANGED <<taskVars, waitVars, progVars, flagVars, events, panicked>>

----------------------------------------------------------------------------
(***************************************************************************)
(* Exit.                                                                   *)
(***************************************************************************)

\* sysThreadExit
ThreadExit(t) == Running(t) /\ pc[t] = "user" /\ ExitDecrement(t)

\* The first exit code recorded wins.
FirstCode(p, code) == IF exiting[p] THEN exitCode ELSE [exitCode EXCEPT ![p] = code]

\* killProcessLocked and the loop of exitGroup: record the first code, flag
\* the threads in K and make the blocked ones runnable.
EndProgram(p, K, code) ==
  /\ exiting' = [exiting EXCEPT ![p] = TRUE]
  /\ exitCode' = FirstCode(p, code)
  /\ kill' = [t \in Task |-> kill[t] \/ t \in K]
  /\ Wake(Asleep(K))
  /\ UNCHANGED <<chan, sigInterrupt, events>>

\* sysExit or a fault, or deliver() taking a fatal signal on the way back to
\* ring 3: exitGroup, up to exit()'s decrement.
ExitGroup(t, code) ==
  LET p == process[t] IN
  /\ Running(t)
  /\ pc[t] = "user" \/ (pc[t] = "ret" /\ ~kill[t] /\ sigInterrupt[t])
  /\ EndProgram(p, Threads(p) \ {t}, code)
  /\ Goto(t, "exit1")
  /\ live' = [live EXCEPT ![p] = @ - 1]
  /\ last' = [last EXCEPT ![t] = (live[p] = 1)]
  /\ UNCHANGED <<process, parent, exited, space>>

\* signalProcess with SIGKILL: a program may end itself and its children.
KillProgram(t, p) ==
  /\ Running(t) /\ pc[t] = "user"
  /\ Registered(p) /\ process[p] = p /\ ~exited[p]
  /\ p = process[t] \/ parent[p] = process[t]
  /\ \E code \in ExitCodes :
       EndProgram(p, {u \in Threads(p) : state[u] # "zombie"}, code)
  /\ Goto(t, "ret")
  /\ UNCHANGED <<process, parent, live, exited, space, last>>

\* The middle of exit(): the last thread returns files, locks and sockets;
\* every thread leaves the address space.
ExitDropSpace(t) ==
  /\ Running(t) /\ pc[t] = "exit1"
  /\ Goto(t, "exit2")
  /\ space' = [space EXCEPT ![t] = FALSE]
  /\ UNCHANGED <<taskVars, waitVars, process, parent, live, exiting, exited,
                 exitCode, last, flagVars, events, panicked>>

\* Seeded fault: a leader that outlives its program wakes no one.
ExitWakesByLastOnly(t) == {u \in waiters : chan[u] = process[t] /\ last[t]}

\* Who exit() wakes: the waiters of the program, by the last thread or by a
\* leader that becomes collectable only now.
ExitWakes(t) ==
  LET p == process[t] IN
  {u \in waiters : chan[u] = p /\ (last[t] \/ (p = t /\ exited[p]))}

\* Seeded fault: an exiting program keeps its children.
KeepChildren(p) == parent

\* orphanChildrenLocked
Orphaned(p) ==
  [u \in Task |-> IF Registered(u) /\ parent[u] = p THEN Nobody ELSE parent[u]]

\* The lock-held end of exit(): publish the zombie and, for the last thread,
\* the program's exit; orphan its children; switch away for good.  The status
\* passed to exit() is chosen here, where it is first used.
ExitPublish(t) ==
  LET p == process[t]
      W == ExitWakes(t)
  IN
  /\ Running(t) /\ pc[t] = "exit2"
  /\ exited' = IF last[t] THEN [exited EXCEPT ![p] = TRUE] ELSE exited
  /\ \E code \in ExitCodes :
       exitCode' = IF last[t] THEN FirstCode(p, code) ELSE exitCode
  /\ parent' = IF last[t] THEN Orphaned(p) ELSE parent
  /\ waiters' = waiters \ W
  /\ sleepers' = sleepers \ W
  /\ IF t \in waiters \cup sleepers \cup runq \/ PushFails(W)
     THEN panicked' = TRUE /\ UNCHANGED taskVars
     ELSE \E c \in Cpu : /\ current[c] = t
                         /\ Dispatch(c, [Readied(W) EXCEPT ![t] = "zombie"],
                                     runq \cup Asleep(W), {})
  /\ UNCHANGED <<chan, process, live, exiting, space, last, flagVars, pc, events>>

----------------------------------------------------------------------------
(***************************************************************************)
(* Collection.                                                             *)
(***************************************************************************)

\* Unregister and destroy a finished record.  task.destroy asserts that the
\* address space is gone, Process.release that the last record of a program
\* goes only after its resources.
Destroy(n) ==
  /\ state' = [state EXCEPT ![n] = "gone"]
  /\ panicked' = (space[n] \/ (Threads(process[n]) = {n} /\ ~exited[process[n]]))
  /\ UNCHANGED <<current, runq>>

\* Seeded fault: the reaper forgets the records of plain threads.
ReapLeadersOnly(n) ==
  /\ parent[n] = Nobody /\ Finished(n) /\ process[n] = n
  /\ Destroy(n)
  /\ UNCHANGED <<waitVars, progVars, flagVars, pc, events>>

\* orphanReaper: takeOrphanZombie and destroy.
ReapOrphan(n) ==
  /\ parent[n] = Nobody /\ Finished(n)
  /\ Destroy(n)
  /\ UNCHANGED <<waitVars, progVars, flagVars, pc, events>>

\* sysWait with WNOHANG that finds the child finished.
CollectNoHang(t, n) ==
  /\ Running(t) /\ pc[t] = "user"
  /\ IsChild(n, process[t]) /\ Finished(n)
  /\ Destroy(n)
  /\ Goto(t, "ret")
  /\ UNCHANGED <<waitVars, progVars, flagVars, events>>

\* sysWait: enter the loop for pid n.
WaitCall(t, n) ==
  /\ Running(t) /\ pc[t] = "user"
  /\ chan' = [chan EXCEPT ![t] = n]
  /\ Goto(t, "look")
  /\ UNCHANGED <<taskVars, waiters, sleepers, progVars, flagVars, events, panicked>>

\* The head of sysWait's loop: interruptPending, then the first collectChild.
WaitLook(t) ==
  LET n == chan[t] IN
  /\ Running(t) /\ pc[t] = "look"
  /\ \/ /\ Interrupted(t) \/ ~IsChild(n, process[t])
        /\ Goto(t, "ret")
        /\ UNCHANGED <<taskVars, panicked>>
     \/ /\ ~Interrupted(t) /\ IsChild(n, process[t]) /\ Finished(n)
        /\ Destroy(n)
        /\ Goto(t, "ret")
     \/ /\ ~Interrupted(t) /\ IsChild(n, process[t]) /\ ~Finished(n)
        /\ Goto(t, "reg")
        /\ UNCHANGED <<taskVars, panicked>>
  /\ UNCHANGED <<waitVars, progVars, flagVars, events>>

\* The second collectChild, after the waiter is registered.
WaitTest(t) ==
  LET n == chan[t] IN
  /\ Running(t) /\ pc[t] = "test" /\ n \in Task
  /\ \/ /\ ~IsChild(n, process[t])
        /\ Goto(t, "cancel")
        /\ UNCHANGED <<taskVars, panicked>>
     \/ /\ IsChild(n, process[t]) /\ Finished(n)
        /\ Destroy(n)
        /\ Goto(t, "cancel")
     \/ /\ IsChild(n, process[t]) /\ ~Finished(n)
        /\ Goto(t, "commit")
        /\ UNCHANGED <<taskVars, panicked>>
  /\ UNCHANGED <<waitVars, progVars, flagVars, events>>

----------------------------------------------------------------------------
(***************************************************************************)
(* Two-phase wait and sleep.                                               *)
(***************************************************************************)

\* portRecv and its kind: start waiting for the shared object.
ReceiveCall(t) ==
  /\ Running(t) /\ pc[t] = "user"
  /\ chan' = [chan EXCEPT ![t] = Event]
  /\ Goto(t, "reg")
  /\ UNCHANGED <<taskVars, waiters, sleepers, progVars, flagVars, events, panicked>>

\* Seeded fault: the condition is not tested again after phase 1.
PrepareWithoutRetest(t) ==
  /\ Running(t) /\ pc[t] = "reg"
  /\ waiters' = waiters \cup {t}
  /\ Goto(t, "commit")
  /\ UNCHANGED <<taskVars, chan, sleepers, progVars, flagVars, events, panicked>>

\* Phase 1: join the queue for the channel while still runnable.
PrepareWait(t) ==
  /\ Running(t) /\ pc[t] = "reg"
  /\ waiters' = waiters \cup {t}
  /\ Goto(t, "test")
  /\ UNCHANGED <<taskVars, chan, sleepers, progVars, flagVars, events, panicked>>

\* The test of portRecv: take a message, give up, or go to sleep.
ReceiveTest(t) ==
  /\ Running(t) /\ pc[t] = "test" /\ chan[t] = Event
  /\ events' = IF events > 0 THEN events - 1 ELSE 0
  /\ Goto(t, IF events > 0 \/ Interrupted(t) THEN "cancel" ELSE "commit")
  /\ UNCHANGED <<taskVars, waitVars, progVars, flagVars, panicked>>

\* Seeded fault: a wait given up stays linked.
CancelStaysLinked(t) ==
  /\ Running(t) /\ pc[t] = "cancel"
  /\ Goto(t, "ret")
  /\ UNCHANGED <<taskVars, waitVars, progVars, flagVars, events, panicked>>

\* Leave the queue without sleeping.
CancelWait(t) ==
  /\ Running(t) /\ pc[t] = "cancel"
  /\ waiters' = waiters \ {t}
  /\ Goto(t, "ret")
  /\ UNCHANGED <<taskVars, chan, sleepers, progVars, flagVars, events, panicked>>

\* Where a blocking call continues after its wait: the loop head, or (a timed
\* wait) back to the caller.
AfterWait(t, timed) ==
  IF timed THEN "ret" ELSE IF chan[t] = Event THEN "reg" ELSE "look"

\* Seeded fault: commitWait does not ask whether it was woken already.
SleepAlthoughWoken(t) == ~Interrupted(t)
\* Seeded fault: commitWait does not ask for kills and signals.
SleepAlthoughKilled(t) == t \in waiters

\* commitWait's test: no wake has unlinked the task since phase 1, and there is
\* no kill or signal for it to notice.
MaySleep(t) == t \in waiters /\ ~Interrupted(t)

\* Phase 2, commitWait and commitWaitTimeout.  Only waits for the shared object
\* have a timed form.
CommitWait(t, timed) ==
  /\ Running(t) /\ pc[t] = "commit"
  /\ timed => chan[t] = Event
  /\ Goto(t, AfterWait(t, timed))
  /\ IF MaySleep(t)
     THEN /\ Block(t)
          /\ sleepers' = IF timed THEN sleepers \cup {t} ELSE sleepers
          /\ UNCHANGED waiters
     ELSE /\ waiters' = waiters \ {t}
          /\ UNCHANGED <<taskVars, sleepers, panicked>>
  /\ UNCHANGED <<chan, progVars, flagVars, events>>

\* sleepMs
Sleep(t) ==
  /\ Running(t) /\ pc[t] = "user"
  /\ Goto(t, "ret")
  /\ IF Interrupted(t)
     THEN UNCHANGED <<taskVars, sleepers, panicked>>
     ELSE Block(t) /\ sleepers' = sleepers \cup {t}
  /\ UNCHANGED <<waiters, chan, progVars, flagVars, events>>

\* tick on CPU 0: wakeExpired, for the sleepers E whose deadline has passed.
\* Deadlines are abstracted: any of them may be the ones that passed.
WakeExpired(E) ==
  /\ E # {}
  /\ Wake(E)
  /\ UNCHANGED <<chan, progVars, flagVars, pc, events>>

\* portSend: publish the message; wakeChannel is a step of its own.
Post(t) ==
  /\ Running(t) /\ pc[t] = "user" /\ events < MaxEvents
  /\ events' = events + 1
  /\ Goto(t, "post")
  /\ UNCHANGED <<taskVars, waitVars, progVars, flagVars, panicked>>

\* wakeChannelLocked for the object's channel, everyone.
WakeChannel(t) ==
  /\ Running(t) /\ pc[t] = "post"
  /\ Wake({u \in waiters : chan[u] = Event})
  /\ Goto(t, "ret")
  /\ UNCHANGED <<chan, progVars, flagVars, events>>

\* signalThread, or the one thread signalProcess picks, for a signal the
\* thread u does not block and would not discard.
SignalThread(t, u) ==
  /\ Running(t) /\ pc[t] = "user"
  /\ Registered(u) /\ state[u] # "zombie"
  /\ process[u] = process[t] \/ parent[process[u]] = process[t]
  /\ sigInterrupt' = [sigInterrupt EXCEPT ![u] = TRUE]
  /\ Wake(Asleep({u}))
  /\ Goto(t, "ret")
  /\ UNCHANGED <<chan, progVars, kill, events>>

----------------------------------------------------------------------------
\* What a thread does to come to life, end, and collect its children.
LifeStep(t) ==
  \/ Trap(t) \/ ReturnToUser(t) \/ Exec(t) \/ ThreadStart(t)
  \/ ThreadExit(t) \/ ExitDropSpace(t) \/ ExitPublish(t)
  \/ WaitLook(t) \/ WaitTest(t)
  \/ PrepareWait(t) \/ CancelWait(t) \/ CommitWait(t, FALSE)
  \/ \E code \in ExitCodes : ExitGroup(t, code)
  \/ \E n \in Task : \/ SpawnProgram(t, n) \/ SpawnThread(t, n)
                     \/ KillProgram(t, n) \/ CollectNoHang(t, n) \/ WaitCall(t, n)

\* What a thread does to communicate, to sleep and to signal.
EventStep(t) ==
  \/ ReceiveCall(t) \/ ReceiveTest(t) \/ CommitWait(t, TRUE)
  \/ Post(t) \/ WakeChannel(t) \/ Sleep(t)
  \/ \E u \in Task : SignalThread(t, u)

KernelStep ==
  \/ \E c \in Cpu : IdleDispatch(c) \/ Preempt(c)
  \/ \E E \in SUBSET sleepers : WakeExpired(E)
  \/ \E n \in Task : ReapOrphan(n)

Next ==
  /\ ~panicked
  /\ (\E t \in Task : LifeStep(t) \/ EventStep(t)) \/ KernelStep

Spec == Init /\ [][Next]_vars

----------------------------------------------------------------------------
(***************************************************************************)
(* Properties.                                                             *)
(***************************************************************************)

\* Every variable holds a value of its type, in every reachable state of the
\* scheduler's records (task.zig, Task and Process).
TypeOK ==
  /\ state \in [Task -> States]
  /\ current \in [Cpu -> Task \cup {Idle}]
  /\ runq \subseteq Task /\ waiters \subseteq Task /\ sleepers \subseteq Task
  /\ chan \in [Task -> Channels]
  /\ pc \in [Task -> Places]
  /\ process \in [Task -> Task]
  /\ parent \in [Task -> Task \cup {Nobody}]
  /\ live \in [Task -> Int]
  /\ exiting \in [Task -> BOOLEAN] /\ exited \in [Task -> BOOLEAN]
  /\ exitCode \in [Task -> ExitCodes]
  /\ space \in [Task -> BOOLEAN] /\ last \in [Task -> BOOLEAN]
  /\ kill \in [Task -> BOOLEAN] /\ sigInterrupt \in [Task -> BOOLEAN]
  /\ events \in 0..MaxEvents
  /\ panicked \in BOOLEAN

\* No interleaving of CPUs reaches schedulerBug (a task pushed twice, a queued
\* task that is not ready, a thread that exits while still linked) or fails an
\* assertion of task.destroy and Process.release.
NoPanic == ~panicked

\* A task runs on at most one CPU, and exactly the running tasks are some
\* CPU's current task: two CPUs never share a kernel stack.
OneCpu ==
  /\ \A c, d \in Cpu : current[c] = current[d] /\ current[c] \in Task => c = d
  /\ \A t \in Task : Running(t) <=> \E c \in Cpu : current[c] = t

\* The run queues hold exactly the ready tasks: none is forgotten, none is
\* queued while it runs, sleeps or is dead.
RunQueueExact == runq = {t \in Task : state[t] = "ready"}

Dispatcher == INSTANCE RunQueue WITH ready <- runq, running <- current

\* The scheduler, with creation, waits, kills and exits, implements the
\* abstract dispatcher: tasks enter the queue from outside only, a CPU takes
\* them from the queue only, and it idles only when the queue was empty.
ImplementsDispatcher == Dispatcher!Spec

\* A sleeping task is on a list some wake path walks: the wait list or the
\* sleeper list.  A task on neither would sleep forever.
BlockedHasWaker == Asleep(Task) \subseteq waiters \cup sleepers

\* Whoever ends a timed wait takes the task off the sleeper list too, so a
\* stale deadline can never make ready a task that is running or dead
\* (wakeChannelLocked's comment on unlinkSleeper).
DeadlineOnlyWhileBlocked == sleepers \subseteq Asleep(Task)

\* No lost exit: a parent asleep in sysWait is waiting for a child that is
\* registered and not collectable yet.  Whatever the order in which the
\* leader, the other threads and the parent reach their locks, the parent
\* does not sleep through the moment its child becomes collectable.
WaitingParentMisses(t) ==
  /\ state[t] = "blocked" /\ t \in waiters /\ chan[t] \in Task
  /\ ~(Registered(chan[t]) /\ ~Finished(chan[t]))
NoLostExit == \A t \in Task : ~WaitingParentMisses(t)

\* No lost wake-up: while a message is queued, a receiver is asleep only if
\* the sender is still between publishing it and wakeChannel.
NoLostWakeup ==
  \A t \in Asleep(waiters) :
    chan[t] = Event /\ events > 0 => \E u \in Task : Running(u) /\ pc[u] = "post"

\* No lost kill: a thread of a program that is being ended, other than one
\* already past its decrement, never sleeps; it notices the kill at its next
\* attempt to block.
NoLostKill ==
  \A t \in Task : kill[t] => state[t] # "blocked"

\* No record is left without a collector: the program that may collect a
\* child has not exited itself, however its exit and the spawn interleave.
\* An exited parent would never call wait, and the orphan reaper skips the
\* record (orphanChildrenLocked, takeOrphanZombie).
NoLeakedChild ==
  \A t \in Task : Registered(t) /\ parent[t] \in Task => ~exited[parent[t]]

\* "so a parent never reaps a program whose teardown is still running"
\* (task.zig 84): when a program counts as exited, none of its threads still
\* holds the address space. A thread that is not the last breaks it (README).
TeardownComplete ==
  \A p \in Task : exited[p] => \A t \in Threads(p) : ~space[t]

(***************************************************************************)
(* The inductive invariant behind the safety properties.                   *)
(***************************************************************************)

\* A task on the wait list is asleep or between the two phases of a wait.
WaitLinks ==
  \A t \in waiters :
    \/ state[t] = "blocked"
    \/ state[t] \in {"running", "ready"} /\ pc[t] \in {"test", "commit", "cancel"}

\* Only programs, never single threads, have a parent.
OnlyLeadersHaveParents ==
  \A t \in Task : Registered(t) /\ parent[t] # Nobody => process[t] = t

\* The tasks that sleep, or will unless someone unlinks them first.
Committed == {t \in waiters : state[t] = "blocked" \/ pc[t] = "commit"}

\* Program n is registered and wait() would not collect it yet.
Uncollectable(n) == Registered(n) /\ process[n] = n /\ ~Finished(n)

\* Some sender has published a message but not yet called wakeChannel.
Sending == \E u \in Task : Running(u) /\ pc[u] = "post"

\* What a committed task waits for has not happened yet: the child is not
\* collectable, the queue is empty or the sender has not called wakeChannel.
CommittedIsEarly ==
  \A t \in Committed :
    /\ chan[t] \in Task => Uncollectable(chan[t])
    /\ chan[t] = Event /\ events > 0 => Sending

IInv ==
  /\ TypeOK /\ OneCpu /\ RunQueueExact
  /\ BlockedHasWaker /\ DeadlineOnlyWhileBlocked /\ WaitLinks
  /\ NoLostKill /\ OnlyLeadersHaveParents /\ CommittedIsEarly

(***************************************************************************)
(* Liveness.  A thread that is running infinitely often takes its steps,   *)
(* a task that could be picked again and again is picked (Mlfq shows the   *)
(* picking is fair), idle CPUs look for work at every tick, and the reaper *)
(* thread keeps polling.                                                   *)
(***************************************************************************)
Picked(t) ==
  state[t] = "ready" /\ \E c \in Cpu : (IdleDispatch(c) \/ Preempt(c)) /\ current'[c] = t

Fairness ==
  \A t \in Task :
    /\ SF_vars(~panicked /\ (LifeStep(t) \/ EventStep(t)))
    /\ SF_vars(~panicked /\ Picked(t))
    /\ WF_vars(~panicked /\ ReapOrphan(t))

FairSpec == Spec /\ Fairness

\* Every exited program without a parent is freed by the orphan reaper, with
\* all of its thread records.
OrphansFreed ==
  \A p \in Task : exited[p] /\ parent[p] = Nobody ~> Threads(p) = {}

=============================================================================
