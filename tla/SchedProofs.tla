---------------------------- MODULE SchedProofs ----------------------------
(***************************************************************************)
(* Proofs about Sched for any number of CPUs, tasks, events and programs:  *)
(* the safety properties of queues and waits follow from IInv, those of    *)
(* programs from LInv, and Sched implements RunQueue.                      *)
(***************************************************************************)
EXTENDS Sched, FiniteSetTheorems, TLAPS

(***************************************************************************)
(* Lemmas about the pieces of a lock-held section.                         *)
(***************************************************************************)

\* The effect of pickNext and switchTo on a section that has already taken
\* CPU c's task out of the running state.  One task at most changes state,
\* from ready to running, and placement is exact again.
LEMMA DispatchEffect ==
  ASSUME ConstantsAssumption, TypeOK, NEW c \in Cpu,
         NEW st \in [Task -> States], NEW rq \in SUBSET Task, NEW back \in SUBSET Task,
         rq \cap back = {},
         rq \cup back = {u \in Task : st[u] = "ready"},
         \A d, e \in Cpu : current[d] = current[e] /\ current[d] \in Task => d = e,
         \A u \in Task : st[u] = "running" <=> \E d \in Cpu \ {c} : current[d] = u,
         Dispatch(c, st, rq, back)
  PROVE  /\ state' \in [Task -> States]
         /\ current' \in [Cpu -> Task \cup {Idle}]
         /\ runq' \subseteq Task
         /\ panicked' = FALSE
         /\ OneCpu' /\ RunQueueExact'
         /\ \A u \in Task : state'[u] = st[u] \/ (st[u] = "ready" /\ state'[u] = "running")
<1> USE DEF TypeOK, States
<1>1. CASE /\ rq = {}
           /\ current' = [current EXCEPT ![c] = Idle]
           /\ state' = st
           /\ runq' = back
           /\ panicked' = FALSE
  <2>1. OneCpu'
    BY <1>1 DEF OneCpu, Running, ConstantsAssumption
  <2> QED
    BY <1>1, <2>1 DEF RunQueueExact
<1>2. ASSUME NEW n \in rq,
             current' = [current EXCEPT ![c] = n],
             state' = [st EXCEPT ![n] = "running"],
             runq' = (rq \ {n}) \cup back,
             panicked' = (st[n] # "ready" \/ back \cap rq # {})
      PROVE  /\ state' \in [Task -> States]
             /\ current' \in [Cpu -> Task \cup {Idle}]
             /\ runq' \subseteq Task
             /\ panicked' = FALSE
             /\ OneCpu' /\ RunQueueExact'
             /\ \A u \in Task : state'[u] = st[u] \/ (st[u] = "ready" /\ state'[u] = "running")
  <2>1. n \in Task /\ st[n] = "ready"
    BY <1>2
  <2>2. \A d \in Cpu \ {c} : current[d] # n
    BY <2>1
  <2>3. OneCpu'
    BY <1>2, <2>1, <2>2 DEF OneCpu, Running
  <2>4. RunQueueExact'
    BY <1>2, <2>1 DEF RunQueueExact
  <2>5. state' \in [Task -> States] /\ current' \in [Cpu -> Task \cup {Idle}]
    BY <1>2, <2>1
  <2>6. runq' \subseteq Task /\ panicked' = FALSE
    BY ZenonT(40), <1>2, <2>1
  <2>7. \A u \in Task : state'[u] = st[u] \/ (st[u] = "ready" /\ state'[u] = "running")
    BY <1>2, <2>1
  <2> HIDE DEF TypeOK, States
  <2> QED
    BY <2>3, <2>4, <2>5, <2>6, <2>7
<1> QED
  BY <1>1, <1>2 DEF Dispatch

\* The effect of waking W: its sleeping members become ready and are queued.
LEMMA WakeEffect ==
  ASSUME TypeOK, OneCpu, RunQueueExact, NEW W \in SUBSET Task, Wake(W)
  PROVE  /\ state' \in [Task -> States]
         /\ current' \in [Cpu -> Task \cup {Idle}]
         /\ runq' \subseteq Task
         /\ panicked' = FALSE
         /\ OneCpu' /\ RunQueueExact'
         /\ waiters' = waiters \ W
         /\ sleepers' = sleepers \ W
         /\ \A u \in Task :
              state'[u] = IF u \in W /\ state[u] = "blocked" THEN "ready" ELSE state[u]
<1> USE DEF TypeOK, States, Wake, Readied, Asleep, PushFails
<1>1. \A u \in Task :
        state'[u] = IF u \in W /\ state[u] = "blocked" THEN "ready" ELSE state[u]
  OBVIOUS
<1>2. state' \in [Task -> States]
  OBVIOUS
<1>3. OneCpu'
  BY <1>1 DEF OneCpu, Running
<1>4. RunQueueExact'
  BY <1>1 DEF RunQueueExact
<1>5. panicked' = FALSE
  BY DEF RunQueueExact
<1> QED
  BY <1>1, <1>2, <1>3, <1>4, <1>5

\* The effect of a running task going to sleep.
LEMMA BlockEffect ==
  ASSUME ConstantsAssumption, TypeOK, OneCpu, RunQueueExact,
         NEW t \in Task, Running(t), Block(t)
  PROVE  /\ state' \in [Task -> States]
         /\ current' \in [Cpu -> Task \cup {Idle}]
         /\ runq' \subseteq Task
         /\ panicked' = FALSE
         /\ OneCpu' /\ RunQueueExact'
         /\ state'[t] = "blocked"
         /\ \A u \in Task \ {t} :
              state'[u] = state[u] \/ (state[u] = "ready" /\ state'[u] = "running")
<1>1. PICK c \in Cpu : /\ current[c] = t
                       /\ Dispatch(c, [state EXCEPT ![t] = "blocked"], runq, {})
  BY DEF Block
<1> DEFINE st == [state EXCEPT ![t] = "blocked"]
<1>2. /\ st \in [Task -> States] /\ st[t] = "blocked"
      /\ \A u \in Task \ {t} : st[u] = state[u]
  BY DEF TypeOK, States
<1>3. runq \cup {} = {u \in Task : st[u] = "ready"}
  BY <1>2 DEF RunQueueExact, Running
<1>4. \A u \in Task : st[u] = "running" <=> \E d \in Cpu \ {c} : current[d] = u
  BY <1>1, <1>2 DEF OneCpu, Running
<1>5. Dispatch(c, st, runq, {})
  BY <1>1
<1>6. \A d, e \in Cpu : current[d] = current[e] /\ current[d] \in Task => d = e
  BY DEF OneCpu
<1> HIDE DEF st
<1>7. /\ state' \in [Task -> States]
      /\ current' \in [Cpu -> Task \cup {Idle}]
      /\ runq' \subseteq Task
      /\ panicked' = FALSE
      /\ OneCpu' /\ RunQueueExact'
      /\ \A u \in Task : state'[u] = st[u] \/ (st[u] = "ready" /\ state'[u] = "running")
  <2>1. runq \in SUBSET Task /\ {} \in SUBSET Task /\ runq \cap {} = {}
    BY DEF TypeOK
  <2> QED
    BY <1>2, <1>3, <1>4, <1>5, <1>6, <2>1, DispatchEffect, ZenonT(60)
<1> QED
  BY <1>2, <1>7

(***************************************************************************)
(* Actions that leave the placement of tasks and the lists alone.          *)
(***************************************************************************)

\* A running thread that moves between places other than the ones a waiter or
\* a sender occupies disturbs nothing but its own pc.
LEMMA QuietStep ==
  ASSUME ConstantsAssumption, IInv, NEW t \in Task,
         Running(t), pc[t] # "post", pc' \in [Task -> Places],
         \A u \in Task \ {t} : pc'[u] = pc[u],
         t \in waiters => pc'[t] \in {"test", "cancel"},
         TypeOK', UNCHANGED <<state, current, runq, waiters, sleepers, process, exited, kill>>,
         \A u \in Task \ {t} : chan'[u] = chan[u],
         events' <= events,
         \A u \in Task : parent'[u] = parent[u] \/ parent'[u] = Nobody
  PROVE  IInv'
<1> USE DEF IInv
<1>1. OneCpu' /\ RunQueueExact'
  BY DEF OneCpu, RunQueueExact, Running
<1>2. BlockedHasWaker' /\ DeadlineOnlyWhileBlocked' /\ NoLostKill'
  BY DEF BlockedHasWaker, DeadlineOnlyWhileBlocked, NoLostKill, Asleep
<1>3. WaitLinks'
  BY DEF WaitLinks, Running, TypeOK
<1>4. OnlyLeadersHaveParents'
  BY DEF OnlyLeadersHaveParents, Registered
<1>5. CommittedIsEarly'
  <2> SUFFICES ASSUME NEW u \in Task, (u \in Committed)'
               PROVE  /\ (chan[u] \in Task => Uncollectable(chan[u]))'
                      /\ (chan[u] = Event /\ events > 0 => Sending)'
    BY DEF CommittedIsEarly, Committed, TypeOK
  <2>1. u \in Committed /\ u # t
    BY DEF Committed, TypeOK, Running
  <2>2. /\ chan[u] \in Task => Uncollectable(chan[u])
        /\ chan[u] = Event /\ events > 0 => Sending
    BY <2>1 DEF CommittedIsEarly
  <2>3. chan'[u] = chan[u]
    BY <2>1
  <2>4. events' > 0 => events > 0
    BY DEF TypeOK, ConstantsAssumption
  <2>5. Sending => Sending'
    BY DEF Sending, Running
  <2>6. (chan[u] \in Task /\ Uncollectable(chan[u])) => Uncollectable(chan[u])'
    BY <2>3 DEF Uncollectable, Registered, Finished
  <2> QED
    BY <2>2, <2>3, <2>4, <2>5, <2>6
<1> QED
  BY <1>1, <1>2, <1>3, <1>4, <1>5

\* A running task outside the two phases of a wait is on no list.
LEMMA RunningIsUnlinked ==
  ASSUME IInv, NEW t \in Task, Running(t), pc[t] \notin {"test", "commit", "cancel"}
  PROVE  t \notin waiters
BY DEF IInv, WaitLinks, Running

\* A timer tick in ring 3 only moves the thread to the return path.
LEMMA TrapStep ==
  ASSUME ConstantsAssumption, IInv, NEW t \in Task, Trap(t)
  PROVE  IInv'
<1> USE DEF Trap, Goto, taskVars, waitVars, progVars, flagVars
<1>1. t \notin waiters
  BY RunningIsUnlinked
<1>2. TypeOK'
  BY DEF IInv, TypeOK, Places
<1> QED
  BY <1>1, <1>2, QuietStep DEF IInv, TypeOK

\* exit()'s decrement of live_threads.
LEMMA ExitDecrementStep ==
  ASSUME ConstantsAssumption, IInv, NEW t \in Task, Running(t),
         pc[t] \in {"user", "ret", "exec", "start"}, ExitDecrement(t)
  PROVE  IInv'
<1> USE DEF ExitDecrement, Goto, taskVars, waitVars, progVars, flagVars
<1>1. t \notin waiters
  BY RunningIsUnlinked
<1>2. TypeOK'
  BY DEF IInv, TypeOK, Places
<1> QED
  BY <1>1, <1>2, QuietStep DEF IInv, TypeOK

\* The way back to ring 3: into exit() when killed, else to the program.
LEMMA ReturnToUserStep ==
  ASSUME ConstantsAssumption, IInv, NEW t \in Task, ReturnToUser(t)
  PROVE  IInv'
<1>1. CASE kill[t]
  BY <1>1, ExitDecrementStep DEF ReturnToUser
<1>2. CASE ~kill[t]
  <2> USE <1>2 DEF ReturnToUser, Goto, taskVars, waitVars, progVars, flagVars
  <2>1. t \notin waiters
    BY RunningIsUnlinked
  <2>2. TypeOK'
    BY DEF IInv, TypeOK, Places, Channels
  <2> QED
    BY SMTT(30), <2>1, <2>2, QuietStep DEF IInv, TypeOK
<1> QED
  BY <1>1, <1>2

\* Loading the program, with either outcome.
LEMMA ExecStep ==
  ASSUME ConstantsAssumption, IInv, NEW t \in Task, Exec(t)
  PROVE  IInv'
<1>1. CASE ExitDecrement(t)
  BY <1>1, ExitDecrementStep DEF Exec
<1>2. CASE ~ExitDecrement(t)
  <2> USE <1>2 DEF Exec, Goto, taskVars, waitVars, progVars, flagVars
  <2>1. t \notin waiters
    BY RunningIsUnlinked
  <2>2. TypeOK'
    BY DEF IInv, TypeOK, Places
  <2> QED
    BY <2>1, <2>2, QuietStep, SMTT(40) DEF IInv, TypeOK
<1> QED
  BY <1>1, <1>2

\* The first step of a thread: into exit() when killed, else to ring 3.
LEMMA ThreadStartStep ==
  ASSUME ConstantsAssumption, IInv, NEW t \in Task, ThreadStart(t)
  PROVE  IInv'
<1>1. CASE kill[t]
  BY <1>1, ExitDecrementStep DEF ThreadStart
<1>2. CASE ~kill[t]
  <2> USE <1>2 DEF ThreadStart, Goto, taskVars, waitVars, progVars, flagVars
  <2>1. t \notin waiters
    BY RunningIsUnlinked
  <2>2. TypeOK'
    BY DEF IInv, TypeOK, Places
  <2> QED
    BY SMTT(30), <2>1, <2>2, QuietStep DEF IInv, TypeOK
<1> QED
  BY <1>1, <1>2

\* The middle of exit(): the address space is dropped.
LEMMA ExitDropSpaceStep ==
  ASSUME ConstantsAssumption, IInv, NEW t \in Task, ExitDropSpace(t)
  PROVE  IInv'
<1> USE DEF ExitDropSpace, Goto, taskVars, waitVars, progVars, flagVars
<1>1. t \notin waiters
  BY RunningIsUnlinked
<1>2. TypeOK'
  BY DEF IInv, TypeOK, Places
<1> QED
  BY <1>1, <1>2, QuietStep DEF IInv, TypeOK

\* Entering a blocking call: the channel is set while on no list.
LEMMA CallStep ==
  ASSUME ConstantsAssumption, IInv, NEW t \in Task, NEW n \in Task,
         WaitCall(t, n) \/ ReceiveCall(t)
  PROVE  IInv'
<1> USE DEF WaitCall, ReceiveCall, Goto, taskVars, waitVars, progVars, flagVars
<1>1. t \notin waiters
  BY RunningIsUnlinked
<1>2. TypeOK'
  BY DEF IInv, TypeOK, Places, Channels
<1> QED
  BY SMTT(30), <1>1, <1>2, QuietStep DEF IInv, TypeOK

(***************************************************************************)
(* Collection of a finished record.                                        *)
(***************************************************************************)

\* Freeing the record of a finished task disturbs no one: it is on no list and
\* nobody is committed to waiting for it.
LEMMA DestroyStep ==
  ASSUME ConstantsAssumption, IInv, NEW n \in Task, Finished(n), Destroy(n),
         TypeOK', pc' \in [Task -> Places],
         NEW t \in Task, Running(t) \/ pc' = pc, pc[t] # "post" \/ pc' = pc,
         \A u \in Task \ {t} : pc'[u] = pc[u],
         pc' = pc \/ (t \in waiters => pc'[t] = "cancel"),
         UNCHANGED <<waitVars, progVars, flagVars, events>>
  PROVE  IInv'
<1> USE DEF IInv, Destroy, Finished, waitVars, progVars, flagVars
<1>0. /\ state'[n] = "gone" /\ state[n] = "zombie" /\ runq' = runq /\ current' = current
      /\ \A u \in Task \ {n} : state'[u] = state[u]
  BY DEF TypeOK
<1>1. OneCpu' /\ RunQueueExact'
  BY <1>0 DEF OneCpu, RunQueueExact, Running
<1>2. BlockedHasWaker' /\ DeadlineOnlyWhileBlocked' /\ NoLostKill'
  BY <1>0 DEF BlockedHasWaker, DeadlineOnlyWhileBlocked, NoLostKill, Asleep
<1>3. WaitLinks'
  BY <1>0 DEF WaitLinks, Running, TypeOK
<1>4. OnlyLeadersHaveParents'
  BY <1>0 DEF OnlyLeadersHaveParents, Registered
<1>5. CommittedIsEarly'
  <2> SUFFICES ASSUME NEW u \in Task, (u \in Committed)'
               PROVE  /\ (chan[u] \in Task => Uncollectable(chan[u]))'
                      /\ (chan[u] = Event /\ events > 0 => Sending)'
    BY DEF CommittedIsEarly, Committed, TypeOK
  <2>1. u \in Committed
    BY <1>0 DEF Committed, TypeOK, Running, WaitLinks
  <2>2. /\ chan[u] \in Task => Uncollectable(chan[u])
        /\ chan[u] = Event /\ events > 0 => Sending
    BY <2>1 DEF CommittedIsEarly
  <2>3. chan[u] # n
    BY <2>2 DEF Uncollectable
  <2>4. Sending => Sending'
    BY <1>0 DEF Sending, Running
  <2>5. (chan[u] \in Task /\ Uncollectable(chan[u])) => Uncollectable(chan[u])'
    BY <1>0, <2>3 DEF Uncollectable, Registered
  <2> QED
    BY <2>2, <2>4, <2>5
<1> QED
  BY <1>1, <1>2, <1>3, <1>4, <1>5

\* The orphan reaper frees a record.
LEMMA ReapOrphanStep ==
  ASSUME ConstantsAssumption, IInv, NEW n \in Task, ReapOrphan(n)
  PROVE  IInv'
<1> USE DEF ReapOrphan, Destroy, waitVars, progVars, flagVars
<1>1. TypeOK'
  BY DEF IInv, TypeOK, States
<1> QED
  BY <1>1, DestroyStep DEF IInv, TypeOK

\* sysWait with WNOHANG frees a finished child.
LEMMA CollectNoHangStep ==
  ASSUME ConstantsAssumption, IInv, NEW t \in Task, NEW n \in Task, CollectNoHang(t, n)
  PROVE  IInv'
<1> USE DEF CollectNoHang, Destroy, Goto, waitVars, progVars, flagVars
<1>1. TypeOK'
  BY DEF IInv, TypeOK, States, Places
<1>2. t \notin waiters
  BY RunningIsUnlinked
<1> QED
  BY <1>1, <1>2, DestroyStep DEF IInv, TypeOK

\* The first look of sysWait, with each of its outcomes.
LEMMA WaitLookStep ==
  ASSUME ConstantsAssumption, IInv, NEW t \in Task, WaitLook(t)
  PROVE  IInv'
<1>0. /\ Running(t) /\ pc[t] = "look" /\ t \notin waiters
      /\ UNCHANGED <<waitVars, progVars, flagVars, events>>
  BY RunningIsUnlinked DEF WaitLook
<1>1. CASE UNCHANGED <<taskVars, panicked>> /\ (Goto(t, "ret") \/ Goto(t, "reg"))
  <2> USE <1>0, <1>1 DEF Goto, taskVars, waitVars, progVars, flagVars
  <2>1. TypeOK'
    BY DEF IInv, TypeOK, Places
  <2> QED
    BY SMTT(30), <2>1, QuietStep DEF IInv, TypeOK
<1>2. CASE /\ IsChild(chan[t], process[t]) /\ Finished(chan[t])
           /\ Destroy(chan[t]) /\ Goto(t, "ret")
  <2> USE <1>0, <1>2 DEF Goto, Destroy, waitVars, progVars, flagVars
  <2>1. TypeOK'
    BY DEF IInv, TypeOK, States, Places
  <2>2. chan[t] \in Task \/ state' = state
    BY DEF IInv, TypeOK
  <2>3. CASE chan[t] \in Task
    BY <2>1, <2>3, DestroyStep DEF IInv, TypeOK
  <2>4. CASE chan[t] \notin Task
    <3>1. UNCHANGED <<state, current, runq>>
      BY <2>2, <2>4
    <3> QED
      BY <2>1, <3>1, QuietStep DEF IInv, TypeOK
  <2> QED
    BY <2>3, <2>4
<1> QED
  BY <1>1, <1>2 DEF WaitLook

\* The step into the committed place: what the task waits for is checked at
\* that very moment, under the lock.
LEMMA CommitStep ==
  ASSUME ConstantsAssumption, IInv, NEW t \in Task,
         Running(t), pc[t] = "test", pc' = [pc EXCEPT ![t] = "commit"],
         chan[t] \in Task => Uncollectable(chan[t]),
         chan[t] = Event => events = 0,
         UNCHANGED <<taskVars, waitVars, progVars, flagVars, events, panicked>>
  PROVE  IInv'
<1> USE DEF IInv, taskVars, waitVars, progVars, flagVars
<1>0. TypeOK'
  BY DEF TypeOK, Places
<1>1. OneCpu' /\ RunQueueExact'
  BY DEF OneCpu, RunQueueExact, Running
<1>2. BlockedHasWaker' /\ DeadlineOnlyWhileBlocked' /\ NoLostKill'
  BY DEF BlockedHasWaker, DeadlineOnlyWhileBlocked, NoLostKill, Asleep
<1>3. WaitLinks'
  BY DEF WaitLinks, Running, TypeOK
<1>4. OnlyLeadersHaveParents'
  BY DEF OnlyLeadersHaveParents, Registered
<1>5. CommittedIsEarly'
  <2> SUFFICES ASSUME NEW u \in Task, (u \in Committed)'
               PROVE  /\ (chan[u] \in Task => Uncollectable(chan[u]))'
                      /\ (chan[u] = Event /\ events > 0 => Sending)'
    BY DEF CommittedIsEarly, Committed, TypeOK
  <2>1. u \in Committed \/ u = t
    BY DEF Committed, TypeOK
  <2>2. /\ chan[u] \in Task => Uncollectable(chan[u])
        /\ chan[u] = Event /\ events > 0 => Sending
    BY <2>1 DEF CommittedIsEarly
  <2>3. Sending => Sending'
    BY DEF Sending, Running, TypeOK
  <2>4. (chan[u] \in Task /\ Uncollectable(chan[u])) => Uncollectable(chan[u])'
    BY DEF Uncollectable, Registered, Finished
  <2> QED
    BY <2>2, <2>3, <2>4
<1> QED
  BY <1>0, <1>1, <1>2, <1>3, <1>4, <1>5

\* The second look of sysWait: collect, give up or commit.
LEMMA WaitTestStep ==
  ASSUME ConstantsAssumption, IInv, NEW t \in Task, WaitTest(t)
  PROVE  IInv'
<1>0. /\ Running(t) /\ pc[t] = "test" /\ chan[t] \in Task
      /\ UNCHANGED <<waitVars, progVars, flagVars, events>>
  BY DEF WaitTest
<1>1. CASE UNCHANGED <<taskVars, panicked>> /\ Goto(t, "cancel")
  <2> USE <1>0, <1>1 DEF Goto, taskVars, waitVars, progVars, flagVars
  <2>1. TypeOK'
    BY DEF IInv, TypeOK, Places
  <2> QED
    BY <2>1, QuietStep DEF IInv, TypeOK
<1>2. CASE Finished(chan[t]) /\ Destroy(chan[t]) /\ Goto(t, "cancel")
  <2> USE <1>0, <1>2 DEF Goto, Destroy, waitVars, progVars, flagVars
  <2>1. TypeOK'
    BY DEF IInv, TypeOK, States, Places
  <2> QED
    BY <2>1, DestroyStep DEF IInv, TypeOK
<1>3. CASE /\ UNCHANGED <<taskVars, panicked>> /\ Goto(t, "commit")
           /\ IsChild(chan[t], process[t]) /\ ~Finished(chan[t])
  <2>1. Uncollectable(chan[t])
    BY <1>0, <1>3 DEF Uncollectable, IsChild, IInv, OnlyLeadersHaveParents, TypeOK,
                      ConstantsAssumption
  <2>2. chan[t] # Event
    BY <1>0 DEF ConstantsAssumption
  <2> QED
    BY <1>0, <1>3, <2>1, <2>2, CommitStep DEF Goto
<1> QED
  BY <1>1, <1>2, <1>3 DEF WaitTest

\* portRecv's test: take a message, give up or commit.
LEMMA ReceiveTestStep ==
  ASSUME ConstantsAssumption, IInv, NEW t \in Task, ReceiveTest(t)
  PROVE  IInv'
<1>0. /\ Running(t) /\ pc[t] = "test" /\ chan[t] = Event
      /\ events \in 0..MaxEvents /\ events' \in 0..MaxEvents /\ events' <= events
      /\ UNCHANGED <<taskVars, waitVars, progVars, flagVars, panicked>>
  BY DEF ReceiveTest, IInv, TypeOK, ConstantsAssumption
<1>1. CASE Goto(t, "cancel")
  <2> USE <1>0, <1>1 DEF Goto, taskVars, waitVars, progVars, flagVars
  <2>1. TypeOK'
    BY DEF IInv, TypeOK, Places
  <2> QED
    BY <2>1, QuietStep DEF IInv, TypeOK
<1>2. CASE Goto(t, "commit") /\ events = 0
  <2>1. events' = 0
    BY <1>0, <1>2 DEF ConstantsAssumption
  <2>2. chan[t] \notin Task
    BY <1>0 DEF ConstantsAssumption
  <2> QED
    BY <1>0, <1>2, <2>1, <2>2, CommitStep DEF Goto
<1> QED
  BY <1>0, <1>1, <1>2 DEF ReceiveTest, ConstantsAssumption

(***************************************************************************)
(* Actions that join or leave the wait list without sleeping, or post.     *)
(***************************************************************************)

\* Phase 1 of a wait, leaving it again, and a commitWait that does not sleep.
LEMMA WaitListStep ==
  ASSUME ConstantsAssumption, IInv, NEW t \in Task,
         Running(t), pc[t] # "post", NEW place \in Places \ {"commit"},
         pc' = [pc EXCEPT ![t] = place],
         \/ waiters' = waiters \ {t}
         \/ waiters' = waiters \cup {t} /\ place = "test",
         UNCHANGED <<taskVars, chan, sleepers, progVars, flagVars, events, panicked>>
  PROVE  IInv'
<1> USE DEF IInv, taskVars, progVars, flagVars
<1>0. TypeOK'
  BY DEF TypeOK
<1>1. OneCpu' /\ RunQueueExact'
  BY DEF OneCpu, RunQueueExact, Running
<1>2. BlockedHasWaker' /\ DeadlineOnlyWhileBlocked' /\ NoLostKill'
  BY DEF BlockedHasWaker, DeadlineOnlyWhileBlocked, NoLostKill, Asleep, Running
<1>3. WaitLinks'
  BY DEF WaitLinks, Running, TypeOK
<1>4. OnlyLeadersHaveParents'
  BY DEF OnlyLeadersHaveParents, Registered
<1>5. CommittedIsEarly'
  <2> SUFFICES ASSUME NEW u \in Task, (u \in Committed)'
               PROVE  /\ (chan[u] \in Task => Uncollectable(chan[u]))'
                      /\ (chan[u] = Event /\ events > 0 => Sending)'
    BY DEF CommittedIsEarly, Committed, TypeOK
  <2>1. u \in Committed /\ u # t
    BY DEF Committed, TypeOK, Running
  <2>2. /\ chan[u] \in Task => Uncollectable(chan[u])
        /\ chan[u] = Event /\ events > 0 => Sending
    BY <2>1 DEF CommittedIsEarly
  <2>3. Sending => Sending'
    BY DEF Sending, Running, TypeOK
  <2>4. (chan[u] \in Task /\ Uncollectable(chan[u])) => Uncollectable(chan[u])'
    BY DEF Uncollectable, Registered, Finished
  <2> QED
    BY <2>2, <2>3, <2>4
<1> QED
  BY <1>0, <1>1, <1>2, <1>3, <1>4, <1>5

\* prepareWait and cancelWait.
LEMMA PrepareCancelStep ==
  ASSUME ConstantsAssumption, IInv, NEW t \in Task, PrepareWait(t) \/ CancelWait(t)
  PROVE  IInv'
BY WaitListStep DEF PrepareWait, CancelWait, Goto, Places

\* portSend's publication: its sender has yet to call wakeChannel.
LEMMA PostStep ==
  ASSUME ConstantsAssumption, IInv, NEW t \in Task, Post(t)
  PROVE  IInv'
<1> USE DEF IInv, Post, Goto, taskVars, waitVars, progVars, flagVars
<1>0. TypeOK'
  BY DEF TypeOK, Places, ConstantsAssumption
<1>1. OneCpu' /\ RunQueueExact'
  BY DEF OneCpu, RunQueueExact, Running
<1>2. BlockedHasWaker' /\ DeadlineOnlyWhileBlocked' /\ NoLostKill'
  BY DEF BlockedHasWaker, DeadlineOnlyWhileBlocked, NoLostKill, Asleep, Running
<1>3. WaitLinks'
  BY DEF WaitLinks, Running, TypeOK
<1>4. OnlyLeadersHaveParents'
  BY DEF OnlyLeadersHaveParents, Registered
<1>5. CommittedIsEarly'
  <2> SUFFICES ASSUME NEW u \in Task, (u \in Committed)'
               PROVE  /\ (chan[u] \in Task => Uncollectable(chan[u]))'
                      /\ (chan[u] = Event /\ events > 0 => Sending)'
    BY DEF CommittedIsEarly, Committed, TypeOK
  <2>1. u \in Committed
    BY DEF Committed, TypeOK, Running
  <2>2. chan[u] \in Task => Uncollectable(chan[u])
    BY <2>1 DEF CommittedIsEarly
  <2>3. Sending'
    BY DEF Sending, Running, TypeOK
  <2>4. (chan[u] \in Task /\ Uncollectable(chan[u])) => Uncollectable(chan[u])'
    BY DEF Uncollectable, Registered, Finished
  <2> QED
    BY <2>2, <2>3, <2>4
<1> QED
  BY <1>0, <1>1, <1>2, <1>3, <1>4, <1>5

(***************************************************************************)
(* Creation.                                                               *)
(***************************************************************************)

\* A new record was on no list before, and nobody waits for it yet.
LEMMA PublishStep ==
  ASSUME ConstantsAssumption, IInv, NEW t \in Task, NEW n \in Task,
         Running(t), pc[t] = "user", Publish(n),
         TypeOK',
         process'[n] = n \/ parent'[n] = Nobody,
         \A u \in Task \ {n} : process'[u] = process[u] /\ parent'[u] = parent[u],
         \A u \in Task \ {t, n} : pc'[u] = pc[u],
         pc'[t] = "ret"
  PROVE  IInv'
<1> USE DEF IInv, Publish, waitVars, flagVars
<1>0. /\ state[n] = "none" /\ state'[n] = "ready" /\ current' = current
      /\ \A u \in Task \ {n} : state'[u] = state[u]
  BY DEF TypeOK
<1>1. OneCpu' /\ RunQueueExact'
  BY <1>0 DEF OneCpu, RunQueueExact, Running, TypeOK
<1>2. n \notin waiters /\ n \notin sleepers
  BY <1>0 DEF WaitLinks, DeadlineOnlyWhileBlocked, Asleep
<1>3. ~kill[n] \/ state'[n] # "blocked"
  BY <1>0
<1>4. BlockedHasWaker' /\ DeadlineOnlyWhileBlocked' /\ NoLostKill'
  BY <1>0, <1>2, <1>3 DEF BlockedHasWaker, DeadlineOnlyWhileBlocked, NoLostKill, Asleep
<1>5. WaitLinks'
  BY <1>0, <1>2 DEF WaitLinks, Running, TypeOK
<1>6. OnlyLeadersHaveParents'
  BY <1>0 DEF OnlyLeadersHaveParents, Registered
<1>7. CommittedIsEarly'
  <2> SUFFICES ASSUME NEW u \in Task, (u \in Committed)'
               PROVE  /\ (chan[u] \in Task => Uncollectable(chan[u]))'
                      /\ (chan[u] = Event /\ events > 0 => Sending)'
    BY DEF CommittedIsEarly, Committed, TypeOK
  <2>1. u \in Committed
    BY <1>0, <1>2, RunningIsUnlinked DEF Committed, TypeOK, Running
  <2>2. /\ chan[u] \in Task => Uncollectable(chan[u])
        /\ chan[u] = Event /\ events > 0 => Sending
    BY <2>1 DEF CommittedIsEarly
  <2>3. chan[u] # n
    BY <1>0, <2>2 DEF Uncollectable, Registered
  <2>4. Sending => Sending'
    BY <1>0 DEF Sending, Running
  <2>5. (chan[u] \in Task /\ Uncollectable(chan[u])) => Uncollectable(chan[u])'
    BY <1>0, <2>3 DEF Uncollectable, Registered, Finished
  <2> QED
    BY <2>2, <2>4, <2>5
<1> QED
  BY <1>1, <1>4, <1>5, <1>6, <1>7

\* spawnProcess publishes a record that leads its own program.
LEMMA SpawnProgramStep ==
  ASSUME ConstantsAssumption, IInv, NEW t \in Task, NEW n \in Task, SpawnProgram(t, n)
  PROVE  IInv'
<1> USE DEF SpawnProgram
<1>1. t # n
  BY DEF Publish, Running
<1>2. TypeOK'
  BY DEF IInv, TypeOK, Publish, States, Places, waitVars, flagVars
<1>3. /\ process'[n] = n
      /\ \A u \in Task \ {n} : process'[u] = process[u] /\ parent'[u] = parent[u]
      /\ \A u \in Task \ {t, n} : pc'[u] = pc[u]
      /\ pc'[t] = "ret"
  BY <1>1 DEF IInv, TypeOK
<1>4. Running(t) /\ pc[t] = "user" /\ Publish(n)
  OBVIOUS
<1> QED
  BY <1>2, <1>3, <1>4, PublishStep

\* spawnUserThread publishes a record without a parent.
LEMMA SpawnThreadStep ==
  ASSUME ConstantsAssumption, IInv, NEW t \in Task, NEW n \in Task, SpawnThread(t, n)
  PROVE  IInv'
<1> USE DEF SpawnThread
<1>1. t # n
  BY DEF Publish, Running
<1>2. TypeOK'
  BY DEF IInv, TypeOK, Publish, States, Places, waitVars, flagVars
<1>3. /\ parent'[n] = Nobody
      /\ \A u \in Task \ {n} : process'[u] = process[u] /\ parent'[u] = parent[u]
      /\ \A u \in Task \ {t, n} : pc'[u] = pc[u]
      /\ pc'[t] = "ret"
  BY <1>1 DEF IInv, TypeOK
<1>4. Running(t) /\ pc[t] = "user" /\ Publish(n)
  OBVIOUS
<1> QED
  BY <1>2, <1>3, <1>4, PublishStep

(***************************************************************************)
(* Wakes.                                                                  *)
(***************************************************************************)

\* Waking a set of tasks.  Kills may be raised for tasks that are woken or not
\* asleep; a sender leaves its place only if it wakes every receiver.
LEMMA WakeStep ==
  ASSUME ConstantsAssumption, IInv, NEW W \in SUBSET Task, Wake(W),
         TypeOK',
         NEW t \in Task, Running(t) \/ pc' = pc, t \notin waiters \/ pc' = pc,
         \A u \in Task \ {t} : pc'[u] = pc[u],
         pc' = pc \/ pc[t] # "post" \/ {u \in waiters : chan[u] = Event} \subseteq W,
         \A u \in Task : kill'[u] => kill[u] \/ u \in W \/ state[u] # "blocked",
         UNCHANGED <<chan, events, process, parent, exited>>
  PROVE  IInv'
<1> USE DEF IInv
<1>0. /\ OneCpu' /\ RunQueueExact'
      /\ waiters' = waiters \ W
      /\ sleepers' = sleepers \ W
      /\ \A u \in Task :
           state'[u] = IF u \in W /\ state[u] = "blocked" THEN "ready" ELSE state[u]
  BY WakeEffect
<1>1. BlockedHasWaker'
  BY <1>0 DEF BlockedHasWaker, Asleep
<1>2. DeadlineOnlyWhileBlocked'
  BY <1>0 DEF DeadlineOnlyWhileBlocked, Asleep
<1>3. NoLostKill'
  BY <1>0 DEF NoLostKill
<1>4. WaitLinks'
  <2> SUFFICES ASSUME NEW u \in waiters'
               PROVE  (\/ state[u] = "blocked"
                       \/ state[u] \in {"running", "ready"} /\ pc[u] \in {"test", "commit", "cancel"})'
    BY DEF WaitLinks
  <2>1. u \in waiters /\ u \in Task /\ u \notin W
    BY <1>0 DEF TypeOK
  <2>2. pc'[u] = pc[u] /\ state'[u] = state[u]
    BY <1>0, <2>1
  <2> QED
    BY <2>1, <2>2 DEF WaitLinks
<1>5. OnlyLeadersHaveParents'
  BY <1>0 DEF OnlyLeadersHaveParents, Registered
<1>6. CommittedIsEarly'
  <2> SUFFICES ASSUME NEW u \in Task, (u \in Committed)'
               PROVE  /\ (chan[u] \in Task => Uncollectable(chan[u]))'
                      /\ (chan[u] = Event /\ events > 0 => Sending)'
    BY DEF CommittedIsEarly, Committed, TypeOK
  <2>1. u \in waiters /\ u \notin W
    BY <1>0 DEF Committed
  <2>2. u \in Committed
    BY <1>0, <2>1 DEF Committed
  <2>3. /\ chan[u] \in Task => Uncollectable(chan[u])
        /\ chan[u] = Event /\ events > 0 => Sending
    BY <2>2 DEF CommittedIsEarly
  <2>4. chan[u] = Event /\ Sending => Sending'
    BY <1>0, <2>1 DEF Sending, Running
  <2>5. (chan[u] \in Task /\ Uncollectable(chan[u])) => Uncollectable(chan[u])'
    BY <1>0 DEF Uncollectable, Registered, Finished
  <2> QED
    BY <2>3, <2>4, <2>5
<1> QED
  BY <1>0, <1>1, <1>2, <1>3, <1>4, <1>5, <1>6

\* wakeExpired wakes sleepers.
LEMMA WakeExpiredStep ==
  ASSUME ConstantsAssumption, IInv, NEW E \in SUBSET sleepers, WakeExpired(E)
  PROVE  IInv'
<1> USE DEF WakeExpired, progVars, flagVars
<1>1. E \in SUBSET Task /\ Wake(E)
  BY DEF IInv, TypeOK
<1>2. TypeOK'
  BY <1>1, WakeEffect DEF IInv, TypeOK
<1>3. Root \in Task
  BY DEF ConstantsAssumption
<1> QED
  BY <1>1, <1>2, <1>3, WakeStep

\* wakeChannel wakes every receiver before its sender leaves its place.
LEMMA WakeChannelStep ==
  ASSUME ConstantsAssumption, IInv, NEW t \in Task, WakeChannel(t)
  PROVE  IInv'
<1> DEFINE W == {u \in waiters : chan[u] = Event}
<1> USE DEF WakeChannel, Goto, progVars, flagVars
<1>1. W \in SUBSET Task /\ Wake(W) /\ t \notin waiters
  BY RunningIsUnlinked DEF IInv, TypeOK
<1>2. TypeOK'
  <2> HIDE DEF W
  <2>1. /\ state' \in [Task -> States]
        /\ current' \in [Cpu -> Task \cup {Idle}]
        /\ runq' \subseteq Task
        /\ panicked' = FALSE
        /\ waiters' \subseteq waiters
        /\ sleepers' \subseteq sleepers
    BY <1>1, WakeEffect DEF IInv
  <2> QED
    BY <2>1 DEF IInv, TypeOK, Places
<1>3. Running(t) /\ \A u \in Task \ {t} : pc'[u] = pc[u]
  BY DEF IInv, TypeOK
<1> QED
  BY <1>1, <1>2, <1>3, WakeStep

\* A signal wakes the thread it interrupts.
LEMMA SignalThreadStep ==
  ASSUME ConstantsAssumption, IInv, NEW t \in Task, NEW n \in Task, SignalThread(t, n)
  PROVE  IInv'
<1> USE DEF SignalThread, Goto, progVars
<1>1. Asleep({n}) \in SUBSET Task /\ Wake(Asleep({n})) /\ t \notin waiters
  BY RunningIsUnlinked DEF Asleep
<1>2. TypeOK'
  <2>1. /\ state' \in [Task -> States]
        /\ current' \in [Cpu -> Task \cup {Idle}]
        /\ runq' \subseteq Task
        /\ panicked' = FALSE
        /\ waiters' \subseteq waiters
        /\ sleepers' \subseteq sleepers
    BY <1>1, WakeEffect DEF IInv
  <2> QED
    BY <2>1 DEF IInv, TypeOK, Places
<1>3. Running(t) /\ pc[t] # "post" /\ \A u \in Task \ {t} : pc'[u] = pc[u]
  BY DEF IInv, TypeOK
<1> QED
  BY <1>1, <1>2, <1>3, WakeStep

\* What ExitGroup and KillProgram share.
LEMMA EndProgramStep ==
  ASSUME ConstantsAssumption, IInv, NEW t \in Task, NEW p \in Task,
         NEW K \in SUBSET Task, NEW code \in ExitCodes, EndProgram(p, K, code),
         Running(t), pc[t] \in {"user", "ret"}, NEW place \in Places,
         pc' = [pc EXCEPT ![t] = place],
         live' \in [Task -> Int], last' \in [Task -> BOOLEAN],
         UNCHANGED <<process, parent, exited, space>>
  PROVE  IInv'
<1> USE DEF EndProgram, FirstCode
<1>1. Asleep(K) \in SUBSET Task /\ Wake(Asleep(K)) /\ t \notin waiters
  BY RunningIsUnlinked DEF Asleep
<1>2. TypeOK'
  BY ZenonT(40), <1>1, WakeEffect DEF IInv, TypeOK
<1>3. pc[t] # "post" /\ \A u \in Task \ {t} : pc'[u] = pc[u]
  BY DEF IInv, TypeOK
<1>4. \A u \in Task : kill'[u] => kill[u] \/ u \in Asleep(K) \/ state[u] # "blocked"
  BY DEF Asleep
<1> QED
  BY <1>1, <1>2, <1>3, <1>4, WakeStep

\* exitGroup up to the decrement.
LEMMA ExitGroupStep ==
  ASSUME ConstantsAssumption, IInv, NEW t \in Task, NEW code \in ExitCodes,
         ExitGroup(t, code)
  PROVE  IInv'
<1> USE DEF ExitGroup, Goto
<1>1. process[t] \in Task /\ Threads(process[t]) \ {t} \in SUBSET Task
  BY DEF IInv, TypeOK, Threads
<1>2. live' \in [Task -> Int] /\ last' \in [Task -> BOOLEAN]
  BY DEF IInv, TypeOK
<1>3. "exit1" \in Places
  BY DEF Places
<1> QED
  BY <1>1, <1>2, <1>3, EndProgramStep

\* SIGKILL of a program.
LEMMA KillProgramStep ==
  ASSUME ConstantsAssumption, IInv, NEW t \in Task, NEW p \in Task, KillProgram(t, p)
  PROVE  IInv'
<1> DEFINE K == {u \in Threads(p) : state[u] # "zombie"}
<1> USE DEF KillProgram, Goto
<1>1. PICK code \in ExitCodes : EndProgram(p, K, code)
  OBVIOUS
<1>2. K \in SUBSET Task
  BY DEF Threads
<1>3. live' \in [Task -> Int] /\ last' \in [Task -> BOOLEAN]
  BY DEF IInv, TypeOK
<1>4. "ret" \in Places
  BY DEF Places
<1> QED
  BY <1>1, <1>2, <1>3, <1>4, EndProgramStep

(***************************************************************************)
(* Switching and sleeping.                                                 *)
(***************************************************************************)

\* A reschedule that moves tasks only between ready and running.
LEMMA RescheduleStep ==
  ASSUME ConstantsAssumption, IInv, TypeOK', OneCpu', RunQueueExact',
         \A u \in Task : \/ state'[u] = state[u]
                          \/ /\ {state[u], state'[u]} \subseteq {"ready", "running"}
                             /\ state[u] = "running" => pc[u] # "post",
         \A u \in Task : pc'[u] = pc[u] \/ (Running(u) /\ pc[u] = "user" /\ pc'[u] = "ret"),
         UNCHANGED <<waitVars, progVars, flagVars, events>>
  PROVE  IInv'
<1> USE DEF IInv, waitVars, progVars, flagVars
<1>1. BlockedHasWaker' /\ DeadlineOnlyWhileBlocked' /\ NoLostKill'
  BY DEF BlockedHasWaker, DeadlineOnlyWhileBlocked, NoLostKill, Asleep
<1>2. WaitLinks'
  BY DEF WaitLinks, TypeOK, Running
<1>3. OnlyLeadersHaveParents'
  BY DEF OnlyLeadersHaveParents, Registered
<1>4. CommittedIsEarly'
  <2> SUFFICES ASSUME NEW u \in Task, (u \in Committed)'
               PROVE  /\ (chan[u] \in Task => Uncollectable(chan[u]))'
                      /\ (chan[u] = Event /\ events > 0 => Sending)'
    BY DEF CommittedIsEarly, Committed, TypeOK
  <2>1. u \in Committed
    BY DEF Committed
  <2>2. /\ chan[u] \in Task => Uncollectable(chan[u])
        /\ chan[u] = Event /\ events > 0 => Sending
    BY <2>1 DEF CommittedIsEarly
  <2>3. Sending => Sending'
    BY DEF Sending, Running
  <2>4. (chan[u] \in Task /\ Uncollectable(chan[u])) => Uncollectable(chan[u])'
    BY DEF Uncollectable, Registered, Finished
  <2> QED
    BY <2>2, <2>3, <2>4
<1> QED
  BY <1>1, <1>2, <1>3, <1>4

\* An idle CPU takes a task, if there is one.
LEMMA IdleDispatchEffect ==
  ASSUME ConstantsAssumption, IInv, NEW c \in Cpu, IdleDispatch(c)
  PROVE  /\ state' \in [Task -> States]
         /\ current' \in [Cpu -> Task \cup {Idle}]
         /\ runq' \subseteq Task
         /\ panicked' = FALSE
         /\ OneCpu' /\ RunQueueExact'
         /\ \A u \in Task : state'[u] = state[u] \/ (state[u] = "ready" /\ state'[u] = "running")
<1>0. TypeOK /\ Dispatch(c, state, runq, {})
  BY DEF IInv, IdleDispatch
<1>1. /\ runq \in SUBSET Task /\ {} \in SUBSET Task /\ runq \cap {} = {}
      /\ runq \cup {} = {u \in Task : state[u] = "ready"}
      /\ state \in [Task -> States]
      /\ \A d, e \in Cpu : current[d] = current[e] /\ current[d] \in Task => d = e
  BY DEF IInv, TypeOK, RunQueueExact, OneCpu
<1>2. \A u \in Task : state[u] = "running" <=> \E d \in Cpu \ {c} : current[d] = u
  BY DEF IInv, OneCpu, Running, ConstantsAssumption, IdleDispatch
<1> QED
  BY <1>0, <1>1, <1>2, DispatchEffect, ZenonT(60)

\* That keeps the invariant.
LEMMA IdleDispatchStep ==
  ASSUME ConstantsAssumption, IInv, NEW c \in Cpu, IdleDispatch(c)
  PROVE  IInv'
<1>1. /\ state' \in [Task -> States]
      /\ current' \in [Cpu -> Task \cup {Idle}]
      /\ runq' \subseteq Task
      /\ panicked' = FALSE
      /\ OneCpu' /\ RunQueueExact'
      /\ \A u \in Task : state'[u] = state[u] \/ (state[u] = "ready" /\ state'[u] = "running")
  BY IdleDispatchEffect
<1>2. TypeOK'
  BY <1>1 DEF IInv, TypeOK, waitVars, progVars, flagVars, IdleDispatch
<1> QED
  BY <1>1, <1>2, RescheduleStep DEF IdleDispatch

\* A CPU exchanges its task for a ready one.
LEMMA PreemptEffect ==
  ASSUME ConstantsAssumption, IInv, NEW c \in Cpu, Preempt(c)
  PROVE  /\ state' \in [Task -> States]
         /\ current' \in [Cpu -> Task \cup {Idle}]
         /\ runq' \subseteq Task
         /\ panicked' = FALSE
         /\ OneCpu' /\ RunQueueExact'
         /\ pc' \in [Task -> Places]
         /\ \A u \in Task : \/ state'[u] = state[u]
                            \/ /\ {state[u], state'[u]} \subseteq {"ready", "running"}
                               /\ state[u] = "running" => pc[u] # "post"
         /\ \A u \in Task : pc'[u] = pc[u] \/ (Running(u) /\ pc[u] = "user" /\ pc'[u] = "ret")
<1>a. PICK t \in Task : t = current[c]
  BY DEF Preempt
<1> DEFINE st == [state EXCEPT ![t] = "ready"]
           back == {t}
<1>0. /\ t = current[c] /\ pc[t] \in Preemptible /\ Dispatch(c, st, runq, back)
      /\ Goto(t, IF pc[t] = "user" THEN "ret" ELSE pc[t])
  BY <1>a DEF Preempt
<1>1. Running(t)
  BY <1>0 DEF IInv, OneCpu
<1>2. /\ st \in [Task -> States] /\ st[t] = "ready"
      /\ \A u \in Task \ {t} : st[u] = state[u]
  BY <1>0 DEF IInv, TypeOK, States
<1>3. /\ runq \in SUBSET Task /\ back \in SUBSET Task /\ runq \cap back = {}
      /\ runq \cup back = {u \in Task : st[u] = "ready"}
  BY <1>0, <1>1, <1>2 DEF IInv, TypeOK, RunQueueExact, Running
<1>4. \A d, e \in Cpu : current[d] = current[e] /\ current[d] \in Task => d = e
  BY DEF IInv, OneCpu
<1>5. \A u \in Task : st[u] = "running" <=> \E d \in Cpu \ {c} : current[d] = u
  BY <1>0, <1>1, <1>2 DEF IInv, OneCpu, Running
<1> HIDE DEF st, back
<1>6. /\ state' \in [Task -> States]
      /\ current' \in [Cpu -> Task \cup {Idle}]
      /\ runq' \subseteq Task
      /\ panicked' = FALSE
      /\ OneCpu' /\ RunQueueExact'
      /\ \A u \in Task : state'[u] = st[u] \/ (st[u] = "ready" /\ state'[u] = "running")
  <2>1. TypeOK /\ Dispatch(c, st, runq, back)
    BY <1>0 DEF IInv
  <2> QED
    BY <1>2, <1>3, <1>4, <1>5, <2>1, DispatchEffect, ZenonT(60)
<1>7. \A u \in Task : \/ state'[u] = state[u]
                      \/ /\ {state[u], state'[u]} \subseteq {"ready", "running"}
                         /\ state[u] = "running" => pc[u] # "post"
  BY <1>0, <1>1, <1>2, <1>6 DEF Running, Preemptible
<1>8. /\ pc' \in [Task -> Places]
      /\ \A u \in Task : pc'[u] = pc[u] \/ (Running(u) /\ pc[u] = "user" /\ pc'[u] = "ret")
  BY <1>0, <1>1 DEF Goto, IInv, TypeOK, Places
<1> QED
  BY <1>6, <1>7, <1>8

\* The exchange keeps the invariant.
LEMMA PreemptStep ==
  ASSUME ConstantsAssumption, IInv, NEW c \in Cpu, Preempt(c)
  PROVE  IInv'
<1>1. UNCHANGED <<waitVars, progVars, flagVars, events>>
  BY DEF Preempt
<1>2. TypeOK'
  BY <1>1, PreemptEffect DEF IInv, TypeOK, waitVars, progVars, flagVars
<1> QED
  BY <1>1, <1>2, PreemptEffect, RescheduleStep

\* A running task that goes to sleep is linked on a list, and the event it
\* sleeps for has not happened.
LEMMA SleepingStep ==
  ASSUME ConstantsAssumption, IInv, NEW t \in Task, Running(t), Block(t),
         ~kill[t], t \in Committed \/ t \notin waiters,
         NEW place \in Places \ {"post", "commit"}, pc[t] # "post",
         pc' = [pc EXCEPT ![t] = place],
         t \in waiters \/ t \in sleepers',
         sleepers' \in {sleepers, sleepers \cup {t}},
         UNCHANGED <<waiters, chan, progVars, flagVars, events>>
  PROVE  IInv'
<1> USE DEF IInv, progVars, flagVars
<1>0. /\ state' \in [Task -> States]
      /\ current' \in [Cpu -> Task \cup {Idle}]
      /\ runq' \subseteq Task
      /\ panicked' = FALSE
      /\ OneCpu' /\ RunQueueExact'
      /\ state'[t] = "blocked"
      /\ \A u \in Task \ {t} :
           state'[u] = state[u] \/ (state[u] = "ready" /\ state'[u] = "running")
  BY BlockEffect
<1>1. TypeOK'
  BY <1>0 DEF TypeOK
<1>2. BlockedHasWaker' /\ DeadlineOnlyWhileBlocked' /\ NoLostKill'
  BY <1>0 DEF BlockedHasWaker, DeadlineOnlyWhileBlocked, NoLostKill, Asleep
<1>3. WaitLinks'
  BY <1>0 DEF WaitLinks, TypeOK, Running
<1>4. OnlyLeadersHaveParents'
  BY <1>0 DEF OnlyLeadersHaveParents, Registered, Running
<1>5. CommittedIsEarly'
  <2> SUFFICES ASSUME NEW u \in Task, (u \in Committed)'
               PROVE  /\ (chan[u] \in Task => Uncollectable(chan[u]))'
                      /\ (chan[u] = Event /\ events > 0 => Sending)'
    BY DEF CommittedIsEarly, Committed, TypeOK
  <2>1. u \in Committed
    BY <1>0 DEF Committed, TypeOK
  <2>2. /\ chan[u] \in Task => Uncollectable(chan[u])
        /\ chan[u] = Event /\ events > 0 => Sending
    BY <2>1 DEF CommittedIsEarly
  <2>3. Sending => Sending'
    BY <1>0 DEF Sending, Running, TypeOK
  <2>4. (chan[u] \in Task /\ Uncollectable(chan[u])) => Uncollectable(chan[u])'
    BY <1>0 DEF Uncollectable, Registered, Finished, Running
  <2> QED
    BY <2>2, <2>3, <2>4
<1> QED
  BY <1>0, <1>1, <1>2, <1>3, <1>4, <1>5

\* sleepMs.
LEMMA SleepStep ==
  ASSUME ConstantsAssumption, IInv, NEW t \in Task, Sleep(t)
  PROVE  IInv'
<1> USE DEF Sleep, Goto
<1>0. t \notin waiters
  BY RunningIsUnlinked
<1>1. CASE Interrupted(t)
  <2> USE <1>1 DEF taskVars, waitVars, progVars, flagVars
  <2>1. TypeOK'
    BY DEF IInv, TypeOK, Places
  <2> QED
    BY <1>0, <2>1, QuietStep DEF IInv, TypeOK
<1>2. CASE ~Interrupted(t)
  BY <1>0, <1>2, SleepingStep DEF Interrupted, Places
<1> QED
  BY <1>1, <1>2

\* commitWait and commitWaitTimeout: sleep, or leave the queue.
LEMMA CommitWaitStep ==
  ASSUME ConstantsAssumption, IInv, NEW t \in Task, NEW timed \in BOOLEAN,
         CommitWait(t, timed)
  PROVE  IInv'
<1> USE DEF CommitWait, Goto
<1>0. AfterWait(t, timed) \in Places \ {"post", "commit"}
  BY DEF AfterWait, Places
<1>1. CASE MaySleep(t)
  <2>1. t \in waiters /\ ~kill[t] /\ t \in Committed
    BY <1>1 DEF MaySleep, Interrupted, Committed
  <2> QED
    BY <1>0, <1>1, <2>1, SleepingStep
<1>2. CASE ~MaySleep(t)
  BY <1>0, <1>2, WaitListStep
<1> QED
  BY <1>1, <1>2

(***************************************************************************)
(* The end of exit().                                                      *)
(***************************************************************************)

\* The exiting task leaves its CPU for good, and a ready task takes it.
LEMMA ExitPublishEffect ==
  ASSUME ConstantsAssumption, IInv, NEW t \in Task, ExitPublish(t)
  PROVE  /\ t \notin waiters /\ t \notin sleepers
         /\ ExitWakes(t) \subseteq waiters /\ waiters \subseteq Task /\ process[t] \in Task
         /\ state' \in [Task -> States]
         /\ current' \in [Cpu -> Task \cup {Idle}]
         /\ runq' \subseteq Task
         /\ panicked' = FALSE
         /\ OneCpu' /\ RunQueueExact'
         /\ state'[t] = "zombie"
         /\ \A u \in Task \ {t} :
              \/ state'[u] = state[u]
              \/ u \in ExitWakes(t) /\ state[u] = "blocked" /\ state'[u] \in {"ready", "running"}
              \/ state[u] = "ready" /\ state'[u] = "running"
         /\ \A u \in ExitWakes(t) : state'[u] # "blocked"
<1> DEFINE p == process[t]
           W == ExitWakes(t)
           st == [Readied(W) EXCEPT ![t] = "zombie"]
           rq == runq \cup Asleep(W)
<1>1. /\ Running(t) /\ pc[t] = "exit2"
      /\ exited' = IF last[t] THEN [exited EXCEPT ![p] = TRUE] ELSE exited
      /\ \E code \in ExitCodes : exitCode' = IF last[t] THEN FirstCode(p, code) ELSE exitCode
      /\ parent' = IF last[t] THEN Orphaned(p) ELSE parent
      /\ waiters' = waiters \ W
      /\ sleepers' = sleepers \ W
      /\ UNCHANGED <<chan, process, live, exiting, space, last, flagVars, pc, events>>
  BY DEF ExitPublish
<1>2. /\ t \notin waiters /\ t \notin sleepers /\ t \notin runq
      /\ W \subseteq waiters /\ waiters \subseteq Task /\ p \in Task
  BY <1>1, RunningIsUnlinked
     DEF ExitWakes, IInv, TypeOK, RunQueueExact, DeadlineOnlyWhileBlocked, Asleep, Running
<1>3. ~PushFails(W)
  BY <1>2 DEF PushFails, Asleep, IInv, RunQueueExact
<1>4. PICK c \in Cpu : current[c] = t /\ Dispatch(c, st, rq, {})
  BY <1>2, <1>3 DEF ExitPublish
<1>5. /\ st \in [Task -> States] /\ st[t] = "zombie"
      /\ \A u \in Task \ {t} :
           st[u] = IF u \in W /\ state[u] = "blocked" THEN "ready" ELSE state[u]
  BY DEF Readied, Asleep, IInv, TypeOK, States
<1>6. /\ rq \in SUBSET Task /\ {} \in SUBSET Task /\ rq \cap {} = {}
      /\ rq \cup {} = {u \in Task : st[u] = "ready"}
  BY <1>2, <1>5 DEF Asleep, IInv, TypeOK, RunQueueExact
<1>7. \A d, e \in Cpu : current[d] = current[e] /\ current[d] \in Task => d = e
  BY DEF IInv, OneCpu
<1>8. \A u \in Task : st[u] = "running" <=> \E d \in Cpu \ {c} : current[d] = u
  BY <1>1, <1>4, <1>5 DEF IInv, OneCpu, Running
<1> HIDE DEF st, rq
<1>9. /\ state' \in [Task -> States]
      /\ current' \in [Cpu -> Task \cup {Idle}]
      /\ runq' \subseteq Task
      /\ panicked' = FALSE
      /\ OneCpu' /\ RunQueueExact'
      /\ \A u \in Task : state'[u] = st[u] \/ (st[u] = "ready" /\ state'[u] = "running")
  <2>1. TypeOK
    BY DEF IInv
  <2> QED
    BY <1>4, <1>5, <1>6, <1>7, <1>8, <2>1, DispatchEffect, ZenonT(60)
<1>10. /\ state'[t] = "zombie"
       /\ \A u \in Task \ {t} :
            \/ state'[u] = state[u]
            \/ u \in W /\ state[u] = "blocked" /\ state'[u] \in {"ready", "running"}
            \/ state[u] = "ready" /\ state'[u] = "running"
       /\ \A u \in W : state'[u] # "blocked"
  BY <1>2, <1>5, <1>9
<1> QED
  BY <1>2, <1>9, <1>10

\* Whoever waits for a program that becomes collectable in this step is woken
\* in this step.
LEMMA ExitPublishStep ==
  ASSUME ConstantsAssumption, IInv, NEW t \in Task, ExitPublish(t)
  PROVE  IInv'
<1> DEFINE p == process[t]
           W == ExitWakes(t)
<1>1. /\ Running(t) /\ pc[t] = "exit2"
      /\ exited' = IF last[t] THEN [exited EXCEPT ![p] = TRUE] ELSE exited
      /\ \E code \in ExitCodes : exitCode' = IF last[t] THEN FirstCode(p, code) ELSE exitCode
      /\ parent' = IF last[t] THEN Orphaned(p) ELSE parent
      /\ waiters' = waiters \ W
      /\ sleepers' = sleepers \ W
      /\ UNCHANGED <<chan, process, live, exiting, space, last, flagVars, pc, events>>
  BY DEF ExitPublish
<1>2. /\ t \notin waiters /\ t \notin sleepers
      /\ W \subseteq waiters /\ waiters \subseteq Task /\ p \in Task
  BY ExitPublishEffect
<1>3. /\ state' \in [Task -> States]
      /\ current' \in [Cpu -> Task \cup {Idle}]
      /\ runq' \subseteq Task
      /\ panicked' = FALSE
      /\ OneCpu' /\ RunQueueExact'
  BY ExitPublishEffect
<1>4. /\ state'[t] = "zombie"
      /\ \A u \in Task \ {t} :
           \/ state'[u] = state[u]
           \/ u \in W /\ state[u] = "blocked" /\ state'[u] \in {"ready", "running"}
           \/ state[u] = "ready" /\ state'[u] = "running"
      /\ \A u \in W : state'[u] # "blocked"
  BY ExitPublishEffect
<1>5. TypeOK'
  <2>1. exited' \in [Task -> BOOLEAN]
    BY <1>1 DEF IInv, TypeOK
  <2>2. exitCode' \in [Task -> ExitCodes]
    BY <1>1 DEF IInv, TypeOK, FirstCode
  <2>3. parent' \in [Task -> Task \cup {Nobody}]
    BY <1>1 DEF IInv, TypeOK, Orphaned
  <2>4. waiters' \subseteq Task /\ sleepers' \subseteq Task
    BY <1>1, <1>2 DEF IInv, TypeOK
  <2> QED
    BY <1>1, <1>3, <2>1, <2>2, <2>3, <2>4 DEF IInv, TypeOK, flagVars
<1>6. BlockedHasWaker' /\ DeadlineOnlyWhileBlocked' /\ NoLostKill'
  BY <1>1, <1>2, <1>4
     DEF IInv, TypeOK, BlockedHasWaker, DeadlineOnlyWhileBlocked, NoLostKill, Asleep, flagVars
<1>7. WaitLinks'
  BY <1>1, <1>2, <1>4 DEF IInv, WaitLinks
<1>8. OnlyLeadersHaveParents'
  BY <1>1, <1>4 DEF IInv, TypeOK, OnlyLeadersHaveParents, Registered, Orphaned, Running
<1>9. CommittedIsEarly'
  <2> SUFFICES ASSUME NEW u \in Task, (u \in Committed)'
               PROVE  /\ (chan[u] \in Task => Uncollectable(chan[u]))'
                      /\ (chan[u] = Event /\ events > 0 => Sending)'
    BY <1>1, <1>2 DEF CommittedIsEarly, Committed
  <2>1. u \in waiters /\ u \notin W /\ u # t
    BY <1>1, <1>2 DEF Committed
  <2>2. u \in Committed
    BY <1>1, <1>4, <2>1 DEF Committed
  <2>3. /\ chan[u] \in Task => Uncollectable(chan[u])
        /\ chan[u] = Event /\ events > 0 => Sending
    BY <2>2 DEF IInv, CommittedIsEarly
  <2>4. Sending => Sending'
    BY <1>1, <1>4 DEF Sending, Running
  <2>5. ASSUME NEW n \in Task, chan[u] = n, Uncollectable(n)
        PROVE  Uncollectable(n)'
    <3>1. process'[n] = n /\ Registered(n)'
      BY <1>1, <1>4, <2>5 DEF Uncollectable, Registered
    <3>2. ~(last[t] /\ n = p) /\ ~(p = t /\ n = p /\ exited[p])
      BY <2>1, <2>5 DEF ExitWakes
    <3>3. exited'[n] = exited[n]
      BY <1>1, <3>2 DEF IInv, TypeOK
    <3>4. CASE n = t
      BY <1>1, <2>5, <3>1, <3>2, <3>3, <3>4 DEF Uncollectable, Finished
    <3>5. CASE n # t
      BY <1>1, <1>4, <2>5, <3>1, <3>3, <3>5 DEF Uncollectable, Finished
    <3> QED
      BY <3>4, <3>5
  <2> QED
    BY <1>1, <2>3, <2>4, <2>5
<1> QED
  BY <1>3, <1>5, <1>6, <1>7, <1>8, <1>9 DEF IInv

(***************************************************************************)
(* The theorems.                                                           *)
(***************************************************************************)

\* The state after boot satisfies the inductive invariant.
LEMMA InitInvariant == ConstantsAssumption /\ Init => IInv
<1> SUFFICES ASSUME ConstantsAssumption, Init
             PROVE  IInv
  OBVIOUS
<1> USE DEF Init, ConstantsAssumption
<1>1. TypeOK
  <2>1. /\ state \in [Task -> States] /\ current \in [Cpu -> Task \cup {Idle}]
        /\ runq \subseteq Task /\ waiters \subseteq Task /\ sleepers \subseteq Task
        /\ chan \in [Task -> Channels] /\ pc \in [Task -> Places]
    BY DEF States, Places, Channels
  <2>2. /\ process \in [Task -> Task] /\ parent \in [Task -> Task \cup {Nobody}]
        /\ live \in [Task -> Int] /\ exitCode \in [Task -> ExitCodes]
        /\ events \in 0..MaxEvents
    OBVIOUS
  <2>3. /\ exiting \in [Task -> BOOLEAN] /\ exited \in [Task -> BOOLEAN]
        /\ space \in [Task -> BOOLEAN] /\ last \in [Task -> BOOLEAN]
        /\ kill \in [Task -> BOOLEAN] /\ sigInterrupt \in [Task -> BOOLEAN]
        /\ panicked \in BOOLEAN
    OBVIOUS
  <2> QED
    BY <2>1, <2>2, <2>3 DEF TypeOK
<1>2. OneCpu /\ RunQueueExact
  BY DEF OneCpu, RunQueueExact, Running
<1>3. BlockedHasWaker /\ DeadlineOnlyWhileBlocked /\ WaitLinks /\ NoLostKill
  BY DEF BlockedHasWaker, DeadlineOnlyWhileBlocked, WaitLinks, NoLostKill, Asleep
<1>4. OnlyLeadersHaveParents /\ CommittedIsEarly
  BY DEF OnlyLeadersHaveParents, CommittedIsEarly, Committed
<1> QED
  BY <1>1, <1>2, <1>3, <1>4 DEF IInv

\* Every step of a thread and every step of the kernel preserves it.
LEMMA NextInvariant == ConstantsAssumption /\ IInv /\ [Next]_vars => IInv'
<1> SUFFICES ASSUME ConstantsAssumption, IInv, [Next]_vars
             PROVE  IInv'
  OBVIOUS
<1>1. ASSUME NEW t \in Task, LifeStep(t)
      PROVE  IInv'
  <2>1. CASE Trap(t) \/ ReturnToUser(t) \/ Exec(t) \/ ThreadStart(t)
    BY <2>1, TrapStep, ReturnToUserStep, ExecStep, ThreadStartStep
  <2>2. CASE ThreadExit(t)
    BY <2>2, ExitDecrementStep DEF ThreadExit
  <2>3. CASE ExitDropSpace(t) \/ ExitPublish(t)
    BY <2>3, ExitDropSpaceStep, ExitPublishStep
  <2>4. CASE WaitLook(t) \/ WaitTest(t)
    BY <2>4, WaitLookStep, WaitTestStep
  <2>5. CASE PrepareWait(t) \/ CancelWait(t)
    BY <2>5, PrepareCancelStep
  <2>6. CASE CommitWait(t, FALSE)
    BY <2>6, CommitWaitStep
  <2>7. ASSUME NEW code \in ExitCodes, ExitGroup(t, code)
        PROVE  IInv'
    BY <2>7, ExitGroupStep
  <2>8. ASSUME NEW n \in Task, SpawnProgram(t, n) \/ SpawnThread(t, n)
        PROVE  IInv'
    BY <2>8, SpawnProgramStep, SpawnThreadStep
  <2>9. ASSUME NEW n \in Task, KillProgram(t, n) \/ CollectNoHang(t, n) \/ WaitCall(t, n)
        PROVE  IInv'
    BY <2>9, KillProgramStep, CollectNoHangStep, CallStep
  <2> QED
    BY <1>1, <2>1, <2>2, <2>3, <2>4, <2>5, <2>6, <2>7, <2>8, <2>9 DEF LifeStep
<1>2. ASSUME NEW t \in Task, EventStep(t)
      PROVE  IInv'
  <2>1. CASE ReceiveCall(t) \/ ReceiveTest(t)
    BY <2>1, CallStep, ReceiveTestStep
  <2>2. CASE CommitWait(t, TRUE) \/ Sleep(t)
    BY <2>2, CommitWaitStep, SleepStep
  <2>3. CASE Post(t) \/ WakeChannel(t)
    BY <2>3, PostStep, WakeChannelStep
  <2>4. ASSUME NEW u \in Task, SignalThread(t, u)
        PROVE  IInv'
    BY <2>4, SignalThreadStep
  <2> QED
    BY <1>2, <2>1, <2>2, <2>3, <2>4 DEF EventStep
<1>3. CASE KernelStep
  <2>1. ASSUME NEW c \in Cpu, IdleDispatch(c) \/ Preempt(c)
        PROVE  IInv'
    BY <2>1, IdleDispatchStep, PreemptStep
  <2>2. ASSUME NEW E \in SUBSET sleepers, WakeExpired(E)
        PROVE  IInv'
    BY <2>2, WakeExpiredStep
  <2>3. ASSUME NEW n \in Task, ReapOrphan(n)
        PROVE  IInv'
    BY <2>3, ReapOrphanStep
  <2> QED
    BY <1>3, <2>1, <2>2, <2>3 DEF KernelStep
<1>4. CASE UNCHANGED vars
  <2> USE <1>4 DEF vars, taskVars, waitVars, progVars, flagVars
  <2>1. TypeOK'
    BY DEF IInv, TypeOK
  <2>2. OneCpu' /\ RunQueueExact' /\ BlockedHasWaker' /\ DeadlineOnlyWhileBlocked'
    BY DEF IInv, OneCpu, RunQueueExact, BlockedHasWaker, DeadlineOnlyWhileBlocked,
           Asleep, Running
  <2>3. WaitLinks' /\ NoLostKill' /\ OnlyLeadersHaveParents'
    BY DEF IInv, WaitLinks, NoLostKill, OnlyLeadersHaveParents, Registered
  <2>4. CommittedIsEarly'
    BY DEF IInv, CommittedIsEarly, Committed, Uncollectable, Registered, Finished,
           Sending, Running
  <2> QED
    BY <2>1, <2>2, <2>3, <2>4 DEF IInv
<1> QED
  BY <1>1, <1>2, <1>3, <1>4 DEF Next

\* IInv holds in every reachable state of the scheduler, whatever the number
\* of CPUs, tasks and queued events.
THEOREM Invariance == Spec => []IInv
<1>1. ConstantsAssumption
  BY ConstantsAssumption
<1>2. Init => IInv
  BY <1>1, InitInvariant
<1>3. IInv /\ [Next]_vars => IInv'
  BY <1>1, NextInvariant
<1> QED
  BY <1>2, <1>3, PTL DEF Spec

\* Type correctness of the scheduler's records.
THEOREM TypeCorrect == Spec => []TypeOK
BY Invariance, PTL DEF IInv

\* Running tasks are current on exactly one CPU, so no two CPUs share a kernel
\* stack (switchTo, pickNext, exit, startAp).
THEOREM ExclusiveCpu == Spec => []OneCpu
BY Invariance, PTL DEF IInv

\* The run queues hold exactly the ready tasks: Queue.push and pickNext never
\* meet a task in another state, and no ready task is forgotten.
THEOREM ExactRunQueue == Spec => []RunQueueExact
BY Invariance, PTL DEF IInv

\* Every sleeping task is on a list that a wake path walks.
THEOREM SleepersReachable == Spec => []BlockedHasWaker
BY Invariance, PTL DEF IInv

\* No deadline outlives the sleep it was set for (wakeChannelLocked,
\* wakeForInterruptLocked, exitGroup, wakeExpired).
THEOREM NoStaleDeadline == Spec => []DeadlineOnlyWhileBlocked
BY Invariance, PTL DEF IInv

\* commitWait, sleepMs, killProcessLocked and exitGroup together never leave a
\* killed thread asleep.
THEOREM KillsAreNoticed == Spec => []NoLostKill
BY Invariance, PTL DEF IInv

\* sysWait never sleeps through the exit of its child, in any order of the
\* leader's exit, the last thread's exit and the parent's two looks.
THEOREM ExitsAreNoticed == Spec => []NoLostExit
<1>1. IInv => NoLostExit
  BY DEF IInv, NoLostExit, WaitingParentMisses, CommittedIsEarly, Committed, Uncollectable
<1> QED
  BY <1>1, Invariance, PTL

\* portRecv never sleeps on a queue with a message in it, unless the sender
\* is about to wake it (prepareWait before the test, wakeChannel after push).
THEOREM MessagesAreNoticed == Spec => []NoLostWakeup
<1>1. IInv => NoLostWakeup
  BY DEF IInv, NoLostWakeup, CommittedIsEarly, Committed, Asleep, Sending
<1> QED
  BY <1>1, Invariance, PTL

-----------------------------------------------------------------------------
(***************************************************************************)
(* Sched implements the abstract dispatcher RunQueue: its initial state    *)
(* maps to an initial state, a wake or a creation to Admit, a reschedule   *)
(* to Switch, and every other step to a stutter.                           *)
(***************************************************************************)

\* A reschedule of CPU c, with a set T of tasks admitted in the same section.
LEMMA DispatchSwitches ==
  ASSUME NEW c \in Cpu, NEW st, NEW T \in SUBSET Dispatcher!Outside,
         NEW back \in SUBSET ({current[c]} \ {Idle}),
         Dispatch(c, st, runq \cup T, back)
  PROVE  Dispatcher!Next
<1>1. Dispatcher!Switch(c)
  BY DEF Dispatch, Dispatcher!Switch
<1> QED
  BY <1>1 DEF Dispatcher!Next

\* Sleeping tasks are outside of the dispatcher.
LEMMA AsleepIsOutside ==
  ASSUME IInv, NEW W \in SUBSET Task
  PROVE  Asleep(W) \in SUBSET Dispatcher!Outside
BY DEF IInv, RunQueueExact, OneCpu, Running, Asleep, Dispatcher!Outside

\* A wake admits the sleeping members of W.
LEMMA WakeAdmits ==
  ASSUME IInv, NEW W \in SUBSET Task, Wake(W)
  PROVE  Dispatcher!Next
<1>1. Asleep(W) \in SUBSET Dispatcher!Outside
  BY AsleepIsOutside
<1>2. runq' = runq \cup Asleep(W) /\ current' = current
  BY DEF Wake
<1> QED
  BY <1>1, <1>2 DEF Dispatcher!Next, Dispatcher!Admit

\* A task that goes to sleep makes its CPU switch.
LEMMA BlockSwitches ==
  ASSUME NEW t \in Task, Block(t)
  PROVE  Dispatcher!Next
<1>1. PICK c \in Cpu : Dispatch(c, [state EXCEPT ![t] = "blocked"], runq, {})
  BY DEF Block
<1>2. /\ {} \in SUBSET Dispatcher!Outside
      /\ {} \in SUBSET ({current[c]} \ {Idle})
      /\ runq \cup {} = runq
  OBVIOUS
<1> QED
  BY <1>1, <1>2, DispatchSwitches

\* A new record is admitted.
LEMMA PublishAdmits ==
  ASSUME IInv, NEW n \in Task, Publish(n)
  PROVE  Dispatcher!Next
<1>1. {n} \in SUBSET Dispatcher!Outside
  BY DEF IInv, Publish, RunQueueExact, OneCpu, Running, Dispatcher!Outside
<1>2. runq' = runq \cup {n} /\ current' = current
  BY DEF Publish
<1> QED
  BY <1>1, <1>2 DEF Dispatcher!Next, Dispatcher!Admit

\* The end of exit(): the CPU switches and the waiters are admitted.
LEMMA ExitPublishSwitches ==
  ASSUME IInv, NEW t \in Task, ExitPublish(t)
  PROVE  Dispatcher!Next \/ UNCHANGED <<runq, current>>
<1> DEFINE W == ExitWakes(t)
           st == [Readied(W) EXCEPT ![t] = "zombie"]
           T == Asleep(W)
<1>1. CASE UNCHANGED taskVars
  BY <1>1 DEF taskVars
<1>2. CASE \E c \in Cpu : Dispatch(c, st, runq \cup T, {})
  <2>1. PICK c \in Cpu : Dispatch(c, st, runq \cup T, {})
    BY <1>2
  <2>2. W \in SUBSET Task
    BY DEF ExitWakes, IInv, TypeOK
  <2>3. T \in SUBSET Dispatcher!Outside
    BY <2>2, AsleepIsOutside
  <2>4. {} \in SUBSET ({current[c]} \ {Idle})
    OBVIOUS
  <2> HIDE DEF st, T
  <2> QED
    BY <2>1, <2>3, <2>4, DispatchSwitches
<1> QED
  BY <1>1, <1>2 DEF ExitPublish

\* Every step is a step of the dispatcher or leaves its state alone.
LEMMA StepRefines ==
  ASSUME ConstantsAssumption, IInv, [Next]_vars
  PROVE  [Dispatcher!Next]_(Dispatcher!dispatchVars)
<1> SUFFICES Dispatcher!Next \/ UNCHANGED <<runq, current>>
  BY DEF Dispatcher!dispatchVars
<1> USE DEF taskVars
<1>1. ASSUME NEW t \in Task, LifeStep(t)
      PROVE  Dispatcher!Next \/ UNCHANGED <<runq, current>>
  <2>1. CASE \/ Trap(t) \/ ReturnToUser(t) \/ Exec(t) \/ ThreadStart(t)
             \/ ThreadExit(t) \/ ExitDropSpace(t)
    BY <2>1 DEF Trap, ReturnToUser, Exec, ThreadStart, ThreadExit, ExitDropSpace, ExitDecrement
  <2>2. CASE ExitPublish(t)
    BY <2>2, ExitPublishSwitches
  <2>3. CASE WaitLook(t) \/ WaitTest(t) \/ PrepareWait(t) \/ CancelWait(t)
    BY <2>3 DEF WaitLook, WaitTest, PrepareWait, CancelWait, Destroy
  <2>4. CASE CommitWait(t, FALSE)
    BY <2>4, BlockSwitches DEF CommitWait
  <2>5. ASSUME NEW code \in ExitCodes, ExitGroup(t, code)
        PROVE  Dispatcher!Next
    <3>1. Wake(Asleep(Threads(process[t]) \ {t}))
      BY <2>5 DEF ExitGroup, EndProgram
    <3>2. Asleep(Threads(process[t]) \ {t}) \in SUBSET Task
      BY DEF Asleep, Threads
    <3> QED
      BY <3>1, <3>2, WakeAdmits
  <2>6. ASSUME NEW n \in Task, SpawnProgram(t, n) \/ SpawnThread(t, n)
        PROVE  Dispatcher!Next
    BY <2>6, PublishAdmits DEF SpawnProgram, SpawnThread
  <2>7. ASSUME NEW n \in Task, KillProgram(t, n)
        PROVE  Dispatcher!Next
    <3>1. Wake(Asleep({u \in Threads(n) : state[u] # "zombie"}))
      BY <2>7 DEF KillProgram, EndProgram
    <3>2. Asleep({u \in Threads(n) : state[u] # "zombie"}) \in SUBSET Task
      BY DEF Asleep, Threads
    <3> QED
      BY <3>1, <3>2, WakeAdmits
  <2>8. ASSUME NEW n \in Task, CollectNoHang(t, n) \/ WaitCall(t, n)
        PROVE  UNCHANGED <<runq, current>>
    BY <2>8 DEF CollectNoHang, WaitCall, Destroy
  <2> QED
    BY <1>1, <2>1, <2>2, <2>3, <2>4, <2>5, <2>6, <2>7, <2>8 DEF LifeStep
<1>2. ASSUME NEW t \in Task, EventStep(t)
      PROVE  Dispatcher!Next \/ UNCHANGED <<runq, current>>
  <2>1. CASE ReceiveCall(t) \/ ReceiveTest(t) \/ Post(t)
    BY <2>1 DEF ReceiveCall, ReceiveTest, Post
  <2>2. CASE CommitWait(t, TRUE) \/ Sleep(t)
    BY <2>2, BlockSwitches DEF CommitWait, Sleep
  <2>3. CASE WakeChannel(t)
    <3>1. {u \in waiters : chan[u] = Event} \in SUBSET Task
      BY DEF IInv, TypeOK
    <3> QED
      BY <2>3, <3>1, WakeAdmits DEF WakeChannel
  <2>4. ASSUME NEW u \in Task, SignalThread(t, u)
        PROVE  Dispatcher!Next
    <3>1. Asleep({u}) \in SUBSET Task
      BY DEF Asleep
    <3> QED
      BY <2>4, <3>1, WakeAdmits DEF SignalThread
  <2> QED
    BY <1>2, <2>1, <2>2, <2>3, <2>4 DEF EventStep
<1>3. CASE KernelStep
  <2>1. ASSUME NEW c \in Cpu, IdleDispatch(c)
        PROVE  Dispatcher!Next
    <3>1. /\ {} \in SUBSET Dispatcher!Outside
          /\ {} \in SUBSET ({current[c]} \ {Idle})
          /\ runq \cup {} = runq
      OBVIOUS
    <3>2. Dispatch(c, state, runq \cup {}, {})
      BY <2>1, <3>1 DEF IdleDispatch
    <3> QED
      BY <3>1, <3>2, DispatchSwitches, ZenonT(30)
  <2>2. ASSUME NEW c \in Cpu, Preempt(c)
        PROVE  Dispatcher!Next
    <3> DEFINE st == [state EXCEPT ![current[c]] = "ready"]
               back == {current[c]}
    <3>1. /\ {} \in SUBSET Dispatcher!Outside
          /\ back \in SUBSET ({current[c]} \ {Idle})
          /\ runq \cup {} = runq
      BY <2>2 DEF Preempt, ConstantsAssumption
    <3>2. Dispatch(c, st, runq \cup {}, back)
      BY <2>2, <3>1 DEF Preempt
    <3> HIDE DEF st, back
    <3> QED
      BY <3>1, <3>2, DispatchSwitches, ZenonT(30)
  <2>3. ASSUME NEW E \in SUBSET sleepers, WakeExpired(E)
        PROVE  Dispatcher!Next
    <3>1. E \in SUBSET Task
      BY DEF IInv, TypeOK
    <3> QED
      BY <2>3, <3>1, WakeAdmits DEF WakeExpired
  <2>4. ASSUME NEW n \in Task, ReapOrphan(n)
        PROVE  UNCHANGED <<runq, current>>
    BY <2>4 DEF ReapOrphan, Destroy
  <2> QED
    BY <1>3, <2>1, <2>2, <2>3, <2>4 DEF KernelStep
<1>4. CASE UNCHANGED vars
  BY <1>4 DEF vars
<1> QED
  BY <1>1, <1>2, <1>3, <1>4 DEF Next

\* The scheduler implements the abstract dispatcher: creation, waits, kills,
\* signals and exits never lose, duplicate or run a task twice, and a CPU goes
\* idle only when the run queue was empty (pickNext, Queue.push, switchTo).
THEOREM SchedImplementsDispatcher == Spec => ImplementsDispatcher
<1>1. ConstantsAssumption
  BY ConstantsAssumption
<1>2. Init => Dispatcher!Init
  BY <1>1 DEF Init, Dispatcher!Init, ConstantsAssumption
<1>3. IInv /\ [Next]_vars => [Dispatcher!Next]_(Dispatcher!dispatchVars)
  BY <1>1, StepRefines
<1> QED
  BY <1>2, <1>3, Invariance, PTL DEF Spec, ImplementsDispatcher, Dispatcher!Spec

-----------------------------------------------------------------------------
(***************************************************************************)
(* Programs and their threads: live_threads counts the threads that have   *)
(* not begun to exit, so exactly one thread of a program finds itself the  *)
(* last, no record is destroyed too early, and no program that has exited  *)
(* is left a child to collect.                                             *)
(***************************************************************************)

\* The steps of exit() after its decrement of live_threads.
Leaving == {"exit1", "exit2"}

\* The threads of program p that have not begun to exit.
Working(p) == {t \in Threads(p) : pc[t] \notin Leaving}

\* Process.live_threads is their number.
LiveExact ==
  \A p \in Task : IsFiniteSet(Working(p)) /\ live[p] = Cardinality(Working(p))

\* A program's record is older than those of its threads.
LeaderFirst == \A t \in Task : Registered(t) => state[process[t]] # "none"

\* The thread that exit() found to be the last is the last.
LastIsLast ==
  \A t \in Task :
    last[t] /\ state[t] # "gone" =>
      state[t] # "none" /\ pc[t] \in Leaving /\ Working(process[t]) = {}

\* A program counts as exited only when its threads have all begun to exit.
ExitedIsOver == \A p \in Task : exited[p] => state[p] # "none" /\ Working(p) = {}

\* Until then, and if all of them have, one of them is the last and is about to
\* publish the exit.
OneIsLast ==
  \A p \in Task :
    Threads(p) # {} /\ Working(p) = {} /\ ~exited[p] =>
      \E t \in Threads(p) : last[t] /\ state[t] # "zombie"

\* A dead thread has been through exit(), where it left the address space.
DeadLeft ==
  \A t \in Task :
    /\ state[t] = "zombie" => pc[t] = "exit2"
    /\ Registered(t) /\ pc[t] = "exit2" => ~space[t]

Life ==
  /\ LiveExact /\ LeaderFirst /\ LastIsLast /\ ExitedIsOver /\ OneIsLast /\ DeadLeft
  /\ NoLeakedChild

\* The head of sysWait's loop has a pid to look for.
LookHasPid == \A t \in Task : pc[t] = "look" => chan[t] \in Task

LInv == IInv /\ Life /\ LookHasPid /\ NoPanic

-----------------------------------------------------------------------------
(* Steps that neither start nor end a thread.                              *)

Settled == {"none", "gone", "zombie"}

\* No thread moves into, within or out of exit().
SamePlaces == \A u \in Task : pc[u] \in Leaving \/ pc'[u] \in Leaving => pc'[u] = pc[u]

\* No thread is created, begins to exit, dies or is collected.
Calm ==
  /\ \A u \in Task : state[u] \in Settled \/ state'[u] \in Settled => state'[u] = state[u]
  /\ SamePlaces
  /\ \A u \in Task : pc[u] = "exit2" => space'[u] = space[u]
  /\ UNCHANGED <<process, live, exited, last, parent>>

\* Such a step keeps the books.
LEMMA CalmKeeps ==
  ASSUME TypeOK, Life, Calm
  PROVE  Life'
<1>1. \A u \in Task : /\ Registered(u)' <=> Registered(u)
                      /\ state'[u] = "zombie" <=> state[u] = "zombie"
                      /\ state'[u] = "none" <=> state[u] = "none"
                      /\ state'[u] = "gone" <=> state[u] = "gone"
                      /\ pc'[u] \in Leaving <=> pc[u] \in Leaving
                      /\ pc'[u] = "exit2" <=> pc[u] = "exit2"
  BY DEF Calm, SamePlaces, Registered, Settled, Leaving
<1>2. \A p \in Task : Threads(p)' = Threads(p) /\ Working(p)' = Working(p)
  BY <1>1 DEF Calm, Threads, Working
<1>3. UNCHANGED <<process, live, exited, last, parent>>
  BY DEF Calm
<1>4. LiveExact' /\ ExitedIsOver' /\ NoLeakedChild'
  BY <1>1, <1>2, <1>3 DEF Life, LiveExact, ExitedIsOver, NoLeakedChild
<1>5. LeaderFirst'
  BY <1>1, <1>3 DEF Life, LeaderFirst, TypeOK
<1>6. LastIsLast'
  <2>1. \A t \in Task : Working(process[t])' = Working(process[t])
    BY <1>1, <1>3 DEF Threads, Working
  <2> QED BY <1>1, <1>3, <2>1 DEF Life, LastIsLast
<1>7. OneIsLast'
  BY <1>1, <1>2, <1>3 DEF Life, OneIsLast, Threads
<1>8. DeadLeft'
  BY <1>1, <1>3 DEF Life, DeadLeft, Calm
<1> QED BY <1>4, <1>5, <1>6, <1>7, <1>8 DEF Life

\* Waking changes sleeping tasks only.
LEMMA Readies ==
  ASSUME NEW W, state' = Readied(W)
  PROVE  \A u \in Task : state[u] \in Settled \/ state'[u] \in Settled => state'[u] = state[u]
BY DEF Readied, Asleep, Settled

\* Switching, waking and sleeping.
LEMMA SwitchCalm ==
  ASSUME ConstantsAssumption, IInv,
         \/ \E c \in Cpu : IdleDispatch(c) \/ Preempt(c)
         \/ \E E \in SUBSET sleepers : WakeExpired(E)
  PROVE  Calm /\ panicked' = FALSE
<1> USE DEF waitVars, progVars, SamePlaces
<1>1. ASSUME NEW c \in Cpu, IdleDispatch(c)
      PROVE  Calm /\ panicked' = FALSE
  BY <1>1, IdleDispatchEffect DEF Calm, IdleDispatch, Settled
<1>2. ASSUME NEW c \in Cpu, Preempt(c)
      PROVE  Calm /\ panicked' = FALSE
  <2>1. UNCHANGED progVars
    BY <1>2 DEF Preempt
  <2>2. /\ panicked' = FALSE
        /\ \A u \in Task : state[u] \in Settled \/ state'[u] \in Settled => state'[u] = state[u]
    BY <1>2, PreemptEffect DEF Settled
  <2>3. SamePlaces
    BY <1>2, PreemptEffect DEF Leaving
  <2> QED BY <2>1, <2>2, <2>3 DEF Calm
<1>3. ASSUME NEW E \in SUBSET sleepers, WakeExpired(E)
      PROVE  Calm /\ panicked' = FALSE
  <2>1. Wake(E) /\ UNCHANGED <<progVars, pc>> /\ E \in SUBSET Task
    BY <1>3 DEF WakeExpired, IInv, TypeOK
  <2>2. panicked' = FALSE
    BY <2>1, WakeEffect DEF IInv
  <2> QED BY <2>1, <2>2, Readies DEF Calm, Wake
<1> QED BY <1>1, <1>2, <1>3

\* The steps of a thread between its first and its last.
LEMMA ThreadCalm ==
  ASSUME ConstantsAssumption, IInv, NEW t \in Task, Running(t),
         \/ Trap(t) \/ PrepareWait(t) \/ CancelWait(t)
         \/ \E timed \in BOOLEAN : CommitWait(t, timed)
         \/ ReceiveCall(t) \/ ReceiveTest(t) \/ Post(t) \/ WakeChannel(t) \/ Sleep(t)
         \/ \E n \in Task : KillProgram(t, n) \/ WaitCall(t, n) \/ SignalThread(t, n)
  PROVE  Calm /\ (panicked' = FALSE \/ panicked' = panicked)
<1> USE DEF waitVars, progVars, taskVars
<1>0. /\ pc \in [Task -> Places] /\ waiters \in SUBSET Task
      /\ \A where : Goto(t, where) /\ pc[t] \notin Leaving /\ where \notin Leaving =>
           SamePlaces
  BY DEF IInv, TypeOK, Goto, Leaving, SamePlaces
<1>1. CASE Trap(t) \/ PrepareWait(t) \/ CancelWait(t) \/ ReceiveCall(t) \/ ReceiveTest(t)
           \/ Post(t) \/ \E n \in Task : WaitCall(t, n)
  <2>1. PICK where : Goto(t, where) /\ pc[t] \notin Leaving /\ where \notin Leaving
    BY <1>1 DEF Trap, PrepareWait, CancelWait, ReceiveCall, ReceiveTest, Post, WaitCall, Leaving
  <2>2. UNCHANGED <<state, progVars, panicked>>
    BY <1>1 DEF Trap, PrepareWait, CancelWait, ReceiveCall, ReceiveTest, Post, WaitCall
  <2> QED BY <1>0, <2>1, <2>2 DEF Calm
<1>2. ASSUME NEW W \in SUBSET Task, Wake(W), NEW where,
             Goto(t, where), pc[t] \notin Leaving, where \notin Leaving,
             UNCHANGED <<process, parent, live, exited, space, last>>
      PROVE  Calm /\ panicked' = FALSE
  <2>1. panicked' = FALSE
    BY <1>2, WakeEffect DEF IInv
  <2> QED BY <1>0, <1>2, <2>1, Readies DEF Calm, Wake
<1>3. CASE WakeChannel(t)
  <2> DEFINE W == {u \in waiters : chan[u] = Event}
  <2>1. Wake(W) /\ W \in SUBSET Task
    BY <1>0, <1>3 DEF WakeChannel
  <2> HIDE DEF W
  <2> QED BY <1>2, <1>3, <2>1 DEF WakeChannel, Leaving
<1>4. ASSUME NEW n \in Task, KillProgram(t, n)
      PROVE  Calm /\ panicked' = FALSE
  <2> DEFINE W == Asleep({u \in Threads(n) : state[u] # "zombie"})
  <2>1. Wake(W) /\ W \in SUBSET Task
    BY <1>4 DEF KillProgram, EndProgram, Asleep, Threads
  <2> HIDE DEF W
  <2> QED BY <1>2, <1>4, <2>1 DEF KillProgram, Leaving
<1>5. ASSUME NEW n \in Task, SignalThread(t, n)
      PROVE  Calm /\ panicked' = FALSE
  <2> DEFINE W == Asleep({n})
  <2>1. Wake(W) /\ W \in SUBSET Task
    BY <1>5 DEF SignalThread, Asleep
  <2> HIDE DEF W
  <2> QED BY <1>2, <1>5, <2>1 DEF SignalThread, Leaving
<1>6. ASSUME Block(t), NEW where,
             Goto(t, where), pc[t] \notin Leaving, where \notin Leaving, UNCHANGED progVars
      PROVE  Calm /\ panicked' = FALSE
  <2>1. /\ panicked' = FALSE /\ state'[t] = "blocked"
        /\ \A u \in Task \ {t} :
             state'[u] = state[u] \/ (state[u] = "ready" /\ state'[u] = "running")
    BY <1>6, BlockEffect DEF IInv
  <2> QED BY <1>0, <1>6, <2>1 DEF Calm, Settled, Running
<1>7. ASSUME NEW timed \in BOOLEAN, CommitWait(t, timed)
      PROVE  Calm /\ (panicked' = FALSE \/ panicked' = panicked)
  <2>1. /\ Goto(t, AfterWait(t, timed)) /\ pc[t] \notin Leaving /\ UNCHANGED progVars
        /\ AfterWait(t, timed) \notin Leaving
    BY <1>7 DEF CommitWait, AfterWait, Leaving
  <2>2. CASE Block(t)
    BY <1>6, <2>1, <2>2
  <2>3. CASE UNCHANGED <<taskVars, panicked>>
    BY <1>0, <2>1, <2>3 DEF Calm
  <2> QED BY <1>7, <2>2, <2>3 DEF CommitWait
<1>8. CASE Sleep(t)
  <2>1. /\ Goto(t, "ret") /\ pc[t] \notin Leaving /\ UNCHANGED progVars
        /\ "ret" \notin Leaving
    BY <1>8 DEF Sleep, Leaving
  <2>2. CASE Block(t)
    BY <1>6, <2>1, <2>2
  <2>3. CASE UNCHANGED <<taskVars, panicked>>
    BY <1>0, <2>1, <2>3 DEF Calm
  <2> QED BY <1>8, <2>2, <2>3 DEF Sleep
<1> QED BY <1>1, <1>3, <1>4, <1>5, <1>7, <1>8

-----------------------------------------------------------------------------
(* Steps that start a thread, or take it one step further out.             *)

\* What the books say of one program and of one thread.
LEMMA Entries ==
  ASSUME Life, TypeOK
  PROVE  /\ \A p \in Task : /\ IsFiniteSet(Working(p)) /\ live[p] = Cardinality(Working(p))
                            /\ exited[p] => state[p] # "none" /\ Working(p) = {}
                            /\ Threads(p) # {} /\ Working(p) = {} /\ ~exited[p] =>
                                 \E t \in Threads(p) : last[t] /\ state[t] # "zombie"
         /\ \A t \in Task : /\ process[t] \in Task
                            /\ Registered(t) => state[process[t]] # "none"
                            /\ last[t] /\ state[t] # "gone" =>
                                 state[t] # "none" /\ pc[t] \in Leaving /\ Working(process[t]) = {}
                            /\ state[t] = "zombie" => pc[t] = "exit2"
                            /\ Registered(t) /\ pc[t] = "exit2" => ~space[t]
                            /\ Registered(t) /\ parent[t] \in Task => ~exited[parent[t]]
BY DEF Life, LiveExact, LeaderFirst, LastIsLast, ExitedIsOver, OneIsLast, DeadLeft, NoLeakedChild,
   TypeOK

\* exit()'s decrement: the one that finds live_threads at 1 is the last.
LEMMA Decrements ==
  ASSUME TypeOK, Life, NEW t \in Task, Running(t), pc[t] \notin Leaving,
         Goto(t, "exit1"),
         live' = [live EXCEPT ![process[t]] = @ - 1],
         last' = [last EXCEPT ![t] = (live[process[t]] = 1)],
         \A u \in Task : state[u] \in Settled \/ state'[u] \in Settled => state'[u] = state[u],
         UNCHANGED <<process, parent, exited, space>>
  PROVE  Life'
<1>a. PICK p \in Task : p = process[t]
  BY DEF TypeOK
<1>1. \A u \in Task : /\ Registered(u)' <=> Registered(u)
                      /\ state'[u] = "zombie" <=> state[u] = "zombie"
                      /\ state'[u] = "none" <=> state[u] = "none"
                      /\ state'[u] = "gone" <=> state[u] = "gone"
  BY DEF Registered, Settled
<1>2. /\ pc'[t] = "exit1" /\ \A u \in Task \ {t} : pc'[u] = pc[u]
      /\ last'[t] = (live[p] = 1) /\ \A u \in Task \ {t} : last'[u] = last[u]
      /\ live'[p] = live[p] - 1 /\ \A q \in Task \ {p} : live'[q] = live[q]
  BY <1>a DEF Goto, TypeOK
<1>3. \A q \in Task : Threads(q)' = Threads(q)
  BY <1>1 DEF Threads
<1>4. t \in Threads(p) /\ t \in Working(p) /\ state[t] = "running"
  BY <1>a DEF Working, Threads, Registered, Running
<1>5. /\ Working(p)' = Working(p) \ {t}
      /\ \A q \in Task \ {p} : Working(q)' = Working(q)
  BY <1>a, <1>2, <1>3, <1>4 DEF Working, Threads, Leaving
<1>6. /\ IsFiniteSet(Working(p)) /\ live[p] = Cardinality(Working(p))
      /\ Cardinality(Working(p)) \in Nat
  BY Entries, FS_CardinalityType
<1>7. /\ IsFiniteSet(Working(p)') /\ Cardinality(Working(p)') = live[p] - 1
      /\ live[p] = 1 => Working(p)' = {}
      /\ Working(p)' = {} => live[p] = 1
  <2>1. IsFiniteSet(Working(p) \ {t}) /\ Cardinality(Working(p) \ {t}) = Cardinality(Working(p)) - 1
    BY <1>4, <1>6, FS_RemoveElement
  <2>2. IsFiniteSet(Working(p)') /\ Cardinality(Working(p)') = live[p] - 1
    BY <1>5, <1>6, <2>1
  <2>3. Cardinality(Working(p)') = 0 <=> Working(p)' = {}
    BY <2>2, FS_EmptySet
  <2> QED BY <1>6, <2>2, <2>3
<1>8. LiveExact'
  <2>1. IsFiniteSet(Working(p)') /\ live'[p] = Cardinality(Working(p)')
    BY <1>2, <1>7
  <2>2. ASSUME NEW q \in Task, q # p
        PROVE  IsFiniteSet(Working(q)') /\ live'[q] = Cardinality(Working(q)')
    <3>1. Working(q)' = Working(q) /\ live'[q] = live[q]
      BY <1>2, <1>5, <2>2
    <3> QED BY <3>1, Entries
  <2> QED BY <2>1, <2>2 DEF LiveExact
<1>9. LeaderFirst' /\ NoLeakedChild' /\ DeadLeft'
  BY <1>1, <1>2, <1>4, Entries DEF LeaderFirst, NoLeakedChild, DeadLeft
<1>10. LastIsLast'
  <2> SUFFICES ASSUME NEW u \in Task, last'[u], state'[u] # "gone"
               PROVE  state'[u] # "none" /\ pc'[u] \in Leaving /\ Working(process[u])' = {}
    BY DEF LastIsLast
  <2>1. CASE u = t
    BY <1>a, <1>1, <1>2, <1>4, <1>7, <2>1 DEF Leaving
  <2>2. CASE u # t
    <3>1. last[u] /\ state[u] # "gone"
      BY <1>1, <1>2, <2>2
    <3>2. state[u] # "none" /\ pc[u] \in Leaving /\ Working(process[u]) = {} /\ process[u] \in Task
      BY <3>1, Entries
    <3>3. process[u] # p
      BY <1>4, <3>2
    <3> QED BY <1>1, <1>2, <1>5, <2>2, <3>2, <3>3
  <2> QED BY <2>1, <2>2
<1>11. ExitedIsOver'
  BY <1>1, <1>4, <1>5, Entries DEF ExitedIsOver
<1>12. OneIsLast'
  <2> SUFFICES ASSUME NEW q \in Task, Threads(q)' # {}, Working(q)' = {}, ~exited[q]
               PROVE  \E u \in Threads(q)' : last'[u] /\ state'[u] # "zombie"
    BY DEF OneIsLast
  <2>1. CASE q = p
    BY <1>1, <1>2, <1>3, <1>4, <1>7, <2>1
  <2>2. CASE q # p
    <3>1. PICK u \in Threads(q) : last[u] /\ state[u] # "zombie"
      BY <1>3, <1>5, <2>2, Entries
    <3>2. u # t /\ u \in Task
      BY <1>a, <2>2, <3>1 DEF Threads
    <3> QED BY <1>1, <1>2, <1>3, <3>1, <3>2
  <2> QED BY <2>1, <2>2
<1> QED BY <1>8, <1>9, <1>10, <1>11, <1>12 DEF Life

\* A new record joins program p: its own, or one with a thread at work.
LEMMA Joins ==
  ASSUME TypeOK, Life, NEW n \in Task, NEW p \in Task, NEW x,
         p = n \/ Working(p) # {}, x \in Task => Working(x) # {},
         state[n] = "none", state' = [state EXCEPT ![n] = "ready"],
         process' = [process EXCEPT ![n] = p],
         parent' = [parent EXCEPT ![n] = x],
         live' = [live EXCEPT ![p] = IF p = n THEN 1 ELSE @ + 1],
         pc'[n] \notin Leaving,
         \A u \in Task \ {n} : pc[u] \in Leaving \/ pc'[u] \in Leaving => pc'[u] = pc[u],
         \A u \in Task \ {n} : space'[u] = space[u],
         UNCHANGED <<exited, last>>
  PROVE  Life'
<1>1. /\ state'[n] = "ready" /\ process'[n] = p /\ parent'[n] = x /\ ~Registered(n)
      /\ Registered(n)' /\ ~last[n]
      /\ \A u \in Task \ {n} :
           state'[u] = state[u] /\ process'[u] = process[u] /\ parent'[u] = parent[u]
           /\ (Registered(u)' <=> Registered(u))
      /\ live'[p] = IF p = n THEN 1 ELSE live[p] + 1
      /\ \A q \in Task \ {p} : live'[q] = live[q]
  BY Entries DEF TypeOK, Registered
<1>2. p = n => Threads(n) = {} /\ Working(n) = {}
  BY Entries DEF Threads, Working
<1>3. /\ Working(p)' = Working(p) \cup {n} /\ n \notin Working(p)
      /\ \A q \in Task \ {p} : Threads(q)' = Threads(q) /\ Working(q)' = Working(q)
  <2>1. /\ Threads(p)' = Threads(p) \cup {n} /\ n \notin Threads(p)
        /\ \A q \in Task \ {p} : Threads(q)' = Threads(q) /\ n \notin Threads(q)
    BY <1>1 DEF Threads
  <2>2. \A u \in Task \ {n} : pc'[u] \in Leaving <=> pc[u] \in Leaving
    OBVIOUS
  <2>3. \A q \in Task : Threads(q) \subseteq Task \ {n}
    BY <1>1 DEF Threads
  <2> QED BY <2>1, <2>2, <2>3 DEF Working
<1>4. LiveExact'
  <2>1. IsFiniteSet(Working(p)) /\ live[p] = Cardinality(Working(p))
    BY Entries
  <2>2. /\ IsFiniteSet(Working(p) \cup {n})
        /\ Cardinality(Working(p) \cup {n}) = Cardinality(Working(p)) + 1
    BY <1>3, <2>1, FS_AddElement
  <2>3. p = n => live[p] = 0
    BY <1>2, <2>1, FS_EmptySet
  <2>4. IsFiniteSet(Working(p)') /\ live'[p] = Cardinality(Working(p)')
    BY <1>1, <1>3, <2>1, <2>2, <2>3
  <2>5. ASSUME NEW q \in Task, q # p
        PROVE  IsFiniteSet(Working(q)') /\ live'[q] = Cardinality(Working(q)')
    <3>1. Working(q)' = Working(q) /\ live'[q] = live[q]
      BY <1>1, <1>3, <2>5
    <3> QED BY <3>1, Entries
  <2> QED BY <2>4, <2>5 DEF LiveExact
<1>5. LeaderFirst'
  <2>1. p = n \/ state[p] # "none"
    <3>1. ASSUME NEW u \in Working(p) PROVE state[p] # "none"
      BY Entries DEF Working, Threads
    <3> QED BY <3>1
  <2>2. \A q \in Task : state[q] # "none" \/ q = n => state'[q] # "none"
    BY <1>1
  <2> QED BY <1>1, <2>1, <2>2, Entries DEF LeaderFirst
<1>6. LastIsLast'
  <2> SUFFICES ASSUME NEW u \in Task, last[u], state'[u] # "gone"
               PROVE  state'[u] # "none" /\ pc'[u] \in Leaving /\ Working(process[u])' = {}
    BY DEF LastIsLast
  <2>1. u # n /\ state[u] # "gone" /\ process'[u] = process[u] /\ state'[u] = state[u]
    BY <1>1
  <2>2. state[u] # "none" /\ pc[u] \in Leaving /\ Working(process[u]) = {} /\ process[u] \in Task
    BY <2>1, Entries
  <2>3. process[u] # p
    <3>1. u \in Threads(process[u])
      BY <2>1, <2>2 DEF Threads, Registered
    <3> QED BY <1>2, <2>2, <3>1
  <2>4. PICK q \in Task : q = process[u]
    BY <2>2
  <2>5. Working(process[u])' = Working(q)'
    BY <2>1, <2>4 DEF Working, Threads
  <2> QED BY <1>3, <2>1, <2>2, <2>3, <2>4, <2>5
<1>7. ExitedIsOver'
  BY <1>1, <1>2, <1>3, Entries DEF ExitedIsOver
<1>8. OneIsLast'
  <2> SUFFICES ASSUME NEW q \in Task, Threads(q)' # {}, Working(q)' = {}, ~exited[q]
               PROVE  \E u \in Threads(q)' : last[u] /\ state'[u] # "zombie"
    BY DEF OneIsLast
  <2>1. q # p
    BY <1>3
  <2>2. PICK u \in Threads(q) : last[u] /\ state[u] # "zombie"
    BY <1>3, <2>1, Entries
  <2> QED BY <1>1, <1>3, <2>1, <2>2 DEF Threads
<1>9. DeadLeft'
  BY <1>1, Entries DEF DeadLeft, Leaving
<1>10. NoLeakedChild'
  BY <1>1, Entries DEF NoLeakedChild
<1> QED BY <1>4, <1>5, <1>6, <1>7, <1>8, <1>9, <1>10 DEF Life

\* The thread has left its address space.
LEMMA DropSpaceKeeps ==
  ASSUME TypeOK, Life, NEW t \in Task, ExitDropSpace(t)
  PROVE  Life' /\ panicked' = panicked
<1>1. /\ pc[t] = "exit1" /\ pc'[t] = "exit2" /\ \A u \in Task \ {t} : pc'[u] = pc[u]
      /\ ~space'[t] /\ \A u \in Task \ {t} : space'[u] = space[u]
      /\ UNCHANGED <<state, process, live, exited, last, parent, panicked>>
      /\ Running(t)
  BY DEF ExitDropSpace, Goto, TypeOK, taskVars
<1>2. \A q : Threads(q)' = Threads(q) /\ Working(q)' = Working(q)
  BY <1>1 DEF Threads, Working, Registered, Leaving
<1>3. LiveExact' /\ LeaderFirst' /\ ExitedIsOver' /\ NoLeakedChild'
  BY <1>1, <1>2, Entries DEF LiveExact, LeaderFirst, ExitedIsOver, NoLeakedChild, Registered
<1>4. LastIsLast' /\ OneIsLast' /\ DeadLeft'
  BY <1>1, <1>2, Entries DEF LastIsLast, OneIsLast, DeadLeft, Registered, Leaving, Running
<1> QED BY <1>1, <1>3, <1>4 DEF Life

-----------------------------------------------------------------------------
(* The end of a thread and of its record.                                  *)

\* exit() switches away for good, and only the last thread of a program ends it.
LEMMA PublishKeeps ==
  ASSUME ConstantsAssumption, IInv, Life, NEW t \in Task, ExitPublish(t)
  PROVE  Life' /\ panicked' = FALSE
<1>0. TypeOK
  BY DEF IInv
<1>a. PICK p \in Task : p = process[t]
  BY <1>0 DEF TypeOK
<1>1. /\ Running(t) /\ pc[t] = "exit2"
      /\ exited' = IF last[t] THEN [exited EXCEPT ![p] = TRUE] ELSE exited
      /\ parent' = IF last[t] THEN Orphaned(p) ELSE parent
      /\ UNCHANGED <<process, live, space, last, pc>>
  BY <1>a DEF ExitPublish
<1>2. /\ state'[t] = "zombie" /\ state[t] = "running"
      /\ \A u \in Task \ {t} :
           state[u] \in Settled \/ state'[u] \in Settled => state'[u] = state[u]
      /\ panicked' = FALSE
  BY <1>1, ExitPublishEffect DEF Settled, Running
<1>3. \A u \in Task : /\ Registered(u)' <=> Registered(u)
                      /\ state'[u] = "none" <=> state[u] = "none"
                      /\ state'[u] = "gone" <=> state[u] = "gone"
                      /\ state'[u] = "zombie" => state[u] = "zombie" \/ u = t
  BY <1>2 DEF Registered, Settled
<1>4. /\ \A q \in Task : Threads(q)' = Threads(q) /\ Working(q)' = Working(q)
      /\ \A u \in Task : Working(process[u])' = Working(process[u])
  BY <1>1, <1>3 DEF Threads, Working
<1>5. last[t] => Working(p) = {}
  BY <1>0, <1>a, <1>2, Entries
<1>6. LiveExact' /\ LeaderFirst' /\ LastIsLast' /\ DeadLeft'
  <2>1. LiveExact'
    BY <1>0, <1>1, <1>4, Entries DEF LiveExact
  <2>2. LeaderFirst' /\ DeadLeft'
    BY <1>0, <1>1, <1>3, Entries DEF LeaderFirst, DeadLeft
  <2>3. LastIsLast'
    <3> SUFFICES ASSUME NEW u \in Task, last[u], state'[u] # "gone"
                 PROVE  /\ state'[u] # "none" /\ pc[u] \in Leaving
                        /\ Working(process[u])' = {}
      BY <1>1 DEF LastIsLast
    <3>1. state[u] # "none" /\ pc[u] \in Leaving /\ Working(process[u]) = {}
      BY <1>0, <1>3, Entries
    <3> QED BY <1>3, <1>4, <3>1
  <2> QED BY <2>1, <2>2, <2>3
<1>7. \A q \in Task : exited'[q] <=> exited[q] \/ (last[t] /\ q = p)
  BY <1>0, <1>1 DEF TypeOK
<1>8. ExitedIsOver'
  <2>1. state[p] # "none"
    BY <1>0, <1>a, <1>2, Entries DEF Registered
  <2> QED BY <1>0, <1>3, <1>4, <1>5, <1>7, <2>1, Entries DEF ExitedIsOver
<1>9. OneIsLast'
  <2> SUFFICES ASSUME NEW q \in Task, Threads(q)' # {}, Working(q)' = {}, ~exited'[q]
               PROVE  \E u \in Threads(q)' : last'[u] /\ state'[u] # "zombie"
    BY DEF OneIsLast
  <2>1. PICK u \in Threads(q) : last[u] /\ state[u] # "zombie"
    BY <1>0, <1>4, <1>7, Entries
  <2>2. u # t
    BY <1>a, <1>7, <2>1 DEF Threads
  <2> QED BY <1>1, <1>3, <1>4, <2>1, <2>2 DEF Threads
<1>10. NoLeakedChild'
  <2> SUFFICES ASSUME NEW u \in Task, Registered(u)', parent'[u] \in Task
               PROVE  ~exited'[parent'[u]]
    BY DEF NoLeakedChild
  <2>1. Registered(u)
    BY <1>3
  <2>2. CASE ~last[t]
    BY <1>0, <1>1, <2>1, <2>2, Entries
  <2>3. CASE last[t]
    <3>1. parent'[u] = IF parent[u] = p THEN Nobody ELSE parent[u]
      BY <1>1, <2>1, <2>3 DEF Orphaned
    <3>2. parent'[u] = parent[u] /\ parent[u] # p
      BY <3>1 DEF ConstantsAssumption
    <3> QED BY <1>0, <1>7, <2>1, <3>2, Entries
  <2> QED BY <2>2, <2>3
<1> QED BY <1>2, <1>6, <1>8, <1>9, <1>10 DEF Life

\* The record of a thread is destroyed after its address space, and the last
\* record of a program after the program has exited.
LEMMA DestroyKeeps ==
  ASSUME TypeOK, Life, NEW n \in Task, Finished(n), Destroy(n), SamePlaces, UNCHANGED progVars
  PROVE  Life' /\ panicked' = FALSE
<1>a. PICK p \in Task : p = process[n]
  BY DEF TypeOK
<1>1. /\ state[n] = "zombie" /\ state'[n] = "gone" /\ \A u \in Task \ {n} : state'[u] = state[u]
      /\ UNCHANGED <<process, parent, live, exited, space, last>>
      /\ panicked' = (space[n] \/ (Threads(p) = {n} /\ ~exited[p]))
  BY <1>a DEF Finished, Destroy, TypeOK, progVars
<1>2. pc[n] = "exit2" /\ ~space[n] /\ Registered(n) /\ n \in Threads(p)
  BY <1>a, <1>1, Entries DEF Registered, Threads
<1>3. \A u \in Task : /\ Registered(u)' <=> Registered(u) /\ u # n
                      /\ pc'[u] \in Leaving <=> pc[u] \in Leaving
                      /\ pc'[u] = "exit2" <=> pc[u] = "exit2"
  BY <1>1 DEF Registered, SamePlaces, Leaving
<1>4. \A q \in Task : Threads(q)' = Threads(q) \ {n}
  BY <1>1, <1>3 DEF Threads
<1>5. /\ \A q \in Task : Working(q)' = Working(q)
      /\ \A u \in Task : Working(process[u])' = Working(process[u])
  BY <1>1, <1>2, <1>3 DEF Threads, Working, Leaving
<1>6. panicked' = FALSE
  <2>1. ASSUME Threads(p) = {n}, ~exited[p] PROVE FALSE
    <3>1. Working(p) = {}
      BY <1>2, <2>1 DEF Working, Leaving
    <3>2. PICK u \in Threads(p) : last[u] /\ state[u] # "zombie"
      BY <2>1, <3>1, Entries
    <3> QED BY <1>1, <2>1, <3>2
  <2> QED BY <1>1, <1>2, <2>1
<1>7. LiveExact' /\ LeaderFirst' /\ ExitedIsOver' /\ NoLeakedChild'
  BY <1>1, <1>3, <1>5, Entries DEF LiveExact, LeaderFirst, ExitedIsOver, NoLeakedChild
<1>8. LastIsLast' /\ DeadLeft'
  BY <1>1, <1>3, <1>5, Entries DEF LastIsLast, DeadLeft
<1>9. OneIsLast'
  <2> SUFFICES ASSUME NEW q \in Task, Threads(q)' # {}, Working(q)' = {}, ~exited[q]
               PROVE  \E u \in Threads(q)' : last[u] /\ state'[u] # "zombie"
    BY <1>1 DEF OneIsLast
  <2>1. PICK u \in Threads(q) : last[u] /\ state[u] # "zombie"
    BY <1>4, <1>5, Entries
  <2> QED BY <1>1, <1>4, <2>1 DEF Threads
<1> QED BY <1>6, <1>7, <1>8, <1>9 DEF Life

-----------------------------------------------------------------------------
(* The theorems.                                                           *)

\* After boot there is init, with one thread.
LEMMA LifeBegins == Init => Life /\ NoPanic
<1> SUFFICES ASSUME Init PROVE Life /\ NoPanic
  OBVIOUS
<1> USE ConstantsAssumption DEF Init, ConstantsAssumption
<1>1. /\ \A t \in Task : Registered(t) <=> t = Root
      /\ \A p \in Task : Threads(p) = (IF p = Root THEN {Root} ELSE {}) /\ Working(p) = Threads(p)
  BY DEF Registered, Threads, Working, Leaving
<1>2. LiveExact
  <2>1. /\ IsFiniteSet({Root}) /\ Cardinality({Root}) = 1
        /\ IsFiniteSet({}) /\ Cardinality({}) = 0
    BY FS_Singleton, FS_EmptySet
  <2> QED BY <1>1, <2>1 DEF LiveExact
<1>3. LeaderFirst /\ LastIsLast /\ ExitedIsOver /\ OneIsLast /\ DeadLeft /\ NoLeakedChild
  BY <1>1 DEF LeaderFirst, LastIsLast, ExitedIsOver, OneIsLast, DeadLeft, NoLeakedChild
<1> QED BY <1>2, <1>3 DEF Life, NoPanic

\* A step of a thread, by what it does to its program.
LEMMA ThreadKeeps ==
  ASSUME ConstantsAssumption, LInv, NEW t \in Task, LifeStep(t) \/ EventStep(t)
  PROVE  Life' /\ NoPanic'
<1>0. IInv /\ TypeOK /\ Life /\ LookHasPid /\ ~panicked /\ pc \in [Task -> Places]
  BY DEF LInv, IInv, NoPanic, TypeOK
<1>1. Running(t)
  BY DEF LifeStep, EventStep, Trap, ReturnToUser, Exec, ThreadStart, ThreadExit, ExitDropSpace,
     ExitPublish, WaitLook, WaitTest, PrepareWait, CancelWait, CommitWait, ExitGroup,
     SpawnProgram, SpawnThread, KillProgram, CollectNoHang, WaitCall, ReceiveCall, ReceiveTest,
     Post, WakeChannel, Sleep, SignalThread
<1>2. ASSUME Calm, panicked' = FALSE \/ panicked' = panicked PROVE Life' /\ NoPanic'
  BY <1>0, <1>2, CalmKeeps DEF NoPanic
<1>3. ASSUME NEW where, Goto(t, where), pc[t] \notin Leaving, where \notin Leaving
      PROVE  SamePlaces
  BY <1>0, <1>3 DEF Goto, Leaving, SamePlaces
<1>4. ASSUME ExitDecrement(t), pc[t] \notin Leaving PROVE Life' /\ NoPanic'
  <2>1. /\ Goto(t, "exit1")
        /\ live' = [live EXCEPT ![process[t]] = @ - 1]
        /\ last' = [last EXCEPT ![t] = (live[process[t]] = 1)]
        /\ UNCHANGED <<state, process, parent, exited, space, panicked>>
    BY <1>4 DEF ExitDecrement, taskVars
  <2>2. \A u \in Task : state[u] \in Settled \/ state'[u] \in Settled => state'[u] = state[u]
    BY <2>1
  <2>3. Life'
    BY <1>0, <1>1, <1>4, <2>1, <2>2, Decrements
  <2> QED BY <1>0, <2>1, <2>3 DEF NoPanic
<1>5. CASE ReturnToUser(t) \/ ThreadStart(t) \/ Exec(t) \/ ThreadExit(t)
  <2>1. pc[t] \notin Leaving
    BY <1>5 DEF ReturnToUser, ThreadStart, Exec, ThreadExit, Leaving
  <2>2. CASE ~ExitDecrement(t)
    <3>1. /\ Goto(t, "user") /\ UNCHANGED <<state, process, parent, live, exited, last, panicked>>
          /\ \A u \in Task : u # t => space'[u] = space[u]
      BY <1>0, <1>5, <2>2
         DEF ReturnToUser, ThreadStart, Exec, ThreadExit, taskVars, progVars, TypeOK
    <3>2. SamePlaces
      BY <1>3, <2>1, <3>1 DEF Leaving
    <3>3. \A u \in Task : pc[u] = "exit2" => u # t
      BY <2>1 DEF Leaving
    <3> QED BY <1>2, <3>1, <3>2, <3>3 DEF Calm
  <2> QED BY <1>4, <2>1, <2>2
<1>6. CASE ExitDropSpace(t) \/ ExitPublish(t)
  BY <1>0, <1>6, DropSpaceKeeps, PublishKeeps DEF NoPanic
<1>7. ASSUME NEW n \in Task, Finished(n), Destroy(n), NEW where,
             Goto(t, where), pc[t] \notin Leaving, where \notin Leaving, UNCHANGED progVars
      PROVE  Life' /\ NoPanic'
  <2>1. SamePlaces
    BY <1>3, <1>7
  <2> QED BY <1>0, <1>7, <2>1, DestroyKeeps DEF NoPanic
<1>8. CASE WaitLook(t) \/ WaitTest(t)
  <2>1. pc[t] \notin Leaving /\ UNCHANGED progVars
    BY <1>8 DEF WaitLook, WaitTest, Leaving
  <2>2. PICK where : Goto(t, where) /\ where \notin Leaving
    BY <1>8 DEF WaitLook, WaitTest, Leaving
  <2>3. CASE UNCHANGED <<taskVars, panicked>>
    <3>1. SamePlaces
      BY <1>3, <2>1, <2>2
    <3> QED BY <1>2, <2>1, <2>3, <3>1 DEF Calm, taskVars, progVars
  <2>4. CASE Finished(chan[t]) /\ Destroy(chan[t])
    <3>1. chan[t] \in Task
      BY <1>0, <1>8 DEF WaitLook, WaitTest, LookHasPid
    <3> QED BY <1>7, <2>1, <2>2, <2>4, <3>1
  <2> QED BY <1>8, <2>3, <2>4 DEF WaitLook, WaitTest
<1>9. ASSUME NEW n \in Task, CollectNoHang(t, n) PROVE Life' /\ NoPanic'
  <2>1. /\ Goto(t, "ret") /\ pc[t] \notin Leaving /\ "ret" \notin Leaving
        /\ Finished(n) /\ Destroy(n) /\ UNCHANGED progVars
    BY <1>9 DEF CollectNoHang, Leaving
  <2> QED BY <1>7, <2>1
<1>10. ASSUME NEW code \in ExitCodes, ExitGroup(t, code) PROVE Life' /\ NoPanic'
  <2> DEFINE W == Asleep(Threads(process[t]) \ {t})
  <2>1. Wake(W) /\ W \in SUBSET Task
    BY <1>10 DEF ExitGroup, EndProgram, Asleep, Threads
  <2> HIDE DEF W
  <2>2. panicked' = FALSE
    BY <1>0, <2>1, WakeEffect DEF IInv
  <2>3. \A u \in Task : state[u] \in Settled \/ state'[u] \in Settled => state'[u] = state[u]
    BY <2>1, Readies DEF Wake
  <2>4. /\ pc[t] \notin Leaving /\ Goto(t, "exit1")
        /\ live' = [live EXCEPT ![process[t]] = @ - 1]
        /\ last' = [last EXCEPT ![t] = (live[process[t]] = 1)]
        /\ UNCHANGED <<process, parent, exited, space>>
    BY <1>10 DEF ExitGroup, Leaving
  <2> QED BY <1>0, <1>1, <2>2, <2>3, <2>4, Decrements DEF NoPanic
<1>11. ASSUME NEW n \in Task, SpawnProgram(t, n) \/ SpawnThread(t, n) PROVE Life' /\ NoPanic'
  <2>a. PICK p \in Task : p = process[t]
    BY <1>0 DEF TypeOK
  <2>1. /\ state[n] = "none" /\ state' = [state EXCEPT ![n] = "ready"]
        /\ panicked' = (n \in runq) /\ UNCHANGED <<exited, last>> /\ n # t
    BY <1>1, <1>11 DEF SpawnProgram, SpawnThread, Publish, Running
  <2>2. ~panicked'
    <3>1. n \notin runq
      BY <1>0, <2>1 DEF IInv, RunQueueExact
    <3> QED BY <2>1, <3>1
  <2>3. Working(p) # {} /\ ~(Nobody \in Task)
    BY <1>1, <1>11, <2>a
       DEF Working, Threads, Registered, Running, SpawnProgram, SpawnThread, Leaving,
           ConstantsAssumption
  <2>4. /\ pc'[n] \notin Leaving
        /\ \A u \in Task \ {n} : pc[u] \in Leaving \/ pc'[u] \in Leaving => pc'[u] = pc[u]
    BY <1>0, <1>11, <2>1 DEF SpawnProgram, SpawnThread, Leaving
  <2>5. CASE SpawnProgram(t, n)
    <3>1. /\ process' = [process EXCEPT ![n] = n] /\ parent' = [parent EXCEPT ![n] = p]
          /\ live' = [live EXCEPT ![n] = IF n = n THEN 1 ELSE @ + 1]
          /\ space' = space
      BY <2>a, <2>5 DEF SpawnProgram
    <3> QED BY <1>0, <2>1, <2>2, <2>3, <2>4, <3>1, Joins DEF NoPanic
  <2>6. CASE SpawnThread(t, n)
    <3>1. p # n
      BY <1>0, <1>1, <2>a, <2>1, Entries DEF Registered, Running
    <3>2. /\ process' = [process EXCEPT ![n] = p] /\ parent' = [parent EXCEPT ![n] = Nobody]
          /\ live' = [live EXCEPT ![p] = IF p = n THEN 1 ELSE @ + 1]
          /\ \A u \in Task \ {n} : space'[u] = space[u]
      BY <1>0, <2>a, <2>6, <3>1 DEF SpawnThread, TypeOK
    <3> QED BY <1>0, <2>1, <2>2, <2>3, <2>4, <3>2, Joins DEF NoPanic
  <2> QED BY <1>11, <2>5, <2>6
<1>12. CASE \/ Trap(t) \/ PrepareWait(t) \/ CancelWait(t)
            \/ \E timed \in BOOLEAN : CommitWait(t, timed)
            \/ ReceiveCall(t) \/ ReceiveTest(t) \/ Post(t) \/ WakeChannel(t) \/ Sleep(t)
            \/ \E n \in Task : KillProgram(t, n) \/ WaitCall(t, n) \/ SignalThread(t, n)
  <2>1. Calm /\ (panicked' = FALSE \/ panicked' = panicked)
    BY <1>0, <1>1, <1>12, ThreadCalm
  <2> QED BY <1>2, <2>1
<1> QED BY <1>5, <1>6, <1>8, <1>9, <1>10, <1>11, <1>12 DEF LifeStep, EventStep

\* Only sysWait reaches the head of its loop, and it keeps the pid.
LEMMA LookKeeps ==
  ASSUME IInv, LookHasPid, [Next]_vars
  PROVE  LookHasPid'
<1>0. chan \in [Task -> Channels] /\ pc \in [Task -> Places]
  BY DEF IInv, TypeOK
<1>1. ASSUME chan' = chan, \A u \in Task : pc'[u] = "look" => pc[u] = "look"
      PROVE  LookHasPid'
  BY <1>1 DEF LookHasPid
<1>2. ASSUME NEW t \in Task, NEW where, Goto(t, where),
             \A u \in Task \ {t} : chan'[u] = chan[u],
             where = "look" => chan'[t] \in Task
      PROVE  LookHasPid'
  BY <1>0, <1>2 DEF LookHasPid, Goto
<1>3. CASE UNCHANGED vars
  BY <1>1, <1>3 DEF vars, waitVars
<1>4. CASE KernelStep
  <2>1. chan' = chan
    BY <1>4 DEF KernelStep, IdleDispatch, Preempt, WakeExpired, ReapOrphan, waitVars
  <2>2. \A u \in Task : pc'[u] = "look" => pc[u] = "look"
    BY <1>0, <1>4 DEF KernelStep, IdleDispatch, Preempt, WakeExpired, ReapOrphan, Goto
  <2> QED BY <1>1, <2>1, <2>2
<1>5. ASSUME NEW t \in Task, LifeStep(t) \/ EventStep(t) PROVE LookHasPid'
  <2>1. ASSUME NEW where, Goto(t, where), where # "look", chan' = chan PROVE LookHasPid'
    BY <1>2, <2>1
  <2>2. CASE Trap(t) \/ Exec(t) \/ ThreadExit(t) \/ ExitDropSpace(t)
    BY <2>1, <2>2 DEF Trap, Exec, ThreadStart, ThreadExit, ExitDecrement, ExitDropSpace, waitVars
  <2>3. CASE ThreadStart(t)
    BY <2>1, <2>3 DEF ThreadStart, ExitDecrement, waitVars
  <2>4. CASE WaitLook(t) \/ WaitTest(t) \/ PrepareWait(t) \/ CancelWait(t)
    BY <2>1, <2>4 DEF WaitLook, WaitTest, PrepareWait, CancelWait, waitVars
  <2>5. CASE ReceiveTest(t) \/ Post(t) \/ WakeChannel(t) \/ Sleep(t)
    BY <2>1, <2>5 DEF ReceiveTest, Post, WakeChannel, Sleep, waitVars
  <2>6. ASSUME NEW n \in Task, SignalThread(t, n) \/ CollectNoHang(t, n) PROVE LookHasPid'
    BY <2>1, <2>6 DEF SignalThread, CollectNoHang, waitVars
  <2>7. CASE \/ \E code \in ExitCodes : ExitGroup(t, code)
             \/ \E n \in Task : KillProgram(t, n)
    BY <2>1, <2>7 DEF ExitGroup, KillProgram, EndProgram
  <2>8. CASE ExitPublish(t)
    BY <1>1, <2>8 DEF ExitPublish
  <2>9. CASE ReturnToUser(t)
    <3>1. CASE kill[t]
      BY <2>1, <2>9, <3>1 DEF ReturnToUser, ExitDecrement, waitVars
    <3>2. CASE ~kill[t]
      BY <1>0, <1>2, <2>9, <3>2 DEF ReturnToUser
    <3> QED BY <3>1, <3>2
  <2>10. CASE ReceiveCall(t)
    BY <1>0, <1>2, <2>10 DEF ReceiveCall
  <2>11. ASSUME NEW n \in Task, WaitCall(t, n) PROVE LookHasPid'
    BY <1>0, <1>2, <2>11 DEF WaitCall
  <2>12. ASSUME NEW timed \in BOOLEAN, CommitWait(t, timed) PROVE LookHasPid'
    <3>1. AfterWait(t, timed) = "look" => chan[t] \in Task
      BY <1>0 DEF AfterWait, Channels
    <3>2. chan' = chan /\ Goto(t, AfterWait(t, timed))
      BY <2>12 DEF CommitWait
    <3> QED BY <1>2, <3>1, <3>2
  <2>13. ASSUME NEW n \in Task, SpawnProgram(t, n) \/ SpawnThread(t, n) PROVE LookHasPid'
    <3>1. chan' = chan
      BY <2>13 DEF SpawnProgram, SpawnThread, Publish, waitVars
    <3>2. \A u \in Task : pc'[u] = "look" => pc[u] = "look"
      BY <1>0, <2>13 DEF SpawnProgram, SpawnThread
    <3> QED BY <1>1, <3>1, <3>2
  <2> QED
    BY <1>5, <2>2, <2>3, <2>4, <2>5, <2>6, <2>7, <2>8, <2>9, <2>10, <2>11, <2>12, <2>13
       DEF LifeStep, EventStep
<1> QED BY <1>3, <1>4, <1>5 DEF Next

\* The inductive invariant of programs and their threads.
THEOREM LifeInvariance == Spec => []LInv
<1>0. ConstantsAssumption
  BY ConstantsAssumption
<1>1. Init => LInv
  BY <1>0, InitInvariant, LifeBegins DEF LInv, LookHasPid, Init
<1>2. LInv /\ [Next]_vars => LInv'
  <2> SUFFICES ASSUME LInv, [Next]_vars PROVE LInv'
    OBVIOUS
  <2>1. IInv' /\ LookHasPid' /\ IInv /\ TypeOK /\ Life /\ ~panicked
    BY <1>0, NextInvariant, LookKeeps DEF LInv, NoPanic, IInv
  <2>2. CASE UNCHANGED vars
    <3>1. Calm /\ panicked' = panicked
      BY <2>2 DEF Calm, SamePlaces, vars, taskVars, progVars
    <3> QED BY <2>1, <3>1, CalmKeeps DEF LInv, NoPanic
  <2>3. ASSUME NEW t \in Task, LifeStep(t) \/ EventStep(t) PROVE LInv'
    BY <1>0, <2>1, <2>3, ThreadKeeps DEF LInv
  <2>4. CASE KernelStep
    <3>1. CASE \/ \E c \in Cpu : IdleDispatch(c) \/ Preempt(c)
               \/ \E E \in SUBSET sleepers : WakeExpired(E)
      BY <1>0, <2>1, <3>1, SwitchCalm, CalmKeeps DEF LInv, NoPanic
    <3>2. ASSUME NEW n \in Task, ReapOrphan(n) PROVE LInv'
      <4>1. Finished(n) /\ Destroy(n) /\ SamePlaces /\ UNCHANGED progVars
        BY <3>2 DEF ReapOrphan, SamePlaces
      <4> QED BY <2>1, <4>1, DestroyKeeps DEF LInv, NoPanic
    <3> QED BY <2>4, <3>1, <3>2 DEF KernelStep
  <2> QED BY <2>2, <2>3, <2>4 DEF Next
<1> QED BY <1>1, <1>2, PTL DEF Spec

\* The kernel never stops in schedulerBug, nor in the assertions of task.destroy
\* and Process.release, for any number of CPUs, programs and threads.
THEOREM NeverPanics == Spec => []NoPanic
BY LifeInvariance, PTL DEF LInv

\* exit(), orphanChildrenLocked and spawnProcess never leave a record to a
\* program that has exited.
THEOREM ChildrenHaveCollectors == Spec => []NoLeakedChild
<1>1. LInv => NoLeakedChild
  BY DEF LInv, Life
<1> QED BY <1>1, LifeInvariance, PTL
=============================================================================
