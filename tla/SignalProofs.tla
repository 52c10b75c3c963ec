---------------------------- MODULE SignalProofs ----------------------------
(***************************************************************************)
(* Invariants of Signal, for any number of threads and signals.            *)
(***************************************************************************)
EXTENDS Signal, FiniteSetTheorems, TLAPS

\* The inductive invariant without the account of the signals.
SInv ==
  /\ Shape
  /\ \A t \in Thread : pc[t] \in Delivering => chosen[t] \in Sig
  /\ InterruptedNeverSleeps
  /\ MaskRestored
  /\ \A t \in Thread : pc[t] = "none" => frames[t] = << >>

-----------------------------------------------------------------------------
(* Frames as a stack of masks.                                             *)

\* Pushing a mask keeps the outermost one, or makes it the outermost.
LEMMA PushFrame ==
  ASSUME NEW S, NEW m \in S, NEW q \in Seq(S)
  PROVE  /\ <<m>> \o q \in Seq(S)
         /\ <<m>> \o q # << >>
         /\ (<<m>> \o q)[Len(<<m>> \o q)] = IF q = << >> THEN m ELSE q[Len(q)]
OBVIOUS

\* Popping yields the mask on top and keeps the outermost one.
LEMMA PopFrame ==
  ASSUME NEW S, NEW q \in Seq(S), q # << >>
  PROVE  /\ Head(q) \in S /\ Tail(q) \in Seq(S)
         /\ q[Len(q)] = IF Tail(q) = << >> THEN Head(q) ELSE Tail(q)[Len(Tail(q))]
<1>1. Len(q) \in Nat \ {0} /\ Head(q) = q[1] /\ Head(q) \in S
  OBVIOUS
<1>2. Tail(q) \in Seq(S) /\ Len(Tail(q)) = Len(q) - 1
  OBVIOUS
<1>3. \A i \in 1 .. Len(q) - 1 : Tail(q)[i] = q[i + 1]
  BY <1>1
<1>4. Tail(q) = << >> => Len(q) = 1
  BY <1>1, <1>2
<1>5. Tail(q) # << >> => Len(q) - 1 \in 1 .. Len(q) - 1
  BY <1>1, <1>2
<1> QED
  BY <1>1, <1>2, <1>3, <1>4, <1>5

-----------------------------------------------------------------------------
(* One lemma per kind of step.                                             *)

\* A step that only moves threads, none of them to sleep or into delivery.
LEMMA MoveStep ==
  ASSUME SInv, UNCHANGED otherVars, pc' \in [Thread -> Places],
         \A t \in Thread :
           pc'[t] = pc[t] \/ pc'[t] \notin Delivering \union {"asleep", "none"}
  PROVE  SInv'
BY DEF SInv, Shape, InterruptedNeverSleeps, MaskRestored, otherVars, Delivering

\* A send publishes a bit and touches neither masks nor flags.
LEMMA SendStep ==
  ASSUME SInv,
         \/ \E by \in Thread \union {Outside}, to \in Thread \union {Program} :
              \E s \in Sig : BeginSend(by, to, s)
         \/ Publish
  PROVE  SInv'
<1>1. ASSUME NEW by \in Thread \union {Outside},
             NEW to \in Thread \union {Program}, NEW s \in Sig,
             BeginSend(by, to, s)
      PROVE  SInv'
  <2>1. /\ pc' \in [Thread -> Places]
        /\ \A t \in Thread : pc'[t] = pc[t] \/ pc'[t] \in {"check", "send"}
    BY <1>1 DEF SInv, Shape, BeginSend, Places
  <2>2. post' = post \/ post' \in [stage : {"publish", "notify"},
          by : Thread \union {Outside}, to : Thread \union {Program}, sig : Sig]
    BY <1>1 DEF BeginSend, Post
  <2> QED
    BY <1>1, <2>1, <2>2 DEF SInv, Shape, InterruptedNeverSleeps, MaskRestored,
       BeginSend, Delivering
<1>2. ASSUME Publish PROVE SInv'
  <2>1. post \in [stage : {"publish", "notify"}, by : Thread \union {Outside},
                  to : Thread \union {Program}, sig : Sig]
    BY <1>2 DEF SInv, Shape, Publish, Free
  <2>2. post' \in [stage : {"publish", "notify"}, by : Thread \union {Outside},
                   to : Thread \union {Program}, sig : Sig]
    BY <1>2, <2>1 DEF Publish, Post
  <2>3. pending' \subseteq Sig /\ tpending' \in [Thread -> SUBSET Sig]
    <3>1. post.sig \in Sig /\ post.to \in Thread \union {Program}
      BY <2>1
    <3>2. CASE post.to = Program
      <4>1. pending' = pending \union {post.sig} /\ tpending' = tpending
        BY <1>2, <3>2 DEF Publish
      <4> QED
        BY <3>1, <4>1 DEF SInv, Shape
    <3>3. CASE post.to # Program
      <4>1. /\ tpending' = [tpending EXCEPT ![post.to] = @ \union {post.sig}]
            /\ pending' = pending
        BY <1>2, <3>3 DEF Publish
      <4> QED
        BY <3>1, <4>1 DEF SInv, Shape
    <3> QED
      BY <3>2, <3>3
  <2>4. owed' \in [Sig -> Int]
    BY <1>2, <2>1 DEF SInv, Shape, Publish, Owing
  <2> QED
    BY <1>2, <2>2, <2>3, <2>4 DEF SInv, Shape, InterruptedNeverSleeps,
       MaskRestored, Publish
<1> QED
  BY <1>1, <1>2

\* Notification sets the flag and wakes the same thread.
LEMMA NotifyStep == ASSUME SInv, Notify PROVE SInv'
<1>1. pc' \in [Thread -> Places] /\ interrupt' \in [Thread -> BOOLEAN]
  BY DEF SInv, Shape, Notify, Woken, Places
<1>2. \A t \in Thread : pc'[t] = "asleep" =>
        pc[t] = "asleep" /\ t \notin Target
  BY DEF SInv, Shape, Notify, Woken
<1>3. \A t \in Thread : pc'[t] \in Delivering \union {"none"} => pc'[t] = pc[t]
  BY DEF SInv, Shape, Notify, Woken, Delivering
<1>4. InterruptedNeverSleeps'
  BY <1>2 DEF SInv, Shape, InterruptedNeverSleeps, Notify
<1> QED
  BY <1>1, <1>3, <1>4 DEF SInv, Shape, MaskRestored, Notify, Free

\* Ending the program wakes everyone.
LEMMA KillStep == ASSUME SInv, SigKill PROVE SInv'
<1>1. pc' \in [Thread -> Places]
  BY DEF SInv, Shape, SigKill, Woken, Places
<1>2. \A t \in Thread : /\ pc'[t] # "asleep"
                        /\ pc'[t] \in Delivering \union {"none"} => pc'[t] = pc[t]
  BY DEF SInv, Shape, SigKill, Woken, Delivering
<1> QED
  BY <1>1, <1>2 DEF SInv, Shape, InterruptedNeverSleeps, MaskRestored, SigKill

\* What exitGroup does to the places, whoever calls it.
LEMMA ExitGroupEffect ==
  ASSUME Shape, NEW t \in Thread, ExitGroup(t)
  PROVE  /\ pc' \in [Thread -> Places] /\ exiting' = TRUE
         /\ \A u \in Thread : /\ pc'[u] # "asleep"
                              /\ pc'[u] \in Delivering \union {"none"} => pc'[u] = pc[u]
BY DEF Shape, ExitGroup, Woken, Places, Delivering

\* sigaction and sigmask.
LEMMA SetStep ==
  ASSUME SInv, NEW t \in Thread,
         \/ \E s \in Sig : \E a \in {"dfl", "ign", "handler"} : SetAction(t, s, a)
         \/ \E m \in SUBSET Sig : SetMask(t, m)
  PROVE  SInv'
<1>1. ASSUME NEW s \in Sig, NEW a \in {"dfl", "ign", "handler"}, SetAction(t, s, a)
      PROVE  SInv'
  BY <1>1 DEF SInv, Shape, InterruptedNeverSleeps, MaskRestored, SetAction,
     Owing, Goto, Places, Delivering
<1>2. ASSUME NEW m \in SUBSET Sig, SetMask(t, m) PROVE SInv'
  BY <1>2 DEF SInv, Shape, InterruptedNeverSleeps, MaskRestored, SetMask,
     Goto, Places, Delivering
<1> QED
  BY <1>1, <1>2

\* Waits, interrupts and the end of a thread only move it.
LEMMA WaitStep ==
  ASSUME SInv, NEW t \in Thread,
         BeginWait(t) \/ WaitEnds(t) \/ Interrupted(t) \/ ThreadExit(t) \/ ThreadStart(t)
  PROVE  SInv'
<1>1. pc' \in [Thread -> Places] /\ UNCHANGED otherVars
  BY DEF SInv, Shape, BeginWait, WaitEnds, Interrupted, ThreadExit, ThreadStart,
     Goto, Places
<1>2. \A u \in Thread :
        pc'[u] = pc[u] \/ pc'[u] \notin Delivering \union {"asleep", "none"}
  BY DEF SInv, Shape, BeginWait, WaitEnds, Interrupted, ThreadExit, ThreadStart,
     Goto, Delivering
<1> QED
  BY <1>1, <1>2, MoveStep

\* A thread sleeps only uninterrupted.
LEMMA CommitStep ==
  ASSUME SInv, NEW t \in Thread, CommitWait(t) PROVE SInv'
BY DEF SInv, Shape, InterruptedNeverSleeps, MaskRestored, CommitWait,
   InterruptedLocked, Goto, Places, Delivering, otherVars

\* sigreturn pops the mask it restores.
LEMMA SigReturnStep ==
  ASSUME SInv, NEW t \in Thread, SigReturn(t) PROVE SInv'
<1>1. CASE ExitGroup(t) /\ UNCHANGED <<blocked, frames>>
  BY <1>1, ExitGroupEffect DEF SInv, Shape, InterruptedNeverSleeps,
     MaskRestored, SigReturn
<1>2. CASE /\ blocked' = [blocked EXCEPT ![t] = Head(frames[t])]
           /\ frames' = [frames EXCEPT ![t] = Tail(@)]
           /\ Goto(t, "check") /\ UNCHANGED exiting
  <2>1. frames[t] \in Seq(SUBSET Sig) /\ frames[t] # << >>
    BY DEF SInv, Shape, SigReturn
  <2>2. /\ Head(frames[t]) \in SUBSET Sig /\ Tail(frames[t]) \in Seq(SUBSET Sig)
        /\ frames[t][Len(frames[t])] =
             IF Tail(frames[t]) = << >> THEN Head(frames[t])
             ELSE Tail(frames[t])[Len(Tail(frames[t]))]
    BY <2>1, PopFrame
  <2>3. Shape'
    BY <1>2, <2>2 DEF SInv, Shape, SigReturn, Goto, Places
  <2>4. MaskRestored'
    BY <1>2, <2>1, <2>2 DEF SInv, Shape, MaskRestored, SigReturn
  <2> QED
    BY <1>2, <2>3, <2>4 DEF SInv, Shape, InterruptedNeverSleeps, SigReturn,
       Goto, Delivering
<1> QED
  BY <1>1, <1>2 DEF SigReturn

\* A fault is handled or ends the program.
LEMMA FaultStep ==
  ASSUME SInv, NEW t \in Thread, NEW s \in Sig, Fault(t, s) PROVE SInv'
<1>1. CASE ExitGroup(t) /\ UNCHANGED chosen
  BY <1>1, ExitGroupEffect DEF SInv, Shape, InterruptedNeverSleeps,
     MaskRestored, Fault
<1>2. CASE /\ chosen' = [chosen EXCEPT ![t] = s]
           /\ Goto(t, IF s \in ResetHand THEN "faultReset" ELSE "faultFrame")
           /\ UNCHANGED exiting
  BY <1>2 DEF SInv, Shape, InterruptedNeverSleeps, MaskRestored, Fault, Goto,
     Places, Delivering
<1> QED
  BY <1>1, <1>2 DEF Fault

\* A new thread inherits a mask and no frames: its record has none yet.
LEMMA SpawnStep ==
  ASSUME SInv, NEW t \in Thread, NEW u \in Thread, SpawnThread(t, u)
  PROVE  SInv'
BY DEF SInv, Shape, InterruptedNeverSleeps, MaskRestored, SpawnThread, Places,
   Delivering

-----------------------------------------------------------------------------
(* Delivery.                                                               *)

\* The tests and the last store move the thread and clear its flag.
LEMMA CheckStep ==
  ASSUME SInv, NEW t \in Thread, Check(t) \/ Clear(t) PROVE SInv'
<1>1. CASE Check(t)
  BY <1>1 DEF SInv, Shape, InterruptedNeverSleeps, MaskRestored, Check, Goto,
     Places, Delivering, otherVars
<1>2. CASE Clear(t)
  BY <1>2 DEF SInv, Shape, InterruptedNeverSleeps, MaskRestored, Clear, Goto,
     Places, Delivering
<1> QED
  BY <1>1, <1>2

\* take() works on a signal of the pending sets.
LEMMA TakeStep ==
  ASSUME SInv, NEW t \in Thread, Take(t) PROVE SInv'
<1>1. CASE Goto(t, "clear") /\ UNCHANGED chosen
  BY <1>1 DEF SInv, Shape, InterruptedNeverSleeps, MaskRestored, Take, Goto,
     Places, Delivering
<1>2. ASSUME NEW s \in Deliverable(t), Goto(t, "claim"),
             chosen' = [chosen EXCEPT ![t] = s]
      PROVE  SInv'
  <2>1. s \in Sig
    BY DEF SInv, Shape, Deliverable
  <2> QED
    BY <1>2, <2>1 DEF SInv, Shape, InterruptedNeverSleeps, MaskRestored, Take,
       Goto, Places, Delivering
<1> QED
  BY <1>1, <1>2 DEF Take, Lowest

\* Claiming clears bits.
LEMMA ClaimStep ==
  ASSUME SInv, NEW t \in Thread, ClaimOwn(t) \/ ClaimShared(t) PROVE SInv'
<1>1. CASE ClaimOwn(t)
  BY <1>1 DEF SInv, Shape, InterruptedNeverSleeps, MaskRestored, ClaimOwn,
     Goto, Places, Delivering
<1>2. CASE ClaimShared(t)
  BY <1>2 DEF SInv, Shape, InterruptedNeverSleeps, MaskRestored, ClaimShared,
     Goto, Places, Delivering
<1> QED
  BY <1>1, <1>2

\* Acting settles one debt and ignores, ends the program or goes on.
LEMMA ActStep ==
  ASSUME SInv, NEW t \in Thread, Act(t) PROVE SInv'
<1>1. chosen[t] \in Sig /\ owed' \in [Sig -> Int]
  BY DEF SInv, Shape, Act, Owing, Delivering
<1>2. CASE ExitGroup(t)
  BY <1>1, <1>2, ExitGroupEffect DEF SInv, Shape, InterruptedNeverSleeps,
     MaskRestored, Act
<1>3. ASSUME NEW w \in {"take", "reset", "frame"}, Goto(t, w), UNCHANGED exiting
      PROVE  SInv'
  BY <1>1, <1>3 DEF SInv, Shape, InterruptedNeverSleeps, MaskRestored, Act,
     Goto, Places, Delivering
<1> QED
  BY <1>2, <1>3 DEF Act

\* SA_RESETHAND.
LEMMA ResetStep ==
  ASSUME SInv, NEW t \in Thread, ResetAction(t) PROVE SInv'
BY DEF SInv, Shape, InterruptedNeverSleeps, MaskRestored, ResetAction, Goto,
   Places, Delivering

\* setupFrame pushes the mask it replaces.
LEMMA FrameStep ==
  ASSUME SInv, NEW t \in Thread, SetupFrame(t) PROVE SInv'
<1>1. CASE ExitGroup(t) /\ UNCHANGED <<frames, blocked>>
  BY <1>1, ExitGroupEffect DEF SInv, Shape, InterruptedNeverSleeps,
     MaskRestored, SetupFrame
<1>2. CASE /\ frames' = [frames EXCEPT ![t] = <<blocked[t]>> \o @]
           /\ blocked' = [blocked EXCEPT ![t] = HandlerBlocks(t, chosen[t])]
           /\ Goto(t, IF pc[t] = "frame" THEN "clear"
                      ELSE IF exiting THEN "gone" ELSE "user")
           /\ UNCHANGED exiting
  <2>1. /\ blocked[t] \in SUBSET Sig /\ frames[t] \in Seq(SUBSET Sig)
        /\ chosen[t] \in Sig
    BY DEF SInv, Shape, SetupFrame, Delivering
  <2>2. HandlerBlocks(t, chosen[t]) \in SUBSET Sig
    BY <2>1, SignalAssumption DEF HandlerBlocks
  <2> DEFINE pushed == <<blocked[t]>> \o frames[t]
  <2>3. /\ pushed \in Seq(SUBSET Sig) /\ pushed # << >>
        /\ pushed[Len(pushed)] =
             IF frames[t] = << >> THEN blocked[t] ELSE frames[t][Len(frames[t])]
    BY <2>1, PushFrame
  <2>4. frames' = [frames EXCEPT ![t] = pushed]
    BY <1>2
  <2> HIDE DEF pushed
  <2>5. Shape'
    BY <1>2, <2>2, <2>3, <2>4 DEF SInv, Shape, SetupFrame, Goto, Places
  <2>6. MaskRestored'
    BY <1>2, <2>3, <2>4 DEF SInv, Shape, MaskRestored, SetupFrame
  <2> QED
    BY <1>2, <2>4, <2>5, <2>6 DEF SInv, Shape, InterruptedNeverSleeps,
       SetupFrame, Goto, Delivering
<1> QED
  BY <1>1, <1>2 DEF SetupFrame

\* Every step preserves the invariant.
LEMMA NextInvariant == SInv /\ [Next]_vars => SInv'
<1> SUFFICES ASSUME SInv, [Next]_vars PROVE SInv'
  OBVIOUS
<1>1. CASE UNCHANGED vars
  BY <1>1 DEF SInv, Shape, InterruptedNeverSleeps, MaskRestored, vars, otherVars
<1>2. CASE Send \/ SigKill
  BY <1>2, SendStep, NotifyStep, KillStep DEF Send
<1>3. ASSUME NEW t \in Thread, UserStep(t) PROVE SInv'
  BY <1>3, SetStep, FaultStep, SpawnStep, WaitStep, SigReturnStep,
     SignalAssumption DEF UserStep
<1>4. ASSUME NEW t \in Thread,
             ThreadStart(t) \/ Interrupted(t) \/ CommitWait(t) \/ WaitEnds(t)
      PROVE  SInv'
  BY <1>4, WaitStep, CommitStep
<1>5. ASSUME NEW t \in Thread, Deliver(t) PROVE SInv'
  BY <1>5, CheckStep, TakeStep, ClaimStep, ActStep, ResetStep, FrameStep
     DEF Deliver
<1> QED
  BY <1>1, <1>2, <1>3, <1>4, <1>5, SendStep DEF Next

\* It holds initially.
LEMMA InitInvariant == Init => SInv
<1> SUFFICES ASSUME Init PROVE SInv
  OBVIOUS
<1>1. Shape
  <2>1. << >> \in Seq(SUBSET Sig)
    OBVIOUS
  <2>2. frames \in [Thread -> Seq(SUBSET Sig)]
    BY <2>1 DEF Init
  <2>3. pc \in [Thread -> Places]
    BY DEF Init, Places
  <2>4. interrupt \in [Thread -> BOOLEAN] /\ exiting \in BOOLEAN
    BY DEF Init
  <2>5. chosen \in [Thread -> Sig \union {0}] /\ owed \in [Sig -> Int]
    BY DEF Init
  <2>6. /\ action \in [Sig -> {"dfl", "ign", "handler"}] /\ pending \subseteq Sig
        /\ tpending \in [Thread -> SUBSET Sig] /\ blocked \in [Thread -> SUBSET Sig]
        /\ asked \in [Thread -> SUBSET Sig] /\ post = Free
    BY DEF Init
  <2> QED
    BY <2>2, <2>3, <2>4, <2>5, <2>6 DEF Shape
<1>2. InterruptedNeverSleeps
  BY DEF Init, InterruptedNeverSleeps
<1>3. MaskRestored
  BY DEF Init, MaskRestored
<1> QED
  BY <1>1, <1>2, <1>3 DEF Init, SInv, Delivering

\* SInv is an invariant of the signal machinery.
THEOREM Invariance == Spec => []SInv
BY InitInvariant, NextInvariant, PTL DEF Spec

\* For any number of threads and signals, a thread with a published interrupt
\* or of an ending program is never asleep (sched.zig 1142, 1189).
THEOREM InterruptsWake == Spec => []InterruptedNeverSleeps
BY Invariance, PTL DEF SInv

\* For any nesting of handlers and faults, the mask the program asked for is
\* the one it has once its handlers have returned (signal.zig 207-314).
THEOREM MasksComeBack == Spec => []MaskRestored
BY Invariance, PTL DEF SInv

-----------------------------------------------------------------------------
(* The sender that holds the scheduler lock.                               *)

\* It stays inside its call until it releases the lock.
SenderInside == post # Free => post.by = Outside \/ pc[post.by] = "send"

\* The lock is held and no sender moves, or the lock is free afterwards.
LEMMA SenderStep ==
  ASSUME SInv, SenderInside, [Next]_vars PROVE SenderInside'
<1>1. ASSUME post' = Free PROVE SenderInside'
  BY <1>1 DEF SenderInside
<1>2. ASSUME post' = post, pc' \in [Thread -> Places],
             \A u \in Thread : pc[u] = "send" => pc'[u] = "send"
      PROVE  SenderInside'
  BY <1>2 DEF SInv, Shape, SenderInside, Free
<1>3. CASE UNCHANGED vars
  BY <1>2, <1>3 DEF SInv, Shape, vars, otherVars
<1>4. ASSUME NEW by \in Thread \union {Outside},
             NEW to \in Thread \union {Program}, NEW s \in Sig,
             BeginSend(by, to, s)
      PROVE  SenderInside'
  <2>1. CASE Discarded(s)
    BY <1>1, <1>4, <2>1 DEF BeginSend, LockFree
  <2>2. CASE ~Discarded(s)
    <3>1. post'.by = by /\ (by # Outside => pc'[by] = "send")
      BY <1>4, <2>2 DEF SInv, Shape, BeginSend, Post
    <3> QED
      BY <3>1 DEF SenderInside
  <2> QED
    BY <2>1, <2>2
<1>5. CASE Publish
  <2>1. post'.by = post.by /\ pc' = pc /\ post # Free
    BY <1>5 DEF Publish, Post, Free
  <2> QED
    BY <2>1 DEF SenderInside
<1>6. CASE Notify
  BY <1>1, <1>6 DEF Notify
<1>7. CASE SigKill
  BY <1>1, <1>7 DEF SigKill, LockFree
<1>8. ASSUME NEW t \in Thread, ExitGroup(t), post' = post PROVE SenderInside'
  BY <1>1, <1>8 DEF ExitGroup, LockFree
<1>9. ASSUME NEW t \in Thread, NEW w \in Places, pc[t] # "send", Goto(t, w), post' = post
      PROVE  SenderInside'
  BY <1>2, <1>9 DEF SInv, Shape, Goto
<1>10. ASSUME NEW t \in Thread, UserStep(t) PROVE SenderInside'
  <2>1. ASSUME NEW u \in Thread, SpawnThread(t, u) PROVE SenderInside'
    BY <1>1, <2>1 DEF SpawnThread, LockFree
  <2>2. ASSUME NEW s \in Faults, Fault(t, s) PROVE SenderInside'
    BY <1>8, <1>9, <2>2 DEF Fault, Places
  <2>3. ASSUME SigReturn(t) PROVE SenderInside'
    BY <1>8, <1>9, <2>3 DEF SigReturn, Places
  <2>4. ASSUME BeginWait(t) \/ ThreadExit(t) PROVE SenderInside'
    BY <1>9, <2>4 DEF BeginWait, ThreadExit, Places, otherVars
  <2>5. ASSUME NEW s \in Sig, NEW a \in {"dfl", "ign", "handler"}, SetAction(t, s, a)
        PROVE  SenderInside'
    BY <1>9, <2>5 DEF SetAction, Places
  <2>6. ASSUME NEW m \in SUBSET Sig, SetMask(t, m) PROVE SenderInside'
    BY <1>9, <2>6 DEF SetMask, Places
  <2> QED
    BY <1>10, <2>1, <2>2, <2>3, <2>4, <2>5, <2>6 DEF UserStep
<1>11. ASSUME NEW t \in Thread,
              ThreadStart(t) \/ Interrupted(t) \/ CommitWait(t) \/ WaitEnds(t)
       PROVE  SenderInside'
  BY <1>9, <1>11 DEF ThreadStart, Interrupted, CommitWait, WaitEnds, Places, otherVars
<1>12. ASSUME NEW t \in Thread, Deliver(t) PROVE SenderInside'
  <2>1. ASSUME Check(t) \/ Take(t) \/ ClaimOwn(t) \/ ClaimShared(t)
               \/ ResetAction(t) \/ Clear(t)
        PROVE  SenderInside'
    BY <1>9, <2>1 DEF Check, Take, ClaimOwn, ClaimShared, ResetAction, Clear,
       Places, otherVars
  <2>2. ASSUME Act(t) \/ SetupFrame(t) PROVE SenderInside'
    BY <1>8, <1>9, <2>2 DEF Act, SetupFrame, Places
  <2> QED
    BY <1>12, <2>1, <2>2 DEF Deliver
<1> QED
  BY <1>3, <1>4, <1>5, <1>6, <1>7, <1>10, <1>11, <1>12 DEF Next, Send

-----------------------------------------------------------------------------
(* The account of the signals.                                             *)

\* The sets SignalsConserved counts are finite.
LEMMA CountedSetsFinite ==
  ASSUME NEW s
  PROVE  /\ IsFiniteSet(Holders(s)) /\ IsFiniteSet(Claimants(s))
         /\ Cardinality(Holders(s)) \in Nat /\ Cardinality(Claimants(s)) \in Nat
<1>1. IsFiniteSet(Thread)
  BY FS_Interval, SignalAssumption DEF Thread
<1>2. Holders(s) \subseteq Thread /\ Claimants(s) \subseteq Thread
  BY DEF Holders, Claimants
<1>3. IsFiniteSet(Holders(s)) /\ IsFiniteSet(Claimants(s))
  BY <1>1, <1>2, FS_Subset
<1> QED
  BY <1>3, FS_CardinalityType

\* A step that sets, clears and claims nothing leaves the account alone.
LEMMA QuietAccount ==
  ASSUME SignalsConserved, UNCHANGED <<owed, pending, tpending>>,
         \A t \in Thread : (pc'[t] = "act" <=> pc[t] = "act"),
         \A t \in Thread : pc[t] = "act" => chosen'[t] = chosen[t]
  PROVE  SignalsConserved'
<1>1. \A s \in Sig : Holders(s)' = Holders(s) /\ Claimants(s)' = Claimants(s)
  BY DEF Holders, Claimants
<1> QED
  BY <1>1 DEF SignalsConserved

\* A bit that is set is one more debt; one that was set already is none.
LEMMA PublishAccount ==
  ASSUME SInv, SignalsConserved, Publish PROVE SignalsConserved'
<1>1. post.sig \in Sig /\ post.to \in Thread \union {Program}
  BY DEF SInv, Shape, Publish, Free
<1>2. \A s \in Sig : Claimants(s)' = Claimants(s)
  BY DEF Publish, Claimants
<1>3. CASE post.to = Program
  <2>1. \A s \in Sig : Holders(s)' = Holders(s)
    BY <1>3 DEF Publish, Holders
  <2>2. /\ pending' = pending \union {post.sig}
        /\ owed' = Owing(post.sig, IF post.sig \in pending THEN 0 ELSE 1)
    BY <1>3 DEF Publish
  <2> SUFFICES ASSUME NEW s \in Sig
               PROVE  owed'[s] = Cardinality(Holders(s)) + Cardinality(Claimants(s))
                                   + (IF s \in pending' THEN 1 ELSE 0)
    BY <1>2, <2>1 DEF SignalsConserved
  <2> QED
    BY <1>1, <2>2, CountedSetsFinite DEF SInv, Shape, SignalsConserved, Owing
<1>4. CASE post.to # Program
  <2>1. post.to \in Thread
    BY <1>1, <1>4
  <2>2. /\ tpending' = [tpending EXCEPT ![post.to] = @ \union {post.sig}]
        /\ owed' = Owing(post.sig, IF post.sig \in tpending[post.to] THEN 0 ELSE 1)
        /\ pending' = pending
    BY <1>4 DEF Publish
  <2>3. \A s \in Sig : Holders(s)' = IF s = post.sig
                                     THEN Holders(s) \union {post.to} ELSE Holders(s)
    BY <2>1, <2>2 DEF SInv, Shape, Holders
  <2>4. post.to \in Holders(post.sig) <=> post.sig \in tpending[post.to]
    BY <2>1 DEF Holders
  <2>5. Cardinality(Holders(post.sig) \union {post.to}) =
          Cardinality(Holders(post.sig))
            + (IF post.sig \in tpending[post.to] THEN 0 ELSE 1)
    <3>1. CASE post.sig \in tpending[post.to]
      <4>1. Holders(post.sig) \union {post.to} = Holders(post.sig)
        BY <2>4, <3>1
      <4>2. Cardinality(Holders(post.sig)) \in Nat
        BY CountedSetsFinite
      <4> DEFINE h == Cardinality(Holders(post.sig))
      <4>3. h = h + 0
        <5> HIDE DEF h
        <5>1. h \in Nat => h = h + 0
          OBVIOUS
        <5> QED
          BY <4>2, <5>1 DEF h
      <4> QED
        BY <3>1, <4>1, <4>3
    <3>2. CASE post.sig \notin tpending[post.to]
      <4>1. Cardinality(Holders(post.sig) \union {post.to}) =
              Cardinality(Holders(post.sig)) + 1
        BY <2>4, <3>2, CountedSetsFinite, FS_AddElement
      <4> QED
        BY <3>2, <4>1
    <3> QED
      BY <3>1, <3>2
  <2> SUFFICES ASSUME NEW s \in Sig
               PROVE  owed'[s] = Cardinality(Holders(s)') + Cardinality(Claimants(s))
                                   + (IF s \in pending THEN 1 ELSE 0)
    BY <1>2, <2>2 DEF SignalsConserved
  <2>6. CASE s = post.sig
    <3> DEFINE h == Cardinality(Holders(s))
               k == Cardinality(Claimants(s))
    <3>1. h \in Nat /\ k \in Nat
      BY CountedSetsFinite
    <3>2. Cardinality(Holders(s)') =
            h + (IF post.sig \in tpending[post.to] THEN 0 ELSE 1)
      BY <2>3, <2>5, <2>6
    <3>3. owed'[s] = owed[s] + (IF post.sig \in tpending[post.to] THEN 0 ELSE 1)
      BY <2>2, <2>6 DEF SInv, Shape, Owing
    <3>4. owed[s] = h + k + (IF s \in pending THEN 1 ELSE 0)
      BY DEF SignalsConserved
    <3> HIDE DEF h, k
    <3>5. owed'[s] = Cardinality(Holders(s)') + k + (IF s \in pending THEN 1 ELSE 0)
      BY <3>1, <3>2, <3>3, <3>4
    <3> QED
      BY <3>5 DEF k
  <2>7. CASE s # post.sig
    BY <1>1, <2>2, <2>3, <2>7 DEF SInv, Shape, SignalsConserved, Owing
  <2> QED
    BY <2>6, <2>7
<1> QED
  BY <1>3, <1>4

\* sigaction settles the debt of the bit it discards.
LEMMA SetActionAccount ==
  ASSUME SInv, SignalsConserved, NEW t \in Thread, NEW x \in Sig,
         NEW a \in {"dfl", "ign", "handler"}, SetAction(t, x, a)
  PROVE  SignalsConserved'
<1>1. \A s \in Sig : Holders(s)' = Holders(s) /\ Claimants(s)' = Claimants(s)
  BY DEF SInv, Shape, SetAction, Goto, Holders, Claimants
<1> SUFFICES ASSUME NEW s \in Sig
             PROVE  owed'[s] = Cardinality(Holders(s)) + Cardinality(Claimants(s))
                                 + (IF s \in pending' THEN 1 ELSE 0)
  BY <1>1 DEF SignalsConserved
<1> QED
  BY CountedSetsFinite DEF SInv, Shape, SetAction, SignalsConserved, Owing

\* A claim moves a debt from the pending words to the claimant.
LEMMA ClaimAccount ==
  ASSUME SInv, SignalsConserved, NEW t \in Thread, ClaimOwn(t) \/ ClaimShared(t)
  PROVE  SignalsConserved'
<1> DEFINE c == chosen[t]
<1>1. /\ c \in Sig /\ pc[t] # "act" /\ t \notin Claimants(c)
      /\ owed' = owed /\ chosen' = chosen
  BY DEF SInv, Shape, ClaimOwn, ClaimShared, Delivering, Claimants
<1>2. Cardinality(Claimants(c) \union {t}) = Cardinality(Claimants(c)) + 1
  BY <1>1, CountedSetsFinite, FS_AddElement
<1>3. \A s \in Sig : /\ Cardinality(Holders(s)) \in Nat
                     /\ Cardinality(Claimants(s)) \in Nat
  BY CountedSetsFinite
<1>4. CASE pc' = [pc EXCEPT ![t] = "act"]
  <2>1. \A s \in Sig : Claimants(s)' =
                         IF s = c THEN Claimants(s) \union {t} ELSE Claimants(s)
    BY <1>1, <1>4 DEF SInv, Shape, Claimants
  <2>2. CASE ClaimOwn(t)
    <3>1. c \in tpending[t] /\ pending' = pending
      BY <1>4, <2>2 DEF SInv, Shape, ClaimOwn, Goto
    <3>2. \A s \in Sig : Holders(s)' = IF s = c THEN Holders(s) \ {t} ELSE Holders(s)
      BY <2>2 DEF SInv, Shape, ClaimOwn, Holders
    <3>3. Cardinality(Holders(c) \ {t}) = Cardinality(Holders(c)) - 1
      <4>1. t \in Holders(c)
        BY <3>1 DEF Holders
      <4> QED
        BY <4>1, CountedSetsFinite, FS_RemoveElement
    <3> SUFFICES ASSUME NEW s \in Sig
                 PROVE  owed[s] = Cardinality(Holders(s)') + Cardinality(Claimants(s)')
                                    + (IF s \in pending THEN 1 ELSE 0)
      BY <1>1, <3>1 DEF SignalsConserved
    <3>4. CASE s = c
      <4> DEFINE h == Cardinality(Holders(s))
                 k == Cardinality(Claimants(s))
                 p == IF s \in pending THEN 1 ELSE 0
      <4>1. h \in Nat /\ k \in Nat /\ p \in Nat
        BY <1>3
      <4>2. Cardinality(Holders(s)') = h - 1 /\ Cardinality(Claimants(s)') = k + 1
        BY <1>2, <2>1, <3>2, <3>3, <3>4
      <4>3. owed[s] = h + k + p
        BY DEF SignalsConserved
      <4> HIDE DEF h, k, p
      <4>4. owed[s] = Cardinality(Holders(s)') + Cardinality(Claimants(s)') + p
        BY <4>1, <4>2, <4>3
      <4> QED
        BY <4>4 DEF p
    <3>5. CASE s # c
      BY <2>1, <3>2, <3>5 DEF SignalsConserved
    <3> QED
      BY <3>4, <3>5
  <2>3. CASE ClaimShared(t)
    <3>1. c \in pending /\ pending' = pending \ {c}
      BY <1>4, <2>3 DEF SInv, Shape, ClaimShared, Goto
    <3>2. \A s \in Sig : Holders(s)' = Holders(s)
      BY <2>3 DEF ClaimShared, Holders
    <3> SUFFICES ASSUME NEW s \in Sig
                 PROVE  owed[s] = Cardinality(Holders(s)') + Cardinality(Claimants(s)')
                                    + (IF s \in pending' THEN 1 ELSE 0)
      BY <1>1 DEF SignalsConserved
    <3>4. CASE s = c
      <4> DEFINE h == Cardinality(Holders(s))
                 k == Cardinality(Claimants(s))
      <4>1. h \in Nat /\ k \in Nat
        BY <1>3
      <4>2. Cardinality(Holders(s)') = h /\ Cardinality(Claimants(s)') = k + 1
        BY <1>2, <2>1, <3>2, <3>4
      <4>3. owed[s] = h + k + 1 /\ s \notin pending'
        BY <3>1, <3>4 DEF SignalsConserved
      <4> HIDE DEF h, k
      <4>4. owed[s] = Cardinality(Holders(s)') + Cardinality(Claimants(s)') + 0
        BY <4>1, <4>2, <4>3
      <4> QED
        BY <4>3, <4>4
    <3>5. CASE s # c
      BY <2>1, <3>1, <3>2, <3>5 DEF SignalsConserved
    <3> QED
      BY <3>4, <3>5
  <2> QED
    BY <2>2, <2>3
<1>5. CASE pc' # [pc EXCEPT ![t] = "act"]
  <2>1. \A u \in Thread : pc'[u] = "act" <=> pc[u] = "act"
    BY <1>1, <1>5 DEF SInv, Shape, ClaimOwn, ClaimShared, Goto
  <2>2. pending' = pending /\ tpending' = tpending
    <3>1. CASE ClaimOwn(t)
      <4>1. c \notin tpending[t]
        BY <1>5, <3>1 DEF ClaimOwn, Goto
      <4>2. tpending[t] \ {c} = tpending[t]
        BY <4>1
      <4> QED
        BY <3>1, <4>2 DEF SInv, Shape, ClaimOwn
    <3>2. CASE ClaimShared(t)
      BY <1>5, <3>2 DEF ClaimShared, Goto
    <3> QED
      BY <3>1, <3>2
  <2> QED
    BY <1>1, <2>1, <2>2, QuietAccount
<1> QED
  BY <1>4, <1>5

\* Acting settles the claimant's debt.
LEMMA ActAccount ==
  ASSUME SInv, SignalsConserved, NEW t \in Thread, Act(t)
  PROVE  SignalsConserved'
<1> DEFINE c == chosen[t]
<1>1. c \in Sig /\ t \in Claimants(c) /\ UNCHANGED <<pending, tpending, chosen>>
  BY DEF SInv, Shape, Act, Delivering, Claimants
<1>2. pc'[t] # "act" /\ \A u \in Thread \ {t} : pc'[u] = "act" <=> pc[u] = "act"
  BY DEF SInv, Shape, Act, Goto, ExitGroup, Woken
<1>3. \A s \in Sig : /\ Holders(s)' = Holders(s)
                     /\ Claimants(s)' = IF s = c THEN Claimants(s) \ {t} ELSE Claimants(s)
  BY <1>1, <1>2 DEF Holders, Claimants
<1>4. Cardinality(Claimants(c) \ {t}) = Cardinality(Claimants(c)) - 1
  BY <1>1, CountedSetsFinite, FS_RemoveElement
<1>5. \A s \in Sig : /\ Cardinality(Holders(s)) \in Nat
                     /\ Cardinality(Claimants(s)) \in Nat
  BY CountedSetsFinite
<1>6. \A s \in Sig : owed'[s] = owed[s] - (IF s = c THEN 1 ELSE 0)
  BY DEF SInv, Shape, Act, Owing
<1> SUFFICES ASSUME NEW s \in Sig
             PROVE  owed'[s] = Cardinality(Holders(s)') + Cardinality(Claimants(s)')
                                 + (IF s \in pending THEN 1 ELSE 0)
  BY <1>1 DEF SignalsConserved
<1>7. CASE s = c
  <2> DEFINE h == Cardinality(Holders(s))
             k == Cardinality(Claimants(s))
             p == IF s \in pending THEN 1 ELSE 0
  <2>1. h \in Nat /\ k \in Nat /\ p \in Nat
    BY <1>5
  <2>2. Cardinality(Holders(s)') = h /\ Cardinality(Claimants(s)') = k - 1
    BY <1>3, <1>4, <1>7
  <2>3. owed[s] = h + k + p
    BY DEF SignalsConserved
  <2>4. owed'[s] = owed[s] - 1
    BY <1>6, <1>7
  <2> HIDE DEF h, k, p
  <2>5. owed'[s] = Cardinality(Holders(s)') + Cardinality(Claimants(s)') + p
    BY <2>1, <2>2, <2>3, <2>4
  <2> QED
    BY <2>5 DEF p
<1>8. CASE s # c
  <2>1. owed[s] \in Int /\ owed'[s] = owed[s]
    BY <1>6, <1>8 DEF SInv, Shape
  <2> QED
    BY <1>3, <1>8, <2>1 DEF SignalsConserved
<1> QED
  BY <1>7, <1>8

\* Every other step is quiet.
LEMMA NextAccount ==
  ASSUME SInv, SenderInside, SignalsConserved, [Next]_vars
  PROVE  SignalsConserved'
<1>1. CASE UNCHANGED vars
  BY <1>1, QuietAccount DEF vars, otherVars
<1>2. ASSUME NEW by \in Thread \union {Outside},
             NEW to \in Thread \union {Program}, NEW s \in Sig,
             BeginSend(by, to, s)
      PROVE  SignalsConserved'
  BY <1>2, QuietAccount DEF SInv, Shape, BeginSend
<1>3. CASE Send \/ SigKill
  <2>1. ASSUME Notify PROVE SignalsConserved'
    <3>1. \A u \in Thread : u = post.by => pc[u] = "send"
      BY <2>1 DEF Notify, SenderInside, Free, Outside, Thread
    <3>2. \A u \in Thread : pc'[u] = "act" <=> pc[u] = "act"
      BY <2>1, <3>1 DEF SInv, Shape, Notify, Woken
    <3> QED
      BY <2>1, <3>2, QuietAccount DEF Notify
  <2>2. ASSUME SigKill PROVE SignalsConserved'
    <3>1. \A u \in Thread : pc'[u] = "act" <=> pc[u] = "act"
      BY <2>2 DEF SInv, Shape, SigKill, Woken
    <3> QED
      BY <2>2, <3>1, QuietAccount DEF SigKill
  <2> QED
    BY <1>3, <2>1, <2>2, PublishAccount DEF Send
<1>4. ASSUME NEW t \in Thread,
             ThreadStart(t) \/ Interrupted(t) \/ CommitWait(t) \/ WaitEnds(t) \/ BeginWait(t)
               \/ SigReturn(t) \/ ThreadExit(t) \/ (\E m \in SUBSET Sig : SetMask(t, m))
      PROVE  SignalsConserved'
  BY <1>4, QuietAccount DEF SInv, Shape, Interrupted, CommitWait, WaitEnds,
     ThreadStart, BeginWait, SigReturn, ThreadExit, SetMask, Goto, ExitGroup, Woken, otherVars
<1>5. ASSUME NEW t \in Thread,
             (\E s \in Faults : Fault(t, s)) \/ (\E u \in Thread : SpawnThread(t, u))
      PROVE  SignalsConserved'
  BY ZenonT(40), <1>5, QuietAccount DEF SInv, Shape, Fault, SpawnThread, Goto, ExitGroup,
     Woken
<1>6. ASSUME NEW t \in Thread,
             Check(t) \/ Take(t) \/ ResetAction(t) \/ SetupFrame(t) \/ Clear(t)
      PROVE  SignalsConserved'
  BY <1>6, QuietAccount DEF SInv, Shape, Check, Take, ResetAction, SetupFrame,
     Clear, Goto, ExitGroup, Woken, otherVars
<1>7. ASSUME NEW t \in Thread, UserStep(t) PROVE SignalsConserved'
  BY <1>4, <1>5, <1>7, SetActionAccount DEF UserStep
<1>8. ASSUME NEW t \in Thread, Deliver(t) PROVE SignalsConserved'
  BY <1>6, <1>8, ClaimAccount, ActAccount DEF Deliver
<1> QED
  BY <1>1, <1>2, <1>3, <1>4, <1>7, <1>8 DEF Next

\* For any number of threads and signals, no signal is lost between its sender
\* and the thread that acts on it, and none is acted on twice (take(),
\* signal.zig 324-337).
THEOREM NeitherLostNorDoubled == Spec => []SignalsConserved
<1>1. Init => SignalsConserved
  <2> SUFFICES ASSUME Init, NEW s \in Sig
               PROVE  owed[s] = Cardinality(Holders(s)) + Cardinality(Claimants(s))
                                  + (IF s \in pending THEN 1 ELSE 0)
    BY DEF SignalsConserved
  <2>1. Holders(s) = {} /\ Claimants(s) = {}
    BY DEF Init, Holders, Claimants
  <2> QED
    BY <2>1, FS_EmptySet DEF Init
<1>2. Init => SenderInside
  BY DEF Init, SenderInside
<1>3. SInv /\ SenderInside /\ [Next]_vars => SenderInside'
  BY SenderStep
<1>4. SInv /\ SenderInside /\ SignalsConserved /\ [Next]_vars => SignalsConserved'
  BY NextAccount
<1> QED
  BY <1>1, <1>2, <1>3, <1>4, Invariance, PTL DEF Spec

\* Type correctness follows: a debt counts members of sets.
THEOREM TypeCorrect == Spec => []TypeOK
<1>1. SInv /\ SignalsConserved => TypeOK
  <2> SUFFICES ASSUME SInv, SignalsConserved, NEW s \in Sig PROVE owed[s] >= 0
    BY DEF SInv, TypeOK
  <2>1. Cardinality(Holders(s)) \in Nat /\ Cardinality(Claimants(s)) \in Nat
    BY CountedSetsFinite
  <2> QED
    BY <2>1 DEF SignalsConserved
<1> QED
  BY <1>1, Invariance, NeitherLostNorDoubled, PTL

=============================================================================
