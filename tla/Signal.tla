------------------------------- MODULE Signal -------------------------------
(***************************************************************************)
(* POSIX signals of one program (kernel/sched/signal.zig, the signalling   *)
(* half of sched.zig and the signal calls of syscall.zig): posting to the  *)
(* program or to one thread, the blocked mask, interruption of a wait,     *)
(* delivery on the way back to user mode, handler frames and sigreturn.    *)
(*                                                                         *)
(* A sender holds the scheduler lock from its disposition test to the      *)
(* wake-up, but delivery takes no scheduler lock: it reads and clears the  *)
(* pending words and sig_interrupt with plain atomic operations.  So a     *)
(* send is three actions here and a delivery one action per atomic access. *)
(* While `post` is in progress no other action that needs the lock runs.   *)
(*                                                                         *)
(* SIGKILL is the action SigKill; SIGSTOP is always discarded.  Sig holds  *)
(* the other signals, the ones UNBLOCKABLE leaves alone.                   *)
(***************************************************************************)
EXTENDS Integers, Sequences, FiniteSets

CONSTANTS
  Threads,      \* the program has at most this many threads (1 is the leader)
  Signals,      \* signal numbers 1..Signals
  DefaultIgnores,  \* signals whose default action is to do nothing
  NoDefer,      \* signals whose handler has SA_NODEFER
  ResetHand,    \* signals whose handler has SA_RESETHAND
  HandlerMask,  \* Action.mask of each signal's handler
  Faults,       \* signals the hardware raises synchronously
  MaxFrames     \* handler frames a thread's stack can take

Thread == 1 .. Threads
Sig == 1 .. Signals

ASSUME SignalAssumption ==
  /\ Threads \in Nat \ {0} /\ Signals \in Nat
  /\ DefaultIgnores \subseteq Sig /\ NoDefer \subseteq Sig
  /\ ResetHand \subseteq Sig /\ Faults \subseteq Sig
  /\ HandlerMask \in [Sig -> SUBSET Sig]
  /\ MaxFrames \in Nat

VARIABLES
  pc,        \* where a thread is between user mode, a wait and delivery
  action,    \* ProcessSignals.actions: "dfl", "ign" or "handler"
  pending,   \* ProcessSignals.pending
  tpending,  \* Task.sig_pending
  blocked,   \* Task.sig_blocked
  interrupt, \* Task.sig_interrupt
  chosen,    \* the signal delivery is working on (take's `sig`)
  frames,    \* masks saved in the handler frames on the user stack
  exiting,   \* Process.exiting, and with it every thread's kill_pending
  post,      \* the send that holds the scheduler lock, or Free
  owed,      \* history: bits set by senders and neither acted on nor discarded
  asked      \* history: the mask the program set outside its handlers

otherVars == <<action, pending, tpending, blocked, interrupt, chosen, frames,
               exiting, post, owed, asked>>
vars == <<pc, otherVars>>

Program == 0                       \* a send to the program as a whole
Outside == 0                       \* a sender that is another program
Free == [stage |-> "free"]

Absent == {"none", "gone"}
Post(by, to, s, stage) == [stage |-> stage, by |-> by, to |-> to, sig |-> s]
LockFree == post = Free

Init ==
  /\ pc = [t \in Thread |-> IF t = 1 THEN "user" ELSE "none"]
  /\ action = [s \in Sig |-> "dfl"]
  /\ pending = {}
  /\ tpending = [t \in Thread |-> {}]
  /\ blocked = [t \in Thread |-> {}]
  /\ interrupt = [t \in Thread |-> FALSE]
  /\ chosen = [t \in Thread |-> 0]
  /\ frames = [t \in Thread |-> << >>]
  /\ exiting = FALSE
  /\ post = Free
  /\ owed = [s \in Sig |-> 0]
  /\ asked = [t \in Thread |-> {}]

Goto(t, where) == pc' = [pc EXCEPT ![t] = where]

-----------------------------------------------------------------------------
(* Sending: signalProcess and signalThread, under the scheduler lock.      *)

\* The signal would be thrown away on arrival.
Discarded(s) ==
  \/ action[s] = "ign"
  \/ action[s] = "dfl" /\ s \in DefaultIgnores

\* wakeForInterruptLocked, applied to every thread of `who`.
Woken(who) ==
  [u \in Thread |-> IF u \in who /\ pc[u] = "asleep" THEN "check" ELSE pc[u]]

\* kill() from a parent or from a thread of the program; tkill() from within.
\* A signal the program ignores is dropped here, before anything is published.
BeginSend(by, to, s) ==
  /\ LockFree
  /\ \E t \in Thread : pc[t] \notin Absent
  /\ by = Outside => to = Program
  /\ by # Outside => pc[by] = "user"
  /\ to # Program => pc[to] \notin Absent
  /\ IF Discarded(s)
     THEN /\ pc' = IF by = Outside THEN pc ELSE [pc EXCEPT ![by] = "check"]
          /\ UNCHANGED post
     ELSE /\ post' = Post(by, to, s, "publish")
          /\ pc' = IF by = Outside THEN pc ELSE [pc EXCEPT ![by] = "send"]
  /\ UNCHANGED <<action, pending, tpending, blocked, interrupt, chosen,
                 frames, exiting, owed, asked>>

Owing(s, change) == [owed EXCEPT ![s] = @ + change]

\* Set the pending bit; the receiver may take it from here on.
Publish ==
  /\ post.stage = "publish"
  /\ IF post.to = Program
     THEN /\ pending' = pending \union {post.sig} /\ UNCHANGED tpending
          /\ owed' = Owing(post.sig, IF post.sig \in pending THEN 0 ELSE 1)
     ELSE /\ tpending' = [tpending EXCEPT ![post.to] = @ \union {post.sig}]
          /\ owed' = Owing(post.sig, IF post.sig \in tpending[post.to] THEN 0 ELSE 1)
          /\ UNCHANGED pending
  /\ post' = Post(post.by, post.to, post.sig, "notify")
  /\ UNCHANGED <<pc, action, blocked, interrupt, chosen, frames, exiting,
                 asked>>

\* The least member of a set of numbers, if it has one: the first of a scan.
Lowest(S) == {x \in S : \A y \in S : x <= y}

\* The thread a send interrupts: the addressed one, or the first registered
\* one of the program, unless it blocks the signal.
Target ==
  LET able == {t \in Thread : pc[t] \notin Absent /\ post.sig \notin blocked[t]}
  IN  IF post.to = Program THEN Lowest(able) ELSE able \intersect {post.to}

\* Interrupt the target and make it runnable, then release the lock.
Notify ==
  /\ post.stage = "notify"
  /\ interrupt' = [t \in Thread |-> interrupt[t] \/ t \in Target]
  /\ pc' = [t \in Thread |->
              IF t = post.by THEN "check" ELSE Woken(Target)[t]]
  /\ post' = Free
  /\ UNCHANGED <<action, pending, tpending, blocked, chosen, frames, exiting,
                 owed, asked>>

\* SIGKILL, from the parent or from within: every thread is to leave.
SigKill ==
  /\ LockFree /\ \E t \in Thread : pc[t] \notin Absent
  /\ exiting' = TRUE
  /\ pc' = Woken(Thread)
  /\ UNCHANGED <<action, pending, tpending, blocked, interrupt, chosen,
                 frames, post, owed, asked>>

-----------------------------------------------------------------------------
(* System calls and traps of a thread in user mode.                        *)

\* sigaction: ignoring a signal clears its bit among the program's pending.
SetAction(t, s, a) ==
  /\ pc[t] = "user"
  /\ action' = [action EXCEPT ![s] = a]
  /\ LET discards == a = "ign" \/ (a = "dfl" /\ s \in DefaultIgnores)
     IN  /\ pending' = IF discards THEN pending \ {s} ELSE pending
         /\ owed' = Owing(s, IF discards /\ s \in pending THEN -1 ELSE 0)
  /\ Goto(t, "check")
  /\ UNCHANGED <<tpending, blocked, interrupt, chosen, frames, exiting, post,
                 asked>>

\* sigmask: the thread's own store, taken under no lock.
SetMask(t, m) ==
  /\ pc[t] = "user"
  /\ blocked' = [blocked EXCEPT ![t] = m]
  /\ asked' = IF frames[t] = << >> THEN [asked EXCEPT ![t] = m] ELSE asked
  /\ Goto(t, "check")
  /\ UNCHANGED <<action, pending, tpending, interrupt, chosen, frames,
                 exiting, post, owed>>

\* A blocking call: it links itself on its channel, and sleeps at its commit.
BeginWait(t) ==
  /\ pc[t] = "user"
  /\ Goto(t, "wait")
  /\ UNCHANGED otherVars

\* Seeded fault: a caught signal no longer keeps a thread from sleeping.
InterruptedByKillOnly(t) == exiting

\* interruptedLocked: the test a thread makes under the lock before it sleeps.
InterruptedLocked(t) == exiting \/ interrupt[t]

\* commitWait, commitWaitTimeout and sleepMs: sleep unless interrupted.
CommitWait(t) ==
  /\ pc[t] = "wait" /\ LockFree
  /\ Goto(t, IF InterruptedLocked(t) THEN "check" ELSE "asleep")
  /\ UNCHANGED otherVars

\* The event or the deadline arrives, before the commit or after it.
WaitEnds(t) ==
  /\ pc[t] \in {"wait", "asleep"} /\ LockFree
  /\ Goto(t, "check")
  /\ UNCHANGED otherVars

\* Seeded fault: only system calls return through delivery.
InterruptSkipsDelivery(t) ==
  /\ pc[t] = "user"
  /\ UNCHANGED vars

\* A device or timer interrupt taken in user mode returns through delivery.
Interrupted(t) ==
  /\ pc[t] = "user"
  /\ Goto(t, "check")
  /\ UNCHANGED otherVars

\* exitGroup by a thread: the others are flagged and woken, the caller leaves.
ExitGroup(t) ==
  /\ LockFree
  /\ exiting' = TRUE
  /\ pc' = [Woken(Thread) EXCEPT ![t] = "gone"]

\* Seeded fault: the outermost frame is the one that is left.
SigReturnOutermost(t) ==
  LET outer == Len(frames[t])
  IN  /\ pc[t] = "user" /\ outer > 0
      /\ blocked' = [blocked EXCEPT ![t] = frames[t][outer]]
      /\ frames' = [frames EXCEPT ![t] = SubSeq(@, 1, outer - 1)]
      /\ Goto(t, "check")
      /\ UNCHANGED <<action, pending, tpending, interrupt, chosen, exiting, post,
                     owed, asked>>

\* sigreturn: the mask comes back from the frame the handler was entered on;
\* a frame the program has damaged ends it.
SigReturn(t) ==
  /\ pc[t] = "user" /\ frames[t] # << >>
  /\ \/ /\ blocked' = [blocked EXCEPT ![t] = Head(frames[t])]
        /\ frames' = [frames EXCEPT ![t] = Tail(@)]
        /\ Goto(t, "check") /\ UNCHANGED exiting
     \/ ExitGroup(t) /\ UNCHANGED <<blocked, frames>>
  /\ UNCHANGED <<action, pending, tpending, interrupt, chosen, post, owed, asked>>

\* A synchronous fault: to the handler if there is one and it is not blocked.
Fault(t, s) ==
  /\ pc[t] = "user"
  /\ \/ /\ s \notin blocked[t] /\ action[s] = "handler"
        /\ chosen' = [chosen EXCEPT ![t] = s]
        /\ Goto(t, IF s \in ResetHand THEN "faultReset" ELSE "faultFrame")
        /\ UNCHANGED exiting
     \/ /\ s \in blocked[t] \/ action[s] # "handler"
        /\ ExitGroup(t)
        /\ UNCHANGED chosen
  /\ UNCHANGED <<action, pending, tpending, blocked, interrupt, frames, post,
                 owed, asked>>

\* A new thread starts with its creator's mask and nothing pending.
SpawnThread(t, u) ==
  /\ pc[t] = "user" /\ pc[u] = "none"
  /\ LockFree /\ ~exiting
  /\ pc' = [pc EXCEPT ![t] = "check", ![u] = "start"]
  /\ blocked' = [blocked EXCEPT ![u] = blocked[t]]
  /\ asked' = [asked EXCEPT ![u] = blocked[t]]
  /\ UNCHANGED <<action, pending, tpending, interrupt, chosen, frames,
                 exiting, post, owed>>

\* userThreadEntry: a thread killed before it first ran never enters ring 3;
\* signals are first looked at when it comes back from there.
ThreadStart(t) ==
  /\ pc[t] = "start"
  /\ Goto(t, IF exiting THEN "gone" ELSE "user")
  /\ UNCHANGED otherVars

\* thread_exit ends the calling thread only.
ThreadExit(t) ==
  /\ pc[t] = "user" /\ LockFree
  /\ Goto(t, "gone")
  /\ UNCHANGED otherVars

-----------------------------------------------------------------------------
(* Delivery, on the way back to user mode.                                 *)

Deliverable(t) == (tpending[t] \union pending) \ blocked[t]

\* syscallDispatch and isrDispatch: leave if killed; else deliver's first test.
Check(t) ==
  /\ pc[t] = "check"
  /\ Goto(t, IF exiting THEN "gone"
             ELSE IF Deliverable(t) = {} THEN "clear" ELSE "take")
  /\ UNCHANGED otherVars

\* take(): pick the lowest deliverable signal, if one is left.
Take(t) ==
  /\ pc[t] = "take"
  /\ \/ Deliverable(t) = {} /\ Goto(t, "clear") /\ UNCHANGED chosen
     \/ \E s \in Lowest(Deliverable(t)) :
          Goto(t, "claim") /\ chosen' = [chosen EXCEPT ![t] = s]
  /\ UNCHANGED <<action, pending, tpending, blocked, interrupt, frames,
                 exiting, post, owed, asked>>

\* take(): the atomic clear of the thread's own bit.
ClaimOwn(t) ==
  /\ pc[t] = "claim"
  /\ Goto(t, IF chosen[t] \in tpending[t] THEN "act" ELSE "claimShared")
  /\ tpending' = [tpending EXCEPT ![t] = @ \ {chosen[t]}]
  /\ UNCHANGED <<action, pending, blocked, interrupt, chosen, frames, exiting,
                 post, owed, asked>>

\* Seeded fault: the old value of the program's word is not looked at.
ClaimSharedUnchecked(t) ==
  /\ pc[t] = "claimShared"
  /\ Goto(t, "act")
  /\ pending' = pending \ {chosen[t]}
  /\ UNCHANGED <<action, tpending, blocked, interrupt, chosen, frames,
                 exiting, post, owed, asked>>

\* take(): the atomic clear of the program's bit.  A thread that finds the bit
\* already clear was beaten to it by another and looks again.
ClaimShared(t) ==
  /\ pc[t] = "claimShared"
  /\ Goto(t, IF chosen[t] \in pending THEN "act" ELSE "take")
  /\ pending' = pending \ {chosen[t]}
  /\ UNCHANGED <<action, tpending, blocked, interrupt, chosen, frames,
                 exiting, post, owed, asked>>

\* deliver: read the disposition and ignore, end the program or build a frame.
Act(t) ==
  /\ pc[t] = "act"
  /\ owed' = Owing(chosen[t], -1)
  /\ \/ /\ Discarded(chosen[t])
        /\ Goto(t, "take") /\ UNCHANGED exiting
     \/ /\ action[chosen[t]] = "dfl" /\ chosen[t] \notin DefaultIgnores
        /\ ExitGroup(t)
     \/ /\ action[chosen[t]] = "handler"
        /\ Goto(t, IF chosen[t] \in ResetHand THEN "reset" ELSE "frame")
        /\ UNCHANGED exiting
  /\ UNCHANGED <<action, pending, tpending, blocked, interrupt, chosen,
                 frames, post, asked>>

\* SA_RESETHAND: back to the default before the handler runs.  The lock on
\* the dispositions was released since they were read.
ResetAction(t) ==
  /\ pc[t] \in {"reset", "faultReset"}
  /\ action' = [action EXCEPT ![chosen[t]] = "dfl"]
  /\ Goto(t, IF pc[t] = "reset" THEN "frame" ELSE "faultFrame")
  /\ UNCHANGED <<pending, tpending, blocked, interrupt, chosen, frames,
                 exiting, post, owed, asked>>

\* The mask a handler runs under.
HandlerBlocks(t, s) ==
  blocked[t] \union HandlerMask[s] \union (IF s \in NoDefer THEN {} ELSE {s})

\* setupFrame: save the mask in the frame and enter the handler, or end the
\* program when the stack cannot take the frame.  A fault's frame is followed
\* by a kill test and leaves sig_interrupt alone.
SetupFrame(t) ==
  /\ pc[t] \in {"frame", "faultFrame"}
  /\ \/ /\ Len(frames[t]) < MaxFrames
        /\ frames' = [frames EXCEPT ![t] = <<blocked[t]>> \o @]
        /\ blocked' = [blocked EXCEPT ![t] = HandlerBlocks(t, chosen[t])]
        /\ Goto(t, IF pc[t] = "frame" THEN "clear"
                   ELSE IF exiting THEN "gone" ELSE "user")
        /\ UNCHANGED exiting
     \/ ExitGroup(t) /\ UNCHANGED <<frames, blocked>>
  /\ UNCHANGED <<action, pending, tpending, interrupt, chosen, post, owed, asked>>

\* deliver's last store, whichever way it ends; its locals are gone after it.
Clear(t) ==
  /\ pc[t] = "clear"
  /\ interrupt' = [interrupt EXCEPT ![t] = FALSE]
  /\ chosen' = [chosen EXCEPT ![t] = 0]
  /\ Goto(t, "user")
  /\ UNCHANGED <<action, pending, tpending, blocked, frames, exiting, post,
                 owed, asked>>

-----------------------------------------------------------------------------
Deliver(t) ==
  \/ Check(t) \/ Take(t) \/ ClaimOwn(t) \/ ClaimShared(t)
  \/ Act(t) \/ ResetAction(t) \/ SetupFrame(t) \/ Clear(t)

Send == Publish \/ Notify

UserStep(t) ==
  \/ \E s \in Sig : \E a \in {"dfl", "ign", "handler"} : SetAction(t, s, a)
  \/ \E m \in SUBSET Sig : SetMask(t, m)
  \/ \E s \in Faults : Fault(t, s)
  \/ \E u \in Thread : SpawnThread(t, u)
  \/ BeginWait(t) \/ SigReturn(t) \/ ThreadExit(t)

Next ==
  \/ \E by \in Thread \union {Outside}, to \in Thread \union {Program} :
       \E s \in Sig : BeginSend(by, to, s)
  \/ Send
  \/ SigKill
  \/ \E t \in Thread :
       \/ UserStep(t) \/ ThreadStart(t) \/ Interrupted(t)
       \/ CommitWait(t) \/ WaitEnds(t) \/ Deliver(t)

Spec == Init /\ [][Next]_vars

(* The holder of the lock finishes its send; a thread in the kernel keeps   *)
(* running and one in user mode is interrupted by the timer.  Nothing says  *)
(* that a wait ends or that the program makes another call.                 *)
Fairness ==
  /\ WF_vars(Send)
  /\ \A t \in Thread :
       /\ WF_vars(Interrupted(t))
       /\ WF_vars(ThreadStart(t) \/ CommitWait(t) \/ Deliver(t))

FairSpec == Spec /\ Fairness

-----------------------------------------------------------------------------
(* Properties.                                                             *)

Places == {"none", "start", "user", "wait", "asleep", "send", "check", "take", "claim",
           "claimShared", "act", "reset", "frame", "faultReset", "faultFrame",
           "clear", "gone"}

\* Where delivery works on the signal it chose.
Delivering == {"claim", "claimShared", "act", "reset", "frame", "faultReset",
               "faultFrame"}

Shape ==
  /\ pc \in [Thread -> Places]
  /\ action \in [Sig -> {"dfl", "ign", "handler"}]
  /\ pending \subseteq Sig
  /\ tpending \in [Thread -> SUBSET Sig]
  /\ blocked \in [Thread -> SUBSET Sig]
  /\ interrupt \in [Thread -> BOOLEAN]
  /\ chosen \in [Thread -> Sig \union {0}]
  /\ frames \in [Thread -> Seq(SUBSET Sig)]
  /\ exiting \in BOOLEAN
  /\ \/ post = Free
     \/ post \in [stage : {"publish", "notify"}, by : Thread \union {Outside},
                  to : Thread \union {Program}, sig : Sig]
  /\ owed \in [Sig -> Int]
  /\ asked \in [Thread -> SUBSET Sig]

\* The type of every variable; in particular delivery never works on a signal
\* number outside 1..COUNT and no debt is settled twice.
TypeOK ==
  /\ Shape
  /\ \A t \in Thread : pc[t] \in Delivering => chosen[t] \in Sig
  /\ \A s \in Sig : owed[s] >= 0

\* A thread with a published interrupt, or of a program that is ending, is
\* never asleep: the flag is set and the thread woken under the lock that
\* commitWait holds from its test to the switch (sched.zig 1142, 1189).
InterruptedNeverSleeps ==
  \A t \in Thread : pc[t] = "asleep" => ~interrupt[t] /\ ~exiting

\* The threads a signal is pending for, and those that claimed one to act on.
Holders(s) == {t \in Thread : s \in tpending[t]}
Claimants(s) == {t \in Thread : pc[t] = "act" /\ chosen[t] = s}

\* However threads race for the program's pending word, a signal is neither
\* lost nor acted on twice: each bit a sender set is still pending or claimed
\* by exactly one thread until that thread acts on it (take()'s atomic clear
\* has one winner) or sigaction discards it.
SignalsConserved ==
  \A s \in Sig :
    owed[s] = Cardinality(Holders(s)) + Cardinality(Claimants(s))
              + (IF s \in pending THEN 1 ELSE 0)

\* Through any nesting of handlers, faults and masks changed inside handlers,
\* a thread whose handlers have all returned has the mask the program asked
\* for outside them, and the outermost frame preserves it meanwhile.
MaskRestored ==
  \A t \in Thread :
    asked[t] = IF frames[t] = << >> THEN blocked[t] ELSE frames[t][Len(frames[t])]

\* Thread t needs the scheduler lock to go on: to sleep, to finish its own send
\* or to end the program.  The lock is not fair, so it may spin for ever.
NeedsLock(t) ==
  \/ pc[t] \in {"wait", "send"}
  \/ pc[t] = "act" /\ action[chosen[t]] = "dfl"
  \/ pc[t] \in {"frame", "faultFrame"} /\ Len(frames[t]) = MaxFrames

\* Thread t is in user mode or on the way back to it and does not block s.
Hears(t, s) ==
  pc[t] \notin Absent \union {"asleep"} /\ ~NeedsLock(t) /\ s \notin blocked[t]

\* A thread with a signal to take acts on one although it makes no system
\* call: the timer brings a spinning thread through delivery, and a delivery
\* that others beat to the program's pending word ends or takes another.  The
\* lowest number goes first, so a flood of one signal may keep another waiting.
SignalsServed ==
  \A t \in Thread, s \in Sig :
    (s \in tpending[t] \union pending /\ Hears(t, s))
      ~> \/ pc[t] = "act"
         \/ s \notin tpending[t] \union pending
         \/ ~Hears(t, s)
         \/ exiting

\* What the comment at commitWait says: a caught signal sent to a thread
\* cannot be missed by a thread that goes to sleep.
SignalNotMissed ==
  \A t \in Thread : pc[t] = "asleep" =>
    \A s \in tpending[t] :
      action[s] = "handler" => s \in blocked[t] \/ (post # Free /\ post.sig = s)

=============================================================================
