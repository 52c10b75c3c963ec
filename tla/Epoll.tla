-------------------------------- MODULE Epoll --------------------------------
(***************************************************************************)
(* epoll (kernel/ipc/epoll.zig) over the ends of a pipe: epoll_ctl,        *)
(* epoll_wait, EPOLLET, EPOLLONESHOT and the closing of watched ends.      *)
(*                                                                         *)
(* The epoll lock is held for a whole scan, across the queries of the      *)
(* pipe and the release of the descriptions, so it is a variable; the      *)
(* readiness lock never is held across two steps.  An interest holds no    *)
(* reference on its description.                                           *)
(***************************************************************************)
EXTENDS Pipe

VARIABLES
  interests,  \* Epoll.interests, as the ends they are on
  newest,     \* the end whose interest was added last, the first of the list
  flags,      \* Interest.events: the flags of each interest
  disabled,   \* ends whose oneshot interest has reported
  eplock,     \* holder of Epoll.lock
  scan,       \* the local variables of each thread's scan
  unseen      \* history: ends that changed since a scan last reported them

epVars == <<interests, newest, flags, disabled, eplock>>
vars == <<readinessVars, pipeVars, descVars, callVars, epVars, scan, unseen>>

\* left: interests still to visit; out: ends reported; pending and ready: what
\* scanLocked read of the interest it is at.
Scan(left, out, pending, ready) ==
  [left |-> left, out |-> out, pending |-> pending, ready |-> ready]
NoScan == Scan({}, {}, FALSE, FALSE)

Init ==
  /\ ReadinessInit /\ PipeInit
  /\ interests = {}
  /\ newest = None
  /\ flags = [e \in End |-> {}]
  /\ disabled = {}
  /\ eplock = None
  /\ scan = [t \in Thread |-> NoScan]
  /\ unseen = {}

Interest(e) == Entry(Ep, e)

\* reapLocked: interests whose description has closed are dropped.
Alive(e) == Interest(e) \in attached
Reaped == {e \in interests : Alive(e)}
Listed(e) == e \in Reaped

\* Interests are visited from the newest on.
First(left) == CHOOSE e \in left : newest \in left => e = newest

-----------------------------------------------------------------------------
(* epoll_ctl.                                                              *)

BeginCtl(t, c) ==
  /\ Enter(t, c, "ctl", "control")
  /\ {c.end, Ep} \subseteq fds
  /\ refs' = [refs EXCEPT ![c.end] = @ + 1, ![Ep] = @ + 1]
  /\ UNCHANGED <<readinessVars, pipeVars, fds, destroyed, intr, writes, epVars, scan, unseen>>

\* control, under the epoll lock.  The caller's reference keeps the end from
\* closing, and no scan runs meanwhile, so the readiness sections inside are
\* no steps of their own.
Add(t, e) ==
  /\ op[t].what = "add" /\ ~ Listed(e)
  /\ interests' = Reaped \cup {e}
  /\ newest' = e
  /\ AttachLocked(Interest(e))
  /\ notified' = notified \cup {e}
  /\ disabled' = disabled \ {e}
  /\ flags' = [flags EXCEPT ![e] = op[t].flags]
  /\ unseen' = unseen \cup {e}
  /\ Woken({Ep})

Mod(t, e) ==
  /\ op[t].what = "mod" /\ Listed(e)
  /\ interests' = Reaped
  /\ notified' = notified \cup {e}
  /\ disabled' = disabled \ {e}
  /\ flags' = [flags EXCEPT ![e] = op[t].flags]
  /\ unseen' = unseen \cup {e}
  /\ Woken({Ep}) /\ UNCHANGED <<attached, newest>>

Del(t, e) ==
  /\ op[t].what = "del" /\ Listed(e)
  /\ interests' = Reaped \ {e}
  /\ DetachLocked({Interest(e)})
  /\ notified' = notified \ {e}
  /\ Woken({Ep}) /\ UNCHANGED <<disabled, flags, newest, unseen>>

\* Exists and NotFound: nothing but the reaping.
Refused(t, e) ==
  /\ (op[t].what = "add") = Listed(e)
  /\ interests' = Reaped
  /\ UNCHANGED <<readinessVars, disabled, flags, newest, unseen>>

Control(t) ==
  LET e == op[t].end IN
  /\ At(t, "control") /\ eplock = None
  /\ Add(t, e) \/ Mod(t, e) \/ Del(t, e) \/ Refused(t, e)
  /\ Goto(t, "release")
  /\ UNCHANGED <<pipeVars, descVars, op, intr, writes, eplock, scan>>

\* The target's reference is released first, then the instance's.
PutInstance(t) ==
  /\ At(t, "put")
  /\ Locals(t, [op[t] EXCEPT !.end = Ep, !.back = "return"])
  /\ Goto(t, "release")
  /\ UNCHANGED <<readinessVars, pipeVars, descVars, intr, writes, epVars, scan, unseen>>

-----------------------------------------------------------------------------
(* epoll_wait.                                                             *)

BeginWait(t, c) ==
  /\ Enter(t, c, "wait", "prepare") /\ Lookup(Ep)
  /\ UNCHANGED <<readinessVars, pipeVars, fds, destroyed, intr, writes, epVars, scan, unseen>>

WaitLock(t) ==
  /\ At(t, "lock") /\ eplock = None
  /\ eplock' = t
  /\ interests' = Reaped
  /\ scan' = [scan EXCEPT ![t] = Scan(Reaped, {}, FALSE, FALSE)]
  /\ Goto(t, "scan")
  /\ UNCHANGED <<readinessVars, pipeVars, descVars, op, intr, writes, newest, flags, disabled,
                 unseen>>

ScanOver(t) == scan[t].left = {} \/ Cardinality(scan[t].out) = op[t].max

\* The scan is over: report, or sleep.
ScanEnd(t) ==
  /\ At(t, "scan") /\ ScanOver(t)
  /\ eplock' = None
  /\ IF scan[t].out # {} \/ op[t].timeout = "zero"
       THEN Leave(t)
       ELSE Goto(t, "commit") /\ UNCHANGED reg
  /\ scan' = [scan EXCEPT ![t] = NoScan]
  /\ UNCHANGED <<attached, notified, pipeVars, descVars, op, intr, writes,
                 interests, newest, flags, disabled, unseen>>

\* The interest has been dealt with, the ends in `new` reported.
Visited(t, new) ==
  LET s == scan[t] IN
  scan' = [scan EXCEPT ![t] = Scan(s.left \ {First(s.left)}, s.out \cup new, FALSE, FALSE)]

\* Mutant: a description that is closing is revived.
ScanPinClosing(t) ==
  LET e == First(scan[t].left) IN
  /\ At(t, "scan") /\ ~ ScanOver(t)
  /\ IF e \notin disabled /\ Alive(e)
       THEN /\ refs' = [refs EXCEPT ![e] = @ + 1]
            /\ scan' = [scan EXCEPT ![t] = Scan(scan[t].left, scan[t].out, e \in notified, FALSE)]
            /\ Locals(t, [op[t] EXCEPT !.end = e, !.back = "report"])
            /\ Goto(t, "look")
       ELSE Visited(t, {}) /\ UNCHANGED <<refs, op, pc>>
  /\ UNCHANGED <<readinessVars, pipeVars, fds, destroyed, intr, writes, epVars, unseen>>

\* The next interest, under the readiness lock: pin its description, unless
\* it is closing, and note whether it was notified.
ScanPin(t) ==
  LET e == First(scan[t].left) IN
  /\ At(t, "scan") /\ ~ ScanOver(t)
  /\ IF e \notin disabled /\ Alive(e) /\ refs[e] > 0
       THEN /\ refs' = [refs EXCEPT ![e] = @ + 1]
            /\ scan' = [scan EXCEPT ![t] = Scan(scan[t].left, scan[t].out, e \in notified, FALSE)]
            /\ Locals(t, [op[t] EXCEPT !.end = e, !.back = "report"])
            /\ Goto(t, "look")
       ELSE Visited(t, {}) /\ UNCHANGED <<refs, op, pc>>
  /\ UNCHANGED <<readinessVars, pipeVars, fds, destroyed, intr, writes, epVars, unseen>>

\* readinessOf the pinned description, which is then released.
ScanLook(t) ==
  /\ At(t, "look")
  /\ scan' = [scan EXCEPT ![t] = Scan(scan[t].left, scan[t].out, scan[t].pending,
                                      Ready(op[t].end))]
  /\ Goto(t, "release")
  /\ UNCHANGED <<readinessVars, pipeVars, descVars, op, intr, writes, epVars, unseen>>

\* Mutant: the notification is taken back although nothing was ready.
ScanReportClears(t) ==
  LET e == First(scan[t].left)
      edge == "ET" \in flags[e]
  IN
  /\ At(t, "report")
  /\ IF scan[t].ready /\ (edge => scan[t].pending)
       THEN /\ notified' = IF edge THEN notified \ {e} ELSE notified
            /\ disabled' = IF "ONESHOT" \in flags[e] THEN disabled \cup {e} ELSE disabled
            /\ unseen' = unseen \ {e}
            /\ Visited(t, {e})
       ELSE /\ notified' = IF edge THEN notified \ {e} ELSE notified
            /\ Visited(t, {}) /\ UNCHANGED <<disabled, unseen>>
  /\ Locals(t, [op[t] EXCEPT !.end = Ep, !.back = "return"])
  /\ Goto(t, "scan")
  /\ UNCHANGED <<attached, reg, pipeVars, descVars, intr, writes,
                 interests, newest, flags, eplock>>

\* A ready interest is reported, an edge-triggered one only if it was
\* notified, which takes the notification back.
ScanReport(t) ==
  LET e == First(scan[t].left)
      edge == "ET" \in flags[e]
  IN
  /\ At(t, "report")
  /\ IF scan[t].ready /\ (edge => scan[t].pending)
       THEN /\ notified' = IF edge THEN notified \ {e} ELSE notified
            /\ disabled' = IF "ONESHOT" \in flags[e] THEN disabled \cup {e} ELSE disabled
            /\ unseen' = unseen \ {e}
            /\ Visited(t, {e})
       ELSE Visited(t, {}) /\ UNCHANGED <<notified, disabled, unseen>>
  /\ Locals(t, [op[t] EXCEPT !.end = Ep, !.back = "return"])
  /\ Goto(t, "scan")
  /\ UNCHANGED <<attached, reg, pipeVars, descVars, intr, writes,
                 interests, newest, flags, eplock>>

\* The instance's description closed: every interest is detached and freed.
Destroy(t) ==
  /\ At(t, "destroy")
  /\ DetachLocked({Interest(e) : e \in End})
  /\ interests' = {}
  /\ destroyed' = destroyed \cup {Ep}
  /\ GoBack(t)
  /\ UNCHANGED <<notified, reg, pipeVars, refs, fds, writes,
                 newest, flags, disabled, eplock, scan, unseen>>

-----------------------------------------------------------------------------
(* Specification.                                                          *)

\* A step of Pipe's leaves the instance alone; the history notes whether it
\* changed the pipe.
PipeStep(A) ==
  /\ A
  /\ unseen' = IF <<len, ends>>' # <<len, ends>> THEN End ELSE unseen
  /\ UNCHANGED <<epVars, scan>>

EpStep(t) ==
  \/ Control(t) \/ PutInstance(t) \/ WaitLock(t) \/ ScanEnd(t)
  \/ ScanPin(t) \/ ScanLook(t) \/ ScanReport(t) \/ Destroy(t)

EpBegin(t) ==
  \E c \in Ops[t] : BeginCtl(t, c) \/ BeginWait(t, c)

Next ==
  \E t \in Thread :
    \/ PipeStep(Step(t)) \/ EpStep(t)
    \/ PipeStep(Begin(t)) \/ EpBegin(t)
    \/ PipeStep(Disturb(t))

Spec == Init /\ [][Next]_vars

-----------------------------------------------------------------------------
(* Properties.                                                             *)

Labels == {"user", "prepare", "test", "commit", "blocked", "wake",
           "notify_r", "notify_w", "release", "detach", "drop", "free", "watch",
           "query", "unwatch", "control", "put", "lock", "scan", "look", "report",
           "destroy"}

\* The type of every variable: in particular neither the counts of open ends
\* nor the references of a description go below zero.
TypeOK ==
  /\ ReadinessType
  /\ head \in Cells /\ len \in 0 .. CAPACITY
  /\ ends \in [End -> 0 .. 1]
  /\ freed \in BOOLEAN
  /\ refs \in [Desc -> Nat]
  /\ fds \subseteq Desc /\ destroyed \subseteq Desc
  /\ pc \in [Thread -> Labels]
  /\ op \in [Thread -> Calls]
  /\ intr \subseteq Thread
  /\ writes \in 0 .. MaxWrites
  /\ interests \subseteq End /\ newest \in End \cup {None}
  /\ flags \in [End -> SUBSET {"ET", "ONESHOT"}]
  /\ disabled \subseteq End /\ unseen \subseteq End
  /\ eplock \in Thread \cup {None}

\* The ring buffer of read and write is a queue: from head on it holds the
\* bytes written and not yet read, in order, around the end of the array.
RingIsQueue ==
  /\ len = Len(queue)
  /\ \A i \in 1 .. len : buffer[(head + i - 1) % CAPACITY] = queue[i]

\* "Writes of up to ATOMIC_WRITE bytes go in whole, never interleaved with
\* another writer's" (pipe.zig): in the pipe every byte of a small write but
\* its last is followed by the next one.
WritesWhole ==
  \A i \in 1 .. Len(queue) :
    LET b == queue[i] IN
    b.of <= ATOMIC_WRITE /\ b.at < b.of =>
      i < Len(queue) /\ queue[i + 1] = Byte(b.by, b.at + 1, b.of)

\* Registered, tested and found wanting: asleep or about to be.
Waiting(t, kind) == pc[t] \in {"commit", "blocked"} /\ Doing(t, kind) /\ reg[t] # None

WakeAhead == \E t \in Thread : At(t, "wake")
NotifyAhead(e) ==
  \E t \in Thread : pc[t] \in {"wake", "notify_r"} \/ (e = "w" /\ At(t, "notify_w"))

\* No lost wake-up in read and write: a reader sleeps only while the pipe is
\* empty and a writer remains, a writer only while its data has no room and a
\* reader remains; otherwise a thread is about to wake them.
SleepersWoken ==
  \A t \in Thread :
    /\ Waiting(t, "read") => (len = 0 /\ ends["w"] # 0) \/ WakeAhead
    /\ Waiting(t, "write") =>
         (~ (Space >= Needed(op[t])) /\ ends["r"] # 0) \/ WakeAhead

\* The interest would be reported by a scan.
Reportable(e) ==
  /\ Listed(e) /\ refs[e] > 0 /\ e \notin disabled /\ Ready(e)
  /\ "ET" \in flags[e] => e \in notified

\* No lost wake-up in poll and epoll_wait: while they sleep nothing they watch
\* is ready, or its watchers are about to be notified.
WatchersWoken ==
  \A t \in Thread, e \in End :
    /\ Waiting(t, "poll") /\ e \in op[t].held /\ Ready(e) => NotifyAhead(e)
    /\ Waiting(t, "wait") /\ Reportable(e) => NotifyAhead(e)

\* EPOLLET loses no edge although scanLocked takes the notification back some
\* time after it looked: if the end is ready and has changed since a scan last
\* reported it, the interest is pending or about to be.
EdgeKept ==
  \A e \in unseen :
    Listed(e) /\ Ready(e) /\ "ET" \in flags[e] =>
      e \in notified \/ NotifyAhead(e)

\* The descriptions thread t has a reference on.
Holds(t) ==
  LET using == \/ At(t, "release") \/ At(t, "look")
               \/ pc[t] \in {"prepare", "test", "commit", "blocked", "lock", "scan", "control"}
                  /\ ~ Doing(t, "poll")
               \/ pc[t] \in {"wake", "notify_r", "notify_w"} /\ op[t].then # "free"
  IN op[t].held \cup (IF using THEN {op[t].end} ELSE {})
       \cup (IF op[t].back \in {"put", "report"} THEN {Ep} ELSE {})

\* Every reference is accounted for, so that a description, which interests
\* point to without a reference, is freed exactly when the last call using it
\* is over, and never while a scan looks at it or a watcher is attached to it.
NoDangling ==
  /\ \A d \in Desc :
       refs[d] = Cardinality({t \in Thread : d \in Holds(t)}) + (IF d \in fds THEN 1 ELSE 0)
  /\ \A t \in Thread : Holds(t) \cap destroyed = {}
  /\ \A w \in attached : w.on \notin destroyed /\ (w.owner = Ep => Ep \notin destroyed)

Asleep(t) == At(t, "blocked") /\ reg[t] # None

\* "The last close of both frees the pipe" (pipe.zig 160): when it is freed no
\* other thread has a use of it ahead.
NoUseAfterFree ==
  freed => \A t \in Thread : pc[t] \notin {"notify_r", "notify_w", "drop", "test", "look"}
=============================================================================
