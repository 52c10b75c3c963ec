---------------------------- MODULE EpollProofs ----------------------------
(***************************************************************************)
(* Proofs about Epoll and Pipe for any number of threads and any capacity: *)
(* first that no read and no write sleeps through its wake-up, with any    *)
(* epoll and poll calls beside them, then the bytes, the references and    *)
(* the watchers.                                                           *)
(***************************************************************************)
EXTENDS Epoll, FiniteSetTheorems, TLAPS

CallShape ==
  [kind : Kinds, size : Nat, nonblock : BOOLEAN, entries : SUBSET End,
   timeout : {"zero", "some", "forever", "over"}, max : Nat,
   what : {"add", "mod", "del"}, flags : SUBSET {"ET", "ONESHOT"},
   done : Int, left : SUBSET End, held : SUBSET End, hit : BOOLEAN, end : Desc,
   then : {"release", "prepare", "free"}, gone : BOOLEAN,
   back : {"return", "unwatch", "put", "report"}]

\* What the steps below need of the types.
Shape ==
  /\ pc \in [Thread -> Labels]
  /\ op \in [Thread -> CallShape]
  /\ reg \in [Thread -> Channel \cup {None}]
  /\ len \in Int

Transfers == {"read", "write"}

\* A reader or writer that has registered is registered on the pipe's channel,
\* where changed() finds it, or no longer registered.
OnPipe(t) ==
  pc[t] \in {"test", "commit", "blocked"} /\ op[t].kind \in Transfers =>
    reg[t] \in {None, Pipe}

\* SleepersWoken, for one thread.
Woke(t) ==
  /\ Waiting(t, "read") => (len = 0 /\ ends["w"] # 0) \/ WakeAhead
  /\ Waiting(t, "write") =>
       (~ (Space >= Needed(op[t])) /\ ends["r"] # 0) \/ WakeAhead

\* Which calls the steps of poll and of epoll_wait belong to: what they leave
\* behind on the way to sleep is no reader and no writer.
Home(t) ==
  /\ pc[t] = "query" => op[t].kind = "poll"
  /\ pc[t] \in {"lock", "scan", "look", "report"} \/ op[t].back = "report" =>
       op[t].kind = "wait"

\* Watchers are on descriptions.
Attached == \A w \in attached : w.on \in Desc

PInv == Shape /\ \A t \in Thread : OnPipe(t) /\ Woke(t) /\ Home(t)

-----------------------------------------------------------------------------
(* What a step of thread u leaves of the others: at most it takes them off *)
(* their channel.                                                          *)

Others(u) ==
  \A t \in Thread \ {u} : pc'[t] = pc[t] /\ op'[t] = op[t] /\ reg'[t] \in {reg[t], None}

\* A thread that stays where it is, or is taken off its channel, is as well off
\* as before if the pipe is left alone and no wake-up is taken back.
LEMMA Bystander ==
  ASSUME PInv, NEW t \in Thread,
         pc'[t] = pc[t], reg'[t] \in {reg[t], None},
         op'[t].kind = op[t].kind, op'[t].size = op[t].size, op'[t].done = op[t].done,
         op'[t].back = op[t].back,
         len' = len, ends' = ends, WakeAhead => WakeAhead'
  PROVE  OnPipe(t)' /\ Woke(t)' /\ Home(t)'
BY DEF PInv, OnPipe, Woke, Home, Waiting, Doing, Space, Needed, Transfers

\* The wake-up a thread is about to make stays ahead while others step.
LEMMA StillAhead ==
  ASSUME Shape, NEW u \in Thread, pc[u] # "wake", \A t \in Thread \ {u} : pc'[t] = pc[t]
  PROVE  WakeAhead => WakeAhead'
BY DEF WakeAhead, At

\* A step that does not change the pipe keeps the invariant if it keeps it for
\* the thread that makes it.
LEMMA Quiet ==
  ASSUME PInv, NEW u \in Thread, Others(u), pc[u] # "wake", len' = len, ends' = ends,
         Shape', OnPipe(u)', Woke(u)', Home(u)'
  PROVE  PInv'
<1>1. WakeAhead => WakeAhead'
  BY StillAhead DEF PInv, Others
<1>2. ASSUME NEW t \in Thread, t # u PROVE OnPipe(t)' /\ Woke(t)' /\ Home(t)'
  BY <1>1, <1>2, Bystander DEF Others
<1> QED
  BY <1>2 DEF PInv

\* In particular if that thread is not in the wait loop afterwards.
LEMMA Elsewhere ==
  ASSUME PInv, NEW u \in Thread, Others(u), pc[u] # "wake", len' = len, ends' = ends,
         Shape', Home(u)', pc'[u] \notin {"test", "commit", "blocked"}
  PROVE  PInv'
<1>1. OnPipe(u)' /\ Woke(u)'
  BY DEF OnPipe, Woke, Waiting
<1> QED
  BY <1>1, Quiet

\* A step that changes the pipe keeps it if its thread goes on to changed().
LEMMA Loud ==
  ASSUME PInv, NEW u \in Thread, Others(u), pc'[u] = "wake", Shape', Home(u)'
  PROVE  PInv'
<1>1. WakeAhead'
  BY DEF WakeAhead, At
<1>2. ASSUME NEW t \in Thread PROVE OnPipe(t)' /\ Woke(t)' /\ Home(t)'
  <2>1. Woke(t)'
    BY <1>1 DEF Woke
  <2>2. OnPipe(t)'
    BY DEF PInv, OnPipe, Others
  <2>3. Home(t)'
    BY DEF PInv, Home, Others
  <2> QED
    BY <2>1, <2>2, <2>3
<1> QED
  BY <1>2 DEF PInv

-----------------------------------------------------------------------------
(* The shape of the calls.                                                 *)

LEMMA CallsHaveShape == Calls \subseteq CallShape /\ NoCall \in CallShape
BY DEF Calls, CallShape, NoCall, Kinds, Desc, End, Ep

\* Where the call c may have got to: the arguments stay.
Onward(c) == {d \in CallShape : d.kind = c.kind /\ d.back = c.back}

\* The local variables that the steps assign keep the shape.
LEMMA LocalsHaveShape ==
  ASSUME NEW c \in CallShape
  PROVE  /\ \A s \in SUBSET End : [c EXCEPT !.left = s] \in Onward(c)
         /\ \A s \in SUBSET End, h \in BOOLEAN : [c EXCEPT !.left = s, !.hit = h] \in Onward(c)
         /\ \A s, r \in SUBSET End : [c EXCEPT !.left = s, !.held = r] \in Onward(c)
         /\ \A s \in SUBSET End, d \in Desc : [c EXCEPT !.held = s, !.end = d] \in Onward(c)
         /\ \A n \in Int, th \in {"release", "prepare", "free"} :
              [c EXCEPT !.done = n, !.then = th] \in Onward(c)
         /\ \A h \in BOOLEAN : [c EXCEPT !.gone = h, !.then = "free"] \in Onward(c)
<1>1. ASSUME NEW s \in SUBSET End PROVE [c EXCEPT !.left = s] \in Onward(c)
  BY DEF CallShape, Onward
<1>2. ASSUME NEW s \in SUBSET End, NEW h \in BOOLEAN
      PROVE  [c EXCEPT !.left = s, !.hit = h] \in Onward(c)
  BY Zenon DEF CallShape, Onward
<1>3. ASSUME NEW s \in SUBSET End, NEW r \in SUBSET End
      PROVE  [c EXCEPT !.left = s, !.held = r] \in Onward(c)
  BY Zenon DEF CallShape, Onward
<1>4. ASSUME NEW s \in SUBSET End, NEW d \in Desc
      PROVE  [c EXCEPT !.held = s, !.end = d] \in Onward(c)
  BY Zenon DEF CallShape, Onward
<1>5. ASSUME NEW n \in Int, NEW th \in {"release", "prepare", "free"}
      PROVE  [c EXCEPT !.done = n, !.then = th] \in Onward(c)
  BY Zenon DEF CallShape, Onward
<1>6. ASSUME NEW h \in BOOLEAN PROVE [c EXCEPT !.gone = h, !.then = "free"] \in Onward(c)
  BY Zenon DEF CallShape, Onward
<1> QED
  BY <1>1, <1>2, <1>3, <1>4, <1>5, <1>6, Zenon

\* So do a deadline, and a scan that pins or lets go of a description.
LEMMA OthersHaveShape ==
  ASSUME NEW c \in CallShape
  PROVE  /\ \A d \in Desc, b \in {"return", "report"} :
              /\ [c EXCEPT !.end = d, !.back = b] \in CallShape
              /\ [c EXCEPT !.end = d, !.back = b].kind = c.kind
              /\ [c EXCEPT !.end = d, !.back = b].back = b
         /\ [c EXCEPT !.timeout = "over"] \in Onward(c)
         /\ [c EXCEPT !.timeout = "over"].size = c.size
         /\ [c EXCEPT !.timeout = "over"].done = c.done
<1>1. ASSUME NEW d \in Desc, NEW b \in {"return", "report"}
      PROVE  /\ [c EXCEPT !.end = d, !.back = b] \in CallShape
             /\ [c EXCEPT !.end = d, !.back = b].kind = c.kind
             /\ [c EXCEPT !.end = d, !.back = b].back = b
  BY Zenon DEF CallShape
<1>2. [c EXCEPT !.timeout = "over"] \in Onward(c)
  BY DEF CallShape, Onward
<1>3. [c EXCEPT !.timeout = "over"].size = c.size /\ [c EXCEPT !.timeout = "over"].done = c.done
  BY DEF CallShape
<1> QED
  BY <1>1, <1>2, <1>3, Zenon

\* What Locals does to `op`, without the record it assigns.
Assigned(u) ==
  /\ op' \in [Thread -> CallShape]
  /\ \A t \in Thread \ {u} : op'[t] = op[t]

Moved(u) == Assigned(u) /\ op'[u].kind = op[u].kind /\ op'[u].back = op[u].back

LEMMA Assign ==
  ASSUME PInv, NEW u \in Thread, NEW c \in CallShape, Locals(u, c)
  PROVE  Assigned(u) /\ op'[u] = c
BY DEF PInv, Shape, Assigned, Locals

LEMMA Move ==
  ASSUME PInv, NEW u \in Thread, NEW c \in Onward(op[u]), Locals(u, c) \/ op' = op
  PROVE  Moved(u)
BY DEF PInv, Shape, Onward, Moved, Assigned, Locals

LEMMA Stay ==
  ASSUME PInv, NEW u \in Thread, op' = op
  PROVE  Moved(u)
BY DEF PInv, Shape, Moved, Assigned

\* A call that moves on to a step that is not poll's or epoll_wait's own.
LEMMA StaysHome ==
  ASSUME PInv, NEW u \in Thread, Moved(u),
         pc'[u] \notin {"query", "lock", "scan", "look", "report"}
  PROVE  Home(u)'
BY DEF PInv, Home, Moved

LEMMA Enters ==
  ASSUME PInv, NEW u \in Thread, NEW c \in Ops[u], NEW kind,
         NEW where \in {"prepare", "release", "watch", "control"},
         Enter(u, c, kind, where), UNCHANGED <<len, ends, reg>>
  PROVE  PInv'
<1>1. c \in CallShape /\ c.back # "report"
  BY CallsHaveShape, PipeAssumption DEF Fresh
<1>2. Assigned(u) /\ op'[u] = c
  BY <1>1, Assign DEF Enter
<1>3. pc' = [pc EXCEPT ![u] = where] /\ pc[u] = "user"
  BY DEF Enter, Goto, At
<1>4. Shape'
  BY <1>2, <1>3 DEF PInv, Shape, Assigned, Labels
<1>5. Others(u)
  BY <1>2, <1>3 DEF PInv, Shape, Others, Assigned
<1>6. Home(u)'
  BY <1>1, <1>2, <1>3 DEF PInv, Shape, Home
<1> QED
  BY <1>3, <1>4, <1>5, <1>6, Elsewhere DEF PInv, Shape

-----------------------------------------------------------------------------
(* The steps, one lemma for each group that keeps the invariant for the    *)
(* same reason.                                                            *)

\* The wait loop: a thread registers on the channel that changed() wakes.
LEMMA WaitLoop ==
  ASSUME PInv, NEW u \in Thread, PrepareWait(u) \/ CommitWait(u)
  PROVE  PInv'
<1>1. CASE PrepareWait(u)
  <2>1. Moved(u)
    <3> DEFINE c == [op[u] EXCEPT !.left = op[u].entries, !.hit = FALSE]
    <3>1. op[u] \in CallShape /\ op[u].entries \in SUBSET End
      BY DEF PInv, Shape, CallShape
    <3>2. c \in Onward(op[u])
      BY <3>1, LocalsHaveShape, Zenon
    <3>3. Locals(u, c) \/ op' = op
      BY <1>1 DEF PrepareWait
    <3> HIDE DEF c
    <3> QED
      BY <3>2, <3>3, Move
  <2>2. ChannelOf(u) \in Channel
    BY DEF ChannelOf, Channel
  <2>3. pc'[u] \in {"test", "query", "lock"} /\ pc' \in [Thread -> Labels]
    BY <1>1 DEF PInv, Shape, PrepareWait, Goto, Labels
  <2>4. Shape'
    BY <1>1, <2>1, <2>2, <2>3 DEF PInv, Shape, Moved, Assigned, PrepareWait, Registered, pipeVars
  <2>5. Others(u)
    BY <1>1, <2>1 DEF PInv, Shape, Others, Moved, Assigned, PrepareWait, Registered, Goto
  <2>6. OnPipe(u)'
    BY <1>1, <2>1 DEF PInv, Shape, OnPipe, Moved, PrepareWait, Registered, Transfers, ChannelOf, Doing
  <2>7. Woke(u)'
    BY <2>3 DEF Woke, Waiting
  <2>8. Home(u)'
    BY <1>1, <2>1 DEF PInv, Shape, Home, Moved, PrepareWait, Goto, Doing
  <2> QED
    BY <1>1, <2>4, <2>5, <2>6, <2>7, <2>8, Quiet DEF PrepareWait, At, pipeVars
<1>2. CASE CommitWait(u)
  <2>1. Shape'
    BY <1>2 DEF PInv, Shape, CommitWait, Leave, Unregistered, Goto, Labels, pipeVars
  <2>2. Others(u)
    BY <1>2 DEF PInv, Shape, Others, CommitWait, Leave, Unregistered, Goto
  <2>5. Home(u)'
    <3>1. Moved(u)
      BY <1>2, Stay DEF CommitWait
    <3> QED
      BY <1>2, <3>1, StaysHome DEF PInv, Shape, CommitWait, Leave, Goto
  <2>3. CASE pc'[u] = "blocked"
    <3>1. reg' = reg /\ pc[u] = "commit" /\ op' = op /\ len' = len /\ ends' = ends
      BY <1>2, <2>3 DEF PInv, Shape, CommitWait, Leave, Goto, At, pipeVars
    <3>2. OnPipe(u)'
      BY <3>1, <2>3 DEF PInv, OnPipe
    <3>3. WakeAhead => WakeAhead'
      BY <2>2, <3>1, StillAhead DEF PInv, Others
    <3>4. Woke(u)'
      BY <3>1, <3>3, <2>3 DEF PInv, Woke, Waiting, Doing, Space, Needed
    <3> QED
      BY <2>1, <2>2, <2>5, <3>1, <3>2, <3>4, Quiet
  <2>4. CASE pc'[u] # "blocked"
    BY <1>2, <2>1, <2>2, <2>4, <2>5, Elsewhere DEF PInv, Shape, CommitWait, Leave, Goto, At, pipeVars
  <2> QED
    BY <2>3, <2>4
<1> QED
  BY <1>1, <1>2

\* A reader that goes to sleep has found the pipe empty and a writer there.
LEMMA ReadTestKeeps ==
  ASSUME PInv, NEW u \in Thread, ReadTest(u)
  PROVE  PInv'
<1>1. Others(u)
  BY DEF PInv, Shape, Others, ReadTest, Leave, Unregistered, Goto
<1>2. len' \in Int
  <2>1. op[u].size \in Int
    BY DEF PInv, Shape, CallShape
  <2> QED
    BY <2>1 DEF PInv, Shape, ReadTest, Least
<1>6. Shape'
  BY <1>2 DEF PInv, Shape, ReadTest, Leave, Unregistered, Goto, Labels
<1>7. Home(u)'
  <2>1. Moved(u)
    BY Stay DEF ReadTest
  <2> QED
    BY <2>1, StaysHome DEF PInv, Shape, ReadTest, Leave, Goto
<1>3. CASE pc'[u] = "wake"
  BY <1>1, <1>6, <1>7, <1>3, Loud
<1>4. CASE pc'[u] = "commit"
  <2>1. reg' = reg /\ op' = op /\ len' = len /\ ends' = ends /\ pc[u] = "test"
        /\ op[u].kind = "read" /\ len = 0 /\ ends["w"] # 0
    BY <1>4 DEF PInv, Shape, ReadTest, Leave, Goto, At, Doing
  <2>2. OnPipe(u)'
    BY <2>1 DEF PInv, OnPipe
  <2>3. Woke(u)'
    BY <2>1 DEF Woke, Waiting, Doing
  <2> QED
    BY <1>1, <1>6, <1>7, <2>1, <2>2, <2>3, Quiet
<1>5. CASE pc'[u] \notin {"wake", "commit"}
  <2>1. pc'[u] \in {"release", "unwatch"} /\ len' = len /\ ends' = ends /\ pc[u] = "test"
    BY <1>5 DEF PInv, Shape, ReadTest, Leave, Goto, At
  <2> QED
    BY <1>1, <1>6, <1>7, <2>1, Elsewhere
<1> QED
  BY <1>3, <1>4, <1>5

\* A writer that goes to sleep has found no room and a reader there.
LEMMA WriteTestKeeps ==
  ASSUME PInv, NEW u \in Thread, WriteTest(u)
  PROVE  PInv'
<1>1. op[u] \in CallShape /\ op[u].size \in Int /\ op[u].done \in Int
  BY DEF PInv, Shape, CallShape
<1>2. Moved(u) /\ len' \in Int
  <2> DEFINE count == Least(Space, op[u].size - op[u].done)
             th == IF count = op[u].size - op[u].done THEN "release" ELSE "prepare"
             c == [op[u] EXCEPT !.done = @ + count, !.then = th]
  <2>1. count \in Int
    BY <1>1, PipeAssumption DEF PInv, Shape, Least, Space
  <2>2. c \in Onward(op[u])
    <3>1. op[u].done + count \in Int /\ th \in {"release", "prepare", "free"}
      BY <1>1, <2>1
    <3> HIDE DEF count, th
    <3> QED
      BY <1>1, <3>1, LocalsHaveShape, Zenon
  <2>3. (Locals(u, c) /\ len' = len + count) \/ (op' = op /\ len' = len)
    BY DEF WriteTest, Fill
  <2> HIDE DEF count, c
  <2> QED
    BY <2>1, <2>2, <2>3, Move DEF PInv, Shape
<1>7. Others(u)
  BY <1>2 DEF PInv, Shape, Others, Moved, Assigned, WriteTest, Leave, Unregistered, Goto
<1>3. Shape'
  BY <1>2 DEF PInv, Shape, Moved, Assigned, WriteTest, Leave, Unregistered, Goto, Labels
<1>8. Home(u)'
  BY <1>2, StaysHome DEF PInv, Shape, WriteTest, Leave, Goto
<1>4. CASE pc'[u] = "wake"
  BY <1>7, <1>8, <1>3, <1>4, Loud
<1>5. CASE pc'[u] = "commit"
  <2>1. reg' = reg /\ op' = op /\ len' = len /\ ends' = ends /\ pc[u] = "test"
        /\ op[u].kind = "write" /\ ~ (Space >= Needed(op[u])) /\ ends["r"] # 0
    BY <1>5 DEF PInv, Shape, WriteTest, Leave, Goto, At, Doing
  <2>2. OnPipe(u)'
    BY <2>1 DEF PInv, OnPipe
  <2>3. Woke(u)'
    BY <2>1 DEF Woke, Waiting, Doing, Space, Needed
  <2> QED
    BY <1>7, <1>8, <1>3, <2>1, <2>2, <2>3, Quiet
<1>6. CASE pc'[u] \notin {"wake", "commit"}
  <2>1. pc'[u] \in {"release", "unwatch"} /\ len' = len /\ ends' = ends /\ pc[u] = "test"
    BY <1>6 DEF PInv, Shape, WriteTest, Leave, Goto, At
  <2> QED
    BY <1>7, <1>8, <1>3, <2>1, Elsewhere
<1> QED
  BY <1>4, <1>5, <1>6

\* The wake-up of changed() leaves nobody registered on the pipe's channel.
LEMMA ChangedWakeKeeps ==
  ASSUME PInv, NEW u \in Thread, ChangedWake(u)
  PROVE  PInv'
<1>1. Shape'
  BY DEF PInv, Shape, ChangedWake, Woken, Goto, Labels, pipeVars
<1>2. ASSUME NEW t \in Thread PROVE OnPipe(t)' /\ Woke(t)' /\ Home(t)'
  <2>1. op' = op /\ pc'[t] \in {pc[t], "notify_r"}
    BY DEF PInv, Shape, ChangedWake, Goto
  <2>2. reg'[t] = IF reg[t] = Pipe THEN None ELSE reg[t]
    BY DEF ChangedWake, Woken
  <2>3. pc'[t] \in {"test", "commit", "blocked"} /\ op'[t].kind \in Transfers => reg'[t] = None
    BY <2>1, <2>2 DEF PInv, OnPipe
  <2>4. OnPipe(t)'
    BY <2>3 DEF OnPipe
  <2>5. Woke(t)'
    BY <2>3 DEF Woke, Waiting, Doing, Transfers
  <2>6. Home(t)'
    BY <2>1 DEF PInv, Home
  <2> QED
    BY <2>4, <2>5, <2>6
<1> QED
  BY <1>1, <1>2 DEF PInv

\* A closed end is announced.
LEMMA CloseDropKeeps ==
  ASSUME PInv, NEW u \in Thread, CloseDrop(u)
  PROVE  PInv'
<1> DEFINE g == \A x \in End : ends'[x] = 0
           c == [op[u] EXCEPT !.gone = g, !.then = "free"]
<1>3. op[u] \in CallShape /\ Locals(u, c)
  BY DEF PInv, Shape, CloseDrop
<1>4. c \in Onward(op[u])
  <2>1. g \in BOOLEAN
    OBVIOUS
  <2> HIDE DEF g
  <2> QED
    BY <2>1, <1>3, LocalsHaveShape, Zenon
<1> HIDE DEF c
<1>5. Moved(u)
  BY <1>3, <1>4, Move
<1>1. Shape'
  BY <1>5 DEF PInv, Shape, Moved, Assigned, CloseDrop, Goto, Labels, readinessVars
<1>2. Others(u)
  BY <1>5 DEF PInv, Shape, Others, Moved, Assigned, CloseDrop, Goto, readinessVars
<1>6. Home(u)'
  BY <1>5, StaysHome DEF PInv, Shape, CloseDrop, Goto
<1> QED
  BY <1>1, <1>2, <1>6, Loud DEF PInv, Shape, CloseDrop, Goto

\* A notification and detachAll take threads off channels, no more.
LEMMA CallbacksOnly ==
  ASSUME PInv, NEW ws, Callbacks(ws)
  PROVE  /\ reg' \in [Thread -> Channel \cup {None}]
         /\ \A t \in Thread : reg'[t] \in {reg[t], None}
BY DEF PInv, Shape, Callbacks, Woken

LEMMA NotifyKeeps ==
  ASSUME PInv, NEW u \in Thread, ChangedNotify(u) \/ CloseDetach(u)
  PROVE  PInv'
<1>1. PICK ws : Callbacks(ws)
  BY DEF ChangedNotify, CloseDetach, Notify, DetachAll
<1>2. Moved(u)
  BY Stay DEF ChangedNotify, CloseDetach
<1>3. /\ \E where \in {"notify_w", "drop", "release", "prepare", "free"} : pc' = [pc EXCEPT ![u] = where]
      /\ pc[u] # "wake"
  <2>1. op[u].then \in {"release", "prepare", "free"}
    BY DEF PInv, Shape, CallShape
  <2> QED
    BY <2>1 DEF ChangedNotify, CloseDetach, Goto, At
<1>4. len' = len /\ ends' = ends /\ op' = op
  BY DEF ChangedNotify, CloseDetach, pipeVars
<1>5. Shape'
  BY <1>1, <1>3, <1>4, CallbacksOnly DEF PInv, Shape, Labels
<1>6. Others(u)
  BY <1>1, <1>3, <1>4, CallbacksOnly DEF PInv, Shape, Others
<1>7. Home(u)'
  BY <1>2, <1>3, StaysHome DEF PInv, Shape
<1> QED
  BY <1>3, <1>4, <1>5, <1>6, <1>7, Elsewhere DEF PInv, Shape

\* release() goes back to where the call came from: a scan to its report.
LEMMA GoBackKeeps ==
  ASSUME PInv, NEW u \in Thread, GoBack(u), pc[u] # "wake", UNCHANGED <<len, ends, reg>>
  PROVE  PInv'
<1>1. CASE op[u].back = "return"
  <2>1. Assigned(u) /\ op'[u] = NoCall
    BY <1>1, Assign, CallsHaveShape DEF GoBack, Return
  <2>2. pc' = [pc EXCEPT ![u] = "user"]
    BY <1>1 DEF GoBack, Return, Goto
  <2>3. Shape'
    BY <2>1, <2>2 DEF PInv, Shape, Assigned, Labels
  <2>4. Others(u)
    BY <2>1, <2>2 DEF PInv, Shape, Others, Assigned
  <2>5. Home(u)'
    BY <2>1, <2>2 DEF PInv, Shape, Home, NoCall
  <2> QED
    BY <2>2, <2>3, <2>4, <2>5, Elsewhere DEF PInv, Shape
<1>2. CASE op[u].back # "return"
  <2>1. op[u].back \in {"unwatch", "put", "report"}
    BY <1>2 DEF PInv, Shape, CallShape
  <2>2. pc' = [pc EXCEPT ![u] = op[u].back] /\ op' = op
    BY <1>2 DEF GoBack, Goto
  <2>3. Shape'
    BY <2>1, <2>2 DEF PInv, Shape, Labels
  <2>4. Others(u)
    BY <2>2 DEF PInv, Shape, Others
  <2>5. Home(u)'
    BY <2>1, <2>2 DEF PInv, Shape, Home
  <2> QED
    BY <2>1, <2>2, <2>3, <2>4, <2>5, Elsewhere DEF PInv, Shape
<1> QED
  BY <1>1, <1>2

LEMMA ReleaseKeeps ==
  ASSUME PInv, NEW u \in Thread, Release(u)
  PROVE  PInv'
<1>1. pc[u] = "release" /\ UNCHANGED <<len, ends, reg>>
  BY DEF Release, At, readinessVars, pipeVars
<1>2. CASE GoBack(u)
  BY <1>1, <1>2, GoBackKeeps
<1>3. CASE ~ GoBack(u)
  <2>1. op' = op /\ \E where \in {"destroy", "detach"} : pc' = [pc EXCEPT ![u] = where]
    BY <1>3 DEF Release, Goto
  <2>2. Shape'
    BY <1>1, <2>1 DEF PInv, Shape, Labels
  <2>3. Others(u)
    BY <1>1, <2>1 DEF PInv, Shape, Others
  <2>4. Moved(u)
    BY <2>1, Stay
  <2>5. Home(u)'
    BY <2>1, <2>4, StaysHome DEF PInv, Shape
  <2> QED
    BY <1>1, <2>1, <2>2, <2>3, <2>5, Elsewhere DEF PInv, Shape
<1> QED
  BY <1>2, <1>3

LEMMA FreeKeeps ==
  ASSUME PInv, NEW u \in Thread, CloseFree(u) \/ Destroy(u)
  PROVE  PInv'
<1>1. GoBack(u) /\ pc[u] # "wake" /\ UNCHANGED <<len, ends, reg>>
  BY DEF CloseFree, Destroy, At, readinessVars, pipeVars
<1> QED
  BY <1>1, GoBackKeeps

\* The steps of poll(): only PollQuery leads to sleep.
LEMMA PollKeeps ==
  ASSUME PInv, NEW u \in Thread, PollWatch(u) \/ PollQuery(u) \/ PollUnwatch(u)
  PROVE  PInv'
<1> DEFINE e == Next1(op[u].left)
           f == Next1(op[u].held)
           h == op[u].hit \/ e \notin op[u].held \/ Ready(e)
<1>1. op[u] \in CallShape /\ op[u].left \in SUBSET End /\ op[u].held \in SUBSET End
  BY DEF PInv, Shape, CallShape
<1>2. e \in End /\ f \in End /\ f \in Desc
  BY DEF Next1, End, Desc
<1>3. UNCHANGED <<len, ends>>
  BY DEF PollWatch, PollQuery, PollUnwatch, pipeVars
<1>4. CASE PollWatch(u)
  <2>1. Moved(u)
    <3> DEFINE c == [op[u] EXCEPT !.left = @ \ {e}, !.held = @ \cup {e}]
               d == [op[u] EXCEPT !.left = @ \ {e}]
    <3>1. Locals(u, c) \/ Locals(u, d) \/ op' = op
      BY <1>4 DEF PollWatch
    <3>2. op[u].left \ {e} \in SUBSET End /\ op[u].held \cup {e} \in SUBSET End
      BY <1>1, <1>2
    <3> HIDE DEF e
    <3>3. c \in Onward(op[u])
      BY <1>1, <3>2, LocalsHaveShape, Zenon
    <3>4. d \in Onward(op[u])
      BY <1>1, <3>2, LocalsHaveShape, Zenon
    <3> HIDE DEF c, d
    <3> QED
      BY <3>1, <3>3, <3>4, Move, Stay
  <2>2. (pc' = [pc EXCEPT ![u] = "prepare"] \/ pc' = pc) /\ pc[u] = "watch" /\ reg' = reg
    BY <1>4 DEF PollWatch, Goto, At
  <2>3. Shape'
    BY <1>3, <2>1, <2>2 DEF PInv, Shape, Moved, Assigned, Labels
  <2>4. Others(u)
    BY <2>1, <2>2 DEF PInv, Shape, Others, Moved, Assigned
  <2>5. Home(u)'
    BY <2>1, <2>2, StaysHome DEF PInv, Shape
  <2> QED
    BY <1>3, <2>2, <2>3, <2>4, <2>5, Elsewhere DEF PInv, Shape
<1>5. CASE PollQuery(u)
  <2>1. Moved(u)
    <3> DEFINE c == [op[u] EXCEPT !.left = @ \ {e}, !.hit = h]
    <3>1. Locals(u, c) \/ op' = op
      BY <1>5 DEF PollQuery
    <3>2. op[u].left \ {e} \in SUBSET End /\ h \in BOOLEAN
      BY <1>1
    <3> HIDE DEF e, h
    <3>3. c \in Onward(op[u])
      BY <1>1, <3>2, LocalsHaveShape, Zenon
    <3> HIDE DEF c
    <3> QED
      BY <3>1, <3>3, Move
  <2>2. /\ pc[u] = "query" /\ op[u].kind = "poll"
        /\ \E where \in {"query", "unwatch", "release", "commit"} : pc' = [pc EXCEPT ![u] = where]
        /\ reg' = reg \/ reg' = [reg EXCEPT ![u] = None]
    BY <1>5 DEF PInv, Shape, Home, PollQuery, Leave, Unregistered, Goto, At
  <2>3. Shape'
    BY <1>3, <2>1, <2>2 DEF PInv, Shape, Moved, Assigned, Labels
  <2>4. Others(u)
    BY <2>1, <2>2 DEF PInv, Shape, Others, Moved, Assigned
  <2>5. OnPipe(u)' /\ Woke(u)' /\ Home(u)'
    BY <2>1, <2>2 DEF PInv, Shape, Moved, OnPipe, Woke, Waiting, Doing, Transfers, Home
  <2> QED
    BY <1>3, <2>2, <2>3, <2>4, <2>5, Quiet
<1>6. CASE PollUnwatch(u) /\ op[u].held = {}
  <2>1. Assigned(u) /\ op'[u] = NoCall
    BY <1>6, Assign, CallsHaveShape DEF PollUnwatch, Return
  <2>2. pc' = [pc EXCEPT ![u] = "user"] /\ pc[u] = "unwatch" /\ reg' = reg
    BY <1>6 DEF PollUnwatch, Return, Goto, At
  <2>3. Shape'
    BY <1>3, <2>1, <2>2 DEF PInv, Shape, Assigned, Labels
  <2>4. Others(u)
    BY <2>1, <2>2 DEF PInv, Shape, Others, Assigned
  <2>5. Home(u)'
    BY <2>1, <2>2 DEF PInv, Shape, Home, NoCall
  <2> QED
    BY <1>3, <2>2, <2>3, <2>4, <2>5, Elsewhere DEF PInv, Shape
<1>7. CASE PollUnwatch(u) /\ op[u].held # {}
  <2>1. Moved(u)
    <3> DEFINE c == [op[u] EXCEPT !.held = @ \ {f}, !.end = f]
    <3>1. Locals(u, c)
      BY <1>7 DEF PollUnwatch
    <3>2. op[u].held \ {f} \in SUBSET End
      BY <1>1
    <3> HIDE DEF f
    <3>3. c \in Onward(op[u])
      BY <1>1, <1>2, <3>2, LocalsHaveShape, Zenon
    <3> HIDE DEF c
    <3> QED
      BY <3>1, <3>3, Move
  <2>2. pc' = [pc EXCEPT ![u] = "release"] /\ pc[u] = "unwatch" /\ reg' = reg
    BY <1>7 DEF PollUnwatch, Goto, At
  <2>3. Shape'
    BY <1>3, <2>1, <2>2 DEF PInv, Shape, Moved, Assigned, Labels
  <2>4. Others(u)
    BY <2>1, <2>2 DEF PInv, Shape, Others, Moved, Assigned
  <2>5. Home(u)'
    BY <2>1, <2>2, StaysHome DEF PInv, Shape
  <2> QED
    BY <1>3, <2>2, <2>3, <2>4, <2>5, Elsewhere DEF PInv, Shape
<1> QED
  BY <1>4, <1>5, <1>6, <1>7

\* A signal and a deadline take the thread off its channel, no more.
LEMMA DisturbKeeps ==
  ASSUME PInv, NEW u \in Thread, Disturb(u)
  PROVE  PInv'
<1>1. len' = len /\ ends' = ends /\ pc' = pc
  BY DEF Disturb, Interrupt, Deadline, pipeVars
<1>2. \A t \in Thread : reg'[t] \in {reg[t], None}
  BY DEF PInv, Shape, Disturb, Interrupt, Deadline
<1>3. reg' \in [Thread -> Channel \cup {None}]
  BY DEF PInv, Shape, Disturb, Interrupt, Deadline
<1>4. /\ op' \in [Thread -> CallShape]
      /\ \A t \in Thread :
           op'[t].kind = op[t].kind /\ op'[t].size = op[t].size
           /\ op'[t].done = op[t].done /\ op'[t].back = op[t].back
  <2> DEFINE c == [op[u] EXCEPT !.timeout = "over"]
  <2>1. op[u] \in CallShape
    BY DEF PInv, Shape
  <2>2. c \in Onward(op[u]) /\ c.size = op[u].size /\ c.done = op[u].done
    BY <2>1, OthersHaveShape, Zenon
  <2>3. op' = op \/ Locals(u, c)
    BY DEF Disturb, Interrupt, Deadline
  <2> HIDE DEF c
  <2> QED
    BY <2>2, <2>3 DEF PInv, Shape, Onward, Locals
<1>5. WakeAhead => WakeAhead'
  BY <1>1 DEF WakeAhead, At
<1>6. ASSUME NEW t \in Thread PROVE OnPipe(t)' /\ Woke(t)' /\ Home(t)'
  BY <1>1, <1>2, <1>4, <1>5, Bystander
<1> QED
  BY <1>1, <1>3, <1>4, <1>6 DEF PInv, Shape

\* epoll_ctl and the steps of epoll_wait that do not change the call.
LEMMA EpollKeeps ==
  ASSUME PInv, NEW u \in Thread,
         Control(u) \/ WaitLock(u) \/ ScanEnd(u) \/ ScanLook(u)
  PROVE  PInv'
<1>1. UNCHANGED <<len, ends, op>>
  BY DEF Control, WaitLock, ScanEnd, ScanLook, pipeVars
<1>2. Moved(u)
  BY <1>1, Stay
<1>3. /\ reg' \in [Thread -> Channel \cup {None}]
      /\ \A t \in Thread : reg'[t] \in {reg[t], None}
  BY DEF PInv, Shape, Control, Add, Mod, Del, Refused, WaitLock, ScanEnd, ScanLook,
         Leave, Unregistered, Woken, readinessVars
<1>4. \/ pc[u] \in {"control", "look"} /\ pc' = [pc EXCEPT ![u] = "release"]
      \/ pc[u] = "lock" /\ pc' = [pc EXCEPT ![u] = "scan"]
      \/ pc[u] = "scan" /\ \E where \in {"unwatch", "release", "commit"} :
                              pc' = [pc EXCEPT ![u] = where]
  BY DEF Control, WaitLock, ScanEnd, ScanLook, Leave, Goto, At
<1>5. Shape'
  BY <1>1, <1>3, <1>4 DEF PInv, Shape, Labels
<1>6. Others(u)
  BY <1>1, <1>3, <1>4 DEF PInv, Shape, Others
<1>7. OnPipe(u)' /\ Woke(u)' /\ Home(u)'
  BY <1>1, <1>4 DEF PInv, Shape, OnPipe, Woke, Waiting, Doing, Transfers, Home
<1> QED
  BY <1>1, <1>4, <1>5, <1>6, <1>7, Quiet

\* A scan that pins a description or is done with it, and the last of ctl.
LEMMA PinKeeps ==
  ASSUME PInv, NEW u \in Thread, Attached,
         ScanPin(u) \/ ScanReport(u) \/ PutInstance(u)
  PROVE  PInv'
<1> DEFINE e == First(scan[u].left)
           c == [op[u] EXCEPT !.end = e, !.back = "report"]
           d == [op[u] EXCEPT !.end = Ep, !.back = "return"]
<1>1. UNCHANGED <<len, ends, reg>> /\ op[u] \in CallShape
  BY DEF PInv, Shape, ScanPin, ScanReport, PutInstance, readinessVars, pipeVars
<1>2. \/ pc[u] = "scan" /\ Locals(u, c) /\ pc' = [pc EXCEPT ![u] = "look"] /\ Alive(e)
      \/ pc[u] = "scan" /\ op' = op /\ pc' = pc
      \/ pc[u] = "report" /\ Locals(u, d) /\ pc' = [pc EXCEPT ![u] = "scan"]
      \/ pc[u] = "put" /\ Locals(u, d) /\ pc' = [pc EXCEPT ![u] = "release"]
  BY DEF ScanPin, ScanReport, PutInstance, Goto, At
<1>3. ASSUME Alive(e) PROVE c \in CallShape /\ c.kind = op[u].kind /\ c.back = "report"
  <2>1. e \in Desc
    BY <1>3 DEF Alive, Interest, Entry, Attached
  <2> HIDE DEF e
  <2> QED
    BY <1>1, <2>1, OthersHaveShape, Zenon
<1>4. d \in CallShape /\ d.kind = op[u].kind /\ d.back = "return"
  <2>1. Ep \in Desc
    BY DEF Desc
  <2> HIDE DEF e, c
  <2> QED
    BY <1>1, <2>1, OthersHaveShape, Zenon
<1> HIDE DEF c, d
<1>5. /\ Assigned(u) /\ op'[u].kind = op[u].kind
      /\ op'[u].back = "report" => op[u].back = "report" \/ pc[u] = "scan"
  <2>1. CASE Locals(u, c) /\ pc[u] = "scan" /\ Alive(e)
    BY <2>1, <1>3, Assign
  <2>2. CASE Locals(u, d)
    BY <2>2, <1>4, Assign
  <2>3. CASE op' = op
    BY <2>3, Stay DEF Moved
  <2> QED
    BY <1>2, <2>1, <2>2, <2>3
<1>6. Shape'
  BY <1>1, <1>2, <1>5 DEF PInv, Shape, Assigned, Labels
<1>7. Others(u)
  BY <1>1, <1>2, <1>5 DEF PInv, Shape, Others, Assigned
<1>8. Home(u)'
  BY <1>2, <1>5 DEF PInv, Shape, Home
<1> QED
  BY <1>1, <1>2, <1>6, <1>7, <1>8, Elsewhere DEF PInv, Shape

\* Only poll() and epoll_ctl attach, to the description they have looked up.
LEMMA AttachedKeeps ==
  ASSUME PInv, Attached, [Next]_vars
  PROVE  Attached'
<1>1. \A t \in Thread : op[t].end \in Desc /\ Next1(op[t].left) \in Desc
  BY DEF PInv, Shape, CallShape, Next1, End, Desc
<1>2. \A w : (\E t \in Thread : w = Entry(t, Next1(op[t].left)) \/ w = Interest(op[t].end))
             => w.on \in Desc
  BY <1>1 DEF Interest, Entry
<1>3. ASSUME NEW w \in attached', w \notin attached
      PROVE  \E t \in Thread : w = Entry(t, Next1(op[t].left)) \/ w = Interest(op[t].end)
  <2>1. CASE UNCHANGED vars
    BY <1>3, <2>1 DEF vars, readinessVars
  <2>2. CASE Next
    <3>1. PICK t \in Thread :
            \/ Step(t) \/ EpStep(t) \/ Begin(t) \/ EpBegin(t) \/ Disturb(t)
      BY <2>2 DEF Next, PipeStep
    <3>2. CASE Step(t)
      BY <1>3, <3>2 DEF Step, PrepareWait, CommitWait, ReadTest, WriteTest, ChangedWake,
         ChangedNotify, Release, CloseDetach, CloseDrop, CloseFree, PollWatch, PollQuery,
         PollUnwatch, Notify, DetachAll, AttachLocked, DetachLocked, readinessVars
    <3>3. CASE EpStep(t)
      BY <1>3, <3>3 DEF EpStep, Control, Add, Mod, Del, Refused, PutInstance, WaitLock,
         ScanEnd, ScanPin, ScanLook, ScanReport, Destroy, AttachLocked, DetachLocked,
         readinessVars
    <3>4. CASE Begin(t) \/ EpBegin(t) \/ Disturb(t)
      BY <1>3, <3>4 DEF Begin, BeginRead, BeginWrite, BeginClose, BeginPoll, EpBegin,
         BeginCtl, BeginWait, Disturb, Interrupt, Deadline, readinessVars
    <3> QED
      BY <3>1, <3>2, <3>3, <3>4
  <2> QED
    BY <2>1, <2>2
<1> QED
  BY <1>2, <1>3 DEF Attached

\* Starting a call.
LEMMA BeginKeeps ==
  ASSUME PInv, NEW u \in Thread, Begin(u) \/ EpBegin(u)
  PROVE  PInv'
<1>1. PICK c \in Ops[u] :
        BeginRead(u, c) \/ BeginWrite(u, c) \/ BeginClose(u, c) \/ BeginPoll(u, c)
        \/ BeginCtl(u, c) \/ BeginWait(u, c)
  BY DEF Begin, EpBegin
<1>2. UNCHANGED <<len, ends, reg>>
  BY <1>1 DEF BeginRead, BeginWrite, BeginClose, BeginPoll, BeginCtl, BeginWait,
     readinessVars, pipeVars
<1>3. \/ Enter(u, c, "read", "prepare") \/ Enter(u, c, "write", "prepare")
      \/ Enter(u, c, "close", "release") \/ Enter(u, c, "poll", "watch")
      \/ Enter(u, c, "ctl", "control") \/ Enter(u, c, "wait", "prepare")
  BY <1>1 DEF BeginRead, BeginWrite, BeginClose, BeginPoll, BeginCtl, BeginWait
<1> QED
  BY <1>2, <1>3, Enters

-----------------------------------------------------------------------------
(* The theorems.                                                           *)

IInv == PInv /\ Attached

LEMMA Start == Init => IInv
<1> SUFFICES ASSUME Init PROVE IInv
  OBVIOUS
<1>1. Shape
  BY CallsHaveShape DEF Init, ReadinessInit, PipeInit, Shape, Labels
<1>2. ASSUME NEW t \in Thread PROVE OnPipe(t) /\ Woke(t) /\ Home(t)
  BY DEF Init, PipeInit, OnPipe, Woke, Home, Waiting, NoCall
<1>3. Attached
  BY DEF Init, ReadinessInit, Attached
<1> QED
  BY <1>1, <1>2, <1>3 DEF IInv, PInv

LEMMA Steps == IInv /\ [Next]_vars => IInv'
<1> SUFFICES ASSUME IInv, [Next]_vars PROVE IInv'
  OBVIOUS
<1> USE DEF IInv
<1>1. Attached'
  BY AttachedKeeps
<1>2. PInv'
  <2>1. CASE UNCHANGED vars
    <3>1. UNCHANGED <<pc, op, reg, len, ends>>
      BY <2>1 DEF vars, readinessVars, pipeVars, callVars
    <3> QED
      BY <3>1 DEF PInv, Shape, OnPipe, Woke, Home, Waiting, Doing, WakeAhead, At, Space, Needed
  <2>2. CASE Next
    <3>1. PICK t \in Thread :
            \/ Step(t) \/ EpStep(t) \/ Begin(t) \/ EpBegin(t) \/ Disturb(t)
      BY <2>2 DEF Next, PipeStep
    <3>2. CASE Step(t)
      BY <3>2, WaitLoop, ReadTestKeeps, WriteTestKeeps, ChangedWakeKeeps, NotifyKeeps,
         ReleaseKeeps, CloseDropKeeps, FreeKeeps, PollKeeps DEF Step
    <3>3. CASE EpStep(t)
      BY <3>3, EpollKeeps, PinKeeps, FreeKeeps DEF EpStep
    <3> QED
      BY <3>1, <3>2, <3>3, BeginKeeps, DisturbKeeps
  <2> QED
    BY <2>1, <2>2
<1> QED
  BY <1>1, <1>2

\* The inductive invariant of pipe.zig's and epoll.zig's wait loops.
THEOREM Invariance == Spec => []IInv
BY Start, Steps, PTL DEF Spec

\* No lost wake-up in Pipe.read and Pipe.write: a thread asleep there, or about
\* to be, has nothing to go on with, or changed() is about to wake it.
THEOREM TransfersWoken == Spec => []SleepersWoken
<1>1. IInv => SleepersWoken
  BY DEF IInv, PInv, Woke, SleepersWoken
<1> QED
  BY <1>1, Invariance, PTL

-----------------------------------------------------------------------------
(***************************************************************************)
(* What the rest of Epoll's properties need: the ring is a queue and small *)
(* writes stay whole in it, every reference on a description is accounted  *)
(* for, and neither poll nor epoll_wait loses a wake-up or an edge.        *)
(***************************************************************************)

-----------------------------------------------------------------------------
(* What each step does to the local variables of its call.                 *)

\* The call d has the arguments of c ...
Args(c, d) ==
  /\ d.kind = c.kind /\ d.size = c.size /\ d.entries = c.entries /\ d.max = c.max
  /\ d.what = c.what /\ d.flags = c.flags

\* ... and all its local variables.
Alike(c, d) ==
  /\ Args(c, d)
  /\ d.done = c.done /\ d.left = c.left /\ d.held = c.held /\ d.hit = c.hit
  /\ d.end = c.end /\ d.then = c.then /\ d.back = c.back

\* What an assignment to local variables leaves alone.
LEMMA Fields ==
  ASSUME NEW c \in CallShape
  PROVE  /\ \A s, h : LET d == [c EXCEPT !.left = s, !.hit = h] IN
              /\ Args(c, d) /\ d.left = s /\ d.hit = h
              /\ d.done = c.done /\ d.held = c.held /\ d.end = c.end
              /\ d.then = c.then /\ d.back = c.back
         /\ \A s, r : LET d == [c EXCEPT !.left = s, !.held = r] IN
              /\ Args(c, d) /\ d.left = s /\ d.held = r
              /\ d.done = c.done /\ d.hit = c.hit /\ d.end = c.end
              /\ d.then = c.then /\ d.back = c.back
         /\ \A s : LET d == [c EXCEPT !.left = s] IN
              /\ Args(c, d) /\ d.left = s
              /\ d.done = c.done /\ d.held = c.held /\ d.hit = c.hit
              /\ d.end = c.end /\ d.then = c.then /\ d.back = c.back
         /\ \A r, e : LET d == [c EXCEPT !.held = r, !.end = e] IN
              /\ Args(c, d) /\ d.held = r /\ d.end = e
              /\ d.done = c.done /\ d.left = c.left /\ d.hit = c.hit
              /\ d.then = c.then /\ d.back = c.back
         /\ \A n, th : LET d == [c EXCEPT !.done = n, !.then = th] IN
              /\ Args(c, d) /\ d.done = n /\ d.then = th
              /\ d.left = c.left /\ d.held = c.held /\ d.hit = c.hit
              /\ d.end = c.end /\ d.back = c.back
         /\ \A g : LET d == [c EXCEPT !.gone = g, !.then = "free"] IN
              /\ Args(c, d) /\ d.then = "free"
              /\ d.done = c.done /\ d.left = c.left /\ d.held = c.held
              /\ d.hit = c.hit /\ d.end = c.end /\ d.back = c.back
         /\ \A e, b : LET d == [c EXCEPT !.end = e, !.back = b] IN
              /\ Args(c, d) /\ d.end = e /\ d.back = b
              /\ d.done = c.done /\ d.left = c.left /\ d.held = c.held
              /\ d.hit = c.hit /\ d.then = c.then
         /\ Alike(c, [c EXCEPT !.timeout = "over"])
<1> USE DEF CallShape, Args
<1>1. ASSUME NEW s, NEW h
      PROVE  LET d == [c EXCEPT !.left = s, !.hit = h] IN
              /\ Args(c, d) /\ d.left = s /\ d.hit = h
              /\ d.done = c.done /\ d.held = c.held /\ d.end = c.end
              /\ d.then = c.then /\ d.back = c.back
  BY Zenon
<1>2. ASSUME NEW s, NEW r
      PROVE  LET d == [c EXCEPT !.left = s, !.held = r] IN
              /\ Args(c, d) /\ d.left = s /\ d.held = r
              /\ d.done = c.done /\ d.hit = c.hit /\ d.end = c.end
              /\ d.then = c.then /\ d.back = c.back
  BY Zenon
<1>3. ASSUME NEW s
      PROVE  LET d == [c EXCEPT !.left = s] IN
              /\ Args(c, d) /\ d.left = s
              /\ d.done = c.done /\ d.held = c.held /\ d.hit = c.hit
              /\ d.end = c.end /\ d.then = c.then /\ d.back = c.back
  BY Zenon
<1>4. ASSUME NEW r, NEW e
      PROVE  LET d == [c EXCEPT !.held = r, !.end = e] IN
              /\ Args(c, d) /\ d.held = r /\ d.end = e
              /\ d.done = c.done /\ d.left = c.left /\ d.hit = c.hit
              /\ d.then = c.then /\ d.back = c.back
  BY Zenon
<1>5. ASSUME NEW n, NEW th
      PROVE  LET d == [c EXCEPT !.done = n, !.then = th] IN
              /\ Args(c, d) /\ d.done = n /\ d.then = th
              /\ d.left = c.left /\ d.held = c.held /\ d.hit = c.hit
              /\ d.end = c.end /\ d.back = c.back
  BY Zenon
<1>6. ASSUME NEW g
      PROVE  LET d == [c EXCEPT !.gone = g, !.then = "free"] IN
              /\ Args(c, d) /\ d.then = "free"
              /\ d.done = c.done /\ d.left = c.left /\ d.held = c.held
              /\ d.hit = c.hit /\ d.end = c.end /\ d.back = c.back
  BY Zenon
<1>7. ASSUME NEW e, NEW b
      PROVE  LET d == [c EXCEPT !.end = e, !.back = b] IN
              /\ Args(c, d) /\ d.end = e /\ d.back = b
              /\ d.done = c.done /\ d.left = c.left /\ d.held = c.held
              /\ d.hit = c.hit /\ d.then = c.then
  BY Zenon
<1>8. Alike(c, [c EXCEPT !.timeout = "over"])
  BY Zenon DEF Alike
<1> HIDE DEF CallShape, Args
<1> QED BY <1>1, <1>2, <1>3, <1>4, <1>5, <1>6, <1>7, <1>8, Zenon

\* The local variables of a scan.
Scans == [left : SUBSET End, out : SUBSET End, pending : BOOLEAN, ready : BOOLEAN]
ScanShape == scan \in [Thread -> Scans]

\* A step by thread u, of any kind.
By(u) ==
  \/ PipeStep(Step(u)) \/ EpStep(u) \/ PipeStep(Begin(u)) \/ EpBegin(u)
  \/ PipeStep(Disturb(u))

\* It leaves the calls and the scans of the other threads alone.
LEMMA OthersStay ==
  ASSUME Shape, ScanShape, NEW u \in Thread, By(u)
  PROVE  Others(u) /\ \A t \in Thread \ {u} : scan'[t] = scan[t]
<1> USE DEF Shape, ScanShape, Others, Goto, Locals, Leave, Unregistered, Registered, Woken,
        Callbacks, readinessVars, Return, GoBack
<1>1. CASE PipeStep(Step(u))
  <2>0. scan' = scan
    BY <1>1 DEF PipeStep
  <2>1. CASE PrepareWait(u) \/ CommitWait(u)
    BY <2>0, <2>1 DEF PrepareWait, CommitWait
  <2>2. CASE ReadTest(u) \/ WriteTest(u)
    BY <2>0, <2>2 DEF ReadTest, WriteTest
  <2>3. CASE ChangedWake(u) \/ ChangedNotify(u) \/ CloseDetach(u)
    BY <2>0, <2>3 DEF ChangedWake, ChangedNotify, CloseDetach, Notify, DetachAll
  <2>4. CASE Release(u) \/ CloseDrop(u) \/ CloseFree(u)
    BY <2>0, <2>4 DEF Release, CloseDrop, CloseFree
  <2>5. CASE PollWatch(u) \/ PollQuery(u) \/ PollUnwatch(u)
    BY <2>0, <2>5 DEF PollWatch, PollQuery, PollUnwatch
  <2> QED BY <1>1, <2>1, <2>2, <2>3, <2>4, <2>5 DEF PipeStep, Step
<1>2. CASE EpStep(u)
  <2>1. CASE Control(u)
    BY <2>1 DEF Control, Add, Mod, Del, Refused
  <2>2. CASE PutInstance(u) \/ Destroy(u)
    BY <2>2 DEF PutInstance, Destroy
  <2>3. CASE WaitLock(u) \/ ScanEnd(u)
    BY <2>3 DEF WaitLock, ScanEnd
  <2>4. CASE ScanPin(u) \/ ScanLook(u) \/ ScanReport(u)
    BY <2>4 DEF ScanPin, ScanLook, ScanReport, Visited
  <2> QED BY <1>2, <2>1, <2>2, <2>3, <2>4 DEF EpStep
<1>3. CASE PipeStep(Begin(u)) \/ EpBegin(u)
  BY <1>3 DEF PipeStep, Begin, EpBegin, BeginRead, BeginWrite, BeginClose, BeginPoll,
     BeginCtl, BeginWait, Enter
<1>4. CASE PipeStep(Disturb(u))
  BY <1>4 DEF PipeStep, Disturb, Interrupt, Deadline
<1> QED BY <1>1, <1>2, <1>3, <1>4 DEF By

-----------------------------------------------------------------------------
(* The ring buffer.                                                        *)

Bytes == [by : Thread, at : Int, of : Nat]

Ring ==
  /\ head \in Cells /\ len \in 0 .. CAPACITY
  /\ buffer \in [Cells -> Bytes \cup {Blank}]
  /\ queue \in Seq(Bytes)
  /\ RingIsQueue

\* The places of the wait loop, where a write has not had its room yet.
Looping == {"prepare", "test", "commit", "blocked"}

\* How far a write has got: a small one all or nothing.
Progress(t) ==
  op[t].kind = "write" =>
    /\ op[t].done \in 0 .. op[t].size
    /\ pc[t] \in Looping /\ op[t].size <= ATOMIC_WRITE => op[t].done = 0
    /\ op[t].then = "prepare" => ~(op[t].size <= ATOMIC_WRITE)

\* The remainder of an index that has gone round at most once.
LEMMA Wrap ==
  \A n \in 0 .. 2 * CAPACITY - 1 :
    n % CAPACITY = IF n < CAPACITY THEN n ELSE n - CAPACITY
<1> TAKE n \in 0 .. 2 * CAPACITY - 1
<1>1. CAPACITY \in Nat \ {0}
  BY PipeAssumption
<1>2. ASSUME n < CAPACITY PROVE n % CAPACITY = n
  BY <1>1, <1>2
<1>3. ASSUME n >= CAPACITY PROVE n % CAPACITY = n - CAPACITY
  BY <1>1, <1>3
<1> QED BY <1>1, <1>2, <1>3

\* Taking bytes out moves the head over them.
LEMMA ReadKeepsRing ==
  ASSUME Ring, NEW count \in 0 .. len, buffer' = buffer,
         head' = (head + count) % CAPACITY, len' = len - count,
         queue' = SubSeq(queue, count + 1, Len(queue))
  PROVE  Ring'
<1>0. CAPACITY \in Nat /\ CAPACITY > 0
  BY PipeAssumption
<1>1. /\ head \in 0 .. CAPACITY - 1 /\ len \in 0 .. CAPACITY /\ len = Len(queue)
      /\ queue \in Seq(Bytes)
  BY DEF Ring, Cells, RingIsQueue
<1>2. head' = IF head + count < CAPACITY THEN head + count ELSE head + count - CAPACITY
  <2>1. head + count \in 0 .. 2 * CAPACITY - 1
    BY <1>0, <1>1
  <2>2. (head + count) % CAPACITY =
          IF head + count < CAPACITY THEN head + count ELSE head + count - CAPACITY
    BY <1>0, <1>1, <2>1, Wrap
  <2> QED BY <2>2
<1>3. head' \in 0 .. CAPACITY - 1 /\ len' \in 0 .. CAPACITY
  BY <1>0, <1>1, <1>2
<1>4. /\ queue' \in Seq(Bytes) /\ Len(queue') = len'
      /\ \A i \in 1 .. len' : queue'[i] = queue[count + i]
  BY SMTT(30), <1>0, <1>1
<1>5. ASSUME NEW i \in 1 .. len'
      PROVE  buffer[(head' + i - 1) % CAPACITY] = queue'[i]
  <2>1. /\ head' + i - 1 \in 0 .. 2 * CAPACITY - 1
        /\ head + (count + i) - 1 \in 0 .. 2 * CAPACITY - 1
        /\ count + i \in 1 .. len
    BY <1>0, <1>1, <1>3
  <2>2. PICK n \in 0 .. 2 * CAPACITY - 1, m \in 0 .. 2 * CAPACITY - 1 :
          n = head' + i - 1 /\ m = head + (count + i) - 1
    BY <2>1
  <2>3. /\ n % CAPACITY = IF n < CAPACITY THEN n ELSE n - CAPACITY
        /\ m % CAPACITY = IF m < CAPACITY THEN m ELSE m - CAPACITY
    BY <1>0, Wrap
  <2>4. n = m \/ n + CAPACITY = m \/ n = m + CAPACITY
    BY <1>0, <1>1, <1>2, <2>1, <2>2
  <2>5. n % CAPACITY = m % CAPACITY
    BY <1>0, <2>3, <2>4
  <2>6. buffer[(head + (count + i) - 1) % CAPACITY] = queue[count + i]
    BY <2>1 DEF Ring, RingIsQueue
  <2> QED BY <1>4, <2>2, <2>5, <2>6
<1> QED BY <1>3, <1>4, <1>5 DEF Ring, Cells, RingIsQueue

\* Putting bytes in behind the last one, around the end of the array, overwrites
\* none of those that are there.
LEMMA FillKeepsRing ==
  ASSUME Ring, NEW u \in Thread, NEW count \in 0 .. CAPACITY - len, head' = head,
         op[u].done \in Int, op[u].size \in Nat, Fill(u, count)
  PROVE  /\ Ring'
         /\ Len(queue') = len + count
         /\ \A i \in 1 .. len : queue'[i] = queue[i]
         /\ \A k \in 1 .. count : queue'[len + k] = Byte(u, op[u].done + k, op[u].size)
<1>0. CAPACITY \in Nat /\ CAPACITY > 0
  BY PipeAssumption
<1> DEFINE tail == (head + len) % CAPACITY
           after(i) == (i - tail + CAPACITY) % CAPACITY
           byte(k) == Byte(u, op[u].done + k, op[u].size)
           new == [k \in 1 .. count |-> byte(k)]
<1>1. /\ head \in 0 .. CAPACITY - 1 /\ len \in 0 .. CAPACITY /\ len = Len(queue)
      /\ queue \in Seq(Bytes)
  BY DEF Ring, Cells, RingIsQueue
<1>2. \A k \in Int : byte(k) \in Bytes
  BY DEF Byte, Bytes
<1>3. new \in Seq(Bytes) /\ Len(new) = count /\ \A k \in 1 .. count : new[k] = byte(k)
  BY <1>2
<1>4. /\ buffer' = [i \in Cells |-> IF after(i) < count THEN byte(after(i) + 1) ELSE buffer[i]]
      /\ len' = len + count /\ queue' = queue \o new
  BY DEF Fill
<1>5. /\ queue' \in Seq(Bytes) /\ Len(queue') = len + count
      /\ \A i \in 1 .. len : queue'[i] = queue[i]
      /\ \A k \in 1 .. count : queue'[len + k] = byte(k)
  <2> HIDE DEF new, byte
  <2>1. queue' \in Seq(Bytes) /\ Len(queue') = Len(queue) + Len(new)
    BY <1>1, <1>3, <1>4
  <2>2. \A i \in 1 .. Len(queue) : queue'[i] = queue[i]
    BY <1>1, <1>3, <1>4
  <2>3. ASSUME NEW k \in 1 .. count PROVE queue'[len + k] = byte(k)
    BY <1>1, <1>3, <1>4
  <2> QED BY <1>1, <1>3, <2>1, <2>2, <2>3
<1>6. tail = IF head + len < CAPACITY THEN head + len ELSE head + len - CAPACITY
  <2>1. head + len \in 0 .. 2 * CAPACITY - 1
    BY <1>0, <1>1
  <2> QED BY <1>0, <1>1, <2>1, Wrap
<1>7. ASSUME NEW i \in 0 .. CAPACITY - 1
      PROVE  after(i) = IF i < tail THEN i - tail + CAPACITY ELSE i - tail
  <2>0. tail \in 0 .. CAPACITY - 1
    BY <1>0, <1>1, <1>6
  <2> HIDE DEF tail
  <2>1. i - tail + CAPACITY \in 0 .. 2 * CAPACITY - 1
    BY <1>0, <2>0
  <2>2. after(i) = IF i - tail + CAPACITY < CAPACITY THEN i - tail + CAPACITY
                   ELSE i - tail + CAPACITY - CAPACITY
    BY <1>0, <2>0, <2>1, Wrap
  <2> HIDE DEF after
  <2> QED BY <1>0, <2>0, <2>2
<1>8. buffer' \in [Cells -> Bytes \cup {Blank}]
  <2>1. \A i \in Cells : after(i) + 1 \in Int
    BY <1>0, <1>1, <1>6, <1>7 DEF Cells
  <2> HIDE DEF after, byte
  <2> QED BY <1>2, <1>4, <2>1 DEF Ring
<1>9. ASSUME NEW j \in 1 .. len + count
      PROVE  buffer'[(head + j - 1) % CAPACITY] = queue'[j]
  <2> DEFINE i == (head + j - 1) % CAPACITY
  <2>1. head + j - 1 \in 0 .. 2 * CAPACITY - 1
    BY <1>0, <1>1
  <2>2. i = IF head + j - 1 < CAPACITY THEN head + j - 1 ELSE head + j - 1 - CAPACITY
    BY <1>0, <1>1, <2>1, Wrap
  <2>3. i \in 0 .. CAPACITY - 1
    BY <1>0, <1>1, <2>1, <2>2
  <2>4. after(i) = IF i < tail THEN i - tail + CAPACITY ELSE i - tail
    BY <1>7, <2>3
  <2>5. buffer'[i] = IF after(i) < count THEN byte(after(i) + 1) ELSE buffer[i]
    BY <1>4, <2>3 DEF Cells
  <2>8. tail \in Int
    BY <1>0, <1>1, <1>6
  <2> HIDE DEF i, after, tail, byte
  <2>9. /\ j <= len => ~(after(i) < count)
        /\ j > len => after(i) = j - len - 1 /\ j - len \in 1 .. count
    <3>1. PICK a \in Int, x \in Int, t \in Int : a = after(i) /\ x = i /\ t = tail
      BY <1>0, <2>3, <2>4, <2>8
    <3>2. head \in 0 .. CAPACITY - 1 /\ len \in 0 .. CAPACITY
      BY <1>1
    <3>3. /\ t = IF head + len < CAPACITY THEN head + len ELSE head + len - CAPACITY
          /\ x = IF head + j - 1 < CAPACITY THEN head + j - 1 ELSE head + j - 1 - CAPACITY
          /\ a = IF x < t THEN x - t + CAPACITY ELSE x - t
      BY <1>6, <2>2, <2>4, <3>1
    <3>4. /\ j <= len => ~(a < count)
          /\ j > len => a = j - len - 1 /\ j - len \in 1 .. count
      BY <1>0, <3>2, <3>3
    <3> QED BY <3>1, <3>4
  <2>6. CASE j <= len
    <3>1. ~(after(i) < count)
      BY <1>0, <1>1, <2>6, <2>9
    <3>2. buffer[i] = queue[j]
      BY <1>0, <1>1, <2>6 DEF i, Ring, RingIsQueue
    <3> QED BY <1>0, <1>1, <1>5, <2>5, <2>6, <3>1, <3>2 DEF i
  <2>7. CASE j > len
    <3>1. after(i) = j - len - 1 /\ j - len \in 1 .. count
      BY <1>0, <1>1, <2>7, <2>9
    <3>2. queue'[len + (j - len)] = byte(j - len)
      BY <1>5, <3>1
    <3> QED BY <1>0, <1>1, <2>5, <3>1, <3>2 DEF i
  <2> QED BY <1>0, <1>1, <2>6, <2>7
<1>10. len' \in 0 .. CAPACITY /\ len' = Len(queue') /\ head' \in Cells
  BY <1>0, <1>1, <1>4, <1>5 DEF Ring
<1>11. RingIsQueue'
  BY <1>4, <1>9, <1>10 DEF RingIsQueue
<1> QED BY <1>5, <1>8, <1>10, <1>11 DEF Ring

-----------------------------------------------------------------------------
(* The way of a call through its steps: where it goes on, with which local *)
(* variables, and what happens to the references meanwhile.                *)

Turn(u, from, to) == pc[u] \in from /\ pc'[u] = to
Steady(u) == Alike(op[u], op'[u])
SameRefs == refs' = refs /\ fds' = fds /\ destroyed' = destroyed

\* Steps that leave references alone, and local variables but for the timeout.
Walk(u) ==
  /\ Steady(u) /\ SameRefs
  /\ \/ pc'[u] = pc[u]
     \/ Turn(u, {"prepare", "blocked"}, "lock") /\ op[u].kind = "wait"
     \/ Turn(u, {"prepare", "blocked"}, "test") /\ op[u].kind \notin {"poll", "wait"}
     \/ Turn(u, {"commit"}, "blocked")
     \/ Turn(u, {"commit", "scan"}, "release") /\ op[u].kind # "poll"
     \/ Turn(u, {"test"}, "release") /\ op[u].kind \in Transfers
     \/ Turn(u, {"commit"}, "unwatch") /\ op[u].kind = "poll"
     \/ Turn(u, {"scan"}, "unwatch") /\ op[u].kind = "poll"
     \/ Turn(u, {"test"}, "wake") /\ op[u].kind = "read"
     \/ Turn(u, {"test"}, "commit") /\ op[u].kind \in Transfers
     \/ Turn(u, {"wake"}, "notify_r") \/ Turn(u, {"notify_r"}, "notify_w")
     \/ Turn(u, {"notify_w"}, op[u].then)
     \/ Turn(u, {"detach"}, "drop")
     \/ Turn(u, {"watch"}, "prepare") /\ op[u].left = {}
     \/ Turn(u, {"query"}, "unwatch") /\ op[u].left = {} /\ op[u].kind = "poll"
     \/ Turn(u, {"query"}, "release") /\ op[u].left = {} /\ op[u].kind # "poll"
     \/ Turn(u, {"query"}, "commit") /\ op[u].left = {} /\ ~ op[u].hit
     \/ Turn(u, {"control", "look"}, "release")
     \/ Turn(u, {"lock"}, "scan") \/ Turn(u, {"scan"}, "commit")

Starts(u) ==
  /\ op'[u] \in Ops[u] /\ pc[u] = "user" /\ destroyed' = destroyed
  /\ \/ op'[u].kind \in {"read", "write", "wait"} /\ pc'[u] = "prepare" /\ fds' = fds
        /\ op'[u].end \in fds /\ refs' = [refs EXCEPT ![op'[u].end] = @ + 1]
     \/ op'[u].kind = "close" /\ pc'[u] = "release" /\ refs' = refs
        /\ op'[u].end \in fds /\ fds' = fds \ {op'[u].end}
     \/ op'[u].kind = "poll" /\ pc'[u] = "watch" /\ refs' = refs /\ fds' = fds
     \/ op'[u].kind = "ctl" /\ pc'[u] = "control" /\ fds' = fds
        /\ {op'[u].end, Ep} \subseteq fds
        /\ refs' = [refs EXCEPT ![op'[u].end] = @ + 1, ![Ep] = @ + 1]

\* After a release: the call goes on or is over.
Back(u) ==
  \/ op[u].back = "return" /\ pc'[u] = "user" /\ op'[u] = NoCall
  \/ op[u].back # "return" /\ pc'[u] = op[u].back /\ Steady(u)

Releases(u) ==
  /\ pc[u] = "release" /\ fds' = fds /\ destroyed' = destroyed
  /\ refs' = [refs EXCEPT ![op[u].end] = @ - 1]
  /\ \/ refs[op[u].end] > 1 /\ Back(u)
     \/ ~(refs[op[u].end] > 1) /\ Steady(u)
        /\ pc'[u] = IF op[u].end = Ep THEN "destroy" ELSE "detach"

Frees(u) ==
  /\ refs' = refs /\ fds' = fds
  /\ \/ pc[u] = "free" /\ destroyed' = destroyed \cup {op[u].end}
     \/ pc[u] = "destroy" /\ destroyed' = destroyed \cup {Ep}
  /\ Back(u)

\* The call goes on with these local variables and otherwise as it was.
Assigns(u, left, held, hit, end, back) ==
  /\ Args(op[u], op'[u]) /\ op'[u].done = op[u].done /\ op'[u].then = op[u].then
  /\ op'[u].left = left /\ op'[u].held = held /\ op'[u].hit = hit
  /\ op'[u].end = end /\ op'[u].back = back

Announces(u, done, then) ==
  /\ Args(op[u], op'[u]) /\ op'[u].done = done /\ op'[u].then = then
  /\ op'[u].left = op[u].left /\ op'[u].held = op[u].held /\ op'[u].hit = op[u].hit
  /\ op'[u].end = op[u].end /\ op'[u].back = op[u].back

Writes(u) ==
  LET remaining == op[u].size - op[u].done
      count == Least(Space, remaining)
  IN
  /\ SameRefs
  /\ Turn(u, {"test"}, "wake") /\ op[u].kind = "write" /\ Space >= Needed(op[u])
  /\ Announces(u, op[u].done + count, IF count = remaining THEN "release" ELSE "prepare")

Drops(u) ==
  SameRefs /\ Turn(u, {"drop"}, "wake") /\ Announces(u, op[u].done, "free")

Polls(u) ==
  LET c == op[u]
      e == Next1(c.left)
      f == Next1(c.held)
  IN
  \/ /\ Turn(u, {"prepare", "blocked"}, "query") /\ SameRefs /\ c.kind = "poll"
     /\ Assigns(u, c.entries, c.held, FALSE, c.end, c.back)
  \/ /\ Turn(u, {"watch"}, "watch") /\ c.left # {}
     /\ fds' = fds /\ destroyed' = destroyed
     /\ \/ /\ e \in fds /\ refs' = [refs EXCEPT ![e] = @ + 1]
           /\ Assigns(u, c.left \ {e}, c.held \cup {e}, c.hit, c.end, c.back)
        \/ /\ e \notin fds /\ refs' = refs
           /\ Assigns(u, c.left \ {e}, c.held, c.hit, c.end, c.back)
  \/ /\ Turn(u, {"query"}, "query") /\ SameRefs /\ c.left # {}
     /\ Assigns(u, c.left \ {e}, c.held, c.hit \/ e \notin c.held \/ Ready(e), c.end, c.back)
  \/ /\ Turn(u, {"unwatch"}, "release") /\ SameRefs /\ c.held # {}
     /\ Assigns(u, c.left, c.held \ {f}, c.hit, f, c.back)
  \/ Turn(u, {"unwatch"}, "user") /\ SameRefs /\ c.held = {} /\ op'[u] = NoCall

Pins(u) ==
  LET c == op[u]
      e == First(scan[u].left)
  IN
  \/ /\ Turn(u, {"put"}, "release") \/ Turn(u, {"report"}, "scan")
     /\ SameRefs /\ Assigns(u, c.left, c.held, c.hit, Ep, "return")
  \/ /\ Turn(u, {"scan"}, "look") /\ scan[u].left # {} /\ Alive(e) /\ refs[e] > 0
     /\ fds' = fds /\ destroyed' = destroyed /\ refs' = [refs EXCEPT ![e] = @ + 1]
     /\ Assigns(u, c.left, c.held, c.hit, e, "report")

Way(u) ==
  \/ Walk(u) \/ Starts(u) \/ Releases(u) \/ Frees(u) \/ Writes(u) \/ Drops(u)
  \/ Polls(u) \/ Pins(u)

\* Every step goes one of these ways.
LEMMA Ways ==
  ASSUME Shape, NEW u \in Thread, By(u)
  PROVE  Way(u)
<1> USE DEF Goto, Locals, Leave, At, Doing, Turn, SameRefs, descVars, Way
<1>0. /\ pc \in [Thread -> Labels] /\ op \in [Thread -> CallShape]
      /\ \A c : Alike(c, c)
  BY DEF Shape, Alike, Args
<1>00. op' = op => Steady(u)
  BY <1>0 DEF Steady
<1>1. CASE PipeStep(Step(u))
  <2>1. CASE PrepareWait(u)
    <3>1. pc[u] \in {"prepare", "blocked"} /\ SameRefs
      BY <2>1 DEF PrepareWait
    <3>2. CASE op[u].kind = "poll"
      <4>1. op'[u] = [op[u] EXCEPT !.left = op[u].entries, !.hit = FALSE]
        BY <1>0, <2>1, <3>2 DEF PrepareWait
      <4>2. Assigns(u, op[u].entries, op[u].held, FALSE, op[u].end, op[u].back)
        BY <1>0, <4>1, Fields DEF Assigns, Args
      <4> QED BY <1>0, <2>1, <3>1, <3>2, <4>2 DEF PrepareWait, Polls
    <3>3. CASE op[u].kind # "poll"
      BY <1>0, <1>00, <2>1, <3>1, <3>3 DEF PrepareWait, Walk
    <3> QED BY <3>2, <3>3
  <2>2. CASE CommitWait(u)
    BY <1>0, <1>00, <2>2 DEF CommitWait, Walk
  <2>3. CASE ReadTest(u)
    BY <1>0, <1>00, <2>3 DEF ReadTest, Walk, Transfers
  <2>4. CASE WriteTest(u)
    <3>1. CASE ~(ends["r"] # 0 /\ Space >= Needed(op[u]))
      BY <1>0, <1>00, <2>4, <3>1 DEF WriteTest, Walk, Transfers
    <3>2. CASE ends["r"] # 0 /\ Space >= Needed(op[u])
      <4> DEFINE remaining == op[u].size - op[u].done
                 count == Least(Space, remaining)
                 then == IF count = remaining THEN "release" ELSE "prepare"
      <4>1. op'[u] = [op[u] EXCEPT !.done = op[u].done + count, !.then = then]
        BY <1>0, <2>4, <3>2 DEF WriteTest
      <4>2. Announces(u, op[u].done + count, then)
        <5> HIDE DEF count, then
        <5> QED BY <1>0, <4>1, Fields DEF Announces, Args
      <4> QED BY <1>0, <2>4, <3>2, <4>2 DEF WriteTest, Writes
    <3> QED BY <3>1, <3>2
  <2>5. CASE ChangedWake(u) \/ ChangedNotify(u) \/ CloseDetach(u)
    BY <1>0, <1>00, <2>5 DEF ChangedWake, ChangedNotify, CloseDetach, Walk
  <2>6. CASE Release(u)
    BY <1>0, <1>00, <2>6 DEF Release, Releases, Back, GoBack, Return
  <2>7. CASE CloseDrop(u)
    <3>1. PICK g : op'[u] = [op[u] EXCEPT !.gone = g, !.then = "free"]
      BY <1>0, <2>7 DEF CloseDrop
    <3>2. Announces(u, op[u].done, "free")
      BY <1>0, <3>1, Fields DEF Announces, Args
    <3> QED BY <1>0, <2>7, <3>2 DEF CloseDrop, Drops
  <2>8. CASE CloseFree(u)
    BY <1>0, <1>00, <2>8 DEF CloseFree, Frees, Back, GoBack, Return
  <2>9. CASE PollWatch(u)
    <3>1. CASE op[u].left = {}
      BY <1>0, <1>00, <2>9, <3>1 DEF PollWatch, Walk
    <3>2. CASE op[u].left # {}
      <4> DEFINE e == Next1(op[u].left)
      <4>1. CASE e \in fds
        <5>1. op'[u] = [op[u] EXCEPT !.left = op[u].left \ {e}, !.held = op[u].held \cup {e}]
          BY <1>0, <2>9, <3>2, <4>1 DEF PollWatch
        <5>2. Assigns(u, op[u].left \ {e}, op[u].held \cup {e}, op[u].hit, op[u].end, op[u].back)
          <6> HIDE DEF e
          <6> QED BY <1>0, <5>1, Fields DEF Assigns, Args
        <5> QED BY <1>0, <2>9, <3>2, <4>1, <5>2 DEF PollWatch, Polls, Lookup
      <4>2. CASE e \notin fds
        <5>1. op'[u] = [op[u] EXCEPT !.left = op[u].left \ {e}]
          BY <1>0, <2>9, <3>2, <4>2 DEF PollWatch
        <5>2. Assigns(u, op[u].left \ {e}, op[u].held, op[u].hit, op[u].end, op[u].back)
          <6> HIDE DEF e
          <6> QED BY <1>0, <5>1, Fields DEF Assigns, Args
        <5> QED BY <1>0, <2>9, <3>2, <4>2, <5>2 DEF PollWatch, Polls
      <4> QED BY <4>1, <4>2
    <3> QED BY <3>1, <3>2
  <2>10. CASE PollQuery(u)
    <3>1. CASE op[u].left = {}
      BY <1>0, <1>00, <2>10, <3>1 DEF PollQuery, Walk
    <3>2. CASE op[u].left # {}
      <4> DEFINE e == Next1(op[u].left)
                 h == op[u].hit \/ e \notin op[u].held \/ Ready(e)
      <4>1. op'[u] = [op[u] EXCEPT !.left = op[u].left \ {e}, !.hit = h]
        BY <1>0, <2>10, <3>2 DEF PollQuery
      <4>2. Assigns(u, op[u].left \ {e}, op[u].held, h, op[u].end, op[u].back)
        <5> HIDE DEF e, h
        <5> QED BY <1>0, <4>1, Fields DEF Assigns, Args
      <4>3. pc'[u] = "query" /\ pc[u] = "query" /\ SameRefs
        BY <1>0, <2>10, <3>2 DEF PollQuery
      <4> QED BY <3>2, <4>2, <4>3 DEF Polls
    <3> QED BY <3>1, <3>2
  <2>11. CASE PollUnwatch(u)
    <3>1. CASE op[u].held = {}
      BY <1>0, <2>11, <3>1 DEF PollUnwatch, Polls, Return
    <3>2. CASE op[u].held # {}
      <4> DEFINE f == Next1(op[u].held)
      <4>1. op'[u] = [op[u] EXCEPT !.held = op[u].held \ {f}, !.end = f]
        BY <1>0, <2>11, <3>2 DEF PollUnwatch
      <4>2. Assigns(u, op[u].left, op[u].held \ {f}, op[u].hit, f, op[u].back)
        <5> HIDE DEF f
        <5> QED BY <1>0, <4>1, Fields DEF Assigns, Args
      <4> QED BY <1>0, <2>11, <3>2, <4>2 DEF PollUnwatch, Polls
    <3> QED BY <3>1, <3>2
  <2> QED BY <1>1, <2>1, <2>2, <2>3, <2>4, <2>5, <2>6, <2>7, <2>8, <2>9, <2>10, <2>11
          DEF PipeStep, Step
<1>2. CASE EpStep(u)
  <2>1. CASE Control(u)
    BY <1>0, <1>00, <2>1 DEF Control, Walk
  <2>2. CASE PutInstance(u) \/ ScanReport(u)
    <3>1. op'[u] = [op[u] EXCEPT !.end = Ep, !.back = "return"]
      BY <1>0, <2>2 DEF PutInstance, ScanReport
    <3>2. Assigns(u, op[u].left, op[u].held, op[u].hit, Ep, "return")
      BY <1>0, <3>1, Fields DEF Assigns, Args
    <3> QED BY <1>0, <2>2, <3>2 DEF PutInstance, ScanReport, Pins
  <2>3. CASE WaitLock(u) \/ ScanEnd(u) \/ ScanLook(u)
    BY <1>0, <1>00, <2>3 DEF WaitLock, ScanEnd, ScanLook, Walk
  <2>4. CASE ScanPin(u)
    <3>1. CASE op' = op /\ pc' = pc /\ refs' = refs
      BY <1>00, <2>4, <3>1 DEF ScanPin, Walk
    <3>2. CASE ~(op' = op /\ pc' = pc /\ refs' = refs)
      <4> DEFINE e == First(scan[u].left)
      <4>1. op'[u] = [op[u] EXCEPT !.end = e, !.back = "report"]
        BY <1>0, <2>4, <3>2 DEF ScanPin
      <4>2. Assigns(u, op[u].left, op[u].held, op[u].hit, e, "report")
        <5> HIDE DEF e
        <5> QED BY <1>0, <4>1, Fields DEF Assigns, Args
      <4> QED BY <1>0, <2>4, <3>2, <4>2 DEF ScanPin, ScanOver, Pins
    <3> QED BY <3>1, <3>2
  <2>5. CASE Destroy(u)
    BY <1>0, <1>00, <2>5 DEF Destroy, Frees, Back, GoBack, Return
  <2> QED BY <1>2, <2>1, <2>2, <2>3, <2>4, <2>5 DEF EpStep
<1>3. CASE PipeStep(Begin(u)) \/ EpBegin(u)
  <2>1. PICK c \in Ops[u] :
          BeginRead(u, c) \/ BeginWrite(u, c) \/ BeginClose(u, c) \/ BeginPoll(u, c)
          \/ BeginCtl(u, c) \/ BeginWait(u, c)
    BY <1>3 DEF PipeStep, Begin, EpBegin
  <2>2. c \in Calls /\ Fresh(c)
    BY PipeAssumption
  <2>3. CASE BeginRead(u, c) \/ BeginWrite(u, c) \/ BeginWait(u, c)
    BY <1>0, <2>2, <2>3 DEF BeginRead, BeginWrite, BeginWait, Enter, Lookup, Fresh, Starts
  <2>4. CASE BeginClose(u, c) \/ BeginPoll(u, c) \/ BeginCtl(u, c)
    BY <1>0, <2>2, <2>4 DEF BeginClose, BeginPoll, BeginCtl, Enter, Fresh, Starts
  <2> QED BY <2>1, <2>3, <2>4
<1>4. CASE PipeStep(Disturb(u))
  <2>1. Alike(op[u], [op[u] EXCEPT !.timeout = "over"])
    BY <1>0, Fields
  <2> QED BY <1>0, <1>00, <1>4, <2>1 DEF PipeStep, Disturb, Interrupt, Deadline, Walk, Steady
<1> QED BY <1>1, <1>2, <1>3, <1>4 DEF By

-----------------------------------------------------------------------------
(* Where each kind of call can be.                                         *)

Announcing == {"wake", "notify_r", "notify_w"}

\* The last reference on the call's description has gone.
Closing(t) ==
  \/ pc[t] \in {"detach", "drop", "free", "destroy"}
  \/ pc[t] \in Announcing /\ op[t].then = "free"

\* Between taking hold of a description for good and having released it.
Letting(t) == pc[t] = "release" \/ Closing(t)

Stage(t) ==
  LET c == op[t] p == pc[t] IN
  /\ p = "user" => c.kind = "none"
  /\ c.kind = "none" => p = "user" /\ c.held = {} /\ c.back = "return"
  /\ c.kind \in Transfers =>
       /\ p \in Looping \cup Announcing \/ Letting(t)
       /\ c.back = "return" /\ c.held = {} /\ c.end \in End
       /\ p \in Looping => c.then # "free"
  /\ c.kind = "close" => Letting(t) /\ c.back = "return" /\ c.held = {}
  /\ c.kind = "poll" =>
       /\ p \in {"watch", "prepare", "query", "commit", "blocked", "unwatch"} \/ Letting(t)
       /\ c.back = "unwatch" /\ c.held \subseteq c.entries /\ c.left \subseteq c.entries
       /\ p = "watch" => c.held \cap c.left = {}
       /\ Letting(t) => c.end \in End \ c.held
  /\ c.kind = "ctl" =>
       /\ p \in {"control", "put"} \/ Letting(t)
       /\ c.held = {} /\ c.back \in {"put", "return"}
       /\ IF c.back = "put" THEN c.end \in End ELSE c.end = Ep /\ p \notin {"control", "put"}
  /\ c.kind = "wait" =>
       /\ p \in {"prepare", "lock", "scan", "commit", "blocked", "look", "report"} \/ Letting(t)
       /\ c.held = {} /\ c.back \in {"report", "return"} /\ c.max > 0
       /\ IF c.back = "report" THEN c.end \in End /\ (p \in {"look", "report"} \/ Letting(t))
          ELSE c.end = Ep /\ p \notin {"look", "report"}
  /\ p \in {"detach", "drop", "free"} \cup Announcing => c.end \in End
  /\ p = "destroy" => c.end = Ep

\* A scan goes on with an interest it has not visited.
LEMMA FirstOfLeft == \A left : left # {} => First(left) \in left
BY DEF First

\* Each way keeps a call where its kind can be.
LEMMA LocalKeeps ==
  ASSUME Shape, NEW u \in Thread, Stage(u), Progress(u), len \in 0 .. CAPACITY,
         Way(u), ScanShape
  PROVE  Stage(u)' /\ Progress(u)'
<1>0. /\ op[u] \in CallShape /\ pc[u] \in Labels
      /\ op[u].kind \in Kinds /\ op[u].size \in Nat /\ op[u].done \in Int
      /\ op[u].left \in SUBSET End /\ op[u].held \in SUBSET End /\ op[u].entries \in SUBSET End
      /\ op[u].then \in {"release", "prepare", "free"}
      /\ op[u].back \in {"return", "unwatch", "put", "report"} /\ op[u].end \in Desc
  BY DEF Shape, CallShape
<1>1. CASE Walk(u)
  BY <1>0, <1>1 DEF Walk, Steady, Alike, Args, Turn, Stage, Progress, Letting, Closing, Looping,
     Announcing, Transfers, Kinds
<1>2. CASE Starts(u)
  <2>1. op'[u] \in Calls /\ Fresh(op'[u])
    BY <1>2, PipeAssumption DEF Starts
  <2>2. /\ op'[u].size \in Nat /\ op'[u].left \in SUBSET End /\ op'[u].entries \in SUBSET End
        /\ op'[u].end \in Desc
    BY <2>1 DEF Calls
  <2> QED BY <1>2, <2>1, <2>2 DEF Starts, Fresh, End, Desc, Ep, Stage, Progress, Letting,
     Closing, Looping, Announcing, Transfers, Kinds
<1>3. CASE Back(u) /\ (Releases(u) \/ Frees(u))
  BY SMTT(30), <1>0, <1>3 DEF Releases, Frees, Back, NoCall, Steady, Alike, Args, Stage, Progress,
     Letting, Closing, Looping, Announcing, Transfers, Kinds
<1>4. CASE Releases(u) /\ ~Back(u)
  BY <1>0, <1>4 DEF Releases, Steady, Alike, Args, Desc, Stage, Progress, Letting, Closing,
     Looping, Announcing, Transfers, Kinds
<1>5. CASE Writes(u)
  BY <1>0, <1>5, PipeAssumption DEF Writes, Announces, Turn, Args, Least, Space, Needed,
     Stage, Progress, Letting, Closing, Looping, Announcing, Transfers, Kinds
<1>6. CASE Drops(u)
  BY <1>0, <1>6 DEF Drops, Announces, Turn, Args, Stage, Progress, Letting, Closing, Looping,
     Announcing, Transfers, Kinds
<1>7. CASE Polls(u)
  <2>1. /\ op[u].left # {} => Next1(op[u].left) \in op[u].left
        /\ op[u].held # {} => Next1(op[u].held) \in op[u].held
    BY <1>0 DEF Next1, End
  <2> QED BY SMTT(30), <1>0, <1>7, <2>1 DEF Polls, Assigns, Turn, Args, NoCall, Stage, Progress,
     Letting, Closing, Looping, Announcing, Transfers, Kinds
<1>8. CASE Pins(u)
  <2>1. scan[u].left # {} => First(scan[u].left) \in End
    BY FirstOfLeft DEF ScanShape, Scans
  <2> QED BY <1>0, <1>8, <2>1 DEF Pins, Assigns, Turn, Args, Stage, Progress, Letting,
     Closing, Looping, Announcing, Transfers, Kinds
<1> QED BY <1>1, <1>2, <1>3, <1>4, <1>5, <1>6, <1>7, <1>8 DEF Way, Frees

\* What is left of the queue after a read is still made of whole small writes.
LEMMA ReadKeepsWhole ==
  ASSUME Ring, WritesWhole, NEW count \in 0 .. len,
         queue' = SubSeq(queue, count + 1, Len(queue))
  PROVE  WritesWhole'
<1>1. len \in Nat /\ len = Len(queue) /\ queue \in Seq(Bytes)
  BY DEF Ring, RingIsQueue
<1>2. Len(queue') = len - count /\ \A i \in 1 .. len - count : queue'[i] = queue[count + i]
  BY <1>1
<1>3. ASSUME NEW i \in 1 .. Len(queue'),
             queue'[i].of <= ATOMIC_WRITE, queue'[i].at < queue'[i].of
      PROVE  i < Len(queue') /\ queue'[i + 1] = Byte(queue'[i].by, queue'[i].at + 1, queue'[i].of)
  <2>1. count + i \in 1 .. Len(queue) /\ queue'[i] = queue[count + i]
    BY <1>1, <1>2
  <2>2. /\ count + i < Len(queue)
        /\ queue[count + i + 1] = Byte(queue'[i].by, queue'[i].at + 1, queue'[i].of)
    BY <1>3, <2>1 DEF WritesWhole
  <2>3. i < Len(queue') /\ i + 1 \in 1 .. len - count
    BY <1>1, <1>2, <2>1, <2>2
  <2>4. PICK j \in 1 .. len - count : j = i + 1
    BY <2>3
  <2>5. queue'[j] = queue[count + j]
    BY <1>2
  <2>6. count + j = count + i + 1
    BY <2>4
  <2> QED BY <2>2, <2>3, <2>4, <2>5, <2>6
<1> QED BY <1>3 DEF WritesWhole

\* A small write goes in whole: it has waited for all the room it needs, and has
\* not begun before.
LEMMA FillKeepsWhole ==
  ASSUME Ring, WritesWhole, NEW u \in Thread, NEW count \in Nat,
         NEW size \in Nat, NEW done \in Nat,
         size <= ATOMIC_WRITE => done + count = size,
         Len(queue') = len + count,
         \A i \in 1 .. len : queue'[i] = queue[i],
         \A k \in 1 .. count : queue'[len + k] = Byte(u, done + k, size)
  PROVE  WritesWhole'
<1>1. len \in Nat /\ len = Len(queue) /\ queue \in Seq(Bytes)
  BY DEF Ring, RingIsQueue
<1>2. ASSUME NEW i \in 1 .. Len(queue'),
             queue'[i].of <= ATOMIC_WRITE, queue'[i].at < queue'[i].of
      PROVE  i < Len(queue') /\ queue'[i + 1] = Byte(queue'[i].by, queue'[i].at + 1, queue'[i].of)
  <2>1. CASE i <= len
    <3>1. i \in 1 .. len /\ queue'[i] = queue[i]
      BY <1>1, <2>1
    <3>2. i < len /\ queue[i + 1] = Byte(queue'[i].by, queue'[i].at + 1, queue'[i].of)
      BY <1>1, <1>2, <3>1 DEF WritesWhole
    <3>3. queue'[i + 1] = queue[i + 1] /\ i < len + count
      BY <1>1, <3>1, <3>2
    <3> QED BY <3>2, <3>3
  <2>2. CASE i > len
    <3>1. PICK k \in 1 .. count : i = len + k
      <4>1. i - len \in 1 .. count /\ i = len + (i - len)
        BY <1>1, <2>2
      <4> QED BY <4>1
    <3>2. queue'[i] = Byte(u, done + k, size)
      BY <3>1
    <3>3. queue'[i].by = u /\ queue'[i].at = done + k /\ queue'[i].of = size
      BY <3>2 DEF Byte
    <3>4. done + k < size /\ done + count = size
      BY <1>2, <3>3
    <3>5. k + 1 \in 1 .. count
      BY <3>4
    <3>6. queue'[len + (k + 1)] = Byte(u, done + (k + 1), size)
      BY <3>5
    <3>7. len + (k + 1) = i + 1 /\ done + (k + 1) = done + k + 1 /\ i < len + count
      BY <1>1, <3>1, <3>5
    <3> QED BY <3>3, <3>6, <3>7
  <2> QED BY <1>1, <2>1, <2>2
<1> QED BY <1>2 DEF WritesWhole

\* Only read and write touch the ring.
LEMMA RingKeeps ==
  ASSUME Shape, Ring, WritesWhole, NEW u \in Thread, Progress(u), By(u)
  PROVE  Ring' /\ WritesWhole'
<1>0. /\ op[u].size \in Nat /\ op[u].done \in Int /\ len \in 0 .. CAPACITY
      /\ CAPACITY \in Nat
  BY PipeAssumption DEF Shape, CallShape, Ring
<1>1. CASE UNCHANGED <<buffer, head, len, queue>>
  BY <1>1 DEF Ring, RingIsQueue, WritesWhole
<1>2. CASE ReadTest(u) /\ len > 0
  <2> DEFINE count == Least(op[u].size, len)
  <2>1. count \in 0 .. len
    BY <1>0 DEF Least
  <2>2. /\ head' = (head + count) % CAPACITY /\ len' = len - count
        /\ queue' = SubSeq(queue, count + 1, Len(queue)) /\ buffer' = buffer
    BY <1>0, <1>2 DEF ReadTest
  <2> HIDE DEF count
  <2> QED BY <2>1, <2>2, ReadKeepsRing, ReadKeepsWhole
<1>3. CASE WriteTest(u) /\ ends["r"] # 0 /\ Space >= Needed(op[u])
  <2> DEFINE count == Least(Space, op[u].size - op[u].done)
  <2>1. /\ op[u].done \in 0 .. op[u].size /\ op[u].kind = "write"
        /\ op[u].size <= ATOMIC_WRITE => op[u].done = 0
    BY <1>3 DEF Progress, WriteTest, At, Doing, Looping
  <2>2. /\ count \in 0 .. CAPACITY - len
        /\ op[u].size <= ATOMIC_WRITE => op[u].done + count = op[u].size
    BY <1>0, <1>3, <2>1 DEF Least, Space, Needed
  <2>3. Fill(u, count) /\ head' = head
    BY <1>3 DEF WriteTest
  <2> HIDE DEF count
  <2>4. /\ Ring' /\ Len(queue') = len + count
        /\ \A i \in 1 .. len : queue'[i] = queue[i]
        /\ \A k \in 1 .. count : queue'[len + k] = Byte(u, op[u].done + k, op[u].size)
    BY <1>0, <2>2, <2>3, FillKeepsRing
  <2>5. op[u].done \in Nat /\ count \in Nat
    BY <1>0, <2>1, <2>2
  <2> QED BY <1>0, <2>2, <2>4, <2>5, FillKeepsWhole
<1>4. \/ UNCHANGED <<buffer, head, len, queue>>
      \/ ReadTest(u) /\ len > 0
      \/ WriteTest(u) /\ ends["r"] # 0 /\ Space >= Needed(op[u])
  <2> USE DEF pipeVars
  <2>1. CASE PipeStep(Step(u))
    BY <1>0, <2>1 DEF PipeStep, Step, PrepareWait, CommitWait, ReadTest, WriteTest, ChangedWake,
       ChangedNotify, Release, CloseDetach, CloseDrop, CloseFree, PollWatch, PollQuery,
       PollUnwatch
  <2>2. CASE EpStep(u)
    BY <2>2 DEF EpStep, Control, PutInstance, WaitLock, ScanEnd, ScanPin, ScanLook,
       ScanReport, Destroy
  <2>3. CASE PipeStep(Begin(u)) \/ EpBegin(u) \/ PipeStep(Disturb(u))
    BY <2>3 DEF PipeStep, Begin, EpBegin, BeginRead, BeginWrite, BeginClose, BeginPoll,
       BeginCtl, BeginWait, Disturb, Interrupt, Deadline
  <2> QED BY <2>1, <2>2, <2>3 DEF By
<1> QED BY <1>1, <1>2, <1>3, <1>4

-----------------------------------------------------------------------------
(* References.                                                             *)

Holders(d) == {t \in Thread : d \in Holds(t)}
Has(u, d) == IF d \in Holds(u) THEN 1 ELSE 0
Fd(d) == IF d \in fds THEN 1 ELSE 0

Account ==
  /\ refs \in [Desc -> Nat] /\ fds \subseteq Desc
  /\ \A d \in Desc : refs[d] = Cardinality(Holders(d)) + Fd(d)

\* What a thread holds depends on its own call alone.
LEMMA OwnHold ==
  ASSUME NEW t \in Thread, pc'[t] = pc[t], op'[t] = op[t]
  PROVE  Holds(t)' = Holds(t)
BY DEF Holds, At, Doing

\* The holders of a description are counted one by one.
LEMMA Counting ==
  ASSUME NEW u \in Thread, NEW d, Others(u)
  PROVE  /\ Cardinality(Holders(d)) \in Nat /\ Cardinality(Holders(d)') \in Nat
         /\ Cardinality(Holders(d)) >= Has(u, d)
         /\ Cardinality(Holders(d)') = Cardinality(Holders(d)) + Has(u, d)' - Has(u, d)
<1>1. IsFiniteSet(Thread)
  BY ThreadAssumption
<1> DEFINE rest == {t \in Thread \ {u} : d \in Holds(t)}
<1>2. IsFiniteSet(rest) /\ u \notin rest
  BY <1>1, FS_Subset
<1>3. \A t \in Thread \ {u} : Holds(t)' = Holds(t)
  BY OwnHold DEF Others
<1>4. /\ Holders(d) = IF d \in Holds(u) THEN rest \cup {u} ELSE rest
      /\ Holders(d)' = IF d \in Holds(u)' THEN rest \cup {u} ELSE rest
  BY <1>3 DEF Holders
<1>5. /\ Cardinality(rest \cup {u}) = Cardinality(rest) + 1
      /\ Cardinality(rest) \in Nat
  BY <1>2, FS_AddElement, FS_CardinalityType
<1> HIDE DEF rest
<1> QED BY <1>4, <1>5 DEF Has

\* A thread has a reference for each description it holds, and every step of it
\* keeps the books.
LEMMA Balance ==
  ASSUME Shape, ScanShape, NEW u \in Thread, Stage(u), Stage(u)', Way(u),
         refs \in [Desc -> Nat], fds \subseteq Desc,
         \A d \in Desc : refs[d] >= Has(u, d),
         NEW d \in Desc
  PROVE  refs'[d] + Has(u, d) + Fd(d) = refs[d] + Has(u, d)' + Fd(d)'
<1>0. /\ op[u] \in CallShape /\ pc[u] \in Labels
      /\ op[u].kind \in Kinds
      /\ op[u].left \in SUBSET End /\ op[u].held \in SUBSET End /\ op[u].entries \in SUBSET End
      /\ op[u].then \in {"release", "prepare", "free"}
      /\ op[u].back \in {"return", "unwatch", "put", "report"} /\ op[u].end \in Desc
      /\ refs[d] \in Nat
  BY DEF Shape, CallShape
<1> USE DEF Has, Fd, Holds, At, Doing
<1>1. CASE Walk(u)
  BY <1>0, <1>1 DEF Walk, Steady, Alike, Args, Turn, SameRefs, Stage, Letting, Closing, Looping,
     Announcing, Transfers, Kinds
<1>2. CASE Starts(u)
  <2>1. op'[u] \in Calls /\ Fresh(op'[u])
    BY <1>2, PipeAssumption DEF Starts
  <2>2. op'[u].end \in Desc /\ op'[u].held = {} /\ op'[u].then = "release" /\ Ep \in Desc
    BY <2>1 DEF Calls, Fresh, Desc
  <2> QED BY <1>0, <1>2, <2>1, <2>2 DEF Starts, Fresh, End, Ep, Stage, Letting, Closing,
     Looping, Announcing, Transfers, Kinds
<1>3. CASE Releases(u) /\ Back(u)
  BY <1>0, <1>3 DEF Releases, Back, NoCall, End, Ep, Steady, Alike, Args, Stage, Letting,
     Closing, Looping, Announcing, Transfers, Kinds
<1>4. CASE Releases(u) /\ ~Back(u)
  BY <1>0, <1>4 DEF Releases, End, Ep, Steady, Alike, Args, Stage, Letting, Closing, Looping,
     Announcing, Transfers, Kinds
<1>5. CASE Frees(u)
  BY <1>0, <1>5 DEF Frees, Back, NoCall, Steady, Alike, Args, Stage, Letting, Closing, Looping,
     Announcing, Transfers, Kinds
<1>6. CASE Writes(u) \/ Drops(u)
  BY <1>0, <1>6 DEF Writes, Drops, Announces, SameRefs, Turn, Args, Stage, Letting, Closing,
     Looping, Announcing, Transfers, Kinds
<1>7. CASE Polls(u)
  <2>1. /\ op[u].left # {} => Next1(op[u].left) \in op[u].left
        /\ op[u].held # {} => Next1(op[u].held) \in op[u].held
    BY <1>0 DEF Next1, End
  <2> QED BY SMTT(30), <1>0, <1>7, <2>1 DEF Polls, Assigns, SameRefs, Turn, Args, NoCall, Desc, Stage,
     Letting, Closing, Looping, Announcing, Transfers, Kinds
<1>8. CASE Pins(u)
  <2>1. scan[u].left # {} => First(scan[u].left) \in End
    BY FirstOfLeft DEF ScanShape, Scans
  <2> QED BY <1>0, <1>8, <2>1 DEF Pins, Assigns, SameRefs, Turn, Args, Desc, End, Ep, Stage,
     Letting, Closing, Looping, Announcing, Transfers, Kinds
<1> QED BY <1>1, <1>2, <1>3, <1>4, <1>5, <1>6, <1>7, <1>8 DEF Way

\* The accounts are kept by every step.
LEMMA AccountKeeps ==
  ASSUME Shape, ScanShape, Account, NEW u \in Thread, Others(u), Stage(u), Stage(u)', Way(u)
  PROVE  /\ Account'
         /\ \A d \in Desc : refs[d] >= Has(u, d) /\ (d \in fds => refs[d] > 0)
         /\ \A d \in Desc : refs[d] = 0 => refs'[d] = 0
<1>1. refs \in [Desc -> Nat] /\ fds \subseteq Desc
  BY DEF Account
<1>2. \A d \in Desc : refs[d] >= Has(u, d) /\ (d \in fds => refs[d] > 0)
  <2> TAKE d \in Desc
  <2> DEFINE n == Cardinality(Holders(d))
  <2>1. n \in Nat /\ n >= Has(u, d) /\ refs[d] = n + Fd(d)
    BY Counting DEF Account
  <2> HIDE DEF n
  <2> QED BY <2>1 DEF Fd, Has
<1>3. op[u].end \in Desc /\ Next1(op[u].left) \in Desc
  BY DEF Shape, CallShape, Next1, End, Desc
<1>4. /\ refs' \in [Desc -> Int] /\ fds' \subseteq Desc
      /\ \A d \in Desc : refs[d] = 0 => refs'[d] = 0
  <2>1. CASE Walk(u) \/ Frees(u) \/ Writes(u) \/ Drops(u)
    BY <1>1, <2>1 DEF Walk, Frees, Writes, Drops, SameRefs
  <2>2. CASE Starts(u)
    <3>1. op'[u] \in Calls /\ op'[u].end \in Desc
      BY <2>2, PipeAssumption DEF Starts, Calls
    <3> QED BY <1>1, <1>2, <2>2, <3>1 DEF Starts
  <2>3. CASE Releases(u)
    <3>1. Has(u, op[u].end) = 1
      BY <2>3 DEF Releases, Has, Holds, At
    <3> QED BY <1>1, <1>2, <1>3, <2>3, <3>1 DEF Releases
  <2>4. CASE Polls(u)
    <3> DEFINE e == Next1(op[u].left)
    <3>1. fds' = fds /\ (refs' = refs \/ (e \in fds /\ refs' = [refs EXCEPT ![e] = @ + 1]))
      BY <2>4 DEF Polls, SameRefs
    <3> HIDE DEF e
    <3> QED BY <1>1, <1>2, <3>1
  <2>5. CASE Pins(u)
    BY <1>1, <2>5 DEF Pins, SameRefs
  <2> QED BY <2>1, <2>2, <2>3, <2>4, <2>5 DEF Way
<1>5. ASSUME NEW d \in Desc
      PROVE  refs'[d] = Cardinality(Holders(d)') + Fd(d)' /\ refs'[d] \in Nat
  <2> DEFINE n == Cardinality(Holders(d))
             m == Cardinality(Holders(d)')
  <2>1. n \in Nat /\ m \in Nat /\ m = n + Has(u, d)' - Has(u, d) /\ refs[d] = n + Fd(d)
    BY Counting DEF Account
  <2>2. refs'[d] + Has(u, d) + Fd(d) = refs[d] + Has(u, d)' + Fd(d)'
    BY <1>1, <1>2, Balance
  <2>3. Has(u, d) \in Nat /\ Has(u, d)' \in Nat /\ Fd(d) \in Nat /\ Fd(d)' \in Nat
    BY DEF Has, Fd
  <2>4. refs'[d] \in Int
    BY <1>4
  <2> HIDE DEF n
  <2>5. refs'[d] = m + Fd(d)'
    <3> HIDE DEF m
    <3>1. PICK a \in Nat, b \in Nat, f \in Nat, g \in Nat :
            a = Has(u, d) /\ b = Has(u, d)' /\ f = Fd(d) /\ g = Fd(d)'
      BY <2>3
    <3>2. m = n + b - a /\ refs[d] = n + f /\ refs'[d] + a + f = refs[d] + b + g
      BY <2>1, <2>2, <3>1
    <3>3. refs'[d] = m + g
      BY <2>1, <2>4, <3>2
    <3> QED BY <3>1, <3>3
  <2> QED BY <2>1, <2>3, <2>5
<1>6. Account'
  BY <1>4, <1>5 DEF Account
<1> QED BY <1>2, <1>4, <1>6

\* Where nothing refers to a description any more: it stays so, and once the
\* watchers have been told of it nothing watches it.
Gone ==
  /\ attached \subseteq Watcher /\ destroyed \subseteq Desc
  /\ \A d \in destroyed : refs[d] = 0
  /\ \A t \in Thread : Closing(t) => refs[op[t].end] = 0
  /\ \A t \in Thread :
       Closing(t) /\ pc[t] \notin {"detach", "destroy"} => \A w \in attached : w.on # op[t].end
  /\ \A w \in attached : w.on \notin destroyed /\ (w.owner = Ep => Ep \notin destroyed)

\* A watcher is attached only to what its owner has a reference on.
LEMMA Attaching ==
  ASSUME Shape, Account, NEW u \in Thread, Stage(u), By(u),
         \A d \in Desc : refs[d] >= Has(u, d) /\ (d \in fds => refs[d] > 0),
         NEW w \in attached', w \notin attached
  PROVE  w \in Watcher /\ refs[w.on] > 0 /\ (w.owner = Ep => refs[Ep] > 0)
<1>0. op[u].left \in SUBSET End /\ op[u].kind \in Kinds /\ refs \in [Desc -> Nat]
  BY DEF Shape, CallShape, Account
<1>1. CASE PollWatch(u)
  <2> DEFINE e == Next1(op[u].left)
  <2>1. e \in fds /\ e \in End /\ w = Entry(u, e)
    BY <1>0, <1>1 DEF PollWatch, AttachLocked, Next1, End
  <2>2. u # Ep
    BY ThreadAssumption
  <2> HIDE DEF e
  <2> QED BY <2>1, <2>2 DEF Entry, Watcher, Desc
<1>2. CASE Control(u)
  <2> DEFINE e == op[u].end
  <2>1. w = Interest(e)
    BY <1>2 DEF Control, Add, Mod, Del, Refused, AttachLocked, DetachLocked, readinessVars
  <2>2. e \in End /\ op[u].back = "put" /\ op[u].kind = "ctl"
    BY <1>0, <1>2 DEF Control, At, Stage, Letting, Closing, Looping, Announcing, Transfers,
       Kinds
  <2>3. Has(u, e) = 1 /\ Has(u, Ep) = 1
    BY <1>2, <2>2 DEF Has, Holds, Control, At, Doing
  <2> HIDE DEF e
  <2> QED BY <1>0, <2>1, <2>2, <2>3 DEF Interest, Entry, Watcher, Desc
<1>3. PollWatch(u) \/ Control(u)
  <2>1. CASE PipeStep(Step(u))
    BY <2>1 DEF PipeStep, Step, PrepareWait, CommitWait, ReadTest, WriteTest, ChangedWake,
       ChangedNotify, Release, CloseDetach, CloseDrop, CloseFree, PollQuery,
       PollUnwatch, Notify, DetachAll, DetachLocked, readinessVars
  <2>2. CASE EpStep(u)
    BY <2>2 DEF EpStep, PutInstance, WaitLock, ScanEnd, ScanPin, ScanLook,
       ScanReport, Destroy, DetachLocked, readinessVars
  <2>3. CASE PipeStep(Begin(u)) \/ EpBegin(u) \/ PipeStep(Disturb(u))
    BY <2>3 DEF PipeStep, Begin, EpBegin, BeginRead, BeginWrite, BeginClose, BeginPoll,
       BeginCtl, BeginWait, Disturb, Interrupt, Deadline, readinessVars
  <2> QED BY <2>1, <2>2, <2>3 DEF By
<1> QED BY <1>1, <1>2, <1>3

\* A description is freed after its last reference has gone, and by then no
\* watcher is attached to it.
LEMMA GoneKeeps ==
  ASSUME Shape, ScanShape, Account, Gone, NEW u \in Thread, Others(u), Stage(u), Stage(u)',
         Way(u), By(u)
  PROVE  Gone'
<1>1. /\ \A d \in Desc : refs[d] >= Has(u, d) /\ (d \in fds => refs[d] > 0)
      /\ \A d \in Desc : refs[d] = 0 => refs'[d] = 0
      /\ refs \in [Desc -> Nat]
  BY AccountKeeps DEF Account
<1>2. \A w \in attached' :
        w \in Watcher /\ (w \in attached \/ (refs[w.on] > 0 /\ (w.owner = Ep => refs[Ep] > 0)))
  BY <1>1, Attaching DEF Gone
<1>3. \A w \in Watcher : w.on \in End /\ (w.owner = Ep => w = Interest(w.on))
  BY DEF Watcher, Interest, Entry
<1>4. /\ op[u].kind \in Kinds /\ op[u].end \in Desc
      /\ op[u].then \in {"release", "prepare", "free"}
      /\ op[u].back \in {"return", "unwatch", "put", "report"}
  BY DEF Shape, CallShape
<1>5. /\ destroyed' = destroyed \/ (CloseFree(u) \/ Destroy(u))
      /\ pc[u] # "detach" \/ CloseDetach(u) \/ pc'[u] = "detach"
  <2> USE DEF descVars
  <2>1. CASE PipeStep(Step(u))
    BY <2>1 DEF PipeStep, Step, PrepareWait, CommitWait, ReadTest, WriteTest, ChangedWake,
       ChangedNotify, Release, CloseDrop, CloseFree, CloseDetach, PollWatch, PollQuery,
       PollUnwatch, At
  <2>2. CASE EpStep(u)
    BY <2>2 DEF EpStep, Control, PutInstance, WaitLock, ScanEnd, ScanPin, ScanLook,
       ScanReport, Destroy, At
  <2>3. CASE PipeStep(Begin(u)) \/ EpBegin(u) \/ PipeStep(Disturb(u))
    BY <2>3 DEF PipeStep, Begin, EpBegin, BeginRead, BeginWrite, BeginClose, BeginPoll,
       BeginCtl, BeginWait, Enter, Disturb, Interrupt, Deadline, At
  <2> QED BY <2>1, <2>2, <2>3 DEF By
<1>6. Closing(u)' =>
        \/ Closing(u) /\ op'[u].end = op[u].end
           /\ (pc[u] = pc'[u] \/ pc[u] # "destroy")
        \/ /\ pc'[u] = IF op'[u].end = Ep THEN "destroy" ELSE "detach"
           /\ op'[u].end = op[u].end /\ refs'[op[u].end] = 0
  <2>1. CASE Walk(u)
    BY <1>4, <2>1 DEF Walk, Steady, Alike, Turn, Closing, Announcing, Stage, Letting,
       Looping, Transfers, Kinds
  <2>2. CASE Starts(u) \/ Polls(u) \/ Pins(u)
    BY <2>2 DEF Starts, Polls, Pins, Turn, Closing, Announcing
  <2>3. CASE Releases(u)
    <3>1. Has(u, op[u].end) = 1
      BY <2>3 DEF Releases, Has, Holds, At
    <3> QED BY <1>1, <1>4, <2>3, <3>1 DEF Releases, Back, Steady, Alike, NoCall, Closing,
            Announcing
  <2>4. CASE Frees(u)
    BY <1>4, <2>4 DEF Frees, Back, Closing, Announcing
  <2>5. CASE Writes(u) \/ Drops(u)
    BY <1>4, <2>5 DEF Writes, Drops, Announces, Turn, Closing, Announcing
  <2> QED BY <2>1, <2>2, <2>3, <2>4, <2>5 DEF Way
<1>7. \A d \in destroyed' : d \in Desc /\ refs'[d] = 0 /\ refs[d] = 0
  <2>1. CASE destroyed' = destroyed
    BY <1>1, <2>1 DEF Gone
  <2>2. CASE CloseFree(u) \/ Destroy(u)
    <3>1. Closing(u) /\ destroyed' = destroyed \cup {op[u].end}
      BY <2>2 DEF CloseFree, Destroy, At, Closing, Stage
    <3> QED BY <1>1, <1>4, <3>1 DEF Gone
  <2> QED BY <1>5, <2>1, <2>2
<1>8. ASSUME NEW t \in Thread, Closing(t)'
      PROVE  /\ refs'[op'[t].end] = 0
             /\ pc'[t] \notin {"detach", "destroy"} => \A w \in attached' : w.on # op'[t].end
  <2>0. op[t].end \in Desc
    BY DEF Shape, CallShape
  <2>1. CASE t # u
    <3>1. Closing(t) /\ op'[t].end = op[t].end /\ pc'[t] = pc[t]
      BY <1>8, <2>1 DEF Others, Closing
    <3> QED BY <1>1, <1>2, <2>0, <3>1 DEF Gone
  <2>2. CASE t = u
    <3>1. refs'[op'[t].end] = 0
      BY <1>1, <1>6, <1>8, <2>0, <2>2 DEF Gone
    <3>2. ASSUME pc'[u] \notin {"detach", "destroy"}, NEW w \in attached', w.on = op'[u].end
          PROVE  FALSE
      <4>1. Closing(u) /\ op'[u].end = op[u].end /\ pc[u] # "destroy" /\ refs[op[u].end] = 0
        BY <1>6, <1>8, <2>2, <3>2 DEF Gone
      <4>2. w \in attached
        BY <1>1, <1>2, <3>2, <4>1
      <4>3. CASE pc[u] = "detach"
        BY <1>5, <3>2, <4>1, <4>2, <4>3 DEF CloseDetach, DetachAll, Watching
      <4> QED BY <3>2, <4>1, <4>2, <4>3 DEF Gone
    <3> QED BY <2>2, <3>1, <3>2
  <2> QED BY <2>1, <2>2
<1>9. ASSUME NEW w \in attached'
      PROVE  w.on \notin destroyed' /\ (w.owner = Ep => Ep \notin destroyed')
  <2>1. CASE w \notin attached
    BY <1>2, <1>7, <2>1
  <2>2. CASE w \in attached /\ destroyed' = destroyed
    BY <2>2 DEF Gone
  <2>3. CASE w \in attached /\ CloseFree(u)
    <3>1. pc[u] = "free" /\ destroyed' = destroyed \cup {op[u].end} /\ op[u].end \in End
      BY <2>3 DEF CloseFree, At, Stage
    <3>2. w.on # op[u].end
      BY <2>3, <3>1 DEF Gone, Closing
    <3> QED BY <2>3, <3>1, <3>2 DEF Gone, End, Ep
  <2>4. CASE w \in attached /\ Destroy(u)
    <3>1. destroyed' = destroyed \cup {Ep} /\ w \notin {Interest(e) : e \in End}
      BY <2>4 DEF Destroy, DetachLocked
    <3>2. w.on \in End /\ w.owner # Ep
      BY <1>2, <1>3, <3>1
    <3> QED BY <2>4, <3>1, <3>2 DEF Gone, End, Ep
  <2> QED BY <1>5, <2>1, <2>2, <2>3, <2>4
<1> QED BY <1>2, <1>7, <1>8, <1>9 DEF Gone

\* Nothing that a call holds, or a watcher is on, has been freed.
LEMMA NothingDangles ==
  ASSUME Account, Gone
  PROVE  NoDangling
<1>1. ASSUME NEW t \in Thread, NEW d \in Holds(t) \cap destroyed PROVE FALSE
  <2>1. d \in Desc /\ refs[d] = 0
    BY <1>1 DEF Gone
  <2>2. IsFiniteSet(Holders(d)) /\ t \in Holders(d)
    BY <1>1, ThreadAssumption, FS_Subset DEF Holders
  <2>3. Cardinality(Holders(d)) \in Nat /\ Cardinality(Holders(d)) # 0
    BY <2>2, FS_CardinalityType, FS_EmptySet
  <2>4. Cardinality(Holders(d)) + Fd(d) = 0 /\ Fd(d) \in Nat
    BY <2>1 DEF Account, Fd
  <2> HIDE DEF Holders
  <2> QED BY <2>3, <2>4
<1> QED BY <1>1 DEF NoDangling, Account, Gone, Holders, Fd

-----------------------------------------------------------------------------
(* The epoll lock and the scan under it.                                   *)

Scanning(t) == pc[t] \in {"scan", "look", "report"} \/ op[t].back = "report"

\* The lock is held by the thread that scans, and no one else; while that looks
\* at an interest, the interest is the first of those it has left.
Scanner ==
  /\ ScanShape /\ interests \subseteq End
  /\ \A t \in Thread : eplock = t <=> Scanning(t)
  /\ \A t \in Thread :
       op[t].back = "report" => scan[t].left # {} /\ op[t].end = First(scan[t].left)

\* What a step does to the lock, the list and its thread's scan.
ScanWay(u) ==
  \/ UNCHANGED <<interests, newest, eplock, scan>> /\ Scanning(u)' = Scanning(u)
     /\ (op'[u].back = "report" => op[u].back = "report" /\ op'[u].end = op[u].end)
     /\ (pc[u] \in {"lock", "scan", "look", "report"} => pc'[u] = pc[u])
  \/ Control(u) \/ Destroy(u) \/ WaitLock(u) \/ ScanEnd(u) \/ ScanPin(u) \/ ScanLook(u)
  \/ ScanReport(u)

\* These are all the ways.
LEMMA ScanWays ==
  ASSUME Shape, NEW u \in Thread, Stage(u), Stage(u)', Way(u), By(u)
  PROVE  ScanWay(u)
<1>0. op[u].kind \in Kinds /\ op[u].back \in {"return", "unwatch", "put", "report"}
      /\ op[u].then \in {"release", "prepare", "free"}
  BY DEF Shape, CallShape
<1>1. CASE Control(u) \/ Destroy(u) \/ WaitLock(u) \/ ScanEnd(u) \/ ScanPin(u) \/ ScanLook(u)
           \/ ScanReport(u)
  BY <1>1 DEF ScanWay
<1>2. CASE ~(Control(u) \/ Destroy(u) \/ WaitLock(u) \/ ScanEnd(u) \/ ScanPin(u) \/ ScanLook(u)
           \/ ScanReport(u))
  <2>1. \/ PipeStep(Step(u)) \/ PutInstance(u) \/ PipeStep(Begin(u)) \/ EpBegin(u)
        \/ PipeStep(Disturb(u))
    BY <1>2 DEF By, EpStep
  <2>2. UNCHANGED <<interests, newest, eplock, scan>>
    BY <2>1 DEF PipeStep, PutInstance, EpBegin, BeginCtl, BeginWait, epVars
  <2>3. CASE PipeStep(Disturb(u))
    <3>1. /\ op[u] \in CallShape /\ pc' = pc
          /\ op' = op \/ op' = [op EXCEPT ![u] = [op[u] EXCEPT !.timeout = "over"]]
      BY <2>3 DEF PipeStep, Disturb, Interrupt, Deadline, Locals, Shape
    <3>2. op'[u].back = op[u].back /\ op'[u].end = op[u].end
      <4>1. op'[u] = op[u] \/ op'[u] = [op[u] EXCEPT !.timeout = "over"]
        BY <3>1 DEF Shape
      <4>2. Alike(op[u], [op[u] EXCEPT !.timeout = "over"])
        BY <3>1, Fields
      <4> QED BY <4>1, <4>2 DEF Alike
    <3> QED BY <2>2, <3>1, <3>2 DEF ScanWay, Scanning
  <2>4. CASE PipeStep(Step(u)) \/ PutInstance(u) \/ PipeStep(Begin(u)) \/ EpBegin(u)
    <3>1. pc[u] \notin {"lock", "scan", "look", "report"}
      <4>1. CASE PipeStep(Step(u))
        BY <4>1 DEF PipeStep, Step, PrepareWait, CommitWait, ReadTest, WriteTest, ChangedWake,
           ChangedNotify, Release, CloseDrop, CloseFree, CloseDetach, PollWatch, PollQuery,
           PollUnwatch, At
      <4>2. CASE PutInstance(u) \/ PipeStep(Begin(u)) \/ EpBegin(u)
        BY <4>2 DEF PutInstance, PipeStep, Begin, EpBegin, BeginRead, BeginWrite, BeginClose,
           BeginPoll, BeginCtl, BeginWait, Enter, At
      <4> QED BY <2>4, <4>1, <4>2
    <3>2. /\ Scanning(u)' = Scanning(u)
          /\ op'[u].back = "report" => op[u].back = "report" /\ op'[u].end = op[u].end
      <4>1. CASE Walk(u)
        BY <1>0, <3>1, <4>1 DEF Walk, Steady, Alike, Turn, Scanning
      <4>2. CASE Starts(u)
        <5>1. Fresh(op'[u])
          BY <4>2, PipeAssumption DEF Starts
        <5> QED BY <1>0, <3>1, <4>2, <5>1 DEF Starts, Fresh, Scanning, Stage, Letting,
           Closing, Looping, Announcing, Transfers, Kinds
      <4>3. CASE Releases(u) \/ Frees(u)
        BY <1>0, <3>1, <4>3 DEF Releases, Frees, Back, Steady, Alike, NoCall, Scanning
      <4>4. CASE Writes(u) \/ Drops(u)
        BY <1>0, <3>1, <4>4 DEF Writes, Drops, Announces, Turn, Scanning
      <4>5. CASE Polls(u)
        BY <1>0, <3>1, <4>5 DEF Polls, Assigns, Turn, NoCall, Scanning, Stage, Letting,
           Closing, Looping, Announcing, Transfers, Kinds
      <4>6. CASE Pins(u)
        BY <1>0, <3>1, <4>6 DEF Pins, Assigns, Turn, Scanning, Stage, Letting, Closing, Looping,
       Announcing, Transfers, Kinds
      <4> QED BY <4>1, <4>2, <4>3, <4>4, <4>5, <4>6 DEF Way
    <3> QED BY <2>2, <3>1, <3>2 DEF ScanWay
  <2> QED BY <2>1, <2>3, <2>4
<1> QED BY <1>1, <1>2

\* Each keeps the lock with the thread that scans.
LEMMA ScannerKeeps ==
  ASSUME Shape, Scanner, NEW u \in Thread, Others(u), Stage(u), Stage(u)',
         \A t \in Thread \ {u} : scan'[t] = scan[t], By(u), Way(u)
  PROVE  Scanner'
<1>0. /\ op[u].kind \in Kinds /\ op[u] \in CallShape /\ scan \in [Thread -> Scans]
      /\ op \in [Thread -> CallShape] /\ pc \in [Thread -> Labels]
      /\ u # None
  BY ThreadAssumption DEF Shape, CallShape, Scanner, ScanShape
<1>1. ScanWay(u)
  BY ScanWays
<1>2. \A t \in Thread \ {u} : Scanning(t)' = Scanning(t) /\ op'[t] = op[t] /\ scan'[t] = scan[t]
  BY DEF Others, Scanning
<1>3. \A s \in SUBSET End, o \in SUBSET End, p \in BOOLEAN, r \in BOOLEAN :
        Scan(s, o, p, r) \in Scans
  BY DEF Scan, Scans
<1>4. \A s, o, p, r : Scan(s, o, p, r).left = s /\ Scan(s, o, p, r).out = o
        /\ Scan(s, o, p, r).pending = p /\ Scan(s, o, p, r).ready = r
  BY DEF Scan
<1>5. scan[u].left \in SUBSET End /\ scan[u].out \in SUBSET End /\ scan[u].pending \in BOOLEAN
  BY <1>0 DEF Scans
<1>6. \A e \in End : Ready(e) \in BOOLEAN
  BY DEF Ready
<1>7. CASE /\ UNCHANGED <<interests, newest, eplock, scan>> /\ Scanning(u)' = Scanning(u)
           /\ op'[u].back = "report" => op[u].back = "report" /\ op'[u].end = op[u].end
           /\ pc[u] \in {"lock", "scan", "look", "report"} => pc'[u] = pc[u]
  BY <1>0, <1>2, <1>7 DEF Scanner, ScanShape, First
<1>8. CASE Control(u)
  <2>1. eplock = None /\ eplock' = None /\ scan' = scan /\ op' = op
        /\ pc[u] = "control" /\ pc'[u] = "release"
    BY <1>0, <1>8 DEF Control, Goto, At
  <2>2. \A t \in Thread : ~ Scanning(t)
    BY <2>1, ThreadAssumption DEF Scanner
  <2>3. op[u].end \in End
    BY <1>0, <2>1 DEF Stage, Letting, Closing, Looping, Announcing,
     Transfers, Kinds
  <2>4. interests' \subseteq End
    BY <1>8, <2>3 DEF Control, Add, Mod, Del, Refused, Reaped, Scanner
  <2>5. \A t \in Thread : ~ Scanning(t)' /\ op'[t].back # "report" /\ eplock' # t
    BY <1>2, <2>1, <2>2, ThreadAssumption DEF Scanning
  <2> QED BY <1>0, <2>1, <2>4, <2>5 DEF Scanner, ScanShape
<1>9. CASE Destroy(u)
  <2>1. /\ eplock' = eplock /\ scan' = scan /\ interests' = {} /\ newest' = newest
        /\ pc[u] = "destroy"
    BY <1>9 DEF Destroy, At
  <2>2. op[u].back # "report" /\ ~ Scanning(u)
    BY <1>0, <2>1 DEF Scanning, End, Ep, Stage, Letting, Closing, Looping, Announcing,
     Transfers, Kinds
  <2>3. op'[u].back # "report" /\ ~ Scanning(u)'
    BY <1>0, <1>9, <2>1, <2>2 DEF Destroy, GoBack, Return, Goto, Locals, NoCall, Scanning,
       CallShape
  <2> QED BY <1>0, <1>2, <2>1, <2>2, <2>3 DEF Scanner, ScanShape, First
<1>10. CASE WaitLock(u)
  <2>1. /\ eplock = None /\ eplock' = u /\ newest' = newest /\ op' = op
        /\ interests' = Reaped /\ scan' = [scan EXCEPT ![u] = Scan(Reaped, {}, FALSE, FALSE)]
        /\ pc[u] = "lock" /\ pc'[u] = "scan"
    BY <1>0, <1>10 DEF WaitLock, Goto, At
  <2>2. \A t \in Thread : ~ Scanning(t)
    BY <2>1, ThreadAssumption DEF Scanner
  <2>3. Reaped \subseteq End
    BY DEF Reaped, Scanner
  <2>4. \A t \in Thread : op'[t].back # "report"
    BY <2>1, <2>2 DEF Scanning
  <2>5. \A t \in Thread : eplock' = t <=> Scanning(t)'
    BY <1>2, <2>1, <2>2 DEF Scanning
  <2>6. scan' \in [Thread -> Scans]
    BY <1>0, <1>3, <2>1, <2>3
  <2> QED BY <2>1, <2>3, <2>4, <2>5, <2>6 DEF Scanner, ScanShape
<1>11. CASE ScanEnd(u)
  <2>1. /\ eplock' = None /\ newest' = newest /\ op' = op /\ interests' = interests
        /\ scan' = [scan EXCEPT ![u] = NoScan]
        /\ pc[u] = "scan" /\ pc'[u] \in {"unwatch", "release", "commit"}
    BY <1>0, <1>11 DEF ScanEnd, Leave, Goto, At
  <2>2. op[u].back # "report" /\ Scanning(u)
    BY <1>0, <2>1 DEF Scanning, Stage, Letting, Closing, Looping, Announcing,
     Transfers, Kinds
  <2>3. eplock = u
    BY <2>2 DEF Scanner
  <2>4. \A t \in Thread : ~ Scanning(t)'
    BY <1>2, <2>1, <2>2, <2>3 DEF Scanner, Scanning
  <2>5. scan' \in [Thread -> Scans]
    BY <1>0, <1>3, <2>1 DEF NoScan
  <2>6. \A t \in Thread : op'[t].back # "report" /\ eplock' # t
    BY <2>1, <2>4, ThreadAssumption DEF Scanning
  <2> QED BY <2>1, <2>4, <2>5, <2>6 DEF Scanner, ScanShape
<1>12. CASE ScanPin(u)
  <2> DEFINE e == First(scan[u].left)
  <2>1. /\ UNCHANGED <<eplock, newest, interests>> /\ pc[u] = "scan" /\ scan[u].left # {}
    BY <1>12 DEF ScanPin, ScanOver, At, epVars
  <2>2. op[u].back # "report" /\ Scanning(u)
    BY <1>0, <2>1 DEF Scanning, Stage, Letting, Closing, Looping, Announcing,
     Transfers, Kinds
  <2>3. First(scan[u].left)' = First(scan'[u].left)
    BY <2>1 DEF First
  <2>4. CASE op' = op /\ pc' = pc /\ Visited(u, {})
    <3>1. scan' \in [Thread -> Scans]
      BY <1>0, <1>3, <1>5, <2>4 DEF Visited
    <3>2. op'[u].back # "report" /\ Scanning(u)'
      BY <2>2, <2>4 DEF Scanning
    <3> QED BY <1>0, <1>2, <2>1, <2>2, <3>1, <3>2 DEF Scanner, ScanShape, First
  <2>5. CASE ~(op' = op /\ pc' = pc /\ Visited(u, {}))
    <3>1. /\ scan' = [scan EXCEPT ![u] = Scan(scan[u].left, scan[u].out, e \in notified, FALSE)]
          /\ op' = [op EXCEPT ![u] = [op[u] EXCEPT !.end = e, !.back = "report"]]
          /\ pc'[u] = "look"
      BY <1>0, <1>12, <2>5 DEF ScanPin, Locals, Goto
    <3>2. (e \in notified) \in BOOLEAN
      OBVIOUS
    <3> HIDE DEF e
    <3>3. /\ op'[u].end = e /\ op'[u].back = "report"
      <4>1. op'[u] = [op[u] EXCEPT !.end = e, !.back = "report"]
        BY <1>0, <3>1
      <4> QED BY <1>0, <4>1, Fields DEF Args
    <3>4. PICK p \in BOOLEAN :
            scan' = [scan EXCEPT ![u] = Scan(scan[u].left, scan[u].out, p, FALSE)]
      BY <3>1, <3>2
    <3>5. scan' \in [Thread -> Scans] /\ scan'[u].left = scan[u].left
      <4>1. PICK c : c = Scan(scan[u].left, scan[u].out, p, FALSE)
        OBVIOUS
      <4>2. c \in Scans
        BY <1>3, <1>5, <4>1
      <4>3. c.left = scan[u].left
        BY <4>1 DEF Scan
      <4>4. scan' = [scan EXCEPT ![u] = c]
        BY <3>4, <4>1, Zenon
      <4> QED BY <1>0, <4>2, <4>3, <4>4
    <3>6. Scanning(u)'
      BY <3>1 DEF Scanning
    <3> QED BY <1>0, <1>2, <2>1, <2>2, <3>3, <3>5, <3>6 DEF e, Scanner, ScanShape, First
  <2> QED BY <2>4, <2>5
<1>13. CASE ScanLook(u)
  <2>1. /\ UNCHANGED <<eplock, newest, interests, op>> /\ pc[u] = "look"
        /\ scan' = [scan EXCEPT ![u] = Scan(scan[u].left, scan[u].out, scan[u].pending,
                                            Ready(op[u].end))]
    BY <1>13 DEF ScanLook, At, epVars
  <2>2. op[u].back = "report" /\ op[u].end \in End /\ Scanning(u) /\ Scanning(u)'
    BY <1>0, <2>1 DEF Scanning, Stage, Letting, Closing, Looping, Announcing,
     Transfers, Kinds
  <2>3. Ready(op[u].end) \in BOOLEAN
    BY <1>6, <2>2
  <2>4. scan' \in [Thread -> Scans] /\ scan'[u].left = scan[u].left
    <3> HIDE DEF Ready
    <3> QED BY <1>0, <1>3, <1>4, <1>5, <2>1, <2>3
  <2> QED BY <1>0, <1>2, <2>1, <2>2, <2>4 DEF Scanner, ScanShape, First
<1>14. CASE ScanReport(u)
  <2> DEFINE e == First(scan[u].left)
  <2>1. /\ UNCHANGED <<eplock, newest, interests>> /\ pc[u] = "report" /\ pc'[u] = "scan"
        /\ op' = [op EXCEPT ![u] = [op[u] EXCEPT !.end = Ep, !.back = "return"]]
        /\ \E new \in {{}, {e}} :
             scan' = [scan EXCEPT ![u] = Scan(scan[u].left \ {e}, scan[u].out \cup new, FALSE, FALSE)]
    BY <1>0, <1>14 DEF ScanReport, Visited, At, Goto, Locals
  <2>2. op[u].back = "report" /\ Scanning(u)
    BY <1>0, <2>1 DEF Scanning, Stage, Letting, Closing, Looping, Announcing,
     Transfers, Kinds
  <2>3. e \in End
    BY <1>5, <2>2, FirstOfLeft DEF Scanner
  <2> HIDE DEF e
  <2>4. scan' \in [Thread -> Scans]
    <3>1. PICK new \in {{}, {e}} :
            scan' = [scan EXCEPT ![u] = Scan(scan[u].left \ {e}, scan[u].out \cup new, FALSE, FALSE)]
      BY <2>1
    <3>2. scan[u].left \ {e} \in SUBSET End /\ scan[u].out \cup new \in SUBSET End
      BY <1>5, <2>3
    <3> QED BY <1>0, <1>3, <3>1, <3>2
  <2>5. op'[u].back = "return" /\ Scanning(u)'
    <3>1. op'[u] = [op[u] EXCEPT !.end = Ep, !.back = "return"]
      BY <1>0, <2>1
    <3>2. op'[u].back = "return"
      BY <1>0, <3>1, Fields DEF Args
    <3> QED BY <2>1, <3>2 DEF Scanning
  <2>6. UNCHANGED <<eplock, newest, interests>>
    BY <2>1
  <2> QED BY <1>0, <1>2, <2>2, <2>4, <2>5, <2>6 DEF Scanner, ScanShape, First
<1> QED BY <1>1, <1>7, <1>8, <1>9, <1>10, <1>11, <1>12, <1>13, <1>14 DEF ScanWay

-----------------------------------------------------------------------------
(* Watchers.                                                               *)

\* No one is left asleep on the instance's channel.
Stirred == \A t \in Thread : reg'[t] # Ep

\* A change of the pipe is announced next.
LEMMA Announced ==
  ASSUME Shape, NEW u \in Thread, By(u)
  PROVE  (len' = len /\ ends' = ends) \/ pc'[u] = "wake"
<1> USE DEF pipeVars, Goto, Shape
<1>1. CASE PipeStep(Step(u))
  BY <1>1 DEF PipeStep, Step, PrepareWait, CommitWait, ReadTest, WriteTest, ChangedWake,
     ChangedNotify, Release, CloseDrop, CloseFree, CloseDetach, PollWatch, PollQuery, PollUnwatch
<1>2. CASE EpStep(u)
  BY <1>2 DEF EpStep, Control, PutInstance, WaitLock, ScanEnd, ScanPin, ScanLook, ScanReport,
     Destroy
<1>3. CASE PipeStep(Begin(u)) \/ EpBegin(u) \/ PipeStep(Disturb(u))
  BY <1>3 DEF PipeStep, Begin, EpBegin, BeginRead, BeginWrite, BeginClose, BeginPoll,
     BeginCtl, BeginWait, Disturb, Interrupt, Deadline
<1> QED BY <1>1, <1>2, <1>3 DEF By

\* An announcement stays ahead until the end's watchers are told.
LEMMA StaysAhead ==
  ASSUME Shape, NEW u \in Thread, Others(u), By(u), NEW e \in End, NotifyAhead(e)
  PROVE  NotifyAhead(e)' \/ Notify(e)
<1>1. PICK t \in Thread : pc[t] \in {"wake", "notify_r"} \/ (e = "w" /\ pc[t] = "notify_w")
  BY DEF NotifyAhead, At
<1>2. CASE t # u
  BY <1>1, <1>2 DEF Others, NotifyAhead, At
<1>3. CASE t = u
  <2> USE DEF At
  <2>1. ChangedWake(u) \/ ChangedNotify(u) \/ Disturb(u)
    <3>1. CASE PipeStep(Step(u))
      BY <1>1, <1>3, <3>1 DEF PipeStep, Step, PrepareWait, CommitWait, ReadTest, WriteTest,
         Release, CloseDrop, CloseFree, CloseDetach, PollWatch, PollQuery, PollUnwatch
    <3>2. CASE EpStep(u)
      BY <1>1, <1>3, <3>2 DEF EpStep, Control, PutInstance, WaitLock, ScanEnd, ScanPin,
         ScanLook, ScanReport, Destroy
    <3>3. CASE PipeStep(Begin(u)) \/ EpBegin(u)
      BY <1>1, <1>3, <3>3 DEF PipeStep, Begin, EpBegin, BeginRead, BeginWrite, BeginClose,
         BeginPoll, BeginCtl, BeginWait, Enter
    <3> QED BY <3>1, <3>2, <3>3 DEF By, PipeStep
  <2>2. CASE Disturb(u)
    BY <1>1, <1>3, <2>2 DEF Disturb, Interrupt, Deadline, NotifyAhead
  <2>3. CASE ChangedWake(u)
    BY <1>1, <1>3, <2>3 DEF ChangedWake, Goto, Shape, NotifyAhead
  <2>4. CASE ChangedNotify(u)
    BY <1>1, <1>3, <2>4 DEF ChangedNotify, Goto, Shape, NotifyAhead, End
  <2> QED BY <2>1, <2>2, <2>3, <2>4
<1> QED BY <1>2, <1>3

\* An end becomes ready only with an announcement.
LEMMA BecomesReady ==
  ASSUME Shape, NEW u \in Thread, By(u), NEW e \in End, Ready(e)', ~ Ready(e)
  PROVE  NotifyAhead(e)'
<1>1. pc'[u] = "wake"
  BY Announced DEF Ready, Space
<1> QED BY <1>1 DEF NotifyAhead, At

\* Only epoll_ctl attaches an interest.
LEMMA OnlyAddAttaches ==
  ASSUME NEW u \in Thread, By(u), ~ Control(u), NEW e \in End, Interest(e) \in attached'
  PROVE  Interest(e) \in attached
<1>1. CASE PipeStep(Step(u))
  <2>1. Interest(e) # Entry(u, Next1(op[u].left))
    BY ThreadAssumption DEF Interest, Entry
  <2> QED BY <1>1, <2>1 DEF PipeStep, Step, PrepareWait, CommitWait, ReadTest, WriteTest,
     Release, ChangedWake, ChangedNotify, Notify, DetachAll, AttachLocked, DetachLocked,
     CloseDrop, CloseFree, CloseDetach, PollWatch, PollQuery, PollUnwatch, readinessVars
<1>2. CASE EpStep(u)
  BY <1>2 DEF EpStep, PutInstance, WaitLock, ScanEnd, ScanPin, ScanLook,
     ScanReport, Destroy, DetachLocked, readinessVars
<1>3. CASE PipeStep(Begin(u)) \/ EpBegin(u) \/ PipeStep(Disturb(u))
  BY <1>3 DEF PipeStep, Begin, EpBegin, BeginRead, BeginWrite, BeginClose,
     BeginPoll, BeginCtl, BeginWait, Disturb, Interrupt, Deadline, readinessVars
<1> QED BY <1>1, <1>2, <1>3 DEF By

\* What a step can do for the interest in e, without waking who waits on the
\* instance: nothing that would have it reported.
LEMMA Stir ==
  ASSUME Shape, flags \in [End -> SUBSET {"ET", "ONESHOT"}], NEW u \in Thread, By(u),
         NEW e \in End
  PROVE  \/ Stirred
         \/ /\ Alive(e)' => Alive(e)
            /\ Listed(e)' => Listed(e)
            /\ e \in notified' => e \in notified
            /\ e \in disabled => e \in disabled'
            /\ flags' = flags
<1>0. u # Ep /\ None # Ep /\ reg \in [Thread -> Channel \cup {None}]
  BY ThreadAssumption DEF Shape
<1>1. CASE Control(u)
  <2>1. CASE Woken({Ep})
    BY <1>0, <2>1 DEF Woken, Stirred
  <2>2. CASE Refused(u, op[u].end)
    BY <2>2 DEF Refused, Alive, Listed, Reaped, readinessVars
  <2> QED BY <1>1, <2>1, <2>2 DEF Control, Add, Mod, Del
<1>2. CASE ~ Control(u)
  <2>1. flags' = flags /\ disabled \subseteq disabled' /\ interests' \subseteq interests
    BY <1>2 DEF By, PipeStep, EpStep, EpBegin, BeginCtl, BeginWait, PutInstance, WaitLock,
       ScanEnd, ScanPin, ScanLook, ScanReport, Destroy, Reaped, epVars
  <2>2. Interest(e) \in attached' => Interest(e) \in attached
    BY <1>2, OnlyAddAttaches
  <2>3. Stirred \/ (e \in notified' => e \in notified)
    <3>1. ASSUME NEW ws, Callbacks(ws) PROVE Stirred \/ notified' = notified
      BY <1>0, <3>1 DEF Callbacks, Woken, Stirred
    <3>2. CASE PipeStep(Step(u))
      BY <3>1, <3>2 DEF PipeStep, Step, PrepareWait, CommitWait, ReadTest, WriteTest, Release,
         ChangedWake, ChangedNotify, Notify, DetachAll,
         CloseDrop, CloseFree, CloseDetach, PollWatch, PollQuery, PollUnwatch, readinessVars
    <3>3. CASE EpStep(u)
      BY <1>2, <3>3 DEF EpStep, PutInstance, WaitLock, ScanEnd, ScanPin, ScanLook,
         ScanReport, Destroy, readinessVars
    <3>4. CASE PipeStep(Begin(u)) \/ EpBegin(u) \/ PipeStep(Disturb(u))
      BY <3>4 DEF PipeStep, Begin, EpBegin, BeginRead, BeginWrite, BeginClose,
         BeginPoll, BeginCtl, BeginWait, Disturb, Interrupt, Deadline, readinessVars
    <3> QED BY <3>2, <3>3, <3>4 DEF By
  <2> QED BY <2>1, <2>2, <2>3 DEF Alive, Listed, Reaped
<1> QED BY <1>1, <1>2

\* Telling the watchers of e reaches each of them.
LEMMA Told ==
  ASSUME Shape, NEW e \in End, Notify(e), NEW w \in attached, w.on = e, w.owner # None
  PROVE  /\ \A t \in Thread : reg'[t] # w.owner
         /\ w.owner = Ep => e \in notified'
BY DEF Notify, Callbacks, Watching, Woken, Shape

\* So an interest that would be reported is announced as long as someone is
\* registered on the instance's channel, ...
LEMMA InterestSeen ==
  ASSUME Shape, flags \in [End -> SUBSET {"ET", "ONESHOT"}], NEW u \in Thread, By(u), Others(u),
         NEW e \in End, refs[e] = 0 => refs'[e] = 0, refs \in [Desc -> Nat],
         Reportable(e) => NotifyAhead(e), ~ Stirred
  PROVE  Reportable(e)' => NotifyAhead(e)'
<1> SUFFICES ASSUME Reportable(e)', ~ NotifyAhead(e)' PROVE FALSE
  OBVIOUS
<1>0. None # Ep
  BY ThreadAssumption
<1>1. /\ Alive(e)' => Alive(e)
      /\ Listed(e)' => Listed(e)
      /\ e \in notified' => e \in notified
      /\ e \in disabled => e \in disabled'
      /\ flags' = flags
  BY Stir
<1>2. Ready(e)
  BY BecomesReady DEF Reportable
<1>3. refs[e] > 0
  <2>1. refs[e] \in Nat
    BY DEF Desc
  <2> QED BY <2>1 DEF Reportable
<1>4. Reportable(e)
  BY <1>1, <1>2, <1>3 DEF Reportable
<1>5. Notify(e)
  BY <1>4, StaysAhead
<1>6. Interest(e) \in attached /\ Interest(e).on = e /\ Interest(e).owner = Ep
  BY <1>4 DEF Reportable, Listed, Reaped, Alive, Interest, Entry
<1> QED BY <1>0, <1>5, <1>6, Told DEF Stirred

\* ... and so is an end whose poll() is registered.
LEMMA EntrySeen ==
  ASSUME Shape, NEW u \in Thread, By(u), Others(u), NEW e \in End, NEW t \in Thread,
         Entry(t, e) \in attached, Ready(e) => NotifyAhead(e), reg'[t] = t
  PROVE  Ready(e)' => NotifyAhead(e)'
<1> SUFFICES ASSUME Ready(e)', ~ NotifyAhead(e)' PROVE FALSE
  OBVIOUS
<1>1. NotifyAhead(e)
  BY BecomesReady
<1>2. Notify(e)
  BY <1>1, StaysAhead
<1>3. Entry(t, e).on = e /\ Entry(t, e).owner = t /\ t # None
  BY ThreadAssumption DEF Entry
<1> QED BY <1>2, <1>3, Told

FlagSets == flags \in [End -> SUBSET {"ET", "ONESHOT"}]

\* A scan that reports an edge has looked at what it takes back; who changes the
\* pipe after that announces it.
LEMMA EdgeKeeps ==
  ASSUME Shape, FlagSets, NEW u \in Thread, By(u), Others(u), Stage(u), EdgeKept,
         interests \subseteq End, unseen \subseteq End
  PROVE  EdgeKept' /\ FlagSets' /\ unseen' \subseteq End
<1>0. /\ None # Ep
      /\ op[u].kind \in Kinds /\ op[u].end \in Desc /\ op[u].flags \in SUBSET {"ET", "ONESHOT"}
      /\ Control(u) => op[u].end \in End
  <2>1. op[u].kind \in Kinds /\ op[u].end \in Desc /\ op[u].flags \in SUBSET {"ET", "ONESHOT"}
    BY DEF Shape, CallShape
  <2> QED BY <2>1, ThreadAssumption DEF Control, At, Stage, Letting, Closing, Looping,
     Announcing, Transfers, Kinds
<1>1. ASSUME NEW e \in End, Interest(e) \in attached, Notify(e) PROVE e \in notified'
  BY <1>0, <1>1, Told DEF Interest, Entry
<1>2. CASE Control(u)
  <2>1. FlagSets' /\ unseen' \subseteq End
    BY <1>0, <1>2 DEF Control, Add, Mod, Del, Refused, FlagSets
  <2>2. ASSUME NEW e \in unseen', Listed(e)', Ready(e)', "ET" \in flags'[e], e \notin notified'
        PROVE  NotifyAhead(e)'
    <3>0. e \in End
      BY <2>1, <2>2
    <3>1. e \in unseen /\ Listed(e) /\ "ET" \in flags[e] /\ e \notin notified
      <4>1. CASE e = op[u].end
        BY <1>2, <2>2, <4>1 DEF Control, Add, Mod, Del, Refused, Listed, Alive, Reaped,
           AttachLocked, DetachLocked, readinessVars
      <4>2. CASE e # op[u].end
        <5>1. Interest(e) # Interest(op[u].end)
          BY <4>2 DEF Interest, Entry
        <5> QED BY <1>2, <2>2, <4>2, <5>1 DEF Control, Add, Mod, Del, Refused, Listed, Alive,
           Reaped, AttachLocked, DetachLocked, readinessVars, FlagSets
      <4> QED BY <4>1, <4>2
    <3>2. CASE Ready(e)
      <4>1. NotifyAhead(e)
        BY <3>1, <3>2 DEF EdgeKept
      <4>2. NotifyAhead(e)' \/ Notify(e)
        BY <3>0, <4>1, StaysAhead
      <4>3. Interest(e) \in attached
        BY <3>1 DEF Listed, Reaped, Alive
      <4> QED BY <1>1, <2>2, <3>0, <4>2, <4>3
    <3> QED BY <2>2, <3>0, <3>2, BecomesReady
  <2> QED BY <2>1, <2>2 DEF EdgeKept
<1>3. CASE ~ Control(u)
  <2>1. /\ flags' = flags /\ interests' \subseteq interests
        /\ unseen' \subseteq unseen \/ (unseen' = End /\ pc'[u] = "wake")
    <3>1. flags' = flags /\ interests' \subseteq interests
      BY <1>3 DEF By, PipeStep, EpStep, EpBegin, BeginCtl, BeginWait, PutInstance, WaitLock,
         ScanEnd, ScanPin, ScanLook, ScanReport, Destroy, Reaped, epVars
    <3>2. unseen' \subseteq unseen \/ (unseen' = End /\ ~(len' = len /\ ends' = ends))
      BY <1>3 DEF By, PipeStep, EpStep, EpBegin, BeginCtl, BeginWait, PutInstance, WaitLock,
         ScanEnd, ScanPin, ScanLook, ScanReport, Destroy
    <3> QED BY <3>1, <3>2, Announced
  <2>2. ASSUME NEW e \in unseen', Listed(e)', Ready(e)', "ET" \in flags'[e], e \notin notified'
        PROVE  NotifyAhead(e)'
    <3>0. e \in End
      BY <2>1, <2>2
    <3>1. CASE pc'[u] = "wake"
      BY <3>1 DEF NotifyAhead, At
    <3>2. CASE pc'[u] # "wake"
      <4>1. e \in unseen /\ e \in interests
        BY <2>1, <2>2, <3>2 DEF Listed, Reaped
      <4>2. Interest(e) \in attached
        <5>1. Interest(e) \in attached'
          BY <2>2 DEF Listed, Reaped, Alive
        <5> QED BY <1>3, <3>0, <5>1, OnlyAddAttaches
      <4>3. e \notin notified
        <5>1. CASE ScanReport(u)
          BY <2>2, <5>1 DEF ScanReport
        <5>2. CASE ~ ScanReport(u)
          BY <1>3, <2>2, <5>2 DEF By, PipeStep, Step, PrepareWait, CommitWait, ReadTest,
             WriteTest, Release, ChangedWake, ChangedNotify, Notify, DetachAll, Callbacks,
             readinessVars, CloseDrop, CloseFree, CloseDetach, PollWatch, PollQuery,
             PollUnwatch, EpStep, PutInstance, WaitLock, ScanEnd, ScanPin, ScanLook, Destroy,
             Begin, EpBegin, BeginRead, BeginWrite, BeginClose, BeginPoll, BeginCtl,
             BeginWait, Disturb, Interrupt, Deadline
        <5> QED BY <5>1, <5>2
      <4>4. Ready(e)
        BY <2>2, <3>2, Announced DEF Ready, Space
      <4>5. NotifyAhead(e)
        BY <2>1, <2>2, <4>1, <4>2, <4>3, <4>4 DEF EdgeKept, Listed, Reaped, Alive
      <4> QED BY <1>1, <2>2, <3>0, <4>2, <4>5, StaysAhead
    <3> QED BY <3>1, <3>2
  <2> QED BY <2>1, <2>2 DEF EdgeKept, FlagSets
<1> QED BY <1>2, <1>3

\* The entries of a poll() are watched as long as it holds them: their ends
\* cannot close meanwhile.
HeldWatched == \A t \in Thread : \A e \in op[t].held : Entry(t, e) \in attached

\* A watcher of poll() stays attached while poll() holds its description.
LEMMA HeldKeeps ==
  ASSUME Shape, Account, Gone, HeldWatched, NEW u \in Thread, Others(u), By(u), Way(u), Stage(u)
  PROVE  HeldWatched'
<1>0. /\ \A t \in Thread : op[t].held \in SUBSET End /\ op[t].end \in Desc
      /\ op[u].kind \in Kinds
      /\ op[u].left \in SUBSET End
  BY DEF Shape, CallShape
<1>1. ASSUME NEW t \in Thread, NEW e \in op[t].held PROVE refs[e] > 0
  <2>1. e \in Desc /\ t \in Holders(e)
    BY <1>0, <1>1 DEF Desc, Holders, Holds
  <2>2. IsFiniteSet(Holders(e))
    BY ThreadAssumption, FS_Subset DEF Holders
  <2>3. Cardinality(Holders(e)) \in Nat /\ Cardinality(Holders(e)) # 0
    BY <2>1, <2>2, FS_CardinalityType, FS_EmptySet
  <2>4. refs[e] = Cardinality(Holders(e)) + Fd(e) /\ Fd(e) \in Nat
    BY <2>1 DEF Account, Fd
  <2> HIDE DEF Holders
  <2> QED BY <2>3, <2>4
<1>2. ASSUME NEW t \in Thread, NEW e \in op[t].held, Entry(t, e) \notin attached'
      PROVE  t = u /\ PollUnwatch(u) /\ op[u].held # {} /\ e = Next1(op[u].held)
  <2>0. Entry(t, e) \in attached /\ Entry(t, e).on = e /\ Entry(t, e).owner = t /\ t # Ep
    BY <1>2, ThreadAssumption DEF HeldWatched, Entry
  <2>1. CASE CloseDetach(u)
    <3>1. refs[op[u].end] = 0
      BY <2>1 DEF Gone, CloseDetach, At, Closing
    <3>2. e # op[u].end
      BY <1>1, <1>2, <3>1
    <3> QED BY <1>2, <2>0, <2>1, <3>2 DEF CloseDetach, DetachAll, Watching
  <2>2. CASE Control(u) \/ Destroy(u)
    BY <1>2, <2>0, <2>2 DEF Control, Add, Mod, Del, Refused, Destroy, AttachLocked,
       DetachLocked, readinessVars, Interest, Entry
  <2>3. CASE PollUnwatch(u)
    BY <1>2, <2>0, <2>3 DEF PollUnwatch, DetachLocked, Entry
  <2>4. CASE ~(CloseDetach(u) \/ Control(u) \/ Destroy(u) \/ PollUnwatch(u))
    <3>1. CASE PipeStep(Step(u))
      BY <1>2, <2>0, <2>4, <3>1 DEF PipeStep, Step, PrepareWait, CommitWait, ReadTest,
         WriteTest, Release, ChangedWake, ChangedNotify, Notify, AttachLocked, CloseDrop,
         CloseFree, PollWatch, PollQuery, readinessVars
    <3>2. CASE EpStep(u)
      BY <1>2, <2>0, <2>4, <3>2 DEF EpStep, PutInstance, WaitLock, ScanEnd, ScanPin, ScanLook,
         ScanReport, readinessVars
    <3>3. CASE PipeStep(Begin(u)) \/ EpBegin(u) \/ PipeStep(Disturb(u))
      BY <1>2, <2>0, <3>3 DEF PipeStep, Begin, EpBegin, BeginRead, BeginWrite, BeginClose,
         BeginPoll, BeginCtl, BeginWait, Disturb, Interrupt, Deadline, readinessVars
    <3> QED BY <3>1, <3>2, <3>3 DEF By
  <2> QED BY <2>1, <2>2, <2>3, <2>4
<1>3. ASSUME NEW e \in op'[u].held, e \notin op[u].held PROVE Entry(u, e) \in attached'
  <2>1. PollWatch(u) /\ op[u].left # {} /\ e = Next1(op[u].left) /\ e \in fds
    <3>1. /\ pc[u] = "watch" /\ pc'[u] = "watch" /\ op[u].left # {} /\ e = Next1(op[u].left)
          /\ e \in fds /\ op'[u].left # op[u].left
      <4>1. CASE Polls(u)
        <5>1. op[u].left # {} => Next1(op[u].left) \in op[u].left
          BY <1>0 DEF Next1, End
        <5> QED BY <1>3, <4>1, <5>1 DEF Polls, Assigns, Turn, NoCall
      <4>2. CASE Starts(u)
        <5>1. Fresh(op'[u])
          BY <4>2, PipeAssumption DEF Starts
        <5> QED BY <1>3, <5>1 DEF Fresh
      <4>3. CASE Walk(u) \/ Releases(u) \/ Frees(u)
        BY <1>3, <4>3 DEF Walk, Releases, Frees, Back, Steady, Alike, NoCall
      <4>4. CASE Writes(u) \/ Drops(u) \/ Pins(u)
        BY <1>3, <4>4 DEF Writes, Drops, Pins, Announces, Assigns
      <4> QED BY <4>1, <4>2, <4>3, <4>4 DEF Way
    <3>2. CASE PipeStep(Step(u))
      BY <3>1, <3>2 DEF PipeStep, Step, PrepareWait, CommitWait, ReadTest, WriteTest, Release,
         ChangedWake, ChangedNotify, CloseDrop, CloseFree, CloseDetach, PollQuery, PollUnwatch, At
    <3>3. CASE EpStep(u)
      BY <3>1, <3>3 DEF EpStep, Control, PutInstance, WaitLock, ScanEnd, ScanPin, ScanLook,
         ScanReport, Destroy, At
    <3>4. CASE PipeStep(Begin(u)) \/ EpBegin(u)
      BY <3>1, <3>4 DEF PipeStep, Begin, EpBegin, BeginRead, BeginWrite, BeginClose,
         BeginPoll, BeginCtl, BeginWait, Enter, At
    <3>5. CASE PipeStep(Disturb(u))
      <4>1. op[u] \in CallShape /\ (op'[u] = op[u] \/ op'[u] = [op[u] EXCEPT !.timeout = "over"])
        BY <3>5 DEF PipeStep, Disturb, Interrupt, Deadline, Locals, Shape
      <4>2. op'[u].left = op[u].left
        BY <4>1, Fields DEF Alike
      <4> QED BY <3>1, <4>2
    <3> QED BY <3>1, <3>2, <3>3, <3>4, <3>5 DEF By
  <2> QED BY <2>1 DEF PollWatch, AttachLocked
<1>4. ASSUME NEW t \in Thread, NEW e \in op'[t].held PROVE Entry(t, e) \in attached'
  <2>1. CASE t # u
    BY <1>2, <1>4, <2>1 DEF Others
  <2>2. CASE t = u /\ e \in op[u].held
    <3>1. CASE PollUnwatch(u) /\ op[u].held # {} /\ e = Next1(op[u].held)
      <4>1. pc[u] = "unwatch" /\ pc'[u] = "release"
        BY <3>1 DEF PollUnwatch, At, Goto, Shape
      <4>2. op'[u].held = op[u].held \ {e}
        <5>1. op[u] \in CallShape /\ op'[u] = [op[u] EXCEPT !.held = op[u].held \ {e}, !.end = e]
          BY <3>1 DEF PollUnwatch, Locals, Shape
        <5> QED BY <5>1, Fields DEF Args
      <4> QED BY <1>4, <2>2, <4>2
    <3> QED BY <1>2, <2>2, <3>1
  <2> QED BY <1>3, <1>4, <2>1, <2>2
<1> QED BY <1>4 DEF HeldWatched

\* Who registers, registers on the channel its watchers wake.
Channels(t) ==
  /\ pc[t] \in {"query", "commit", "blocked"} /\ op[t].kind = "poll" => reg[t] \in {t, None}
  /\ (pc[t] \in {"lock", "commit", "blocked"} /\ op[t].kind = "wait") \/ Scanning(t) =>
       reg[t] \in {Ep, None}

\* What poll() has looked at, and found wanting, is announced should it change.
PollSeen(t) ==
  op[t].kind = "poll" /\ reg[t] # None =>
    /\ pc[t] = "query" /\ ~ op[t].hit =>
         \A e \in op[t].held \ op[t].left : Ready(e) => NotifyAhead(e)
    /\ pc[t] \in {"commit", "blocked"} => \A e \in op[t].held : Ready(e) => NotifyAhead(e)

\* So is what a scan has visited without anything to report; of the interest it
\* is at, what it has read is no staler than that.
ScanSeen(t) ==
  reg[t] # None =>
    /\ Scanning(t) /\ scan[t].out = {} =>
         \A e \in End \ scan[t].left : Reportable(e) => NotifyAhead(e)
    /\ pc[t] \in {"commit", "blocked"} /\ op[t].kind = "wait" =>
         \A e \in End : Reportable(e) => NotifyAhead(e)
    /\ op[t].back = "report" =>
         /\ ~ scan[t].pending => op[t].end \notin notified
         /\ pc[t] # "look" /\ ~ scan[t].ready /\ Alive(op[t].end) /\ Ready(op[t].end) =>
              NotifyAhead(op[t].end)

\* A thread puts itself on a channel only at the start of its loop.
LEMMA OffChannel ==
  ASSUME Shape, NEW u \in Thread, By(u)
  PROVE  PrepareWait(u) \/ reg'[u] \in {reg[u], None}
<1> USE DEF Shape, Leave, Unregistered, Woken, Callbacks, readinessVars
<1>1. CASE PipeStep(Step(u))
  BY <1>1 DEF PipeStep, Step, CommitWait, ReadTest, WriteTest, ChangedWake,
     ChangedNotify, Release, CloseDrop, CloseFree, CloseDetach, PollWatch, PollQuery, PollUnwatch,
     Notify, DetachAll
<1>2. CASE EpStep(u)
  BY <1>2 DEF EpStep, Control, Add, Mod, Del, Refused, PutInstance, WaitLock, ScanEnd, ScanPin,
     ScanLook, ScanReport, Destroy
<1>3. CASE PipeStep(Begin(u)) \/ EpBegin(u) \/ PipeStep(Disturb(u))
  BY <1>3 DEF PipeStep, Begin, EpBegin, BeginRead, BeginWrite, BeginClose, BeginPoll,
     BeginCtl, BeginWait, Disturb, Interrupt, Deadline
<1> QED BY <1>1, <1>2, <1>3 DEF By

\* The steps of others leave a thread's view of what it watches in order.
LEMMA ViewStays ==
  ASSUME Shape, FlagSets, NEW u \in Thread, By(u), Others(u), refs \in [Desc -> Nat],
         \A d \in Desc : refs[d] = 0 => refs'[d] = 0, HeldWatched,
         NEW t \in Thread, t # u, scan'[t] = scan[t], Stage(t),
         op[t].back = "report" => op[t].end \in End,
         Channels(t), PollSeen(t), ScanSeen(t)
  PROVE  Channels(t)' /\ PollSeen(t)' /\ ScanSeen(t)'
<1>0. /\ pc'[t] = pc[t] /\ op'[t] = op[t] /\ reg'[t] \in {reg[t], None} /\ scan'[t] = scan[t]
      /\ op[t].held \subseteq End /\ None # Ep
      /\ \A e \in End : refs[e] = 0 => refs'[e] = 0
      /\ (Scanning(t)' <=> Scanning(t))
  BY ThreadAssumption DEF Others, Shape, CallShape, Desc, Scanning
<1>1. Channels(t)'
  BY <1>0 DEF Channels
<1>2. PollSeen(t)'
  <2>1. ASSUME NEW e \in op[t].held, reg'[t] # None, op[t].kind = "poll",
               pc[t] \in {"query", "commit", "blocked"}, Ready(e) => NotifyAhead(e)
        PROVE  Ready(e)' => NotifyAhead(e)'
    <3>1. reg'[t] = t /\ Entry(t, e) \in attached /\ e \in End
      BY <1>0, <2>1 DEF Channels, HeldWatched
    <3> QED BY <2>1, <3>1, EntrySeen
  <2> QED BY <1>0, <2>1 DEF PollSeen
<1>3. ScanSeen(t)'
  <2>1. SUFFICES ASSUME reg'[t] # None, reg'[t] = reg[t],
                        \/ Scanning(t) \/ op[t].back = "report"
                        \/ pc[t] \in {"commit", "blocked"} /\ op[t].kind = "wait"
                 PROVE  ScanSeen(t)'
    BY <1>0 DEF ScanSeen
  <2>2. reg'[t] = Ep
    BY <1>0, <2>1 DEF Channels, Scanning
  <2>3. ~ Stirred
    BY <2>2 DEF Stirred
  <2>4. ASSUME NEW e \in End, Reportable(e) => NotifyAhead(e)
        PROVE  Reportable(e)' => NotifyAhead(e)'
    BY <1>0, <2>3, <2>4, InterestSeen DEF FlagSets
  <2>5. ASSUME op[t].back = "report"
        PROVE  /\ ~ scan[t].pending => op[t].end \notin notified'
               /\ pc[t] # "look" /\ ~ scan[t].ready /\ Alive(op[t].end)' /\ Ready(op[t].end)' =>
                    NotifyAhead(op[t].end)'
    <3>1. PICK e \in End : e = op[t].end
      BY <2>5
    <3>2. /\ Alive(e)' => Alive(e)
          /\ e \in notified' => e \in notified
      BY <2>3, <3>1, Stir DEF FlagSets
    <3>3. /\ ~ scan[t].pending => e \notin notified
          /\ pc[t] # "look" /\ ~ scan[t].ready /\ Alive(e) /\ Ready(e) => NotifyAhead(e)
      BY <1>0, <2>1, <2>5, <3>1 DEF ScanSeen
    <3>4. ASSUME pc[t] # "look", ~ scan[t].ready, Alive(e)', Ready(e)', ~ NotifyAhead(e)'
          PROVE  FALSE
      <4>1. Ready(e)
        BY <3>1, <3>4, BecomesReady
      <4>2. Notify(e)
        BY <3>1, <3>2, <3>3, <3>4, <4>1, StaysAhead
      <4>3. Interest(e) \in attached /\ Interest(e).on = e /\ Interest(e).owner = Ep
        BY <3>2, <3>4 DEF Alive, Interest, Entry
      <4> QED BY <1>0, <2>2, <3>1, <4>2, <4>3, Told
    <3>5. ~ scan[t].pending => e \notin notified'
      BY <3>2, <3>3
    <3>6. op'[t].end = e
      BY <1>0, <3>1
    <3> QED BY <3>1, <3>4, <3>5, <3>6
  <2>6. op'[t].end = op[t].end
    BY <1>0
  <2> HIDE DEF Scanning
  <2> QED BY <1>0, <2>1, <2>4, <2>5, <2>6 DEF ScanSeen
<1> QED BY <1>1, <1>2, <1>3

\* Out of sleep and of the start of the loop a call gets by registering.
LEMMA OnlyPrepare ==
  ASSUME NEW u \in Thread, By(u), pc[u] \in {"prepare", "blocked"}
  PROVE  PrepareWait(u) \/ pc'[u] = pc[u]
<1>1. CASE PipeStep(Step(u))
  BY <1>1 DEF PipeStep, Step, CommitWait, ReadTest, WriteTest, ChangedWake,
     ChangedNotify, Release, CloseDrop, CloseFree, CloseDetach, PollWatch, PollQuery,
     PollUnwatch, At
<1>2. CASE EpStep(u)
  BY <1>2 DEF EpStep, Control, PutInstance, WaitLock, ScanEnd, ScanPin, ScanLook,
     ScanReport, Destroy, At
<1>3. CASE PipeStep(Begin(u)) \/ EpBegin(u) \/ PipeStep(Disturb(u))
  BY <1>3 DEF PipeStep, Begin, EpBegin, BeginRead, BeginWrite, BeginClose, BeginPoll,
     BeginCtl, BeginWait, Enter, At, Disturb, Interrupt, Deadline
<1> QED BY <1>1, <1>2, <1>3 DEF By

\* poll()'s own steps: it registers before it looks.
LEMMA PollView ==
  ASSUME Shape, NEW u \in Thread, By(u), Others(u), Way(u), Stage(u), HeldWatched,
         Channels(u), PollSeen(u)
  PROVE  PollSeen(u)' /\ (pc'[u] \in {"query", "commit", "blocked"} /\ op'[u].kind = "poll" =>
                            reg'[u] \in {u, None})
<1>0. /\ op[u].kind \in Kinds /\ op[u].held \in SUBSET End /\ op[u].left \in SUBSET End
      /\ op[u].then \in {"release", "prepare", "free"} /\ pc[u] \in Labels
      /\ op[u].back \in {"return", "unwatch", "put", "report"}
  BY DEF Shape, CallShape
<1>1. ASSUME NEW e \in op[u].held, reg'[u] = u, Ready(e) => NotifyAhead(e)
      PROVE  Ready(e)' => NotifyAhead(e)'
  <2>1. Entry(u, e) \in attached /\ e \in End
    BY <1>0 DEF HeldWatched
  <2> QED BY <1>1, <2>1, EntrySeen
<1>2. CASE PrepareWait(u)
  <2>1. /\ op[u].kind = "poll" => reg'[u] = u /\ pc'[u] = "query"
        /\ op[u].kind # "poll" => pc'[u] \in {"lock", "test"} /\ op' = op
        /\ pc[u] \in {"prepare", "blocked"}
    BY <1>2 DEF PrepareWait, Registered, ChannelOf, Goto, At, Doing, Shape
  <2>2. op[u].kind = "poll" =>
          op'[u].left = op[u].entries /\ op'[u].held = op[u].held /\ op'[u].kind = "poll"
    <3>1. op[u].kind = "poll" => op'[u] = [op[u] EXCEPT !.left = op[u].entries, !.hit = FALSE]
      BY <1>2 DEF PrepareWait, Doing, Locals, Shape
    <3>2. op[u] \in CallShape
      BY DEF Shape
    <3>3. ASSUME op[u].kind = "poll"
          PROVE  op'[u].left = op[u].entries /\ op'[u].held = op[u].held /\ op'[u].kind = "poll"
      <4>1. op'[u] = [op[u] EXCEPT !.left = op[u].entries, !.hit = FALSE]
        BY <3>1, <3>3
      <4> QED BY <3>2, <3>3, <4>1, Fields DEF Args
    <3> QED BY <3>3
  <2>3. op[u].kind = "poll" => op[u].held \subseteq op[u].entries
    BY DEF Stage
  <2> QED BY <2>1, <2>2, <2>3 DEF PollSeen
<1>3. CASE ~ PrepareWait(u)
  <2>0. reg'[u] \in {reg[u], None}
    BY <1>3, OffChannel
  <2>1. SUFFICES ASSUME op'[u].kind = "poll", pc'[u] \in {"query", "commit", "blocked"}
                 PROVE  PollSeen(u)' /\ reg'[u] \in {u, None}
    BY DEF PollSeen
  <2>2. /\ op[u].kind = "poll" /\ op'[u].held = op[u].held
        /\ pc[u] \in {"query", "commit", "blocked"}
        /\ \/ pc'[u] = pc[u] /\ op'[u].left = op[u].left /\ op'[u].hit = op[u].hit
           \/ pc[u] = "query" /\ pc'[u] = "commit" /\ op[u].left = {} /\ ~ op[u].hit
           \/ pc[u] = "commit" /\ pc'[u] = "blocked"
           \/ LET e == Next1(op[u].left) IN
              /\ pc[u] = "query" /\ pc'[u] = "query" /\ op[u].left # {}
              /\ op'[u].left = op[u].left \ {e}
              /\ op'[u].hit = (op[u].hit \/ e \notin op[u].held \/ Ready(e))
    <3>1. CASE Walk(u)
      BY <1>0, <2>1, <3>1 DEF Walk, Steady, Alike, Args, Turn, Stage, Letting, Closing, Looping,
         Announcing, Transfers, Kinds
    <3>2. CASE Polls(u)
      <4>1. CASE Turn(u, {"prepare", "blocked"}, "query")
        <5>1. PrepareWait(u) \/ pc'[u] = pc[u]
          BY <4>1, OnlyPrepare DEF Turn
        <5> QED BY <1>3, <4>1, <5>1 DEF Turn
      <4> QED BY <2>1, <3>2, <4>1 DEF Polls, Assigns, Args, Turn
    <3>3. CASE Starts(u) \/ Releases(u) \/ Frees(u)
      BY <1>0, <2>1, <3>3 DEF Starts, Releases, Frees, Back, NoCall
    <3>4. CASE Writes(u) \/ Drops(u) \/ Pins(u)
      BY <2>1, <3>4 DEF Writes, Drops, Pins, Turn
    <3> QED BY <3>1, <3>2, <3>3, <3>4 DEF Way
  <2>3. reg'[u] \in {u, None}
    BY <2>0, <2>2 DEF Channels
  <2>4. CASE reg'[u] = None
    BY <2>3, <2>4 DEF PollSeen
  <2>5. CASE reg'[u] = u /\ u # None
    <3>1. reg[u] # None
      BY <2>0, <2>5
    <3>2. CASE /\ pc[u] = "query" /\ pc'[u] = "query" /\ op[u].left # {}
               /\ op'[u].left = op[u].left \ {Next1(op[u].left)}
               /\ op'[u].hit = (op[u].hit \/ Next1(op[u].left) \notin op[u].held
                                \/ Ready(Next1(op[u].left)))
      <4>1. ASSUME ~ op'[u].hit, NEW e \in op[u].held \ op'[u].left
            PROVE  Ready(e) => NotifyAhead(e)
        <5>1. CASE e = Next1(op[u].left)
          BY <3>2, <4>1, <5>1
        <5>2. CASE e # Next1(op[u].left)
          BY <2>2, <3>1, <3>2, <4>1, <5>2 DEF PollSeen
        <5> QED BY <5>1, <5>2
      <4>2. ASSUME ~ op'[u].hit, NEW e \in op[u].held \ op'[u].left
            PROVE  Ready(e)' => NotifyAhead(e)'
        BY <1>1, <2>5, <4>1, <4>2
      <4>3. op'[u].held = op[u].held /\ pc'[u] = "query"
        BY <2>2, <3>2
      <4>4. ~ op'[u].hit => \A e \in op'[u].held \ op'[u].left : Ready(e)' => NotifyAhead(e)'
        BY <4>2, <4>3
      <4> QED BY <2>3, <4>3, <4>4 DEF PollSeen
    <3>3. CASE pc'[u] = pc[u] /\ op'[u].left = op[u].left /\ op'[u].hit = op[u].hit
      BY <1>1, <2>2, <2>5, <3>1, <3>3 DEF PollSeen
    <3>4. CASE pc[u] = "query" /\ pc'[u] = "commit" /\ op[u].left = {} /\ ~ op[u].hit
      BY <1>1, <2>2, <2>5, <3>1, <3>4 DEF PollSeen
    <3>5. CASE pc[u] = "commit" /\ pc'[u] = "blocked"
      BY <1>1, <2>2, <2>5, <3>1, <3>5 DEF PollSeen
    <3> QED BY <2>2, <3>2, <3>3, <3>4, <3>5
  <2> QED BY <2>3, <2>4, <2>5
<1> QED BY <1>2, <1>3

\* epoll_wait's own steps: it registers, looks at each interest under the lock,
\* and sleeps only if none was worth reporting.
LEMMA ScanView ==
  ASSUME Shape, FlagSets, Scanner, NEW u \in Thread, By(u), Others(u), Way(u), Stage(u), Stage(u)',
         refs \in [Desc -> Nat], \A d \in Desc : refs[d] = 0 => refs'[d] = 0,
         Channels(u), ScanSeen(u)
  PROVE  /\ ScanSeen(u)'
         /\ (pc'[u] \in {"lock", "commit", "blocked"} /\ op'[u].kind = "wait") \/ Scanning(u)' =>
              reg'[u] \in {Ep, None}
<1>0. /\ op[u].kind \in Kinds /\ op[u].then \in {"release", "prepare", "free"} /\ pc[u] \in Labels
      /\ op[u].back \in {"return", "unwatch", "put", "report"}
      /\ pc \in [Thread -> Labels] /\ op \in [Thread -> CallShape] /\ scan \in [Thread -> Scans]
      /\ None # Ep /\ \A e \in End : refs[e] = 0 => refs'[e] = 0
  BY ThreadAssumption DEF Shape, CallShape, Scanner, ScanShape, Desc
<1>1. ASSUME NEW e \in End, reg'[u] = Ep, Reportable(e) => NotifyAhead(e)
      PROVE  Reportable(e)' => NotifyAhead(e)'
  BY <1>0, <1>1, InterestSeen DEF FlagSets, Stirred
<1>2. ASSUME NEW e \in End, reg'[u] = Ep
      PROVE  (Alive(e)' => Alive(e)) /\ (e \in notified' => e \in notified)
  BY <1>2, Stir DEF FlagSets, Stirred
<1>3. ASSUME NEW e \in End, reg'[u] = Ep, Alive(e) /\ Ready(e) => NotifyAhead(e)
      PROVE  Alive(e)' /\ Ready(e)' => NotifyAhead(e)'
  <2> SUFFICES ASSUME Alive(e)', Ready(e)', ~ NotifyAhead(e)' PROVE FALSE
    OBVIOUS
  <2>1. Ready(e) /\ Alive(e)
    BY <1>2, <1>3, BecomesReady
  <2>2. Notify(e)
    BY <1>3, <2>1, StaysAhead
  <2>3. Interest(e) \in attached /\ Interest(e).on = e /\ Interest(e).owner = Ep
    BY <2>1 DEF Alive, Interest, Entry
  <2> QED BY <1>0, <1>3, <2>2, <2>3, Told
<1>4. ScanWay(u)
  BY ScanWays
<1>5. CASE PrepareWait(u)
  <2>1. /\ pc[u] \in {"prepare", "blocked"} /\ pc'[u] \in {"query", "lock", "test"}
        /\ pc'[u] = "lock" => reg'[u] = Ep
    BY <1>5 DEF PrepareWait, Registered, ChannelOf, Goto, At, Doing, Shape
  <2>2. op[u].back # "report" /\ op'[u].back # "report"
    <3>1. op[u].back # "report"
      BY <1>0, <2>1 DEF Stage, Letting, Closing, Looping, Announcing, Transfers, Kinds
    <3>2. CASE op' = op
      BY <3>1, <3>2
    <3>3. CASE op'[u] = [op[u] EXCEPT !.left = op[u].entries, !.hit = FALSE]
      BY <1>0, <3>1, <3>3, Fields DEF Args
    <3> QED BY <1>0, <1>5, <3>1, <3>2, <3>3 DEF PrepareWait, Locals
  <2> QED BY <2>1, <2>2 DEF ScanSeen, Scanning
<1>6. CASE ~ PrepareWait(u)
  <2>0. reg'[u] \in {reg[u], None}
    BY <1>6, OffChannel
  <2>1. CASE /\ UNCHANGED <<interests, newest, eplock, scan>> /\ Scanning(u)' = Scanning(u)
             /\ op'[u].back = "report" => op[u].back = "report" /\ op'[u].end = op[u].end
             /\ pc[u] \in {"lock", "scan", "look", "report"} => pc'[u] = pc[u]
    <3>1. pc'[u] \in {"lock", "commit", "blocked"} /\ op'[u].kind = "wait" =>
            /\ op[u].kind = "wait"
            /\ pc[u] = pc'[u] \/ (pc[u] = "commit" /\ pc'[u] = "blocked")
      <4>0. pc[u] \in {"prepare", "blocked"} => pc'[u] = pc[u]
        BY <1>6, OnlyPrepare
      <4>1. CASE Walk(u)
        BY <1>0, <2>1, <4>0, <4>1 DEF Walk, Steady, Alike, Args, Turn, Stage, Letting,
           Closing, Looping, Announcing, Transfers, Kinds
      <4>2. CASE Polls(u)
        BY <1>0, <4>2 DEF Polls, Assigns, Args, Turn, NoCall, Stage, Letting, Closing, Looping,
         Announcing, Transfers, Kinds
      <4>3. CASE Starts(u) \/ Releases(u) \/ Frees(u)
        BY <1>0, <4>3 DEF Starts, Releases, Frees, Back, NoCall
      <4>4. CASE Writes(u) \/ Drops(u) \/ Pins(u)
        BY <4>4 DEF Writes, Drops, Pins, Turn
      <4> QED BY <4>1, <4>2, <4>3, <4>4 DEF Way
    <3>2. ASSUME (pc'[u] \in {"lock", "commit", "blocked"} /\ op'[u].kind = "wait") \/ Scanning(u)'
          PROVE  reg[u] \in {Ep, None}
      BY <2>1, <3>1, <3>2 DEF Channels
    <3>3. SUFFICES ASSUME (pc'[u] \in {"lock", "commit", "blocked"} /\ op'[u].kind = "wait")
                          \/ Scanning(u)', reg'[u] # None
                   PROVE  ScanSeen(u)'
      BY <2>0, <3>2 DEF ScanSeen, Scanning
    <3>4. reg'[u] = Ep /\ reg[u] = Ep
      BY <2>0, <3>2, <3>3
    <3>5. ASSUME Scanning(u)', scan'[u].out = {}, NEW e \in End \ scan'[u].left
          PROVE  Reportable(e)' => NotifyAhead(e)'
      BY <1>0, <1>1, <2>1, <3>4, <3>5 DEF ScanSeen
    <3>6. ASSUME pc'[u] \in {"commit", "blocked"}, op'[u].kind = "wait", NEW e \in End
          PROVE  Reportable(e)' => NotifyAhead(e)'
      BY <1>0, <1>1, <3>1, <3>4, <3>6 DEF ScanSeen
    <3>7. ASSUME op'[u].back = "report"
          PROVE  /\ ~ scan'[u].pending => op'[u].end \notin notified'
                 /\ pc'[u] # "look" /\ ~ scan'[u].ready /\ Alive(op[u].end)' /\ Ready(op[u].end)' =>
                      NotifyAhead(op[u].end)'
      <4>1. PICK e \in End : e = op[u].end /\ e = op'[u].end
        BY <1>0, <2>1, <3>7 DEF Stage, Letting, Closing, Looping,
         Announcing, Transfers, Kinds
      <4>2. op[u].back = "report" /\ scan' = scan /\ (pc'[u] # "look" => pc[u] # "look")
        BY <2>1, <3>7
      <4>3. /\ ~ scan[u].pending => e \notin notified
            /\ pc[u] # "look" /\ ~ scan[u].ready => (Alive(e) /\ Ready(e) => NotifyAhead(e))
        BY <1>0, <3>4, <4>1, <4>2 DEF ScanSeen
      <4>4. ~ scan'[u].pending => e \notin notified'
        BY <1>2, <3>4, <4>2, <4>3
      <4>5. pc'[u] # "look" /\ ~ scan'[u].ready => (Alive(e)' /\ Ready(e)' => NotifyAhead(e)')
        BY <1>3, <3>4, <4>2, <4>3
      <4> QED BY <4>1, <4>4, <4>5
    <3> QED BY <3>5, <3>6, <3>7 DEF ScanSeen
  <2>2. CASE Control(u) \/ Destroy(u)
    <3>1. /\ pc'[u] \notin {"lock", "commit", "blocked", "scan", "look", "report"}
          /\ op'[u].back # "report"
      <4>1. CASE Control(u)
        BY <1>0, <4>1 DEF Control, Goto, At, Stage, Letting, Closing, Looping,
         Announcing, Transfers, Kinds
      <4>2. CASE Destroy(u)
        <5>1. pc[u] = "destroy" /\ op[u].end = Ep
          BY <4>2 DEF Destroy, At, Stage
        <5>2. op[u].back \in {"return", "unwatch", "put"}
          BY <1>0, <5>1 DEF End, Ep, Stage, Letting, Closing, Looping,
         Announcing, Transfers, Kinds
        <5> QED BY <1>0, <4>2, <5>2 DEF Destroy, GoBack, Return, Goto, Locals, NoCall
      <4> QED BY <2>2, <4>1, <4>2
    <3> QED BY <3>1 DEF ScanSeen, Scanning
  <2>3. CASE WaitLock(u)
    <3>1. /\ interests' = Reaped /\ attached' = attached /\ pc[u] = "lock" /\ pc'[u] = "scan"
          /\ scan'[u].left = Reaped /\ op' = op /\ reg' = reg
      BY <1>0, <2>3 DEF WaitLock, Scan, Goto, At, readinessVars
    <3>2. op[u].kind = "wait" /\ op[u].back # "report"
      BY <1>0, <3>1 DEF Stage, Letting, Closing, Looping,
         Announcing, Transfers, Kinds
    <3>3. ASSUME NEW e \in End \ Reaped PROVE ~ Reportable(e)'
      BY <3>1, <3>3 DEF Reportable, Listed, Reaped, Alive
    <3>4. reg'[u] \in {Ep, None}
      BY <3>1, <3>2 DEF Channels
    <3>5. \A e \in End \ scan'[u].left : Reportable(e)' => NotifyAhead(e)'
      BY <3>1, <3>3
    <3> QED BY <3>1, <3>2, <3>4, <3>5 DEF ScanSeen
  <2>4. CASE ScanEnd(u)
    <3>1. /\ pc[u] = "scan" /\ op' = op /\ ScanOver(u)
          /\ pc'[u] \in {"unwatch", "release"} \/ (pc'[u] = "commit" /\ scan[u].out = {})
      BY <1>0, <2>4 DEF ScanEnd, Leave, Goto, At
    <3>2. op[u].kind = "wait" /\ op[u].back # "report" /\ op[u].max > 0 /\ op[u].max \in Nat
      BY <1>0, <3>1 DEF CallShape, Stage, Letting, Closing, Looping,
         Announcing, Transfers, Kinds
    <3>3. pc'[u] = "commit" => scan[u].left = {}
      BY <3>1, <3>2, FS_EmptySet DEF ScanOver
    <3>4. reg[u] \in {Ep, None}
      BY <3>1, <3>2 DEF Channels, Scanning
    <3>5. ASSUME pc'[u] = "commit", reg'[u] # None, NEW e \in End
          PROVE  Reportable(e)' => NotifyAhead(e)'
      <4>1. reg[u] = Ep /\ reg'[u] = Ep
        BY <2>0, <3>4, <3>5
      <4>2. Reportable(e) => NotifyAhead(e)
        BY <1>0, <3>1, <3>3, <3>5, <4>1 DEF ScanSeen, Scanning
      <4> QED BY <1>1, <4>1, <4>2
    <3> QED BY <2>0, <3>1, <3>2, <3>4, <3>5 DEF ScanSeen, Scanning
  <2>5. CASE ScanPin(u)
    <3>1. pc[u] = "scan" /\ reg' = reg /\ scan[u].left # {} /\ scan[u].left \subseteq End
      BY <1>0, <2>5 DEF ScanPin, ScanOver, At, readinessVars, Scans
    <3>2. op[u].kind = "wait" /\ op[u].back # "report"
      BY <1>0, <3>1 DEF Stage, Letting, Closing, Looping,
         Announcing, Transfers, Kinds
    <3>3. PICK e \in End : e = First(scan[u].left)
      BY <3>1, FirstOfLeft
    <3>4. reg'[u] \in {Ep, None}
      BY <3>1 DEF Channels, Scanning
    <3>5. ASSUME reg'[u] # None, scan[u].out = {}, NEW x \in End \ scan[u].left
          PROVE  Reportable(x)' => NotifyAhead(x)'
      BY <1>0, <1>1, <3>1, <3>4, <3>5 DEF ScanSeen, Scanning
    <3>6. CASE e \notin disabled /\ Alive(e) /\ refs[e] > 0
      <4>1. /\ pc'[u] = "look" /\ scan'[u].left = scan[u].left /\ scan'[u].out = scan[u].out
            /\ scan'[u].pending = (e \in notified) /\ notified' = notified
        BY <1>0, <2>5, <3>3, <3>6 DEF ScanPin, Scan, Goto, readinessVars
      <4>2. op'[u].end = e /\ op'[u].back = "report"
        <5>1. op'[u] = [op[u] EXCEPT !.end = e, !.back = "report"]
          BY <1>0, <2>5, <3>3, <3>6 DEF ScanPin, Locals
        <5> QED BY <1>0, <5>1, Fields DEF Args
      <4> QED BY <3>4, <3>5, <4>1, <4>2 DEF ScanSeen, Scanning
    <3>7. CASE ~(e \notin disabled /\ Alive(e) /\ refs[e] > 0)
      <4>1. /\ pc' = pc /\ op' = op /\ refs' = refs
            /\ scan' = [scan EXCEPT ![u] = Scan(scan[u].left \ {e}, scan[u].out \cup {}, FALSE, FALSE)]
            /\ attached' = attached /\ disabled' = disabled
        BY <2>5, <3>3, <3>7 DEF ScanPin, Visited, epVars, readinessVars
      <4>2. scan'[u].left = scan[u].left \ {e} /\ scan'[u].out = scan[u].out
        BY <1>0, <4>1 DEF Scan
      <4>3. ~ Reportable(e)'
        BY <3>7, <4>1 DEF Reportable, Listed, Reaped, Alive
      <4>4. ASSUME reg'[u] # None, scan'[u].out = {}, NEW x \in End \ scan'[u].left
            PROVE  Reportable(x)' => NotifyAhead(x)'
        BY <3>5, <4>2, <4>3, <4>4
      <4> QED BY <3>1, <3>2, <3>4, <4>1, <4>4 DEF ScanSeen
    <3> QED BY <3>6, <3>7
  <2>6. CASE ScanLook(u)
    <3>1. /\ pc[u] = "look" /\ pc'[u] = "release" /\ reg' = reg /\ op' = op /\ notified' = notified
          /\ len' = len /\ ends' = ends
      BY <1>0, <2>6 DEF ScanLook, Goto, At, readinessVars, pipeVars
    <3>2. op[u].back = "report" /\ op[u].end \in End
      BY <1>0, <3>1 DEF Stage, Letting, Closing, Looping,
         Announcing, Transfers, Kinds
    <3>3. PICK e \in End : e = op[u].end /\ e = op'[u].end
      BY <3>1, <3>2
    <3>4. /\ scan'[u].left = scan[u].left /\ scan'[u].out = scan[u].out
          /\ scan'[u].pending = scan[u].pending /\ scan'[u].ready = Ready(e)
      BY <1>0, <2>6, <3>3 DEF ScanLook, Scan
    <3>5. Ready(e)' => Ready(e)
      BY <3>1 DEF Ready, Space
    <3>6. reg'[u] \in {Ep, None}
      BY <3>1 DEF Channels, Scanning
    <3>7. ASSUME reg'[u] # None, scan'[u].out = {}, NEW x \in End \ scan'[u].left
          PROVE  Reportable(x)' => NotifyAhead(x)'
      BY <1>0, <1>1, <3>1, <3>4, <3>6, <3>7 DEF ScanSeen, Scanning
    <3>8. reg'[u] # None /\ ~ scan'[u].pending => e \notin notified'
      BY <3>1, <3>2, <3>3, <3>4 DEF ScanSeen
    <3>9. ~ scan'[u].ready /\ Ready(op[u].end)' => FALSE
      BY <3>3, <3>4, <3>5
    <3> QED BY <3>1, <3>2, <3>3, <3>6, <3>7, <3>8, <3>9 DEF ScanSeen
  <2>7. CASE ScanReport(u)
    <3>1. /\ pc[u] = "report" /\ pc'[u] = "scan" /\ reg' = reg /\ flags' = flags
          /\ len' = len /\ ends' = ends /\ attached' = attached /\ interests' = interests
      BY <1>0, <2>7 DEF ScanReport, Goto, At, pipeVars
    <3>2. op[u].back = "report" /\ op[u].end \in End
      BY <1>0, <3>1 DEF Stage, Letting, Closing, Looping,
         Announcing, Transfers, Kinds
    <3>3. PICK e \in End : e = op[u].end /\ e = First(scan[u].left)
      BY <3>2 DEF Scanner
    <3>4. op'[u].back = "return"
      <4>1. op'[u] = [op[u] EXCEPT !.end = Ep, !.back = "return"]
        BY <1>0, <2>7 DEF ScanReport, Locals
      <4> QED BY <1>0, <4>1, Fields DEF Args
    <3>5. reg'[u] \in {Ep, None}
      BY <3>1 DEF Channels, Scanning
    <3>6. /\ scan'[u].left = scan[u].left \ {e}
          /\ scan'[u].out = {} => scan[u].out = {}
          /\ scan'[u].out = {} => ~(scan[u].ready /\ ("ET" \in flags[e] => scan[u].pending))
                                  /\ notified' = notified
      <4>1. CASE scan[u].ready /\ ("ET" \in flags[e] => scan[u].pending)
        <5>1. scan'[u].left = scan[u].left \ {e} /\ e \in scan'[u].out
          BY <1>0, <2>7, <3>3, <4>1 DEF ScanReport, Visited, Scan
        <5> QED BY <5>1
      <4>2. CASE ~(scan[u].ready /\ ("ET" \in flags[e] => scan[u].pending))
        <5>1. /\ scan'[u].left = scan[u].left \ {e} /\ scan'[u].out = scan[u].out
              /\ notified' = notified
          BY <1>0, <2>7, <3>3, <4>2 DEF ScanReport, Visited, Scan
        <5> QED BY <4>2, <5>1
      <4> QED BY <4>1, <4>2
    <3>7. ASSUME reg'[u] # None, scan'[u].out = {}, NEW x \in End \ scan'[u].left
          PROVE  Reportable(x)' => NotifyAhead(x)'
      <4>1. reg[u] = Ep /\ reg'[u] = Ep
        BY <3>1, <3>5, <3>7
      <4>2. CASE x # e
        BY <1>0, <1>1, <3>1, <3>6, <3>7, <4>1, <4>2 DEF ScanSeen, Scanning
      <4>3. CASE x = e
        <5>1. CASE ~ scan[u].ready
          <6>1. Alive(e) /\ Ready(e) => NotifyAhead(e)
            BY <1>0, <3>1, <3>2, <3>3, <4>1, <5>1 DEF ScanSeen
          <6>2. Alive(e)' /\ Ready(e)' => NotifyAhead(e)'
            BY <1>3, <4>1, <6>1
          <6> QED BY <4>3, <6>2 DEF Reportable, Listed, Reaped
        <5>2. CASE scan[u].ready
          <6>1. "ET" \in flags[e] /\ ~ scan[u].pending /\ notified' = notified
            BY <3>6, <3>7, <5>2
          <6>2. e \notin notified'
            BY <1>0, <3>2, <3>3, <4>1, <6>1 DEF ScanSeen
          <6> QED BY <3>1, <4>3, <6>1, <6>2 DEF Reportable
        <5> QED BY <5>1, <5>2
      <4> QED BY <4>2, <4>3
    <3> QED BY <3>1, <3>4, <3>5, <3>7 DEF ScanSeen
  <2> QED BY <1>4, <2>1, <2>2, <2>3, <2>4, <2>5, <2>6, <2>7 DEF ScanWay
<1> QED BY <1>5, <1>6

-----------------------------------------------------------------------------
(* The theorems.                                                           *)

\* A thread's call is where its kind can be, and its view of what it watches is
\* in order.
Local(t) == Stage(t) /\ Progress(t) /\ Channels(t) /\ PollSeen(t) /\ ScanSeen(t)

\* The pipe, the descriptions and the instance.
Shared ==
  /\ Ring /\ WritesWhole
  /\ Account /\ Gone /\ HeldWatched
  /\ Scanner /\ FlagSets
  /\ unseen \subseteq End /\ EdgeKept

SafetyInv == IInv /\ Shared /\ \A t \in Thread : Local(t)

\* Nothing is open but the descriptor slots, and no call is in progress.
LEMMA Begins == Init => SafetyInv
<1> SUFFICES ASSUME Init PROVE SafetyInv
  OBVIOUS
<1> USE DEF Init, ReadinessInit, PipeInit
<1>1. IInv
  BY Start
<1>2. Ring /\ WritesWhole
  <2>1. CAPACITY \in Nat \ {0}
    BY PipeAssumption
  <2>2. queue = << >> /\ Len(queue) = 0 /\ queue \in Seq(Bytes) /\ len = 0 /\ 1 .. 0 = {}
    OBVIOUS
  <2> QED BY <2>1, <2>2 DEF Ring, RingIsQueue, WritesWhole, Cells
<1>3. \A t \in Thread : Holds(t) = {}
  BY DEF Holds, NoCall, At, Doing
<1>4. Account
  <2>1. ASSUME NEW d \in Desc PROVE refs[d] = Cardinality(Holders(d)) + Fd(d)
    <3>1. Holders(d) = {}
      BY <1>3 DEF Holders
    <3>2. Cardinality(Holders(d)) = 0
      BY <3>1, FS_EmptySet
    <3> QED BY <3>2 DEF Fd
  <2> QED BY <2>1 DEF Account
<1>5. Gone /\ HeldWatched
  BY DEF Gone, HeldWatched, Closing, Announcing, NoCall
<1>6. Scanner
  BY ThreadAssumption DEF Scanner, ScanShape, Scans, NoScan, Scan, Scanning, NoCall
<1>7. FlagSets /\ unseen \subseteq End /\ EdgeKept
  BY DEF FlagSets, EdgeKept
<1>8. ASSUME NEW t \in Thread PROVE Local(t)
  BY DEF Local, Stage, Progress, Channels, PollSeen, ScanSeen, Scanning, NoCall, Transfers,
     Announcing
<1> QED BY <1>1, <1>2, <1>4, <1>5, <1>6, <1>7, <1>8 DEF SafetyInv, Shared

\* A step that changes nothing.
LEMMA Stutters == SafetyInv /\ UNCHANGED vars => SafetyInv'
<1> SUFFICES ASSUME SafetyInv, UNCHANGED vars PROVE SafetyInv'
  OBVIOUS
<1>1. UNCHANGED <<attached, notified, reg, buffer, head, len, ends, queue, refs, fds, destroyed,
                  pc, op, interests, newest, flags, disabled, eplock, scan, unseen>>
  BY DEF vars, readinessVars, pipeVars, descVars, callVars, epVars
<1>2. IInv'
  BY Steps DEF SafetyInv
<1>3. (Ring /\ WritesWhole)'
  BY <1>1 DEF SafetyInv, Shared, Ring, RingIsQueue, WritesWhole
<1>4. \A t \in Thread : Holds(t)' = Holds(t)
  BY <1>1 DEF Holds, At, Doing
<1>5. Account'
  <2>1. \A d \in Desc : Holders(d)' = Holders(d) /\ Fd(d)' = Fd(d)
    BY <1>1, <1>4 DEF Holders, Fd
  <2> QED BY <1>1, <2>1 DEF SafetyInv, Shared, Account
<1>6. (Gone /\ HeldWatched)'
  BY <1>1 DEF SafetyInv, Shared, Gone, HeldWatched, Closing
<1>7. \A left : First(left)' = First(left)
  BY <1>1 DEF First
<1>8. (Scanner /\ FlagSets)' /\ unseen' \subseteq End
  BY <1>1, <1>7 DEF SafetyInv, Shared, Scanner, ScanShape, Scanning, FlagSets
<1>9. \A e : (Ready(e)' <=> Ready(e)) /\ (Listed(e)' <=> Listed(e))
             /\ (NotifyAhead(e)' <=> NotifyAhead(e)) /\ (Alive(e)' <=> Alive(e))
             /\ (Reportable(e)' <=> Reportable(e))
  BY <1>1 DEF Ready, Space, Listed, Reaped, Alive, NotifyAhead, At, Reportable
<1>10. EdgeKept'
  BY <1>1, <1>9 DEF SafetyInv, Shared, EdgeKept
<1>11. ASSUME NEW t \in Thread PROVE Local(t)'
  <2>1. Stage(t)' /\ Progress(t)' /\ Channels(t)'
    BY <1>1 DEF SafetyInv, Local, Stage, Letting, Closing, Progress, Channels, Scanning
  <2>2. PollSeen(t)'
    BY <1>1, <1>9 DEF SafetyInv, Local, PollSeen
  <2>3. ScanSeen(t)'
    BY <1>1, <1>9 DEF SafetyInv, Local, ScanSeen, Scanning
  <2> QED BY <2>1, <2>2, <2>3 DEF Local
<1> QED BY <1>2, <1>3, <1>5, <1>6, <1>8, <1>10, <1>11 DEF SafetyInv, Shared

\* A step of thread u: the lemmas above, each for its part.
LEMMA Goes ==
  ASSUME SafetyInv, NEW u \in Thread, By(u)
  PROVE  Shared' /\ \A t \in Thread : Local(t)'
<1>0. /\ Shape /\ Ring /\ WritesWhole /\ Account /\ Gone /\ HeldWatched /\ Scanner /\ FlagSets
      /\ unseen \subseteq End /\ EdgeKept
      /\ \A t \in Thread : Stage(t) /\ Progress(t) /\ Channels(t) /\ PollSeen(t) /\ ScanSeen(t)
  BY DEF SafetyInv, Shared, Local, IInv, PInv
<1>1. /\ ScanShape /\ interests \subseteq End /\ len \in 0 .. CAPACITY
      /\ refs \in [Desc -> Nat]
  BY <1>0 DEF Scanner, Ring, Account
<1>2. Others(u) /\ \A t \in Thread \ {u} : scan'[t] = scan[t]
  BY <1>0, <1>1, OthersStay
<1>3. Way(u)
  BY <1>0, Ways
<1>4. Stage(u)' /\ Progress(u)'
  BY <1>0, <1>1, <1>3, LocalKeeps
<1>5. Ring' /\ WritesWhole'
  BY <1>0, RingKeeps
<1>6. Account' /\ \A d \in Desc : refs[d] = 0 => refs'[d] = 0
  BY <1>0, <1>1, <1>2, <1>3, <1>4, AccountKeeps
<1>7. Gone'
  BY <1>0, <1>1, <1>2, <1>3, <1>4, GoneKeeps
<1>8. HeldWatched'
  BY <1>0, <1>2, <1>3, HeldKeeps
<1>9. Scanner'
  BY <1>0, <1>2, <1>3, <1>4, ScannerKeeps
<1>10. EdgeKept' /\ FlagSets' /\ unseen' \subseteq End
  BY <1>0, <1>1, <1>2, EdgeKeeps
<1>11. Local(u)'
  <2>1. PollSeen(u)' /\ (pc'[u] \in {"query", "commit", "blocked"} /\ op'[u].kind = "poll" =>
                            reg'[u] \in {u, None})
    BY <1>0, <1>2, <1>3, PollView
  <2>2. /\ ScanSeen(u)'
        /\ (pc'[u] \in {"lock", "commit", "blocked"} /\ op'[u].kind = "wait") \/ Scanning(u)' =>
             reg'[u] \in {Ep, None}
    BY <1>0, <1>1, <1>2, <1>3, <1>4, <1>6, ScanView
  <2>3. Channels(u)'
    BY <2>1, <2>2 DEF Channels
  <2> QED BY <1>4, <2>1, <2>2, <2>3 DEF Local
<1>12. ASSUME NEW t \in Thread, t # u PROVE Local(t)'
  <2>1. pc'[t] = pc[t] /\ op'[t] = op[t] /\ scan'[t] = scan[t]
    BY <1>2, <1>12 DEF Others
  <2>2. Stage(t)' /\ Progress(t)'
    BY <1>0, <2>1 DEF Stage, Letting, Closing, Progress
  <2>3. op[t].back = "report" => op[t].end \in End
    <3>1. op[t].kind \in Kinds
      BY <1>0 DEF Shape, CallShape
    <3> QED BY <1>0, <3>1 DEF Stage, Kinds, Transfers
  <2>4. Channels(t)' /\ PollSeen(t)' /\ ScanSeen(t)'
    BY <1>0, <1>1, <1>2, <1>6, <1>12, <2>1, <2>3, ViewStays
  <2> QED BY <2>2, <2>4 DEF Local
<1> QED BY <1>5, <1>6, <1>7, <1>8, <1>9, <1>10, <1>11, <1>12 DEF Shared

\* The inductive invariant of a pipe, its descriptions, poll() and an epoll
\* instance, together.
THEOREM SafetyInvariance == Spec => []SafetyInv
<1>1. SafetyInv /\ [Next]_vars => SafetyInv'
  <2> SUFFICES ASSUME SafetyInv, [Next]_vars PROVE SafetyInv'
    OBVIOUS
  <2>1. CASE UNCHANGED vars
    BY <2>1, Stutters
  <2>2. CASE Next
    <3>1. PICK u \in Thread : By(u)
      BY <2>2 DEF Next, By
    <3>2. IInv'
      BY Steps DEF SafetyInv
    <3> QED BY <3>1, <3>2, Goes DEF SafetyInv
  <2> QED BY <2>1, <2>2
<1> QED BY <1>1, Begins, PTL DEF Spec

\* Pipe.read and Pipe.write use the buffer as a queue: from head on it holds the
\* bytes written and not yet read, in order, however often it has gone round.
THEOREM BufferIsQueue == Spec => []RingIsQueue
<1>1. SafetyInv => RingIsQueue
  BY DEF SafetyInv, Shared, Ring
<1> QED BY <1>1, SafetyInvariance, PTL

\* Pipe.write keeps the promise of ATOMIC_WRITE: no other writer's bytes come
\* between those of a small write, whatever the sizes and the number of writers.
THEOREM SmallWritesWhole == Spec => []WritesWhole
<1>1. SafetyInv => WritesWhole
  BY DEF SafetyInv, Shared
<1> QED BY <1>1, SafetyInvariance, PTL

\* No lost wake-up in poll and epoll_wait (epoll.zig), for any set of entries,
\* flags and calls: while they sleep, what they watch is not ready or about to
\* be announced.
THEOREM PollersWoken == Spec => []WatchersWoken
<1>1. SafetyInv => WatchersWoken
  BY DEF SafetyInv, Local, PollSeen, ScanSeen, WatchersWoken, Waiting, Doing
<1> QED BY <1>1, SafetyInvariance, PTL

\* scanLocked never loses an edge of an EPOLLET interest, although it reads
\* `pending` before it looks at the pipe and clears it after.
THEOREM EdgesKept == Spec => []EdgeKept
<1>1. SafetyInv => EdgeKept
  BY DEF SafetyInv, Shared
<1> QED BY <1>1, SafetyInvariance, PTL

\* Every reference on a description (fd.zig) belongs to a descriptor slot or to
\* one call in progress, so that none is freed in use and no watcher dangles.
THEOREM NothingDanglesEver == Spec => []NoDangling
<1>1. SafetyInv => NoDangling
  BY NothingDangles DEF SafetyInv, Shared
<1> QED BY <1>1, SafetyInvariance, PTL
=============================================================================
