-------------------------------- MODULE Pipe --------------------------------
(***************************************************************************)
(* Pipes (kernel/ipc/pipe.zig), the open file descriptions that hold their *)
(* ends (fs/fd.zig) and poll() on them (ipc/epoll.zig).                    *)
(*                                                                         *)
(* One pipe.  Its two ends, and the epoll instance that Epoll adds, are    *)
(* open file descriptions: a descriptor slot holds one reference and every *)
(* call in progress another, and the last reference closes the end.  A     *)
(* call is a sequence of steps, one for each lock it takes: `pc` says which *)
(* is next.  A change of the pipe is announced after its lock is released, *)
(* in three further steps (changed): the channel, then the watchers of     *)
(* each end.                                                               *)
(***************************************************************************)
EXTENDS Readiness

CONSTANTS
  CAPACITY,       \* size of the ring buffer
  ATOMIC_WRITE,   \* writes of up to this many bytes are atomic
  Ops,            \* the calls each thread may make, with their arguments
  Interruptible,  \* threads that signals are sent to
  MaxWrites       \* number of write calls, in all

Desc == End \cup {Ep}
(***************************************************************************)
(* A call: its arguments and its local variables.                          *)
(***************************************************************************)
Kinds == {"none", "read", "write", "close", "poll", "wait", "ctl"}
Calls ==
  [kind : Kinds,
   size : Nat, nonblock : BOOLEAN,           \* read, write
   entries : SUBSET End,                     \* poll
   timeout : {"zero", "some", "forever", "over"},  \* poll, epoll_wait
   max : Nat,                                \* epoll_wait
   what : {"add", "mod", "del"}, flags : SUBSET {"ET", "ONESHOT"},  \* epoll_ctl
   done : Nat,                               \* write
   left : SUBSET End, held : SUBSET End, hit : BOOLEAN,  \* poll
   end : Desc,                               \* the description to release next
   then : {"release", "prepare", "free"},    \* what follows changed()
   gone : BOOLEAN,                           \* closeEnd is to free the pipe
   back : {"return", "unwatch", "put", "report"}]  \* what follows release()

NoCall ==
  [kind |-> "none", size |-> 0, nonblock |-> FALSE, entries |-> {}, timeout |-> "forever",
   max |-> 0, what |-> "add", flags |-> {},
   done |-> 0, left |-> {}, held |-> {}, hit |-> FALSE,
   end |-> Ep, then |-> "release", gone |-> FALSE, back |-> "return"]
Call(kind, d) == [NoCall EXCEPT !.kind = kind, !.end = d]

\* The calls programs make.  A buffer of length 0 returns at once.
ReadCall(n, nb) == [Call("read", "r") EXCEPT !.size = n, !.nonblock = nb]
WriteCall(n, nb) == [Call("write", "w") EXCEPT !.size = n, !.nonblock = nb]
CloseCall(d) == Call("close", d)
PollCall(s, timeout) ==
  [Call("poll", Ep) EXCEPT !.entries = s, !.left = s, !.timeout = timeout, !.back = "unwatch"]
WaitCall(max, timeout) == [Call("wait", Ep) EXCEPT !.max = max, !.timeout = timeout]
CtlCall(what, e, f) == [Call("ctl", e) EXCEPT !.what = what, !.flags = f, !.back = "put"]

\* A call starts with its local variables as the constructors above leave them.
\* The kernel refuses epoll_wait for no events and epoll_ctl of an instance on
\* itself before anything else.
Fresh(c) ==
  /\ c.done = 0 /\ c.held = {} /\ ~ c.hit /\ ~ c.gone
  /\ c.then = "release"
  /\ c.kind = "read" => c.end = "r"
  /\ c.kind = "write" => c.end = "w"
  /\ c.kind = "wait" => c.end = Ep /\ c.max > 0
  /\ c.kind = "ctl" => c.end \in End
  /\ c.kind = "poll" => c.left = c.entries
  /\ c.back = IF c.kind = "poll" THEN "unwatch"
              ELSE IF c.kind = "ctl" THEN "put" ELSE "return"

ASSUME PipeAssumption ==
  /\ CAPACITY \in Nat \ {0}
  /\ ATOMIC_WRITE \in 1 .. CAPACITY
  /\ DOMAIN Ops = Thread
  /\ \A t \in Thread : \A c \in Ops[t] : c \in Calls /\ Fresh(c)
  /\ Interruptible \subseteq Thread
  /\ MaxWrites \in Nat

VARIABLES
  buffer, head, len,   \* the ring buffer
  ends,      \* Pipe.readers and Pipe.writers
  freed,     \* the pipe has been freed
  refs,      \* Description.refs
  fds,       \* descriptor slots in use
  destroyed, \* descriptions that have been freed
  pc,        \* the next step of each thread's call
  op,        \* the call's arguments and local variables
  intr,      \* threads with a kill or a caught signal pending
  writes,    \* number of write calls so far
  queue      \* history: the bytes written and not yet read

pipeVars == <<buffer, head, len, ends, freed, queue>>
descVars == <<refs, fds, destroyed>>
callVars == <<pc, op, intr, writes>>

Cells == 0 .. CAPACITY - 1

\* A byte is told apart by the call that wrote it and its place in it.
Byte(t, i, n) == [by |-> t, at |-> i, of |-> n]
Blank == Byte(None, 0, 0)

PipeInit ==
  /\ buffer = [i \in Cells |-> Blank]
  /\ head = 0 /\ len = 0
  /\ ends = [e \in End |-> 1]
  /\ freed = FALSE
  /\ refs = [d \in Desc |-> 1]
  /\ fds = Desc
  /\ destroyed = {}
  /\ pc = [t \in Thread |-> "user"]
  /\ op = [t \in Thread |-> NoCall]
  /\ intr = {}
  /\ writes = 0
  /\ queue = << >>

Goto(t, where) == pc' = [pc EXCEPT ![t] = where]
At(t, where) == pc[t] = where
Doing(t, kind) == op[t].kind = kind
\* The call of t goes on with the local variables c.
Locals(t, c) == op' = [op EXCEPT ![t] = c]

-----------------------------------------------------------------------------
(* Entering and leaving a call.                                            *)

\* lookup: the description behind the slot, with a reference for the caller.
Lookup(d) == d \in fds /\ refs' = [refs EXCEPT ![d] = @ + 1]

Enter(t, c, kind, where) ==
  /\ At(t, "user") /\ c \in Ops[t] /\ c.kind = kind
  /\ Goto(t, where)
  /\ Locals(t, c)

\* The call is over: back in user mode, where a pending signal is delivered.
Return(t) ==
  /\ Goto(t, "user")
  /\ Locals(t, NoCall)
  /\ intr' = intr \ {t}

\* What follows release().
GoBack(t) ==
  IF op[t].back = "return"
    THEN Return(t)
    ELSE Goto(t, op[t].back) /\ UNCHANGED <<op, intr>>

\* A kill or a caught signal: published, and a blocked thread woken.
Interrupt(t) ==
  /\ t \in Interruptible /\ ~ At(t, "user") /\ t \notin intr
  /\ intr' = intr \cup {t}
  /\ reg' = [reg EXCEPT ![t] = IF At(t, "blocked") THEN None ELSE @]
  /\ UNCHANGED <<attached, notified, pipeVars, descVars, pc, op, writes>>

-----------------------------------------------------------------------------
(* The wait loop shared by read, write, poll and epoll_wait.               *)

ChannelOf(t) ==
  IF Doing(t, "poll") THEN t
  ELSE IF Doing(t, "wait") THEN Ep ELSE Pipe

\* prepareWait comes before the look at the state, each time round the loop.
PrepareWait(t) ==
  /\ At(t, "prepare") \/ (At(t, "blocked") /\ reg[t] = None)
  /\ Registered(t, ChannelOf(t))
  /\ IF Doing(t, "poll")
       THEN Goto(t, "query") /\ Locals(t, [op[t] EXCEPT !.left = op[t].entries, !.hit = FALSE])
       ELSE Goto(t, IF Doing(t, "wait") THEN "lock" ELSE "test") /\ UNCHANGED op
  /\ UNCHANGED <<attached, notified, pipeVars, descVars, intr, writes>>

\* Where the call leaves the loop: poll lets go of its watchers first.
Leave(t) ==
  /\ Unregistered(t)
  /\ Goto(t, IF Doing(t, "poll") THEN "unwatch" ELSE "release")

TimedOut(t) == op[t].timeout = "over"

\* interruptPending and remaining end the call; else commitWait, which does
\* not stop the thread if a wake-up has taken it off the channel.
CommitWait(t) ==
  /\ At(t, "commit")
  /\ \/ (t \in intr \/ TimedOut(t)) /\ Leave(t)
     \/ t \notin intr /\ ~ TimedOut(t) /\ UNCHANGED reg /\ Goto(t, "blocked")
  /\ UNCHANGED <<attached, notified, pipeVars, descVars, op, intr, writes>>

\* The deadline of poll or epoll_wait passes.
Deadline(t) ==
  /\ op[t].timeout = "some"
  /\ Locals(t, [op[t] EXCEPT !.timeout = "over"])
  /\ reg' = [reg EXCEPT ![t] = IF At(t, "blocked") THEN None ELSE @]
  /\ UNCHANGED <<attached, notified, pipeVars, descVars, pc, intr, writes>>

-----------------------------------------------------------------------------
(* Reading and writing.                                                    *)

BeginRead(t, c) ==
  /\ Enter(t, c, "read", "prepare") /\ Lookup("r")
  /\ UNCHANGED <<readinessVars, pipeVars, fds, destroyed, intr, writes>>

BeginWrite(t, c) ==
  /\ Enter(t, c, "write", "prepare") /\ Lookup("w")
  /\ writes < MaxWrites
  /\ writes' = writes + 1
  /\ UNCHANGED <<readinessVars, pipeVars, fds, destroyed, intr>>

Least(a, b) == IF a < b THEN a ELSE b

\* Mutant: a read that makes room tells nobody.
ReadTestQuietly(t) ==
  LET count == Least(op[t].size, len) IN
  /\ At(t, "test") /\ Doing(t, "read")
  /\ \/ /\ len > 0
        /\ head' = (head + count) % CAPACITY
        /\ len' = len - count
        /\ queue' = SubSeq(queue, count + 1, Len(queue))
        /\ Unregistered(t) /\ Goto(t, "release")
     \/ /\ len = 0
        /\ UNCHANGED <<head, len, queue>>
        /\ IF ends["w"] = 0 \/ op[t].nonblock
             THEN Leave(t)
             ELSE UNCHANGED reg /\ Goto(t, "commit")
  /\ UNCHANGED <<attached, notified, buffer, ends, freed, descVars, op, intr, writes>>

\* read, under the pipe's lock.
ReadTest(t) ==
  LET count == Least(op[t].size, len) IN
  /\ At(t, "test") /\ Doing(t, "read")
  /\ \/ /\ len > 0
        /\ head' = (head + count) % CAPACITY
        /\ len' = len - count
        /\ queue' = SubSeq(queue, count + 1, Len(queue))
        /\ Unregistered(t) /\ Goto(t, "wake")
     \/ /\ len = 0
        /\ UNCHANGED <<head, len, queue>>
        /\ IF ends["w"] = 0 \/ op[t].nonblock
             THEN Leave(t)
             ELSE UNCHANGED reg /\ Goto(t, "commit")
  /\ UNCHANGED <<attached, notified, buffer, ends, freed, descVars, op, intr, writes>>

\* Mutant: a small write starts as soon as one byte fits.
NeededOne(c) == 1

\* How much room a write waits for: all it still has to write if it is small.
Needed(c) == IF c.size <= ATOMIC_WRITE THEN c.size - c.done ELSE 1
Space == CAPACITY - len

\* Mutant: the second of the two copies is missing.
FillUnwrapped(t, count) ==
  LET tail == (head + len) % CAPACITY
      after(i) == (i - tail + CAPACITY) % CAPACITY
      byte(k) == Byte(t, op[t].done + k, op[t].size)
  IN /\ buffer' = [i \in Cells |->
                     IF after(i) < count /\ i >= tail THEN byte(after(i) + 1) ELSE buffer[i]]
     /\ len' = len + count
     /\ queue' = queue \o [k \in 1 .. count |-> byte(k)]

\* Copy `count` bytes of t's data in after the last one, around the end.
Fill(t, count) ==
  LET tail == (head + len) % CAPACITY
      after(i) == (i - tail + CAPACITY) % CAPACITY
      byte(k) == Byte(t, op[t].done + k, op[t].size)
  IN /\ buffer' = [i \in Cells |->
                     IF after(i) < count THEN byte(after(i) + 1) ELSE buffer[i]]
     /\ len' = len + count
     /\ queue' = queue \o [k \in 1 .. count |-> byte(k)]

\* write, under the pipe's lock.
WriteTest(t) ==
  LET remaining == op[t].size - op[t].done
      count == Least(Space, remaining)
  IN
  /\ At(t, "test") /\ Doing(t, "write")
  /\ \/ /\ ends["r"] = 0
        /\ Leave(t) /\ UNCHANGED <<buffer, len, queue, op>>
     \/ /\ ends["r"] # 0 /\ Space >= Needed(op[t])
        /\ Fill(t, count)
        /\ Locals(t, [op[t] EXCEPT !.done = @ + count,
                                   !.then = IF count = remaining THEN "release" ELSE "prepare"])
        /\ Unregistered(t) /\ Goto(t, "wake")
     \/ /\ ends["r"] # 0 /\ ~ (Space >= Needed(op[t]))
        /\ IF op[t].nonblock
             THEN Leave(t)
             ELSE UNCHANGED reg /\ Goto(t, "commit")
        /\ UNCHANGED <<buffer, len, queue, op>>
  /\ UNCHANGED <<attached, notified, head, ends, freed, descVars, intr, writes>>

\* changed(): wake the channel, then notify both ends' watchers.
ChangedWake(t) ==
  /\ At(t, "wake")
  /\ Woken({Pipe}) /\ Goto(t, "notify_r")
  /\ UNCHANGED <<attached, notified, pipeVars, descVars, op, intr, writes>>

\* Mutant: only the watchers of the read end are told.
ChangedNotifyRead(t) ==
  /\ \/ At(t, "notify_r") /\ Notify("r") /\ Goto(t, "notify_w")
     \/ At(t, "notify_w") /\ UNCHANGED readinessVars /\ Goto(t, op[t].then)
  /\ UNCHANGED <<pipeVars, descVars, op, intr, writes>>

ChangedNotify(t) ==
  /\ \/ At(t, "notify_r") /\ Notify("r") /\ Goto(t, "notify_w")
     \/ At(t, "notify_w") /\ Notify("w") /\ Goto(t, op[t].then)
  /\ UNCHANGED <<pipeVars, descVars, op, intr, writes>>

-----------------------------------------------------------------------------
(* Releasing a description and closing an end.                             *)

\* close: the slot goes, its reference is the caller's to release.
BeginClose(t, c) ==
  /\ Enter(t, c, "close", "release") /\ c.end \in fds
  /\ fds' = fds \ {c.end}
  /\ UNCHANGED <<readinessVars, pipeVars, refs, destroyed, intr, writes>>

Release(t) ==
  LET d == op[t].end IN
  /\ At(t, "release")
  /\ refs' = [refs EXCEPT ![d] = @ - 1]
  /\ IF refs[d] > 1
       THEN GoBack(t)
       ELSE /\ Goto(t, IF d = Ep THEN "destroy" ELSE "detach")
            /\ UNCHANGED <<op, intr>>
  /\ UNCHANGED <<readinessVars, pipeVars, fds, destroyed, writes>>

CloseDetach(t) ==
  /\ At(t, "detach")
  /\ DetachAll(op[t].end)
  /\ Goto(t, "drop")
  /\ UNCHANGED <<pipeVars, descVars, op, intr, writes>>

\* closeEnd, under the pipe's lock.
CloseDrop(t) ==
  LET e == op[t].end IN
  /\ At(t, "drop")
  /\ ends' = [ends EXCEPT ![e] = @ - 1]
  /\ Locals(t, [op[t] EXCEPT !.gone = (\A x \in End : ends'[x] = 0), !.then = "free"])
  /\ Goto(t, "wake")
  /\ UNCHANGED <<readinessVars, buffer, head, len, freed, queue, descVars, intr, writes>>

\* The last of the two closes frees the pipe; then the description goes.
CloseFree(t) ==
  /\ At(t, "free")
  /\ freed' = (freed \/ op[t].gone)
  /\ destroyed' = destroyed \cup {op[t].end}
  /\ GoBack(t)
  /\ UNCHANGED <<readinessVars, buffer, head, len, ends, queue, refs, fds, writes>>

-----------------------------------------------------------------------------
(* poll().                                                                 *)

\* readinessOf for an end, restricted to the events asked for and ALWAYS:
\* IN and HUP of the read end, OUT and ERR of the write end.
Ready(e) ==
  IF e = "r" THEN len > 0 \/ ends["w"] = 0
  ELSE ends["r"] = 0 \/ Space >= ATOMIC_WRITE

\* Entries are visited in the order of the array.
Next1(left) == IF "r" \in left THEN "r" ELSE "w"
Entry(t, e) == [owner |-> t, on |-> e]

BeginPoll(t, c) ==
  /\ Enter(t, c, "poll", "watch")
  /\ UNCHANGED <<readinessVars, pipeVars, descVars, intr, writes>>

\* Look the next descriptor up and watch it; a closed one is left as NVAL.
PollWatch(t) ==
  LET e == Next1(op[t].left) IN
  /\ At(t, "watch")
  /\ IF op[t].left = {}
       THEN Goto(t, "prepare") /\ UNCHANGED <<attached, refs, op>>
       ELSE /\ UNCHANGED pc
            /\ IF e \in fds
                 THEN /\ Lookup(e) /\ AttachLocked(Entry(t, e))
                      /\ Locals(t, [op[t] EXCEPT !.left = @ \ {e}, !.held = @ \cup {e}])
                 ELSE /\ Locals(t, [op[t] EXCEPT !.left = @ \ {e}])
                      /\ UNCHANGED <<attached, refs>>
  /\ UNCHANGED <<notified, reg, pipeVars, fds, destroyed, intr, writes>>

PollQuery(t) ==
  LET e == Next1(op[t].left) IN
  /\ At(t, "query")
  /\ IF op[t].left # {}
       THEN /\ Locals(t, [op[t] EXCEPT !.left = @ \ {e},
                                       !.hit = @ \/ e \notin op[t].held \/ Ready(e)])
            /\ UNCHANGED <<pc, reg>>
       ELSE /\ IF op[t].hit \/ op[t].timeout = "zero"
                 THEN Leave(t)
                 ELSE UNCHANGED reg /\ Goto(t, "commit")
            /\ UNCHANGED op
  /\ UNCHANGED <<attached, notified, pipeVars, descVars, intr, writes>>

\* The deferred loop: stop watching, let the description go, entry by entry.
PollUnwatch(t) ==
  LET e == Next1(op[t].held) IN
  /\ At(t, "unwatch")
  /\ IF op[t].held = {}
       THEN Return(t) /\ UNCHANGED attached
       ELSE /\ DetachLocked({Entry(t, e)})
            /\ Locals(t, [op[t] EXCEPT !.held = @ \ {e}, !.end = e])
            /\ Goto(t, "release") /\ UNCHANGED intr
  /\ UNCHANGED <<notified, reg, pipeVars, descVars, writes>>

-----------------------------------------------------------------------------
(* The steps of a call in progress, and what starts one.                   *)

Step(t) ==
  \/ PrepareWait(t) \/ CommitWait(t)
  \/ ReadTest(t) \/ WriteTest(t) \/ ChangedWake(t) \/ ChangedNotify(t)
  \/ Release(t) \/ CloseDetach(t) \/ CloseDrop(t) \/ CloseFree(t)
  \/ PollWatch(t) \/ PollQuery(t) \/ PollUnwatch(t)

Begin(t) ==
  \E c \in Ops[t] : BeginRead(t, c) \/ BeginWrite(t, c) \/ BeginClose(t, c) \/ BeginPoll(t, c)

Disturb(t) == Interrupt(t) \/ Deadline(t)
=============================================================================
