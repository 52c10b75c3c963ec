------------------------------- MODULE Posix -------------------------------
(***************************************************************************)
(* Programs and the kernel calls they make, one call a step: descriptor    *)
(* tables and open file descriptions (fs/fd.zig), pipes, eventfds, local   *)
(* socket pairs with descriptor passing (ipc/unix_socket.zig), epoll and   *)
(* poll, record locks, posix_spawn, threads and exit.                      *)
(*                                                                         *)
(* A program is a sequence of instructions, each a call with the results   *)
(* it must have; from AnyFrom on, a thread makes any of the calls left, in *)
(* any order, whatever they return.  A call that cannot complete keeps its *)
(* references and sleeps until it can: that no wake-up is lost in between  *)
(* is shown by Pipe and Epoll at a finer grain.  Record locks are the      *)
(* exception, whose waiters are woken by every change and look again on    *)
(* their own; a read or write of a file takes a step for each of its three *)
(* locks.  Writes to a pipe are of PIPE_BUF bytes at most; Pipe has the    *)
(* longer ones.                                                            *)
(***************************************************************************)
EXTENDS Integers, Sequences, FiniteSets, FiniteSetsExt, SequencesExt, TLC, RecordLocks

CONSTANTS
  Program,     \* name -> sequence of instructions
  AnyFrom,     \* name -> the instruction from which any of the rest is next
  MAX_OPEN,    \* descriptors of a program
  CAPACITY,    \* bytes a pipe holds
  ATOMIC_WRITE,\* PIPE_BUF
  QUEUE,       \* bytes a socket queue holds (CAPACITY of unix_socket.zig)
  MAX_COUNT,   \* an eventfd counter's largest value
  DATA,        \* the paths of files on the volume kept on a disk
  MAX_THREADS, \* MAX_THREADS_PER_PROCESS of sched.zig
  LINGERING    \* bound: the programs whose threads take a step to leave the kernel

ASSUME PosixAssumption ==
  /\ DOMAIN AnyFrom \subseteq DOMAIN Program
  /\ {MAX_OPEN, CAPACITY, ATOMIC_WRITE, QUEUE, MAX_COUNT, TO_END, WAITING, MAX_THREADS} \subseteq Nat \ {0}
  /\ ATOMIC_WRITE <= CAPACITY

VARIABLES
  tables,   \* process -> descriptor -> [desc, cloexec]
  descs,    \* open file descriptions
  objects,  \* pipes, eventfds, socket pairs and epoll instances
  files,    \* inode -> its path ("" once unlinked), contents, and if on /data
  locks,    \* record locks, newest first
  notes,    \* thread asleep in F_SETLKW -> the owner waiting and the one waited for
  procs,    \* process -> its parent and how it ended
  threads,
  memory    \* process -> variable -> value

vars == <<tables, descs, objects, files, locks, notes, procs, threads, memory>>

Now == [tables |-> tables, descs |-> descs, objects |-> objects, files |-> files, locks |-> locks,
        notes |-> notes, procs |-> procs, threads |-> threads, memory |-> memory]
Become(next) ==
  \E g \in {next} :
    /\ tables' = g.tables /\ descs' = g.descs /\ objects' = g.objects /\ files' = g.files
    /\ locks' = g.locks /\ notes' = g.notes /\ procs' = g.procs /\ threads' = g.threads
    /\ memory' = g.memory

EPERM == -1
ENOENT == -2
EIO == -5
EBADF == -9
ECHILD == -10
EAGAIN == -11
EEXIST == -17
EXDEV == -18
EINVAL == -22
EMFILE == -24
ESPIPE == -29
EPIPE == -32
EDEADLK == -35
ENOTSOCK == -88
EMSGSIZE == -90
Sleeps == -1000   \* the call cannot complete yet

\* What a call does: the state it leaves, its result, the bytes it read and
\* what else it stores in the program's memory.
Out(g, r) == [g |-> g, r |-> r, data |-> <<>>, vals |-> <<r>>]
Read(g, data) == [Out(g, Len(data)) EXCEPT !.data = data, !.vals = <<data>>]
With(f, x, y) == (x :> y) @@ f
Without(f, x) == [z \in DOMAIN f \ {x} |-> f[z]]
Unused(f) == CHOOSE n \in 1 .. Cardinality(DOMAIN f) + 1 :
               n \notin DOMAIN f /\ \A m \in 1 .. n - 1 : m \in DOMAIN f
Prefix(s, n) == SubSeq(s, 1, Min({n, Len(s)}))
Beyond(s, n) == SubSeq(s, n + 1, Len(s))
Smaller(a, b) == IF a < b THEN a ELSE b

-----------------------------------------------------------------------------
(* Objects and who is told of their changes.                               *)

\* readiness.notify on an object's sources: epoll interests become pending.
Notify(g, o) ==
  LET Told(i) == IF g.descs[i.desc].object = o THEN [i EXCEPT !.pending = TRUE] ELSE i
  IN  [g EXCEPT !.objects = [n \in DOMAIN @ |->
        IF "interests" \in DOMAIN @[n]
        THEN [@[n] EXCEPT !.interests = [k \in DOMAIN @ |-> Told(@[k])]] ELSE @[n]]]

Changed(g, o, object) == Notify([g EXCEPT !.objects[o] = object], o)

\* readiness.detachAll: the interests in a description that closes are gone.
DetachAll(g, d) ==
  [g EXCEPT !.objects = [n \in DOMAIN @ |->
     IF "interests" \in DOMAIN @[n]
     THEN [@[n] EXCEPT !.interests = SelectSeq(@, LAMBDA i : i.desc # d)] ELSE @[n]]]

\* wakeChannel on the lock table's channel.
WakeLockWaiters(g) ==
  [g EXCEPT !.threads = [t \in DOMAIN @ |->
     IF @[t].at = "locked" THEN [@[t] EXCEPT !.at = "woken"] ELSE @[t]]]

\* Seeded fault: the waiters are told of nothing.
DropLocksQuietly(g, left) == [g EXCEPT !.locks = left]

\* releaseMatching: the waiters are told only if a lock went.
DropLocks(g, left) ==
  IF left = g.locks THEN g ELSE WakeLockWaiters([g EXCEPT !.locks = left])

RECURSIVE Release(_, _)

ReleaseEach(g, held) ==
  LET gone == SelectSeq(held, LAMBDA d : d # 0)
  IN  FoldLeft(LAMBDA h, d : Release(h, d), g, gone)

pipe_closeEnd(g, o, side) ==
  LET p == [g.objects[o] EXCEPT ![side] = @ - 1]
  IN  IF p.readers = 0 /\ p.writers = 0 THEN [g EXCEPT !.objects = Without(@, o)]
      ELSE Changed(g, o, p)

\* A pair goes with its second end, once its changes have been told.  If the
\* second end was in flight in the pair's own queue, releasing it has taken the
\* pair before (README, Findings); no scene comes there.
Shut(g, o, end) == [g EXCEPT !.objects[o].open[end] = FALSE, !.objects[o].queues[end] = <<>>]
EndsOpen(g, o) == {end \in 1 .. 2 : g.objects[o].open[end]}
PairTold(g, o, gone) ==
  LET told == Notify(g, o)
  IN  IF gone THEN [told EXCEPT !.objects = Without(@, o)] ELSE told

\* Seeded fault: the descriptions in flight are forgotten with their messages.
socket_closeEnd_forgets(g, o, end) == PairTold(Shut(g, o, end), o, EndsOpen(g, o) = {end})

\* Discards what was sent to the end, with the descriptions in flight.  That the
\* pair is gone is decided under its lock, before they are released.
socket_closeEnd(g, o, end) ==
  LET queue == g.objects[o].queues[end]
      rights == FlattenSeq([n \in DOMAIN queue |-> queue[n].rights])
      gone == EndsOpen(g, o) = {end}
  IN  PairTold(ReleaseEach(Shut(g, o, end), rights), o, gone)

\* An unlinked file goes with its last description.
Forget(g, inode) ==
  IF g.files[inode].path = "" /\ \A d \in DOMAIN g.descs : g.descs[d].kind = "node" => g.descs[d].object # inode
  THEN [g EXCEPT !.files = Without(@, inode)] ELSE g

\* Description.release: the last reference closes the object.
Release(g, d) ==
  LET it == g.descs[d]
      h == [DetachAll(g, d) EXCEPT !.descs = Without(@, d)]
  IN  IF it.refs > 1 THEN [g EXCEPT !.descs[d].refs = @ - 1]
      ELSE CASE it.kind = "node" -> Forget(DropLocks(h, ReleasedAll(h.locks, <<"description", d>>)), it.object)
             [] it.kind = "console" -> h
             [] it.kind = "pipe_read" -> pipe_closeEnd(h, it.object, "readers")
             [] it.kind = "pipe_write" -> pipe_closeEnd(h, it.object, "writers")
             [] it.kind \in {"eventfd", "epoll"} -> [h EXCEPT !.objects = Without(@, it.object)]
             [] it.kind = "socket" -> socket_closeEnd(h, it.object, it.end)

Retain(g, held) ==
  FoldLeft(LAMBDA h, d : IF d = 0 THEN h ELSE [h EXCEPT !.descs[d].refs = @ + 1], g, held)

-----------------------------------------------------------------------------
(* Descriptor tables (fs/fd.zig).                                          *)

\* The description behind a descriptor, or 0.
lookup(g, p, fd) == IF fd \in DOMAIN g.tables[p] THEN g.tables[p][fd].desc ELSE 0

Free(g, p, min) == (min .. MAX_OPEN - 1) \ DOMAIN g.tables[p]

\* A new description with the caller's reference.
create(g, kind, object, end, status) ==
  [g EXCEPT !.descs = With(@, Unused(@),
     [refs |-> 1, kind |-> kind, object |-> object, end |-> end, status |-> status, offset |-> 0])]

\* The lowest free descriptor at or above min takes over a reference; without
\* room the reference is released.
install(g, p, d, min, cloexec) ==
  LET fd == Min(Free(g, p, min))
  IN  IF Free(g, p, min) = {} THEN Out(Release(g, d), EMFILE)
      ELSE Out([g EXCEPT !.tables[p] = With(@, fd, [desc |-> d, cloexec |-> cloexec])], fd)

\* POSIX locks on a file go when the process closes any descriptor for it.
closedLocks(g, p, d) ==
  IF g.descs[d].kind = "node"
  THEN DropLocks(g, ReleasedFile(g.locks, g.descs[d].object, <<"process", p>>)) ELSE g

closeFd(g, p, fd) ==
  LET d == lookup(g, p, fd)
      h == [g EXCEPT !.tables[p] = Without(@, fd)]
  IN  IF d = 0 THEN Out(g, EBADF) ELSE Out(Release(closedLocks(h, p, d), d), 0)

dup(g, p, old, min, cloexec) ==
  LET d == lookup(g, p, old)
  IN  IF d = 0 THEN Out(g, EBADF)
      ELSE IF min >= MAX_OPEN THEN Out(g, EINVAL)
      ELSE install(Retain(g, <<d>>), p, d, min, cloexec)

\* dup2: exactly `new`, closing whatever was there.
dupTo(g, p, old, new, cloexec) ==
  LET d == lookup(g, p, old)
      previous == lookup(g, p, new)
      put == [Retain(g, <<d>>) EXCEPT !.tables[p] = With(@, new, [desc |-> d, cloexec |-> cloexec])]
  IN  IF d = 0 \/ new \notin 0 .. MAX_OPEN - 1 THEN Out(g, EBADF)
      ELSE IF old = new THEN Out(g, new)
      ELSE IF previous = 0 THEN Out(put, new)
      ELSE Out(Release(closedLocks(put, p, previous), previous), new)

\* GETFD and SETFD, GETFL and SETFL; only append and nonblock can change.
Flag(b) == IF b THEN 1 ELSE 0
fd_control(g, p, fd, command, arg) ==
  LET d == lookup(g, p, fd)
      changeable == {"append", "nonblock"}
  IN  IF d = 0 THEN Out(g, EBADF)
      ELSE CASE command = "GETFD" -> Out(g, Flag(g.tables[p][fd].cloexec))
             [] command = "SETFD" -> Out([g EXCEPT !.tables[p][fd].cloexec = arg], 0)
             [] command = "GETFL" -> Out(g, Flag("nonblock" \in g.descs[d].status))
             [] command = "SETFL" ->
                  Out([g EXCEPT !.descs[d].status = (@ \ changeable) \cup (arg \intersect changeable)], 0)

\* Two ends of a new object on the two lowest free descriptors; if the second
\* does not fit, the first goes again.
BothOrNone(p, a, b, two) ==
  CASE a.r < 0 -> Out(Release(a.g, two), a.r)
    [] a.r >= 0 /\ b.r < 0 -> Out(closeFd(b.g, p, a.r).g, b.r)
    [] OTHER -> [Out(b.g, 0) EXCEPT !.vals = <<a.r, b.r>>]
InstallPair(g, p, one, two, cloexec) ==
  LET Second(a) == BothOrNone(p, a, install(a.g, p, two, 0, cloexec), two)
  IN  Second(install(g, p, one, 0, cloexec))

Status(flags) == {"read", "write"} \cup (flags \intersect {"nonblock"})
NewObject(g, object) == [g EXCEPT !.objects = With(@, Unused(@), object)]

createPipe(g, p, flags) ==
  LET o == Unused(g.objects)
      h == NewObject(g, [data |-> <<>>, readers |-> 1, writers |-> 1])
      one == Unused(h.descs)
      h1 == create(h, "pipe_read", o, 0, Status(flags) \ {"write"})
      two == Unused(h1.descs)
      h2 == create(h1, "pipe_write", o, 0, Status(flags) \ {"read"})
  IN  InstallPair(h2, p, one, two, "cloexec" \in flags)

createSocketPair(g, p, kind, flags) ==
  LET o == Unused(g.objects)
      two_of(x) == <<x, x>>
      h == NewObject(g, [kind |-> kind, queues |-> two_of(<<>>), open |-> two_of(TRUE),
                         read_shut |-> two_of(FALSE), write_shut |-> two_of(FALSE)])
      one == Unused(h.descs)
      h1 == create(h, "socket", o, 1, Status(flags))
      two == Unused(h1.descs)
      h2 == create(h1, "socket", o, 2, Status(flags))
  IN  InstallPair(h2, p, one, two, "cloexec" \in flags)

\* eventfd and epoll_create: one object, one description.
createSingle(g, p, kind, object, flags) ==
  LET h == NewObject(g, object)
      status == IF kind = "epoll" THEN {"read"} ELSE Status(flags)
  IN  install(create(h, kind, Unused(g.objects), 0, status), p, Unused(h.descs), 0, "cloexec" \in flags)

inodeOf(g, path) == {n \in DOMAIN g.files : g.files[n].path = path}
open(g, p, path, flags) ==
  LET there == inodeOf(g, path)
      inode == IF there = {} THEN Unused(g.files) ELSE CHOOSE n \in there : TRUE
      h == IF there # {} /\ "trunc" \notin flags THEN g
           ELSE [g EXCEPT !.files = With(@, inode, [path |-> path, data |-> <<>>, kept |-> path \in DATA])]
      access == IF "write" \in flags THEN flags \intersect {"read", "write", "append"} ELSE {"read"}
  IN  IF there # {} /\ "excl" \in flags THEN Out(g, EEXIST)
      ELSE IF there = {} /\ "creat" \notin flags THEN Out(g, ENOENT)
      ELSE install(create(h, "node", inode, 0, access), p, Unused(h.descs), 0, "cloexec" \in flags)

\* unlink, and rename over whatever had the new name.
unlink(g, path) ==
  LET inode == CHOOSE n \in inodeOf(g, path) : TRUE
  IN  IF inodeOf(g, path) = {} THEN Out(g, ENOENT)
      ELSE Out(Forget([g EXCEPT !.files[inode].path = ""], inode), 0)
rename(g, from, to) ==
  LET inode == CHOOSE n \in inodeOf(g, from) : TRUE
  IN  IF (from \in DATA) # (to \in DATA) THEN Out(g, EXDEV)
      ELSE IF inodeOf(g, from) = {} THEN Out(g, ENOENT)
      ELSE IF from = to THEN Out(g, 0)
      ELSE Out([unlink(g, to).g EXCEPT !.files[inode].path = to], 0)
stat(g, path) ==
  IF inodeOf(g, path) = {} THEN Out(g, ENOENT) ELSE Out(g, Len(g.files[CHOOSE n \in inodeOf(g, path) : TRUE].data))

-----------------------------------------------------------------------------
(* Reading and writing: what a call on held descriptions does now.         *)

pipe_read(g, o, n, nonblock) ==
  LET p == g.objects[o]
  IN  IF p.data # <<>>
      THEN Read(Changed(g, o, [p EXCEPT !.data = Beyond(@, n)]), Prefix(p.data, n))
      ELSE IF p.writers = 0 THEN Read(g, <<>>)
      ELSE Out(g, IF nonblock THEN EAGAIN ELSE Sleeps)

\* Up to PIPE_BUF bytes: all of them or none.
pipe_write(g, o, data, nonblock) ==
  LET p == g.objects[o]
  IN  IF p.readers = 0 THEN Out(g, EPIPE)
      ELSE IF CAPACITY - Len(p.data) >= Len(data)
      THEN Read(Changed(g, o, [p EXCEPT !.data = @ \o data]), data)
      ELSE Out(g, IF nonblock THEN EAGAIN ELSE Sleeps)

\* A counter is read and written whole; its eight bytes are one value here.
eventfd_read(g, o, nonblock) ==
  LET e == g.objects[o]
      value == IF e.semaphore THEN 1 ELSE e.count
  IN  IF e.count > 0 THEN Read(Changed(g, o, [e EXCEPT !.count = @ - value]), <<value>>)
      ELSE Out(g, IF nonblock THEN EAGAIN ELSE Sleeps)

eventfd_write(g, o, data, nonblock) ==
  LET e == g.objects[o]
  IN  IF MAX_COUNT - e.count >= data[1] THEN Read(Changed(g, o, [e EXCEPT !.count = @ + data[1]]), data)
      ELSE Out(g, IF nonblock THEN EAGAIN ELSE Sleeps)

\* Queues a segment with the descriptions sent along, which it then owns.
send(g, o, from, data, rights, nonblock) ==
  LET s == g.objects[o]
      to == 3 - from
      whole == s.kind # "stream"
      space == QUEUE - FoldLeft(LAMBDA sum, x : sum + Len(x.data), 0, s.queues[to])
      sent == IF whole THEN data ELSE Prefix(data, space)
      queued == [s EXCEPT !.queues[to] = Append(@, [data |-> sent, rights |-> rights])]
  IN  CASE whole /\ Len(data) > QUEUE -> Out(g, EMSGSIZE)
        [] data = <<>> /\ rights = <<>> /\ ~whole -> Out(g, 0)
        [] ~s.open[to] \/ s.read_shut[to] \/ s.write_shut[from] -> Out(g, EPIPE)
        [] IF whole THEN space >= Len(data) ELSE space > 0 \/ data = <<>> ->
             Read(Changed(Retain(g, rights), o, queued), sent)
        [] OTHER -> Out(g, IF nonblock THEN EAGAIN ELSE Sleeps)

\* A stream fills the buffer from several segments but never runs from data
\* into one with descriptions; those of a later segment replace an earlier's.
RECURSIVE TakeStream(_, _, _, _)
TakeStream(queue, n, data, rights) ==
  LET s == Head(queue)
      piece == Prefix(s.data, n - Len(data))
      mine == IF s.rights = <<>> THEN rights ELSE s.rights
      left == Beyond(s.data, Len(piece))
      rest == IF left = <<>> THEN Tail(queue) ELSE <<[data |-> left, rights |-> <<>>]>> \o Tail(queue)
  IN  IF queue = <<>> \/ (data # <<>> /\ s.rights # <<>>)
      THEN [queue |-> queue, data |-> data, rights |-> rights, cut |-> FALSE]
      ELSE IF Len(data \o piece) = n
      THEN [queue |-> rest, data |-> data \o piece, rights |-> mine, cut |-> FALSE]
      ELSE TakeStream(rest, n, data \o piece, mine)

\* One message, cut to the buffer.
TakeMessage(queue, n) ==
  LET s == Head(queue)
  IN  [queue |-> Tail(queue), data |-> Prefix(s.data, n), rights |-> s.rights, cut |-> Len(s.data) > n]

receive(g, o, end, n, nonblock) ==
  LET s == g.objects[o]
      peer == 3 - end
      ended == ~s.open[peer] \/ s.write_shut[peer] \/ s.read_shut[end]
      got == IF s.kind = "stream" THEN TakeStream(s.queues[end], n, <<>>, <<>>)
             ELSE TakeMessage(s.queues[end], n)
      nothing == Out(g, IF ended THEN 0 ELSE IF nonblock THEN EAGAIN ELSE Sleeps)
  IN  IF s.queues[end] # <<>> /\ ~s.read_shut[end]
      THEN Read(Changed(g, o, [s EXCEPT !.queues[end] = got.queue]), got.data)
           @@ [rights |-> got.rights, cut |-> got.cut]
      ELSE nothing @@ [rights |-> <<>>, cut |-> FALSE]

shutdown(g, o, end, how) ==
  Out(Changed(g, o, [g.objects[o] EXCEPT !.read_shut[end] = @ \/ how \in {"read", "both"},
                                         !.write_shut[end] = @ \/ how \in {"write", "both"}]), 0)

\* fd.read: descriptions that come with a socket's data are closed.  A file is
\* read from `from`, where the offset was when the call began.
read(g, d, n, from) ==
  LET it == g.descs[d]
      nonblock == "nonblock" \in it.status
      got == receive(g, it.object, it.end, n, nonblock)
  IN  CASE "read" \notin it.status \/ it.kind = "epoll" -> Out(g, EBADF)
        [] it.kind = "node" -> Read(g, Prefix(Beyond(g.files[it.object].data, from), n))
        [] it.kind = "pipe_read" -> pipe_read(g, it.object, n, nonblock)
        [] it.kind = "eventfd" -> eventfd_read(g, it.object, nonblock)
        [] it.kind = "socket" -> [got EXCEPT !.g = ReleaseEach(@, got.rights)]

\* A file's contents once `data` is written at an offset, and once it is cut
\* or grown: a hole reads as zeros.
Longer(a, b) == IF a > b THEN a ELSE b
Written(old, at, data) ==
  [k \in 1 .. Longer(at + Len(data), Len(old)) |->
     IF k > at /\ k <= at + Len(data) THEN data[k - at] ELSE IF k <= Len(old) THEN old[k] ELSE 0]
Truncated(old, length) == Written(Prefix(old, length), length, <<>>)

\* Seeded fault: appending starts where the description was left.
own_offset(g, d, from) == from

\* Where fd.write writes a file: where the offset was when the call began, or
\* at the end when appending.
write_position(g, d, from) ==
  IF "append" \in g.descs[d].status THEN Len(g.files[g.descs[d].object].data) ELSE from

write(g, d, data, from) ==
  LET it == g.descs[d]
      nonblock == "nonblock" \in it.status
      at == write_position(g, d, from)
  IN  CASE "write" \notin it.status -> Out(g, EBADF)
        [] it.kind = "node" -> Read([g EXCEPT !.files[it.object].data = Written(@, at, data)], data)
        [] it.kind = "console" -> Read(g, data)
        [] it.kind = "pipe_write" -> pipe_write(g, it.object, data, nonblock)
        [] it.kind = "eventfd" -> eventfd_write(g, it.object, data, nonblock)
        [] it.kind = "socket" -> send(g, it.object, it.end, data, <<>>, nonblock)

\* pread, pwrite and ftruncate leave the offset alone.
readAtOffset(g, d, offset, n) ==
  LET it == g.descs[d]
  IN  IF "read" \notin it.status THEN Out(g, EBADF)
      ELSE IF it.kind # "node" THEN Out(g, ESPIPE)
      ELSE Read(g, Prefix(Beyond(g.files[it.object].data, offset), n))
writeAtOffset(g, d, offset, data) ==
  LET it == g.descs[d]
  IN  IF "write" \notin it.status THEN Out(g, EBADF)
      ELSE IF it.kind # "node" THEN Out(g, ESPIPE)
      ELSE Read([g EXCEPT !.files[it.object].data = Written(@, offset, data)], data)
truncate(g, d, length) ==
  LET it == g.descs[d]
  IN  IF "write" \notin it.status \/ it.kind # "node" THEN Out(g, EINVAL)
      ELSE Out([g EXCEPT !.files[it.object].data = Truncated(@, length)], 0)

\* fsync of a file that is not on the volume has nothing to save; the others
\* end as Persist has it.  sync names no file.
sysFsSync(g, d) ==
  IF d # 0 /\ (g.descs[d].kind # "node" \/ ~g.files[g.descs[d].object].kept) THEN Out(g, 0) ELSE Out(g, Sleeps)

\* lseek: offset is relative to `base`, one of "set", "current" and "end".
seek(g, d, base, offset) ==
  LET it == g.descs[d]
      target == offset + (CASE base = "set" -> 0 [] base = "current" -> it.offset
                            [] base = "end" -> Len(g.files[it.object].data))
  IN  IF it.kind # "node" THEN Out(g, ESPIPE)
      ELSE IF target < 0 THEN Out(g, EINVAL)
      ELSE Out([g EXCEPT !.descs[d].offset = target], target)

\* sysSendMsg: `passed` are the descriptions named in it, 0 for a bad number.
sys_sendmsg(g, d, data, passed) ==
  LET it == g.descs[d]
  IN  IF it.kind # "socket" THEN Out(g, ENOTSOCK)
      ELSE IF 0 \in Range(passed) THEN Out(g, EBADF)
      ELSE send(g, it.object, it.end, data, passed, "nonblock" \in it.status)

\* sysRecvMsg installs what arrived while there is room for more numbers and
\* closes the rest; the program sees how many it got and what was cut.
Delivered(sofar, carried, room, in) ==
  IF Len(sofar.vals) >= room \/ in.r < 0
  THEN [sofar EXCEPT !.g = Release(sofar.g, carried), !.dropped = TRUE]
  ELSE [sofar EXCEPT !.g = in.g, !.vals = Append(@, in.r)]
Reported(got, put) ==
  LET flags == (IF got.cut THEN {"trunc"} ELSE {}) \cup (IF put.dropped THEN {"ctrunc"} ELSE {})
  IN  IF got.r < 0 THEN Out(got.g, got.r)
      ELSE [Out(put.g, got.r) EXCEPT !.vals = put.vals,
              !.data = Append(got.data, [count |-> Len(put.vals), flags |-> flags])]
sys_recvmsg(g, p, d, n, room, cloexec, dontwait) ==
  LET it == g.descs[d]
      Put(sofar, carried) == Delivered(sofar, carried, room, install(sofar.g, p, carried, 0, cloexec))
      Take(got) == Reported(got, FoldLeft(Put, [g |-> got.g, vals |-> <<>>, dropped |-> FALSE], got.rights))
  IN  IF it.kind # "socket" THEN Out(g, ENOTSOCK)
      ELSE Take(receive(g, it.object, it.end, n, dontwait \/ "nonblock" \in it.status))

-----------------------------------------------------------------------------
(* Readiness: epoll and poll.                                              *)

\* fd.readinessOf; RDNORM and WRNORM always go with IN and OUT.
readinessOf(g, d) ==
  LET it == g.descs[d]
      ob == g.objects[it.object]
      peer == 3 - it.end
      If(condition, bit) == IF condition THEN {bit} ELSE {}
      peer_gone == ~ob.open[peer]
      peer_done == peer_gone \/ ob.write_shut[peer]
      room == QUEUE - FoldLeft(LAMBDA sum, x : sum + Len(x.data), 0, ob.queues[peer])
  IN  CASE it.kind = "node" -> {"in", "out"}
        [] it.kind = "console" -> {"out"}
        [] it.kind = "epoll" -> {}
        [] it.kind = "pipe_read" ->
             If(ob.data # <<>> \/ ob.writers = 0, "in") \cup If(ob.writers = 0, "hup") \cup If(ob.writers = 0, "rdhup")
        [] it.kind = "pipe_write" ->
             If(ob.readers > 0 /\ CAPACITY - Len(ob.data) >= ATOMIC_WRITE, "out") \cup If(ob.readers = 0, "err")
        [] it.kind = "eventfd" -> If(ob.count > 0, "in") \cup If(ob.count < MAX_COUNT, "out")
        [] it.kind = "socket" ->
             If(ob.queues[it.end] # <<>> \/ peer_done \/ ob.read_shut[it.end], "in")
             \cup If(~peer_gone /\ ~ob.read_shut[peer] /\ ~ob.write_shut[it.end] /\ room >= ATOMIC_WRITE, "out")
             \cup If(peer_done, "rdhup")
             \cup If(peer_gone \/ (ob.write_shut[it.end] /\ peer_done), "hup")

\* sysEpollCtl and epoll.control: an interest is a number and a description.
epoll_ctl(g, ep, epfd, target, number, what) ==
  LET o == g.descs[ep].object
      interests == g.objects[o].interests
      found == {k \in DOMAIN interests : interests[k].number = number /\ interests[k].desc = target}
      fresh == [number |-> number, desc |-> target, events |-> what.events, data |-> what.data,
                pending |-> TRUE, disabled |-> FALSE]
      after == CASE what.do = "add" -> <<fresh>> \o interests
                 [] what.do = "mod" -> [k \in DOMAIN interests |-> IF k \in found THEN fresh ELSE interests[k]]
                 [] what.do = "del" -> SelectSeq(interests, LAMBDA x : ~(x.number = number /\ x.desc = target))
  IN  CASE g.descs[ep].kind # "epoll" \/ number = epfd -> Out(g, EINVAL)
        [] target = 0 -> Out(g, EBADF)
        [] g.descs[target].kind \in {"node", "epoll", "console"} -> Out(g, EPERM)
        [] what.do = "add" /\ found # {} -> Out(g, EEXIST)
        [] what.do # "add" /\ found = {} -> Out(g, ENOENT)
        [] OTHER -> Out([g EXCEPT !.objects[o].interests = after], 0)

\* A wait with a timeout of 0 only looks.
Nothing(g, timeout) == Out(g, IF timeout = "none" THEN 0 ELSE Sleeps)

\* epoll.wait: up to `max` ready interests, newest first; edge-triggered ones
\* only if told of a change since the last report, one-shot ones only once.
epoll_wait(g, ep, max, timeout) ==
  LET o == g.descs[ep].object
      interests == g.objects[o].interests
      Bits(x) == readinessOf(g, x.desc) \intersect (x.events \cup {"err", "hup"})
      Reports(x) == ~x.disabled /\ Bits(x) # {} /\ ("et" \in x.events => x.pending)
      ready == SelectSeq([k \in DOMAIN interests |-> k], LAMBDA k : Reports(interests[k]))
      told == Prefix(ready, max)
      Seen(x) == [x EXCEPT !.pending = @ /\ "et" \notin x.events, !.disabled = "oneshot" \in x.events]
      h == [g EXCEPT !.objects[o].interests =
              [k \in DOMAIN interests |-> IF k \in Range(told) THEN Seen(interests[k]) ELSE interests[k]]]
  IN  IF g.descs[ep].kind # "epoll" THEN Out(g, EINVAL)
      ELSE IF told = <<>> THEN Nothing(g, timeout)
      ELSE [Out(h, Len(told)) EXCEPT
              !.data = [n \in DOMAIN told |-> [events |-> Bits(interests[told[n]]), data |-> interests[told[n]].data]],
              !.vals = <<[n \in DOMAIN told |-> interests[told[n]].data]>>]

\* poll (and select, which musl makes of it): a bad number is NVAL.
poll(g, held, requested, timeout) ==
  LET returned == [n \in DOMAIN held |->
        (IF held[n] = 0 THEN {"nval"} ELSE readinessOf(g, held[n])) \intersect (requested[n] \cup {"err", "hup", "nval"})]
      count == Cardinality({n \in DOMAIN held : returned[n] # {}})
  IN  IF count = 0 THEN Nothing(g, timeout) ELSE [Out(g, count) EXCEPT !.data = returned]

-----------------------------------------------------------------------------
(* Record locks, processes and threads.                                    *)

\* recordLockControl and lock.set for one look at the table.  Only a process
\* that waits for a process is noted, if the table of waiting owners has room.
recordLockControl(g, t, d, a) ==
  LET it == g.descs[d]
      last == IF a.len = 0 THEN TO_END ELSE a.start + a.len - 1
      owner == IF a.ofd THEN <<"description", d>> ELSE <<"process", g.threads[t].proc>>
      refused == a.kind # "none" /\ Conflicts(g.locks, it.object, owner, a.start, last, a.kind) # {}
      first == FirstConflict(g.locks, it.object, owner, a.start, last, a.kind)
      both == ~a.ofd /\ first.owner[1] = "process"
      noted == IF both /\ Cardinality(DOMAIN g.notes) < WAITING
               THEN With(g.notes, t, [waiter |-> owner, holder |-> first.owner]) ELSE g.notes
      Answer(x) == [Out(g, 0) EXCEPT !.data = <<x>>, !.vals = << <<x>> >>]
  IN  CASE it.kind # "node" \/ a.start < 0 \/ (a.command = "GETLK" /\ a.kind = "none") -> Out(g, EINVAL)
        [] a.command = "GETLK" ->
             Answer(IF refused
               THEN [kind |-> first.kind, first |-> first.first, last |-> first.last, owner |-> first.owner]
               ELSE [kind |-> "none"])
        [] a.kind \notin it.status \cup {"none"} -> Out(g, EBADF)
        [] refused /\ a.command = "SETLK" -> Out(g, EAGAIN)
        [] refused /\ both /\ wouldDeadlock(g.notes, owner, first.owner) -> Out(g, EDEADLK)
        [] refused -> Out([g EXCEPT !.notes = noted], Sleeps)
        [] OTHER -> Out(WakeLockWaiters([g EXCEPT !.locks =
                          Applied(@, it.object, owner, a.start, last, a.kind)]), 0)

\* The programs, as a definition: TLC evaluates it once and the constant at every use.
Texts == Program

Value(g, p, name) == IF name \in DOMAIN g.memory[p] THEN g.memory[p][name] ELSE -1

Thread(p, program, main) ==
  [proc |-> p, program |-> program, pc |-> 1, at |-> "run", acc |-> <<>>, held |-> <<>>,
   main |-> main, result |-> 0, offset |-> 0, moved |-> <<>>]

\* Where a thread is once its function has returned, its exit word stored.
Returned(th) == IF th.program \in LINGERING THEN "done" ELSE "left"

\* Descriptor numbers a program has as constants.
Numbers == "fd0" :> 0 @@ "fd1" :> 1 @@ "fd2" :> 2 @@ "fd3" :> 3 @@ "fd20" :> 10 @@ "fd50" :> 11
           @@ "fd100" :> 12 @@ "fd999" :> 999

\* posix_spawn's file actions on the table the child would have, in order.
FileAction(g, p, sofar, a) ==
  LET fd == Value(g, p, a.fd)
      from == Value(g, p, a.from)
      put(parent) == [sofar EXCEPT !.slots = With(@, fd, [parent |-> parent, cloexec |-> FALSE])]
      Opened(out) == IF out.r < 0 THEN [sofar EXCEPT !.error = out.r]
                     ELSE [put(out.r) EXCEPT !.g = out.g, !.temporaries = Append(@, out.r)]
  IN  CASE sofar.error # 0 -> sofar
        [] a.do = "close" -> [sofar EXCEPT !.slots = Without(@, fd)]
        [] a.do = "dup2" -> IF from \in DOMAIN sofar.slots THEN put(sofar.slots[from].parent)
                            ELSE [sofar EXCEPT !.error = EBADF]
        [] a.do = "open" -> Opened(open(sofar.g, p, a.path, {"read", "cloexec"}))

\* posix_spawn and sysSpawnProcess: the child starts with exactly the slots
\* that are not close-on-exec; what the actions opened is closed again.
Born(g, p, child, program, table) ==
  [Retain(g, LET fds == SetToSeq(DOMAIN table) IN [n \in DOMAIN fds |-> table[fds[n]].desc]) EXCEPT
     !.tables = With(@, child, table),
     !.procs = With(@, child, [parent |-> p, state |-> "live", status |-> 0]),
     !.threads = With(@, Unused(@), Thread(child, program, TRUE)),
     !.memory = With(@, child, Numbers)]
Spawned(p, program, done) ==
  LET granted == {n \in DOMAIN done.slots : ~done.slots[n].cloexec}
      table == [n \in granted |-> [desc |-> done.g.tables[p][done.slots[n].parent].desc, cloexec |-> FALSE]]
      child == Unused(done.g.procs)
      r == IF done.error # 0 THEN done.error ELSE IF program \notin DOMAIN Texts THEN ENOENT ELSE child
      h == IF r < 0 THEN done.g ELSE Born(done.g, p, child, program, table)
  IN  Out(FoldLeft(LAMBDA x, fd : closeFd(x, p, fd).g, h, done.temporaries), r)
posix_spawn(g, p, program, actions) ==
  LET mine == g.tables[p]
      start == [g |-> g, error |-> 0, temporaries |-> <<>>,
                slots |-> [n \in DOMAIN mine |-> [parent |-> n, cloexec |-> mine[n].cloexec]]]
  IN  Spawned(p, program, FoldLeft(LAMBDA sofar, a : FileAction(g, p, sofar, a), start, actions))

\* sysWait: a child's status, once.
waitpid(g, p, pid, nohang) ==
  LET mine == pid \in DOMAIN g.procs /\ g.procs[pid].parent = p /\ g.procs[pid].state # "collected"
  IN  IF ~mine THEN Out(g, ECHILD)
      ELSE IF g.procs[pid].state = "zombie"
      THEN [Out([g EXCEPT !.procs[pid].state = "collected"], pid) EXCEPT !.data = <<g.procs[pid].status>>]
      ELSE Out(g, IF nohang THEN 0 ELSE Sleeps)

\* A thread counts until it has left the kernel, which may be long after its
\* exit word let the one that joins it go on.
live_threads(g, p) == Cardinality({u \in DOMAIN g.threads : g.threads[u].proc = p /\ g.threads[u].at # "left"})
pthread_create(g, p, program) ==
  LET t == Unused(g.threads)
  IN  IF live_threads(g, p) >= MAX_THREADS THEN Out(g, EAGAIN)
      ELSE Out([g EXCEPT !.threads = With(@, t, Thread(p, program, FALSE))], t)
pthread_join(g, t) ==
  LET result == g.threads[t].result
  IN  CASE g.threads[t].at = "done" -> Out([g EXCEPT !.threads[t].at = "leaving"], result)
        [] g.threads[t].at = "left" -> Out([g EXCEPT !.threads = Without(@, t)], result)
        [] OTHER -> Out(g, Sleeps)

\* A program's mutexes and condition variables: the holder, and who waits.  A
\* waiter gives the mutex back, and once woken waits for it again.
mutex_lock(g, t, mutex) ==
  IF Value(g, g.threads[t].proc, mutex) > 0 THEN Out(g, Sleeps)
  ELSE Out([g EXCEPT !.memory[g.threads[t].proc] = With(@, mutex, t)], 0)
waiters(g, p, cond) == IF cond \in DOMAIN g.memory[p] THEN g.memory[p][cond] ELSE {}
cond_wait(g, t, cond, mutex) ==
  LET p == g.threads[t].proc
  IN  IF g.threads[t].at = "run"
      THEN Out([g EXCEPT !.memory[p] = cond :> (waiters(g, p, cond) \cup {t}) @@ mutex :> 0 @@ @], Sleeps)
      ELSE IF t \in waiters(g, p, cond) THEN Out(g, Sleeps) ELSE mutex_lock(g, t, mutex)
cond_wake(g, p, cond, all) ==
  LET left == waiters(g, p, cond)
  IN  Out([g EXCEPT !.memory[p] = With(@, cond, IF all \/ left = {} THEN {} ELSE left \ {Min(left)})], 0)

\* The end of a program takes its other threads with it, out of their calls;
\* the last thread then closes the descriptors.
exitGroup(g, t, status) ==
  LET p == g.threads[t].proc
      others == {u \in DOMAIN g.threads \ {t} : g.threads[u].proc = p}
      alone == [g EXCEPT !.threads = [u \in DOMAIN @ \ others |-> @[u]],
                         !.notes = [u \in DOMAIN @ \ others |-> @[u]]]
      h == FoldSet(LAMBDA u, x : ReleaseEach(x, g.threads[u].held), alone, others)
  IN  [h EXCEPT !.threads[t].at = "exit", !.procs[p].status = status]

-----------------------------------------------------------------------------
(* Instructions.  `fds` name the descriptors a call holds a reference on,  *)
(* `into` the variables it sets; `want` and `data` are the results and the *)
(* bytes the program accepts (all, when empty).  With a limit the call is  *)
(* repeated until it returns 0 or less, or that many bytes have passed.    *)

Sys(op, fds, arg, want) ==
  [op |-> op, fds |-> fds, arg |-> arg, want |-> want, data |-> {}, into |-> <<>>, limit |-> 0, piece |-> 0]
Into(names, i) == [i EXCEPT !.into = names]
Gives(data, i) == [i EXCEPT !.data = data]
Until(limit, i) == [i EXCEPT !.limit = limit]
Pieces(n, i) == [i EXCEPT !.piece = n]

Instr(th) == Texts[th.program][th.pc]
HeldBy(g, p, i) == [n \in DOMAIN i.fds |-> lookup(g, p, Value(g, p, i.fds[n]))]

\* One attempt at a call, on the descriptions it holds.
Perform(g, t, i, held) ==
  LET th == g.threads[t]
      p == th.proc
      a == i.arg
      d == IF held = <<>> THEN 0 ELSE held[1]
      Var(name) == Value(g, p, name)
      bytes == Beyond(a, Len(th.acc))
  IN  CASE i.op \in {"read", "write", "sendmsg", "recvmsg", "shutdown", "lseek", "ctl", "epoll_wait",
                     "lock", "forward", "pread", "pwrite", "ftruncate"} /\ d = 0 -> Out(g, EBADF)
        [] i.op = "read" -> read(g, d, IF i.limit = 0 \/ a < i.limit - Len(th.acc) THEN a ELSE i.limit - Len(th.acc), th.offset)
        [] i.op = "write" -> write(g, d, IF i.piece = 0 THEN bytes ELSE Prefix(bytes, i.piece), th.offset)
        [] i.op = "forward" -> write(g, d, [n \in DOMAIN Var(a.from) |->
                                    IF Var(a.from)[n] \in DOMAIN a.map THEN a.map[Var(a.from)[n]] ELSE Var(a.from)[n]], th.offset)
        [] i.op = "sendmsg" -> sys_sendmsg(g, d, a, Tail(held))
        [] i.op = "recvmsg" -> sys_recvmsg(g, p, d, a.n, a.room, a.cloexec, a.dontwait)
        [] i.op = "shutdown" -> IF g.descs[d].kind # "socket" THEN Out(g, ENOTSOCK)
                                ELSE shutdown(g, g.descs[d].object, g.descs[d].end, a)
        [] i.op = "pread" -> readAtOffset(g, d, a.offset, a.n)
        [] i.op = "pwrite" -> writeAtOffset(g, d, a.offset, a.data)
        [] i.op = "ftruncate" -> truncate(g, d, a)
        [] i.op = "lseek" -> seek(g, d, a.base, a.offset)
        [] i.op = "ctl" -> epoll_ctl(g, d, Var(i.fds[1]), held[2], Var(i.fds[2]), a)
        [] i.op = "epoll_wait" -> epoll_wait(g, d, a.max, a.timeout)
        [] i.op = "poll" -> poll(g, held, a.requested, a.timeout)
        [] i.op = "lock" -> recordLockControl(g, t, d, a)
        [] i.op = "pipe" -> createPipe(g, p, a)
        [] i.op = "socketpair" -> createSocketPair(g, p, a.kind, a.flags)
        [] i.op = "eventfd" -> createSingle(g, p, "eventfd", [count |-> a.count, semaphore |-> a.semaphore], a.flags)
        [] i.op = "epoll_create" -> createSingle(g, p, "epoll", [interests |-> <<>>], a)
        [] i.op = "open" -> open(g, p, a.path, a.flags)
        [] i.op = "stat" -> stat(g, a)
        [] i.op = "unlink" -> unlink(g, a)
        [] i.op = "rename" -> rename(g, a.from, a.to)
        [] i.op = "close" -> closeFd(g, p, Var(a))
        [] i.op = "dup" -> dup(g, p, Var(a.fd), a.min, a.cloexec)
        [] i.op = "dup2" -> dupTo(g, p, Var(a.from), Var(a.to), FALSE)
        [] i.op = "fcntl" -> fd_control(g, p, Var(a.fd), a.command, a.to)
        [] i.op = "open_fds" -> [Out(g, 0) EXCEPT !.vals = << <<SetToSortSeq(DOMAIN g.tables[p], <)>> >>]
        [] i.op = "spawn" -> posix_spawn(g, p, a.program, a.actions)
        [] i.op = "waitpid" -> waitpid(g, p, Var(a.pid), a.nohang)
        [] i.op = "pthread_create" -> pthread_create(g, p, a)
        [] i.op = "pthread_join" -> pthread_join(g, Var(a))
        [] i.op \in {"pause", "branch", "exit", "return"} -> Out(g, 0)
        [] i.op = "set" -> [Out(g, 0) EXCEPT !.vals = <<a>>]
        [] i.op = "plus" -> Out(g, Var(a.of) + a.by)
        [] i.op = "sum" -> Out(g, Var(a[1]) + Var(a[2]))
        [] i.op = "mutex_lock" -> mutex_lock(g, t, a)
        [] i.op = "mutex_unlock" -> Out([g EXCEPT !.memory[p] = With(@, a, 0)], 0)
        [] i.op = "cond_wait" -> cond_wait(g, t, a.cond, a.mutex)
        [] i.op = "cond_wake" -> cond_wake(g, p, a.cond, a.all)
        [] i.op = "push" -> Out([g EXCEPT !.memory[p] = With(@, a.queue, Append(Var(a.queue), a.item))], 0)
        [] i.op = "pop" -> IF Var(a.queue) = <<>> THEN Nothing(g, a.timeout)
                           ELSE Out([g EXCEPT !.memory[p] = With(@, a.queue, Tail(@[a.queue]))], Head(Var(a.queue)))
        [] i.op = "add" -> [Out(g, 0) EXCEPT !.vals = <<Var(a.to) + FoldLeft(+, 0, Var(a.from))>>]
        [] i.op = "pick" -> [Out(g, 0) EXCEPT !.vals = <<Var(Head(Var(a))), Tail(Var(a))>>]
        [] i.op = "fsync" -> IF i.fds # <<>> /\ d = 0 THEN Out(g, EBADF) ELSE sysFsSync(g, d)
        [] i.op = "rest" -> Out(g, Sleeps)

Roams(th) == th.program \in DOMAIN AnyFrom /\ th.pc >= AnyFrom[th.program]

\* Thread t goes on after its call returned: it repeats it, accepts what it
\* returned, or reports a failure and ends, its program with it if it is the
\* main thread.
After(g, t, i, out) ==
  LET th == g.threads[t]
      acc == th.acc \o out.data
      more == i.limit > 0 /\ out.r > 0 /\ Len(acc) < i.limit
      right == (i.want = {} \/ out.r \in i.want) /\ (i.data = {} \/ acc \in i.data)
      vals == IF i.limit > 0 THEN <<acc>> ELSE out.vals
      stored == [n \in {i.into[k] : k \in 1 .. Smaller(Len(i.into), Len(vals))} |->
                   vals[CHOOSE k \in DOMAIN i.into : i.into[k] = n]]
      back == i.op = "branch" /\ Value(g, th.proc, i.arg.var) \notin i.arg.stop
      pc == IF Roams(th) THEN AnyFrom[th.program] ELSE IF back THEN th.pc - i.arg.back ELSE th.pc + 1
      next == [th EXCEPT !.at = "run", !.held = <<>>, !.offset = 0, !.moved = <<>>]
      failed == ~right /\ ~Roams(th)
  IN  IF more /\ ~Roams(th) THEN [g EXCEPT !.threads[t] = [next EXCEPT !.acc = acc]]
      ELSE IF (failed /\ th.main) \/ (~failed /\ i.op = "exit")
      THEN exitGroup([g EXCEPT !.threads[t] = next], t, IF failed THEN 1 ELSE i.arg)
      ELSE IF failed \/ i.op = "return"
      THEN [g EXCEPT !.threads[t] = [next EXCEPT !.at = Returned(th), !.result = IF failed THEN 1 ELSE i.arg]]
      ELSE [g EXCEPT !.threads[t] = [next EXCEPT !.acc = <<>>, !.pc = pc],
                     !.memory[th.proc] = stored @@ @]

Offered(th) ==
  IF Roams(th) THEN th.pc .. Len(Texts[th.program]) ELSE {th.pc} \intersect DOMAIN Texts[th.program]

\* What a call that was made, or looked again, leaves.
Made(t, i, held, out) ==
  IF out.r # Sleeps THEN After(out.g, t, i, out)
  ELSE Retain([out.g EXCEPT !.threads[t].at = IF i.op = "lock" THEN "locked" ELSE "asleep",
                            !.threads[t].held = held], SelectSeq(held, LAMBDA d : d # 0))
Completed(t, i, out) == After(ReleaseEach(out.g, threads[t].held), t, i, out)

\* A call that reads or writes a file at its description's offset takes the
\* offset, moves the bytes and puts the offset behind them, each under a lock of
\* its own (fd.zig, offsetOf, setOffset).
OnFile(g, i, held) ==
  /\ i.op \in {"read", "write", "forward"} /\ held[1] # 0
  /\ g.descs[held[1]].kind = "node"
  /\ (IF i.op = "read" THEN "read" ELSE "write") \in g.descs[held[1]].status
offsetOf(g, t, held) ==
  Retain([g EXCEPT !.threads[t].at = "file", !.threads[t].held = held,
                   !.threads[t].offset = g.descs[held[1]].offset], held)

\* A call is made and completes, or keeps its references and sleeps.
Call(t) ==
  /\ threads[t].at = "run"
  /\ \E k \in Offered(threads[t]) :
       LET here == [Now EXCEPT !.threads[t].pc = k]
       IN  \E i \in {Instr(here.threads[t])} :
             LET held == HeldBy(here, threads[t].proc, i)
             IN  Become(IF OnFile(here, i, held) THEN offsetOf(here, t, held)
                        ELSE Made(t, i, held, Perform(here, t, i, held)))

\* vfs.readAt, vfs.writeNode: the bytes move, and the end is kept.
Transfer(t) ==
  LET d == threads[t].held[1]
      from == threads[t].offset
      at(i) == IF i.op = "read" THEN from ELSE write_position(Now, d, from)
  IN  /\ threads[t].at = "file"
      /\ \E i \in {Instr(threads[t])} : \E out \in {Perform(Now, t, i, threads[t].held)} :
           Become([out.g EXCEPT !.threads[t].at = "moved", !.threads[t].moved = out.data,
                                !.threads[t].offset = at(i) + out.r])
setOffset(t) ==
  /\ threads[t].at = "moved"
  /\ Become(Completed(t, Instr(threads[t]),
              Read([Now EXCEPT !.descs[threads[t].held[1]].offset = threads[t].offset], threads[t].moved)))

\* A sleeping call completes; a lock's waiter looks again and may wait again.
Resume(t) ==
  /\ threads[t].at \in {"asleep", "again"}
  /\ \E i \in {Instr(threads[t])} : \E out \in {Perform(Now, t, i, threads[t].held)} :
       \/ out.r # Sleeps /\ Become(Completed(t, i, out))
       \/ /\ out.r = Sleeps /\ threads[t].at = "again"
          /\ Become([out.g EXCEPT !.threads[t].at = "locked"])

\* lock.set after commitWait: the note is cleared before the next look.
WakeUp(t) ==
  /\ threads[t].at = "woken"
  /\ Become([Now EXCEPT !.threads[t].at = "again", !.notes = Without(@, t)])

\* Nothing but the passing of time can go on: only then do a long sleep and a
\* timeout end, which assumes that they are longer than what the others do.
Stuck(u) ==
  \/ threads[u].at \in {"left", "locked"}
  \/ /\ threads[u].at = "asleep"
     /\ \E i \in {Instr(threads[u])} : i.op # "fsync" /\ Perform(Now, u, i, threads[u].held).r = Sleeps
Timeout(t) ==
  /\ threads[t].at = "asleep"
  /\ \E i \in {Instr(threads[t])} :
       /\ i.op = "rest" \/ (i.op \in {"epoll_wait", "poll", "pop"} /\ i.arg.timeout = "finite")
       /\ \A u \in DOMAIN threads : Stuck(u)
       /\ Become(Completed(t, i, Out(Now, 0)))

\* main returns, or another thread's function does.
Return(t) ==
  /\ threads[t].at = "run" /\ Offered(threads[t]) = {}
  /\ Become(IF threads[t].main THEN exitGroup(Now, t, 0) ELSE [Now EXCEPT !.threads[t].at = Returned(threads[t])])

\* sched.exit of another: it no longer counts.
Leave(t) ==
  /\ threads[t].at \in {"done", "leaving"}
  /\ Become(IF threads[t].at = "done" THEN [Now EXCEPT !.threads[t].at = "left"] ELSE [Now EXCEPT !.threads = Without(@, t)])

\* sched.exit of the last thread: files.clear slot by slot, then the program's
\* record locks, then the status for the parent.
Exit(t) ==
  LET p == threads[t].proc
      fd == Min(DOMAIN tables[p])
      ended == DropLocks([Now EXCEPT !.threads = Without(@, t)], ReleasedAll(locks, <<"process", p>>))
  IN  /\ threads[t].at = "exit"
      /\ Become(IF DOMAIN tables[p] # {}
                THEN Release([Now EXCEPT !.tables[p] = Without(@, fd)], tables[p][fd].desc)
                ELSE [ended EXCEPT !.procs[p].state = "zombie"])

Step == \E t \in DOMAIN threads :
  \/ Call(t) \/ Transfer(t) \/ setOffset(t) \/ Resume(t)
  \/ WakeUp(t) \/ Timeout(t) \/ Return(t) \/ Leave(t) \/ Exit(t)

\* A program starts with the console on 0, 1 and 2.
Started(program, there) ==
  [tables |-> (1 :> [fd \in 0 .. 2 |-> [desc |-> 1, cloexec |-> FALSE]]),
   descs |-> (1 :> [refs |-> 3, kind |-> "console", object |-> 0, end |-> 0,
                    status |-> {"read", "write"}, offset |-> 0]),
   objects |-> <<>>, files |-> there, locks |-> <<>>, notes |-> <<>>,
   procs |-> (1 :> [parent |-> 0, state |-> "live", status |-> 0]),
   threads |-> (1 :> Thread(1, program, TRUE)),
   memory |-> (1 :> Numbers)]
Starts(g) ==
  /\ tables = g.tables /\ descs = g.descs /\ objects = g.objects /\ files = g.files
  /\ locks = g.locks /\ notes = g.notes /\ procs = g.procs /\ threads = g.threads
  /\ memory = g.memory

-----------------------------------------------------------------------------
(* Properties                                                              *)

Places(d) ==
  UNION {{<<"slot", p, fd>> : fd \in {x \in DOMAIN tables[p] : tables[p][x].desc = d}} : p \in DOMAIN tables}
  \cup UNION {{<<"call", t, n>> : n \in {x \in DOMAIN threads[t].held : threads[t].held[x] = d}} : t \in DOMAIN threads}
  \cup UNION {UNION {UNION {{<<"message", o, e, n, k>> :
                               k \in {x \in DOMAIN objects[o].queues[e][n].rights : objects[o].queues[e][n].rights[x] = d}} :
                              n \in DOMAIN objects[o].queues[e]} : e \in 1 .. 2} :
               o \in {x \in DOMAIN objects : "queues" \in DOMAIN objects[x]}}
Open(o, kind, end) ==
  Cardinality({d \in DOMAIN descs : descs[d].kind = kind /\ descs[d].object = o /\ descs[d].end = end})

\* Table slots, messages in flight and calls in progress each hold a reference,
\* and nothing else does (fd.zig, Description; unix_socket.zig, receive).
ReferencesHeld == \A d \in DOMAIN descs : descs[d].refs = Cardinality(Places(d))

\* References are exact, so that what they keep is: a pipe or socket end is open
\* exactly while a description of it is, nothing is left of an object without
\* one, an interest names an open description, and an unlinked file is kept
\* exactly while it is open (release, closeEnd).
RefsExact ==
  /\ ReferencesHeld /\ \A d \in DOMAIN descs : descs[d].refs > 0
  /\ \A o \in DOMAIN objects :
       /\ \E d \in DOMAIN descs : descs[d].kind \notin {"node", "console"} /\ descs[d].object = o
       /\ "readers" \in DOMAIN objects[o] =>
            objects[o].readers = Open(o, "pipe_read", 0) /\ objects[o].writers = Open(o, "pipe_write", 0)
       /\ "queues" \in DOMAIN objects[o] => \A e \in 1 .. 2 : objects[o].open[e] = (Open(o, "socket", e) > 0)
       /\ "interests" \in DOMAIN objects[o] => {i.desc : i \in Range(objects[o].interests)} \subseteq DOMAIN descs
  /\ \A n \in DOMAIN files : files[n].path = "" => Open(n, "node", 0) > 0

\* Every lock goes with the last description of its file, whose key can then be
\* used again (the comment in lock.zig on how files are identified). A lock that
\* is granted after its descriptor was closed breaks it (README, Findings).
KeysInUse == \A n \in DOMAIN locks : Open(locks[n].key, "node", 0) > 0

=============================================================================
