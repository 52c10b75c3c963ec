# Verification of OrangeOS

OrangeOS is a small x86-64 operating system written in Zig: a preemptive SMP
kernel (`kernel/`), a userland in Zig, C and C++ (`userland/`) and a host bridge
(`host/`). This directory models the parts whose correctness depends on the order
in which several actors take their steps, at two levels.

* Inside the kernel, one locked section a step: the scheduler with the life of
  programs, the feedback queues, POSIX signals, shared address spaces with TLB
  shootdown, and pipes with `poll` and `epoll`.
* Above it, one kernel call a step: the descriptors, files, pipes, eventfds, socket
  pairs, record locks, processes and threads that a C program sees, the probes of
  `userland/bin` as programs of such calls, the data volume under power failure, and
  Orange Browser with its tabs, keyboard and frames.

TLC checks every module on small instances. TLAPS proves, for every value of the
constants, all but one of the safety properties they check of single modules, and
that the scheduler and the feedback queues implement one abstract dispatcher.

## Inventory

| Part | State | Operations | What is hard |
|---|---|---|---|
| Scheduler (`sched/sched.zig`, `task.zig`) | task records, run queues, wait list, sleeper list, per-CPU current task | tick, preempt, yield, prepare/commit/cancel wait, wake, sleep, timeouts | one lock, but decisions are made before and after it; two lists for one sleeper |
| Programs (`sched/process.zig`, `sched.zig`, `syscall.zig`) | process record, live-thread count, exit status, parent | spawn, thread create, exec, exit, exit_group, kill, wait, orphan reaper | threads, parent and reaper race at exit; leader and last thread differ |
| Signals (`sched/signal.zig`) | dispositions, two pending words, mask, interrupt flag, frames on the user stack | kill, tkill, sigaction, sigmask, deliver, sigreturn, faults | senders hold the scheduler lock, delivery does not |
| Address spaces (`mm/address_space.zig`, `tlb.zig`, `user_vm.zig`) | page table, residency mask, references, VM lock, epoch and counts | map, unmap, protect, fault-in, copies, CR3 switch, shootdown, teardown | remote TLBs, copies without the VM lock, last reference |
| Ports, shared memory, handles (`ipc/ipc.zig`, `object.zig`, `handle.zig`) | queues of 16, references, handle tables, names | send, receive, map, close | last release against a new acquire |
| Pipes, eventfd, pty, readiness, epoll (`ipc/`) | rings, end counts, watcher lists, interests | read, write, close, notify, wait | close of both ends at once; edge-triggered notification |
| Unix sockets (`ipc/unix_socket.zig`) | two queues of segments, open and shut flags, passed descriptions | socketpair, send, receive, shutdown, close | descriptors in flight at close; one receive takes several segments |
| Descriptors (`fs/fd.zig`) | tables, reference-counted descriptions with offset and status | open, dup, dup2, fcntl, read, write, pread, seek, close | who holds the last reference, and what closing it sets off |
| Futex (`sync/user_wait.zig`) | none of its own: a channel per physical word | wait, wake, store-and-wake | value test against wake; frame reuse |
| Record locks (`fs/lock.zig`) | list of ranges, 64 waiting edges | set, query, wait, release | splitting of ranges, cycles of waiters, release on any close |
| Memory file system and saves (`fs/tmpfs/`) | inode tree, two save slots | tree operations, save, load | power failure between payload and header |
| TCP and sockets (`net/`) | control blocks, timers | connect, send, receive, close | loss, reordering, retransmission |
| Memory allocators, page tables (`mm/pmm, heap, slab, vmm`) | free lists, tables | allocate, free, map | sequential under one lock each |
| Drivers, boot, time, ELF, console | device registers | | behaviour lies in hardware, or runs once |
| Orange Browser (`userland/bin/orange-browser`) | tabs, address field, views, buffers, pixels, queued events | keys, clicks, page notifications, frames, idle releases | callbacks of WebKit, the input thread and idle sources in any order |
| Probes (`userland/bin/*-probe`, `spawn-child`, `thread-capacity`) | their variables, threads and children | kernel calls with checks on each result | what they check must hold in every interleaving, also those a run does not meet |
| Other userland, host bridge, tools | | | clients of the above |

How they meet: every blocking call of every part uses the scheduler's
prepare/test/commit protocol and its wake by channel. Every return to ring 3 goes through
the kill test and signal delivery. Exit calls into files, locks, sockets, the
address space and the handle table, in that order. Every copy to or from a
program goes through an address-space access.

What makes each modelled part correct:

* scheduler: a task runs on one CPU; a ready task is queued; a sleeping task can
  be woken; no wake, kill, exit or message is slept through;
* programs: the exit status is decided once, every record has a collector, a
  killed program ends, wait() returns;
* feedback queues: nothing is lost in the queues and nothing starves;
* signals: neither lost nor doubled, the mask comes back, an interrupted thread
  does not sleep;
* address spaces: no copy and no TLB entry reaches a freed frame, frames are
  conserved, every change ends;
* pipes and epoll: bytes come out as they went in, small writes stay whole, no
  sleep misses its wake-up, no edge is lost, no description is freed in use;
* descriptors and sockets: references count exactly the table slots, messages in flight
  and calls in progress;
* record locks: no two owners hold what excludes each other, nothing outlives its
  owner, no circle of waiters forms;
* saves: after any power failure the volume is at least as new as the last fsync
  that returned;
* the browser: window, focus, address and tabs agree, buffers come back.

## Modules

| Module | Models | Used by |
|---|---|---|
| `RunQueue` | abstract specification: what a dispatcher promises | `Sched`, `Mlfq` |
| `Sched` | `sched.zig`, `task.zig`, the life of programs in `process.zig` and `sysWait`, one port of `ipc.zig` | `MCSched`, `SchedProofs` |
| `SchedProofs` | theorems about `Sched`: queues, waits and wake-ups; programs and their threads; it implements `RunQueue` | |
| `Mlfq` | levels, quanta, demotion, boost of `sched.zig` | `MCMlfq`, `MlfqProofs` |
| `MlfqProofs` | `Mlfq` implements `RunQueue` | |
| `Signal` | `signal.zig`, `signalProcess`/`signalThread` | `MCSignal`, `SignalProofs` |
| `SignalProofs` | theorems about `Signal` | |
| `AddressSpace` | `address_space.zig`, `tlb.zig`, change paths of `user_vm.zig`, copies of `validate.zig` | `MCAddressSpace`, `AddressSpaceProofs` |
| `AddressSpaceProofs` | theorems about `AddressSpace` | |
| `Readiness` | `readiness.zig` and the caller's side of the scheduler's wait channels | `Pipe` |
| `Pipe` | `pipe.zig`, descriptions of `fd.zig`, `poll` of `epoll.zig` | `Epoll` |
| `Epoll` | the rest of `epoll.zig`, composed with `Pipe` | `MCEpoll`, `EpollProofs` |
| `EpollProofs` | theorems about `Epoll` and `Pipe`: the wait loops; bytes, references, watchers | |
| `RecordLocks` | `fs/lock.zig` as operators on a lock, the list of locks and the notes of waiting owners | `LockTable`, `Posix` |
| `LockTable` | abstract specification: what `fs/lock.zig` promises, with the locks as a set | `MCLockTable`, `LockProofs`, `MCPrograms` |
| `LockProofs` | theorems about `LockTable` | |
| `Posix` | `fd.zig`, `unix_socket.zig`, `eventfd.zig`, files of `tmpfs.zig`, and pipes, epoll, spawn, threads, exit as whole calls; `posix_spawn` of `musl-orange/orange.zig` | `Probes`, `Persist` |
| `Probes` | `pipe-`, `epoll-`, `unix-`, `spawn-`, `file-` and `data-probe`, `spawn-child` | `ThreadProbes` |
| `ThreadProbes` | `musl-`, `glib-`, `cxx-` and `jsc-probe`, `thread-capacity` | `MCPrograms` |
| `Volume` | `fs/tmpfs/persist.zig` over a disk with a write cache | `Persist`, `VolumeProofs` |
| `VolumeProofs` | theorems about `Volume` | |
| `Persist` | the files of `Posix` on a `Volume` | `MCPrograms` |
| `Keymap` | the key tables of `orange-browser/peel-platform.c` | `Browser` |
| `Browser` | `orange-browser/browser.c`, the views of `peel-platform.c` | `MCBrowser`, `BrowserProofs` |
| `BrowserProofs` | theorems about `Browser` | |

### Sched

A task is a tid; a program is the pid of its leader. `state`, `current`, `runq`,
`waiters`, `sleepers` are the fields of the same meaning (`on_run_queue`,
`on_wait_list`, `wake_at_ns # 0`); `process`, `parent`, `live`, `exiting`,
`exited`, `exitCode`, `kill` and `sigInterrupt` are those of `Process` and `Task`.
`pc` is the place of a thread in its kernel path. A section that holds the
scheduler lock masks interrupts and passes the lock through the context switch,
so it is one action. What lies between two sections is split: `sysWait` is
`WaitLook`, `PrepareWait`, `WaitTest`, `CommitWait`; a send is `Post` then
`WakeChannel`; `exit()` is its decrement (inside `ThreadExit`, `ReturnToUser`,
`ExitGroup`), `ExitDropSpace` and `ExitPublish`. `Preemptible` says where the
timer may switch a thread out. `panicked` stands for `schedulerBug` and for the
failed assertions of `task.destroy` and `Process.release`.

Abstracted: queue order and priorities (module `Mlfq`), deadlines (any sleeper's
may have passed), messages (counted), signals (the flag `sigInterrupt`; module
`Signal` keeps the rest). Left out: kernel threads without a process, failure of a
spawn because the task table is full (the call then changes nothing), waits of
the disk inside a copy, `wakeChannelN` with a limit.

### Mlfq

Four sequences of tasks, `level`, `quantum`, `resched` and the tick count since
the last boost. `pickNext`, `enqueue`, `tick`, `boostAll`, `yield`,
`preemptIfNeeded` are operators or actions. Why tasks block and wake is free.
`preemptIfNeeded` picks before it queues the running thread, so its "fresh slice"
branch (`sched.zig` 802) serves the idle task only and a lone thread whose quantum
ends is switched out to idle for a tick; the model does the same.

### Signal

One program with several threads. A send is `BeginSend` (disposition test),
`Publish` (pending bit) and `Notify` (interrupt and wake); `post` is the send that
holds the scheduler lock, and every action that needs the lock waits for it.
Delivery is one action per atomic access: `Check`, `Take`, `ClaimOwn`,
`ClaimShared`, `Act`, `ResetAction`, `SetupFrame`, `Clear`. `owed` and `asked` are
history variables: bits set and not yet acted on or discarded, and the mask the
program asked for outside handlers. The register image, alternate stack and
siginfo are data. Frames are returned from in the order they were entered; a
program that damages its frame is ended (`SigReturn`). That `sigaction` discards only the program's pending
bit, not one pending for a single thread (`signal.zig` 119-121), is in the model
as it is in the code.

### AddressSpace

The actors are CPUs. One page per space stands for the range of a change, since
all pages of a batch are detached, invalidated on the same CPUs and freed
together. A TLB holds at most that page's entry for the loaded CR3 and may be
refilled from the page table at any moment (`Fill`, the hardware). Unmap, protect
and fault-in are sequences of the code's steps under the VM lock; a copy is
`LoadEpoch`, `PublishAccess`, `Recheck`, `Walk`, `EndAccess`. Left out: region
metadata, remap, frames that belong to shared memory or files.

### Readiness, Pipe, Epoll

One pipe, one epoll instance, any number of threads. A thread in a call is at a
label (`pc`) with its arguments and local variables (`op`); a step is one locked
section of the code, so everything between two locks interleaves: `prepareWait`,
the test under the pipe's lock, `commitWait`, and the three parts of `changed()`,
which come after the lock is released. `reg` is the channel a thread is registered
on (`Sched` models what is inside). The epoll lock is held across other locks
during a scan, so it is a variable; the readiness lock never is, so a walk over a
watcher list is one step. `attached` is the set of watchers whose `source` is set,
`notified` the interests that are `pending`. `refs`, `fds` and `destroyed` are the
reference counts of descriptions, the descriptor slots and the freed ones: an end
closes when its last reference goes, wherever that happens, also inside a scan.

`queue` and `unseen` are history variables: the bytes written and not yet read,
each told apart by its writer and place, and the ends that changed since a scan
last reported them. The list of interests holds at most one per end, two in all, so
the set of its ends and the end added last (`newest`) give its order. A notification that comes after the pipe was freed finds no
watchers, as the free leaves the memory.

Left out: pseudo-terminals (the same loop over other data), failed
allocations, regular files and nested instances (refused by `epoll_ctl`), and a
result buffer that cannot be written, which loses the events already reported.

### RecordLocks, LockTable

`RecordLocks` has the code's functions: `Conflicts` and `FirstConflict`
(`conflictLocked`), `Remainder` and `Applied` (`applyLocked`), `HolderOf` and
`wouldDeadlock`. `LockTable` uses them on a set of locks (`table`), with the callers
asleep in `F_SETLKW` (`waits`), their entries of the table `waiting` (`notes`), and the
owners there are (`owners`, which come and go). One pass of `set` under the table's
lock is a step: `Takes` and `Gives` when the range is free, `Sleeps` when it is not;
a refused wait and a full table are the guard and the `IF` of `Sleeps`. Every change
wakes all, and a caller that was woken keeps its note until it runs (`Wakes`), as in
the code. Which lock of several conflicting ones is met first depends on the order of
the list, so `Sleeps` may take any. That a wake-up between the test and the sleep is not
lost is what `Sched` shows of the wait protocol.

`Posix` keeps the list and makes the calls; `LocksImplement` in `MCPrograms` is the
refinement: the set of the list's members, and the threads asleep for a lock, take
only steps of `LockTable`.

### Posix

The state of `Posix` is what the kernel keeps for programs: `tables` (slots with
close-on-exec), `descs` (references, object, offset, status), `objects`, `files`,
`locks` and `notes` (record locks and the table of waiting owners), `procs`,
`threads`, and the programs' own variables, `memory`. A program is a sequence of
instructions; an instruction is a call, its arguments, the results it must have and
the variables it sets. `Call` makes one call: it completes, fails, or keeps its
references (`held`) and sleeps; `Resume` completes it later, `Timeout` ends it. A
`read` or `write` of a file takes three steps, as it takes three locks in the code: the offset is
taken (`offsetOf`), the bytes move (`Transfer`), and the offset is put behind them
(`setOffset`), so two threads on one description may read the same bytes. `Return`, `Leave` and `Exit` end threads and programs. Each operator stands for the
function of the same name and works on the whole state, since releasing the last
reference of a socket may release the descriptions in its queue, which may close a
pipe and drop a lock.

A sleeping call is completed whenever it can be: `Pipe`, `Epoll` and their proofs
show for the finer steps that no wake-up is lost. Record locks sleep as in the
code: a waiter is woken by any change, clears its note, looks again and notes the
holder it then meets (`WakeUp`, `Resume`). A thread whose function returned has
stored its exit word (`done`) before it leaves the kernel; a join goes on then, and
the thread still counts against the limit until `Leave`. The program's mutexes and
condition variables are musl's and external.

A timeout, and a probe's long sleep, end only when nothing else can go on
(`Stuck`). This is an assumption on time: the probes' sleeps and timeouts are
longer than what the other threads do meanwhile, and the probes are written on
that assumption.

### Probes, ThreadProbes

Each section of a probe's `main` is a definition, a sequence of instructions with
the results its `CHECK`s ask for; the threads and children it starts are programs of
their own. A failed check ends the program with status 1, as in C. Bytes are small
numbers, buffers and counts are scaled: a pipe of 4 bytes with atomic writes of 2,
queues of 6, two writers or workers for three or four, two or three rounds for thousands. What a
probe checks of formatting, parsing, sorting, directories or memory maps is left out.

### Volume, Persist

`Volume` is `persist.zig` for any tree of files. `writeSave` takes a block write or a flush a step. Until a flush succeeds, a
written block may hold the old value, the new one or neither (`may`), in any
order of blocks; a failed write or flush leaves that open. `PowerFails` picks one such
image, loads it as `load` does and starts the program again. The payload is one
block: its checksum is what makes a mixture of its blocks a damaged one. `version` and
`promised` are history variables. `Persist` puts the files of `Posix` there: each of its
steps is a step of `Volume` together with what programs see of it, a call that changes a
file under `/data`, an `fsync` that returns, or a restart with the files that were loaded.
Calls go on while a save is under way.

### Keymap, Browser

The tables are the code's, key for key. `browser`, `views` and `window` are the
static structure, the views and the pixels (as the state they were drawn from); a
handler of the main loop is a step. Input comes from a thread that queues events
for the main loop, so any event may be next, also one that was queued before the
loop ended. WebKit is external: it changes a page's address, title, history and
progress, opens and closes windows, and renders into one of its buffers at any
time.

What the window shows is not always what WebKit has, and the model keeps the difference.
The strip bears each tab's title, or its address while it has none, as of the last
drawing: `on_title` draws it for any tab, `on_uri` never does. So a tab without a title may bear an
earlier address of its page until something draws the strip, and `WindowTruthful` says
no more than that it bears one. The back and forward buttons are drawn with the toolbar
from WebKit's answers at that moment, and nothing announces a change of them
(`PageHistory`); no property is about them. The program may be started with an
argument (`Started`): the address field then shows it as typed, while the page loads what
`address_to_url` makes of it, until the first report of an address.
 Keys go through `orange_key_translate` and the chrome to the page;
`sent` is what the page got. `Next` takes any key and any click (`dispatch`);
`MCBrowser` takes its steps from a chosen list of them, by scene.

## Runs

| Run | Shows | Instance |
|---|---|---|
| `sched_safe` | `RunQueueExact BlockedHasWaker NoLostWakeup NoPanic NoLostExit NoLostKill NoLeakedChild ImplementsDispatcher` | 2 CPUs; scene `life` with 3 tids, 2 threads per program, 2 statuses and life-cycle steps; scene `events` with 2 tids, a port of capacity 2 and every action |
| `sched_live` | `OrphansFreed ProgramEnds WaitReturns` | 2 CPUs; scene `orphans` (init and a program) and `supervise` (init, which alone waits, and a program of two threads) |
| `mlfq_fair` | `Refines NoStarvation` | 1 CPU, 3 tasks (one realtime), quanta 1-2, boost every 3 ticks |
| `signal_deliver` | `InterruptedNeverSleeps SignalsConserved MaskRestored SignalsServed` | scenes `racing` (2 threads, 1 signal with a one-shot handler and as a fault, one frame) and `nesting` (1 thread, 2 signals, the second of which blocks the first, up to 2 frames) |
| `signal_missed` | expected violation of `SignalNotMissed` | as `signal_deliver` |
| `aspace_shoot` | `CopyStaysInside NoStaleFrame TlbCoherent FramesConserved ChangesEnd` | 2 CPUs, 2 spaces, 1 frame, 3 tasks, 3 changes |
| `epoll_safe` | `RingIsQueue WritesWhole SleepersWoken WatchersWoken EdgeKept NoDangling` | 3 threads (reader, writer, watcher), ring of 3, atomic writes of 2, 2 writes |
| `epoll_close` | expected violation of `NoUseAfterFree` | as `epoll_safe` |
| `browser_tabs` | `ActiveTabShown KeysGoToOnePlace WindowTruthful BuffersReturn KeymapAgrees CloseKeepsTab` | scenes `chrome` (3 tabs, every place to click, keys of the chrome, page events), `titles` (2 tabs, any start argument, titles, addresses and history that change by themselves), `frames` (3 views, 2 buffers) and `keyboard` (one page, every scancode) |
| `locks_one` | `LocksCoherent NoDeadlock` | 3 processes of one thread, 1 description, one file, ranges of one byte and of the three around it, 2 entries for waiting owners |
| `programs_run` | `RefsExact Durable LocksImplement ProbesPass` | 11 probes, each to its end in every interleaving; scenes `passing`, `locking`, `saving` whose programs call in any order |
| `programs_leak` | expected violation of `ReferencesHeld` | two messages without data, a description each, one receive |

Why the bounds are enough. The interesting races of the scheduler are between two
CPUs and need a parent, a leader and one more thread: three tids. With two tids every
action of `Sched` still fires, including a receive that races a send. One CPU is enough for
starvation: tasks compete for the same queues, and more CPUs only
help. Two threads race for one pending bit (`racing`). Handlers nest on one thread (`nesting`):
two frames with different saved masks tell the right order of return from a wrong one,
entered by signals, by faults and with masks the handlers change. The proofs
cover any number of threads, signals and frames. Two unmaps per space let the
epoch return to its old parity, which is the case `beginAccess` guards against.
Two CPUs cannot contend for the shootdown's request lock (that takes three CPUs
and two spaces); the lock is in the model but only its uncontended use is
explored. In `signal_deliver` the constraint `EndsSoon` cuts what follows once a group
exit has begun and no thread is about to sleep: the threads are then on their way
out and no property speaks of them.

A ring of 3 with atomic writes of 2 has every case of the write path: fits, does
not fit, fits in part, wraps. The two epoll runs keep the features apart
(`InTurn`): epoll with one short write; or `poll`, signals and a second write once an
instance without interests is closed; and a long write while the watcher is in user mode. Each of these is
explored with every interleaving of the three threads and of the closes; what is
not explored is `poll` and `epoll_wait` by two threads at once.

In `programs_run` the probes run to their ends, so their loops bound them. The scene `passing`
shares a socket and a pipe between two processes with up to 12 references
(`MAX_USES`): a description can be in two tables, two calls and a message at once.
`locking` has three processes, two bytes and shared and exclusive requests, enough to
set, wait, be refused and let go in every order. `saving` has 3 changes (`MAX_CHANGES`) and two starts of the machine
(`MAX_BOOTS`), so that both slots are written and one is written again, with
threads that sync at the same time. `MAX_THREADS` is 4: main and three parked
threads, whose leaving is a step of its own only there (`LINGERING`). The browser's
three tabs have a first, a middle and a last one, and the last tab can be closed.

In `locks_one` three processes can close a circle of three, and the third wait finds the
table of 2 waiting owners full, so it sleeps unnoted: `NoDeadlock` then speaks of the other
two. A range inside another one gives every case of `Remainder`: head, tail, both and
nothing. Two waiting calls of one process (`Threaded`) are left to the theorem that
does not need them, `LocksCoherent`; with them a circle can be missed, which the
code does not deny. In `programs_run`, `LocksImplement` is checked with `Threaded`
allowed.

Deadlock is checked in `Mlfq`, whose timer never stops, and in `programs_run`, where
a probe that cannot go on has failed. In the other modules a
legal end exists (all programs gone or all threads waiting), so it is off, and the
liveness properties take its place.

### Fairness

* `Sched`: a thread that runs again and again takes its next step, and a ready
  task that could be picked again and again is picked (strong fairness). The
  second assumption is what `mlfq_fair` establishes of the queues. The reaper
  thread polls (weak fairness). No fairness of timeouts or of senders.
* `Mlfq`: the timer keeps ticking and each interrupt ends in `preemptIfNeeded`
  (weak). A realtime thread blocks again and again (strong): the kernel has one,
  `usb-input`, which waits after each event. Two realtime threads that never block would
  starve everyone, since realtime is never demoted.
* `Signal`: the lock holder finishes, a thread in the kernel goes on, the timer
  interrupts user mode (weak). Nothing is assumed of waits or of the spin lock:
  `NeedsLock` names the places where a thread may spin.
* `Posix`: something goes on as long as a probe has not ended (weak fairness of
  the whole next-state relation, written out as `Fairness`: a probe that could do nothing
  is a deadlock and reported as such). No thread is favoured, and a sleeping call
  that never completes is not assumed away.
* `AddressSpace`: CPUs execute (weak) and an IPI stays pending until the CPU
  accepts it (strong). The spin locks are not fair, so only a change past its
  locks is claimed to end.

## Findings

1. `signal_missed`. `sched.zig` 1142 and 1189 say a caught signal "cannot be missed
   here". `deliver` clears `sig_interrupt` after its own test without the lock, so
   an interrupt published in between is wiped out and the thread may sleep with a
   caught signal pending for it.
2. `epoll_close`. "The last close of both frees the pipe" (`pipe.zig` 160), but
   `closeEnd` announces the close after it has released the lock. Of two ends
   closed at once the earlier may still have `readiness.notify` on the pipe's
   sources ahead when the later frees it.
3. `programs_leak`. `receive` returns what arrived "for the caller to install or
   release" (`unix_socket.zig` 177). On a stream it goes on to the next segment as
   long as it has no bytes, also after a segment that carried only descriptions;
   those of the next one replace them, and the first are never released.

Two more comments say more than the code does. They have a definition each, which no
listed run checks; the configuration named finds the counterexample.

* `TeardownComplete` (`MCSched_safe.cfg` with this invariant).
  `task.zig` 84 says `exited` is set "once every resource has been released". A
  thread that is not the last drops its address space after its decrement, so the
  last thread can publish the exit first, and a parent can collect the leader
  meanwhile. Memory stays safe by its reference count.
* `KeysInUse` (`MCPrograms_leak.cfg` with `Scenes = {"closing"}` and this invariant).
  `lock.zig` 20-22 says that "every lock goes with the last description, so its key is never reused
  while a lock names it". A thread asleep in `F_SETLKW` holds its description only by
  its call. When another thread of the program closes the descriptor, `close` drops the
  process's locks on the file before the waiter has one; the waiter is then granted its
  lock, the call lets go of the last description, and the lock of an unlinked file stays
  until the program exits, under a key that a new inode may get. `exit` clears the
  descriptors (`sched.zig` 828) before it drops the locks (830), which leaves the same
  gap for a moment.

One more path is wrong in the code and has no comment against it. A socket pair's last end
may be in flight in the pair's own queue: one end is sent to the other, its descriptor is
closed, and then the other end is. `closeEnd` finds one end still open (`unix_socket.zig` 289), then
releases what was in flight (291-294), which closes that end and frees the pair, and
then calls `changed(pair)` (295) on freed memory. `socket_closeEnd` has the steps in this
order; no scene sends a socket to itself, since what follows is undefined.

## Proofs

All theorems hold for every value of the constants under the named assumptions
of each module (`ConstantsAssumption`, `SignalAssumption`, `AddressSpaceAssumption`,
`ThreadAssumption`, `PipeAssumption`, `BrowserAssumption`, `MlfqAssumption`,
`LockTableAssumption`; `Volume` needs none). They say that constants have
their types and that model values are distinct from tasks, frames and the like; that
CPUs (`AddressSpace`), threads (`Readiness`) and tasks (`Mlfq`) are finite in number, as
the kernel's tables are; that a call of `Pipe` and `Epoll` starts with fresh local variables and asks
for what the kernel does not refuse at once; that the browser has a view and
that no buffer is `NULL`; that a range that is asked for is not empty and that the table
of waiting owners has an entry.

**The scheduler.** `SchedProofs` proves `Spec => []IInv`, one lemma per group of actions,
and derives `TypeOK`, `OneCpu`, `RunQueueExact`, `BlockedHasWaker`,
`DeadlineOnlyWhileBlocked`, `NoLostKill`, `NoLostExit` and `NoLostWakeup`. None is
inductive alone. `IInv` adds:

* `WaitLinks`: a task on the wait list sleeps or is between the two phases.
  Without it a wake could unlink a task that is elsewhere, and the exit's
  check for links could not be reasoned about;
* `OnlyLeadersHaveParents`: a record someone waits for is a leader, so that it is
  collectable only once its program has exited;
* `CommittedIsEarly`: what holds of a sleeping waiter already holds once it has
  passed its second test, because from then on only a wake can change the
  condition, and that wake unlinks it. This is the heart of the two-phase wait: the
  leader that becomes a zombie after `exited` must wake too, or this fails.

It goes on to prove `NoPanic` and `NoLeakedChild` from `LInv`, which adds to `IInv`
what the exit of a program rests on: `live_threads` is the number of threads that have
not begun to exit (`LiveExact`), so the thread that finds itself the last is the last
(`LastIsLast`), there always is one while a program without working threads has
not exited (`OneIsLast`), an exited program has no working thread (`ExitedIsOver`), a
record is older than those of its threads (`LeaderFirst`), and a dead thread has left its
address space (`DeadLeft`). The assertions behind `NoPanic` then fail to be violated one by
one. The counting is on cardinalities of sets of threads that gain or lose one.

Last, it proves that `Sched` implements `RunQueue` with
`ready <- runq, running <- current`: every section is an `Admit`, a `Switch` or a
stutter.

**The feedback queues.** `MlfqProofs` proves that `Mlfq` implements the same `RunQueue`,
with the members of the four sequences for `ready`. It has three layers: what `Append`,
`Tail` and `\o` do to the members of a sequence and to its being free of repetitions; what
`enqueue`, `pickNext` and `boostAll` do to the four queues together (the boost joins three
of them, which is sound because no task is in two); and each action as a `Switch` or an
`Admit`. The inductive invariant is `TypeOK` with `OnePlace`: no task is queued twice, and a
CPU's task is in no queue and on no other CPU. Without it a task taken from the head of
one queue could still be in another, and the abstract set would not lose it.

**Signals.** `SignalProofs` proves `Spec => []SInv` and from it `TypeOK`,
`InterruptedNeverSleeps`, `SignalsConserved` and `MaskRestored`. Conservation counts
the threads that hold or have claimed a signal; the steps of the count are
lemmas on cardinalities of sets that gain or lose one thread. The strengthening
says where a sender is while it holds the lock, and what `chosen` is in each place.

**Address spaces.** `AddressSpaceProofs` proves `TypeOK`, `CopyStaysInside`, `NoStaleFrame`,
`TlbCoherent` and `FramesConserved`. The inductive invariant says, CPU by CPU,

* `Placed`, `Resident`: which tables it uses while it switches, and that it is in
  `active_cpus` from before it loads a table until after it has left it;
* `Locked`, `Detaching`: who holds the VM lock, and that a detached frame belongs to
  the holder until it is freed;
* `Referenced`, `CountsExact`: references are at least the users, and the two access
  counts are exactly the accesses that published themselves under each parity;
* `EpochOf`: an access past its second look at the epoch was counted under the present
  epoch, or under the last while its change drains that. With `CountsExact` this is why
  a drained count means no copy is left: the argument of `beginAccess`;
* `CopyCovered`: a copy reaches the present page, or one a change is to wait for;
* `Translates`: a TLB agrees with the table or is among those the change in
  progress has yet to flush, and then only reaches the page's present or detached frame;
* `OnePlace`: each frame is free, mapped once, or detached by one CPU.

**Pipes and epoll.** `EpollProofs` proves `Spec => []IInv` and from it `SleepersWoken`: no
read or write sleeps through its wake-up, whatever closes, polls and scans run beside it.
The property is not inductive: a `changed()` that wakes the channel helps only a thread
that is registered there, so `IInv` adds `OnPipe` (a reader or writer in its loop is
registered on the pipe's channel or not at all), and `Home` (the way to sleep through
the labels of `poll` and `epoll_wait` is taken by those calls only, also when a scan
comes back from releasing a description). Every step falls into one of three lemmas:
it leaves the pipe alone (`Quiet`), it changes the pipe and goes on to
`changed()` (`Loud`), or it is the wake-up itself (`ChangedWakeKeeps`).

It then proves `RingIsQueue`, `WritesWhole`, `WatchersWoken`, `EdgeKept` and
`NoDangling`. For them it first says what a step may do to its call (`Way`) and to the scan
(`ScanWay`), as a table of the places it leads from and to, so that the invariants need
not look at the actions again: `Progress` (a small write is all in the ring or not
begun), `Stage` (where each kind of call can be and what it holds there), `Account` (the
references of a description are exactly its slot and its holders), `Gone` (what
nothing refers to stays so, and has no watcher once they were told), `Scanner` (the lock's
holder is the one that scans), and for the sleepers which announcement is still ahead
(`NotifyAhead`).

**The browser.** `BrowserProofs` proves `ActiveTabShown`, `KeysGoToOnePlace`,
`WindowTruthful`, `BuffersReturn` and the action property `CloseKeepsTab`, for any
keys, clicks, pages and frames. The C functions are operators from a state to a state,
and the proof has a lemma for each: what it needs of the state it gets, and what it
leaves. Most need and leave a state that is `Good` (`Tabs`, `InRange`, `Shown`, `Focused`,
`Truthful`). Between opening or closing a tab and drawing the window that does not
hold; `activate` needs `Tabs` alone (each view in one tab, no view outside a tab active)
and makes the state good again. `After` is what every event leaves behind, and
says where the tab in view went. For the labels on the strip, `StripLabelled` has what
`draw_tabs` leaves, and `LabelledAgain` why a step that draws no strip keeps it: it changes no
title of a tab (`TitleAfter`, `Retitled`). `AddressAgain` does the same for the address field
while the user edits it or another tab's page moves on. `KeymapAgrees` is proved from the tables themselves:
the steps that send a page a key send what `orange_key_translate` gave, and for each
kind of key (a table entry, a letter, a shifted or an extended key) the keymap leads back to it.

**Record locks.** `LockProofs` proves `LocksCoherent` from `Held` (the locks are
ranges of owners there are, and any two `Fits`). What `Remainder` keeps of a lock is the
lock itself, its head or its tail (`Pieces`); a piece lies inside its lock and clear of the
range taken out (`PieceInside`), so pieces of locks that fit do (`PiecesFit`), and what
nothing blocks fits the pieces of the rest (`FreedFits`).

`NoDeadlock` is proved for processes of one waiting call each (`~Threaded`), for any
number of entries of the table of waiting owners. Its invariant, `Sound`, says that the
notes are one of each owner (`OneEach`), have no cycle (`Acyclic`: in any set of noted
owners one waits for an owner outside it), and that a sleeper's note says what is so
(`Matching`). The step that matters is a new note. `wouldDeadlock` followed
`WAITING` holders and did not meet the caller (`FollowedChain`). Were there now a set of noted
owners that all wait within it, the chain would stay in that set without the caller,
which has fewer than `WAITING` members, since a note was free; so it met one
owner twice (`ChainCloses`, by the pigeonhole principle), and the owners in between were
a cycle before, which there was not. So the bound of the walk in the code, the table's
size, is enough. A wait that finds the table full has no note, and the property does
not speak of it.

**The volume.** `VolumeProofs` proves `Durable`, for any files and without a bound on
saves, changes, faults or power failures. Its invariant, `Good`, says that the newest
save is whole on its slot whatever the cache holds (`NewestHolds`) and no older than what
was promised; that the other slot, the target, has at most attempts at the next save,
and if one of them could be loaded it is new enough and the volume is still marked dirty
or being saved (`Attempts`); and how far the blocks of the save in progress
have come (`Progress`: the payload is on stable storage before the header is written).
`load` then finds the newest save, or an attempt that is newer. An attempt that failed and
was nevertheless loaded after a power failure becomes the newest save: that a failed save
may reappear is why the volume must stay dirty until one succeeds.

Model-checked only. Liveness is outside the prover's reach (`OrphansFreed`,
`ProgramEnds`, `WaitReturns`, `NoStarvation`, `SignalsServed`, `ChangesEnd`,
`ProbesPass`). `Posix` releases references recursively, as the code does, and recursive
operators cannot be used under a theorem: hence `RefsExact` and `LocksImplement`, which
speak of its state, have no proof. What `LockTable` and `Volume` promise is proved of these
modules, and carries over to `Posix` and `Persist` as far as `programs_run` checks
`LocksImplement` and as the steps of `Persist` are steps of `Volume` by their form.

## Not modelled

Drivers, boot, page tables and allocators, the ELF loader, random numbers, console
and debugging: their behaviour lies in hardware, runs once or is sequential under one
lock. The network stack, handles and named objects, ptys, the compositor and the other
applications are not modelled yet (`PROJECT.json` has the reasons). Of the memory file
system only one level of names is modelled, without directories, quotas, seals and
mappings. A wait for a lock that begins after another thread closed the descriptor is in
the model of calls only as far as a held reference goes. The kernel raises no
`SIGPIPE`, so writes fail with `EPIPE` only.

## Plan

1. `Futex` over the two-phase wait, and pseudo-terminals over `Readiness`.
2. `Objects`: handle tables, reference counts, named ports and shared memory.
3. `Tcp`: connection states over a lossy network, refining a byte stream.
4. A release of references by a worklist instead of recursion, so that `RefsExact` and
   `LocksImplement` can be proved.
5. Record locks of several waiting threads a process: which circles the notes still find.
