---------------------------- MODULE ThreadProbes ----------------------------
(***************************************************************************)
(* The probes whose threads share memory (userland/bin): mutexes, condition*)
(* variables, queues and the limit on threads.  The mutexes and condition  *)
(* variables are musl's, the queues and the main loop GLib's.  An increment*)
(* is a load and a store.  Waves, workers and rounds are scaled to two or  *)
(* three; what the probes check of formatting and parsing is left out.     *)
(***************************************************************************)
EXTENDS Probes

Plus(of, by, into) == Into(<<into>>, Sys("plus", <<>>, [of |-> of, by |-> by], {}))
Is(name, value) == Sys("plus", <<>>, [of |-> name, by |-> 0], {value})
\* counter++ through a register of the thread's own.
Increment(counter, by, own) == << Plus(counter, 0, own), Plus(own, by, counter) >>
Holding(mutex, block) ==
  << Sys("mutex_lock", <<>>, mutex, {0}) >> \o block \o << Sys("mutex_unlock", <<>>, mutex, {0}) >>
CondWait(cond, mutex) == Sys("cond_wait", <<>>, [cond |-> cond, mutex |-> mutex], {0})
Signal(cond) == Sys("cond_wake", <<>>, [cond |-> cond, all |-> FALSE], {0})
Broadcast(cond) == Sys("cond_wake", <<>>, [cond |-> cond, all |-> TRUE], {0})
\* Goes through a block for as long as a variable has one of these values.
While(name, values, block) ==
  << Branch(name, values, -(Len(block) + 2)) >> \o block \o << Branch(name, {}, Len(block) + 1) >>
Returns(value) == Sys("return", <<>>, value, {})
Joins(name, value) == [Join(name) EXCEPT !.want = {value}]
Push(queue, item) == Sys("push", <<>>, [queue |-> queue, item |-> item], {})
Pop(queue, timeout, into) == Into(<<into>>, Sys("pop", <<>>, [queue |-> queue, timeout |-> timeout], {}))

ROUNDS_EACH == 2
Registers == <<"register_1", "register_2">>

-----------------------------------------------------------------------------
(* musl-probe                                                              *)

worker(id) ==
  Times(ROUNDS_EACH, Holding("lock", Increment("counter", 1, Registers[id])))
  \o Holding("lock", Increment("finished", 1, Registers[id]) \o << Broadcast("changed") >>) \o << Returns(100 * id + 1) >>
musl_files ==
  << Opens("/etc/motd", {"read"}, "motd"), Reads("motd", Buffer, SubSeq(Motd, 1, Buffer)), Close("motd"),
     Stat("/etc/motd", Len(Motd)), Fails(Opens("/etc/missing", {"read"}, "none"), ENOENT) >>
musl_threads ==
  << Set("counter", 0), Set("finished", 0), Create("worker_1", "t1"), Create("worker_2", "t2") >>
  \o Holding("lock", While("finished", 0 .. 1, << CondWait("changed", "lock") >>))
  \o << Joins("t1", 101), Joins("t2", 201), Is("counter", 2 * ROUNDS_EACH) >>
musl_probe == << Rest >> \o musl_files \o musl_threads

-----------------------------------------------------------------------------
(* thread-capacity                                                         *)

Parked == <<"parked_1", "parked_2", "parked_3">>
Own == <<"own_1", "own_2", "own_3">>
parked(i) ==
  Holding("lock", Increment("started", 1, Own[i]) \o << Signal("arrived") >> \o While("released", {0}, << CondWait("release", "lock") >>))
  \o << Returns(i) >>
\* As many threads as the limit allows beside main, all at once.
wave ==
  << Set("started", 0), Set("released", 0) >>
  \o [i \in DOMAIN Parked |-> [Create(Parked[i], Parked[i]) EXCEPT !.want = 1 .. 99]]
  \o << Fails(Create("parked_1", "none"), EAGAIN) >>
  \o Holding("lock", While("started", 0 .. Len(Parked) - 1, << CondWait("arrived", "lock") >>)
                     \o << Set("released", 1), Broadcast("release") >>)
  \o [i \in DOMAIN Parked |-> Joins(Parked[i], i)]
thread_capacity == wave \o << Rest >> \o wave

-----------------------------------------------------------------------------
(* glib-probe                                                              *)

add_many(id) == Times(ROUNDS_EACH, Holding("counter_lock", Increment("counter", 1, Registers[id]))) \o << Returns(7) >>
produce == << Push("queue", 1), Push("queue", 2), Push("queue", 3) >>
pool_task(task, own) ==
  << Pause >> \o Holding("pool_lock", << Plus("pool_finished", 0, own), Into(<<"pool_finished">>, Sys("sum", <<>>, <<own, task>>, {})), Signal("pool_done") >>)
\* A thread of the pool takes tasks until the pool is freed.
pool_thread(id) ==
  LET task == <<"task_1", "task_2">>[id]
  IN  << Pop("pool", "forever", task) >>
      \o While(task, 1 .. 3, pool_task(task, Registers[id]) \o << Pop("pool", "forever", task) >>)

glib_counter ==
  << Set("counter", 0), Create("add_many_1", "t1"), Create("add_many_2", "t2"), Joins("t1", 7), Joins("t2", 7),
     Is("counter", 2 * ROUNDS_EACH) >>
glib_queue ==
  << Set("queue", <<>>), Create("produce", "producer"), Pop("queue", "forever", "x"), Is("x", 1), Pop("queue", "forever", "x"),
     Is("x", 2), Pop("queue", "forever", "x"), Is("x", 3), Join("producer"), [Pop("queue", "finite", "x") EXCEPT !.want = {0}] >>
glib_pool ==
  << Set("pool", <<>>), Set("pool_finished", 0), Create("pool_1", "t1"), Create("pool_2", "t2"),
     Push("pool", 1), Push("pool", 2), Push("pool", 3) >>
  \o Holding("pool_lock", While("pool_finished", 0 .. 5, << CondWait("pool_done", "pool_lock") >>))
  \o << Is("pool_finished", 6), Push("pool", 0), Push("pool", 0), Join("t1"), Join("t2") >>

\* The pipe's source, and the eventfd that wakes the loop for another thread.
poke_loop == << Pause, Write("wake_pipe1", <<1>>), Pause, Write("wakeup", <<1>>) >>
on_readable == << Reads("wake_pipe0", 1, <<1>>), Set("fd_reads", 1) >>
on_invoke == << Reads("wakeup", 1, <<1>>), Set("invoked", 1) >>
main_loop ==
  << Pipe("wake_pipe0", "wake_pipe1", {"cloexec"}), Eventfd(0, FALSE, {"nonblock", "cloexec"}, "wakeup"), Create("poke_loop", "poker"),
     Gives({<<{"in"}, {}>>, <<{"in"}, {"in"}>>},
           Sys("poll", <<"wake_pipe0", "wakeup">>, [requested |-> <<{"in"}, {"in"}>>, timeout |-> "forever"], {1, 2})) >>
  \o on_readable \o << Poll(<<"wakeup">>, <<{"in"}>>, "forever", <<{"in"}>>) >> \o on_invoke
  \o << Join("poker"), Close("wake_pipe0"), Close("wake_pipe1"), Close("wakeup"), Is("fd_reads", 1), Is("invoked", 1) >>

glib_files ==
  Writes("glib.txt", {"creat", "trunc"}, Lines)
  \o << Opens("glib.txt", {"read"}, "file"), ReadsToEnd("file", Buffer, {Lines}), Close("file"), Stat("glib.txt", Len(Lines)),
        Unlink("glib.txt"), Stat("glib.txt", ENOENT) >>
glib_processes == run("echo", <<>>, Text, 0)
glib_probe == glib_counter \o glib_queue \o glib_pool \o main_loop \o glib_files \o glib_processes

-----------------------------------------------------------------------------
(* cxx-probe                                                               *)

\* The static is constructed by the first thread; the others wait for it.
Expensive == << Plus("constructions", 1, "constructions"), Pause, Set("instance", 99) >>
sharedStatic == Holding("guard", While("instance", {-1}, Expensive))
static_worker(id) ==
  sharedStatic \o << Plus("instance", 0, Registers[id]), Branch(Registers[id], {99}, -2), Plus("static_ok", 1, "static_ok") >>
counting(id) ==
  Times(ROUNDS_EACH, Holding("lock", Increment("counter", 1, Registers[id])))
  \o Holding("lock", Increment("finished", 1, Registers[id]) \o << Broadcast("changed") >>)
\* A future is shared state that its thread makes ready; get waits for it.
async(result) == Holding("state_lock", << Set("state", result), Broadcast("ready") >>)
get(result) ==
  Holding("state_lock", While("state", {0}, << CondWait("ready", "state_lock") >>)) \o << Is("state", result) >>
Deferred(program, result) ==
  << Set("state", 0), Create(program, "t1") >> \o get(result) \o << Join("t1") >>

cxx_static ==
  << Set("constructions", 0), Set("static_ok", 0), Create("static_1", "t1"), Create("static_2", "t2"), Join("t1"), Join("t2"),
     Is("constructions", 1), Is("static_ok", 2) >>
cxx_counting ==
  << Set("counter", 0), Set("finished", 0), Create("counting_1", "t1"), Create("counting_2", "t2") >>
  \o Holding("lock", While("finished", 0 .. 1, << CondWait("changed", "lock") >>))
  \o << Join("t1"), Join("t2"), Is("counter", 2 * ROUNDS_EACH) >>
cxx_probe == cxx_static \o cxx_counting \o Deferred("async_error", 9) \o Deferred("async_sum", 15) \o << Rest >>

-----------------------------------------------------------------------------
(* jsc-probe                                                               *)

jsc == << Write("fd1", Text), exits(0) >>
run_jsc ==
  << Pipe("output0", "output1", {}), Spawn("jsc", << adddup2("output1", "fd1"), adddup2("output1", "fd2"), addclose("output0") >>),
     Close("output1"), ReadsToEnd("output0", Buffer, {Text}), Close("output0"), WaitFor(0) >>
jsc_probe == Times(4, run_jsc)

=============================================================================
