----------------------------- MODULE MCPrograms -----------------------------
(* The probes, each a scene of its own, and three scenes whose programs    *)
(* make their calls in any order: descriptors passed between two processes,*)
(* record locks of three, and a volume that is written, saved and lost.    *)
EXTENDS ThreadProbes, Persist

CONSTANTS
  MAX_USES,     \* bound: references on descriptions in the scene `passing`
  MAX_CHANGES,  \* bound: changes of the volume in the scene `saving`
  MAX_BOOTS,    \* bound: times the machine starts
  Scenes        \* the programs to start with

VARIABLE scene

\* A socket and a pipe's write end, shared with a child.
passing ==
  << SocketPair("sv0", "fd3", "stream", {}), Pipe("p0", "p1", {}), Close("p0"), Spawn("receiving", <<addclose("sv0"), addclose("p1")>>),
     Close("fd3"),
     Write("sv0", <<1>>), send_fds("sv0", <<2>>, <<"p1">>), Close("sv0"), Close("p1"), exits(0) >>
receiving ==
  << receive_fds("fd3", 2, <<>>, <<"f0">>, 1, FALSE, {}), receive_fds("fd3", 2, <<>>, <<"f0">>, 0, FALSE, {}),
     Reads("fd3", 1, <<>>), Close("f0"), Close("fd3"), exits(0) >>

\* Three programs that lock two bytes of a file, one at a time.
Waits(start) == Lock("fd", "SETLKW", FALSE, "write", start, 1)
locking ==
  << Opens("lock", {"read", "write", "creat"}, "fd"), Spawn("locker", <<>>), Spawn("locker", <<>>),
     Waits(0), Waits(1), set_lock("fd", "read", 0, 2), set_lock("fd", "none", 0, 2) >>
locker ==
  << Opens("lock", {"read", "write"}, "fd"), Waits(0), Waits(1), set_lock("fd", "none", 0, 2), Close("fd"), exits(0) >>

\* Two threads that write, rename and save files of the volume.
saving ==
  << Opens("/data/a", {"write", "creat"}, "fd"), Create("saver", "thread"),
     Pwrite("fd", <<1>>, 0), Pwrite("fd", <<2>>, 0), Rename("/data/a", "/data/b"), Fsync("fd") >>
also_saving == << Fsync("fd") >>

\* Two messages without data, with a description each, taken by one receive.
two_rights ==
  << SocketPair("sv0", "sv1", "stream", {}), Pipe("p0", "p1", {}), send_fds("sv0", <<>>, <<"p0">>),
     send_fds("sv0", <<>>, <<"p1">>), receive_fds("sv1", 1, <<>>, <<"f0">>, 1, FALSE, {}), exits(0) >>

\* A thread that waits for a lock while another closes its descriptor.
closing ==
  << Opens("lock", {"read", "write", "creat"}, "fd"), Opens("lock", {"read", "write"}, "other"),
     set_ofd_lock("other", "write", 0, 1), Create("locks_late", "thread"),
     Close("fd"), Unlink("lock"), Close("other"), Rest >>
locks_late == << Lock("fd", "SETLKW", FALSE, "write", 0, 1) >>

Programs ==
  "pipe_probe" :> pipe_probe @@ "stream_writer" :> stream_writer @@ "record_writer_1" :> record_writer(1)
  @@ "record_writer_2" :> record_writer(2) @@ "delayed_writer" :> delayed_writer
  @@ "epoll_probe" :> epoll_probe @@ "late_writer" :> late_writer @@ "waker" :> waker @@ "pipe_poker" :> pipe_poker
  @@ "unix_probe" :> unix_probe @@ "peer" :> peer
  @@ "spawn_probe" :> spawn_probe @@ "echo" :> echo @@ "list_fds" :> list_fds @@ "motd20" :> motd20 @@ "upper" :> upper
  @@ "socket_child" :> socket_child @@ "exit_7" :> <<exits(7)>> @@ "sleep" :> sleep @@ "stdout_closed" :> stdout_closed
  @@ "file_probe" :> file_probe @@ "writer" :> writer @@ "appender_1" :> appender(1)
  @@ "appender_2" :> appender(2) @@ "lock_probe" :> lock_probe @@ "lock_deadlock" :> lock_deadlock
  @@ "data_probe" :> data_probe
  @@ "musl_probe" :> musl_probe @@ "worker_1" :> worker(1) @@ "worker_2" :> worker(2)
  @@ "thread_capacity" :> thread_capacity @@ "parked_1" :> parked(1) @@ "parked_2" :> parked(2) @@ "parked_3" :> parked(3)
  @@ "glib_probe" :> glib_probe @@ "add_many_1" :> add_many(1) @@ "add_many_2" :> add_many(2) @@ "produce" :> produce
  @@ "pool_1" :> pool_thread(1) @@ "pool_2" :> pool_thread(2) @@ "poke_loop" :> poke_loop
  @@ "cxx_probe" :> cxx_probe @@ "static_1" :> static_worker(1) @@ "static_2" :> static_worker(2)
  @@ "counting_1" :> counting(1) @@ "counting_2" :> counting(2) @@ "async_error" :> async(9) @@ "async_sum" :> async(15)
  @@ "jsc_probe" :> jsc_probe @@ "jsc" :> jsc
  @@ "passing" :> passing @@ "receiving" :> receiving @@ "locking" :> locking @@ "locker" :> locker
  @@ "saving" :> saving @@ "saver" :> also_saving @@ "two_rights" :> two_rights
  @@ "closing" :> closing @@ "locks_late" :> locks_late
Roaming == "passing" :> 6 @@ "receiving" :> 1 @@ "locking" :> 4 @@ "locker" :> 2 @@ "saving" :> 3 @@ "saver" :> 1
DataPaths == {"/data/big", "/data/sparse", "/data/boots.new", "/data/boots", "/data/gone", "/data/data", "/data/a", "/data/b"}
Trees == SUBSET [path : DataPaths, data : Seq(Nat)]
LingeringPrograms == Range(Parked)
Root == <<[path |-> "/etc/motd", data |-> Motd, kept |-> FALSE]>>

Probing == scene \notin {"passing", "locking", "saving"}
Ended == procs[1].state = "zombie"

Init ==
  /\ scene \in Scenes
  /\ Starts(Started(scene, Root))
  /\ PersistInit

Uses == FoldSet(LAMBDA d, sum : sum + descs[d].refs, 0, DOMAIN descs)

\* The disk fails only where programs do not count on it, and power fails
\* there at any time and elsewhere once the program has ended.
Next ==
  /\ \/ Calls /\ (scene = "passing" => Uses' <= MAX_USES) /\ (scene = "saving" => volume'.last <= MAX_CHANGES)
     \/ Saving
     \/ scene = "saving" /\ Faults
  /\ UNCHANGED scene
Reboot ==
  /\ scene = "saving" \/ (scene = "data_probe" /\ Ended)
  /\ volume.boots < MAX_BOOTS
  /\ Restarts(scene, Root)
  /\ UNCHANGED scene

\* A probe that has ended stays as it is, and a bound may stop the others.
Done == (Probing => Ended) /\ UNCHANGED <<vars, persist_vars, scene>>

\* The lock table as its users see it: the locks as a set, and the calls asleep
\* for one.
LockRange(a) == <<a.start, IF a.len = 0 THEN TO_END ELSE a.start + a.len - 1>>
LockRanges ==
  UNION {{LockRange(Programs[p][n].arg) :
            n \in {m \in DOMAIN Programs[p] : Programs[p][m].op = "lock" /\ Programs[p][m].arg.start >= 0}} :
         p \in DOMAIN Programs}
LockOwners == {"process", "description"} \X Nat
Asked(t) ==
  LET a == Instr(threads[t]).arg
      d == threads[t].held[1]
  IN  [key |-> descs[d].object, first |-> LockRange(a)[1], last |-> LockRange(a)[2], kind |-> a.kind,
       owner |-> IF a.ofd THEN <<"description", d>> ELSE <<"process", threads[t].proc>>]
Table == INSTANCE LockTable WITH
  table <- Range(locks),
  waits <- [t \in {u \in DOMAIN threads : threads[u].at = "locked"} |-> Asked(t)],
  owners <- {<<<<"process", p>>, n>> : p \in {x \in DOMAIN procs : procs[x].state = "live"}, n \in DOMAIN files}
            \cup {<<<<"description", d>>, descs[d].object>> : d \in {x \in DOMAIN descs : descs[x].kind = "node"}},
  Owner <- LockOwners, File <- Nat, Ranges <- LockRanges,
  Asks <- [t \in 1 .. 20 |-> LockOwners], Threaded <- TRUE

\* The calls of programs use the table as LockTable says: locks are set, split,
\* waited for and let go with their owners (lock.set, fd.close, exit).
LocksImplement == Table!Spec

\* A probe ends, and with status 0, on every boot: none of its checks fails in
\* any order of the threads and programs it starts (CHECK in each probe).
ProbesPass == Probing => <>[](Ended /\ procs[1].status = 0)

\* Weak fairness of Next in the probes.  A probe that has not ended can take a
\* step, or TLC reports a deadlock, so that ENABLED Next need not be written.
Fairness == Probing => []<>Ended \/ []<><<TRUE>>_<<vars, persist_vars, scene>>
Spec == Init /\ [][Next \/ Reboot \/ Done]_<<vars, persist_vars, scene>> /\ Fairness

=============================================================================
