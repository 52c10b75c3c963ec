------------------------------- MODULE Probes -------------------------------
(***************************************************************************)
(* The repository's probe programs (userland/bin) as instructions for      *)
(* Posix: the calls they make, in order, and what they check.  A failed    *)
(* CHECK ends the program with status 1.                                   *)
(*                                                                         *)
(* Sizes are scaled: a pipe holds 4 bytes and writes of 2 whole, a socket  *)
(* queue holds 6 bytes, a program has 16 descriptors, loops run two or     *)
(* three times, and texts keep as many bytes as a check tells apart.       *)
(***************************************************************************)
EXTENDS Posix

Opens(path, flags, name) == Into(<<name>>, Sys("open", <<>>, [path |-> path, flags |-> flags], 3 .. MAX_OPEN))
Pipe(a, b, flags) == Into(<<a, b>>, Sys("pipe", <<>>, flags, {0}))
Close(fd) == Sys("close", <<>>, fd, {0})
Closes(fds) == [n \in DOMAIN fds |-> Close(fds[n])]
Write(fd, bytes) == Sys("write", <<fd>>, bytes, {Len(bytes)})
Fails(i, error) == [i EXCEPT !.want = {error}]
Reads(fd, n, bytes) == Gives({bytes}, Sys("read", <<fd>>, n, {Len(bytes)}))
ReadsToEnd(fd, n, accepted) == Gives(accepted, Until(99, Sys("read", <<fd>>, n, {0})))
Control(fd, command, arg, want) == Sys("fcntl", <<>>, [fd |-> fd, command |-> command, to |-> arg], want)
Create(program, name) == Into(<<name>>, Sys("pthread_create", <<>>, program, {}))
Join(name) == Sys("pthread_join", <<>>, name, {0})
Pause == Sys("pause", <<>>, 0, {})
Rest == Sys("rest", <<>>, 0, {})
Set(name, value) == Into(<<name>>, Sys("set", <<>>, value, {}))
Eventfd(count, semaphore, flags, name) ==
  Into(<<name>>, Sys("eventfd", <<>>, [count |-> count, semaphore |-> semaphore, flags |-> flags], {}))
Times(n, block) == FlattenSeq([k \in 1 .. n |-> block])

Motd == <<1, 2, 3, 4, 5, 6, 7, 8, 9, 10, 11, 12>>
Buffer == 4   \* sizeof buffer
Many == [n \in 1 .. 8 |-> 0]   \* more than any buffer of the kernel holds

-----------------------------------------------------------------------------
(* pipe-probe                                                              *)

pipe_basics ==
  << Pipe("p0", "p1", {}), Write("p1", <<1, 2>>), Reads("p0", Buffer, <<1, 2>>),
     Sys("lseek", <<"p0">>, [base |-> "set", offset |-> 0], {ESPIPE}) >>

pipe_ends ==
  << Close("p1"), Reads("p0", Buffer, <<>>), Close("p0"),
     Pipe("p0", "p1", {}), Close("p0"), Fails(Write("p1", <<1>>), EPIPE), Close("p1") >>

pipe_nonblocking ==
  << Pipe("p0", "p1", {"nonblock", "cloexec"}), Control("p0", "GETFL", {}, {1}), Control("p0", "GETFD", {}, {1}),
     Fails(Reads("p0", 1, <<>>), EAGAIN),
     Gives({SubSeq(Many, 1, 4)}, Until(99, Pieces(2, Fails(Write("p1", Many), EAGAIN)))),
     Gives({SubSeq(Many, 1, 4)}, Until(99, Fails(Reads("p0", Buffer, <<>>), EAGAIN))),
     Close("p0"), Close("p1") >>

\* A reader woken by a writer thread: more than the pipe holds, in order.
Stream == <<1, 2, 3, 4, 5, 6>>
stream_writer == << Until(6, Pieces(1, Sys("write", <<"stream_fd">>, Stream, {1}))), Close("stream_fd") >>
pipe_stream ==
  << Pipe("p0", "stream_fd", {}), Create("stream_writer", "writer"), ReadsToEnd("p0", Buffer, {Stream}),
     Join("writer"), Close("p0") >>

\* Records of two writers: each whole, each writer's in order.
Record(writer, number) == <<10 * writer + number, 10 * writer + number>>
RecordsMerged ==
  {Record(1, 1) \o Record(1, 2) \o Record(2, 1) \o Record(2, 2), Record(1, 1) \o Record(2, 1) \o Record(1, 2) \o Record(2, 2),
   Record(1, 1) \o Record(2, 1) \o Record(2, 2) \o Record(1, 2), Record(2, 1) \o Record(1, 1) \o Record(1, 2) \o Record(2, 2),
   Record(2, 1) \o Record(1, 1) \o Record(2, 2) \o Record(1, 2), Record(2, 1) \o Record(2, 2) \o Record(1, 1) \o Record(1, 2)}
record_writer(writer) == << Write("record_fd", Record(writer, 1)), Write("record_fd", Record(writer, 2)) >>
pipe_records ==
  << Pipe("p0", "record_fd", {}), Create("record_writer_1", "w1"), Create("record_writer_2", "w2"),
     Gives(RecordsMerged, Until(8, Sys("read", <<"p0">>, 2, {1, 2}))),
     Join("w1"), Join("w2"), Close("p0"), Close("record_fd") >>

delayed_writer == << Pause, Write("delayed_fd", <<1>>) >>
pipe_eventfd ==
  << Eventfd(3, FALSE, {}, "e"), Reads("e", 1, <<3>>), Write("e", <<5>>), Write("e", <<7>>), Reads("e", 1, <<12>>),
     Control("e", "SETFL", {"nonblock"}, {0}), Fails(Reads("e", 1, <<>>), EAGAIN), Close("e"),
     Eventfd(2, TRUE, {"nonblock"}, "e"), Reads("e", 1, <<1>>), Reads("e", 1, <<1>>), Fails(Reads("e", 1, <<>>), EAGAIN),
     Close("e"),
     Eventfd(0, FALSE, {}, "delayed_fd"), Create("delayed_writer", "writer"), Reads("delayed_fd", 1, <<1>>),
     Join("writer"), Close("delayed_fd") >>

Dup(fd, min, cloexec, name, want) == Into(<<name>>, Sys("dup", <<>>, [fd |-> fd, min |-> min, cloexec |-> cloexec], want))
Dup2(from, to, want) == Sys("dup2", <<>>, [from |-> from, to |-> to], want)
pipe_dup ==
  << Opens("/etc/motd", {"read"}, "file"), Dup("file", 0, FALSE, "copy", 4 .. MAX_OPEN),
     Reads("file", 5, SubSeq(Motd, 1, 5)), Reads("copy", 5, SubSeq(Motd, 6, 10)),
     Dup2("file", "fd100", {Numbers["fd100"]}), Sys("lseek", <<"fd100">>, [base |-> "current", offset |-> 0], {10}),
     Dup2("fd100", "fd100", {Numbers["fd100"]}),
     Dup("file", Numbers["fd50"], TRUE, "high", {Numbers["fd50"]}),
     Control("high", "GETFD", {}, {1}), Control("file", "GETFD", {}, {0}),
     Control("file", "SETFD", TRUE, {0}), Control("file", "GETFD", {}, {1}), Control("copy", "GETFD", {}, {0}),
     Pipe("p0", "p1", {}), Dup("p0", 0, FALSE, "reader_copy", {}),
     Control("p0", "SETFL", {"nonblock"}, {0}), Control("reader_copy", "GETFL", {}, {1}),
     Fails(Reads("reader_copy", 1, <<>>), EAGAIN),
     Close("p1"), Close("p0"), Reads("reader_copy", 1, <<>>), Close("reader_copy"),
     Dup("fd999", 0, FALSE, "none", {EBADF}), Sys("close", <<>>, "fd999", {EBADF}) >>
  \o Closes(<<"high", "fd100", "copy", "file">>)

Every == <<"s3", "s4", "s5", "s6", "s7", "s8", "s9", "s10", "s11", "s12", "s13", "s14", "s15">>
pipe_limit ==
  [n \in DOMAIN Every |-> Opens("/etc/motd", {"read"}, Every[n])]
  \o << Fails(Opens("/etc/motd", {"read"}, "none"), EMFILE) >>
  \o Closes(Every)
  \o << [Opens("/etc/motd", {"read"}, "again") EXCEPT !.want = {3}], Close("again") >>

pipe_probe ==
  pipe_basics \o pipe_ends \o pipe_nonblocking \o pipe_stream \o pipe_records \o pipe_eventfd \o pipe_dup \o pipe_limit

-----------------------------------------------------------------------------
(* epoll-probe                                                             *)

EventBits == {"in", "out", "err", "hup", "rdhup"}
Ctl(do, fd, events) == Sys("ctl", <<"ep", fd>>, [do |-> do, events |-> events, data |-> fd], {0})
Wait(timeout, want) == Sys("epoll_wait", <<"ep">>, [max |-> 1, timeout |-> timeout], want)
WaitNone == Wait("none", {0})
WaitExactly(events, fd) == Gives({<<[events |-> events, data |-> fd]>>}, Wait("none", {1}))
WaitOne(fd) == Gives({<<[events |-> e, data |-> fd]>> : e \in SUBSET EventBits}, Wait("none", {1}))
WaitWith(events, fd) ==
  Gives({<<[events |-> e, data |-> fd]>> : e \in {x \in SUBSET EventBits : events \subseteq x}}, Wait("none", {1}))
EpollCreate(name, flags) == Into(<<name>>, Sys("epoll_create", <<>>, flags, 3 .. MAX_OPEN))

epoll_level ==
  << EpollCreate("ep", {"cloexec"}), Control("ep", "GETFD", {}, {1}),
     Pipe("a0", "a1", {}), Ctl("add", "a0", {"in"}), WaitNone,
     Write("a1", <<1>>), WaitExactly({"in"}, "a0"), WaitOne("a0"), Reads("a0", 1, <<1>>), WaitNone >>

epoll_errors ==
  << Fails(Ctl("add", "a0", {"in"}), EEXIST), Fails(Ctl("del", "a1", {}), ENOENT),
     Opens("/etc/motd", {"read"}, "file"), Fails(Ctl("add", "file", {"in"}), EPERM),
     [Fails(Ctl("add", "a0", {"in"}), EINVAL) EXCEPT !.fds = <<"file", "a0">>],
     Fails(Ctl("add", "ep", {"in"}), EINVAL), Close("file"), Ctl("del", "a0", {}) >>

epoll_edge ==
  << Ctl("add", "a0", {"in", "et"}), Write("a1", <<1>>), WaitOne("a0"), WaitNone,
     Write("a1", <<2>>), WaitOne("a0"), Reads("a0", 2, <<1, 2>>) >>

epoll_oneshot ==
  << Ctl("mod", "a0", {"in", "oneshot"}), Write("a1", <<3>>), WaitOne("a0"), WaitNone,
     Ctl("mod", "a0", {"in", "oneshot"}), WaitOne("a0"), Reads("a0", 1, <<3>>), Ctl("del", "a0", {}) >>

\* OUT follows the space left; the program reads until it is writable again.
epoll_writable ==
  << Control("a1", "SETFL", {"nonblock"}, {0}), Ctl("add", "a1", {"out"}), WaitExactly({"out"}, "a1"),
     Until(99, Pieces(2, Fails(Write("a1", Many), EAGAIN))), WaitNone,
     Reads("a0", 2, SubSeq(Many, 1, 2)), WaitOne("a1"), Ctl("del", "a1", {}),
     Control("a0", "SETFL", {"nonblock"}, {0}), Until(99, Sys("read", <<"a0">>, Buffer, {EAGAIN})),
     Control("a0", "SETFL", {}, {0}) >>

epoll_hangup ==
  << Pipe("b0", "b1", {}), Ctl("add", "b0", {"in"}), Close("b1"), WaitWith({"hup", "in"}, "b0"), Close("b0"),
     Pipe("b0", "b1", {}), Ctl("add", "b1", {"out"}), Close("b0"), WaitWith({"err"}, "b1"), Close("b1"), WaitNone,
     Pipe("b0", "b1", {}), Ctl("add", "b0", {"in"}), Close("b0"), Close("b1") >>

late_writer == << Pause, Write("a1", <<9>>) >>
epoll_blocking ==
  << Control("a1", "SETFL", {}, {0}), Ctl("add", "a0", {"in"}), Create("late_writer", "thread"),
     Wait("forever", {1}), Join("thread"), Reads("a0", 1, <<9>>), Wait("finite", {0}), Ctl("del", "a0", {}) >>

\* An eventfd drained on each report: no wake-up goes uncounted.
Wakeups == 3
waker == << Write("wake_fd", <<1>>), Pause, Write("wake_fd", <<1>>), Write("wake_fd", <<1>>) >>
Add(name, from) == Into(<<name>>, Sys("add", <<>>, [to |-> name, from |-> from], {}))
Branch(var, stop, back) == Sys("branch", <<>>, [var |-> var, stop |-> stop, back |-> back], {})
epoll_pump ==
  << Eventfd(0, FALSE, {"nonblock", "cloexec"}, "wake_fd"), Ctl("add", "wake_fd", {"in"}),
     Create("waker", "thread"), Set("total", 0),
     Gives({<<[events |-> {"in"}, data |-> "wake_fd"]>>}, Wait("finite", {1})),
     Into(<<"value">>, Until(99, Sys("read", <<"wake_fd">>, 1, {EAGAIN}))), Add("total", "value"),
     Branch("total", {Wakeups}, 3), Join("thread"), Close("wake_fd") >>

\* Several edge-triggered pipes reported in batches: each once, and no other.
pipe_poker == << Pause, Write("t1", <<1>>), Pause, Write("r1", <<1>>) >>
AddTo(ep, fd) == [Ctl("add", fd, {"in", "et"}) EXCEPT !.fds = <<ep, fd>>]
epoll_many ==
  << EpollCreate("ep2", {}), Pipe("r0", "r1", {}), AddTo("ep2", "r0"), Pipe("s0", "s1", {}), AddTo("ep2", "s0"),
     Pipe("t0", "t1", {}), AddTo("ep2", "t0"), Create("pipe_poker", "thread"), Set("one", <<1>>), Set("seen", 0),
     Into(<<"batch">>, Sys("epoll_wait", <<"ep2">>, [max |-> 4, timeout |-> "finite"], {1, 2})),
     Into(<<"item", "batch">>, Sys("pick", <<>>, "batch", {})), Reads("item", 1, <<1>>), Add("seen", "one"),
     Branch("batch", {<<>>}, 3), Branch("seen", {2}, 5), Join("thread") >>
  \o Closes(<<"r0", "r1", "s0", "s1", "t0", "t1", "ep2">>)

Poll(fds, requested, timeout, returned) ==
  Gives({returned}, Sys("poll", fds, [requested |-> requested, timeout |-> timeout],
                        {Cardinality({n \in DOMAIN returned : returned[n] # {}})}))
epoll_poll ==
  << Gives({<<{}, {"out"}, {"nval"}>>},
           Poll(<<"a0", "a1", "fd999">>, <<{"in"}, {"out"}, {"in"}>>, "none", <<{}, {"out"}, {"nval"}>>)),
     Create("late_writer", "thread"), Poll(<<"a0">>, <<{"in"}>>, "forever", <<{"in"}>>), Join("thread"),
     Reads("a0", 1, <<9>>), Rest >>

epoll_select ==
  << [Poll(<<"a0">>, <<{"in"}>>, "none", <<{}>>) EXCEPT !.data = {<<>>}], Write("a1", <<1>>),
     Poll(<<"a0">>, <<{"in"}>>, "finite", <<{"in"}>>), Reads("a0", 1, <<1>>), Close("a1"),
     Gives({<<e>> : e \in {x \in SUBSET EventBits : "hup" \in x}}, Sys("poll", <<"a0">>, [requested |-> <<{"in"}>>, timeout |-> "none"], {1})),
     Close("a0"), Close("ep") >>

epoll_probe ==
  epoll_level \o epoll_errors \o epoll_edge \o epoll_oneshot \o epoll_writable \o epoll_hangup \o epoll_blocking
  \o epoll_pump \o epoll_many \o epoll_poll \o epoll_select

-----------------------------------------------------------------------------
(* unix-probe                                                              *)

SocketPair(a, b, kind, flags) == Into(<<a, b>>, Sys("socketpair", <<>>, [kind |-> kind, flags |-> flags], {0}))
send_fds(socket, data, fds) == Sys("sendmsg", <<socket>> \o fds, data, {Len(data)})
\* A message of `data` with as many descriptors as `names`, and these flags.
receive_fds(socket, n, data, names, room, cloexec, flags) ==
  Into(names, Gives({Append(data, [count |-> Len(names), flags |-> flags])},
    Sys("recvmsg", <<socket>>, [n |-> n, room |-> room, cloexec |-> cloexec, dontwait |-> FALSE], {Len(data)})))

unix_stream ==
  << SocketPair("sv0", "sv1", "stream", {"cloexec"}), Control("sv0", "GETFD", {}, {1}),
     Write("sv0", <<1, 2>>), Write("sv0", <<3, 4>>), Reads("sv1", 1, <<1>>), Reads("sv1", Buffer, <<2, 3, 4>>),
     Write("sv1", <<5, 6>>), Reads("sv0", Buffer, <<5, 6>>) >>

\* A pipe's write end moves through the socket; then a file with its offset.
unix_rights ==
  << Pipe("p0", "p1", {}), send_fds("sv0", <<1>>, <<"p1">>), Close("p1"),
     receive_fds("sv1", Buffer, <<1>>, <<"f0">>, 1, FALSE, {}),
     Write("f0", <<8, 9>>), Reads("p0", Buffer, <<8, 9>>), Close("f0"), Reads("p0", Buffer, <<>>), Close("p0"),
     Opens("/etc/motd", {"read"}, "file"), Reads("file", 3, SubSeq(Motd, 1, 3)), send_fds("sv0", <<2>>, <<"file">>),
     receive_fds("sv1", Buffer, <<2>>, <<"f0">>, 1, FALSE, {}), Reads("f0", 4, SubSeq(Motd, 4, 7)),
     Sys("lseek", <<"file">>, [base |-> "current", offset |-> 0], {7}), Close("f0"), Close("file") >>

unix_plain_then_rights ==
  << Pipe("p0", "p1", {}), Write("sv0", <<1>>), send_fds("sv0", <<2>>, <<"p1">>), Close("p1"),
     receive_fds("sv1", Buffer, <<1>>, <<>>, 1, FALSE, {}),
     receive_fds("sv1", Buffer, <<2>>, <<"f0">>, 1, TRUE, {}),
     Control("f0", "GETFD", {}, {1}), Close("f0"), Reads("p0", 1, <<>>), Close("p0") >>

\* More rights than room: what does not fit is closed.
unix_truncated ==
  << Pipe("r0", "w0", {}), Pipe("r1", "w1", {}), Pipe("r2", "w2", {}), send_fds("sv0", <<3>>, <<"w0", "w1", "w2">>) >>
  \o Closes(<<"w0", "w1", "w2">>)
  \o << receive_fds("sv1", Buffer, <<3>>, <<"f0", "f1">>, 2, FALSE, {"ctrunc"}), Reads("r2", 1, <<>>),
        Write("f0", <<1>>), Reads("r0", 1, <<1>>), Write("f1", <<1>>), Reads("r1", 1, <<1>>) >>
  \o Closes(<<"f0", "f1", "r0", "r1", "r2">>)

unix_nonblocking ==
  << Fails([receive_fds("sv1", 1, <<>>, <<>>, 0, FALSE, {}) EXCEPT !.data = {}, !.arg.dontwait = TRUE], EAGAIN),
     Control("sv0", "SETFL", {"nonblock"}, {0}),
     Gives({SubSeq(Many, 1, 6)}, Until(99, Pieces(Buffer, Fails(Write("sv0", Many), EAGAIN)))),
     Gives({SubSeq(Many, 1, 6)}, Until(6, Sys("read", <<"sv1">>, Buffer, 1 .. Buffer))),
     Control("sv0", "SETFL", {}, {0}) >>

unix_epoll ==
  << EpollCreate("ep", {}), Ctl("add", "sv1", {"in", "rdhup"}), WaitNone, Write("sv0", <<1>>), WaitExactly({"in"}, "sv1"),
     Reads("sv1", 1, <<1>>), Sys("shutdown", <<"sv0">>, "write", {0}), WaitWith({"rdhup"}, "sv1"), Reads("sv1", 1, <<>>),
     Close("ep"), Close("sv1"), Fails(Write("sv0", <<1>>), EPIPE), Close("sv0") >>

\* Seqpacket and datagram pairs keep boundaries; what does not fit is cut.
unix_messages ==
  << SocketPair("sv0", "sv1", "seqpacket", {}), Write("sv0", <<1, 2>>), Write("sv0", <<3, 4, 5>>),
     Reads("sv1", Buffer, <<1, 2>>), Reads("sv1", Buffer, <<3, 4, 5>>),
     Write("sv0", <<1, 2, 3, 4, 5>>), Write("sv0", <<6>>),
     receive_fds("sv1", 2, <<1, 2>>, <<>>, 0, FALSE, {"trunc"}), Reads("sv1", Buffer, <<6>>), Close("sv0"), Close("sv1"),
     SocketPair("sv0", "sv1", "dgram", {}), Write("sv1", <<1, 2>>), Reads("sv0", 1, <<1>>), Close("sv0"), Close("sv1") >>

\* Each message of the exchange carries the write end of a new pipe.
ROUNDS == 2
peer ==
  FlattenSeq([i \in 1 .. ROUNDS |->
    << receive_fds("exchange1", 1, <<7>>, <<"fd">>, 1, TRUE, {}), Write("fd", <<i>>), Close("fd") >>])
unix_exchange ==
  << SocketPair("exchange0", "exchange1", "stream", {}), Create("peer", "thread") >>
  \o FlattenSeq([i \in 1 .. ROUNDS |->
       << Pipe("p0", "p1", {}), send_fds("exchange0", <<7>>, <<"p1">>), Close("p1"),
          Reads("p0", 1, <<i>>), Reads("p0", 1, <<>>), Close("p0") >>])
  \o << Join("thread") >>

\* Descriptors in flight close with the pair, and no number has leaked.
unix_in_flight ==
  << Pipe("p0", "p1", {}), send_fds("exchange0", <<1>>, <<"p1">>), Close("p1"),
     Close("exchange0"), Close("exchange1"), Reads("p0", 1, <<>>), Close("p0"),
     [Opens("/etc/motd", {"read"}, "probe") EXCEPT !.want = {3}], Close("probe") >>

unix_probe ==
  unix_stream \o unix_rights \o unix_plain_then_rights \o unix_truncated \o unix_nonblocking \o unix_epoll
  \o unix_messages \o unix_exchange \o unix_in_flight

-----------------------------------------------------------------------------
(* spawn-probe and the modes of spawn-child                                *)

exits(status) == Sys("exit", <<>>, status, {})
\* Writes what a variable holds, with its bytes mapped.
Forward(fd, name, map) == Sys("forward", <<fd>>, [from |-> name, map |-> map], {})
Text == <<1, 2>>
upper_case == <<51, 52, 53>>

ReadsSome(fd, name) == Into(<<name>>, Sys("read", <<fd>>, Buffer, 0 .. Buffer))
echo == << Write("fd1", Text), exits(0) >>
list_fds == << Into(<<"open">>, Sys("open_fds", <<>>, 0, {})), Forward("fd1", "open", <<>>), exits(0) >>
motd20 == << ReadsSome("fd20", "line"), Forward("fd1", "line", <<>>), exits(0) >>
upper ==
  << ReadsSome("fd0", "buffer"), Forward("fd1", "buffer", upper_case), ReadsSome("fd0", "buffer"),
     Branch("buffer", {<<>>}, 2), exits(0) >>
socket_child == << receive_fds("fd3", 1, <<4>>, <<"fd">>, 1, FALSE, {}), Write("fd", Text), exits(0) >>
sleep == << Rest, exits(3) >>
stdout_closed == << Fails(Write("fd1", <<1>>), EBADF), exits(-EBADF) >>

addopen(fd, path) == [do |-> "open", fd |-> fd, path |-> path]
adddup2(from, fd) == [do |-> "dup2", from |-> from, fd |-> fd]
addclose(fd) == [do |-> "close", fd |-> fd]
Spawn(program, actions) == Into(<<"pid">>, Sys("spawn", <<>>, [program |-> program, actions |-> actions], 2 .. 99))
WaitFor(status) ==
  Gives({<<status>>}, Sys("waitpid", <<>>, [pid |-> "pid", nohang |-> FALSE], 2 .. 99))

\* run: a child with its output to a pipe, what it wrote and how it ended.
run(program, actions, out, status) ==
  << Pipe("run0", "run1", {"cloexec"}), Spawn(program, actions \o <<adddup2("run1", "fd1")>>), Close("run1"),
     ReadsToEnd("run0", Buffer, {out}), Close("run0"), WaitFor(status) >>

spawn_inheritance ==
  << Dup("fd1", 0, FALSE, "saved", 3 .. MAX_OPEN), Close("saved") >>
  \o run("echo", <<>>, Text, 0)
  \o << Pipe("keep0", "keep1", {}), Pipe("drop0", "drop1", {"cloexec"}) >>
  \o run("list_fds", <<>>, << <<0, 1, 2, 3, 4>> >>, 0)
  \o Closes(<<"keep0", "keep1", "drop0", "drop1">>)

spawn_actions ==
  run("motd20", <<addopen("fd20", "/etc/motd")>>, SubSeq(Motd, 1, Buffer), 0)
  \o << Spawn("stdout_closed", <<addclose("fd1")>>), WaitFor(-EBADF) >>

spawn_stdio ==
  << Pipe("in0", "in1", {"cloexec"}), Pipe("output0", "output1", {"cloexec"}),
     Spawn("upper", <<adddup2("in0", "fd0"), adddup2("output1", "fd1")>>), Close("in0"), Close("output1"),
     Write("in1", <<1, 2, 3>>), Close("in1"), ReadsToEnd("output0", Buffer, {upper_case}), WaitFor(0), Close("output0") >>

\* A socket handed to a child, then a descriptor passed to it.
spawn_socket ==
  << SocketPair("sv0", "sv1", "stream", {"cloexec"}), Pipe("p0", "p1", {}),
     Spawn("socket_child", <<adddup2("sv1", "fd3"), addclose("p0"), addclose("p1")>>), Close("sv1"),
     send_fds("sv0", <<4>>, <<"p1">>), Close("p1"), ReadsToEnd("p0", Buffer, {Text}), WaitFor(0), Close("p0"), Close("sv0") >>

spawn_wait ==
  << Spawn("exit_7", <<>>), WaitFor(7), Fails([WaitFor(7) EXCEPT !.data = {}], ECHILD),
     Spawn("sleep", <<>>), [WaitFor(3) EXCEPT !.want = {0}, !.data = {}, !.arg.nohang = TRUE], WaitFor(3),
     Fails(Spawn("no_such_program", <<>>), ENOENT) >>

spawn_probe == spawn_inheritance \o spawn_actions \o spawn_stdio \o spawn_socket \o spawn_wait

-----------------------------------------------------------------------------
(* file-probe, and the lock modes of spawn-child                           *)

Stat(path, want) == Sys("stat", <<>>, path, {want})
Pread(fd, n, offset, bytes) == Gives({bytes}, Sys("pread", <<fd>>, [n |-> n, offset |-> offset], {Len(bytes)}))
Pwrite(fd, bytes, offset) == Sys("pwrite", <<fd>>, [data |-> bytes, offset |-> offset], {Len(bytes)})
Truncate(fd, length) == Sys("ftruncate", <<fd>>, length, {0})
Rename(from, to) == Sys("rename", <<>>, [from |-> from, to |-> to], {0})
Unlink(path) == Sys("unlink", <<>>, path, {0})
At(fd, base, offset, want) == Sys("lseek", <<fd>>, [base |-> base, offset |-> offset], {want})
Writes(path, flags, bytes) == << Opens(path, {"write"} \cup flags, "out"), Write("out", bytes), Close("out") >>

Lines == <<1, 2, 3, 4, 5>>
file_contents ==
  Writes("data.txt", {"creat", "trunc"}, Lines)
  \o << Stat("data.txt", 5), Opens("data.txt", {"read"}, "in"), ReadsToEnd("in", Buffer, {Lines}), Close("in") >>
  \o Writes("data.txt", {"creat", "append"}, <<8, 9>>)
  \o << Stat("data.txt", 7), Opens("data.txt", {"read", "write"}, "fd"), Pwrite("fd", <<6>>, 0), Pread("fd", 2, 0, <<6, 2>>),
        At("fd", "current", 0, 0), At("fd", "end", -2, 5), Reads("fd", 2, <<8, 9>>),
        Truncate("fd", 1), Stat("data.txt", 1), Truncate("fd", 4), Stat("data.txt", 4), Pread("fd", 4, 0, <<6, 0, 0, 0>>),
        Close("fd") >>

\* Renaming over a file, and a file unlinked while it is open.
file_names ==
  << Rename("data.txt", "moved.txt"), Stat("data.txt", ENOENT) >> \o Writes("other.txt", {"creat", "trunc"}, <<7>>)
  \o << Rename("other.txt", "moved.txt"), Stat("moved.txt", 1), Opens("moved.txt", {"read"}, "fd"), Unlink("moved.txt"),
        Reads("fd", 2, <<7>>), Close("fd") >>

\* A writer fills a file; appenders share one, and no record may tear.
writer ==
  << Opens("writer-0", {"write", "creat", "excl"}, "own"), Write("own", <<1>>), Write("own", <<1>>), Close("own") >>
appender(id) ==
  LET fd == <<"log_0", "log_1">>[id]
  IN  << Opens("log", {"write", "append"}, fd), Write(fd, Record(id, 1)), Write(fd, Record(id, 2)), Close(fd) >>
file_concurrent ==
  << Opens("log", {"write", "creat"}, "log_0"), Close("log_0"), Create("writer", "w"),
     Create("appender_1", "a1"), Create("appender_2", "a2"), Join("w"), Join("a1"), Join("a2"),
     Stat("writer-0", 2), Opens("writer-0", {"read"}, "check"), ReadsToEnd("check", Buffer, {<<1, 1>>}), Close("check"),
     Stat("log", 8), Opens("log", {"read"}, "check"), ReadsToEnd("check", Buffer, RecordsMerged), Close("check"),
     Fails(Opens("log", {"write", "creat", "excl"}, "none"), EEXIST) >>

Lock(fd, command, ofd, kind, start, len) ==
  Sys("lock", <<fd>>, [command |-> command, ofd |-> ofd, kind |-> kind, start |-> start, len |-> len], {0})
set_lock(fd, kind, start, len) == Lock(fd, "SETLK", FALSE, kind, start, len)
set_ofd_lock(fd, kind, start, len) == Lock(fd, "SETLK", TRUE, kind, start, len)
Held(kind, first, last, owner) == [kind |-> kind, first |-> first, last |-> last, owner |-> owner]
probe_lock(fd, start, len, answer) == Gives({<<answer>>}, Lock(fd, "GETLK", TRUE, "write", start, len))
Unlocked == [kind |-> "none"]
Acquired == <<2>>
Waiting == <<1>>
Probe == 1   \* the pid of file-probe

lock_probe ==
  << Opens("lock", {"read", "write"}, "fd"), Fails(set_lock("fd", "write", 0, 10), EAGAIN),
     Into(<<"query">>, Lock("fd", "GETLK", FALSE, "write", 0, 10)), Forward("fd1", "query", <<>>),
     set_lock("fd", "read", 100, 10), Lock("fd", "SETLKW", FALSE, "write", 0, 10), Write("fd1", Acquired), exits(0) >>
lock_deadlock ==
  << Opens("lock", {"read", "write"}, "fd"), set_lock("fd", "write", 200, 1), Write("fd1", Waiting),
     Lock("fd", "SETLKW", FALSE, "write", 300, 1), Write("fd1", Acquired), exits(0) >>

lock_child(step) ==
  << Pipe("output", "pipe1", {}), Spawn(step, <<adddup2("pipe1", "fd1"), addclose("output")>>), Close("pipe1") >>
read_line(line) == Reads("output", 1, line)

lock_waits ==
  << Opens("lock", {"read", "write", "creat", "trunc"}, "fd"), set_lock("fd", "write", 0, 50),
     Gives({<<Unlocked>>}, Lock("fd", "GETLK", FALSE, "write", 0, 10)) >>
  \o lock_child("lock_probe")
  \o << read_line(<<Held("write", 0, 49, <<"process", Probe>>)>>), Pause, set_lock("fd", "none", 0, 0), read_line(Acquired),
        WaitFor(0), Close("output") >>

lock_ranges ==
  << Opens("lock", {"read", "write"}, "other"), set_lock("fd", "write", 0, 100), set_lock("fd", "none", 40, 20),
     probe_lock("other", 45, 1, Unlocked), probe_lock("other", 10, 1, Held("write", 0, 39, <<"process", Probe>>)),
     probe_lock("other", 70, 1, Held("write", 60, 99, <<"process", Probe>>)),
     Opens("lock", {"read"}, "third"), Close("third"), probe_lock("other", 10, 1, Unlocked) >>

lock_descriptions ==
  << set_ofd_lock("fd", "write", 0, 10), Fails(set_ofd_lock("other", "write", 5, 1), EAGAIN), Dup("fd", 0, FALSE, "copy", {}),
     set_ofd_lock("copy", "write", 5, 1), Close("fd"), Fails(set_ofd_lock("other", "write", 5, 1), EAGAIN), Close("copy"),
     set_ofd_lock("other", "write", 5, 1), set_ofd_lock("other", "none", 0, 0) >>

\* The child holds 200 and waits for 300, which the probe holds.
lock_cycle ==
  << set_lock("other", "write", 300, 1) >> \o lock_child("lock_deadlock")
  \o << read_line(Waiting), Rest, Fails(Lock("other", "SETLKW", FALSE, "write", 200, 1), EDEADLK),
        set_lock("other", "none", 300, 1), read_line(Acquired), WaitFor(0), Close("output"), set_lock("other", "write", 0, 0) >>

lock_errors ==
  << Opens("lock", {"read"}, "reader"), Fails(set_lock("reader", "write", 0, 1), EBADF),
     Fails(set_lock("reader", "read", -5, 1), EINVAL), Close("reader"), Close("other"), Unlink("lock") >>

record_locks == lock_waits \o lock_ranges \o lock_descriptions \o lock_cycle \o lock_errors

file_probe ==
  file_contents \o file_names \o file_concurrent \o record_locks \o << Unlink("writer-0"), Unlink("log") >>

-----------------------------------------------------------------------------
(* data-probe: the files of one boot, found again by the next.             *)

Fsync(fd) == Sys("fsync", <<fd>>, 0, {0})
Sync == Sys("fsync", <<>>, 0, {0})
pattern(boot) == <<boot, boot + 1, boot + 2>>
write_file(path, bytes) ==
  << Opens(path, {"write", "creat", "trunc"}, "fd"), Until(Len(bytes), Sys("write", <<"fd">>, bytes, 1 .. Len(bytes))),
     Fsync("fd"), Close("fd") >>
read_file(path, bytes) == << Opens(path, {"read"}, "fd"), ReadsToEnd("fd", Buffer, {bytes}), Close("fd") >>

save(boot) ==
  write_file("/data/big", pattern(boot))
  \o << Opens("/data/sparse", {"write", "creat", "trunc"}, "fd"), Pwrite("fd", <<9>>, 2), Fsync("fd"), Close("fd") >>
  \o write_file("/data/boots.new", <<boot>>) \o << Rename("/data/boots.new", "/data/boots") >>
  \o write_file("/data/gone", <<1>>) \o << Unlink("/data/gone"), Sync >>

\* Jumps over what the first boot does if there is a count.
data_probe ==
  write_file("/tmp/data", <<1>>)
  \o << Fails(Rename("/tmp/data", "/data/data"), EXDEV),
        [Opens("/data/boots", {"read"}, "boots") EXCEPT !.want = @ \cup {ENOENT}],
        Branch("boots", {ENOENT}, -(Len(save(1)) + 2)) >>
  \o save(1) \o << exits(0) >>
  \o << ReadsToEnd("boots", Buffer, {<<1>>}), Close("boots") >> \o read_file("/data/big", pattern(1))
  \o << Stat("/data/sparse", 3), Opens("/data/sparse", {"read"}, "fd"), Pread("fd", 2, 0, <<0, 0>>), Pread("fd", 1, 2, <<9>>),
        Close("fd"), Stat("/data/gone", ENOENT), Stat("/data/boots.new", ENOENT) >>
  \o save(2)

=============================================================================
