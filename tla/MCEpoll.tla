------------------------------ MODULE MCEpoll ------------------------------
(***************************************************************************)
(* Instances of Epoll for TLC: a reader, a writer and a thread that watches *)
(* the pipe, each closing the descriptor it uses at some point.            *)
(***************************************************************************)
EXTENDS Epoll

CONSTANTS Reader, Writer, Looker

LongWrite == ATOMIC_WRITE * 2

Roles ==
  [t \in Thread |->
     CASE t = Reader -> {ReadCall(2, FALSE), CloseCall("r")}
       [] t = Writer -> {WriteCall(2, FALSE), WriteCall(LongWrite, FALSE), CloseCall("w")}
       [] t = Looker -> {CtlCall("add", "r", {"ET"}), CtlCall("mod", "r", {"ONESHOT"}),
                         CtlCall("del", "r", {}), WaitCall(1, "forever"), CloseCall(Ep),
                         PollCall({"w"}, "some")}]

\* The features are used apart: epoll, with one short write; poll() and signals,
\* with two, once an instance that was never told of a pipe is closed; a long
\* write only while the watching thread is in user mode.
InTurn ==
  /\ intr # {} \/ writes = 2 \/ Doing(Looker, "poll") => Ep \notin fds /\ \A e \in End : flags[e] = {}
  /\ op[Writer].size = LongWrite \/ (\E i \in Cells : buffer[i].of = LongWrite) =>
       Ep \notin fds /\ At(Looker, "user")
  /\ Doing(Looker, "wait") /\ At(Looker, "prepare") => interests # {}

TurnSpec == Init /\ [][Next /\ InTurn']_vars
=============================================================================
