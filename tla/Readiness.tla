----------------------------- MODULE Readiness -----------------------------
(***************************************************************************)
(* What every blocking object of the kernel is built from: a wait channel  *)
(* of the scheduler (prepareWait, cancelWait, commitWait, wakeChannel, seen *)
(* from the caller's side; Sched models their inside) and the readiness    *)
(* sources of kernel/ipc/readiness.zig, whose watchers are poll() entries  *)
(* and epoll interests.                                                    *)
(*                                                                         *)
(* One global lock covers every watcher list, so a walk over a list and    *)
(* the callbacks it makes are one step; the order of a list is not seen.   *)
(***************************************************************************)
EXTENDS Integers, FiniteSets, Sequences

CONSTANTS
  Thread,       \* the threads of the programs
  None          \* no channel, no thread

End == {"r", "w"}                  \* the two ends of the pipe, each a Source
Ep == "ep"                         \* the epoll instance, also its channel
Pipe == "pipe"                     \* the pipe's channel

ASSUME ThreadAssumption ==
  /\ Thread \cap {Ep, Pipe, None} = {}
  /\ None \notin {Ep, Pipe}
  /\ IsFiniteSet(Thread)

\* A poll() entry belongs to the thread whose stack it is on and wakes its
\* private channel; an interest belongs to the epoll instance.
Watcher == [owner : Thread \cup {Ep}, on : End]
Channel == Thread \cup {Ep, Pipe}

VARIABLES
  attached,   \* watchers whose `source` is set
  notified,   \* ends whose interest is pending (Interest.pending)
  reg         \* the channel a thread is registered on (Task.on_wait_list)

readinessVars == <<attached, notified, reg>>

ReadinessType ==
  /\ attached \subseteq Watcher
  /\ notified \subseteq End
  /\ reg \in [Thread -> Channel \cup {None}]

ReadinessInit ==
  /\ attached = {}
  /\ notified = {}
  /\ reg = [t \in Thread |-> None]

-----------------------------------------------------------------------------
(* Wait channels.                                                          *)

Registered(t, ch) == reg' = [reg EXCEPT ![t] = ch]      \* prepareWait
Unregistered(t) == reg' = [reg EXCEPT ![t] = None]      \* cancelWait

\* wakeChannel of every channel in chs.
Woken(chs) == reg' = [t \in Thread |-> IF reg[t] \in chs THEN None ELSE reg[t]]

-----------------------------------------------------------------------------
(* Watchers.                                                               *)

Watching(e) == {w \in attached : w.on = e}

\* The callbacks notifyInterest and notifyPoll of the watchers ws.
Callbacks(ws) ==
  /\ notified' = notified \cup {w.on : w \in {v \in ws : v.owner = Ep}}
  /\ Woken({w.owner : w \in ws})

\* notify: the object's state may have changed.
Notify(e) == Callbacks(Watching(e)) /\ UNCHANGED attached

\* detachAll: the end is closing, and each watcher is told once more.
DetachAll(e) == Callbacks(Watching(e)) /\ attached' = attached \ Watching(e)

AttachLocked(w) == attached' = attached \cup {w}
DetachLocked(ws) == attached' = attached \ ws
=============================================================================
