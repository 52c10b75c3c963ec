----------------------------- MODULE LockTable ------------------------------
(***************************************************************************)
(* What the table of record locks (kernel/fs/lock.zig) promises, whatever  *)
(* programs use it: a set of locks, who sleeps in F_SETLKW for which lock, *)
(* and the notes of deadlock detection.  Each call's pass under the        *)
(* table's lock is one step; falling asleep after a refused pass loses no  *)
(* wakeup, as Sched shows of the wait protocol.  Posix implements it with  *)
(* a list.                                                                 *)
(***************************************************************************)
EXTENDS RecordLocks

CONSTANTS
  Owner,      \* <<"process", p>> or <<"description", d>>
  File,       \* what locks are keyed by
  Ranges,     \* the pairs of a first and a last byte that calls name
  Asks,       \* the threads -> the owners each may ask for
  Threaded    \* whether a process may have two calls waiting at once

ASSUME LockTableAssumption ==
  /\ Ranges \subseteq {r \in Nat \X Nat : r[1] <= r[2]}
  /\ WAITING \in Nat \ {0} /\ Threaded \in BOOLEAN /\ <<>> \notin Owner

VARIABLES
  table,      \* the locks held
  waits,      \* the caller asleep in F_SETLKW -> the lock it asks for
  notes,      \* the caller -> the process waiting and the holder it waits for
  owners      \* the pairs of an owner there is and a file it may lock

lockVars == <<table, waits, notes, owners>>

Nobody == [c \in {} |-> c]
Noted(f, c, x) == [e \in DOMAIN f \cup {c} |-> IF e = c THEN x ELSE f[e]]
Forgotten(f, c) == [e \in DOMAIN f \ {c} |-> f[e]]

isProcess(o) == o[1] = "process"

Kinds == {"read", "write"}
Lock == [key : File, owner : Owner, first : Nat, last : Nat, kind : Kinds]

Init ==
  /\ table = {} /\ waits = Nobody /\ notes = Nobody
  /\ owners \in SUBSET (Owner \X File)

----------------------------------------------------------------------------
\* The locks that may be asked for, and those that refuse one.
Askable ==
  {[key |-> x[2], owner |-> x[1], first |-> r[1], last |-> r[2], kind |-> k] :
     x \in owners, r \in Ranges, k \in Kinds}
Blockers(w) == {l \in table : blocks(l, w.key, w.owner, w.first, w.last, w.kind)}

\* What the owner of w keeps, and the others, once w's range is taken out.
Rest(w) == UNION {ToSet(Remainder(l, w.key, w.owner, w.first, w.last)) : l \in table}

\* set: the range is free of conflicts and becomes w, or is unlocked; whoever
\* sleeps looks again.
Takes(w) ==
  /\ Blockers(w) = {}
  /\ table' = Rest(w) \cup {w}
  /\ waits' = Nobody /\ UNCHANGED <<notes, owners>>
Gives(w) ==
  /\ table' = Rest(w)
  /\ waits' = Nobody /\ UNCHANGED <<notes, owners>>

\* set: refused by the lock l, whose wait closes no cycle of processes, the
\* caller notes whom it waits for while there is room, and sleeps.
Sleeps(c, w) ==
  /\ c \notin DOMAIN waits \cup DOMAIN notes
  /\ ~Threaded => \A e \in DOMAIN notes : notes[e].waiter # w.owner
  /\ \E l \in Blockers(w) :
       LET both == isProcess(w.owner) /\ isProcess(l.owner)
       IN  /\ both => ~wouldDeadlock(notes, w.owner, l.owner)
           /\ notes' = IF both /\ Cardinality(DOMAIN notes) < WAITING
                       THEN Noted(notes, c, [waiter |-> w.owner, holder |-> l.owner]) ELSE notes
  /\ waits' = Noted(waits, c, w)
  /\ UNCHANGED <<table, owners>>

\* A caller is interrupted or killed, and clears its note once it is awake.
Wakes(c) ==
  /\ waits' = Forgotten(waits, c)
  /\ notes' \in {notes, Forgotten(notes, c)}
  /\ UNCHANGED <<table, owners>>

\* releaseFile and releaseAll: an owner's locks on a file go together.  Owners
\* come and go, and no lock of theirs stays.
Owned(l, there) == <<l.owner, l.key>> \in there
Drops(D) ==
  /\ table' = {l \in table : <<l.owner, l.key>> \notin D}
  /\ waits' = IF table' = table THEN waits ELSE Nobody
  /\ owners' \in SUBSET (Owner \X File) /\ \A l \in table' : Owned(l, owners')
  /\ UNCHANGED notes

Next ==
  \/ \E D \in SUBSET {<<l.owner, l.key>> : l \in table} : Drops(D)
  \/ \E c \in DOMAIN waits \cup DOMAIN notes : Wakes(c)
  \/ \E w \in Askable : Takes(w) \/ Gives(w)
  \/ \E w \in Askable, c \in DOMAIN Asks : w.owner \in Asks[c] /\ Sleeps(c, w)

Spec == Init /\ [][Next]_lockVars

----------------------------------------------------------------------------
(***************************************************************************)
(* Properties.                                                             *)
(***************************************************************************)

\* Locks that overlap have owners that may share the range; an owner's own
\* never overlap, and no lock outlives its owner (lock.set, releaseMatching).
LocksCoherent ==
  /\ \A l, m \in table :
       l # m /\ l.key = m.key /\ overlaps(l, m.first, m.last) =>
         l.owner # m.owner /\ {l.kind, m.kind} = {"read"}
  /\ \A l \in table : Owned(l, owners)

\* The calls of processes that are asleep and noted.
Watched == DOMAIN waits \cap DOMAIN notes

\* Processes of one waiting call each never all sleep on one another: in any
\* set of noted sleepers, some call waits only for owners outside the set or
\* for one of them that may still let go (wouldDeadlockLocked).
NoDeadlock ==
  \A s \in (SUBSET {waits[c].owner : c \in Watched}) \ {{}} :
    \E c \in Watched : waits[c].owner \in s /\ \E l \in Blockers(waits[c]) : l.owner \notin s
=============================================================================
