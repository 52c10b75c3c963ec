---------------------------- MODULE RecordLocks ----------------------------
(***************************************************************************)
(* Advisory record locks (kernel/fs/lock.zig) as operators on a lock, on   *)
(* the list of locks, newest first, and on the waiting owners noted for    *)
(* deadlock detection.  LockTable is the table as a set; Posix makes the   *)
(* calls that use the list.                                                *)
(***************************************************************************)
EXTENDS Integers, Sequences, FiniteSets, SequencesExt

CONSTANTS
  TO_END,   \* the last byte of a lock that runs to the end of the file
  WAITING   \* entries of the table of waiting owners

overlaps(l, first, last) == l.first <= last /\ first <= l.last

\* Whether the lock l of another owner keeps `kind` over the range away.
blocks(l, key, owner, first, last, kind) ==
  /\ l.key = key /\ l.owner # owner
  /\ overlaps(l, first, last)
  /\ "write" \in {l.kind, kind}

Conflicts(locks, key, owner, first, last, kind) ==
  {n \in DOMAIN locks : blocks(locks[n], key, owner, first, last, kind)}

\* conflictLocked, and F_GETLK's answer: the first of them in the list.
FirstConflict(locks, key, owner, first, last, kind) ==
  LET all == Conflicts(locks, key, owner, first, last, kind)
  IN  locks[CHOOSE n \in all : \A m \in all : n <= m]

\* Seeded fault: the tail keeps the last byte taken out.
RemainderKeepsLast(l, key, owner, first, last) ==
  IF l.key # key \/ l.owner # owner \/ ~overlaps(l, first, last) THEN <<l>>
  ELSE (IF l.first < first THEN <<[l EXCEPT !.last = first - 1]>> ELSE <<>>)
    \o (IF l.last > last THEN <<[l EXCEPT !.first = last]>> ELSE <<>>)

\* What is left of a lock of the owner once [first, last] is taken out of it:
\* all of it, its head, its tail, both or nothing.
Remainder(l, key, owner, first, last) ==
  IF l.key # key \/ l.owner # owner \/ ~overlaps(l, first, last) THEN <<l>>
  ELSE (IF l.first < first THEN <<[l EXCEPT !.last = first - 1]>> ELSE <<>>)
    \o (IF l.last > last THEN <<[l EXCEPT !.first = last + 1]>> ELSE <<>>)

\* applyLocked: the range gets a new lock, or none (kind "none").
Applied(locks, key, owner, first, last, kind) ==
  LET rest == FlattenSeq([n \in DOMAIN locks |-> Remainder(locks[n], key, owner, first, last)])
  IN  IF kind = "none" THEN rest
      ELSE <<[key |-> key, owner |-> owner, first |-> first, last |-> last, kind |-> kind]>> \o rest

\* releaseMatching for one file, and for all of an owner's locks.
ReleasedFile(locks, key, owner) ==
  SelectSeq(locks, LAMBDA l : l.key # key \/ l.owner # owner)
ReleasedAll(locks, owner) == SelectSeq(locks, LAMBDA l : l.owner # owner)

\* Seeded fault: only the holder is looked at, not what it waits for.
HolderOnly(notes, from, to) == from = to

\* Whom a noted owner waits for, <<>> if it does not wait; notes maps each
\* waiting call to its owner and the holder it was noted for.
HolderOf(notes, o) ==
  LET own == {c \in DOMAIN notes : notes[c].waiter = o}
  IN  IF own = {} THEN <<>> ELSE notes[CHOOSE c \in own : TRUE].holder

\* Whether `from` waiting for `to` would close a cycle of noted owners.
wouldDeadlock(notes, from, to) ==
  LET holder[n \in 0 .. WAITING - 1] ==
        IF n = 0 THEN to
        ELSE IF holder[n - 1] = <<>> THEN <<>> ELSE HolderOf(notes, holder[n - 1])
  IN  \E n \in 0 .. WAITING - 1 : holder[n] = from

=============================================================================
