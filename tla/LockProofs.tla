----------------------------- MODULE LockProofs -----------------------------
(***************************************************************************)
(* The table of record locks, for every set of owners, files, ranges and   *)
(* callers and every size of the table of waiting owners: the locks held   *)
(* never contradict one another, and processes of one waiting call each    *)
(* never all sleep on one another.                                         *)
(*                                                                         *)
(* The argument has two halves.  What Remainder keeps of a lock lies       *)
(* inside it and clear of the range taken out, so no step makes two locks  *)
(* overlap that must not.  And the notes of who waits for whom have no     *)
(* cycle: a note is added only when wouldDeadlock followed WAITING holders *)
(* without meeting the caller, and fewer owners than that are noted, so    *)
(* the chain it followed ended.                                            *)
(***************************************************************************)
EXTENDS LockTable, SequenceTheorems, FiniteSetTheorems, WellFoundedInduction, TLAPS

-----------------------------------------------------------------------------
(***************************************************************************)
(* What is left of a lock.                                                 *)
(***************************************************************************)

\* The head and the tail of l around the range of w.
Before(l, w) ==
  [key |-> l.key, owner |-> l.owner, first |-> l.first, last |-> w.first - 1, kind |-> l.kind]
After(l, w) ==
  [key |-> l.key, owner |-> l.owner, first |-> w.last + 1, last |-> l.last, kind |-> l.kind]

\* Whether taking out the range of w changes l.
Cut(l, w) == l.key = w.key /\ l.owner = w.owner /\ overlaps(l, w.first, w.last)

Proper(l) == l \in Lock /\ l.first <= l.last

\* The fields of a lock.
LEMMA Fields ==
  ASSUME NEW l \in Lock
  PROVE  /\ l.key \in File /\ l.owner \in Owner /\ l.kind \in Kinds
         /\ l.first \in Nat /\ l.last \in Nat
BY DEF Lock

\* A lock with one end moved.
LEMMA Trimmed ==
  ASSUME NEW l \in [key : File, owner : Owner, first : Nat, last : Nat, kind : Kinds], NEW v
  PROVE  /\ [l EXCEPT !.last = v] =
              [key |-> l.key, owner |-> l.owner, first |-> l.first, last |-> v, kind |-> l.kind]
         /\ [l EXCEPT !.first = v] =
              [key |-> l.key, owner |-> l.owner, first |-> v, last |-> l.last, kind |-> l.kind]
OBVIOUS

\* The members of two sequences in a row.
LEMMA ConcatMembers ==
  ASSUME NEW S, NEW s \in Seq(S), NEW u \in Seq(S)
  PROVE  ToSet(s \o u) = ToSet(s) \cup ToSet(u)
<1>1. ToSet(s) = Range(s) /\ ToSet(u) = Range(u) /\ ToSet(s \o u) = Range(s \o u)
  BY Zenon DEF ToSet, Range
<1> QED
  BY <1>1, RangeConcatenation

\* The members of the short sequences Remainder puts together.
LEMMA ShortMembers ==
  ASSUME NEW a, NEW b
  PROVE  /\ ToSet(<<a>>) = {a}
         /\ ToSet(<<>> \o <<>>) = {}
         /\ ToSet(<<a>> \o <<>>) = {a}
         /\ ToSet(<<>> \o <<b>>) = {b}
         /\ ToSet(<<a>> \o <<b>>) = {a, b}
<1>1. ToSet(<<a>>) = {a} /\ ToSet(<<b>>) = {b} /\ ToSet(<<>>) = {}
  <2>1. /\ DOMAIN <<a>> = {1} /\ <<a>>[1] = a
        /\ DOMAIN <<b>> = {1} /\ <<b>>[1] = b
        /\ DOMAIN <<>> = {}
    OBVIOUS
  <2> QED
    BY <2>1, Zenon DEF ToSet
<1>2. <<>> \in Seq({a, b}) /\ <<a>> \in Seq({a, b}) /\ <<b>> \in Seq({a, b})
  OBVIOUS
<1>3. /\ ToSet(<<>> \o <<>>) = ToSet(<<>>) \cup ToSet(<<>>)
      /\ ToSet(<<a>> \o <<>>) = ToSet(<<a>>) \cup ToSet(<<>>)
      /\ ToSet(<<>> \o <<b>>) = ToSet(<<>>) \cup ToSet(<<b>>)
      /\ ToSet(<<a>> \o <<b>>) = ToSet(<<a>>) \cup ToSet(<<b>>)
  <2>1. \A s, u \in Seq({a, b}) : ToSet(s \o u) = ToSet(s) \cup ToSet(u)
    BY ConcatMembers, Zenon
  <2> QED
    BY <1>2, <2>1, Zenon
<1>4. {} \cup {} = {} /\ {a} \cup {} = {a} /\ {} \cup {b} = {b} /\ {a} \cup {b} = {a, b}
  OBVIOUS
<1> QED
  BY <1>1, <1>3, <1>4, Zenon

\* Remainder gives the lock itself, or its head and its tail.
LEMMA Pieces ==
  ASSUME NEW l \in Lock, NEW w \in Lock,
         NEW x \in ToSet(Remainder(l, w.key, w.owner, w.first, w.last))
  PROVE  \/ ~ Cut(l, w) /\ x = l
         \/ Cut(l, w) /\ l.first < w.first /\ x = Before(l, w)
         \/ Cut(l, w) /\ w.last < l.last /\ x = After(l, w)
<1>1. [l EXCEPT !.last = w.first - 1] = Before(l, w)
  BY Trimmed, Zenon DEF Before, Lock
<1>2. [l EXCEPT !.first = w.last + 1] = After(l, w)
  BY Trimmed, Zenon DEF After, Lock
<1>3. l.first \in Nat /\ l.last \in Nat /\ w.first \in Nat /\ w.last \in Nat
  BY Fields
<1> DEFINE r == Remainder(l, w.key, w.owner, w.first, w.last)
<1>4. CASE ~ Cut(l, w)
  <2>1. r = <<l>>
    BY <1>4, Zenon DEF Remainder, Cut
  <2> QED
    <3>1. x \in ToSet(r) /\ ToSet(<<l>>) = {l}
      BY ShortMembers, Zenon
    <3> QED
      BY <1>4, <2>1, <3>1, Zenon
<1>5. CASE Cut(l, w)
  <2>1. r = (IF l.first < w.first THEN <<Before(l, w)>> ELSE <<>>)
            \o (IF l.last > w.last THEN <<After(l, w)>> ELSE <<>>)
    BY <1>1, <1>2, <1>5, Zenon DEF Remainder, Cut
  <2> HIDE DEF r
  <2> DEFINE a == Before(l, w)
             b == After(l, w)
  <2>2. x \in ToSet(r)
    BY DEF r
  <2> HIDE DEF a, b
  <2>3. \/ r = <<>> \o <<>>
        \/ l.first < w.first /\ r = <<a>> \o <<>>
        \/ l.last > w.last /\ r = <<>> \o <<b>>
        \/ l.first < w.first /\ l.last > w.last /\ r = <<a>> \o <<b>>
    BY <2>1, Zenon DEF a, b
  <2>4. \/ l.first < w.first /\ x = a
        \/ l.last > w.last /\ x = b
    <3>1. /\ ToSet(<<>> \o <<>>) = {} /\ ToSet(<<a>> \o <<>>) = {a}
          /\ ToSet(<<>> \o <<b>>) = {b} /\ ToSet(<<a>> \o <<b>>) = {a, b}
      BY ShortMembers
    <3>2. CASE r = <<>> \o <<>>
      BY <2>2, <3>1, <3>2, Zenon
    <3>3. CASE l.first < w.first /\ r = <<a>> \o <<>>
      BY <2>2, <3>1, <3>3, Zenon
    <3>4. CASE l.last > w.last /\ r = <<>> \o <<b>>
      BY <2>2, <3>1, <3>4, Zenon
    <3>5. CASE l.first < w.first /\ l.last > w.last /\ r = <<a>> \o <<b>>
      BY <2>2, <3>1, <3>5, Zenon
    <3> QED
      BY <2>3, <3>2, <3>3, <3>4, <3>5, Zenon
  <2>5. l.last > w.last => w.last < l.last
    BY <1>3
  <2> QED
    BY <1>5, <2>4, <2>5, Zenon DEF a, b
<1> QED
  BY <1>4, <1>5

\* A piece is a lock of the same owner, inside the one it comes from and
\* clear of the range taken out.
LEMMA PieceInside ==
  ASSUME NEW l, NEW w, Proper(l), Proper(w),
         NEW x \in ToSet(Remainder(l, w.key, w.owner, w.first, w.last))
  PROVE  /\ Proper(x)
         /\ x.key = l.key /\ x.owner = l.owner /\ x.kind = l.kind
         /\ l.first <= x.first /\ x.last <= l.last
         /\ ~ Cut(x, w)
<1>1. /\ l \in Lock /\ w \in Lock /\ l.first <= l.last /\ w.first <= w.last
      /\ l.first \in Nat /\ l.last \in Nat /\ w.first \in Nat /\ w.last \in Nat
      /\ l.key \in File /\ l.owner \in Owner /\ l.kind \in Kinds
  BY Fields, Zenon DEF Proper
<1>2. CASE ~ Cut(l, w) /\ x = l
  BY <1>1, <1>2
<1>3. CASE Cut(l, w) /\ l.first < w.first /\ x = Before(l, w)
  <2>1. w.first - 1 \in Nat /\ l.first <= w.first - 1 /\ w.first - 1 <= l.last
    BY <1>1, <1>3 DEF Cut, overlaps
  <2>2. /\ x.key = l.key /\ x.owner = l.owner /\ x.kind = l.kind
        /\ x.first = l.first /\ x.last = w.first - 1
    BY <1>3, Zenon DEF Before
  <2>3. x \in Lock
    BY <1>1, <1>3, <2>1 DEF Before, Lock
  <2> QED
    BY <1>1, <2>1, <2>2, <2>3 DEF Cut, overlaps, Proper
<1>4. CASE Cut(l, w) /\ w.last < l.last /\ x = After(l, w)
  <2>1. w.last + 1 \in Nat /\ l.first <= w.last + 1 /\ w.last + 1 <= l.last
    BY <1>1, <1>4 DEF Cut, overlaps
  <2>2. /\ x.key = l.key /\ x.owner = l.owner /\ x.kind = l.kind
        /\ x.first = w.last + 1 /\ x.last = l.last
    BY <1>4, Zenon DEF After
  <2>3. x \in Lock
    BY <1>1, <1>4, <2>1 DEF After, Lock
  <2> QED
    BY <1>1, <2>1, <2>2, <2>3 DEF Cut, overlaps, Proper
<1> QED
  BY <1>1, <1>2, <1>3, <1>4, Pieces

\* Whether two locks may be held together.
Fits(l, m) ==
  l.key = m.key /\ overlaps(l, m.first, m.last) =>
    l.owner # m.owner /\ l.kind = "read" /\ m.kind = "read"

\* The pieces of two locks that may be held together may be, and so may two
\* pieces of one lock.
LEMMA PiecesFit ==
  ASSUME NEW l, NEW m, NEW w, Proper(l), Proper(m), Proper(w), l # m => Fits(l, m),
         NEW x \in ToSet(Remainder(l, w.key, w.owner, w.first, w.last)),
         NEW y \in ToSet(Remainder(m, w.key, w.owner, w.first, w.last)), x # y
  PROVE  Fits(x, y)
<1>1. CASE l # m
  <2>1. /\ Proper(x) /\ x.key = l.key /\ x.owner = l.owner /\ x.kind = l.kind
        /\ l.first <= x.first /\ x.last <= l.last
    BY PieceInside, Zenon
  <2>2. /\ Proper(y) /\ y.key = m.key /\ y.owner = m.owner /\ y.kind = m.kind
        /\ m.first <= y.first /\ y.last <= m.last
    BY PieceInside, Zenon
  <2>3. /\ l.first \in Nat /\ l.last \in Nat /\ m.first \in Nat /\ m.last \in Nat
        /\ x.first \in Nat /\ x.last \in Nat /\ y.first \in Nat /\ y.last \in Nat
    BY <2>1, <2>2, Fields, Zenon DEF Proper
  <2>4. overlaps(x, y.first, y.last) => overlaps(l, m.first, m.last)
    BY <2>1, <2>2, <2>3 DEF overlaps
  <2> QED
    BY <1>1, <2>1, <2>2, <2>4, Zenon DEF Fits
<1>2. CASE l = m
  <2>1. l \in Lock /\ w \in Lock /\ w.first \in Nat /\ w.last \in Nat /\ w.first <= w.last
    BY Fields, Zenon DEF Proper
  <2>2. x \in {Before(l, w), After(l, w)} /\ y \in {Before(l, w), After(l, w)}
    BY <1>2, <2>1, Pieces, Zenon
  <2>3. /\ Before(l, w).last = w.first - 1 /\ After(l, w).first = w.last + 1
    BY Zenon DEF Before, After
  <2>4. \/ x.last = w.first - 1 /\ y.first = w.last + 1
        \/ y.last = w.first - 1 /\ x.first = w.last + 1
    <3>1. x # y
      OBVIOUS
    <3>2. \/ x = Before(l, w) /\ y = After(l, w)
          \/ x = After(l, w) /\ y = Before(l, w)
      BY <2>2, <3>1
    <3> QED
      BY <2>3, <3>2, Zenon
  <2>5. Proper(x) /\ Proper(y)
    BY <1>2, PieceInside, Zenon
  <2>6. ~ overlaps(x, y.first, y.last)
    BY <2>1, <2>4, <2>5, Fields DEF overlaps, Proper
  <2> QED
    BY <2>6, Zenon DEF Fits
<1> QED
  BY <1>1, <1>2

\* Where w was taken out and nothing else keeps w away, w may be held.
LEMMA FreedFits ==
  ASSUME NEW l, NEW w, Proper(l), Proper(w),
         ~ blocks(l, w.key, w.owner, w.first, w.last, w.kind),
         NEW x \in ToSet(Remainder(l, w.key, w.owner, w.first, w.last))
  PROVE  Fits(x, w) /\ Fits(w, x)
<1>1. /\ Proper(x) /\ x.key = l.key /\ x.owner = l.owner /\ x.kind = l.kind
      /\ l.first <= x.first /\ x.last <= l.last /\ ~ Cut(x, w)
  BY PieceInside, Zenon
<1>2. /\ l.first \in Nat /\ l.last \in Nat /\ w.first \in Nat /\ w.last \in Nat
      /\ x.first \in Nat /\ x.last \in Nat /\ l.kind \in Kinds /\ w.kind \in Kinds
  BY <1>1, Fields, Zenon DEF Proper
<1>3. overlaps(x, w.first, w.last) => overlaps(l, w.first, w.last)
  BY <1>1, <1>2 DEF overlaps
<1>4. overlaps(w, x.first, x.last) <=> overlaps(x, w.first, w.last)
  BY <1>2 DEF overlaps
<1>5. x.key = w.key /\ overlaps(x, w.first, w.last) =>
        x.owner # w.owner /\ x.kind = "read" /\ w.kind = "read"
  <2>1. SUFFICES ASSUME x.key = w.key, overlaps(x, w.first, w.last)
                 PROVE  x.owner # w.owner /\ x.kind = "read" /\ w.kind = "read"
    OBVIOUS
  <2>2. x.owner # w.owner
    BY <1>1, <2>1, Zenon DEF Cut
  <2>3. "write" \notin {l.kind, w.kind}
    BY <1>1, <1>3, <2>1, <2>2, Zenon DEF blocks
  <2> QED
    BY <1>1, <1>2, <2>2, <2>3 DEF Kinds
<1> QED
  BY <1>4, <1>5, Zenon DEF Fits

-----------------------------------------------------------------------------
(***************************************************************************)
(* The locks held never contradict one another.                            *)
(***************************************************************************)

\* Every lock is a range of a file of an owner there is.
TableOK ==
  /\ owners \subseteq Owner \X File
  /\ \A l \in table : Proper(l) /\ Owned(l, owners)

\* Any two locks held may be held together.
AllFit == \A l, m \in table : l # m => Fits(l, m)

Held == TableOK /\ AllFit

\* A lock that may be asked for is one.
LEMMA AskedProper ==
  ASSUME owners \subseteq Owner \X File, NEW w \in Askable
  PROVE  Proper(w) /\ Owned(w, owners)
<1>1. PICK x \in owners, r \in Ranges, k \in Kinds :
        w = [key |-> x[2], owner |-> x[1], first |-> r[1], last |-> r[2], kind |-> k]
  BY DEF Askable
<1>2. r[1] \in Nat /\ r[2] \in Nat /\ r[1] <= r[2]
  BY LockTableAssumption
<1>3. x[1] \in Owner /\ x[2] \in File /\ x = <<x[1], x[2]>>
  <2>1. x \in Owner \X File
    OBVIOUS
  <2> QED
    BY <2>1
<1>4. w.key = x[2] /\ w.owner = x[1] /\ w.first = r[1] /\ w.last = r[2] /\ w.kind = k
  BY <1>1, Zenon
<1>5. w \in Lock
  BY <1>1, <1>2, <1>3 DEF Lock
<1> QED
  BY <1>2, <1>3, <1>4, <1>5, Zenon DEF Proper, Owned

\* What is left of the locks once a range is taken out is a sound table.
LEMMA RestHeld ==
  ASSUME Held, NEW w, Proper(w)
  PROVE  /\ \A x \in Rest(w) : Proper(x) /\ Owned(x, owners)
         /\ \A x, y \in Rest(w) : x # y => Fits(x, y)
         /\ \A x \in Rest(w) : \E l \in table :
              x \in ToSet(Remainder(l, w.key, w.owner, w.first, w.last))
<1>1. \A x \in Rest(w) : \E l \in table :
        x \in ToSet(Remainder(l, w.key, w.owner, w.first, w.last))
  BY Zenon DEF Rest
<1>2. ASSUME NEW x \in Rest(w) PROVE Proper(x) /\ Owned(x, owners)
  <2>1. PICK l \in table : x \in ToSet(Remainder(l, w.key, w.owner, w.first, w.last))
    BY <1>1
  <2>2. Proper(l) /\ Owned(l, owners)
    BY Zenon DEF Held, TableOK
  <2>3. Proper(x) /\ x.key = l.key /\ x.owner = l.owner
    BY <2>1, <2>2, PieceInside, Zenon
  <2> QED
    BY <2>2, <2>3, Zenon DEF Owned
<1>3. ASSUME NEW x \in Rest(w), NEW y \in Rest(w), x # y PROVE Fits(x, y)
  <2>1. PICK l \in table : x \in ToSet(Remainder(l, w.key, w.owner, w.first, w.last))
    BY <1>1
  <2>2. PICK m \in table : y \in ToSet(Remainder(m, w.key, w.owner, w.first, w.last))
    BY <1>1
  <2>3. Proper(l) /\ Proper(m) /\ (l # m => Fits(l, m))
    BY Zenon DEF Held, TableOK, AllFit
  <2> QED
    BY <1>3, <2>1, <2>2, <2>3, PiecesFit, Zenon
<1> QED
  BY <1>1, <1>2, <1>3

\* A step leaves the table sound.
LEMMA HeldStep ==
  ASSUME Held, [Next]_lockVars
  PROVE  Held'
<1>1. owners \subseteq Owner \X File
  BY DEF Held, TableOK
<1>2. ASSUME NEW w \in Askable, Takes(w) PROVE Held'
  <2>1. /\ table' = Rest(w) \cup {w} /\ owners' = owners /\ Blockers(w) = {}
    BY <1>2, Zenon DEF Takes
  <2>2. Proper(w) /\ Owned(w, owners)
    BY <1>1, AskedProper
  <2>3. ASSUME NEW x \in Rest(w) PROVE Fits(x, w) /\ Fits(w, x)
    <3>1. PICK l \in table : x \in ToSet(Remainder(l, w.key, w.owner, w.first, w.last))
      BY <2>2, RestHeld
    <3>2. Proper(l) /\ ~ blocks(l, w.key, w.owner, w.first, w.last, w.kind)
      BY <2>1, Zenon DEF Blockers, Held, TableOK
    <3> QED
      BY <2>2, <3>1, <3>2, FreedFits, Zenon
  <2>4. \A x \in table' : Proper(x) /\ Owned(x, owners')
    BY <2>1, <2>2, RestHeld, Zenon
  <2>5. \A x, y \in table' : x # y => Fits(x, y)
    <3>1. ASSUME NEW x \in table', NEW y \in table', x # y PROVE Fits(x, y)
      <4>1. x \in Rest(w) \/ x = w
        BY <2>1
      <4>2. y \in Rest(w) \/ y = w
        BY <2>1
      <4>3. x \in Rest(w) /\ y \in Rest(w) => Fits(x, y)
        BY <2>2, <3>1, RestHeld
      <4> QED
        BY <2>3, <3>1, <4>1, <4>2, <4>3, Zenon
    <3> QED
      BY <3>1
  <2> QED
    BY <1>1, <2>1, <2>4, <2>5, Zenon DEF Held, TableOK, AllFit
<1>3. ASSUME NEW w \in Askable, Gives(w) PROVE Held'
  <2>1. table' = Rest(w) /\ owners' = owners
    BY <1>3, Zenon DEF Gives
  <2>2. Proper(w)
    BY <1>1, AskedProper
  <2> QED
    BY <1>1, <2>1, <2>2, RestHeld, Zenon DEF Held, TableOK, AllFit
<1>4. ASSUME NEW D, Drops(D) PROVE Held'
  <2>1. /\ table' \subseteq table /\ owners' \subseteq Owner \X File
        /\ \A l \in table' : Owned(l, owners')
    BY <1>4 DEF Drops
  <2> QED
    BY <2>1, Zenon DEF Held, TableOK, AllFit
<1>5. ASSUME table' = table, owners' = owners PROVE Held'
  BY <1>5, Zenon DEF Held, TableOK, AllFit
<1>6. CASE UNCHANGED lockVars
  BY <1>5, <1>6, Zenon DEF lockVars
<1>7. ASSUME NEW c, Wakes(c) PROVE Held'
  BY <1>5, <1>7, Zenon DEF Wakes
<1>8. ASSUME NEW w, NEW c, Sleeps(c, w) PROVE Held'
  BY <1>5, <1>8, Zenon DEF Sleeps
<1> QED
  BY <1>2, <1>3, <1>4, <1>6, <1>7, <1>8, Zenon DEF Next

LEMMA HeldAlways == Spec => []Held
<1>1. Init => Held
  BY DEF Init, Held, TableOK, AllFit
<1> QED
  BY <1>1, HeldStep, PTL DEF Spec

\* Locks that overlap belong to owners that may share the range, an owner's
\* own never overlap, and no lock outlives its owner, whatever is locked,
\* unlocked and released in whatever order (lock.set, releaseMatching).
THEOREM LocksCoherentAlways == Spec => []LocksCoherent
<1>1. ASSUME Held PROVE LocksCoherent
  <2>1. ASSUME NEW l \in table, NEW m \in table, l # m, l.key = m.key,
               overlaps(l, m.first, m.last)
        PROVE  l.owner # m.owner /\ {l.kind, m.kind} = {"read"}
    <3>1. l.owner # m.owner /\ l.kind = "read" /\ m.kind = "read"
      BY <1>1, <2>1, Zenon DEF Held, AllFit, Fits
    <3> QED
      BY <3>1
  <2>2. \A l \in table : Owned(l, owners)
    BY <1>1, Zenon DEF Held, TableOK
  <2> QED
    BY <2>1, <2>2, Zenon DEF LocksCoherent
<1> QED
  BY <1>1, HeldAlways, PTL

-----------------------------------------------------------------------------
(***************************************************************************)
(* The holders wouldDeadlock follows.                                      *)
(***************************************************************************)

\* Any set of numbers has a least one.
LEMMA Least ==
  ASSUME NEW T \in SUBSET Nat, T # {}
  PROVE  \E m \in T : \A k \in T : m <= k
<1>1. PICK m \in T : \A k \in T : ~ (<<k, m>> \in OpToRel(<, Nat))
  BY NatLessThanWellFounded, WFMin, Zenon
<1>2. ASSUME NEW k \in T PROVE ~ (k < m)
  <2>1. k \in Nat /\ m \in Nat
    OBVIOUS
  <2>2. k < m => <<k, m>> \in OpToRel(<, Nat)
    BY <2>1 DEF OpToRel
  <2> QED
    BY <1>1, <2>2
<1> QED
  BY <1>2

\* Whom the holder x waits for, and the first m holders after `to`.
HolderAfter(N, x) == IF x = <<>> THEN <<>> ELSE HolderOf(N, x)
Chained(N, to, h, m) ==
  /\ h = [n \in 0 .. m |-> h[n]] /\ h[0] = to
  /\ \A n \in 1 .. m : h[n] = HolderAfter(N, h[n - 1])

\* There are as many holders to follow as one likes.
LEMMA ChainExists ==
  ASSUME NEW N, NEW to, NEW m \in Nat
  PROVE  \E h : Chained(N, to, h, m)
<1> DEFINE Short == {k \in Nat : ~ \E h : Chained(N, to, h, k)}
<1>1. CASE Short = {}
  BY <1>1
<1>2. CASE Short # {}
  <2>1. PICK k \in Short : \A j \in Short : k <= j
    BY <1>2, Least
  <2>2. k \in Nat /\ ~ \E h : Chained(N, to, h, k)
    OBVIOUS
  <2>3. CASE k = 0
    <3> DEFINE h == [n \in 0 .. 0 |-> to]
    <3>1. DOMAIN h = 0 .. 0 /\ h[0] = to
      OBVIOUS
    <3>2. h = [n \in 0 .. 0 |-> h[n]] /\ \A n \in 1 .. 0 : FALSE
      OBVIOUS
    <3> HIDE DEF h
    <3>3. Chained(N, to, h, 0)
      BY <3>1, <3>2, Zenon DEF Chained
    <3> QED
      BY <2>2, <2>3, <3>3
  <2>4. CASE k > 0
    <3>1. k - 1 \in Nat /\ k - 1 \notin Short
      BY <2>1, <2>2, <2>4
    <3>2. PICK g : Chained(N, to, g, k - 1)
      BY <3>1
    <3> DEFINE h == [n \in 0 .. k |-> IF n = k THEN HolderAfter(N, g[k - 1]) ELSE g[n]]
    <3>3. \A n \in 0 .. k : h[n] = IF n = k THEN HolderAfter(N, g[k - 1]) ELSE g[n]
      OBVIOUS
    <3>4. h = [n \in 0 .. k |-> h[n]]
      BY Zenon
    <3> HIDE DEF h
    <3>5. h[0] = to
      BY <2>2, <2>4, <3>2, <3>3 DEF Chained
    <3>6. ASSUME NEW n \in 1 .. k PROVE h[n] = HolderAfter(N, h[n - 1])
      <4>1. n \in 0 .. k /\ n - 1 \in 0 .. k /\ n - 1 # k
        BY <2>2
      <4>2. h[n - 1] = g[n - 1]
        BY <3>3, <4>1
      <4>3. CASE n = k
        BY <3>3, <4>1, <4>2, <4>3
      <4>4. CASE n # k
        <5>1. n \in 1 .. (k - 1) /\ h[n] = g[n]
          BY <2>2, <3>3, <4>1, <4>4
        <5> QED
          BY <3>2, <4>2, <5>1, Zenon DEF Chained
      <4> QED
        BY <4>3, <4>4
    <3>7. Chained(N, to, h, k)
      BY <3>4, <3>5, <3>6, Zenon DEF Chained
    <3> QED
      BY <2>2, <3>7
  <2> QED
    BY <2>2, <2>3, <2>4
<1> QED
  BY <1>1, <1>2

\* Where wouldDeadlock finds no cycle, none of the WAITING holders it
\* followed is the caller.
LEMMA FollowedChain ==
  ASSUME NEW N, NEW from, NEW to, ~ wouldDeadlock(N, from, to)
  PROVE  \E h : /\ h[0] = to
                /\ \A n \in 1 .. (WAITING - 1) : h[n] = HolderAfter(N, h[n - 1])
                /\ \A n \in 0 .. (WAITING - 1) : h[n] # from
<1> DEFINE Body(h, n) ==
      IF n = 0 THEN to ELSE IF h[n - 1] = <<>> THEN <<>> ELSE HolderOf(N, h[n - 1])
<1>1. WAITING \in Nat \ {0}
  BY LockTableAssumption
<1>2. PICK g : Chained(N, to, g, WAITING - 1)
  BY <1>1, ChainExists
<1>3. ASSUME NEW n \in 0 .. (WAITING - 1) PROVE g[n] = Body(g, n)
  <2>1. CASE n = 0
    BY <1>2, <2>1, Zenon DEF Chained
  <2>2. CASE n # 0
    <3>1. n \in 1 .. (WAITING - 1)
      BY <1>1, <2>2
    <3> QED
      BY <1>2, <2>2, <3>1, Zenon DEF Chained, HolderAfter
  <2> QED
    BY <2>1, <2>2
<1>4. g = [n \in 0 .. (WAITING - 1) |-> Body(g, n)]
  <2>1. g = [n \in 0 .. (WAITING - 1) |-> g[n]]
    BY <1>2, Zenon DEF Chained
  <2> QED
    BY <1>3, <2>1, Zenon
<1>5. PICK h : /\ h = [n \in 0 .. (WAITING - 1) |-> Body(h, n)]
               /\ \A n \in 0 .. (WAITING - 1) : h[n] # from
  BY <1>4, Zenon DEF wouldDeadlock
<1>6. \A n \in 0 .. (WAITING - 1) : h[n] = Body(h, n)
  BY <1>5, Zenon
<1>7. h[0] = to
  <2>1. 0 \in 0 .. (WAITING - 1)
    BY <1>1
  <2> QED
    BY <1>6, <2>1, Zenon
<1>8. ASSUME NEW n \in 1 .. (WAITING - 1) PROVE h[n] = HolderAfter(N, h[n - 1])
  <2>1. n \in 0 .. (WAITING - 1) /\ n # 0
    BY <1>1
  <2> QED
    BY <1>6, <2>1, Zenon DEF HolderAfter
<1> QED
  BY <1>5, <1>7, <1>8

-----------------------------------------------------------------------------
(***************************************************************************)
(* The notes of who waits for whom.                                        *)
(***************************************************************************)

\* The owners noted as waiting.
Waiters(N) == {N[c].waiter : c \in DOMAIN N}

\* In every set of noted owners, one waits for an owner outside the set.
Acyclic(N) ==
  \A s \in (SUBSET Waiters(N)) \ {{}} : \E o \in s : HolderOf(N, o) \notin s

\* Each owner has at most one note.
OneEach(N) == \A c, e \in DOMAIN N : N[c].waiter = N[e].waiter => c = e

\* With one note each, an owner's holder is the one its note says.
LEMMA HolderNoted ==
  ASSUME NEW N, OneEach(N), NEW c \in DOMAIN N
  PROVE  HolderOf(N, N[c].waiter) = N[c].holder
<1> DEFINE own == {e \in DOMAIN N : N[e].waiter = N[c].waiter}
<1>1. own = {c}
  BY DEF OneEach
<1>2. (CHOOSE e \in own : TRUE) = c
  BY <1>1
<1> QED
  BY <1>1, <1>2 DEF HolderOf

\* There are at most as many noted owners as notes.
LEMMA FewWaiters ==
  ASSUME NEW N, IsFiniteSet(DOMAIN N)
  PROVE  /\ IsFiniteSet(Waiters(N)) /\ Cardinality(Waiters(N)) \in Nat
         /\ Cardinality(Waiters(N)) <= Cardinality(DOMAIN N)
<1> DEFINE f == [c \in DOMAIN N |-> N[c].waiter]
<1>1. f \in Surjection(DOMAIN N, Waiters(N))
  BY Zenon DEF Surjection, Waiters
<1> HIDE DEF f
<1> QED
  BY <1>1, FS_Surjection, FS_CardinalityType

\* A chain of holders inside a set of fewer than WAITING noted owners comes
\* back on itself.
LEMMA ChainCloses ==
  ASSUME NEW N, Acyclic(N), Waiters(N) \subseteq Owner, NEW T, T \subseteq Waiters(N),
         IsFiniteSet(T), Cardinality(T) < WAITING, NEW h,
         \A n \in 1 .. (WAITING - 1) : h[n] = HolderAfter(N, h[n - 1]),
         \A n \in 0 .. (WAITING - 1) : h[n] \in T
  PROVE  FALSE
<1> DEFINE D == 0 .. (WAITING - 1)
           f == [n \in D |-> h[n]]
<1>1. WAITING \in Nat \ {0} /\ <<>> \notin Owner
  BY LockTableAssumption
<1>2. IsFiniteSet(D) /\ Cardinality(D) = WAITING
  BY <1>1, FS_Interval
<1>3. f \in [D -> T] /\ \A n \in D : f[n] = h[n]
  OBVIOUS
<1> HIDE DEF f
<1>4. PICK i, j \in D : i # j /\ f[i] = f[j]
  <2> HIDE DEF D
  <2> QED
    BY <1>2, <1>3, FS_PigeonHole
<1>5. ASSUME NEW x \in D, NEW y \in D, x < y, h[x] = h[y] PROVE FALSE
  <2> DEFINE s == {h[k] : k \in x .. (y - 1)}
  <2>1. s \in SUBSET Waiters(N)
    BY <1>1, <1>5
  <2>2. s # {}
    <3>1. x \in x .. (y - 1)
      BY <1>1, <1>5
    <3>2. h[x] \in s
      BY <3>1
    <3> QED
      BY <3>2
  <2>3. ASSUME NEW k \in x .. (y - 1) PROVE HolderOf(N, h[k]) \in s
    <3>1. k \in D /\ k + 1 \in 1 .. (WAITING - 1) /\ (k + 1) - 1 = k
      BY <1>1, <1>5, <2>3
    <3>2. h[k + 1] = HolderAfter(N, h[k])
      BY <3>1
    <3>3. h[k] # <<>>
      BY <1>1, <3>1
    <3>4. h[k + 1] = HolderOf(N, h[k])
      BY <3>2, <3>3, Zenon DEF HolderAfter
    <3>5. CASE k + 1 = y
      <4>1. x \in x .. (y - 1)
        BY <1>1, <1>5
      <4> QED
        BY <1>5, <3>4, <3>5, <4>1
    <3>6. CASE k + 1 # y
      <4>1. k + 1 \in x .. (y - 1)
        BY <1>1, <1>5, <2>3, <3>6
      <4> QED
        BY <3>4, <4>1
    <3> QED
      BY <3>5, <3>6
  <2>4. \A o \in s : HolderOf(N, o) \in s
    BY <2>3
  <2> HIDE DEF s
  <2> QED
    BY <2>1, <2>2, <2>4 DEF Acyclic
<1>6. i < j \/ j < i
  BY <1>1, <1>4
<1>7. h[i] = h[j]
  BY <1>3, <1>4, Zenon
<1> QED
  BY <1>5, <1>6, <1>7

\* A wait that wouldDeadlock lets through is part of no closed set of noted
\* owners.
LEMMA NoCycle ==
  ASSUME NEW N, Acyclic(N), Waiters(N) \subseteq Owner,
         IsFiniteSet(DOMAIN N), Cardinality(DOMAIN N) < WAITING,
         NEW from, NEW to, from # to, ~ wouldDeadlock(N, from, to),
         NEW s, s \subseteq Waiters(N) \cup {from}, to \in s,
         \A o \in s \ {from} : HolderOf(N, o) \in s
  PROVE  FALSE
<1> DEFINE T == s \ {from}
<1>1. WAITING \in Nat \ {0} /\ <<>> \notin Owner
  BY LockTableAssumption
<1>2. T \subseteq Waiters(N)
  OBVIOUS
<1>3. IsFiniteSet(T) /\ Cardinality(T) < WAITING
  <2>1. /\ IsFiniteSet(Waiters(N)) /\ Cardinality(Waiters(N)) \in Nat
        /\ Cardinality(Waiters(N)) <= Cardinality(DOMAIN N)
    BY FewWaiters
  <2>2. IsFiniteSet(T) /\ Cardinality(T) <= Cardinality(Waiters(N))
    BY <1>2, <2>1, FS_Subset
  <2>3. Cardinality(T) \in Nat /\ Cardinality(DOMAIN N) \in Nat
    BY <2>2, FS_CardinalityType
  <2> QED
    BY <1>1, <2>1, <2>2, <2>3
<1>4. PICK h : /\ h[0] = to
               /\ \A n \in 1 .. (WAITING - 1) : h[n] = HolderAfter(N, h[n - 1])
               /\ \A n \in 0 .. (WAITING - 1) : h[n] # from
  BY FollowedChain
<1> DEFINE Out == {n \in Nat : n \in 0 .. (WAITING - 1) /\ h[n] \notin T}
<1>5. Out = {}
  <2>1. SUFFICES ASSUME Out # {} PROVE FALSE
    OBVIOUS
  <2>2. PICK n \in Out : \A j \in Out : n <= j
    BY <2>1, Least
  <2>3. n \in Nat /\ n \in 0 .. (WAITING - 1) /\ h[n] \notin T
    OBVIOUS
  <2>4. n # 0
    BY <1>4, <2>3
  <2>5. n - 1 \in Nat /\ n - 1 \in 0 .. (WAITING - 1) /\ n \in 1 .. (WAITING - 1)
    BY <1>1, <2>3, <2>4
  <2>6. n - 1 \notin Out
    BY <2>2, <2>3
  <2>7. h[n - 1] \in T
    BY <2>5, <2>6
  <2>8. h[n - 1] # <<>>
    BY <1>1, <1>2, <2>7
  <2>9. h[n] = HolderOf(N, h[n - 1])
    BY <1>4, <2>5, <2>8, Zenon DEF HolderAfter
  <2>10. h[n] \in s /\ h[n] # from
    BY <1>4, <2>3, <2>7, <2>9
  <2> QED
    BY <2>3, <2>10
<1>6. \A n \in 0 .. (WAITING - 1) : h[n] \in T
  BY <1>1, <1>5
<1> HIDE DEF T, Out
<1> QED
  BY <1>2, <1>3, <1>4, <1>6, ChainCloses

-----------------------------------------------------------------------------
(***************************************************************************)
(* Processes of one waiting call each never all sleep on one another.      *)
(***************************************************************************)

\* A noted sleeper is noted with its owner and the owner of a lock that keeps
\* it out.
Says(note, w, locks) ==
  /\ note.waiter = w.owner
  /\ \E l \in locks :
       l.owner = note.holder /\ blocks(l, w.key, w.owner, w.first, w.last, w.kind)
Matching == \A c \in Watched : Says(notes[c], waits[c], table)

\* The notes are one of each owner, without a cycle, and say what is so.
Sound ==
  /\ IsFiniteSet(DOMAIN notes) /\ Waiters(notes) \subseteq Owner
  /\ OneEach(notes) /\ Acyclic(notes)
  /\ Matching

\* The fields of a note.
LEMMA NoteFields ==
  ASSUME NEW a, NEW b, NEW n, n = [waiter |-> a, holder |-> b]
  PROVE  n.waiter = a /\ n.holder = b
OBVIOUS

\* A note without a cycle added keeps the notes sound.
LEMMA NoteAdded ==
  ASSUME NEW N, IsFiniteSet(DOMAIN N), Waiters(N) \subseteq Owner, OneEach(N), Acyclic(N),
         Cardinality(DOMAIN N) < WAITING, NEW c, c \notin DOMAIN N,
         NEW from \in Owner, NEW to, from # to, \A e \in DOMAIN N : N[e].waiter # from,
         ~ wouldDeadlock(N, from, to),
         NEW M, M = Noted(N, c, [waiter |-> from, holder |-> to])
  PROVE  /\ IsFiniteSet(DOMAIN M) /\ Waiters(M) \subseteq Owner
         /\ OneEach(M) /\ Acyclic(M)
<1>1. /\ DOMAIN M = DOMAIN N \cup {c}
      /\ M[c].waiter = from /\ M[c].holder = to
      /\ \A e \in DOMAIN N : M[e] = N[e]
  <2>1. /\ DOMAIN M = DOMAIN N \cup {c} /\ M[c] = [waiter |-> from, holder |-> to]
        /\ \A e \in DOMAIN N \ {c} : M[e] = N[e]
    BY DEF Noted
  <2>2. M[c].waiter = from /\ M[c].holder = to
    BY <2>1, NoteFields
  <2> QED
    BY <2>1, <2>2
<1>2. IsFiniteSet(DOMAIN M)
  BY <1>1, FS_AddElement
<1>3. Waiters(M) = Waiters(N) \cup {from}
  BY <1>1 DEF Waiters
<1>4. OneEach(M)
  <2>1. SUFFICES ASSUME NEW d \in DOMAIN M, NEW e \in DOMAIN M, M[d].waiter = M[e].waiter
                 PROVE  d = e
    BY DEF OneEach
  <2>2. CASE d = c /\ e \in DOMAIN N
    BY <1>1, <2>1, <2>2
  <2>3. CASE e = c /\ d \in DOMAIN N
    BY <1>1, <2>1, <2>3
  <2>4. CASE d \in DOMAIN N /\ e \in DOMAIN N
    BY <1>1, <2>1, <2>4 DEF OneEach
  <2> QED
    BY <1>1, <2>2, <2>3, <2>4
<1>5. HolderOf(M, from) = to
  BY <1>1, <1>4, HolderNoted
<1>6. ASSUME NEW o \in Waiters(N) PROVE HolderOf(M, o) = HolderOf(N, o)
  <2>1. PICK e \in DOMAIN N : N[e].waiter = o
    BY DEF Waiters
  <2>2. e \in DOMAIN M /\ M[e] = N[e]
    BY <1>1
  <2>3. HolderOf(M, M[e].waiter) = M[e].holder
    BY <1>4, <2>2, HolderNoted
  <2>4. HolderOf(N, N[e].waiter) = N[e].holder
    BY HolderNoted
  <2> QED
    BY <2>1, <2>2, <2>3, <2>4
<1>7. Acyclic(M)
  <2>1. SUFFICES ASSUME NEW s, s \subseteq Waiters(M), s # {}, \A o \in s : HolderOf(M, o) \in s
                 PROVE  FALSE
    BY DEF Acyclic
  <2>2. \A o \in s \ {from} : HolderOf(N, o) \in s
    BY <1>3, <1>6, <2>1
  <2>3. CASE from \in s
    <3>1. to \in s
      BY <1>5, <2>1, <2>3
    <3>2. s \subseteq Waiters(N) \cup {from}
      BY <1>3, <2>1
    <3> QED
      BY <2>2, <3>1, <3>2, NoCycle
  <2>4. CASE from \notin s
    <3>1. s \in (SUBSET Waiters(N)) \ {{}} /\ \A o \in s : HolderOf(N, o) \in s
      BY <1>3, <2>1, <2>2, <2>4
    <3> QED
      BY <3>1 DEF Acyclic
  <2> QED
    BY <2>3, <2>4
<1> QED
  BY <1>2, <1>3, <1>4, <1>7

\* A note dropped keeps the notes sound.
LEMMA NoteDropped ==
  ASSUME NEW N, IsFiniteSet(DOMAIN N), Waiters(N) \subseteq Owner, OneEach(N), Acyclic(N),
         NEW c, NEW M, M = Forgotten(N, c)
  PROVE  /\ IsFiniteSet(DOMAIN M) /\ Waiters(M) \subseteq Owner
         /\ OneEach(M) /\ Acyclic(M)
<1>1. DOMAIN M = DOMAIN N \ {c} /\ \A e \in DOMAIN M : e \in DOMAIN N /\ M[e] = N[e]
  BY DEF Forgotten
<1>2. IsFiniteSet(DOMAIN M)
  BY <1>1, FS_Subset
<1>3. Waiters(M) \subseteq Waiters(N)
  BY <1>1 DEF Waiters
<1>4. OneEach(M)
  BY <1>1 DEF OneEach
<1>5. ASSUME NEW o \in Waiters(M) PROVE HolderOf(M, o) = HolderOf(N, o)
  <2>1. PICK e \in DOMAIN M : M[e].waiter = o
    BY DEF Waiters
  <2>2. e \in DOMAIN N /\ M[e] = N[e]
    BY <1>1
  <2>3. HolderOf(M, M[e].waiter) = M[e].holder
    BY <1>4, HolderNoted
  <2>4. HolderOf(N, N[e].waiter) = N[e].holder
    BY <2>2, HolderNoted
  <2> QED
    BY <2>1, <2>2, <2>3, <2>4
<1>6. Acyclic(M)
  <2>1. SUFFICES ASSUME NEW s, s \subseteq Waiters(M), s # {}, \A o \in s : HolderOf(M, o) \in s
                 PROVE  FALSE
    BY DEF Acyclic
  <2>2. s \in (SUBSET Waiters(N)) \ {{}} /\ \A o \in s : HolderOf(N, o) \in s
    BY <1>3, <1>5, <2>1
  <2> QED
    BY <2>2 DEF Acyclic
<1> QED
  BY <1>2, <1>3, <1>4, <1>6

\* The owners of a refused lock and of the one that refuses it differ.
LEMMA BlockersOthers ==
  ASSUME NEW w, NEW l \in Blockers(w)
  PROVE  l.owner # w.owner
BY Zenon DEF Blockers, blocks

\* Falling asleep keeps the notes sound.
LEMMA SleepsSound ==
  ASSUME Sound, Held, ~ Threaded, NEW w \in Askable, NEW c, Sleeps(c, w)
  PROVE  Sound'
<1>1. /\ c \notin DOMAIN waits /\ c \notin DOMAIN notes
      /\ \A e \in DOMAIN notes : notes[e].waiter # w.owner
      /\ waits' = Noted(waits, c, w) /\ table' = table
  BY DEF Sleeps
<1>2. w.owner \in Owner
  <2>1. Proper(w)
    BY AskedProper, Zenon DEF Held, TableOK
  <2> QED
    BY <2>1, Fields, Zenon DEF Proper
<1>3. \/ notes' = notes
      \/ \E l \in Blockers(w) :
           /\ ~ wouldDeadlock(notes, w.owner, l.owner)
           /\ Cardinality(DOMAIN notes) < WAITING
           /\ notes' = Noted(notes, c, [waiter |-> w.owner, holder |-> l.owner])
  BY Zenon DEF Sleeps
<1>4. /\ DOMAIN waits' = DOMAIN waits \cup {c} /\ waits'[c] = w
      /\ \A e \in DOMAIN waits : waits'[e] = waits[e]
  BY <1>1 DEF Noted
<1>5. CASE notes' = notes
  <2>1. Watched' = Watched
    BY <1>1, <1>4, <1>5 DEF Watched
  <2>2. \A e \in Watched : waits'[e] = waits[e]
    BY <1>4 DEF Watched
  <2>3. Matching'
    <3>1. ASSUME NEW e \in Watched'
          PROVE  Says(notes'[e], waits'[e], table')
      BY <1>1, <1>5, <2>1, <2>2, Zenon DEF Sound, Matching
    <3> QED
      BY <3>1, Zenon DEF Matching
  <2> QED
    BY <1>5, <2>3, Zenon DEF Sound
<1>6. ASSUME NEW l \in Blockers(w), ~ wouldDeadlock(notes, w.owner, l.owner),
             Cardinality(DOMAIN notes) < WAITING,
             notes' = Noted(notes, c, [waiter |-> w.owner, holder |-> l.owner])
      PROVE  Sound'
  <2>1. w.owner # l.owner
    BY BlockersOthers
  <2>2. /\ IsFiniteSet(DOMAIN notes') /\ Waiters(notes') \subseteq Owner
        /\ OneEach(notes') /\ Acyclic(notes')
    BY <1>1, <1>2, <1>6, <2>1, NoteAdded, Zenon DEF Sound
  <2>3. /\ DOMAIN notes' = DOMAIN notes \cup {c}
        /\ notes'[c].waiter = w.owner /\ notes'[c].holder = l.owner
        /\ \A e \in DOMAIN notes \ {c} : notes'[e] = notes[e]
    <3>1. /\ DOMAIN notes' = DOMAIN notes \cup {c}
          /\ notes'[c] = [waiter |-> w.owner, holder |-> l.owner]
          /\ \A e \in DOMAIN notes \ {c} : notes'[e] = notes[e]
      BY <1>6 DEF Noted
    <3>2. notes'[c].waiter = w.owner /\ notes'[c].holder = l.owner
      BY <3>1, NoteFields
    <3> QED
      BY <3>1, <3>2
  <2>4. Matching'
    <3>1. ASSUME NEW e \in Watched'
          PROVE  Says(notes'[e], waits'[e], table')
      <4>1. CASE e = c
        BY <1>1, <1>4, <1>6, <2>3, <4>1, Zenon DEF Blockers, Says
      <4>2. CASE e # c
        <5>1. e \in Watched /\ e \in DOMAIN notes \ {c} /\ e \in DOMAIN waits
          BY <1>4, <2>3, <3>1, <4>2 DEF Watched
        <5>2. notes'[e] = notes[e] /\ waits'[e] = waits[e]
          BY <1>4, <2>3, <5>1
        <5> QED
          BY <1>1, <5>1, <5>2, Zenon DEF Sound, Matching
      <4> QED
        BY <4>1, <4>2
    <3> QED
      BY <3>1, Zenon DEF Matching
  <2> QED
    BY <2>2, <2>4, Zenon DEF Sound
<1> QED
  BY <1>3, <1>5, <1>6

\* Whoever looks again is asleep no more: a step that wakes all keeps the
\* notes sound.
LEMMA AllAwake ==
  ASSUME Sound, waits' = Nobody, notes' = notes
  PROVE  Sound'
<1>1. DOMAIN waits' = {}
  BY DEF Nobody
<1>2. Watched' = {}
  BY <1>1 DEF Watched
<1>3. Matching'
  BY <1>2 DEF Matching
<1> QED
  BY <1>3, Zenon DEF Sound

\* Waking keeps the notes sound.
LEMMA WakesSound ==
  ASSUME Sound, NEW c, Wakes(c)
  PROVE  Sound'
<1>1. /\ waits' = Forgotten(waits, c) /\ table' = table
      /\ notes' = notes \/ notes' = Forgotten(notes, c)
  BY DEF Wakes
<1>2. /\ IsFiniteSet(DOMAIN notes') /\ Waiters(notes') \subseteq Owner
      /\ OneEach(notes') /\ Acyclic(notes')
  <2>1. CASE notes' = notes
    BY <2>1, Zenon DEF Sound
  <2>2. CASE notes' = Forgotten(notes, c)
    BY <2>2, NoteDropped, Zenon DEF Sound
  <2> QED
    BY <1>1, <2>1, <2>2
<1>3. /\ DOMAIN waits' = DOMAIN waits \ {c}
      /\ \A e \in DOMAIN waits \ {c} : waits'[e] = waits[e]
  BY <1>1 DEF Forgotten
<1>4. /\ DOMAIN notes' \subseteq DOMAIN notes
      /\ \A e \in DOMAIN notes' \ {c} : notes'[e] = notes[e]
  <2>1. CASE notes' = notes
    BY <2>1
  <2>2. CASE notes' = Forgotten(notes, c)
    <3>1. /\ DOMAIN notes' = DOMAIN notes \ {c}
          /\ \A e \in DOMAIN notes \ {c} : notes'[e] = notes[e]
      BY <2>2 DEF Forgotten
    <3> QED
      BY <3>1
  <2> QED
    BY <1>1, <2>1, <2>2
<1>5. ASSUME NEW e \in Watched'
      PROVE  e \in Watched /\ notes'[e] = notes[e] /\ waits'[e] = waits[e]
  BY <1>3, <1>4 DEF Watched
<1>6. Matching'
  <2>1. ASSUME NEW e \in Watched'
        PROVE  Says(notes'[e], waits'[e], table')
    BY <1>1, <1>5, Zenon DEF Sound, Matching
  <2> QED
    BY <2>1, Zenon DEF Matching
<1> QED
  BY <1>2, <1>6, Zenon DEF Sound

\* A step keeps the notes sound.
LEMMA SoundStep ==
  ASSUME Sound, Held, ~ Threaded, [Next]_lockVars
  PROVE  Sound'
<1>1. ASSUME waits' = waits, notes' = notes, table' = table PROVE Sound'
  <2>1. Watched' = Watched
    BY <1>1, Zenon DEF Watched
  <2>2. Matching'
    <3>1. ASSUME NEW e \in Watched'
          PROVE  Says(notes'[e], waits'[e], table')
      BY <1>1, <2>1, Zenon DEF Sound, Matching
    <3> QED
      BY <3>1, Zenon DEF Matching
  <2> QED
    BY <1>1, <2>2, Zenon DEF Sound
<1>2. ASSUME NEW w, Takes(w) \/ Gives(w) PROVE Sound'
  BY <1>2, AllAwake, Zenon DEF Takes, Gives
<1>3. ASSUME NEW D, Drops(D) PROVE Sound'
  <2>1. notes' = notes /\ (waits' = Nobody \/ (waits' = waits /\ table' = table))
    BY <1>3, Zenon DEF Drops
  <2> QED
    BY <1>1, <2>1, AllAwake, Zenon
<1>4. CASE UNCHANGED lockVars
  BY <1>1, <1>4, Zenon DEF lockVars
<1> QED
  BY <1>2, <1>3, <1>4, SleepsSound, WakesSound, Zenon DEF Next

\* Processes of one waiting call each never all sleep on one another: some
\* call of any set of noted sleepers waits for an owner outside the set
\* (wouldDeadlockLocked, noteWaitingLocked), however the waiting owners'
\* table of WAITING entries fills.
THEOREM NoDeadlockAlways == ASSUME ~ Threaded PROVE Spec => []NoDeadlock
<1>1. Init => Sound
  <2>1. ASSUME Init PROVE Sound
    <3>1. DOMAIN notes = {} /\ DOMAIN waits = {}
      BY <2>1 DEF Init, Nobody
    <3>2. Waiters(notes) = {} /\ Watched = {}
      BY <3>1 DEF Waiters, Watched
    <3>3. OneEach(notes) /\ Acyclic(notes) /\ Matching
      BY <3>1, <3>2 DEF OneEach, Acyclic, Matching
    <3> QED
      BY <3>1, <3>2, <3>3, FS_EmptySet DEF Sound
  <2> QED
    BY <2>1
<1>2. Sound /\ Held /\ [Next]_lockVars => Sound'
  BY SoundStep
<1>3. ASSUME Sound PROVE NoDeadlock
  <2>1. SUFFICES ASSUME NEW s \in (SUBSET {waits[c].owner : c \in Watched}) \ {{}}
                 PROVE  \E c \in Watched : /\ waits[c].owner \in s
                                           /\ \E l \in Blockers(waits[c]) : l.owner \notin s
    BY Zenon DEF NoDeadlock
  <2>2. \A c \in Watched : c \in DOMAIN notes /\ notes[c].waiter = waits[c].owner
    BY <1>3, Zenon DEF Sound, Matching, Watched, Says
  <2>3. s \in (SUBSET Waiters(notes)) \ {{}}
    BY <2>2 DEF Waiters
  <2>4. PICK o \in s : HolderOf(notes, o) \notin s
    BY <1>3, <2>3, Zenon DEF Sound, Acyclic
  <2>5. PICK c \in Watched : waits[c].owner = o
    OBVIOUS
  <2>6. HolderOf(notes, o) = notes[c].holder
    <3>1. c \in DOMAIN notes /\ notes[c].waiter = o /\ OneEach(notes)
      BY <1>3, <2>2, <2>5, Zenon DEF Sound
    <3> QED
      BY <3>1, HolderNoted, Zenon
  <2>7. PICK l \in Blockers(waits[c]) : l.owner = notes[c].holder
    BY <1>3, Zenon DEF Sound, Matching, Says, Blockers
  <2> QED
    BY <2>4, <2>5, <2>6, <2>7, Zenon
<1> QED
  BY <1>1, <1>2, <1>3, HeldAlways, PTL DEF Spec
=============================================================================
