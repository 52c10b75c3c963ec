----------------------------- MODULE MlfqProofs -----------------------------
(***************************************************************************)
(* The multi-level feedback queues implement the abstract dispatcher       *)
(* RunQueue, for every number of CPUs and tasks and every quantum: no task *)
(* is lost, queued twice or run by two CPUs.                               *)
(*                                                                         *)
(* The argument has three layers: what Append, Tail and \o do to the       *)
(* members of a sequence; what enqueue, pickNext and boostAll do to the    *)
(* four queues together; and, with the invariant that a task is in one     *)
(* place, what each action of Mlfq does to the abstract ready set.         *)
(***************************************************************************)
EXTENDS Mlfq, SequenceTheorems, FiniteSetTheorems, TLAPS

-----------------------------------------------------------------------------
(***************************************************************************)
(* The members of a sequence.                                              *)
(***************************************************************************)

\* The members of a sequence are its values at the positions 1..Len.
LEMMA Members ==
  ASSUME NEW S, NEW s \in Seq(S)
  PROVE  /\ DOMAIN s = 1..Len(s) /\ Len(s) \in Nat
         /\ \A i \in 1..Len(s) : s[i] \in S
         /\ ToSet(s) \subseteq S
         /\ \A x : x \in ToSet(s) <=> \E i \in 1..Len(s) : s[i] = x
         /\ IsInjective(s) <=> \A i, j \in 1..Len(s) : s[i] = s[j] => i = j
<1>1. DOMAIN s = 1..Len(s) /\ Len(s) \in Nat /\ \A i \in 1..Len(s) : s[i] \in S
  BY LenProperties, ElementOfSeq
<1>2. \A x : x \in ToSet(s) <=> \E i \in 1..Len(s) : s[i] = x
  BY <1>1, Zenon DEF ToSet
<1>3. IsInjective(s) <=> \A i, j \in 1..Len(s) : s[i] = s[j] => i = j
  BY <1>1, Zenon DEF IsInjective
<1> QED
  BY <1>1, <1>2, <1>3

\* The empty queue has no members.
LEMMA EmptyMembers ==
  ASSUME NEW S
  PROVE  <<>> \in Seq(S) /\ ToSet(<<>>) = {} /\ IsInjective(<<>>)
<1>1. <<>> \in Seq(S) /\ Len(<<>>) = 0
  BY EmptySeq
<1>2. 1..Len(<<>>) = {}
  BY <1>1
<1>3. \A x : x \in ToSet(<<>>) <=> \E i \in 1..Len(<<>>) : <<>>[i] = x
  BY <1>1, Members
<1>4. IsInjective(<<>>) <=> \A i, j \in 1..Len(<<>>) : <<>>[i] = <<>>[j] => i = j
  BY <1>1, Members
<1> QED
  BY <1>1, <1>2, <1>3, <1>4, Zenon

\* Append adds its element, and keeps a queue free of repetitions if the
\* element was not in it.
LEMMA AppendMembers ==
  ASSUME NEW S, NEW s \in Seq(S), NEW x \in S
  PROVE  /\ Append(s, x) \in Seq(S)
         /\ ToSet(Append(s, x)) = ToSet(s) \cup {x}
         /\ IsInjective(s) /\ x \notin ToSet(s) => IsInjective(Append(s, x))
<1> DEFINE r == Append(s, x)
<1>1. /\ r \in Seq(S) /\ Len(r) = Len(s) + 1
      /\ \A i \in 1..Len(s) : r[i] = s[i]
      /\ r[Len(s) + 1] = x
  BY AppendProperties
<1> HIDE DEF r
<1>2. ToSet(r) = ToSet(s) \cup {x}
  <2>1. ASSUME NEW y \in ToSet(r) PROVE y \in ToSet(s) \cup {x}
    <3>1. PICK i \in 1..Len(r) : r[i] = y
      BY <1>1, Members
    <3>2. i \in 1..Len(s) \/ i = Len(s) + 1
      BY <1>1, <3>1, Members
    <3> QED
      BY <1>1, <3>1, <3>2, Members
  <2>2. ASSUME NEW y \in ToSet(s) PROVE y \in ToSet(r)
    <3>1. PICK i \in 1..Len(s) : s[i] = y
      BY <2>2, Members
    <3>2. i \in 1..Len(r) /\ r[i] = y
      BY <1>1, <3>1, Members
    <3> QED
      BY <1>1, <3>2, Members
  <2>3. x \in ToSet(r)
    <3>1. Len(s) + 1 \in 1..Len(r)
      BY <1>1, Members
    <3> QED
      BY <1>1, <3>1, Members
  <2> QED
    BY <2>1, <2>2, <2>3
<1>3. ASSUME IsInjective(s), x \notin ToSet(s) PROVE IsInjective(r)
  <2>1. ASSUME NEW i \in 1..Len(r), NEW j \in 1..Len(r), r[i] = r[j] PROVE i = j
    <3>1. \A k \in 1..Len(s) : s[k] # x
      BY <1>3, Members
    <3>2. \A k, m \in 1..Len(s) : s[k] = s[m] => k = m
      BY <1>3, Members
    <3> QED
      BY <1>1, <2>1, <3>1, <3>2, Members
  <2> QED
    BY <1>1, <2>1, Members
<1> QED
  BY <1>1, <1>2, <1>3 DEF r

\* Tail removes the head, which is not in it again if nothing is repeated.
LEMMA TailMembers ==
  ASSUME NEW S, NEW s \in Seq(S), s # <<>>, IsInjective(s)
  PROVE  /\ Tail(s) \in Seq(S) /\ IsInjective(Tail(s))
         /\ Head(s) \in ToSet(s)
         /\ ToSet(Tail(s)) = ToSet(s) \ {Head(s)}
<1>1. /\ Tail(s) \in Seq(S) /\ Len(Tail(s)) = Len(s) - 1
      /\ \A i \in 1..Len(Tail(s)) : Tail(s)[i] = s[i + 1]
  BY HeadTailProperties
<1>2. Len(s) # 0
  BY EmptySeq, SeqEqual
<1>3. Head(s) = s[1] /\ 1 \in 1..Len(s)
  BY <1>2, Members
<1>4. \A i, j \in 1..Len(s) : s[i] = s[j] => i = j
  BY Members
<1> DEFINE r == Tail(s)
           h == Head(s)
<1> HIDE DEF r, h
<1>5. r \in Seq(S) /\ Len(r) = Len(s) - 1 /\ \A i \in 1..Len(r) : r[i] = s[i + 1]
  BY <1>1 DEF r
<1>6. /\ Len(s) \in Nat /\ Len(r) \in Nat
      /\ \A x : x \in ToSet(s) <=> \E i \in 1..Len(s) : s[i] = x
  BY <1>5, Members
<1>7. \A x : x \in ToSet(r) <=> \E i \in 1..Len(r) : r[i] = x
  BY <1>5, Members, Zenon
<1>8. ToSet(r) = ToSet(s) \ {h}
  <2>1. ASSUME NEW y \in ToSet(r) PROVE y \in ToSet(s) \ {h}
    <3>1. PICK i \in 1..Len(r) : r[i] = y
      BY <1>7, Zenon
    <3>2. i + 1 \in 1..Len(s) /\ s[i + 1] = y /\ i + 1 # 1
      BY <1>5, <1>6, <3>1
    <3>3. y # h
      BY <1>3, <1>4, <3>2 DEF h
    <3>4. y \in ToSet(s)
      BY <1>6, <3>2, Zenon
    <3> QED
      BY <3>3, <3>4
  <2>2. ASSUME NEW y \in ToSet(s), y # h PROVE y \in ToSet(r)
    <3>1. PICK i \in 1..Len(s) : s[i] = y
      BY <1>6, Zenon
    <3>2. i # 1
      BY <1>3, <2>2, <3>1 DEF h
    <3>3. i - 1 \in 1..Len(r) /\ (i - 1) + 1 = i
      BY <1>5, <1>6, <3>1, <3>2
    <3>4. r[i - 1] = y
      BY <1>5, <3>1, <3>3
    <3> QED
      BY <1>7, <3>3, <3>4, Zenon
  <2> QED
    BY <2>1, <2>2
<1>9. IsInjective(r)
  <2>1. ASSUME NEW i \in 1..Len(r), NEW j \in 1..Len(r), r[i] = r[j] PROVE i = j
    <3>1. i + 1 \in 1..Len(s) /\ j + 1 \in 1..Len(s) /\ s[i + 1] = s[j + 1]
      BY <1>5, <1>6, <2>1
    <3>2. i + 1 = j + 1
      BY <1>4, <3>1, Zenon
    <3> QED
      BY <1>6, <3>2
  <2>2. IsInjective(r) <=> \A i, j \in 1..Len(r) : r[i] = r[j] => i = j
    BY <1>5, Members, Zenon
  <2> QED
    BY <2>1, <2>2
<1>10. h \in ToSet(s)
  BY <1>3, <1>6 DEF h
<1> QED
  BY <1>5, <1>8, <1>9, <1>10 DEF r, h

\* \o joins the members, and repeats none if the two have none in common.
LEMMA ConcatMembers ==
  ASSUME NEW S, NEW s \in Seq(S), NEW u \in Seq(S)
  PROVE  /\ s \o u \in Seq(S)
         /\ ToSet(s \o u) = ToSet(s) \cup ToSet(u)
         /\ IsInjective(s) /\ IsInjective(u) /\ ToSet(s) \cap ToSet(u) = {}
              => IsInjective(s \o u)
<1> DEFINE r == s \o u
<1>1. /\ r \in Seq(S) /\ Len(r) = Len(s) + Len(u)
      /\ \A i \in 1..(Len(s) + Len(u)) :
           r[i] = IF i <= Len(s) THEN s[i] ELSE u[i - Len(s)]
  BY ConcatProperties
<1>2. Len(s) \in Nat /\ Len(u) \in Nat
  BY Members
<1> HIDE DEF r
<1>3. ASSUME NEW i \in 1..Len(r)
      PROVE  \/ i \in 1..Len(s) /\ r[i] = s[i]
             \/ i - Len(s) \in 1..Len(u) /\ r[i] = u[i - Len(s)]
  BY <1>1, <1>2
<1>4. ToSet(r) = ToSet(s) \cup ToSet(u)
  <2>1. ASSUME NEW y \in ToSet(r) PROVE y \in ToSet(s) \cup ToSet(u)
    <3>1. PICK i \in 1..Len(r) : r[i] = y
      BY <1>1, Members
    <3> QED
      BY <1>3, <3>1, Members
  <2>2. ASSUME NEW y \in ToSet(s) PROVE y \in ToSet(r)
    <3>1. PICK i \in 1..Len(s) : s[i] = y
      BY <2>2, Members
    <3>2. i \in 1..Len(r) /\ r[i] = y
      BY <1>1, <1>2, <3>1
    <3> QED
      BY <1>1, <3>2, Members
  <2>3. ASSUME NEW y \in ToSet(u) PROVE y \in ToSet(r)
    <3>1. PICK i \in 1..Len(u) : u[i] = y
      BY <2>3, Members
    <3>2. Len(s) + i \in 1..Len(r) /\ ~ (Len(s) + i <= Len(s)) /\ (Len(s) + i) - Len(s) = i
      BY <1>1, <1>2, <3>1
    <3>3. r[Len(s) + i] = y
      BY <1>1, <3>1, <3>2
    <3> QED
      BY <1>1, <3>2, <3>3, Members
  <2> QED
    BY <2>1, <2>2, <2>3
<1>5. ASSUME IsInjective(s), IsInjective(u), ToSet(s) \cap ToSet(u) = {}
      PROVE  IsInjective(r)
  <2>1. \A i, j \in 1..Len(s) : s[i] = s[j] => i = j
    BY <1>5, Members
  <2>2. \A i, j \in 1..Len(u) : u[i] = u[j] => i = j
    BY <1>5, Members
  <2>3. \A i \in 1..Len(s), j \in 1..Len(u) : s[i] # u[j]
    BY <1>5, Members
  <2>4. ASSUME NEW i \in 1..Len(r), NEW j \in 1..Len(r), r[i] = r[j] PROVE i = j
    <3>1. CASE i \in 1..Len(s) /\ j \in 1..Len(s)
      <4>1. r[i] = s[i] /\ r[j] = s[j]
        BY <1>1, <1>2, <3>1
      <4> QED
        BY <2>1, <2>4, <3>1, <4>1
    <3>2. CASE i \in 1..Len(s) /\ j \notin 1..Len(s)
      <4>1. r[i] = s[i]
        BY <1>1, <1>2, <3>2
      <4>2. j - Len(s) \in 1..Len(u) /\ r[j] = u[j - Len(s)]
        BY <1>3, <3>2
      <4> QED
        BY <2>3, <2>4, <3>2, <4>1, <4>2
    <3>3. CASE i \notin 1..Len(s) /\ j \in 1..Len(s)
      <4>1. r[j] = s[j]
        BY <1>1, <1>2, <3>3
      <4>2. i - Len(s) \in 1..Len(u) /\ r[i] = u[i - Len(s)]
        BY <1>3, <3>3
      <4> QED
        BY <2>3, <2>4, <3>3, <4>1, <4>2
    <3>4. CASE i \notin 1..Len(s) /\ j \notin 1..Len(s)
      <4>1. /\ i - Len(s) \in 1..Len(u) /\ r[i] = u[i - Len(s)]
            /\ j - Len(s) \in 1..Len(u) /\ r[j] = u[j - Len(s)]
        BY <1>3, <3>4
      <4>2. i - Len(s) = j - Len(s)
        BY <2>2, <2>4, <4>1
      <4> QED
        BY <1>1, <1>2, <4>2
    <3> QED
      BY <3>1, <3>2, <3>3, <3>4
  <2> QED
    BY <1>1, <2>4, Members
<1> QED
  BY <1>1, <1>4, <1>5 DEF r

\* The initial order of a finite set of tasks repeats none of them.
LEMMA OrderMembers ==
  ASSUME NEW S, IsFiniteSet(S)
  PROVE  SetToSeq(S) \in Seq(S) /\ IsInjective(SetToSeq(S))
<1>1. Cardinality(S) \in Nat /\ ExistsBijection(1..Cardinality(S), S)
  BY FS_CardinalityType
<1>2. \E f \in [1..Cardinality(S) -> S] : IsInjective(f)
  BY <1>1 DEF ExistsBijection, Bijection, Injection
<1>3. SetToSeq(S) \in [1..Cardinality(S) -> S] /\ IsInjective(SetToSeq(S))
  BY <1>2, Zenon DEF SetToSeq
<1> QED
  BY <1>1, <1>3, IsASeq

-----------------------------------------------------------------------------
(***************************************************************************)
(* The four queues together: enqueue, pickNext and boostAll.               *)
(***************************************************************************)

\* The tasks in the queues q.
Queued(q) == UNION {ToSet(q[l]) : l \in Levels}

\* No task is in q twice, at one level or at two.
NoneTwice(q) ==
  /\ \A l \in Levels : IsInjective(q[l])
  /\ \A l, m \in Levels : l # m => ToSet(q[l]) \cap ToSet(q[m]) = {}

Queues == [Levels -> Seq(Task)]

\* A task is queued if it is at some level.
LEMMA QueuedAt ==
  ASSUME NEW q
  PROVE  \A x : x \in Queued(q) <=> \E l \in Levels : x \in ToSet(q[l])
BY DEF Queued

\* Only tasks are queued.
LEMMA QueuedTasks ==
  ASSUME NEW q \in Queues
  PROVE  Queued(q) \subseteq Task
<1>1. \A l \in Levels : q[l] \in Seq(Task)
  BY DEF Queues
<1>2. \A l \in Levels : ToSet(q[l]) \subseteq Task
  BY <1>1, Members
<1> QED
  BY <1>2, QueuedAt

\* enqueue adds its task, in one place.
LEMMA EnqueueAdds ==
  ASSUME NEW q \in Queues, NoneTwice(q),
         NEW l \in Levels, NEW t \in Task, t \notin Queued(q)
  PROVE  LET r == [q EXCEPT ![l] = Append(@, t)]
         IN  r \in Queues /\ NoneTwice(r) /\ Queued(r) = Queued(q) \cup {t}
<1> DEFINE r == [q EXCEPT ![l] = Append(@, t)]
<1>1. \A m \in Levels : q[m] \in Seq(Task) /\ t \notin ToSet(q[m])
  BY QueuedAt DEF Queues
<1>2. r[l] = Append(q[l], t) /\ \A m \in Levels : m # l => r[m] = q[m]
  BY DEF Queues
<1>3. DOMAIN r = Levels /\ r = [m \in Levels |-> r[m]]
  BY Zenon DEF Queues
<1> HIDE DEF r
<1>4. r[l] \in Seq(Task) /\ ToSet(r[l]) = ToSet(q[l]) \cup {t} /\ IsInjective(r[l])
  <2>1. IsInjective(q[l])
    BY DEF NoneTwice
  <2> QED
    BY <1>1, <1>2, <2>1, AppendMembers
<1>5. r \in Queues
  <2>1. \A m \in Levels : r[m] \in Seq(Task)
    BY <1>1, <1>2, <1>4
  <2> QED
    BY <1>3, <2>1, Zenon DEF Queues
<1>6. NoneTwice(r)
  <2>1. \A m \in Levels : IsInjective(r[m])
    BY <1>2, <1>4 DEF NoneTwice
  <2>2. ASSUME NEW m \in Levels, NEW k \in Levels, m # k
        PROVE  ToSet(r[m]) \cap ToSet(r[k]) = {}
    <3>1. ToSet(q[m]) \cap ToSet(q[k]) = {}
      BY <2>2 DEF NoneTwice
    <3> QED
      BY <1>1, <1>2, <1>4, <2>2, <3>1
  <2> QED
    BY <2>1, <2>2 DEF NoneTwice
<1>7. \A x : x \in Queued(r) <=> x \in Queued(q) \cup {t}
  BY <1>2, <1>4, QueuedAt
<1> QED
  BY <1>5, <1>6, <1>7 DEF r

\* Taking the head of a level removes one task.
LEMMA TailRemoves ==
  ASSUME NEW q \in Queues, NoneTwice(q), NEW l \in Levels, q[l] # <<>>
  PROVE  LET r == [q EXCEPT ![l] = Tail(@)]
             h == Head(q[l])
         IN  /\ r \in Queues /\ NoneTwice(r)
             /\ h \in Queued(q) /\ Queued(r) = Queued(q) \ {h}
<1> DEFINE r == [q EXCEPT ![l] = Tail(@)]
           h == Head(q[l])
<1>1. \A m \in Levels : q[m] \in Seq(Task)
  BY DEF Queues
<1>2. r[l] = Tail(q[l]) /\ \A m \in Levels : m # l => r[m] = q[m]
  BY DEF Queues
<1>3. DOMAIN r = Levels /\ r = [m \in Levels |-> r[m]]
  BY Zenon DEF Queues
<1>4. /\ r[l] \in Seq(Task) /\ IsInjective(r[l])
      /\ h \in ToSet(q[l]) /\ ToSet(r[l]) = ToSet(q[l]) \ {h}
  <2>1. IsInjective(q[l])
    BY DEF NoneTwice
  <2> QED
    BY <1>1, <1>2, <2>1, TailMembers
<1> HIDE DEF r, h
<1>5. \A m \in Levels : m # l => h \notin ToSet(q[m])
  BY <1>4 DEF NoneTwice
<1>6. r \in Queues
  <2>1. \A m \in Levels : r[m] \in Seq(Task)
    BY <1>1, <1>2, <1>4
  <2> QED
    BY <1>3, <2>1, Zenon DEF Queues
<1>7. NoneTwice(r)
  <2>1. \A m \in Levels : IsInjective(r[m])
    BY <1>2, <1>4 DEF NoneTwice
  <2>2. ASSUME NEW m \in Levels, NEW k \in Levels, m # k
        PROVE  ToSet(r[m]) \cap ToSet(r[k]) = {}
    <3>1. ToSet(q[m]) \cap ToSet(q[k]) = {}
      BY <2>2 DEF NoneTwice
    <3> QED
      BY <1>2, <1>4, <2>2, <3>1
  <2> QED
    BY <2>1, <2>2 DEF NoneTwice
<1>8. \A x : x \in Queued(r) <=> x \in Queued(q) \ {h}
  BY <1>2, <1>4, <1>5, QueuedAt
<1>9. h \in Queued(q)
  BY <1>4, QueuedAt
<1> QED
  BY <1>6, <1>7, <1>8, <1>9 DEF r, h

\* boostAll moves tasks between levels and loses none.
LEMMA BoostKeeps ==
  ASSUME queue \in Queues, NoneTwice(queue)
  PROVE  /\ BoostedQueue \in Queues /\ NoneTwice(BoostedQueue)
         /\ Queued(BoostedQueue) = Queued(queue)
<1> DEFINE q == queue
           r == BoostedQueue
<1>1. /\ 0 \in Levels /\ 1 \in Levels /\ 2 \in Levels /\ 3 \in Levels
      /\ \A l \in Levels : l = 0 \/ l = 1 \/ l = 2 \/ l = 3
  BY DEF Levels
<1>2. \A l \in Levels : q[l] \in Seq(Task) /\ IsInjective(q[l])
  BY DEF Queues, NoneTwice
<1>3. \A l, m \in Levels : l # m => ToSet(q[l]) \cap ToSet(q[m]) = {}
  BY DEF NoneTwice
<1>4. /\ DOMAIN r = Levels /\ r = [l \in Levels |-> r[l]]
      /\ r[0] = q[0] /\ r[1] = q[1] \o q[2] \o q[3]
      /\ \A l \in Levels : l # 0 /\ l # 1 => r[l] = <<>>
  <2>1. 0 # 1
    OBVIOUS
  <2> QED
    BY <1>1, <2>1, Zenon DEF BoostedQueue
<1> HIDE DEF q, r
<1>5. /\ ToSet(q[0]) \cap ToSet(q[1]) = {}
      /\ ToSet(q[0]) \cap ToSet(q[2]) = {}
      /\ ToSet(q[0]) \cap ToSet(q[3]) = {}
      /\ ToSet(q[1]) \cap ToSet(q[2]) = {}
      /\ ToSet(q[1]) \cap ToSet(q[3]) = {}
      /\ ToSet(q[2]) \cap ToSet(q[3]) = {}
  BY <1>1, <1>3
<1> DEFINE u == q[1] \o q[2]
<1>6. u \in Seq(Task) /\ ToSet(u) = ToSet(q[1]) \cup ToSet(q[2]) /\ IsInjective(u)
  <2>1. /\ q[1] \in Seq(Task) /\ IsInjective(q[1])
        /\ q[2] \in Seq(Task) /\ IsInjective(q[2])
    BY <1>1, <1>2
  <2> QED
    BY <1>5, <2>1, ConcatMembers
<1>7. r[1] = u \o q[3]
  BY <1>4
<1> HIDE DEF u
<1>8. /\ r[1] \in Seq(Task) /\ IsInjective(r[1])
      /\ ToSet(r[1]) = ToSet(q[1]) \cup ToSet(q[2]) \cup ToSet(q[3])
  <2>1. ToSet(u) \cap ToSet(q[3]) = {}
    BY <1>5, <1>6
  <2>2. q[3] \in Seq(Task) /\ IsInjective(q[3])
    BY <1>1, <1>2
  <2> QED
    BY <1>6, <1>7, <2>1, <2>2, ConcatMembers
<1>9. \A l \in Levels : l # 0 /\ l # 1 =>
        r[l] \in Seq(Task) /\ ToSet(r[l]) = {} /\ IsInjective(r[l])
  BY <1>4, EmptyMembers
<1>10. r[0] \in Seq(Task) /\ ToSet(r[0]) = ToSet(q[0]) /\ IsInjective(r[0])
  BY <1>1, <1>2, <1>4
<1>11. r \in Queues
  <2>1. \A l \in Levels : r[l] \in Seq(Task)
    BY <1>1, <1>8, <1>9, <1>10
  <2> QED
    BY <1>4, <2>1, Zenon DEF Queues
<1>12. NoneTwice(r)
  <2>1. \A l \in Levels : IsInjective(r[l])
    BY <1>1, <1>8, <1>9, <1>10
  <2>2. ToSet(r[0]) \cap ToSet(r[1]) = {}
    BY <1>8, <1>10, <1>5
  <2>3. ASSUME NEW l \in Levels, NEW m \in Levels, l # m
        PROVE  ToSet(r[l]) \cap ToSet(r[m]) = {}
    <3>1. CASE (l # 0 /\ l # 1) \/ (m # 0 /\ m # 1)
      BY <1>9, <3>1
    <3>2. CASE (l = 0 \/ l = 1) /\ (m = 0 \/ m = 1)
      BY <2>2, <2>3, <3>2
    <3> QED
      BY <3>1, <3>2
  <2> QED
    BY <2>1, <2>3 DEF NoneTwice
<1>13. \A x : x \in Queued(r) <=> x \in Queued(q)
  BY <1>1, <1>8, <1>9, <1>10, QueuedAt
<1> QED
  BY <1>11, <1>12, <1>13 DEF q, r

\* The ready tasks are the queued ones.
LEMMA ReadyIsQueued == Ready = Queued(queue)
BY DEF Ready, Queued

\* If a task is ready, some level is the first with one.
LEMMA BestExists ==
  ASSUME queue \in Queues, Ready # {}
  PROVE  Best \in Levels /\ queue[Best] # <<>>
<1>1. /\ 0 \in Levels /\ 1 \in Levels /\ 2 \in Levels /\ 3 \in Levels
      /\ \A l \in Levels : l = 0 \/ l = 1 \/ l = 2 \/ l = 3
  BY DEF Levels
<1>2. PICK k \in Levels : queue[k] # <<>>
  <2>1. PICK k \in Levels : ToSet(queue[k]) # {}
    BY DEF Ready
  <2> QED
    BY <2>1, EmptyMembers
<1>3. \E l \in Levels : queue[l] # <<>> /\ \A m \in 0..(l - 1) : queue[m] = <<>>
  <2>1. CASE queue[0] # <<>>
    BY <1>1, <2>1
  <2>2. CASE queue[0] = <<>> /\ queue[1] # <<>>
    <3>1. 0..(1 - 1) = {0}
      OBVIOUS
    <3> QED
      BY <1>1, <2>2, <3>1
  <2>3. CASE queue[0] = <<>> /\ queue[1] = <<>> /\ queue[2] # <<>>
    <3>1. 0..(2 - 1) = {0, 1}
      OBVIOUS
    <3> QED
      BY <1>1, <2>3, <3>1
  <2>4. CASE queue[0] = <<>> /\ queue[1] = <<>> /\ queue[2] = <<>>
    <3>1. queue[3] # <<>> /\ 0..(3 - 1) = {0, 1, 2}
      BY <1>1, <1>2, <2>4
    <3> QED
      BY <1>1, <2>4, <3>1
  <2> QED
    BY <2>1, <2>2, <2>3, <2>4
<1> QED
  BY <1>3, Zenon DEF Best

\* pickNext: the picked task leaves the queues; with none ready they stay.
LEMMA PickRemoves ==
  ASSUME queue \in Queues, NoneTwice(queue)
  PROVE  /\ Popped \in Queues /\ NoneTwice(Popped)
         /\ Ready = {} => Picked = Idle /\ Queued(Popped) = {}
         /\ Ready # {} => Picked \in Ready /\ Queued(Popped) = Ready \ {Picked}
<1>1. CASE Ready = {}
  BY <1>1, ReadyIsQueued DEF Picked, Popped
<1>2. CASE Ready # {}
  <2>1. Best \in Levels /\ queue[Best] # <<>>
    BY <1>2, BestExists
  <2>2. Picked = Head(queue[Best]) /\ Popped = [queue EXCEPT ![Best] = Tail(@)]
    BY <1>2 DEF Picked, Popped
  <2> QED
    BY <1>2, <2>1, <2>2, TailRemoves, ReadyIsQueued
<1> QED
  BY <1>1, <1>2

-----------------------------------------------------------------------------
(***************************************************************************)
(* The invariant: a task is at one place of one queue, or on one CPU, or   *)
(* blocked.                                                                *)
(***************************************************************************)

TypeOK ==
  /\ current \in [Cpu -> Task \cup {Idle}] /\ resched \in [Cpu -> BOOLEAN]
  /\ queue \in Queues /\ level \in [Task -> Levels]
  /\ quantum \in [Task -> Nat] /\ sinceBoost \in Nat

\* A CPU's task is in no queue and on no other CPU.
OnOneCpu ==
  \A c \in Cpu : current[c] # Idle =>
    /\ current[c] \notin Ready
    /\ \A d \in Cpu : current[d] = current[c] => d = c

OnePlace == NoneTwice(queue) /\ OnOneCpu

IInv == TypeOK /\ OnePlace

\* Initially every task is queued at its own level.
LEMMA InitPlaces ==
  ASSUME Init, MlfqAssumption
  PROVE  IInv
<1> DEFINE At(l) == {t \in Task : level[t] = l}
<1>1. level \in [Task -> Levels]
  BY DEF Init, Levels
<1>2. /\ current \in [Cpu -> Task \cup {Idle}] /\ resched \in [Cpu -> BOOLEAN]
      /\ sinceBoost \in Nat /\ \A c \in Cpu : current[c] = Idle
  BY DEF Init
<1>3. quantum \in [Task -> Nat]
  BY <1>1 DEF Init, MlfqAssumption
<1>4. queue = [l \in Levels |-> SetToSeq(At(l))]
  BY Zenon DEF Init
<1>5. ASSUME NEW l \in Levels
      PROVE  /\ queue[l] \in Seq(Task) /\ IsInjective(queue[l])
             /\ ToSet(queue[l]) \subseteq At(l)
  <2>1. IsFiniteSet(At(l)) /\ At(l) \subseteq Task
    BY FS_Subset DEF MlfqAssumption
  <2>2. queue[l] = SetToSeq(At(l))
    BY <1>4
  <2> HIDE DEF At
  <2>3. queue[l] \in Seq(At(l)) /\ IsInjective(queue[l])
    BY <2>1, <2>2, OrderMembers
  <2>4. queue[l] \in Seq(Task)
    BY <2>1, <2>3, SeqMonotonic
  <2> QED
    BY <2>3, <2>4, Members
<1>6. queue \in Queues
  <2>1. queue = [l \in Levels |-> queue[l]]
    BY <1>4
  <2> QED
    BY <1>5, <2>1, Zenon DEF Queues
<1>7. NoneTwice(queue)
  <2>1. \A l, m \in Levels : l # m => At(l) \cap At(m) = {}
    OBVIOUS
  <2> HIDE DEF At
  <2> QED
    BY <1>5, <2>1 DEF NoneTwice
<1> QED
  BY <1>1, <1>2, <1>3, <1>6, <1>7 DEF IInv, TypeOK, OnePlace, OnOneCpu

\* enqueue keeps the level or lowers it.
LEMMA LevelAfterType ==
  ASSUME TypeOK, MlfqAssumption, NEW t \in Task
  PROVE  LevelAfter(t) \in Levels /\ QuantumAfter(t) \in Nat
<1>1. level[t] \in Levels /\ quantum[t] \in Nat
  BY DEF TypeOK
<1>2. Lower(level[t]) \in Levels
  BY <1>1 DEF Lower, Levels
<1>3. LevelAfter(t) \in Levels
  BY <1>1, <1>2 DEF LevelAfter
<1>4. Quantum[LevelAfter(t)] \in Nat
  BY <1>3 DEF MlfqAssumption
<1> QED
  BY <1>1, <1>3, <1>4 DEF QuantumAfter

-----------------------------------------------------------------------------
(***************************************************************************)
(* The steps, seen through what is queued and what runs.                   *)
(***************************************************************************)

\* CPU c took the picked task; its own is back in the queues or not.
Switched(c, back) ==
  /\ queue' \in Queues /\ NoneTwice(queue')
  /\ current' = [current EXCEPT ![c] = Picked]
  /\ Ready = {} => Picked = Idle /\ Ready' = back
  /\ Ready # {} => Picked \in Ready /\ Ready' = (Ready \ {Picked}) \cup back

\* The blocking thread is queued nowhere.
LEMMA BlockSwitches ==
  ASSUME IInv, NEW c \in Cpu, Block(c)
  PROVE  Switched(c, {})
<1>1. queue \in Queues /\ NoneTwice(queue)
  BY DEF IInv, TypeOK, OnePlace
<1>2. queue' = Popped /\ current' = [current EXCEPT ![c] = Picked] /\ Ready' = Queued(queue')
  BY ReadyIsQueued DEF Block, Ready, Queued
<1> QED
  BY <1>1, <1>2, PickRemoves DEF Switched

\* The preempted or yielding thread is queued, the idle task is not.
LEMMA RescheduleSwitches ==
  ASSUME IInv, MlfqAssumption, NEW c \in Cpu, Reschedule(c)
  PROVE  Switched(c, {current[c]} \ {Idle})
<1> DEFINE t == current[c]
<1>1. queue \in Queues /\ NoneTwice(queue)
  BY DEF IInv, TypeOK, OnePlace
<1>2. current' = [current EXCEPT ![c] = Picked] /\ Ready' = Queued(queue')
  BY DEF Reschedule, Ready, Queued
<1>3. CASE t = Idle
  <2>1. queue' = Popped
    BY <1>3 DEF Reschedule
  <2> QED
    BY <1>1, <1>2, <1>3, <2>1, PickRemoves DEF Switched
<1>4. CASE t # Idle
  <2>1. t \in Task /\ t \notin Ready
    BY <1>4 DEF IInv, TypeOK, OnePlace, OnOneCpu
  <2>2. LevelAfter(t) \in Levels
    BY <2>1, LevelAfterType DEF IInv
  <2>3. queue' = [Popped EXCEPT ![LevelAfter(t)] = Append(@, t)]
    BY <1>4 DEF Reschedule
  <2>4. t \notin Queued(Popped)
    BY <1>1, <2>1, PickRemoves
  <2>5. Popped \in Queues /\ NoneTwice(Popped)
    BY <1>1, PickRemoves
  <2> HIDE DEF t
  <2>6. queue' \in Queues /\ NoneTwice(queue') /\ Queued(queue') = Queued(Popped) \cup {t}
    BY <2>1, <2>2, <2>3, <2>4, <2>5, EnqueueAdds
  <2>7. {t} \ {Idle} = {t}
    BY <1>4
  <2>8. Switched(c, {t} \ {Idle})
    BY <1>1, <1>2, <2>6, <2>7, PickRemoves DEF Switched
  <2> QED
    BY <2>8 DEF t
<1> QED
  BY <1>3, <1>4

\* The woken thread is queued at its level.
LEMMA WakeAdds ==
  ASSUME IInv, NEW c \in Cpu, NEW t \in Task, Wake(c, t)
  PROVE  /\ queue' \in Queues /\ NoneTwice(queue')
         /\ t \notin Ready /\ t \notin Running
         /\ Ready' = Ready \cup {t} /\ current' = current
<1>1. queue \in Queues /\ NoneTwice(queue) /\ level[t] \in Levels
  BY DEF IInv, TypeOK, OnePlace
<1>2. t \notin Ready /\ t \notin Running /\ current' = current
  BY DEF Wake, Blocked
<1>3. queue' = [queue EXCEPT ![level[t]] = Append(@, t)] /\ Ready' = Queued(queue')
  BY DEF Wake, Ready, Queued
<1> QED
  BY <1>1, <1>2, <1>3, EnqueueAdds, ReadyIsQueued

\* A tick moves tasks between levels at most.
LEMMA TickKeeps ==
  ASSUME IInv, NEW c \in Cpu, Tick(c)
  PROVE  /\ queue' \in Queues /\ NoneTwice(queue')
         /\ Ready' = Ready /\ current' = current
<1>1. queue \in Queues /\ NoneTwice(queue)
  BY DEF IInv, TypeOK, OnePlace
<1>2. queue' = BoostedQueue \/ queue' = queue
  BY DEF Tick
<1>3. current' = current /\ Ready' = Queued(queue')
  BY DEF Tick, Ready, Queued
<1> QED
  BY <1>1, <1>2, <1>3, BoostKeeps, ReadyIsQueued

\* A switch leaves every task in one place.
LEMMA SwitchedPlaces ==
  ASSUME IInv, NEW c \in Cpu, NEW back \in SUBSET ({current[c]} \ {Idle}), Switched(c, back)
  PROVE  OnePlace' /\ current' \in [Cpu -> Task \cup {Idle}]
<1>1. Ready \subseteq Task /\ current \in [Cpu -> Task \cup {Idle}]
  BY QueuedTasks, ReadyIsQueued DEF IInv, TypeOK
<1>2. Picked \in Task \cup {Idle}
  BY <1>1 DEF Switched
<1>3. current'[c] = Picked /\ \A d \in Cpu : d # c => current'[d] = current[d]
  BY <1>1 DEF Switched
<1>4. \A d \in Cpu : current[d] # Idle =>
        current[d] \notin Ready /\ \A e \in Cpu : current[e] = current[d] => e = d
  BY DEF IInv, OnePlace, OnOneCpu
<1>5. ASSUME NEW d \in Cpu, current'[d] # Idle
      PROVE  /\ current'[d] \notin Ready'
             /\ \A e \in Cpu : current'[e] = current'[d] => e = d
  <2>1. CASE d = c
    <3>1. Picked # Idle /\ Picked \in Ready /\ Ready' = (Ready \ {Picked}) \cup back
      BY <1>3, <1>5, <2>1 DEF Switched
    <3>2. Picked \notin back
      BY <1>4, <3>1
    <3>3. \A e \in Cpu : e # c => current[e] # Picked
      BY <1>4, <3>1
    <3> QED
      BY <1>3, <2>1, <3>1, <3>2, <3>3
  <2>2. CASE d # c
    <3>1. current'[d] = current[d] /\ current[d] \notin Ready /\ current[d] # current[c]
      BY <1>3, <1>4, <1>5, <2>2
    <3>2. current[d] \notin Ready'
      BY <3>1 DEF Switched
    <3>3. Picked # current[d]
      BY <1>3, <1>5, <3>1 DEF Switched
    <3> QED
      BY <1>3, <1>4, <1>5, <3>1, <3>2, <3>3
  <2> QED
    BY <2>1, <2>2
<1>6. current' \in [Cpu -> Task \cup {Idle}]
  BY <1>1, <1>2 DEF Switched
<1> QED
  BY <1>5, <1>6 DEF OnePlace, OnOneCpu, Switched

\* A switch here is a switch of the abstract dispatcher.
LEMMA SwitchedRefines ==
  ASSUME NEW c \in Cpu, NEW back \in SUBSET ({current[c]} \ {Idle}), Switched(c, back)
  PROVE  Dispatcher!Next
<1>1. {} \in SUBSET Dispatcher!Outside /\ Ready \cup {} = Ready
  OBVIOUS
<1>2. CASE Ready = {}
  BY <1>1, <1>2 DEF Switched, Dispatcher!Next, Dispatcher!Switch
<1>3. CASE Ready # {}
  BY <1>1, <1>3 DEF Switched, Dispatcher!Next, Dispatcher!Switch
<1> QED
  BY <1>2, <1>3

-----------------------------------------------------------------------------
(***************************************************************************)
(* The theorems.                                                           *)
(***************************************************************************)

\* Every step keeps the invariant and is a step of the abstract dispatcher or
\* leaves what it sees alone.
LEMMA Steps ==
  ASSUME MlfqAssumption, IInv, [Next]_vars
  PROVE  IInv' /\ [Dispatcher!Next]_(Dispatcher!dispatchVars)
<1> SUFFICES /\ TypeOK' /\ OnePlace'
             /\ Dispatcher!Next \/ (Ready' = Ready /\ current' = current)
  BY DEF IInv, Dispatcher!dispatchVars
<1> DEFINE Goal == /\ TypeOK' /\ OnePlace'
                   /\ Dispatcher!Next \/ (Ready' = Ready /\ current' = current)
<1>1. TypeOK
  BY DEF IInv
<1>2. ASSUME NEW c \in Cpu, Tick(c) PROVE Goal
  <2>1. queue' \in Queues /\ NoneTwice(queue') /\ Ready' = Ready /\ current' = current
    BY <1>2, TickKeeps
  <2>2. /\ level' \in [Task -> Levels] /\ quantum' \in [Task -> Nat]
        /\ resched' \in [Cpu -> BOOLEAN] /\ sinceBoost' \in Nat
    <3>1. 1 \in Levels /\ Quantum[1] \in Nat
      BY DEF MlfqAssumption, Levels
    <3>2. level' \in [Task -> Levels]
      BY <1>1, <1>2, <3>1 DEF Tick, TypeOK
    <3>3. quantum' \in [Task -> Nat]
      BY <1>1, <1>2, <3>1 DEF Tick, TypeOK
    <3>4. resched' \in [Cpu -> BOOLEAN]
      BY <1>1, <1>2 DEF Tick, TypeOK
    <3>5. sinceBoost' \in Nat
      BY <1>1, <1>2 DEF Tick, TypeOK, MlfqAssumption
    <3> QED
      BY <3>2, <3>3, <3>4, <3>5
  <2>3. OnePlace'
    BY <2>1 DEF IInv, OnePlace, OnOneCpu
  <2> QED
    BY <1>1, <2>1, <2>2, <2>3 DEF TypeOK
<1>3. ASSUME NEW c \in Cpu, Reschedule(c),
             resched' \in [Cpu -> BOOLEAN], sinceBoost' = sinceBoost
      PROVE  Goal
  <2>1. Switched(c, {current[c]} \ {Idle})
    BY <1>3, RescheduleSwitches
  <2>2. OnePlace' /\ current' \in [Cpu -> Task \cup {Idle}] /\ Dispatcher!Next
    BY <2>1, SwitchedPlaces, SwitchedRefines
  <2>3. level' \in [Task -> Levels] /\ quantum' \in [Task -> Nat]
    <3>1. CASE current[c] = Idle
      BY <1>1, <1>3, <3>1 DEF Reschedule, TypeOK
    <3>2. CASE current[c] # Idle
      <4>1. current[c] \in Task
        BY <1>1, <3>2 DEF TypeOK
      <4>2. LevelAfter(current[c]) \in Levels /\ QuantumAfter(current[c]) \in Nat
        BY <1>1, <4>1, LevelAfterType
      <4>3. /\ level' = [level EXCEPT ![current[c]] = LevelAfter(current[c])]
            /\ quantum' = [quantum EXCEPT ![current[c]] = QuantumAfter(current[c])]
        BY <1>3, <3>2 DEF Reschedule
      <4> QED
        BY <1>1, <4>2, <4>3 DEF TypeOK
    <3> QED
      BY <3>1, <3>2
  <2>4. queue' \in Queues
    BY <2>1 DEF Switched
  <2>5. TypeOK'
    <3>1. sinceBoost' \in Nat
      BY <1>1, <1>3 DEF TypeOK
    <3> QED
      BY <1>3, <2>2, <2>3, <2>4, <3>1, Zenon DEF TypeOK
  <2> QED
    BY <2>2, <2>5
<1>4. ASSUME NEW c \in Cpu, Yield(c) PROVE Goal
  BY <1>1, <1>3, <1>4 DEF Yield, TypeOK
<1>5. ASSUME NEW c \in Cpu, PreemptIfNeeded(c) PROVE Goal
  <2>1. resched' \in [Cpu -> BOOLEAN] /\ sinceBoost' = sinceBoost /\ Reschedule(c)
    BY <1>1, <1>5 DEF PreemptIfNeeded, TypeOK
  <2> QED
    BY <1>3, <2>1
<1>6. ASSUME NEW c \in Cpu, Block(c) PROVE Goal
  <2>1. Switched(c, {})
    BY <1>6, BlockSwitches
  <2>2. OnePlace' /\ current' \in [Cpu -> Task \cup {Idle}] /\ Dispatcher!Next
    BY <2>1, SwitchedPlaces, SwitchedRefines
  <2> QED
    BY <1>1, <1>6, <2>1, <2>2 DEF Block, TypeOK, Switched
<1>7. ASSUME NEW c \in Cpu, NEW t \in Task, Wake(c, t) PROVE Goal
  <2>1. /\ queue' \in Queues /\ NoneTwice(queue')
        /\ t \notin Ready /\ t \notin Running
        /\ Ready' = Ready \cup {t} /\ current' = current
    BY <1>7, WakeAdds
  <2>2. \A d \in Cpu : current[d] # t
    BY <2>1 DEF Running, MlfqAssumption
  <2>3. OnePlace'
    BY <2>1, <2>2 DEF IInv, OnePlace, OnOneCpu
  <2>4. TypeOK'
    BY <1>1, <1>7, <2>1 DEF Wake, TypeOK
  <2>5. {t} \in SUBSET Dispatcher!Outside
    BY <2>1, <2>2 DEF Dispatcher!Outside
  <2>6. Dispatcher!Next
    BY <2>1, <2>5 DEF Dispatcher!Next, Dispatcher!Admit
  <2> QED
    BY <2>3, <2>4, <2>6
<1>8. CASE UNCHANGED vars
  BY <1>1, <1>8 DEF vars, TypeOK, IInv, OnePlace, OnOneCpu, Ready
<1> QED
  BY <1>2, <1>4, <1>5, <1>6, <1>7, <1>8 DEF Next

\* Every task is at one place of one queue, on one CPU, or blocked (enqueue,
\* pickNext, boostAll, wakeChannel).
THEOREM OnePlaceAlways == Spec => []IInv
<1>1. Init => IInv
  BY InitPlaces, MlfqAssumption
<1>2. IInv /\ [Next]_vars => IInv'
  BY Steps, MlfqAssumption
<1> QED
  BY <1>1, <1>2, PTL DEF Spec

\* The queues implement the abstract dispatcher: queueing, demotion and boosts
\* neither lose, duplicate nor run twice a task (pickNext, enqueue, boostAll).
THEOREM QueuesRefine == Spec => Refines
<1>1. Init => Dispatcher!Init
  <2>1. ASSUME Init PROVE Ready \subseteq Task
    BY <2>1, InitPlaces, MlfqAssumption, QueuedTasks, ReadyIsQueued DEF IInv, TypeOK
  <2> QED
    BY <2>1 DEF Init, Dispatcher!Init
<1>2. IInv /\ [Next]_vars => [Dispatcher!Next]_(Dispatcher!dispatchVars)
  BY Steps, MlfqAssumption
<1> QED
  BY <1>1, <1>2, OnePlaceAlways, PTL DEF Spec, Refines, Dispatcher!Spec
=============================================================================
