---------------------------- MODULE VolumeProofs ----------------------------
(***************************************************************************)
(* Proofs about Volume: whatever order saves, changes, faults of the disk  *)
(* and power failures come in, loading the volume never loses a change an  *)
(* fsync has returned for, however many there are and whatever the files.  *)
(***************************************************************************)
EXTENDS Volume, TLAPS

-----------------------------------------------------------------------------
(* The inductive invariant, of the disk d, the volume v and the saver s.   *)

Payload == [version : Int, files : Tree \cup {{}}]
Header == [generation : Nat, payload : Payload]
BlockOf(Value) == [may : SUBSET Value, latest : SUBSET Value]
Stages == {"payload", "settle", "header", "finish"}

Disk == [Slots -> [header : BlockOf(Header), payload : BlockOf(Payload)]]
VolumeRec ==
  [dirty : BOOLEAN, generation : Nat, newest : Slots, version : Nat, last : Nat, promised : Nat, boots : Nat]
Saver == [who : Int, stage : Stages, snapshot : Payload]
Typed(d, v, s) == d \in Disk /\ v \in VolumeRec /\ s \in Saver

\* Nothing to save, and nobody saving.
Clean(v, s) == ~v.dirty /\ s.who = Nobody

\* No version is newer than the last change, an fsync promises no more than
\* there is, and a save writes at least what was promised.
Versions(d, v, s) ==
  /\ v.promised <= v.version /\ v.version <= v.last
  /\ \A t \in Slots : \A p \in d[t].payload.may : p.version <= v.last
  /\ s.who # Nobody => /\ v.promised <= s.snapshot.version /\ s.snapshot.version <= v.version
                       /\ ~v.dirty => s.snapshot.version = v.version

\* Writing the cache out leaves what the disk may hold already.
Cached(d) ==
  \A t \in Slots : /\ d[t].header.latest \subseteq d[t].header.may
                   /\ d[t].payload.latest \subseteq d[t].payload.may

\* A slot whose save is on stable storage.
Holds(slot, generation, p) ==
  slot.header = Block([generation |-> generation, payload |-> p]) /\ slot.payload = Block(p)

\* The newest save is whole whatever the cache holds, and is no older than what
\* was promised, nor than the files if nothing is to be saved.
NewestHolds(d, v, s) ==
  /\ v.generation = 0 => /\ \A h \in d[1].header.may : h.generation = 0
                         /\ v.promised = 0 /\ (Clean(v, s) => v.version = 0)
  /\ v.generation # 0 =>
       \E p \in d[v.newest].payload.may :
         /\ Holds(d[v.newest], v.generation, p)
         /\ p.version >= v.promised
         /\ Clean(v, s) => p.version = v.version

\* The slot the next save goes to.
Target(v) == IF v.generation = 0 THEN 0 ELSE 1 - v.newest

\* Its header may be of an attempt that failed; if its payload may then be
\* whole, it is no older than what was promised.
Attempts(d, v, s) ==
  \A h \in d[Target(v)].header.may :
    /\ h.generation <= v.generation + 1 /\ (v.generation > 0 => h.generation # v.generation)
    /\ h.generation > 0 => h.payload # Damaged
    /\ h.generation > v.generation /\ h.payload \in d[Target(v)].payload.may
         => h.payload.version >= v.promised /\ ~Clean(v, s)

\* How far a save is.
Reached(slot, generation, stage, snapshot) ==
  /\ stage = "settle" => slot.payload.latest = {snapshot}
  /\ stage \in {"header", "finish"} => slot.payload = Block(snapshot)
  /\ stage = "finish" => slot.header.latest = {[generation |-> generation + 1, payload |-> snapshot]}
Progress(d, v, s) == s.who # Nobody => Reached(d[Target(v)], v.generation, s.stage, s.snapshot)

Sound(d, v, s) ==
  /\ Versions(d, v, s) /\ Cached(d) /\ NewestHolds(d, v, s) /\ Attempts(d, v, s) /\ Progress(d, v, s)
Good(d, v, s) == Typed(d, v, s) /\ Sound(d, v, s)

-----------------------------------------------------------------------------
(* Blocks, flushes and loading.                                            *)

LEMMA BlockIs ==
  ASSUME NEW x
  PROVE  /\ Block(x).may = {x} /\ Block(x).latest = {x}
         /\ \A V : x \in V => Block(x) \in BlockOf(V)
BY DEF Block, BlockOf

\* A slot that holds a save has its payload on disk.
LEMMA HoldsPayload ==
  ASSUME NEW slot, NEW g, NEW p, Holds(slot, g, p)
  PROVE  p \in slot.payload.may
<1>1. slot.payload = Block(p)
  BY Zenon DEF Holds
<1> QED BY <1>1, BlockIs

LEMMA Written ==
  ASSUME NEW V, NEW b \in BlockOf(V), NEW x \in V, NEW y \in V, NEW ok \in BOOLEAN,
         NEW c, c = writeBlock(b, x, y, ok)
  PROVE  /\ c \in BlockOf(V) /\ c.may = b.may \cup {x, y}
         /\ c.latest \subseteq c.may /\ (ok => c.latest = {x})
<1>1. CASE ok
  <2>1. c = [may |-> b.may \cup {x, y}, latest |-> {x}]
    BY <1>1, Zenon DEF writeBlock
  <2>2. c.may = b.may \cup {x, y} /\ c.latest = {x}
    BY <2>1
  <2>3. b.may \in SUBSET V
    BY DEF BlockOf
  <2> QED BY <1>1, <2>1, <2>2, <2>3 DEF BlockOf
<1>2. CASE ~ok
  <2>1. c = [may |-> b.may \cup {x, y}, latest |-> b.may \cup {x, y}]
    BY <1>2 DEF writeBlock
  <2> QED BY <1>2, <2>1 DEF BlockOf
<1> QED BY <1>1, <1>2

LEMMA Flushed ==
  ASSUME NEW V, NEW b \in BlockOf(V), b.latest \subseteq b.may, NEW ok \in BOOLEAN,
         NEW c, c = flushBlock(b, ok)
  PROVE  /\ c \in BlockOf(V) /\ c.may \subseteq b.may /\ c.latest \subseteq c.may
         /\ ok => c = [may |-> b.latest, latest |-> b.latest]
         /\ \A x : b = Block(x) => c = Block(x)
<1>1. CASE ok
  <2>1. c = [b EXCEPT !.may = b.latest]
    BY <1>1 DEF flushBlock
  <2>2. c = [may |-> b.latest, latest |-> b.latest]
    BY <2>1 DEF BlockOf
  <2> QED BY <2>2 DEF BlockOf, Block
<1>2. CASE ~ok
  <2>1. c = [b EXCEPT !.latest = b.may]
    BY <1>2 DEF flushBlock
  <2>2. c = [may |-> b.may, latest |-> b.may]
    BY <2>1 DEF BlockOf
  <2> QED BY <1>2, <2>2 DEF BlockOf, Block
<1> QED BY <1>1, <1>2

LEMMA SlotTypes ==
  ASSUME NEW d \in Disk, NEW t \in Slots
  PROVE  /\ d[t] \in [header : BlockOf(Header), payload : BlockOf(Payload)]
         /\ d[t].header \in BlockOf(Header) /\ d[t].payload \in BlockOf(Payload)
         /\ d[t].header.may \subseteq Header /\ d[t].payload.may \subseteq Payload
BY DEF Disk, BlockOf

LEMMA DiskFlushed ==
  ASSUME NEW d \in Disk, Cached(d), NEW ok \in BOOLEAN, NEW e, e = flush(d, ok)
  PROVE  /\ e \in Disk /\ Cached(e)
         /\ \A t \in Slots : /\ e[t].header = flushBlock(d[t].header, ok)
                             /\ e[t].payload = flushBlock(d[t].payload, ok)
                             /\ e[t].header.may \subseteq d[t].header.may
                             /\ e[t].payload.may \subseteq d[t].payload.may
                             /\ \A g, p : Holds(d[t], g, p) => Holds(e[t], g, p)
<1>1. \A t \in Slots :
        e[t] = [header |-> flushBlock(d[t].header, ok), payload |-> flushBlock(d[t].payload, ok)]
  BY Zenon DEF flush
<1>3. ASSUME NEW t \in Slots
      PROVE  /\ e[t] \in [header : BlockOf(Header), payload : BlockOf(Payload)]
             /\ e[t].header = flushBlock(d[t].header, ok)
             /\ e[t].payload = flushBlock(d[t].payload, ok)
             /\ e[t].header.may \subseteq d[t].header.may
             /\ e[t].payload.may \subseteq d[t].payload.may
             /\ e[t].header.latest \subseteq e[t].header.may
             /\ e[t].payload.latest \subseteq e[t].payload.may
             /\ \A x : d[t].header = Block(x) => e[t].header = Block(x)
             /\ \A x : d[t].payload = Block(x) => e[t].payload = Block(x)
  <2>1. /\ d[t].header \in BlockOf(Header) /\ d[t].payload \in BlockOf(Payload)
        /\ d[t].header.latest \subseteq d[t].header.may
        /\ d[t].payload.latest \subseteq d[t].payload.may
    BY SlotTypes DEF Cached
  <2>2. PICK h, p : h = flushBlock(d[t].header, ok) /\ p = flushBlock(d[t].payload, ok)
    OBVIOUS
  <2>3. /\ h \in BlockOf(Header) /\ h.may \subseteq d[t].header.may /\ h.latest \subseteq h.may
        /\ \A x : d[t].header = Block(x) => h = Block(x)
    BY <2>1, <2>2, Flushed
  <2>4. /\ p \in BlockOf(Payload) /\ p.may \subseteq d[t].payload.may /\ p.latest \subseteq p.may
        /\ \A x : d[t].payload = Block(x) => p = Block(x)
    BY <2>1, <2>2, Flushed
  <2>5. e[t] = [header |-> h, payload |-> p]
    BY <1>1, <2>2, Zenon
  <2>6. e[t].header = h /\ e[t].payload = p
    BY <2>5
  <2>7. e[t] \in [header : BlockOf(Header), payload : BlockOf(Payload)]
    BY <2>3, <2>4, <2>5
  <2> QED BY <2>2, <2>3, <2>4, <2>6, <2>7
<1>4. e \in Disk
  <2>1. e = [t \in Slots |-> [header |-> flushBlock(d[t].header, ok),
                              payload |-> flushBlock(d[t].payload, ok)]]
    BY Zenon DEF flush
  <2>2. DOMAIN e = Slots /\ e = [t \in Slots |-> e[t]]
    BY <2>1, Zenon
  <2>3. \A t \in Slots : e[t] \in [header : BlockOf(Header), payload : BlockOf(Payload)]
    BY <1>3
  <2> QED BY <2>2, <2>3, Zenon DEF Disk
<1> QED BY <1>3, <1>4 DEF Cached, Holds

-----------------------------------------------------------------------------
(* What each step does, with d, v and s the disk, the volume and the saver.*)

LEMMA Fields ==
  ASSUME NEW v \in VolumeRec
  PROVE  /\ v.dirty \in BOOLEAN /\ v.generation \in Nat /\ v.newest \in {0, 1} /\ v.version \in Nat
         /\ v.last \in Nat /\ v.promised \in Nat /\ Target(v) \in {0, 1}
         /\ v.generation > 0 => v.newest = 1 - Target(v)
         /\ v.generation = 0 => Target(v) = 0
<1>1. Slots = {0, 1}
  BY DEF Slots
<1>2. v.generation \in Nat /\ v.newest \in {0, 1}
  BY <1>1 DEF VolumeRec
<1>3. v.dirty \in BOOLEAN /\ v.version \in Nat /\ v.last \in Nat /\ v.promised \in Nat
  BY DEF VolumeRec
<1> QED BY <1>2, <1>3 DEF Target

LEMMA SaverFields ==
  ASSUME NEW s \in Saver
  PROVE  s.who \in Int /\ s.stage \in Stages /\ s.snapshot \in Payload /\ s.snapshot.version \in Int
BY DEF Saver, Payload

\* A call changes a file.
LEMMA ChangesKeep ==
  ASSUME NEW d, NEW v, NEW s, Good(d, v, s),
         NEW w, w = [v EXCEPT !.dirty = TRUE, !.last = @ + 1, !.version = v.last + 1]
  PROVE  Good(d, w, s)
<1>1. d \in Disk /\ v \in VolumeRec /\ s \in Saver
  BY DEF Good, Typed
<1>2. /\ w \in VolumeRec /\ w.dirty = TRUE /\ w.generation = v.generation /\ w.newest = v.newest
      /\ w.promised = v.promised /\ w.last = v.last + 1 /\ w.version = v.last + 1
  <2>1. v.last \in Nat /\ v.last + 1 \in Nat
    BY <1>1, Fields
  <2>2. w = [v EXCEPT !.dirty = TRUE, !.last = v.last + 1, !.version = v.last + 1]
    OBVIOUS
  <2> QED BY <1>1, <2>1, <2>2 DEF VolumeRec
<1>3. Target(w) = Target(v) /\ ~Clean(w, s)
  BY <1>2 DEF Target, Clean
<1>4. Versions(d, w, s)
  <2>1. Versions(d, v, s)
    BY DEF Good, Sound
  <2>2. \A t \in Slots : \A p \in d[t].payload.may : p.version \in Int
    BY <1>1, SlotTypes DEF Payload
  <2> QED BY <1>1, <1>2, <2>1, <2>2, Fields, SaverFields DEF Versions
<1>5. NewestHolds(d, w, s)
  <2>1. NewestHolds(d, v, s)
    BY DEF Good, Sound
  <2> QED BY <1>2, <1>3, <2>1 DEF NewestHolds
<1>6. Attempts(d, w, s)
  <2>1. Attempts(d, v, s)
    BY DEF Good, Sound
  <2> QED BY <1>2, <1>3, <2>1 DEF Attempts
<1>7. Progress(d, w, s)
  <2>1. Progress(d, v, s)
    BY DEF Good, Sound
  <2> QED BY <1>2, <1>3, <2>1 DEF Progress
<1> QED BY <1>1, <1>2, <1>4, <1>5, <1>6, <1>7 DEF Good, Typed, Sound

\* A save takes its snapshot.
LEMMA SaveBeginsKeeps ==
  ASSUME NEW d, NEW v, NEW s, Good(d, v, s), s.who = Nobody, v.dirty,
         NEW who \in Writer, NEW files \in Tree,
         NEW u, u = [who |-> who, stage |-> "payload",
                     snapshot |-> [version |-> v.version, files |-> files]],
         NEW w, w = [v EXCEPT !.dirty = FALSE]
  PROVE  Good(d, w, u)
<1>1. d \in Disk /\ v \in VolumeRec /\ s \in Saver
  BY DEF Good, Typed
<1>2. /\ w \in VolumeRec /\ w.generation = v.generation /\ w.newest = v.newest
      /\ w.promised = v.promised /\ w.last = v.last /\ w.version = v.version
  BY <1>1 DEF VolumeRec
<1>3. /\ u.who = who /\ u.stage = "payload" /\ u.snapshot.version = v.version /\ u.who # Nobody
      /\ u \in Saver
  <2>1. [version |-> v.version, files |-> files] \in Payload
    BY <1>1, Fields DEF Payload
  <2>2. who \in Int /\ who # Nobody
    BY DEF Writer, Service, Nobody
  <2> QED BY <2>1, <2>2 DEF Saver, Stages
<1>4. Target(w) = Target(v) /\ ~Clean(v, s) /\ ~Clean(w, u)
  BY <1>2, <1>3 DEF Target, Clean
<1>5. Versions(d, w, u)
  <2>1. Versions(d, v, s)
    BY DEF Good, Sound
  <2> QED BY <1>1, <1>2, <1>3, <2>1, Fields DEF Versions
<1>6. NewestHolds(d, w, u)
  <2>1. NewestHolds(d, v, s)
    BY DEF Good, Sound
  <2> QED BY <1>2, <1>4, <2>1 DEF NewestHolds
<1>7. Attempts(d, w, u)
  <2>1. Attempts(d, v, s)
    BY DEF Good, Sound
  <2> QED BY <1>2, <1>4, <2>1 DEF Attempts
<1>8. Progress(d, w, u)
  BY <1>3 DEF Progress, Reached
<1> QED BY <1>1, <1>2, <1>3, <1>5, <1>6, <1>7, <1>8 DEF Good, Typed, Sound

\* An fsync finds nothing to save.
LEMMA NothingToSaveKeeps ==
  ASSUME NEW d, NEW v, NEW s, Good(d, v, s), s.who = Nobody, ~v.dirty,
         NEW w, w = [v EXCEPT !.promised = v.version]
  PROVE  Good(d, w, s)
<1>1. d \in Disk /\ v \in VolumeRec /\ s \in Saver
  BY DEF Good, Typed
<1>2. /\ w \in VolumeRec /\ w.generation = v.generation /\ w.newest = v.newest
      /\ w.promised = v.version /\ w.last = v.last /\ w.version = v.version /\ w.dirty = v.dirty
  BY <1>1 DEF VolumeRec
<1>3. Target(w) = Target(v) /\ Clean(v, s) /\ Clean(w, s)
  BY <1>2 DEF Target, Clean
<1>4. Versions(d, w, s)
  <2>1. Versions(d, v, s)
    BY DEF Good, Sound
  <2> QED BY <1>1, <1>2, <2>1, Fields DEF Versions
<1>5. NewestHolds(d, w, s)
  <2>1. NewestHolds(d, v, s)
    BY DEF Good, Sound
  <2>2. CASE v.generation = 0
    BY <1>2, <1>3, <2>1, <2>2 DEF NewestHolds
  <2>3. CASE v.generation # 0
    <3>1. PICK p \in d[v.newest].payload.may : /\ Holds(d[v.newest], v.generation, p)
                                               /\ p.version = v.version
      BY <1>3, <2>1, <2>3 DEF NewestHolds
    <3> QED BY <1>1, <1>2, <1>3, <2>3, <3>1, Fields DEF NewestHolds
  <2> QED BY <2>2, <2>3
<1>6. Attempts(d, w, s)
  <2>1. Attempts(d, v, s)
    BY DEF Good, Sound
  <2> QED BY <1>2, <1>3, <2>1 DEF Attempts
<1>7. Progress(d, w, s)
  BY DEF Progress
<1> QED BY <1>1, <1>2, <1>4, <1>5, <1>6, <1>7 DEF Good, Typed, Sound

-----------------------------------------------------------------------------
(* writeSave, a step at a time.                                            *)

\* What follows a step of it: the next step, or the end without the save.
Goes(v, s, ok, next, w, u) ==
  IF ok THEN u = [s EXCEPT !.stage = next] /\ w = v ELSE u = Idle /\ w = [v EXCEPT !.dirty = TRUE]

LEMMA Going ==
  ASSUME NEW v \in VolumeRec, NEW s \in Saver, s.who # Nobody, NEW ok \in BOOLEAN, NEW next \in Stages,
         NEW w, NEW u, Goes(v, s, ok, next, w, u)
  PROVE  /\ w \in VolumeRec /\ w.generation = v.generation /\ w.newest = v.newest
         /\ w.promised = v.promised /\ w.last = v.last /\ w.version = v.version
         /\ Target(w) = Target(v) /\ ~Clean(v, s) /\ ~Clean(w, u)
         /\ u \in Saver
         /\ ~ok => u.who = Nobody
         /\ ok => w = v /\ u.who = s.who /\ u.stage = next /\ u.snapshot = s.snapshot
<1>1. CASE ok
  <2>1. u = [s EXCEPT !.stage = next] /\ w = v
    BY <1>1 DEF Goes
  <2>2. u \in Saver /\ u.who = s.who /\ u.stage = next /\ u.snapshot = s.snapshot
    BY <2>1 DEF Saver
  <2> QED BY <1>1, <2>1, <2>2 DEF Clean
<1>2. CASE ~ok
  <2>1. u = Idle /\ w = [v EXCEPT !.dirty = TRUE]
    BY <1>2 DEF Goes
  <2>2. /\ w \in VolumeRec /\ w.generation = v.generation /\ w.newest = v.newest /\ w.dirty = TRUE
        /\ w.promised = v.promised /\ w.last = v.last /\ w.version = v.version
    BY <2>1 DEF VolumeRec
  <2>3. u \in Saver /\ u.who = Nobody
    BY <2>1 DEF Idle, EmptyVolume, Saver, Payload, Stages, Nobody
  <2>4. Target(w) = Target(v)
    BY <2>2 DEF Target
  <2> QED BY <1>2, <2>2, <2>3, <2>4 DEF Clean
<1> QED BY <1>1, <1>2

\* One block of one slot is written.
WrotePayload(d, t, x, ok, e) == e = [d EXCEPT ![t].payload = writeBlock(@, x, Damaged, ok)]
WroteHeader(d, t, x, ok, e) == e = [d EXCEPT ![t].header = writeBlock(@, x, NoHeader, ok)]

LEMMA SlotWritten ==
  ASSUME NEW d \in Disk, Cached(d), NEW t \in Slots, NEW ok \in BOOLEAN
  PROVE  /\ \A x \in Payload : \A e :
              WrotePayload(d, t, x, ok, e) =>
                /\ e \in Disk /\ Cached(e) /\ \A r \in Slots \ {t} : e[r] = d[r]
                /\ e[t].header = d[t].header
                /\ e[t].payload.may = d[t].payload.may \cup {x, Damaged}
                /\ ok => e[t].payload.latest = {x}
         /\ \A x \in Header : \A e :
              WroteHeader(d, t, x, ok, e) =>
                /\ e \in Disk /\ Cached(e) /\ \A r \in Slots \ {t} : e[r] = d[r]
                /\ e[t].payload = d[t].payload
                /\ e[t].header.may = d[t].header.may \cup {x, NoHeader}
                /\ ok => e[t].header.latest = {x}
<1>1. /\ d[t].header \in BlockOf(Header) /\ d[t].payload \in BlockOf(Payload)
      /\ d[t] \in [header : BlockOf(Header), payload : BlockOf(Payload)]
      /\ DOMAIN d = Slots /\ d \in [Slots -> [header : BlockOf(Header), payload : BlockOf(Payload)]]
  BY SlotTypes DEF Disk
<1>2. Damaged \in Payload /\ NoHeader \in Header
  BY DEF Damaged, NoHeader, Payload, Header
<1>3. ASSUME NEW x \in Payload, NEW e, WrotePayload(d, t, x, ok, e)
      PROVE  /\ e \in Disk /\ Cached(e) /\ \A r \in Slots \ {t} : e[r] = d[r]
             /\ e[t].header = d[t].header
             /\ e[t].payload.may = d[t].payload.may \cup {x, Damaged}
             /\ ok => e[t].payload.latest = {x}
  <2>1. PICK c : c = writeBlock(d[t].payload, x, Damaged, ok)
    OBVIOUS
  <2>2. /\ c \in BlockOf(Payload) /\ c.may = d[t].payload.may \cup {x, Damaged}
        /\ c.latest \subseteq c.may /\ (ok => c.latest = {x})
    BY <1>1, <1>2, <2>1, Written
  <2>3. e = [d EXCEPT ![t].payload = c]
    BY <1>3, <2>1, Zenon DEF WrotePayload
  <2>4. e \in Disk /\ (\A r \in Slots \ {t} : e[r] = d[r]) /\ e[t].header = d[t].header /\ e[t].payload = c
    BY <1>1, <2>2, <2>3 DEF Disk
  <2>5. Cached(e)
    BY <2>2, <2>4 DEF Cached
  <2> QED BY <2>2, <2>4, <2>5
<1>4. ASSUME NEW x \in Header, NEW e, WroteHeader(d, t, x, ok, e)
      PROVE  /\ e \in Disk /\ Cached(e) /\ \A r \in Slots \ {t} : e[r] = d[r]
             /\ e[t].payload = d[t].payload
             /\ e[t].header.may = d[t].header.may \cup {x, NoHeader}
             /\ ok => e[t].header.latest = {x}
  <2>1. PICK c : c = writeBlock(d[t].header, x, NoHeader, ok)
    OBVIOUS
  <2>2. /\ c \in BlockOf(Header) /\ c.may = d[t].header.may \cup {x, NoHeader}
        /\ c.latest \subseteq c.may /\ (ok => c.latest = {x})
    BY <1>1, <1>2, <2>1, Written
  <2>3. e = [d EXCEPT ![t].header = c]
    BY <1>4, <2>1, Zenon DEF WroteHeader
  <2>4. e \in Disk /\ (\A r \in Slots \ {t} : e[r] = d[r]) /\ e[t].payload = d[t].payload /\ e[t].header = c
    BY <1>1, <2>2, <2>3 DEF Disk
  <2>5. Cached(e)
    BY <2>2, <2>4 DEF Cached
  <2> QED BY <2>2, <2>4, <2>5
<1> QED BY <1>3, <1>4

\* A step that leaves the newest save alone and puts nothing in the other slot
\* but the snapshot, its header, or damage.
LEMMA Underway ==
  ASSUME NEW d, NEW v, NEW s, Good(d, v, s), s.who # Nobody,
         NEW ok \in BOOLEAN, NEW next \in Stages, NEW w, NEW u, Goes(v, s, ok, next, w, u),
         NEW e \in Disk, Cached(e), NEW t, t = Target(v),
         \A g, p : Holds(d[1 - t], g, p) => Holds(e[1 - t], g, p),
         e[1 - t].header.may \subseteq d[1 - t].header.may,
         e[1 - t].payload.may \subseteq d[1 - t].payload.may,
         \A h \in e[t].header.may :
           \/ h \in d[t].header.may
           \/ h = [generation |-> v.generation + 1, payload |-> s.snapshot]
           \/ h = NoHeader,
         \A p \in e[t].payload.may : p \in d[t].payload.may \/ p \in {s.snapshot, Damaged},
         ok => Reached(e[t], v.generation, next, s.snapshot)
  PROVE  Good(e, w, u)
<1>1. d \in Disk /\ v \in VolumeRec /\ s \in Saver
  BY DEF Good, Typed
<1>2. /\ w \in VolumeRec /\ w.generation = v.generation /\ w.newest = v.newest
      /\ w.promised = v.promised /\ w.last = v.last /\ w.version = v.version
      /\ Target(w) = t /\ ~Clean(v, s) /\ ~Clean(w, u) /\ u \in Saver
      /\ ~ok => u.who = Nobody
      /\ ok => w = v /\ u.who = s.who /\ u.stage = next /\ u.snapshot = s.snapshot
  BY <1>1, Going
<1>3. /\ v.generation \in Nat /\ v.newest \in {0, 1} /\ v.version \in Nat /\ v.last \in Nat
      /\ v.promised \in Nat /\ t \in {0, 1} /\ 1 - t \in {0, 1} /\ 1 - t # t
      /\ v.generation > 0 => v.newest = 1 - t
      /\ v.generation = 0 => t = 0
  BY <1>1, Fields
<1>4. s.snapshot \in Payload /\ s.snapshot.version \in Int
  BY <1>1, SaverFields
<1>5. Versions(d, v, s) /\ NewestHolds(d, v, s) /\ Attempts(d, v, s)
  BY DEF Good, Sound
<1>6. v.promised <= s.snapshot.version /\ s.snapshot.version <= v.version /\ v.version <= v.last
  BY <1>5 DEF Versions
<1>7. Versions(e, w, u)
  <2>1. ASSUME NEW r \in Slots, NEW p \in e[r].payload.may PROVE p.version <= v.last
    <3>1. r = t \/ r = 1 - t
      BY <1>3 DEF Slots
    <3>2. CASE p \in d[r].payload.may
      BY <1>5, <3>2 DEF Versions
    <3>3. CASE p = s.snapshot
      BY <1>3, <1>4, <1>6, <3>3
    <3>4. CASE p = Damaged
      <4>1. p.version = -1
        BY <3>4 DEF Damaged
      <4> QED BY <1>3, <4>1
    <3> QED BY <3>1, <3>2, <3>3, <3>4
  <2> QED BY <1>2, <1>3, <1>5, <2>1 DEF Versions
<1>8. NewestHolds(e, w, u)
  <2>1. CASE v.generation = 0
    BY <1>2, <1>3, <1>5, <2>1 DEF NewestHolds
  <2>2. CASE v.generation # 0
    <3>1. v.newest = 1 - t
      BY <1>3, <2>2
    <3>2. PICK p \in d[1 - t].payload.may : Holds(d[1 - t], v.generation, p) /\ p.version >= v.promised
      BY <1>5, <2>2, <3>1 DEF NewestHolds
    <3>3. Holds(e[1 - t], v.generation, p)
      BY <3>2
    <3>4. p \in e[1 - t].payload.may
      BY <3>3, BlockIs DEF Holds
    <3> QED BY <1>2, <2>2, <3>1, <3>2, <3>3, <3>4 DEF NewestHolds
  <2> QED BY <2>1, <2>2
<1>9. Attempts(e, w, u)
  <2> SUFFICES ASSUME NEW h \in e[t].header.may
               PROVE  /\ h.generation <= v.generation + 1
                      /\ v.generation > 0 => h.generation # v.generation
                      /\ h.generation > 0 => h.payload # Damaged
                      /\ h.generation > v.generation /\ h.payload \in e[t].payload.may
                           => h.payload.version >= v.promised
    BY <1>2 DEF Attempts
  <2>0. s.snapshot # Damaged
    <3>1. Damaged.version = -1
      BY DEF Damaged
    <3> QED BY <1>3, <1>4, <1>6, <3>1
  <2>1. CASE h \in d[t].header.may
    <3>1. /\ h.generation <= v.generation + 1
          /\ v.generation > 0 => h.generation # v.generation
          /\ h.generation > 0 => h.payload # Damaged
          /\ h.generation > v.generation /\ h.payload \in d[t].payload.may
               => h.payload.version >= v.promised
      BY <1>5, <2>1 DEF Attempts
    <3>2. h.generation \in Nat
      BY <1>1, <1>3, <2>1, SlotTypes DEF Header, Slots
    <3>3. ASSUME h.generation > v.generation, h.payload \in e[t].payload.may
          PROVE  h.payload.version >= v.promised
      <4>1. h.payload \in d[t].payload.may \/ h.payload = s.snapshot
        <5>1. h.payload # Damaged
          BY <1>3, <3>1, <3>2, <3>3
        <5> QED BY <3>3, <5>1
      <4> QED BY <1>3, <1>4, <1>6, <3>1, <3>3, <4>1
    <3> QED BY <3>1, <3>3
  <2>2. CASE h = [generation |-> v.generation + 1, payload |-> s.snapshot]
    <3>1. h.generation = v.generation + 1 /\ h.payload = s.snapshot
      BY <2>2
    <3> QED BY <1>3, <1>4, <1>6, <2>0, <3>1
  <2>3. CASE h = NoHeader
    <3>1. h.generation = 0
      BY <2>3 DEF NoHeader
    <3> QED BY <1>3, <3>1
  <2> QED BY <2>1, <2>2, <2>3
<1>10. Progress(e, w, u)
  BY <1>2 DEF Progress
<1> QED BY <1>2, <1>7, <1>8, <1>9, <1>10 DEF Good, Typed, Sound

LEMMA PayloadKeeps ==
  ASSUME NEW d, NEW v, NEW s, Good(d, v, s), s.who # Nobody,
         NEW ok \in BOOLEAN, NEW w, NEW u, Goes(v, s, ok, "settle", w, u),
         NEW e, WrotePayload(d, Target(v), s.snapshot, ok, e)
  PROVE  Good(e, w, u)
<1>1. d \in Disk /\ v \in VolumeRec /\ s \in Saver /\ Cached(d)
  BY DEF Good, Typed, Sound
<1>2. PICK t \in Slots : t = Target(v) /\ 1 - t \in Slots /\ 1 - t # t
  BY <1>1, Fields DEF Slots
<1>3. s.snapshot \in Payload /\ "settle" \in Stages
  BY <1>1, SaverFields DEF Stages
<1>4. /\ e \in Disk /\ Cached(e) /\ \A r \in Slots \ {t} : e[r] = d[r]
      /\ e[t].header = d[t].header
      /\ e[t].payload.may = d[t].payload.may \cup {s.snapshot, Damaged}
      /\ ok => e[t].payload.latest = {s.snapshot}
  BY <1>1, <1>2, <1>3, SlotWritten
<1>5. ok => Reached(e[t], v.generation, "settle", s.snapshot)
  BY <1>4 DEF Reached
<1>6. e[1 - t] = d[1 - t]
  BY <1>2, <1>4
<1>7. /\ \A g, p : Holds(d[1 - t], g, p) => Holds(e[1 - t], g, p)
      /\ e[1 - t].header.may \subseteq d[1 - t].header.may
      /\ e[1 - t].payload.may \subseteq d[1 - t].payload.may
  BY <1>6
<1>8. \A x \in e[t].header.may : \/ x \in d[t].header.may
                                 \/ x = [generation |-> v.generation + 1, payload |-> s.snapshot]
                                 \/ x = NoHeader
  BY <1>4
<1>9. \A p \in e[t].payload.may : p \in d[t].payload.may \/ p \in {s.snapshot, Damaged}
  BY <1>4
<1> QED BY <1>2, <1>3, <1>4, <1>5, <1>7, <1>8, <1>9, Underway

LEMMA SettleKeeps ==
  ASSUME NEW d, NEW v, NEW s, Good(d, v, s), s.who # Nobody, s.stage = "settle",
         NEW ok \in BOOLEAN, NEW w, NEW u, Goes(v, s, ok, "header", w, u),
         NEW e, e = flush(d, ok)
  PROVE  Good(e, w, u)
<1>1. d \in Disk /\ v \in VolumeRec /\ s \in Saver /\ Cached(d) /\ Progress(d, v, s)
  BY DEF Good, Typed, Sound
<1>2. PICK t \in Slots : t = Target(v) /\ 1 - t \in Slots /\ 1 - t # t
  BY <1>1, Fields DEF Slots
<1>3. "header" \in Stages
  BY DEF Stages
<1>4. /\ e \in Disk /\ Cached(e)
      /\ \A r \in Slots : /\ e[r].payload = flushBlock(d[r].payload, ok)
                           /\ e[r].header.may \subseteq d[r].header.may
                           /\ e[r].payload.may \subseteq d[r].payload.may
                           /\ \A g, p : Holds(d[r], g, p) => Holds(e[r], g, p)
  <2>1. e \in Disk /\ Cached(e)
    BY <1>1, DiskFlushed
  <2>2. ASSUME NEW r \in Slots
        PROVE  /\ e[r].payload = flushBlock(d[r].payload, ok)
               /\ e[r].header.may \subseteq d[r].header.may
               /\ e[r].payload.may \subseteq d[r].payload.may
               /\ \A g, p : Holds(d[r], g, p) => Holds(e[r], g, p)
    BY <1>1, DiskFlushed, ZenonT(40)
  <2> QED BY <2>1, <2>2, Zenon
<1>5. ok => Reached(e[t], v.generation, "header", s.snapshot)
  <2> SUFFICES ASSUME ok PROVE Reached(e[t], v.generation, "header", s.snapshot)
    OBVIOUS
  <2>1. d[t].payload.latest = {s.snapshot}
    BY <1>1, <1>2 DEF Progress, Reached
  <2>2. d[t].payload \in BlockOf(Payload) /\ d[t].payload.latest \subseteq d[t].payload.may
    BY <1>1, SlotTypes DEF Cached
  <2>3. PICK c : c = e[t].payload
    OBVIOUS
  <2>4. c = [may |-> d[t].payload.latest, latest |-> d[t].payload.latest]
    BY <1>4, <2>2, <2>3, Flushed
  <2> QED BY <2>1, <2>3, <2>4 DEF Reached, Block
<1> QED BY <1>2, <1>3, <1>4, <1>5, Underway

LEMMA HeaderKeeps ==
  ASSUME NEW d, NEW v, NEW s, Good(d, v, s), s.who # Nobody, s.stage = "header",
         NEW ok \in BOOLEAN, NEW w, NEW u, Goes(v, s, ok, "finish", w, u),
         NEW h, h = [generation |-> v.generation + 1, payload |-> s.snapshot],
         NEW e, WroteHeader(d, Target(v), h, ok, e)
  PROVE  Good(e, w, u)
<1>1. d \in Disk /\ v \in VolumeRec /\ s \in Saver /\ Cached(d) /\ Progress(d, v, s)
  BY DEF Good, Typed, Sound
<1>2. PICK t \in Slots : t = Target(v) /\ 1 - t \in Slots /\ 1 - t # t
  BY <1>1, Fields DEF Slots
<1>3. h \in Header /\ "finish" \in Stages
  BY <1>1, Fields, SaverFields DEF Stages, Header
<1>4. /\ e \in Disk /\ Cached(e) /\ \A r \in Slots \ {t} : e[r] = d[r]
      /\ e[t].payload = d[t].payload
      /\ e[t].header.may = d[t].header.may \cup {h, NoHeader}
      /\ ok => e[t].header.latest = {h}
  BY <1>1, <1>2, <1>3, SlotWritten
<1>5. ok => Reached(e[t], v.generation, "finish", s.snapshot)
  <2>1. d[t].payload = Block(s.snapshot)
    BY <1>1, <1>2 DEF Progress, Reached
  <2> QED BY <1>4, <2>1 DEF Reached
<1>6. e[1 - t] = d[1 - t]
  BY <1>2, <1>4
<1>7. /\ \A g, p : Holds(d[1 - t], g, p) => Holds(e[1 - t], g, p)
      /\ e[1 - t].header.may \subseteq d[1 - t].header.may
      /\ e[1 - t].payload.may \subseteq d[1 - t].payload.may
  BY <1>6
<1>8. \A x \in e[t].header.may : \/ x \in d[t].header.may
                                 \/ x = [generation |-> v.generation + 1, payload |-> s.snapshot]
                                 \/ x = NoHeader
  BY <1>4
<1>9. \A p \in e[t].payload.may : p \in d[t].payload.may \/ p \in {s.snapshot, Damaged}
  BY <1>4
<1> QED BY <1>2, <1>3, <1>4, <1>5, <1>7, <1>8, <1>9, Underway

\* The last flush fails ...
LEMMA FinishFails ==
  ASSUME NEW d, NEW v, NEW s, Good(d, v, s), s.who # Nobody, NEW ok \in BOOLEAN, ~ok,
         NEW w, NEW u, Goes(v, s, ok, "payload", w, u),
         NEW e, e = flush(d, ok)
  PROVE  Good(e, w, u)
<1>1. d \in Disk /\ v \in VolumeRec /\ s \in Saver /\ Cached(d)
  BY DEF Good, Typed, Sound
<1>2. PICK t \in Slots : t = Target(v) /\ 1 - t \in Slots /\ 1 - t # t
  BY <1>1, Fields DEF Slots
<1>3. "payload" \in Stages
  BY DEF Stages
<1>4. /\ e \in Disk /\ Cached(e)
      /\ \A r \in Slots : /\ e[r].header.may \subseteq d[r].header.may
                           /\ e[r].payload.may \subseteq d[r].payload.may
                           /\ \A g, p : Holds(d[r], g, p) => Holds(e[r], g, p)
  BY <1>1, DiskFlushed
<1> QED BY <1>2, <1>3, <1>4, Underway

\* ... or the new save is the newest, and the other slot is the next one's.
Finishes(v, promise, w) ==
  w = [v EXCEPT !.generation = @ + 1, !.newest = Target(v), !.promised = promise]

LEMMA FinishKeeps ==
  ASSUME NEW d, NEW v, NEW s, Good(d, v, s), s.who # Nobody, s.stage = "finish",
         NEW ok \in BOOLEAN, ok, NEW e, e = flush(d, ok), NEW promise \in {v.promised, s.snapshot.version},
         promise \in Nat, NEW w, Finishes(v, promise, w)
  PROVE  Good(e, w, Idle)
<1>1. d \in Disk /\ v \in VolumeRec /\ s \in Saver /\ Cached(d)
  BY DEF Good, Typed, Sound
<1>2. PICK t \in Slots : t = Target(v) /\ 1 - t \in Slots /\ 1 - t # t /\ 1 - (1 - t) = t
  BY <1>1, Fields DEF Slots
<1>3. /\ v.generation \in Nat /\ v.newest \in {0, 1} /\ v.version \in Nat /\ v.last \in Nat
      /\ v.promised \in Nat
      /\ v.generation > 0 => v.newest = 1 - t
      /\ v.generation = 0 => t = 0
  BY <1>1, <1>2, Fields
<1>4. s.snapshot \in Payload /\ s.snapshot.version \in Int
  BY <1>1, SaverFields
<1>5. Versions(d, v, s) /\ NewestHolds(d, v, s) /\ Attempts(d, v, s) /\ Progress(d, v, s)
  BY DEF Good, Sound
<1>6. /\ v.promised <= s.snapshot.version /\ s.snapshot.version <= v.version /\ v.version <= v.last
      /\ ~v.dirty => s.snapshot.version = v.version
  BY <1>5 DEF Versions
<1>7. promise <= s.snapshot.version
  BY <1>3, <1>4, <1>6
<1>8. /\ w \in VolumeRec /\ w.generation = v.generation + 1 /\ w.newest = t
      /\ w.promised = promise /\ w.last = v.last /\ w.version = v.version /\ w.dirty = v.dirty
  <2>1. v.generation + 1 \in Nat
    BY <1>3
  <2>2. w = [v EXCEPT !.generation = v.generation + 1, !.newest = t, !.promised = promise]
    BY <1>2, Zenon DEF Finishes
  <2> QED BY <1>1, <1>2, <2>1, <2>2 DEF VolumeRec
<1>9. Target(w) = 1 - t
  BY <1>2, <1>3, <1>8 DEF Target
<1>10. Idle \in Saver /\ Idle.who = Nobody
  BY DEF Idle, EmptyVolume, Saver, Payload, Stages, Nobody
<1>12. /\ e \in Disk /\ Cached(e)
       /\ \A r \in Slots : /\ e[r].header = flushBlock(d[r].header, ok)
                            /\ e[r].payload = flushBlock(d[r].payload, ok)
                            /\ e[r].header.may \subseteq d[r].header.may
                            /\ e[r].payload.may \subseteq d[r].payload.may
                            /\ \A g, p : Holds(d[r], g, p) => Holds(e[r], g, p)
  BY <1>1, DiskFlushed, ZenonT(40)
<1>13. Holds(e[t], v.generation + 1, s.snapshot)
  <2>1. PICK h : h = [generation |-> v.generation + 1, payload |-> s.snapshot]
    OBVIOUS
  <2>2. d[t].header.latest = {h} /\ d[t].payload = Block(s.snapshot)
    BY <1>2, <1>5, <2>1 DEF Progress, Reached
  <2>3. /\ d[t].header \in BlockOf(Header) /\ d[t].header.latest \subseteq d[t].header.may
        /\ d[t].payload \in BlockOf(Payload) /\ d[t].payload.latest \subseteq d[t].payload.may
    BY <1>1, SlotTypes DEF Cached
  <2>4. PICK c, b : c = e[t].header /\ b = e[t].payload
    OBVIOUS
  <2>5. c = [may |-> d[t].header.latest, latest |-> d[t].header.latest]
    BY <1>12, <2>3, <2>4, Flushed
  <2>6. b = Block(s.snapshot)
    <3>1. b = [may |-> d[t].payload.latest, latest |-> d[t].payload.latest]
      BY <1>12, <2>3, <2>4, Flushed
    <3> QED BY <2>2, <3>1, BlockIs DEF Block
  <2>7. c = Block(h)
    BY <2>2, <2>5 DEF Block
  <2> QED BY <2>1, <2>4, <2>6, <2>7 DEF Holds
<1>14. Versions(e, w, Idle)
  <2>1. \A r \in Slots : \A p \in e[r].payload.may : p.version <= v.last
    BY <1>5, <1>12 DEF Versions
  <2>2. w.promised <= w.version /\ w.version <= w.last
    BY <1>3, <1>4, <1>6, <1>7, <1>8
  <2> QED BY <1>8, <1>10, <2>1, <2>2 DEF Versions
<1>15. NewestHolds(e, w, Idle)
  <2>1. s.snapshot \in e[t].payload.may
    BY <1>13, HoldsPayload, Zenon
  <2>2. w.generation # 0
    BY <1>3, <1>8
  <2>3. Clean(w, Idle) => s.snapshot.version = w.version
    BY <1>6, <1>8 DEF Clean
  <2>4. s.snapshot.version >= w.promised
    BY <1>3, <1>4, <1>7, <1>8
  <2> QED BY <1>8, <1>13, <2>1, <2>2, <2>3, <2>4 DEF NewestHolds
<1>16. Attempts(e, w, Idle)
  <2>1. ASSUME NEW h \in e[1 - t].header.may
        PROVE  h.generation \in Nat /\ h.generation <= v.generation /\ (h.generation > 0 => h.payload # Damaged)
    <3>1. h \in d[1 - t].header.may /\ h.generation \in Nat
      BY <1>1, <1>2, <1>12, SlotTypes DEF Header
    <3>2. CASE v.generation = 0
      BY <1>2, <1>3, <1>5, <3>1, <3>2 DEF NewestHolds
    <3>3. CASE v.generation # 0
      <4>1. PICK p : Holds(d[1 - t], v.generation, p) /\ p.version >= v.promised
        BY <1>3, <1>5, <3>3 DEF NewestHolds
      <4>2. h = [generation |-> v.generation, payload |-> p]
        BY <3>1, <4>1, BlockIs DEF Holds
      <4>3. h.generation = v.generation /\ h.payload = p
        BY <4>2
      <4>4. Damaged.version = -1
        BY DEF Damaged
      <4> QED BY <1>3, <3>1, <4>1, <4>3, <4>4
    <3> QED BY <3>2, <3>3
  <2> SUFFICES ASSUME NEW h \in e[1 - t].header.may
               PROVE  /\ h.generation <= w.generation + 1 /\ (w.generation > 0 => h.generation # w.generation)
                      /\ h.generation > 0 => h.payload # Damaged
                      /\ ~(h.generation > w.generation)
    BY <1>9 DEF Attempts
  <2>2. /\ h.generation \in Nat /\ h.generation <= v.generation
        /\ (h.generation > 0 => h.payload # Damaged)
    BY <2>1
  <2>3. w.generation = v.generation + 1 /\ v.generation \in Nat
    BY <1>3, <1>8
  <2> QED BY <2>2, <2>3
<1>17. Progress(e, w, Idle)
  BY <1>10 DEF Progress
<1> QED BY <1>8, <1>10, <1>12, <1>14, <1>15, <1>16, <1>17 DEF Good, Typed, Sound

-----------------------------------------------------------------------------
(* Power failure.                                                          *)

LEMMA ImageIs ==
  ASSUME NEW image \in Images
  PROVE  \A s \in Slots : image[s].header \in disk[s].header.may /\ image[s].payload \in disk[s].payload.may
<1>1. PICK h0 \in disk[0].header.may, p0 \in disk[0].payload.may,
           h1 \in disk[1].header.may, p1 \in disk[1].payload.may :
        image = [s \in Slots |-> IF s = 0 THEN [header |-> h0, payload |-> p0]
                                 ELSE [header |-> h1, payload |-> p1]]
  BY DEF Images
<1>2. 0 \in Slots /\ 1 \in Slots /\ \A s \in Slots : s = 0 \/ s = 1
  BY DEF Slots
<1>3. image[0] = [header |-> h0, payload |-> p0] /\ image[1] = [header |-> h1, payload |-> p1]
  BY <1>1, <1>2
<1> QED BY <1>2, <1>3

\* What loading finds: the newest save, or an attempt at a newer one that was
\* written whole; nothing, if there never was a save.
LEMMA Loads ==
  ASSUME Good(disk, volume, saver), NEW image \in Images, NEW l, l = load(image),
         NEW t, t = Target(volume)
  PROVE  /\ l.payload.version >= volume.promised /\ l.payload.version <= volume.last
         /\ l.payload \in Payload
         /\ \/ /\ volume.generation = 0 /\ l = NeverSaved
               /\ ~Whole(image[0]) /\ image[1].header.generation = 0
            \/ /\ volume.generation > 0 /\ l = Loaded(image, 1 - t) /\ Whole(image[1 - t])
               /\ image[1 - t].header.generation = volume.generation
               /\ image[t].header.generation > volume.generation => ~Whole(image[t])
            \/ /\ l = Loaded(image, t) /\ Whole(image[t])
               /\ image[t].header.generation = volume.generation + 1
               /\ image[1 - t].header.generation <= volume.generation
<1>1. /\ disk \in Disk /\ volume \in VolumeRec /\ Versions(disk, volume, saver)
      /\ NewestHolds(disk, volume, saver) /\ Attempts(disk, volume, saver)
  BY DEF Good, Typed, Sound
<1>2. /\ volume.generation \in Nat /\ volume.promised \in Nat /\ volume.last \in Nat
      /\ t \in {0, 1} /\ 1 - t \in {0, 1} /\ 1 - t # t /\ 1 - (1 - t) = t
      /\ volume.generation > 0 => volume.newest = 1 - t
      /\ volume.generation = 0 => t = 0
  BY <1>1, Fields
<1>3. \A s \in {0, 1} : /\ image[s].header \in disk[s].header.may
                       /\ image[s].payload \in disk[s].payload.may
                       /\ image[s].header.generation \in Nat /\ image[s].payload \in Payload
                       /\ image[s].payload.version \in Int /\ image[s].payload.version <= volume.last
  <2>1. Slots = {0, 1}
    BY DEF Slots
  <2> QED BY <1>1, <2>1, ImageIs, SlotTypes DEF Header, Payload, Versions
<1>4. /\ image[t].header.generation <= volume.generation + 1
      /\ volume.generation > 0 => image[t].header.generation # volume.generation
      /\ image[t].header.generation > volume.generation /\ Whole(image[t]) =>
           image[t].payload.version >= volume.promised
  BY <1>1, <1>2, <1>3 DEF Attempts, Whole
<1>5. PICK first \in {0, 1} :
        /\ first = Newest(image) /\ 1 - first \in {0, 1} /\ first # 1 - first
        /\ image[first].header.generation >= image[1 - first].header.generation
        /\ l = IF Whole(image[first]) THEN Loaded(image, first)
               ELSE IF Whole(image[1 - first]) THEN Loaded(image, 1 - first) ELSE NeverSaved
  BY <1>3 DEF Newest, load
<1>6. \A s \in {0, 1} : Loaded(image, s).payload = image[s].payload
  BY DEF Loaded
<1>7. CASE volume.generation = 0
  <2>1. image[1].header.generation = 0 /\ ~Whole(image[1]) /\ volume.promised = 0 /\ t = 0
    BY <1>1, <1>2, <1>3, <1>7 DEF NewestHolds, Whole
  <2>2. CASE Whole(image[0])
    <3>1. image[0].header.generation = 1
      BY <1>2, <1>3, <1>4, <1>7, <2>1, <2>2 DEF Whole
    <3>2. l = Loaded(image, 0)
      BY <1>5, <2>1, <2>2
    <3> QED BY <1>2, <1>3, <1>4, <1>6, <1>7, <2>1, <2>2, <3>1, <3>2
  <2>3. CASE ~Whole(image[0])
    <3>1. l = NeverSaved
      BY <1>5, <2>1, <2>3
    <3>2. l.payload = EmptyVolume /\ l.payload.version = 0 /\ EmptyVolume \in Payload
      BY <3>1 DEF NeverSaved, EmptyVolume, Payload
    <3> QED BY <1>2, <1>7, <2>1, <2>3, <3>1, <3>2
  <2> QED BY <2>2, <2>3
<1>8. CASE volume.generation # 0
  <2>1. PICK p : Holds(disk[1 - t], volume.generation, p) /\ p.version >= volume.promised
    BY <1>1, <1>2, <1>8 DEF NewestHolds
  <2>2. image[1 - t].header = [generation |-> volume.generation, payload |-> p] /\ image[1 - t].payload = p
    BY <1>2, <1>3, <2>1, BlockIs DEF Holds
  <2>3. Whole(image[1 - t]) /\ image[1 - t].header.generation = volume.generation
    BY <1>2, <1>8, <2>2 DEF Whole
  <2>4. CASE image[t].header.generation > volume.generation /\ Whole(image[t])
    <3>1. l = Loaded(image, t) /\ image[t].header.generation = volume.generation + 1
      BY <1>2, <1>3, <1>4, <1>5, <2>3, <2>4
    <3> QED BY <1>2, <1>3, <1>4, <1>6, <2>3, <2>4, <3>1
  <2>5. CASE ~(image[t].header.generation > volume.generation /\ Whole(image[t]))
    <3>1. l = Loaded(image, 1 - t)
      BY <1>2, <1>3, <1>4, <1>5, <1>8, <2>3, <2>5
    <3> QED BY <1>2, <1>3, <1>6, <1>8, <2>1, <2>2, <2>3, <2>5, <3>1
  <2> QED BY <2>4, <2>5
<1> QED BY <1>7, <1>8

\* A boot leaves in each block one of the values it may have held, and the
\* machine with what it loaded.
LEMMA Booted ==
  ASSUME Good(disk, volume, saver), NEW image \in Images, PowerFails(image),
         NEW l, l = load(image), l.payload \in Payload, l.payload.version \in Nat,
         l.generation \in Nat, l.newest \in Slots
  PROVE  /\ disk' \in Disk /\ Cached(disk') /\ volume' \in VolumeRec /\ saver' \in Saver
         /\ \A s \in Slots : disk'[s].header = Block(image[s].header) /\ disk'[s].payload = Block(image[s].payload)
         /\ volume'.generation = l.generation /\ volume'.newest = l.newest
         /\ volume'.version = l.payload.version /\ volume'.promised = l.payload.version
         /\ volume'.last = volume.last /\ saver'.who = Nobody
<1>1. disk \in Disk /\ volume \in VolumeRec
  BY DEF Good, Typed
<1>2. disk' = [s \in Slots |-> [header |-> Block(image[s].header), payload |-> Block(image[s].payload)]]
  BY DEF PowerFails
<1>3. ASSUME NEW s \in Slots
      PROVE  /\ disk'[s] \in [header : BlockOf(Header), payload : BlockOf(Payload)]
             /\ disk'[s].header = Block(image[s].header) /\ disk'[s].payload = Block(image[s].payload)
             /\ disk'[s].header.latest \subseteq disk'[s].header.may
             /\ disk'[s].payload.latest \subseteq disk'[s].payload.may
  <2>1. PICK h, p : h = image[s].header /\ p = image[s].payload
    OBVIOUS
  <2>2. h \in Header /\ p \in Payload
    BY <1>1, <2>1, ImageIs, SlotTypes
  <2>3. disk'[s] = [header |-> Block(h), payload |-> Block(p)]
    BY <1>2, <2>1, Zenon
  <2>4. Block(h) \in BlockOf(Header) /\ Block(p) \in BlockOf(Payload)
    BY <2>2, BlockIs
  <2> QED BY <2>1, <2>3, <2>4, BlockIs
<1>4. disk' \in Disk
  <2>1. DOMAIN disk' = Slots /\ disk' = [s \in Slots |-> disk'[s]]
    BY <1>2, Zenon
  <2>2. \A s \in Slots : disk'[s] \in [header : BlockOf(Header), payload : BlockOf(Payload)]
    BY <1>3
  <2> QED BY <2>1, <2>2, Zenon DEF Disk
<1>5. volume' = [dirty |-> FALSE, generation |-> l.generation, newest |-> l.newest,
                 version |-> l.payload.version, last |-> volume.last,
                 promised |-> l.payload.version, boots |-> volume.boots + 1]
  BY Zenon DEF PowerFails, Mounted
<1>6. volume.last \in Nat /\ volume.boots + 1 \in Nat
  BY <1>1 DEF VolumeRec
<1>7. /\ volume' \in VolumeRec
      /\ volume'.generation = l.generation /\ volume'.newest = l.newest
      /\ volume'.version = l.payload.version /\ volume'.promised = l.payload.version
      /\ volume'.last = volume.last
  BY <1>5, <1>6 DEF VolumeRec
<1>8. saver' \in Saver /\ saver'.who = Nobody
  BY DEF PowerFails, Idle, EmptyVolume, Saver, Payload, Stages, Nobody
<1> QED BY <1>3, <1>4, <1>7, <1>8 DEF Cached

LEMMA PowerFailsKeeps ==
  ASSUME Good(disk, volume, saver), NEW image \in Images, PowerFails(image)
  PROVE  Good(disk', volume', saver')
<1>1. disk \in Disk /\ volume \in VolumeRec /\ Versions(disk, volume, saver)
      /\ Attempts(disk, volume, saver) /\ NewestHolds(disk, volume, saver)
  BY DEF Good, Typed, Sound
<1>2. PICK t : t = Target(volume)
  OBVIOUS
<1>3. PICK l : l = load(image)
  OBVIOUS
<1>4. /\ volume.generation \in Nat /\ volume.promised \in Nat /\ volume.last \in Nat
      /\ t \in {0, 1} /\ 1 - t \in {0, 1} /\ 1 - t # t /\ 1 - (1 - t) = t
      /\ volume.generation = 0 => t = 0
      /\ volume.generation > 0 => volume.newest = 1 - t
      /\ Slots = {0, 1}
  BY <1>1, <1>2, Fields DEF Slots
<1>5. /\ l.payload.version >= volume.promised /\ l.payload.version <= volume.last
      /\ l.payload \in Payload
      /\ \/ /\ volume.generation = 0 /\ l = NeverSaved
            /\ ~Whole(image[0]) /\ image[1].header.generation = 0
         \/ /\ volume.generation > 0 /\ l = Loaded(image, 1 - t) /\ Whole(image[1 - t])
            /\ image[1 - t].header.generation = volume.generation
            /\ image[t].header.generation > volume.generation => ~Whole(image[t])
         \/ /\ l = Loaded(image, t) /\ Whole(image[t])
            /\ image[t].header.generation = volume.generation + 1
            /\ image[1 - t].header.generation <= volume.generation
  BY <1>2, <1>3, Loads
<1>6. l.payload.version \in Nat
  BY <1>4, <1>5 DEF Payload
<1>7. \A s \in {0, 1} : /\ image[s].header \in disk[s].header.may /\ image[s].header.generation \in Nat
                       /\ image[s].payload \in disk[s].payload.may
                       /\ image[s].payload.version <= volume.last
  BY <1>1, <1>4, ImageIs, SlotTypes DEF Header, Versions
<1>8. \A s \in {0, 1} : image[s].header.generation > 0 => image[s].header.payload # Damaged
  <2>1. image[t].header.generation > 0 => image[t].header.payload # Damaged
    BY <1>1, <1>2, <1>4, <1>7 DEF Attempts
  <2>2. image[1 - t].header.generation > 0 => image[1 - t].header.payload # Damaged
    <3>1. CASE volume.generation = 0
      BY <1>1, <1>4, <1>7, <3>1 DEF NewestHolds
    <3>2. CASE volume.generation # 0
      <4>1. PICK p : Holds(disk[1 - t], volume.generation, p) /\ p.version >= volume.promised
        BY <1>1, <1>4, <3>2 DEF NewestHolds
      <4>2. image[1 - t].header = [generation |-> volume.generation, payload |-> p]
        BY <1>4, <1>7, <4>1, BlockIs DEF Holds
      <4>3. image[1 - t].header.payload = p
        BY <4>2
      <4>4. Damaged.version = -1
        BY DEF Damaged
      <4> QED BY <1>4, <4>1, <4>3, <4>4
    <3> QED BY <3>1, <3>2
  <2> QED BY <1>4, <2>1, <2>2
\* The slot n that was loaded, or none, and the other one.
<1>9. \E n \in {0, 1} :
        /\ l.newest = n /\ 1 - n \in {0, 1}
        /\ \/ l = NeverSaved /\ n = 0 /\ ~Whole(image[0]) /\ image[0].header.generation <= 1
              /\ image[1].header.generation = 0
           \/ /\ l.generation > 0 /\ Whole(image[n]) /\ l.payload = image[n].payload
              /\ l.generation = image[n].header.generation
              /\ image[1 - n].header.generation <= l.generation + 1
              /\ image[1 - n].header.generation # l.generation
              /\ image[1 - n].header.generation > l.generation => ~Whole(image[1 - n])
  <2>1. /\ NeverSaved.newest = 0
        /\ \A s \in {0, 1} : /\ Loaded(image, s).newest = s /\ Loaded(image, s).payload = image[s].payload
                             /\ Loaded(image, s).generation = image[s].header.generation
    BY DEF NeverSaved, Loaded
  <2>2. /\ image[t].header.generation <= volume.generation + 1
        /\ volume.generation > 0 => image[t].header.generation # volume.generation
    BY <1>1, <1>2, <1>4, <1>7 DEF Attempts
  <2>3. CASE /\ volume.generation = 0 /\ l = NeverSaved
             /\ ~Whole(image[0]) /\ image[1].header.generation = 0
    BY <1>4, <2>1, <2>2, <2>3
  <2>4. CASE /\ volume.generation > 0 /\ l = Loaded(image, 1 - t) /\ Whole(image[1 - t])
             /\ image[1 - t].header.generation = volume.generation
             /\ image[t].header.generation > volume.generation => ~Whole(image[t])
    BY <1>4, <2>1, <2>2, <2>4
  <2>5. CASE /\ l = Loaded(image, t) /\ Whole(image[t])
             /\ image[t].header.generation = volume.generation + 1
             /\ image[1 - t].header.generation <= volume.generation
    BY <1>4, <1>7, <2>1, <2>5
  <2> QED BY <1>5, <2>3, <2>4, <2>5
<1>10. PICK n \in {0, 1} :
        /\ l.newest = n /\ 1 - n \in {0, 1}
        /\ \/ l = NeverSaved /\ n = 0 /\ ~Whole(image[0]) /\ image[0].header.generation <= 1
              /\ image[1].header.generation = 0
           \/ /\ l.generation > 0 /\ Whole(image[n]) /\ l.payload = image[n].payload
              /\ l.generation = image[n].header.generation
              /\ image[1 - n].header.generation <= l.generation + 1
              /\ image[1 - n].header.generation # l.generation
              /\ image[1 - n].header.generation > l.generation => ~Whole(image[1 - n])
  BY <1>9
<1>11. l.generation \in Nat /\ l.newest \in Slots /\ (l = NeverSaved => l.generation = 0 /\ l.payload.version = 0)
  BY <1>4, <1>7, <1>10 DEF NeverSaved, EmptyVolume
<1>12. /\ disk' \in Disk /\ Cached(disk') /\ volume' \in VolumeRec /\ saver' \in Saver
       /\ \A s \in Slots : disk'[s].header = Block(image[s].header) /\ disk'[s].payload = Block(image[s].payload)
       /\ volume'.generation = l.generation /\ volume'.newest = l.newest
       /\ volume'.version = l.payload.version /\ volume'.promised = l.payload.version
       /\ volume'.last = volume.last /\ saver'.who = Nobody
  BY <1>3, <1>5, <1>6, <1>11, Booted
<1>13. \A s \in {0, 1} : disk'[s].header.may = {image[s].header} /\ disk'[s].payload.may = {image[s].payload}
  BY <1>4, <1>12, BlockIs
<1>14. Versions(disk', volume', saver')
  BY <1>4, <1>5, <1>6, <1>7, <1>12, <1>13 DEF Versions
<1>15. NewestHolds(disk', volume', saver')
  <2>1. CASE l = NeverSaved
    <3>1. image[1].header.generation = 0
      BY <1>10, <1>11, <2>1
    <3> QED BY <1>11, <1>12, <1>13, <2>1, <3>1 DEF NewestHolds
  <2>2. CASE l # NeverSaved
    <3>1. /\ l.generation > 0 /\ Whole(image[n]) /\ l.payload = image[n].payload
          /\ l.generation = image[n].header.generation
      BY <1>10, <2>2
    <3>2. image[n].header = [generation |-> l.generation, payload |-> l.payload]
      <4>1. image[n].header \in Header
        BY <1>1, <1>4, <1>7, SlotTypes
      <4> QED BY <3>1, <4>1 DEF Whole, Header
    <3>3. Holds(disk'[n], l.generation, l.payload)
      BY <1>4, <1>12, <3>1, <3>2 DEF Holds
    <3>4. l.payload \in disk'[n].payload.may
      BY <1>13, <3>1
    <3> QED BY <1>6, <1>10, <1>11, <1>12, <3>1, <3>3, <3>4 DEF NewestHolds
  <2> QED BY <2>1, <2>2
<1>16. Attempts(disk', volume', saver')
  <2>1. CASE l = NeverSaved
    <3>1. ~Whole(image[0]) /\ image[0].header.generation <= 1 /\ l.generation = 0
      BY <1>10, <1>11, <2>1
    <3>2. Target(volume') = 0
      BY <1>12, <3>1 DEF Target
    <3> QED BY <1>7, <1>8, <1>12, <1>13, <3>1, <3>2 DEF Attempts, Whole
  <2>2. CASE l # NeverSaved
    <3>1. /\ l.generation > 0 /\ image[1 - n].header.generation <= l.generation + 1
          /\ image[1 - n].header.generation # l.generation
          /\ image[1 - n].header.generation > l.generation => ~Whole(image[1 - n])
      BY <1>10, <2>2
    <3>2. Target(volume') = 1 - n
      BY <1>10, <1>11, <1>12, <3>1 DEF Target
    <3> QED BY <1>7, <1>8, <1>10, <1>11, <1>12, <1>13, <3>1, <3>2 DEF Attempts, Whole
  <2> QED BY <2>1, <2>2
<1>17. Progress(disk', volume', saver')
  BY <1>12 DEF Progress
<1> QED BY <1>12, <1>14, <1>15, <1>16, <1>17 DEF Good, Typed, Sound

-----------------------------------------------------------------------------
(* Theorems.                                                               *)

LEMMA Blank ==
  ASSUME PersistInit
  PROVE  Good(disk, volume, saver)
<1>1. disk = [s \in Slots |-> [header |-> Block(NoHeader), payload |-> Block(Damaged)]]
  BY Zenon DEF PersistInit
<1>2. /\ NoHeader \in Header /\ NoHeader.generation = 0 /\ Damaged \in Payload /\ Damaged.version = -1
  BY DEF NoHeader, Damaged, Header, Payload
<1>3. \A s \in Slots : /\ disk[s].header = Block(NoHeader) /\ disk[s].payload = Block(Damaged)
                       /\ disk[s] \in [header : BlockOf(Header), payload : BlockOf(Payload)]
                       /\ disk[s].header.may = {NoHeader} /\ disk[s].payload.may = {Damaged}
                       /\ disk[s].header.latest = {NoHeader} /\ disk[s].payload.latest = {Damaged}
  BY <1>1, <1>2, BlockIs
<1>4. disk \in Disk
  <2>1. DOMAIN disk = Slots /\ disk = [s \in Slots |-> disk[s]]
    BY <1>1, Zenon
  <2> QED BY <1>3, <2>1, Zenon DEF Disk
<1>5. volume = [dirty |-> FALSE, generation |-> 0, newest |-> 0, version |-> 0,
                last |-> 0, promised |-> 0, boots |-> 1]
  BY DEF PersistInit, Mounted, NeverSaved, EmptyVolume
<1>6. 0 \in Slots /\ 1 \in Slots
  BY DEF Slots
<1>7. /\ volume \in VolumeRec /\ volume.generation = 0 /\ volume.promised = 0 /\ volume.version = 0
      /\ volume.last = 0
  BY <1>5, <1>6 DEF VolumeRec
<1>8. saver \in Saver /\ saver.who = Nobody
  BY DEF PersistInit, Idle, EmptyVolume, Saver, Payload, Stages, Nobody
<1>9. Sound(disk, volume, saver)
  BY <1>2, <1>3, <1>6, <1>7, <1>8
  DEF Sound, Versions, Cached, NewestHolds, Attempts, Progress, Target
<1> QED BY <1>4, <1>7, <1>8, <1>9 DEF Good, Typed

\* writeSave is one of the steps above.
LEMMA WriteSaveKeeps ==
  ASSUME Good(disk, volume, saver), NEW ok \in BOOLEAN, writeSave(ok)
  PROVE  Good(disk', volume', saver')
<1>1. disk \in Disk /\ volume \in VolumeRec /\ saver \in Saver /\ saver.who # Nobody
  BY DEF Good, Typed, writeSave
<1>2. target = Target(volume)
  BY DEF target, Target
<1>3. saver.stage \in {"payload", "settle", "header", "finish"}
  BY <1>1, SaverFields DEF Stages
<1>4. /\ Following["payload"] = "settle" /\ Following["settle"] = "header" /\ Following["header"] = "finish"
  BY DEF Following
<1>5. ASSUME NEW next, saver.stage # "finish", Following[saver.stage] = next
      PROVE  Goes(volume, saver, ok, next, volume', saver')
  <2>1. CASE ok
    BY <1>5, <2>1, Zenon DEF writeSave, Goes
  <2>2. CASE ~ok
    BY <2>2, Zenon DEF writeSave, Goes
  <2> QED BY <2>1, <2>2
<1>6. CASE saver.stage = "payload"
  <2>1. WrotePayload(disk, Target(volume), saver.snapshot, ok, disk')
    BY <1>2, <1>6, Zenon DEF writeSave, WrotePayload
  <2>2. Goes(volume, saver, ok, "settle", volume', saver')
    BY <1>4, <1>5, <1>6
  <2> QED BY <1>1, <2>1, <2>2, PayloadKeeps
<1>7. CASE saver.stage = "settle"
  <2>1. disk' = flush(disk, ok)
    BY <1>7 DEF writeSave
  <2>2. Goes(volume, saver, ok, "header", volume', saver')
    BY <1>4, <1>5, <1>7
  <2> QED BY <1>1, <1>7, <2>1, <2>2, SettleKeeps
<1>8. CASE saver.stage = "header"
  <2>1. PICK h : h = [generation |-> volume.generation + 1, payload |-> saver.snapshot]
    OBVIOUS
  <2>2. WroteHeader(disk, Target(volume), h, ok, disk')
    BY <1>2, <1>8, <2>1, Zenon DEF writeSave, WroteHeader
  <2>3. Goes(volume, saver, ok, "finish", volume', saver')
    BY <1>4, <1>5, <1>8
  <2> QED BY <1>1, <1>8, <2>1, <2>2, <2>3, HeaderKeeps
<1>9. CASE saver.stage = "finish"
  <2>1. disk' = flush(disk, ok)
    BY <1>9 DEF writeSave
  <2>2. CASE ok
    <3>1. PICK promise : promise = IF saver.who = Service THEN volume.promised ELSE saver.snapshot.version
      OBVIOUS
    <3>2. Finishes(volume, promise, volume') /\ saver' = Idle
      BY <1>2, <1>9, <2>2, <3>1, Zenon DEF writeSave, Finishes
    <3>3. promise \in {volume.promised, saver.snapshot.version} /\ promise \in Nat
      <4>1. Versions(disk, volume, saver)
        BY DEF Good, Sound
      <4> QED BY <1>1, <3>1, <4>1, Fields, SaverFields DEF Versions
    <3> QED BY <1>1, <1>9, <2>1, <2>2, <3>2, <3>3, FinishKeeps
  <2>3. CASE ~ok
    <3>1. Goes(volume, saver, ok, "payload", volume', saver')
      BY <2>3, Zenon DEF writeSave, Goes
    <3> QED BY <1>1, <2>1, <2>3, <3>1, FinishFails
  <2> QED BY <2>2, <2>3
<1> QED BY <1>3, <1>6, <1>7, <1>8, <1>9

\* Whatever order changes, saves, faults and power failures come in, the disk
\* holds a whole save (persist.save, writeSave, load).
THEOREM VolumeSound == VolumeSpec => []Good(disk, volume, saver)
<1>1. PersistInit => Good(disk, volume, saver)
  BY Blank
<1>2. Good(disk, volume, saver) /\ [VolumeNext]_persist_vars => Good(disk', volume', saver')
  <2> SUFFICES ASSUME Good(disk, volume, saver), [VolumeNext]_persist_vars
               PROVE  Good(disk', volume', saver')
    OBVIOUS
  <2>1. CASE Changes
    BY <2>1, ChangesKeep DEF Changes
  <2>2. ASSUME NEW w \in Writer, NothingToSave(w) PROVE Good(disk', volume', saver')
    BY <2>2, NothingToSaveKeeps DEF NothingToSave
  <2>3. ASSUME NEW w \in Writer, SaveRefused(w) PROVE Good(disk', volume', saver')
    BY <2>3 DEF SaveRefused, persist_vars
  <2>4. ASSUME NEW w \in Writer, NEW files \in Tree, SaveBegins(w, files)
        PROVE  Good(disk', volume', saver')
    BY <2>4, SaveBeginsKeeps DEF SaveBegins
  <2>5. ASSUME NEW ok \in BOOLEAN, writeSave(ok) PROVE Good(disk', volume', saver')
    BY <2>5, WriteSaveKeeps
  <2>6. ASSUME NEW image \in Images, PowerFails(image) PROVE Good(disk', volume', saver')
    BY <2>6, PowerFailsKeeps
  <2>7. CASE UNCHANGED persist_vars
    BY <2>7 DEF persist_vars
  <2> QED BY <2>1, <2>2, <2>3, <2>4, <2>5, <2>6, <2>7, Zenon DEF VolumeNext
<1>3. Good(disk, volume, saver)' <=> Good(disk', volume', saver')
  BY DEF Good, Typed, Sound, Versions, Cached, NewestHolds, Attempts, Progress, Clean, Target
<1> QED BY <1>1, <1>2, <1>3, PTL DEF VolumeSpec

\* However often power fails, and whatever the disk's cache had not written, no
\* change is lost that an fsync has returned for (persist.save, writeSave, load).
THEOREM DurableAlways == VolumeSpec => []Durable
<1>1. Good(disk, volume, saver) => Durable
  <2> SUFFICES ASSUME Good(disk, volume, saver), NEW image \in Images
               PROVE  load(image).payload.version >= volume.promised
    BY DEF Durable
  <2> QED BY Loads
<1> QED BY <1>1, VolumeSound, PTL

=============================================================================
