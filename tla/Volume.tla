------------------------------- MODULE Volume -------------------------------
(***************************************************************************)
(* The volume /data kept on a disk (kernel/fs/tmpfs/persist.zig): saves to *)
(* two slots in turn, by fsync and by a service thread, with power failing *)
(* between any two steps and the disk failing any of them.                 *)
(*                                                                         *)
(* The disk has a write cache: until a flush succeeds, a block that was    *)
(* written may hold what it held before, what was written, or neither.     *)
(* Here the volume's files are any tree; Persist puts the file system's    *)
(* there, and the calls that change them.                                  *)
(***************************************************************************)
EXTENDS Integers

CONSTANT Tree   \* what the volume's directories and files may be

VARIABLES
  disk,    \* slot -> its header and payload blocks
  volume,  \* what persist.zig knows of the volume, and ghosts
  saver    \* who holds `saving`, and how far its save is

persist_vars == <<disk, volume, saver>>
Slots == 0 .. 1

\* A payload with its checksum right is a snapshot; the header names it.
Damaged == [version |-> -1, files |-> {}]
NoHeader == [generation |-> 0, payload |-> Damaged]
EmptyVolume == [version |-> 0, files |-> {}]

\* What a block may hold on stable storage, and once the cache is written out.
Block(value) == [may |-> {value}, latest |-> {value}]
writeBlock(b, value, damaged, ok) ==
  LET may == b.may \cup {value, damaged}
  IN  [may |-> may, latest |-> IF ok THEN {value} ELSE may]
flushBlock(b, ok) == IF ok THEN [b EXCEPT !.may = b.latest] ELSE [b EXCEPT !.latest = b.may]
flush(d, ok) ==
  [s \in Slots |-> [header |-> flushBlock(d[s].header, ok), payload |-> flushBlock(d[s].payload, ok)]]

\* What power failure may leave.
Images ==
  {[s \in Slots |-> IF s = 0 THEN [header |-> h0, payload |-> p0] ELSE [header |-> h1, payload |-> p1]] :
     h0 \in disk[0].header.may, p0 \in disk[0].payload.may, h1 \in disk[1].header.may, p1 \in disk[1].payload.may}

\* load: the newest slot whose header and payload are whole, or nothing.
Whole(slot) == slot.header.generation > 0 /\ slot.payload = slot.header.payload
Newest(image) == IF image[1].header.generation > image[0].header.generation THEN 1 ELSE 0
Loaded(image, s) == [generation |-> image[s].header.generation, newest |-> s, payload |-> image[s].payload]
NeverSaved == [generation |-> 0, newest |-> 0, payload |-> EmptyVolume]
load(image) ==
  LET first == Newest(image)
  IN  IF Whole(image[first]) THEN Loaded(image, first)
      ELSE IF Whole(image[1 - first]) THEN Loaded(image, 1 - first)
      ELSE NeverSaved

\* dirty, generation and newest are the code's; version counts the changes that
\* led to the present contents, last all there were, promised is the version
\* that an fsync has returned for, and boots how often the machine started.
Mounted(l, last, boots) ==
  [dirty |-> FALSE, generation |-> l.generation, newest |-> l.newest,
   version |-> l.payload.version, last |-> last, promised |-> l.payload.version, boots |-> boots]
Nobody == 0
Service == -1
Idle == [who |-> Nobody, stage |-> "payload", snapshot |-> EmptyVolume]

PersistInit ==
  /\ disk = [s \in Slots |-> [header |-> Block(NoHeader), payload |-> Block(Damaged)]]
  /\ volume = Mounted(NeverSaved, 0, 1)
  /\ saver = Idle

-----------------------------------------------------------------------------
(* The steps.  w is the thread that saves, or the service.                 *)

\* changedLocked: a call changes a file of the volume.
Changes ==
  /\ volume' = [volume EXCEPT !.dirty = TRUE, !.last = @ + 1, !.version = volume.last + 1]
  /\ UNCHANGED <<disk, saver>>

\* save, once `saving` is free: a snapshot of the volume's files, ...
SaveBegins(w, files) ==
  /\ saver.who = Nobody /\ volume.dirty
  /\ saver' = [who |-> w, stage |-> "payload", snapshot |-> [version |-> volume.version, files |-> files]]
  /\ volume' = [volume EXCEPT !.dirty = FALSE]
  /\ UNCHANGED disk

\* ... or nothing to do, and the fsync returns, ...
NothingToSave(w) ==
  /\ saver.who = Nobody /\ ~volume.dirty /\ w # Service
  /\ volume' = [volume EXCEPT !.promised = volume.version]
  /\ UNCHANGED <<disk, saver>>

\* ... or no room for the snapshot: NoSpace, or no memory.
SaveRefused(w) ==
  /\ saver.who = Nobody /\ volume.dirty /\ w # Service
  /\ UNCHANGED persist_vars

\* The slot the next save goes to; seeded fault: the newest one again.
SameSlot == volume.newest
target == IF volume.generation = 0 THEN 0 ELSE 1 - volume.newest
Following == [payload |-> "settle", settle |-> "header", header |-> "finish"]

\* writeSave, a block or a flush at a time, then the end of save.
writeSave(ok) ==
  LET stage == saver.stage
      header == [generation |-> volume.generation + 1, payload |-> saver.snapshot]
      finished == [volume EXCEPT !.generation = @ + 1, !.newest = target,
                                 !.promised = IF saver.who = Service THEN @ ELSE saver.snapshot.version]
  IN  /\ saver.who # Nobody
      /\ disk' = CASE stage = "payload" -> [disk EXCEPT ![target].payload = writeBlock(@, saver.snapshot, Damaged, ok)]
                   [] stage = "header" -> [disk EXCEPT ![target].header = writeBlock(@, header, NoHeader, ok)]
                   [] OTHER -> flush(disk, ok)
      /\ IF ~ok THEN saver' = Idle /\ volume' = [volume EXCEPT !.dirty = TRUE]
         ELSE IF stage = "finish" THEN saver' = Idle /\ volume' = finished
         ELSE saver' = [saver EXCEPT !.stage = Following[stage]] /\ UNCHANGED volume

\* Power fails, and the next boot mounts what the disk then holds.
PowerFails(image) ==
  /\ disk' = [s \in Slots |-> [header |-> Block(image[s].header), payload |-> Block(image[s].payload)]]
  /\ volume' = Mounted(load(image), volume.last, volume.boots + 1)
  /\ saver' = Idle

Writer == (Nat \ {Nobody}) \cup {Service}
VolumeNext ==
  \/ Changes
  \/ \E w \in Writer : NothingToSave(w) \/ SaveRefused(w) \/ \E files \in Tree : SaveBegins(w, files)
  \/ \E ok \in BOOLEAN : writeSave(ok)
  \/ \E image \in Images : PowerFails(image)
VolumeSpec == PersistInit /\ [][VolumeNext]_persist_vars

\* Whatever the disk holds when power fails, loading it finds a save no older
\* than the last change an fsync returned for (persist.save, writeSave, load).
Durable ==
  \A image \in Images : load(image).payload.version >= volume.promised

=============================================================================
