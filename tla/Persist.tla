------------------------------ MODULE Persist ------------------------------
(***************************************************************************)
(* The file system and the volume it is saved to: Posix's files under      *)
(* /data are Volume's, a call that changes them marks the volume dirty, and*)
(* an fsync is a call that sleeps until its save has ended.  Every step is *)
(* one of Volume's together with what the programs see of it.              *)
(***************************************************************************)
EXTENDS Posix, Volume

Contents(fs) ==
  {[path |-> fs[n].path, data |-> fs[n].data] : n \in {m \in DOMAIN fs : fs[m].kept /\ fs[m].path # ""}}
Installed(there, contents) ==
  FoldSet(LAMBDA f, fs : Append(fs, [path |-> f.path, data |-> f.data, kept |-> TRUE]), there, contents)

\* A call of a program; what changes the volume marks it dirty.
Calls ==
  /\ Step
  /\ IF Contents(files') = Contents(files) THEN UNCHANGED persist_vars ELSE Changes

\* The end of a save: an fsync returns r.
Saved(w, r) ==
  IF w = Service THEN UNCHANGED vars ELSE Become(Completed(w, Instr(threads[w]), Out(Now, r)))

saves(w) ==
  \/ SaveBegins(w, Contents(files)) /\ UNCHANGED vars
  \/ NothingToSave(w) /\ Saved(w, 0)
writes(ok) ==
  /\ writeSave(ok)
  /\ IF ok /\ saver.stage # "finish" THEN UNCHANGED vars
     ELSE Saved(saver.who, IF ok THEN 0 ELSE EIO)

Syncing == {t \in DOMAIN threads : threads[t].at = "asleep" /\ Instr(threads[t]).op = "fsync"}

Saving == (\E w \in Syncing \cup {Service} : saves(w)) \/ writes(TRUE)
Faults == (\E w \in Syncing : SaveRefused(w) /\ Saved(w, EIO)) \/ writes(FALSE)

\* Power fails and the machine starts again: mount, then `program`.
Restarts(program, there) ==
  \E image \in Images :
    /\ PowerFails(image)
    /\ Become(Started(program, Installed(there, load(image).payload.files)))

=============================================================================
