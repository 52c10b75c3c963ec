---------------------------- MODULE AddressSpace ----------------------------
(***************************************************************************)
(* User address spaces shared by several CPUs: page-table changes under    *)
(* the VM lock, TLB shootdown, epoch-guarded kernel accesses, residency    *)
(* (active_cpus) and the last reference (kernel/mm/address_space.zig,      *)
(* tlb.zig, the change paths of user_vm.zig, the copies of validate.zig).  *)
(*                                                                         *)
(* The actors are CPUs: every operation pins its CPU, and a task counts    *)
(* only through the reference it holds.  One page per space stands for the *)
(* range a change covers: all of it is detached, invalidated on the same   *)
(* CPUs and freed together (detachLocked's batch).  A TLB holds at most    *)
(* the entry of that page for the CR3 its CPU has loaded, and the hardware *)
(* may refill it from the page table at any moment.                        *)
(***************************************************************************)
EXTENDS Naturals, FiniteSets

CONSTANTS
  Cpu,
  Space,
  Frame,      \* physical frames
  Kernel,     \* the kernel's own page table: no user space is loaded
  None,       \* no entry, no frame, no holder
  MaxTasks,   \* bound: references (threads) of each space
  MaxEpoch    \* bound: page-table changes that free memory, of each space

ASSUME AddressSpaceAssumption ==
  /\ Kernel \notin Space /\ None \notin Frame /\ None \notin Cpu
  /\ None \notin [frame : Frame, rights : {"ro", "rw"}]
  /\ None \notin {"fault", "unmap", "protect"}
  /\ IsFiniteSet(Cpu)   \* at most MAX_CPUS of them
  /\ MaxTasks \in [Space -> Nat] /\ MaxEpoch \in [Space -> Nat]

VARIABLES
  pc,      \* where a CPU is in the operation it performs
  op,      \* the change it performs under the VM lock
  cr3,     \* the page table loaded
  other,   \* switchTo's next space, then its previous one
  active,  \* AddressSpace.active_cpus
  refs,    \* AddressSpace.refs
  pt,      \* the page-table entry of the page: None or a frame and its rights
  tlb,     \* the entry a CPU's TLB holds for it
  free,    \* frames in the page allocator
  vmLock,  \* AddressSpace.vm_lock: its holder
  detached,\* the frame a change has taken out of the table and not yet freed
  targets, \* requested_mask, sampled from active_cpus
  reqLock, \* tlb.request_lock: its holder
  toAck,   \* CPUs of target_mask that have not acknowledged (`pending` counts them)
  epoch,   \* access_epoch
  counts,  \* access_counts
  seen,    \* the epoch a CPU has loaded, or flipped away from
  held     \* the frame a copy reads or writes

switchVars == <<cr3, other, active>>
tableVars == <<pt, free, detached>>
lockVars == <<op, vmLock, targets, reqLock, toAck>>
accessVars == <<epoch, counts, seen, held>>
vars == <<pc, switchVars, refs, tlb, tableVars, lockVars, accessVars>>

Entry == [frame : Frame, rights : {"ro", "rw"}]
Cr3 == Space \union {Kernel}
Locals == {"run", "load", "leave", "exitLoad", "exitLeave", "release",
           "teardown", "lockVm", "change", "sample", "request", "acks",
           "drain", "draining", "count", "recheck", "retry", "walk", "copy"}

Init ==
  /\ pc = [c \in Cpu |-> "run"]
  /\ op = [c \in Cpu |-> None]
  /\ cr3 = [c \in Cpu |-> Kernel]
  /\ other = [c \in Cpu |-> Kernel]
  /\ active = [s \in Space |-> {}]
  /\ refs = [s \in Space |-> 1]
  /\ pt = [s \in Space |-> None]
  /\ tlb = [c \in Cpu |-> None]
  /\ free = Frame
  /\ vmLock = [s \in Space |-> None]
  /\ detached = [c \in Cpu |-> None]
  /\ targets = [c \in Cpu |-> {}]
  /\ reqLock = None
  /\ toAck = {}
  /\ epoch = [s \in Space |-> 0]
  /\ counts = [s \in Space |-> [parity \in 0 .. 1 |-> 0]]
  /\ seen = [c \in Cpu |-> 0]
  /\ held = [c \in Cpu |-> None]

Goto(c, where) == pc' = [pc EXCEPT ![c] = where]

-----------------------------------------------------------------------------
(* Residency: switchTo, with interrupts masked.                            *)

\* A task holding a reference of s waits for a CPU.
Runnable(s) == Cardinality({c \in Cpu : s \in {cr3[c], other[c]}}) < refs[s]

\* Publish this CPU in the next space before its CR3 is loaded.
BeginSwitch(c, s) ==
  /\ pc[c] = "run" /\ s # cr3[c]
  /\ s \in Space => Runnable(s)
  /\ active' = [x \in Space |-> IF x = s THEN active[x] \union {c} ELSE active[x]]
  /\ other' = [other EXCEPT ![c] = s]
  /\ Goto(c, "load")
  /\ UNCHANGED <<cr3, refs, tlb, tableVars, lockVars, accessVars>>

\* The CR3 load, which flushes the TLB.
LoadCr3(c) ==
  /\ pc[c] \in {"load", "exitLoad"}
  /\ cr3' = [cr3 EXCEPT ![c] = other[c]]
  /\ other' = [other EXCEPT ![c] = cr3[c]]
  /\ tlb' = [tlb EXCEPT ![c] = None]
  /\ Goto(c, IF pc[c] = "load" THEN "leave" ELSE "exitLeave")
  /\ UNCHANGED <<active, refs, tableVars, lockVars, accessVars>>

\* Remove this CPU from the previous space only now.
LeaveSpace(c) ==
  /\ pc[c] \in {"leave", "exitLeave"}
  /\ active' = [x \in Space |-> IF x = other[c] THEN active[x] \ {c} ELSE active[x]]
  /\ IF pc[c] = "leave"
     THEN Goto(c, "run") /\ other' = [other EXCEPT ![c] = Kernel]
     ELSE Goto(c, "release") /\ UNCHANGED other
  /\ UNCHANGED <<cr3, refs, tlb, tableVars, lockVars, accessVars>>

\* A task exits: it switches to the kernel's table, then drops its reference.
Exit(c) ==
  /\ pc[c] = "run" /\ cr3[c] \in Space
  /\ other' = [other EXCEPT ![c] = Kernel]
  /\ Goto(c, "exitLoad")
  /\ UNCHANGED <<cr3, active, refs, tlb, tableVars, lockVars, accessVars>>

\* release(): the thread that drops the last reference goes on to tear down.
Release(c) ==
  LET s == other[c]
  IN  /\ pc[c] = "release"
      /\ refs' = [refs EXCEPT ![s] = @ - 1]
      /\ IF refs[s] = 1
         THEN Goto(c, "teardown") /\ UNCHANGED other
         ELSE Goto(c, "run") /\ other' = [other EXCEPT ![c] = Kernel]
      /\ UNCHANGED <<cr3, active, tlb, tableVars, lockVars, accessVars>>

\* Seeded fault: the page tables go, the frames they mapped are not returned.
TeardownLeaksFrames(c) ==
  LET s == other[c]
  IN  /\ pc[c] = "teardown"
      /\ pt' = [pt EXCEPT ![s] = None]
      /\ other' = [other EXCEPT ![c] = Kernel]
      /\ Goto(c, "run")
      /\ UNCHANGED <<cr3, active, refs, tlb, free, detached, lockVars,
                     accessVars>>

\* releaseAll and destroyAddressSpace, by the one owner left.
Teardown(c) ==
  LET s == other[c]
  IN  /\ pc[c] = "teardown"
      /\ free' = IF pt[s] = None THEN free ELSE free \union {pt[s].frame}
      /\ pt' = [pt EXCEPT ![s] = None]
      /\ other' = [other EXCEPT ![c] = Kernel]
      /\ Goto(c, "run")
      /\ UNCHANGED <<cr3, active, refs, tlb, detached, lockVars, accessVars>>

\* retain() by a running thread that starts another one.
Retain(c) ==
  LET s == cr3[c]
  IN  /\ pc[c] = "run" /\ s \in Space /\ refs[s] < MaxTasks[s]
      /\ refs' = [refs EXCEPT ![s] = @ + 1]
      /\ UNCHANGED <<pc, switchVars, tlb, tableVars, lockVars, accessVars>>

\* The processor walks the loaded table and caches what it finds.
Fill(c) ==
  /\ cr3[c] \in Space /\ pt[cr3[c]] # None
  /\ tlb' = [tlb EXCEPT ![c] = pt[cr3[c]]]
  /\ UNCHANGED <<pc, switchVars, refs, tableVars, lockVars, accessVars>>

-----------------------------------------------------------------------------
(* Changes under the VM lock: faultIn and map, unmap and discard, protect. *)

BeginChange(c, what) ==
  /\ pc[c] = "run" /\ cr3[c] \in Space
  /\ what = "unmap" => epoch[cr3[c]] < MaxEpoch[cr3[c]]
  /\ op' = [op EXCEPT ![c] = what]
  /\ Goto(c, "lockVm")
  /\ UNCHANGED <<switchVars, refs, tlb, tableVars, vmLock, targets, reqLock,
                 toAck, accessVars>>

LockVm(c) ==
  /\ pc[c] = "lockVm" /\ vmLock[cr3[c]] = None
  /\ vmLock' = [vmLock EXCEPT ![cr3[c]] = c]
  /\ Goto(c, "change")
  /\ UNCHANGED <<switchVars, refs, tlb, tableVars, op, targets, reqLock,
                 toAck, accessVars>>

\* VmGuard.unlock ends the operation.
UnlockVm(c) ==
  /\ vmLock' = [vmLock EXCEPT ![cr3[c]] = None]
  /\ op' = [op EXCEPT ![c] = None]
  /\ Goto(c, "run")

\* Nothing to change, or no frame to be had: the call ends.
NoChange(c) ==
  /\ pc[c] = "change"
  /\ IF op[c] = "fault" THEN pt[cr3[c]] # None \/ free = {} ELSE pt[cr3[c]] = None
  /\ UnlockVm(c)
  /\ UNCHANGED <<switchVars, refs, tlb, tableVars, targets, reqLock, toAck,
                 accessVars>>

\* A new translation, with the rights of its region, needs no invalidation.
MapPage(c, f, r) ==
  /\ pc[c] = "change" /\ op[c] = "fault" /\ pt[cr3[c]] = None /\ f \in free
  /\ pt' = [pt EXCEPT ![cr3[c]] = [frame |-> f, rights |-> r]]
  /\ free' = free \ {f}
  /\ UnlockVm(c)
  /\ UNCHANGED <<switchVars, refs, tlb, detached, targets, reqLock, toAck,
                 accessVars>>

DetachPage(c) ==
  LET s == cr3[c]
  IN  /\ pc[c] = "change" /\ op[c] = "unmap" /\ pt[s] # None
      /\ detached' = [detached EXCEPT ![c] = pt[s].frame]
      /\ pt' = [pt EXCEPT ![s] = None]
      /\ Goto(c, "sample")
      /\ UNCHANGED <<switchVars, refs, tlb, free, lockVars, accessVars>>

\* Seeded fault: a change that only grants rights skips the invalidation.
ProtectSkipsGrants(c, r) ==
  LET s == cr3[c]
  IN  /\ pc[c] = "change" /\ op[c] = "protect" /\ pt[s] # None
      /\ pt' = [pt EXCEPT ![s] = [frame |-> pt[s].frame, rights |-> r]]
      /\ IF r = "rw" THEN UnlockVm(c) ELSE Goto(c, "sample") /\ UNCHANGED <<op, vmLock>>
      /\ UNCHANGED <<switchVars, refs, tlb, free, detached, targets, reqLock,
                     toAck, accessVars>>

\* The rights change in place; the frame stays.
ProtectPage(c, r) ==
  LET s == cr3[c]
  IN  /\ pc[c] = "change" /\ op[c] = "protect" /\ pt[s] # None
      /\ pt' = [pt EXCEPT ![s] = [frame |-> pt[s].frame, rights |-> r]]
      /\ Goto(c, "sample")
      /\ UNCHANGED <<switchVars, refs, tlb, free, detached, lockVars,
                     accessVars>>

\* What follows the invalidation: an unmap drains accesses, a protect is done.
AfterInvalidate(c) ==
  IF op[c] = "unmap"
  THEN Goto(c, "drain") /\ UNCHANGED <<op, vmLock>>
  ELSE UnlockVm(c)

\* invalidateRange: sample the residents after the table changed.  With no
\* other CPU resident the invalidation is local and takes no lock.
SampleResidents(c) ==
  LET s == cr3[c]
  IN  /\ pc[c] = "sample"
      /\ targets' = [targets EXCEPT ![c] = active[s] \ {c}]
      /\ IF active[s] \subseteq {c}
         THEN tlb' = [tlb EXCEPT ![c] = None] /\ AfterInvalidate(c)
         ELSE Goto(c, "request") /\ UNCHANGED <<tlb, op, vmLock>>
      /\ UNCHANGED <<switchVars, refs, tableVars, reqLock, toAck, accessVars>>

\* request: take the lock, invalidate here, publish the request, send the IPIs.
SendRequest(c) ==
  /\ pc[c] = "request" /\ reqLock = None
  /\ reqLock' = c
  /\ tlb' = [tlb EXCEPT ![c] = None]
  /\ toAck' = targets[c]
  /\ Goto(c, "acks")
  /\ UNCHANGED <<switchVars, refs, tableVars, op, vmLock, targets, accessVars>>

\* Interrupts are masked in switchTo and on the exit path.
Masked(c) ==
  pc[c] \in {"load", "leave", "exitLoad", "exitLeave", "release", "teardown"}

\* Seeded fault: the handler acknowledges without flushing.
IpiKeepsEntry(c) == tlb[c]

\* The entry the IPI handler leaves: it flushes only the space it has loaded.
AfterIpi(c) == IF cr3[c] = cr3[reqLock] THEN None ELSE tlb[c]

\* The IPI handler; it takes no lock, so it also runs in a CPU that spins.
Acknowledge(c) ==
  /\ c \in toAck /\ ~Masked(c)
  /\ tlb' = [tlb EXCEPT ![c] = AfterIpi(c)]
  /\ toAck' = toAck \ {c}
  /\ UNCHANGED <<pc, switchVars, refs, tableVars, op, vmLock, targets,
                 reqLock, accessVars>>

\* All acknowledged.
RequestDone(c) ==
  /\ pc[c] = "acks" /\ toAck = {}
  /\ reqLock' = None
  /\ targets' = [targets EXCEPT ![c] = {}]
  /\ AfterInvalidate(c)
  /\ UNCHANGED <<switchVars, refs, tlb, tableVars, toAck, accessVars>>

\* drainAccesses: flip the epoch ...
FlipEpoch(c) ==
  LET s == cr3[c]
  IN  /\ pc[c] = "drain"
      /\ seen' = [seen EXCEPT ![c] = epoch[s]]
      /\ epoch' = [epoch EXCEPT ![s] = @ + 1]
      /\ Goto(c, "draining")
      /\ UNCHANGED <<switchVars, refs, tlb, tableVars, lockVars, counts, held>>

\* Seeded fault: the writer also waits for accesses that began after its flip.
DrainedOfAll(c) == \A parity \in 0 .. 1 : counts[cr3[c]][parity] = 0

\* ... and wait for the accesses counted under the old one; then free.
Drained(c) == counts[cr3[c]][seen[c] % 2] = 0

FreeDetached(c) ==
  /\ pc[c] = "draining" /\ Drained(c)
  /\ free' = free \union {detached[c]}
  /\ detached' = [detached EXCEPT ![c] = None]
  /\ seen' = [seen EXCEPT ![c] = 0]
  /\ UnlockVm(c)
  /\ UNCHANGED <<switchVars, refs, tlb, pt, targets, reqLock, toAck, epoch,
                 counts, held>>

-----------------------------------------------------------------------------
(* Kernel accesses to user memory: copies through the direct map.          *)

Counted(s, parity, n) == [counts EXCEPT ![s][parity] = n]

\* beginAccess: load the epoch ...
LoadEpoch(c) ==
  /\ pc[c] \in {"run", "retry"} /\ cr3[c] \in Space
  /\ seen' = [seen EXCEPT ![c] = epoch[cr3[c]]]
  /\ Goto(c, "count")
  /\ UNCHANGED <<switchVars, refs, tlb, tableVars, lockVars, epoch, counts,
                 held>>

\* ... publish the count ...
PublishAccess(c) ==
  /\ pc[c] = "count"
  /\ counts' = Counted(cr3[c], seen[c] % 2, counts[cr3[c]][seen[c] % 2] + 1)
  /\ Goto(c, "recheck")
  /\ UNCHANGED <<switchVars, refs, tlb, tableVars, lockVars, epoch, seen, held>>

\* Seeded fault: the count is taken to stand whatever the epoch is now.
CountAlwaysStands(c) == TRUE

\* The count stands if the epoch is still the one it was published under.
EpochUnchanged(c) == epoch[cr3[c]] = seen[c]

\* ... and keep it, or take it back and start over.
Recheck(c) ==
  /\ pc[c] = "recheck"
  /\ \/ EpochUnchanged(c) /\ Goto(c, "walk") /\ UNCHANGED <<counts, seen>>
     \/ /\ ~EpochUnchanged(c)
        /\ counts' = Counted(cr3[c], seen[c] % 2, counts[cr3[c]][seen[c] % 2] - 1)
        /\ seen' = [seen EXCEPT ![c] = 0]
        /\ Goto(c, "retry")
  /\ UNCHANGED <<switchVars, refs, tlb, tableVars, lockVars, epoch, held>>

\* The software walk; a page that is not there fails the copy.
Walk(c) ==
  /\ pc[c] = "walk"
  /\ held' = [held EXCEPT ![c] = IF pt[cr3[c]] = None THEN None ELSE pt[cr3[c]].frame]
  /\ Goto(c, "copy")
  /\ UNCHANGED <<switchVars, refs, tlb, tableVars, lockVars, epoch, counts, seen>>

\* Access.end.
EndAccess(c) ==
  /\ pc[c] = "copy"
  /\ held' = [held EXCEPT ![c] = None]
  /\ counts' = Counted(cr3[c], seen[c] % 2, counts[cr3[c]][seen[c] % 2] - 1)
  /\ seen' = [seen EXCEPT ![c] = 0]
  /\ Goto(c, "run")
  /\ UNCHANGED <<switchVars, refs, tlb, tableVars, lockVars, epoch>>

-----------------------------------------------------------------------------
SwitchStep(c) == LoadCr3(c) \/ LeaveSpace(c) \/ Release(c) \/ Teardown(c)
ChangeStep(c) ==
  \/ NoChange(c) \/ DetachPage(c) \/ SampleResidents(c)
  \/ RequestDone(c) \/ FlipEpoch(c) \/ FreeDetached(c)
  \/ \E r \in {"ro", "rw"} : ProtectPage(c, r) \/ \E f \in Frame : MapPage(c, f, r)
CopyStep(c) ==
  \/ PublishAccess(c) \/ Recheck(c) \/ Walk(c) \/ EndAccess(c)
  \/ pc[c] = "retry" /\ LoadEpoch(c)
SpinStep(c) == LockVm(c) \/ SendRequest(c)

\* What a program makes its CPU begin.
Begin(c) ==
  \/ \E s \in Cr3 : BeginSwitch(c, s)
  \/ \E what \in {"fault", "unmap", "protect"} : BeginChange(c, what)
  \/ Exit(c) \/ Retain(c)
  \/ pc[c] = "run" /\ LoadEpoch(c)

Next ==
  \E c \in Cpu : \/ Begin(c) \/ Fill(c) \/ Acknowledge(c)
                 \/ SwitchStep(c) \/ ChangeStep(c) \/ CopyStep(c) \/ SpinStep(c)

Spec == Init /\ [][Next]_vars

(* A CPU keeps executing, and an IPI stays pending in its interrupt         *)
(* controller until it accepts interrupts, however briefly (hence SF).  No  *)
(* fairness is assumed of the spin locks: a contender may lose every race.  *)
Fairness ==
  \A c \in Cpu :
    /\ WF_vars(SwitchStep(c)) /\ WF_vars(ChangeStep(c))
    /\ WF_vars(CopyStep(c)) /\ SF_vars(Acknowledge(c))

FairSpec == Spec /\ Fairness

-----------------------------------------------------------------------------
(* Properties.                                                             *)

\* The type of every variable; in particular no access count goes below zero.
TypeOK ==
  /\ pc \in [Cpu -> Locals]
  /\ op \in [Cpu -> {None, "fault", "unmap", "protect"}]
  /\ cr3 \in [Cpu -> Cr3] /\ other \in [Cpu -> Cr3]
  /\ active \in [Space -> SUBSET Cpu]
  /\ refs \in [Space -> Nat]
  /\ pt \in [Space -> Entry \union {None}]
  /\ tlb \in [Cpu -> Entry \union {None}]
  /\ free \subseteq Frame
  /\ vmLock \in [Space -> Cpu \union {None}]
  /\ detached \in [Cpu -> Frame \union {None}]
  /\ targets \in [Cpu -> SUBSET Cpu]
  /\ reqLock \in Cpu \union {None}
  /\ toAck \subseteq Cpu
  /\ epoch \in [Space -> Nat]
  /\ counts \in [Space -> [0 .. 1 -> Nat]]
  /\ seen \in [Cpu -> Nat]
  /\ held \in [Cpu -> Frame \union {None}]

\* Frames that belong to space s: the mapped one, and one that the holder of
\* its VM lock has detached but not yet freed.
OwnFrames(s) ==
  {f \in Frame : \/ pt[s] # None /\ pt[s].frame = f
                 \/ \E c \in Cpu : vmLock[s] = c /\ detached[c] = f}

\* A copy in progress reaches only a frame of its own space, never one that
\* was freed or given to another: drainAccesses waits for it
\* (address_space.zig 145-176).
CopyStaysInside ==
  \A c \in Cpu : held[c] # None => held[c] \in OwnFrames(cr3[c])

\* No TLB translates to a frame that was freed: it is freed only after every
\* CPU that may hold the entry has acknowledged or reloaded its CR3.
NoStaleFrame ==
  \A c \in Cpu : tlb[c] # None =>
    cr3[c] \in Space /\ tlb[c].frame \in OwnFrames(cr3[c])

\* Once a change has released the VM lock, every TLB agrees with the table,
\* rights included: no CPU keeps a right that protect took away
\* (user_vm.zig 371-373).
TlbCoherent ==
  \A c \in Cpu : tlb[c] # None /\ vmLock[cr3[c]] = None => tlb[c] = pt[cr3[c]]

\* Every frame is in exactly one place: the allocator, one page table, or a
\* change that is about to free it.  None leaks and none is freed twice.
FramesConserved ==
  \A f \in Frame :
    Cardinality({s \in Space : pt[s] # None /\ pt[s].frame = f})
      + Cardinality({c \in Cpu : detached[c] = f})
      + (IF f \in free THEN 1 ELSE 0) = 1

\* A published request is always acknowledged, so its one-second timeout never
\* fires, and a writer always finishes draining: a change past its spin locks
\* ends, whatever the other CPUs switch to, copy or change meanwhile.
ChangesEnd ==
  \A c \in Cpu : pc[c] \in {"acks", "drain", "draining"} ~> pc[c] = "run"

=============================================================================
