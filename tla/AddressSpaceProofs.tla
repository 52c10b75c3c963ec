------------------------- MODULE AddressSpaceProofs -------------------------
(***************************************************************************)
(* Theorems about AddressSpace, for any number of CPUs, spaces and frames: *)
(* every frame is in one place, no TLB and no copy reaches a frame that    *)
(* was given away, and after a change every TLB agrees with the table.     *)
(***************************************************************************)
EXTENDS AddressSpace, FiniteSetTheorems, TLAPS

\* A CPU that performs an operation, and one that performs a change and holds
\* the VM lock of its space.
Switching == {"load", "leave", "exitLoad", "exitLeave", "release", "teardown"}
Invalidating == {"sample", "request", "acks"}
Changing == Invalidating \union {"change", "drain", "draining"}
Counting == {"recheck", "walk", "copy"}

\* Which tables a CPU uses at each place of switchTo and of the exit path.
Placed(c) ==
  /\ pc[c] \in {"load", "leave"} => other[c] # cr3[c]
  /\ pc[c] = "exitLoad" => other[c] = Kernel /\ cr3[c] \in Space
  /\ pc[c] \in {"exitLeave", "release", "teardown"} => cr3[c] = Kernel /\ other[c] \in Space
  /\ pc[c] \notin Switching => other[c] = Kernel
  /\ pc[c] \notin Switching \union {"run"} => cr3[c] \in Space

\* A CPU is resident in every space it has loaded or is about to load.
Resident(c) ==
  /\ cr3[c] \in Space => c \in active[cr3[c]]
  /\ pc[c] = "load" /\ other[c] \in Space => c \in active[other[c]]

\* The VM lock is held exactly by a CPU that changes the space it has loaded.
Locked(c) ==
  /\ pc[c] \in Changing => vmLock[cr3[c]] = c
  /\ \A s \in Space : vmLock[s] = c => pc[c] \in Changing /\ cr3[c] = s
  /\ pc[c] = "acks" <=> reqLock = c

\* A frame is detached from the unlinking of its page until it is freed, and
\* meanwhile the page has no other.
Detaching(c) ==
  /\ detached[c] # None <=> pc[c] \in Changing \ {"change"} /\ op[c] = "unmap"
  /\ detached[c] # None => pt[cr3[c]] = None
  /\ pc[c] \in {"drain", "draining"} => op[c] = "unmap"

\* The CPUs that use a reference of s.
Users(s) == {c \in Cpu : cr3[c] = s \/ (other[c] = s /\ pc[c] # "teardown")}

\* Every user has a reference, and the last one is gone when a space is torn down.
Referenced ==
  /\ \A s \in Space : Cardinality(Users(s)) <= refs[s]
  /\ \A c \in Cpu : pc[c] = "teardown" => refs[other[c]] = 0

\* The CPUs whose access to s is counted under a parity.
Accesses(s, parity) ==
  {c \in Cpu : cr3[c] = s /\ pc[c] \in Counting /\ seen[c] % 2 = parity}

CountsExact == \A s \in Space, parity \in 0 .. 1 : counts[s][parity] = Cardinality(Accesses(s, parity))

\* An access that passed its second look at the epoch was counted under the
\* present one, or under the last if a change is draining that.
EpochOf(c) ==
  /\ pc[c] = "draining" => seen[c] + 1 = epoch[cr3[c]]
  /\ pc[c] \in {"walk", "copy"} =>
       \/ seen[c] = epoch[cr3[c]]
       \/ /\ seen[c] + 1 = epoch[cr3[c]]
          /\ \E h \in Cpu : vmLock[cr3[c]] = h /\ pc[h] = "draining"

\* A copy reaches the page of its space, or one whose change will wait for it.
CopyCovered(c) ==
  held[c] # None =>
    /\ pc[c] = "copy"
    /\ \/ pt[cr3[c]] # None /\ pt[cr3[c]].frame = held[c]
       \/ \E h \in Cpu : /\ vmLock[cr3[c]] = h /\ detached[h] = held[c]
                         /\ pc[h] = "draining" => seen[c] = seen[h]

\* The change of its space has yet to flush the TLB of c.
Flushing(c) ==
  \E h \in Cpu : /\ vmLock[cr3[c]] = h
                 /\ \/ pc[h] = "sample"
                    \/ pc[h] = "request" /\ c \in targets[h] \union {h}
                    \/ pc[h] = "acks" /\ c \in toAck

\* A TLB agrees with the table, or is about to be flushed and translates to the
\* frame that the page has or had.
Translates(c) ==
  tlb[c] # None =>
    /\ cr3[c] \in Space
    /\ \/ tlb[c] = pt[cr3[c]]
       \/ Flushing(c) /\ tlb[c].frame \in OwnFrames(cr3[c])

\* Every frame is in one place.
OnePlace ==
  /\ \A s, x \in Space : s # x /\ pt[s] # None /\ pt[x] # None => pt[s].frame # pt[x].frame
  /\ \A c, d \in Cpu : c # d /\ detached[c] # None => detached[c] # detached[d]
  /\ \A s \in Space, c \in Cpu : pt[s] # None => pt[s].frame # detached[c]
  /\ \A s \in Space : pt[s] # None => pt[s].frame \notin free
  /\ \A c \in Cpu : detached[c] \notin free
  /\ \A f \in Frame : \/ f \in free
                      \/ \E s \in Space : pt[s] # None /\ pt[s].frame = f
                      \/ \E c \in Cpu : detached[c] = f

IInv ==
  /\ TypeOK /\ Referenced /\ CountsExact /\ OnePlace
  /\ \A c \in Cpu : /\ Placed(c) /\ Resident(c) /\ Locked(c) /\ Detaching(c)
                   /\ EpochOf(c) /\ CopyCovered(c) /\ Translates(c)

\* The actions, one disjunct each.
Switch(c) ==
  \/ \E s \in Cr3 : BeginSwitch(c, s)
  \/ LoadCr3(c) \/ LeaveSpace(c) \/ Exit(c) \/ Release(c) \/ Teardown(c)
Change(c) ==
  \/ \E what \in {"fault", "unmap", "protect"} : BeginChange(c, what)
  \/ LockVm(c) \/ NoChange(c) \/ DetachPage(c) \/ SampleResidents(c)
  \/ SendRequest(c) \/ RequestDone(c) \/ FlipEpoch(c) \/ FreeDetached(c)
  \/ \E r \in {"ro", "rw"} : ProtectPage(c, r)
  \/ \E r \in {"ro", "rw"}, f \in Frame : MapPage(c, f, r)
Copy(c) == LoadEpoch(c) \/ PublishAccess(c) \/ Recheck(c) \/ Walk(c) \/ EndAccess(c)
Hardware(c) == Fill(c) \/ Acknowledge(c) \/ Retain(c)

\* Every step is one of these, by one CPU.
LEMMA StepCases ==
  ASSUME Next
  PROVE  \E c \in Cpu : Switch(c) \/ Change(c) \/ Copy(c) \/ Hardware(c)
BY DEF Next, Begin, SwitchStep, ChangeStep, CopyStep, SpinStep, Switch, Change,
       Copy, Hardware

-----------------------------------------------------------------------------
(* Which tables a CPU uses, and the residency it publishes.                *)

\* Every step keeps a CPU on the tables its place in switchTo calls for.
LEMMA PlacedStep ==
  ASSUME IInv, NEW c \in Cpu, Switch(c) \/ Change(c) \/ Copy(c) \/ Hardware(c),
         NEW d \in Cpu
  PROVE  Placed(d)'
<1> USE AddressSpaceAssumption DEF IInv, TypeOK, Placed, Switching, Goto, Cr3,
        switchVars, tableVars, lockVars, accessVars, Locals
<1>1. CASE Switch(c)
  BY <1>1 DEF Switch, BeginSwitch, LoadCr3, LeaveSpace, Exit, Release, Teardown
<1>2. CASE Change(c)
  BY <1>2 DEF Change, BeginChange, LockVm, NoChange, DetachPage, SampleResidents,
     SendRequest, RequestDone, FlipEpoch, FreeDetached, ProtectPage, MapPage,
     AfterInvalidate, UnlockVm
<1>3. CASE Copy(c)
  BY SMTT(30), <1>3 DEF Copy, LoadEpoch, PublishAccess, Recheck, Walk, EndAccess
<1>4. CASE Hardware(c)
  BY <1>4 DEF Hardware, Fill, Acknowledge, Retain
<1> QED BY <1>1, <1>2, <1>3, <1>4

\* No step leaves a CPU with a space loaded in which it is not resident.
LEMMA ResidentStep ==
  ASSUME IInv, NEW c \in Cpu, Switch(c) \/ Change(c) \/ Copy(c) \/ Hardware(c),
         NEW d \in Cpu
  PROVE  Resident(d)'
<1> USE AddressSpaceAssumption DEF IInv, TypeOK, Goto, Cr3, switchVars, tableVars,
        lockVars, accessVars, Placed, Resident, Switching
<1>1. CASE Switch(c)
  <2>1. CASE \E s \in Cr3 : BeginSwitch(c, s)
    BY <2>1 DEF BeginSwitch
  <2>2. CASE LoadCr3(c)
    BY <2>2 DEF LoadCr3
  <2>3. CASE LeaveSpace(c)
    BY <2>3 DEF LeaveSpace
  <2>4. CASE Exit(c) \/ Release(c) \/ Teardown(c)
    BY <2>4 DEF Exit, Release, Teardown
  <2> QED BY <1>1, <2>1, <2>2, <2>3, <2>4 DEF Switch
<1>2. CASE Change(c)
  BY SMTT(30), <1>2 DEF Change, BeginChange, LockVm, NoChange, DetachPage, SampleResidents,
     SendRequest, RequestDone, FlipEpoch, FreeDetached, ProtectPage, MapPage,
     AfterInvalidate, UnlockVm
<1>3. CASE Copy(c)
  BY <1>3 DEF Copy, LoadEpoch, PublishAccess, Recheck, Walk, EndAccess
<1>4. CASE Hardware(c)
  BY <1>4 DEF Hardware, Fill, Acknowledge, Retain
<1> QED BY <1>1, <1>2, <1>3, <1>4

\* Releasing one CPU's VM lock leaves every other CPU's lock alone.
LEMMA UnlockOther ==
  ASSUME TypeOK, NEW c \in Cpu, NEW d \in Cpu, Locked(c), Locked(d), d # c,
         pc[c] \in Changing, cr3[c] \in Space, UnlockVm(c), cr3' = cr3,
         reqLock' = reqLock
  PROVE  Locked(d)'
<1>1. /\ vmLock[cr3[c]] = c
      /\ vmLock' = [vmLock EXCEPT ![cr3[c]] = None]
      /\ pc'[d] = pc[d]
      /\ vmLock \in [Space -> Cpu \union {None}]
  BY DEF Locked, UnlockVm, Goto, TypeOK
<1>2. pc[d] \in Changing => vmLock[cr3[d]] = d /\ cr3[d] # cr3[c]
  BY <1>1 DEF Locked
<1>3. \A s \in Space : vmLock'[s] = d => vmLock[s] = d
  BY <1>1, AddressSpaceAssumption
<1>4. pc'[d] \in Changing => vmLock'[cr3'[d]] = d
  BY <1>1, <1>2
<1> QED BY <1>1, <1>3, <1>4 DEF Locked

\* The VM lock and the request lock stay with the CPUs that are inside them.
LEMMA LockedStep ==
  ASSUME IInv, NEW c \in Cpu, Switch(c) \/ Change(c) \/ Copy(c) \/ Hardware(c),
         NEW d \in Cpu
  PROVE  Locked(d)'
<1> USE AddressSpaceAssumption DEF IInv, TypeOK, Goto, Cr3, switchVars, tableVars,
        lockVars, accessVars, Placed, Locked, Switching, Changing, Invalidating
<1>0. TypeOK /\ Locked(c) /\ Locked(d)
  OBVIOUS
<1>1. CASE Switch(c)
  BY <1>1 DEF Switch, BeginSwitch, LoadCr3, LeaveSpace, Exit, Release, Teardown
<1>2. CASE Change(c)
  <2>1. CASE \E what \in {"fault", "unmap", "protect"} : BeginChange(c, what)
    BY <2>1 DEF BeginChange
  <2>2. CASE LockVm(c)
    <3>1. vmLock' = [vmLock EXCEPT ![cr3[c]] = c] /\ cr3[c] \in Space
      BY <2>2 DEF LockVm
    <3>2. CASE d = c
      BY <2>2, <3>1, <3>2 DEF LockVm
    <3>3. CASE d # c
      BY <2>2, <3>1, <3>3 DEF LockVm
    <3> QED BY <3>2, <3>3
  <2>3. CASE \/ NoChange(c)
           \/ \E r \in {"ro", "rw"}, f \in Frame : MapPage(c, f, r)
    <3>1. CASE d = c
      BY <2>3, <3>1 DEF NoChange, MapPage, UnlockVm
    <3>2. CASE d # c
      <4>1. /\ pc[c] \in Changing /\ cr3[c] \in Space /\ UnlockVm(c)
            /\ cr3' = cr3 /\ reqLock' = reqLock
        BY <2>3 DEF NoChange, MapPage
      <4> HIDE DEF TypeOK, Locked, IInv
      <4> QED BY <1>0, <3>2, <4>1, UnlockOther
    <3> QED BY <3>1, <3>2
  <2>4. CASE SampleResidents(c)
    <3>1. CASE d = c
      BY <2>4, <3>1 DEF SampleResidents, AfterInvalidate, UnlockVm
    <3>2. CASE d # c
      <4>1. pc[c] = "sample" /\ cr3' = cr3 /\ reqLock' = reqLock
        BY <2>4 DEF SampleResidents
      <4>4. pc[c] \in Changing /\ cr3[c] \in Space
        BY <4>1
      <4>5. \/ UnlockVm(c)
            \/ vmLock' = vmLock /\ \E where \in Locals : Goto(c, where)
        BY <2>4 DEF SampleResidents, AfterInvalidate, Locals
      <4>2. CASE UnlockVm(c)
        <5> HIDE DEF TypeOK, Locked, IInv
        <5> QED BY <1>0, <3>2, <4>1, <4>2, <4>4, UnlockOther
      <4>3. CASE vmLock' = vmLock /\ \E where \in Locals : Goto(c, where)
        BY <3>2, <4>1, <4>3
      <4> QED BY <4>2, <4>3, <4>5
    <3> QED BY <3>1, <3>2
  <2>5. CASE RequestDone(c)
    BY SMTT(30), <2>5 DEF RequestDone, AfterInvalidate, UnlockVm
  <2>6. CASE FreeDetached(c)
    BY <2>6 DEF FreeDetached, UnlockVm
  <2>7. CASE \/ DetachPage(c)
           \/ \E r \in {"ro", "rw"} : ProtectPage(c, r)
           \/ FlipEpoch(c)
    BY <2>7 DEF DetachPage, ProtectPage, FlipEpoch
  <2>8. CASE SendRequest(c)
    BY <2>8 DEF SendRequest
  <2> QED BY <1>2, <2>1, <2>2, <2>3, <2>4, <2>5, <2>6, <2>7, <2>8 DEF Change
<1>3. CASE Copy(c)
  BY <1>3 DEF Copy, LoadEpoch, PublishAccess, Recheck, Walk, EndAccess
<1>4. CASE Hardware(c)
  BY <1>4 DEF Hardware, Fill, Acknowledge, Retain
<1> QED BY <1>1, <1>2, <1>3, <1>4

\* A frame stays detached until its change frees it.
LEMMA DetachingStep ==
  ASSUME IInv, NEW c \in Cpu, Switch(c) \/ Change(c) \/ Copy(c) \/ Hardware(c),
         NEW d \in Cpu
  PROVE  Detaching(d)'
<1> USE AddressSpaceAssumption DEF IInv, TypeOK, Goto, Cr3, switchVars, tableVars,
        lockVars, accessVars, Placed, Locked, Detaching, Switching, Changing, Invalidating, Entry
<1>1. CASE Switch(c)
  BY <1>1 DEF Switch, BeginSwitch, LoadCr3, LeaveSpace, Exit, Release, Teardown
<1>2. CASE Change(c)
  <2>1. CASE \E what \in {"fault", "unmap", "protect"} : BeginChange(c, what)
    BY <2>1 DEF BeginChange
  <2>2. CASE LockVm(c)
    BY <2>2 DEF LockVm
  <2>3. CASE NoChange(c)
    BY <2>3 DEF NoChange, UnlockVm
  <2>9. CASE \E r \in {"ro", "rw"}, f \in Frame : MapPage(c, f, r)
    BY <2>9 DEF MapPage, UnlockVm
  <2>4. CASE SampleResidents(c)
    BY <2>4 DEF SampleResidents, AfterInvalidate, UnlockVm
  <2>5. CASE RequestDone(c)
    BY <2>5 DEF RequestDone, AfterInvalidate, UnlockVm
  <2>6. CASE FreeDetached(c)
    BY <2>6 DEF FreeDetached, UnlockVm
  <2>7. CASE \E r \in {"ro", "rw"} : ProtectPage(c, r)
    BY <2>7 DEF ProtectPage
  <2>10. CASE FlipEpoch(c)
    BY <2>10 DEF FlipEpoch
  <2>11. CASE DetachPage(c)
    <3>1. CASE d = c
      BY SMTT(30), <2>11, <3>1 DEF DetachPage
    <3>2. CASE d # c
      BY <2>11, <3>2 DEF DetachPage
    <3> QED BY <3>1, <3>2
  <2>8. CASE SendRequest(c)
    BY <2>8 DEF SendRequest
  <2> QED BY <1>2, <2>1, <2>2, <2>3, <2>4, <2>5, <2>6, <2>7, <2>8, <2>9, <2>10, <2>11 DEF Change
<1>3. CASE Copy(c)
  BY <1>3 DEF Copy, LoadEpoch, PublishAccess, Recheck, Walk, EndAccess
<1>4. CASE Hardware(c)
  BY <1>4 DEF Hardware, Fill, Acknowledge, Retain
<1> QED BY <1>1, <1>2, <1>3, <1>4

-----------------------------------------------------------------------------
(* References.                                                             *)

\* CPUs are finitely many: how adding and removing one counts.
LEMMA CountCpus ==
  ASSUME NEW S \in SUBSET Cpu, NEW T \in SUBSET S
  PROVE  /\ IsFiniteSet(S) /\ Cardinality(S) \in Nat /\ Cardinality(T) \in Nat
         /\ Cardinality(T) <= Cardinality(S)
         /\ Cardinality(S) = 0 => S = {}
         /\ \A c \in S : Cardinality(S) >= 1 /\ Cardinality(S \ {c}) = Cardinality(S) - 1
         /\ \A c \in Cpu \ S : Cardinality(S \union {c}) = Cardinality(S) + 1
<1>1. IsFiniteSet(S) /\ IsFiniteSet(T)
  BY FS_Subset, AddressSpaceAssumption
<1>2. Cardinality(S) \in Nat /\ Cardinality(T) \in Nat
  BY <1>1, FS_CardinalityType
<1>3. Cardinality(T) <= Cardinality(S)
  BY <1>1, FS_Subset
<1>4. Cardinality(S) = 0 => S = {}
  BY <1>1, FS_EmptySet
<1>5. ASSUME NEW c \in S
      PROVE  Cardinality(S) >= 1 /\ Cardinality(S \ {c}) = Cardinality(S) - 1
  <2>1. Cardinality(S) # 0
    BY <1>4
  <2>2. Cardinality(S \ {c}) = Cardinality(S) - 1
    BY <1>1, FS_RemoveElement
  <2>3. Cardinality(S) >= 1
    BY <1>2, <2>1
  <2> QED BY <2>2, <2>3
<1>6. ASSUME NEW c \in Cpu \ S
      PROVE  Cardinality(S \union {c}) = Cardinality(S) + 1
  BY <1>1, FS_AddElement
<1> QED BY <1>1, <1>2, <1>3, <1>4, <1>5, <1>6

\* A space with a user has a reference left, so it is not being torn down.
LEMMA UserKeepsSpace ==
  ASSUME IInv, NEW s \in Space, NEW c \in Users(s)
  PROVE  /\ refs[s] \in Nat /\ refs[s] >= 1
         /\ \A d \in Cpu : pc[d] = "teardown" => other[d] # s
<1>1. Users(s) \in SUBSET Cpu
  BY DEF Users
<1>2. Cardinality(Users(s)) \in Nat /\ Cardinality(Users(s)) >= 1
  BY <1>1, CountCpus
<1>3. Cardinality(Users(s)) <= refs[s] /\ refs[s] \in Nat
  BY DEF IInv, Referenced, TypeOK
<1>4. refs[s] >= 1
  <2> DEFINE n == Cardinality(Users(s))
  <2>1. n \in Nat /\ n >= 1 /\ n <= refs[s] /\ refs[s] \in Nat
    BY <1>2, <1>3
  <2> HIDE DEF n
  <2> QED BY <2>1
<1> QED BY <1>3, <1>4 DEF IInv, Referenced

\* Whoever tears a space down is alone with it.
LEMMA TeardownAlone ==
  ASSUME IInv, NEW c \in Cpu, pc[c] = "teardown", NEW d \in Cpu
  PROVE  cr3[d] # other[c] /\ (other[d] = other[c] => pc[d] = "teardown")
<1>1. other[c] \in Space
  BY DEF IInv, Placed
<1>2. d \notin Users(other[c])
  BY <1>1, UserKeepsSpace
<1> QED BY <1>2 DEF Users

\* A step that adds no user and drops no reference keeps every user's.
LEMMA NoNewUser ==
  ASSUME IInv, NEW s \in Space, Users(s)' \subseteq Users(s), refs'[s] = refs[s]
  PROVE  (Cardinality(Users(s)) <= refs[s])'
<1>1. Users(s) \in SUBSET Cpu
  BY DEF Users
<1>2. Cardinality(Users(s)) <= refs[s] /\ refs[s] \in Nat
  BY DEF IInv, Referenced, TypeOK
<1>3. /\ Cardinality(Users(s)') \in Nat /\ Cardinality(Users(s)) \in Nat
      /\ Cardinality(Users(s)') <= Cardinality(Users(s))
  BY <1>1, CountCpus
<1> DEFINE n == Cardinality(Users(s))
           m == Cardinality(Users(s)')
<1>4. n <= refs[s] /\ m <= n /\ n \in Nat /\ m \in Nat /\ refs[s] \in Nat
  BY <1>2, <1>3
<1>5. m <= refs[s]
  <2> HIDE DEF n, m
  <2> QED BY <1>4
<1> QED BY <1>5

\* No step uses a reference that it does not hold.
LEMMA ReferencedStep ==
  ASSUME IInv, NEW c \in Cpu, Switch(c) \/ Change(c) \/ Copy(c) \/ Hardware(c)
  PROVE  Referenced'
<1> DEFINE Kept == /\ \A s \in Space : Users(s)' \subseteq Users(s)
                   /\ refs' = refs
                   /\ \A d \in Cpu : pc'[d] = "teardown" =>
                        pc[d] = "teardown" /\ other'[d] = other[d]
<1>0. ASSUME Kept PROVE Referenced'
  <2>1. \A s \in Space : (Cardinality(Users(s)) <= refs[s])'
    BY <1>0, NoNewUser
  <2>2. \A d \in Cpu : (pc[d] = "teardown" => refs[other[d]] = 0)'
    BY <1>0 DEF IInv, Referenced
  <2> QED BY <2>1, <2>2 DEF Referenced
<1> HIDE DEF Kept
<1>1. ASSUME NEW s \in Cr3, BeginSwitch(c, s) PROVE Referenced'
  <2>1. /\ pc[c] = "run" /\ s # cr3[c] /\ other[c] = Kernel /\ cr3' = cr3
        /\ pc' = [pc EXCEPT ![c] = "load"] /\ other' = [other EXCEPT ![c] = s]
        /\ refs' = refs
    BY <1>1 DEF BeginSwitch, Goto, IInv, Placed, Switching
  <2>2. ASSUME NEW x \in Space, x # s
        PROVE  (Cardinality(Users(x)) <= refs[x])'
    <3>1. Users(x)' \subseteq Users(x)
      BY <2>1, <2>2 DEF Users, IInv, TypeOK
    <3> QED BY <2>1, <3>1, NoNewUser
  <2>3. ASSUME s \in Space
        PROVE  (Cardinality(Users(s)) <= refs[s])'
    <3> DEFINE R == {d \in Cpu : s \in {cr3[d], other[d]}}
    <3>1. Cardinality(R) < refs[s] /\ refs[s] \in Nat
      BY <1>1, <2>3 DEF BeginSwitch, Runnable, IInv, TypeOK
    <3>2. R \in SUBSET Cpu /\ c \in Cpu \ R
      BY <2>1, <2>3, AddressSpaceAssumption
    <3>3. Cardinality(R) \in Nat /\ Cardinality(R \union {c}) = Cardinality(R) + 1
      BY <3>2, CountCpus
    <3>4. Users(s)' \subseteq R \union {c} /\ R \union {c} \in SUBSET Cpu
      BY <2>1 DEF Users, IInv, TypeOK
    <3>5. /\ Cardinality(Users(s)') \in Nat
          /\ Cardinality(Users(s)') <= Cardinality(R \union {c})
      BY <3>4, CountCpus
    <3> DEFINE r == Cardinality(R)
               n == Cardinality(Users(s)')
    <3>6. r \in Nat /\ n \in Nat /\ n <= r + 1 /\ r < refs[s] /\ refs[s] \in Nat
      BY <3>1, <3>3, <3>5
    <3>7. n <= refs[s]
      <4> HIDE DEF r, n
      <4> QED BY <3>6
    <3> QED BY <2>1, <3>7
  <2>4. \A d \in Cpu : (pc[d] = "teardown" => refs[other[d]] = 0)'
    BY <2>1 DEF IInv, Referenced, TypeOK
  <2> QED BY <2>2, <2>3, <2>4 DEF Referenced
<1>2. CASE LoadCr3(c)
  BY <1>0, <1>2 DEF Kept, LoadCr3, Goto, IInv, TypeOK, Users
<1>3. CASE LeaveSpace(c)
  BY <1>0, <1>3, AddressSpaceAssumption DEF Kept, LeaveSpace, Goto, IInv, TypeOK, Users
<1>4. CASE Exit(c)
  BY <1>0, <1>4, AddressSpaceAssumption DEF Kept, Exit, Goto, IInv, TypeOK, Users
<1>5. CASE Teardown(c)
  BY <1>0, <1>5, AddressSpaceAssumption DEF Kept, Teardown, Goto, IInv, TypeOK, Users
<1>6. CASE Release(c)
  <2>0. PICK s \in Space : s = other[c]
    BY <1>6 DEF Release, IInv, Placed
  <2>1. /\ s \in Space /\ pc[c] = "release" /\ cr3' = cr3 /\ cr3[c] = Kernel
        /\ refs' = [refs EXCEPT ![s] = @ - 1]
        /\ \/ refs[s] = 1 /\ pc' = [pc EXCEPT ![c] = "teardown"] /\ other' = other
           \/ pc' = [pc EXCEPT ![c] = "run"] /\ other' = [other EXCEPT ![c] = Kernel]
    BY <1>6, <2>0 DEF Release, Goto, IInv, Placed
  <2>2. c \in Users(s)
    BY <2>0, <2>1 DEF Users
  <2>3. /\ refs[s] \in Nat /\ refs[s] >= 1
        /\ \A d \in Cpu : pc[d] = "teardown" => other[d] # s
    BY <2>1, <2>2, UserKeepsSpace
  <2>4. ASSUME NEW x \in Space, x # s
        PROVE  (Cardinality(Users(x)) <= refs[x])'
    <3>1. Users(x)' \subseteq Users(x)
      BY <2>0, <2>1, <2>4, AddressSpaceAssumption DEF Users, IInv, TypeOK
    <3>2. refs'[x] = refs[x]
      BY <2>1, <2>4 DEF IInv, TypeOK
    <3> QED BY <3>1, <3>2, NoNewUser
  <2>5. (Cardinality(Users(s)) <= refs[s])'
    <3>1. Users(s)' = Users(s) \ {c}
      BY <2>0, <2>1, AddressSpaceAssumption DEF Users, IInv, TypeOK
    <3>2. Users(s) \in SUBSET Cpu
      BY DEF Users
    <3>3. /\ Cardinality(Users(s)) \in Nat
          /\ Cardinality(Users(s) \ {c}) = Cardinality(Users(s)) - 1
      BY <2>2, <3>2, CountCpus
    <3>4. Cardinality(Users(s)) <= refs[s] /\ refs'[s] = refs[s] - 1
      BY <2>1 DEF IInv, Referenced, TypeOK
    <3> DEFINE n == Cardinality(Users(s))
    <3>5. Cardinality(Users(s)') = n - 1 /\ n \in Nat /\ n <= refs[s]
      BY <3>1, <3>3, <3>4
    <3> HIDE DEF n
    <3> QED BY <2>3, <3>4, <3>5
  <2>6. \A d \in Cpu : (pc[d] = "teardown" => refs[other[d]] = 0)'
    BY <2>0, <2>1, <2>3, AddressSpaceAssumption DEF IInv, Referenced, TypeOK, Cr3, Placed
  <2> QED BY <2>4, <2>5, <2>6 DEF Referenced
<1>7. CASE Retain(c)
  <2> DEFINE s == cr3[c]
  <2>1. /\ s \in Space /\ pc' = pc /\ cr3' = cr3 /\ other' = other
        /\ refs' = [refs EXCEPT ![s] = @ + 1]
    BY <1>7 DEF Retain, switchVars
  <2>2. c \in Users(s)
    BY DEF Users
  <2>3. \A x \in Space : Users(x)' = Users(x) /\ refs[x] \in Nat /\ refs'[x] >= refs[x]
    BY <2>1 DEF Users, IInv, TypeOK
  <2>4. \A x \in Space : (Cardinality(Users(x)) <= refs[x])'
    <3>1. ASSUME NEW x \in Space PROVE Cardinality(Users(x)) \in Nat
      BY CountCpus DEF Users
    <3>2. \A x \in Space : Cardinality(Users(x)) <= refs[x] /\ refs'[x] \in Nat
      BY <2>1 DEF IInv, Referenced, TypeOK
    <3> QED BY <2>3, <3>1, <3>2
  <2>5. \A d \in Cpu : pc[d] = "teardown" => other[d] # s
    BY <2>1, <2>2, UserKeepsSpace
  <2>6. \A d \in Cpu : (pc[d] = "teardown" => refs[other[d]] = 0)'
    BY <2>1, <2>5 DEF IInv, Referenced, TypeOK, Placed
  <2> QED BY <2>4, <2>6 DEF Referenced
<1>8. CASE Change(c)
  <2>1. /\ cr3' = cr3 /\ other' = other /\ refs' = refs /\ pc[c] # "teardown"
        /\ \E where \in Locals \ {"teardown"} : pc' = [pc EXCEPT ![c] = where]
    BY <1>8 DEF Change, BeginChange, LockVm, NoChange, DetachPage, SampleResidents,
       SendRequest, RequestDone, FlipEpoch, FreeDetached, ProtectPage, MapPage,
       AfterInvalidate, UnlockVm, Goto, Locals, switchVars
  <2> QED BY <1>0, <2>1 DEF Kept, Users, IInv, TypeOK
<1>9. CASE Copy(c)
  <2>1. /\ cr3' = cr3 /\ other' = other /\ refs' = refs /\ pc[c] # "teardown"
        /\ \E where \in Locals \ {"teardown"} : pc' = [pc EXCEPT ![c] = where]
    BY <1>9 DEF Copy, LoadEpoch, PublishAccess, Recheck, Walk, EndAccess, Goto,
       Locals, switchVars
  <2> QED BY <1>0, <2>1 DEF Kept, Users, IInv, TypeOK
<1>10. CASE Fill(c) \/ Acknowledge(c)
  BY <1>0, <1>10 DEF Kept, Fill, Acknowledge, Users, switchVars
<1> QED BY <1>1, <1>2, <1>3, <1>4, <1>5, <1>6, <1>7, <1>8, <1>9, <1>10
    DEF Switch, Hardware

-----------------------------------------------------------------------------
(* Access counts and epochs.                                               *)

\* An epoch has a parity, and the next one has the other.
LEMMA Parity ==
  ASSUME NEW n \in Nat
  PROVE  n % 2 \in 0 .. 1 /\ (n + 1) % 2 # n % 2
OBVIOUS

\* The accesses of a space under a parity are CPUs, counted exactly.
LEMMA AccessesCounted ==
  ASSUME IInv, NEW s \in Space, NEW p \in 0 .. 1
  PROVE  /\ Accesses(s, p) \in SUBSET Cpu
         /\ counts[s][p] = Cardinality(Accesses(s, p))
         /\ counts[s][p] \in Nat
         /\ \A d \in Accesses(s, p) : counts[s][p] >= 1
<1>1. Accesses(s, p) \in SUBSET Cpu
  BY DEF Accesses
<1>2. counts[s][p] = Cardinality(Accesses(s, p)) /\ counts[s][p] \in Nat
  BY DEF IInv, TypeOK, CountsExact
<1>3. \A d \in Accesses(s, p) : Cardinality(Accesses(s, p)) >= 1
  BY <1>1, CountCpus
<1> QED BY <1>1, <1>2, <1>3

\* Each access is counted once, under the parity it saw, and taken back once.
LEMMA CountsExactStep ==
  ASSUME IInv, NEW c \in Cpu, Switch(c) \/ Change(c) \/ Copy(c) \/ Hardware(c)
  PROVE  CountsExact'
<1> DEFINE Same == /\ counts' = counts
                   /\ \A s \in Space, p \in 0 .. 1 : Accesses(s, p)' = Accesses(s, p)
<1>0. ASSUME Same PROVE CountsExact'
  BY <1>0 DEF IInv, CountsExact
<1> HIDE DEF Same
<1>1. CASE Switch(c)
  <2>1. /\ counts' = counts /\ seen' = seen /\ pc[c] \notin Counting
        /\ \E where \in Locals \ Counting : pc' = [pc EXCEPT ![c] = where]
        /\ \A d \in Cpu : d # c => cr3'[d] = cr3[d]
    BY <1>1 DEF Switch, BeginSwitch, LoadCr3, LeaveSpace, Exit, Release, Teardown,
       Goto, Locals, Counting, accessVars, IInv, TypeOK
  <2> QED BY <1>0, <2>1 DEF Same, Accesses, IInv, TypeOK
<1>2. CASE Change(c)
  <2>1. /\ counts' = counts /\ cr3' = cr3 /\ pc[c] \notin Counting
        /\ \E where \in Locals \ Counting : pc' = [pc EXCEPT ![c] = where]
        /\ \A d \in Cpu : d # c => seen'[d] = seen[d]
    BY <1>2 DEF Change, BeginChange, LockVm, NoChange, DetachPage, SampleResidents,
       SendRequest, RequestDone, FlipEpoch, FreeDetached, ProtectPage, MapPage,
       AfterInvalidate, UnlockVm, Goto, Locals, Counting, switchVars, accessVars,
       IInv, TypeOK
  <2> QED BY <1>0, <2>1 DEF Same, Accesses, IInv, TypeOK
<1>3. CASE Hardware(c)
  BY <1>0, <1>3 DEF Same, Hardware, Fill, Acknowledge, Retain, Accesses, switchVars,
     accessVars
<1>4. CASE LoadEpoch(c)
  BY <1>0, <1>4 DEF Same, LoadEpoch, Goto, Counting, Accesses, switchVars, IInv,
     TypeOK
<1>5. CASE Walk(c)
  BY <1>0, <1>5 DEF Same, Walk, Goto, Counting, Accesses, switchVars, IInv, TypeOK
<1> DEFINE p == seen[c] % 2
           s == cr3[c]
<1>6. ASSUME pc[c] \in Counting \union {"count"}
      PROVE  s \in Space /\ p \in 0 .. 1 /\ counts[s][p] \in Nat
  BY ZenonT(40), <1>6, Parity DEF IInv, TypeOK, Placed, Counting, Switching
<1>7. CASE PublishAccess(c)
  <2>1. /\ pc[c] = "count" /\ cr3' = cr3 /\ seen' = seen
        /\ pc' = [pc EXCEPT ![c] = "recheck"]
        /\ counts' = [counts EXCEPT ![s][p] = counts[s][p] + 1]
    BY <1>7 DEF PublishAccess, Counted, Goto, switchVars
  <2>2. ASSUME NEW x \in Space, NEW q \in 0 .. 1
        PROVE  counts'[x][q] = Cardinality(Accesses(x, q)')
    <3>1. CASE x = s /\ q = p
      <4>1. Accesses(x, q)' = Accesses(x, q) \union {c} /\ c \in Cpu \ Accesses(x, q)
        BY <2>1, <3>1 DEF Accesses, Counting, IInv, TypeOK
      <4>2. counts'[x][q] = counts[x][q] + 1
        BY <1>6, <2>1, <3>1 DEF IInv, TypeOK
      <4> QED BY <4>1, <4>2, AccessesCounted, CountCpus
    <3>2. CASE ~(x = s /\ q = p)
      <4>1. Accesses(x, q)' = Accesses(x, q)
        BY <2>1, <3>2 DEF Accesses, Counting, IInv, TypeOK
      <4>2. counts'[x][q] = counts[x][q]
        BY <1>6, <2>1, <3>2 DEF IInv, TypeOK
      <4> QED BY <4>1, <4>2, AccessesCounted
    <3> QED BY <3>1, <3>2
  <2> QED BY <2>2 DEF CountsExact
<1>8. ASSUME /\ pc[c] \in Counting /\ cr3' = cr3
             /\ \E where \in Locals \ Counting : pc' = [pc EXCEPT ![c] = where]
             /\ \A d \in Cpu : d # c => seen'[d] = seen[d]
             /\ counts' = [counts EXCEPT ![s][p] = counts[s][p] - 1]
      PROVE  CountsExact'
  <2>2. ASSUME NEW x \in Space, NEW q \in 0 .. 1
        PROVE  counts'[x][q] = Cardinality(Accesses(x, q)')
    <3>1. CASE x = s /\ q = p
      <4>1. Accesses(x, q)' = Accesses(x, q) \ {c} /\ c \in Accesses(x, q)
        BY <1>8, <3>1 DEF Accesses, IInv, TypeOK
      <4>2. counts'[x][q] = counts[x][q] - 1
        BY <1>6, <1>8, <3>1 DEF IInv, TypeOK
      <4> QED BY <4>1, <4>2, AccessesCounted, CountCpus
    <3>2. CASE ~(x = s /\ q = p)
      <4>1. Accesses(x, q)' = Accesses(x, q)
        BY <1>8, <3>2 DEF Accesses, IInv, TypeOK
      <4>2. counts'[x][q] = counts[x][q]
        BY <1>6, <1>8, <3>2 DEF IInv, TypeOK
      <4> QED BY <4>1, <4>2, AccessesCounted
    <3> QED BY <3>1, <3>2
  <2> QED BY <2>2 DEF CountsExact
<1>9. CASE Recheck(c)
  <2>1. CASE EpochUnchanged(c)
    BY <1>0, <1>9, <2>1 DEF Same, Recheck, Goto, Counting, Accesses, switchVars,
       IInv, TypeOK
  <2>2. CASE ~EpochUnchanged(c)
    BY <1>8, <1>9, <2>2 DEF Recheck, Counted, Goto, Counting, Locals, switchVars,
       IInv, TypeOK
  <2> QED BY <2>1, <2>2
<1>10. CASE EndAccess(c)
  BY <1>8, <1>10 DEF EndAccess, Counted, Goto, Counting, Locals, switchVars, IInv,
     TypeOK
<1> QED BY <1>1, <1>2, <1>3, <1>4, <1>5, <1>7, <1>9, <1>10 DEF Copy

\* When a change has drained an epoch, no counted access was begun under it.
LEMMA DrainedOfOld ==
  ASSUME IInv, NEW c \in Cpu, pc[c] = "draining", Drained(c), NEW d \in Cpu,
         cr3[d] = cr3[c], pc[d] \in Counting
  PROVE  seen[d] # seen[c]
<1>1. cr3[c] \in Space /\ seen[c] % 2 \in 0 .. 1 /\ counts[cr3[c]][seen[c] % 2] = 0
  BY Parity DEF IInv, TypeOK, Placed, Switching, Drained
<1>2. d \notin Accesses(cr3[c], seen[c] % 2)
  BY <1>1, AccessesCounted
<1> QED BY <1>2 DEF Accesses

\* A step of one CPU leaves what another is doing, and the locks it holds, alone.
LEMMA OthersKeep ==
  ASSUME IInv, NEW c \in Cpu, Switch(c) \/ Change(c) \/ Copy(c) \/ Hardware(c),
         NEW d \in Cpu, d # c
  PROVE  /\ pc'[d] = pc[d] /\ cr3'[d] = cr3[d] /\ op'[d] = op[d]
         /\ detached'[d] = detached[d] /\ targets'[d] = targets[d]
         /\ seen'[d] = seen[d] /\ held'[d] = held[d]
         /\ \A s \in Space : vmLock[s] = d => vmLock'[s] = d
<1> USE AddressSpaceAssumption DEF IInv, TypeOK, Goto, Cr3, switchVars, tableVars,
        lockVars, accessVars, Placed, Locked, Switching, Changing, Invalidating
<1>1. CASE Switch(c)
  BY <1>1 DEF Switch, BeginSwitch, LoadCr3, LeaveSpace, Exit, Release, Teardown
<1>2. CASE Change(c)
  <2>1. CASE \E what \in {"fault", "unmap", "protect"} : BeginChange(c, what)
    BY <2>1 DEF BeginChange
  <2>2. CASE LockVm(c)
    BY <2>2 DEF LockVm
  <2>3. CASE \/ NoChange(c)
           \/ \E r \in {"ro", "rw"}, f \in Frame : MapPage(c, f, r)
    BY <2>3 DEF NoChange, MapPage, UnlockVm
  <2>4. CASE SampleResidents(c)
    BY <2>4 DEF SampleResidents, AfterInvalidate, UnlockVm
  <2>5. CASE RequestDone(c)
    BY <2>5 DEF RequestDone, AfterInvalidate, UnlockVm
  <2>6. CASE FreeDetached(c)
    BY <2>6 DEF FreeDetached, UnlockVm
  <2>7. CASE \/ DetachPage(c)
           \/ \E r \in {"ro", "rw"} : ProtectPage(c, r)
           \/ FlipEpoch(c)
    BY <2>7 DEF DetachPage, ProtectPage, FlipEpoch
  <2>8. CASE SendRequest(c)
    BY <2>8 DEF SendRequest
  <2> QED BY <1>2, <2>1, <2>2, <2>3, <2>4, <2>5, <2>6, <2>7, <2>8 DEF Change
<1>3. CASE Copy(c)
  BY <1>3 DEF Copy, LoadEpoch, PublishAccess, Recheck, Walk, EndAccess
<1>4. CASE Hardware(c)
  BY <1>4 DEF Hardware, Fill, Acknowledge, Retain
<1> QED BY <1>1, <1>2, <1>3, <1>4

\* An access that was let in belongs to the present epoch or to the one that a
\* change is draining.
LEMMA EpochOfStep ==
  ASSUME IInv, NEW c \in Cpu, Switch(c) \/ Change(c) \/ Copy(c) \/ Hardware(c),
         NEW d \in Cpu
  PROVE  EpochOf(d)'
<1> USE AddressSpaceAssumption DEF IInv, TypeOK, Goto, Cr3, switchVars, tableVars,
        lockVars, accessVars, Placed, Locked, EpochOf, Switching, Changing, Invalidating
<1>0. \A h \in Cpu : h # c =>
        /\ pc'[h] = pc[h] /\ cr3'[h] = cr3[h] /\ seen'[h] = seen[h]
        /\ \A s \in Space : vmLock[s] = h => vmLock'[s] = h
  BY OthersKeep
<1>00. /\ EpochOf(d) /\ Placed(d) /\ seen[d] \in Nat /\ seen[c] \in Nat
       /\ cr3[c] \in Cr3 /\ cr3[d] \in Cr3 /\ \A s \in Space : epoch[s] \in Nat
       /\ pc[d] \in {"walk", "copy", "draining"} => cr3[d] \in Space
  OBVIOUS
<1>1. CASE Switch(c)
  BY <1>1 DEF Switch, BeginSwitch, LoadCr3, LeaveSpace, Exit, Release, Teardown
<1>2. CASE Change(c)
  <2>1. CASE \E what \in {"fault", "unmap", "protect"} : BeginChange(c, what)
    BY <2>1 DEF BeginChange
  <2>2. CASE LockVm(c)
    BY <2>2 DEF LockVm
  <2>3. CASE NoChange(c)
    BY <2>3 DEF NoChange, UnlockVm
  <2>4. CASE \E r \in {"ro", "rw"}, f \in Frame : MapPage(c, f, r)
    BY <2>4 DEF MapPage, UnlockVm
  <2>5. CASE SampleResidents(c)
    <3>1. /\ pc[c] \in Invalidating /\ pc'[c] \notin {"draining", "walk", "copy"}
          /\ cr3' = cr3 /\ epoch' = epoch /\ seen' = seen
      BY <2>5 DEF SampleResidents, AfterInvalidate, UnlockVm
    <3>2. \A h \in Cpu : pc[h] = "draining" => h # c
      BY <3>1
    <3> HIDE DEF IInv, TypeOK
    <3>3. CASE d = c
      BY <3>1, <3>3
    <3>4. CASE d # c
      BY <1>0, <1>00, <3>1, <3>2, <3>4
    <3> QED BY <3>3, <3>4
  <2>6. CASE RequestDone(c)
    <3>1. /\ pc[c] \in Invalidating /\ pc'[c] \notin {"draining", "walk", "copy"}
          /\ cr3' = cr3 /\ epoch' = epoch /\ seen' = seen
      BY <2>6 DEF RequestDone, AfterInvalidate, UnlockVm
    <3>2. \A h \in Cpu : pc[h] = "draining" => h # c
      BY <3>1
    <3> HIDE DEF IInv, TypeOK
    <3>3. CASE d = c
      BY <3>1, <3>3
    <3>4. CASE d # c
      BY <1>0, <1>00, <3>1, <3>2, <3>4
    <3> QED BY <3>3, <3>4
  <2>7. CASE FreeDetached(c)
    <3>1. /\ pc[c] = "draining" /\ Drained(c) /\ epoch' = epoch /\ cr3' = cr3
          /\ pc'[c] = "run" /\ seen[c] + 1 = epoch[cr3[c]]
      BY <2>7 DEF FreeDetached, UnlockVm
    <3>2. CASE d # c
      <4>1. /\ pc'[d] = pc[d] /\ seen'[d] = seen[d]
            /\ \A h \in Cpu \ {c}, s \in Space :
                 vmLock[s] = h => vmLock'[s] = h /\ pc'[h] = pc[h]
        BY <1>2, <3>2, OthersKeep
      <4>2. pc[d] \in {"walk", "copy"} /\ cr3[d] = cr3[c] => seen[d] = epoch[cr3[d]]
        <5> SUFFICES ASSUME pc[d] \in {"walk", "copy"}, cr3[d] = cr3[c]
                     PROVE  seen[d] = epoch[cr3[d]]
          OBVIOUS
        <5>1. seen[d] # seen[c]
          BY <3>1, DrainedOfOld DEF Counting
        <5>2. seen[d] = epoch[cr3[d]] \/ seen[d] + 1 = epoch[cr3[d]]
          BY <1>00
        <5> HIDE DEF IInv, TypeOK
        <5> QED BY <1>00, <3>1, <5>1, <5>2
      <4>3. pc[d] = "draining" => seen[d] + 1 = epoch[cr3[d]]
        OBVIOUS
      <4>4. ASSUME pc[d] \in {"walk", "copy"}, cr3[d] # cr3[c], seen[d] # epoch[cr3[d]]
            PROVE  \E h \in Cpu \ {c} : vmLock'[cr3'[d]] = h /\ pc'[h] = "draining"
        <5>1. PICK h \in Cpu : vmLock[cr3[d]] = h /\ pc[h] = "draining" /\ cr3[d] \in Space
          <6> HIDE DEF IInv, TypeOK
          <6> QED BY <1>00, <4>4
        <5>2. h # c
          BY <4>4, <5>1
        <5> QED BY <3>1, <4>1, <5>1, <5>2
      <4> QED BY <3>1, <4>1, <4>2, <4>3, <4>4
    <3> QED BY <3>1, <3>2
  <2>8. CASE DetachPage(c)
    BY <2>8 DEF DetachPage
  <2>9. CASE \E r \in {"ro", "rw"} : ProtectPage(c, r)
    BY <2>9 DEF ProtectPage
  <2>10. CASE FlipEpoch(c)
    <3>1. CASE d = c
      BY SMTT(30), <2>10, <3>1 DEF FlipEpoch
    <3>2. CASE d # c /\ cr3[d] = cr3[c]
      <4>1. vmLock[cr3[c]] = c /\ vmLock' = vmLock /\ cr3' = cr3
        BY <2>10 DEF FlipEpoch
      <4>2. pc[d] \in {"walk", "copy"} => seen[d] = epoch[cr3[c]]
        BY <2>10, <3>2, <4>1 DEF FlipEpoch
      <4>3. /\ epoch'[cr3[c]] = epoch[cr3[c]] + 1 /\ pc'[c] = "draining"
            /\ pc'[d] = pc[d] /\ seen'[d] = seen[d]
        <5>1. cr3[c] \in Space /\ pc[c] = "drain"
          BY <2>10 DEF FlipEpoch
        <5> QED BY <2>10, <3>2, <5>1 DEF FlipEpoch
      <4>4. pc[d] # "draining"
        BY <2>10, <3>2, <4>1 DEF FlipEpoch
      <4> QED BY <3>2, <4>1, <4>2, <4>3, <4>4
    <3>3. CASE d # c /\ cr3[d] # cr3[c]
      BY <2>10, <3>3 DEF FlipEpoch
    <3> QED BY <3>1, <3>2, <3>3
  <2>11. CASE SendRequest(c)
    BY <2>11 DEF SendRequest
  <2> QED BY <1>2, <2>1, <2>2, <2>3, <2>4, <2>5, <2>6, <2>7, <2>8, <2>9, <2>10, <2>11 DEF Change
<1>3. CASE Copy(c)
  <2>1. CASE LoadEpoch(c) \/ PublishAccess(c) \/ EndAccess(c)
    BY <2>1 DEF LoadEpoch, PublishAccess, EndAccess
  <2>2. CASE Recheck(c)
    BY <2>2 DEF Recheck, EpochUnchanged
  <2>3. CASE Walk(c)
    BY <2>3 DEF Walk
  <2> QED BY <1>3, <2>1, <2>2, <2>3 DEF Copy
<1>4. CASE Hardware(c)
  BY <1>4 DEF Hardware, Fill, Acknowledge, Retain
<1> QED BY <1>1, <1>2, <1>3, <1>4

-----------------------------------------------------------------------------
(* Copies.                                                                 *)

\* A step that neither changes the page of another CPU's space nor holds its
\* lock leaves that CPU's copy covered.
LEMMA CoveredApart ==
  ASSUME IInv, NEW c \in Cpu, Switch(c) \/ Change(c) \/ Copy(c) \/ Hardware(c),
         NEW d \in Cpu, d # c,
         cr3[d] \in Space => pt'[cr3[d]] = pt[cr3[d]] /\ vmLock[cr3[d]] # c
  PROVE  CopyCovered(d)'
<1>1. \A h \in Cpu \ {c} :
        /\ pc'[h] = pc[h] /\ cr3'[h] = cr3[h] /\ seen'[h] = seen[h]
        /\ detached'[h] = detached[h] /\ held'[h] = held[h]
        /\ \A s \in Space : vmLock[s] = h => vmLock'[s] = h
  BY OthersKeep
<1>2. CopyCovered(d) /\ (pc[d] = "copy" => cr3[d] \in Space)
  BY DEF IInv, Placed, Switching
<1> QED BY <1>1, <1>2 DEF CopyCovered

\* No step frees or gives away a frame under a copy.
LEMMA CopyCoveredStep ==
  ASSUME IInv, NEW c \in Cpu, Switch(c) \/ Change(c) \/ Copy(c) \/ Hardware(c),
         NEW d \in Cpu
  PROVE  CopyCovered(d)'
<1>0. /\ \A e \in Cpu : /\ Placed(e) /\ Locked(e) /\ Detaching(e) /\ EpochOf(e)
                        /\ CopyCovered(e)
      /\ TypeOK
  BY DEF IInv
<1>1. CASE Switch(c)
  <2>1. pc[c] \notin Changing \union {"copy"} /\ held' = held /\ vmLock' = vmLock
    BY <1>1 DEF Switch, BeginSwitch, LoadCr3, LeaveSpace, Exit, Release, Teardown,
       accessVars, lockVars, Changing, Invalidating
  <2>2. CASE d = c
    BY <1>0, <2>1, <2>2 DEF CopyCovered
  <2>3. CASE d # c
    <3>1. cr3[d] \in Space => pt'[cr3[d]] = pt[cr3[d]]
      BY <1>0, <1>1, TeardownAlone DEF Switch, BeginSwitch, LoadCr3, LeaveSpace,
         Exit, Release, Teardown, tableVars, TypeOK
    <3>2. cr3[d] \in Space => vmLock[cr3[d]] # c
      BY <1>0, <2>1 DEF Locked
    <3> QED BY <1>1, <2>3, <3>1, <3>2, CoveredApart
  <2> QED BY <2>2, <2>3
<1>2. CASE Copy(c)
  <2>1. pc[c] \notin Changing /\ pt' = pt
    BY <1>2 DEF Copy, LoadEpoch, PublishAccess, Recheck, Walk, EndAccess, tableVars,
       Changing, Invalidating
  <2>2. CASE d # c
    BY <1>0, <1>2, <2>1, <2>2, CoveredApart DEF Locked
  <2>3. CASE d = c
    <3>1. CASE Walk(c)
      BY <1>0, <2>3, <3>1 DEF Walk, CopyCovered, Goto, switchVars, tableVars, TypeOK
    <3>2. CASE EndAccess(c)
      BY <1>0, <2>3, <3>2 DEF EndAccess, CopyCovered, TypeOK
    <3>3. CASE LoadEpoch(c) \/ PublishAccess(c) \/ Recheck(c)
      <4>1. pc[c] # "copy" /\ held' = held
        BY <3>3 DEF LoadEpoch, PublishAccess, Recheck
      <4> QED BY <1>0, <2>3, <4>1 DEF CopyCovered
    <3> QED BY <1>2, <3>1, <3>2, <3>3 DEF Copy
  <2> QED BY <2>2, <2>3
<1>3. CASE Hardware(c)
  BY <1>0, <1>3 DEF Hardware, Fill, Acknowledge, Retain, CopyCovered, switchVars,
     tableVars, lockVars, accessVars
<1>4. CASE Change(c)
  <2>1. pc[c] \in Changing \union {"run", "lockVm"} /\ held' = held /\ cr3' = cr3
    BY <1>4 DEF Change, BeginChange, LockVm, NoChange, DetachPage, SampleResidents,
       SendRequest, RequestDone, FlipEpoch, FreeDetached, ProtectPage, MapPage,
       accessVars, switchVars, Changing, Invalidating
  <2>2. pc[c] # "copy"
    BY <2>1 DEF Changing, Invalidating
  <2>3. CASE d = c
    BY <1>0, <2>1, <2>2, <2>3 DEF CopyCovered
  <2>4. CASE d # c /\ pc[c] \notin Changing
    <3>1. pt' = pt
      BY <1>4, <2>4 DEF Change, BeginChange, LockVm, NoChange, DetachPage,
         SampleResidents, SendRequest, RequestDone, FlipEpoch, FreeDetached,
         ProtectPage, MapPage, tableVars, Changing, Invalidating
    <3> QED BY <1>0, <1>4, <2>4, <3>1, CoveredApart DEF Locked
  <2>5. CASE d # c /\ pc[c] \in Changing /\ cr3[d] # cr3[c]
    <3>1. cr3[d] \in Space => pt'[cr3[d]] = pt[cr3[d]]
      BY <1>0, <1>4, <2>5 DEF Change, BeginChange, LockVm, NoChange, DetachPage,
         SampleResidents, SendRequest, RequestDone, FlipEpoch, FreeDetached,
         ProtectPage, MapPage, tableVars, TypeOK
    <3>2. cr3[d] \in Space => vmLock[cr3[d]] # c
      BY <1>0, <2>5 DEF Locked
    <3> QED BY <1>4, <2>5, <3>1, <3>2, CoveredApart
  <2>6. CASE d # c /\ pc[c] \in Changing /\ cr3[d] = cr3[c] /\ held[d] # None
    <3> DEFINE s == cr3[c]
    <3>1. /\ s \in Space /\ vmLock[s] = c /\ pc[d] = "copy" /\ s' = s
          /\ pc'[d] = "copy" /\ seen'[d] = seen[d] /\ held'[d] = held[d]
          /\ cr3'[d] = s
          /\ \/ pt[s] # None /\ pt[s].frame = held[d]
             \/ detached[c] = held[d] /\ (pc[c] = "draining" => seen[d] = seen[c])
      BY <1>0, <1>4, <2>1, <2>6, OthersKeep DEF Locked, CopyCovered, Placed, Switching,
         Changing, Invalidating
    <3>2. detached[c] # None => pc[c] # "change" /\ op[c] = "unmap"
      BY <1>0 DEF Detaching
    <3>3. SUFFICES \/ pt'[s] # None /\ pt'[s].frame = held[d]
                   \/ /\ vmLock'[s] = c /\ detached'[c] = held[d]
                      /\ pc'[c] = "draining" => seen[d] = seen'[c]
      BY <3>1 DEF CopyCovered
    <3>4. CASE NoChange(c) \/ \E r \in {"ro", "rw"}, f \in Frame : MapPage(c, f, r)
      BY <2>6, <3>1, <3>2, <3>4 DEF NoChange, MapPage, tableVars
    <3>5. CASE DetachPage(c)
      BY <1>0, <2>6, <3>1, <3>2, <3>5 DEF DetachPage, Goto, lockVars, TypeOK
    <3>6. CASE \E r \in {"ro", "rw"} : ProtectPage(c, r)
      BY <1>0, <2>6, <3>1, <3>2, <3>6, AddressSpaceAssumption DEF ProtectPage, TypeOK,
         Entry
    <3>7. CASE SampleResidents(c) \/ RequestDone(c)
      <4>1. /\ pt' = pt /\ detached' = detached
            /\ op[c] = "unmap" => vmLock' = vmLock /\ pc'[c] # "draining"
        BY <1>0, <3>7 DEF SampleResidents, RequestDone, AfterInvalidate, Goto,
           tableVars, TypeOK
      <4> QED BY <2>6, <3>1, <3>2, <4>1
    <3>8. CASE SendRequest(c)
      BY <1>0, <2>6, <3>1, <3>8 DEF SendRequest, Goto, tableVars, TypeOK
    <3>9. CASE FlipEpoch(c)
      <4>1. pc[c] = "drain" /\ seen'[c] = epoch[s] /\ vmLock' = vmLock
            /\ pt' = pt /\ detached' = detached
        BY <1>0, <3>9 DEF FlipEpoch, tableVars, lockVars, TypeOK
      <4>2. seen[d] = epoch[s]
        BY <1>0, <2>6, <3>1, <4>1 DEF EpochOf
      <4> QED BY <3>1, <4>1, <4>2
    <3>10. CASE FreeDetached(c)
      <4>1. pc[c] = "draining" /\ Drained(c) /\ pt' = pt
        BY <3>10 DEF FreeDetached
      <4>2. seen[d] # seen[c]
        BY <2>6, <3>1, <4>1, DrainedOfOld DEF Counting
      <4> QED BY <3>1, <4>1, <4>2
    <3>11. CASE LockVm(c) \/ \E what \in {"fault", "unmap", "protect"} : BeginChange(c, what)
      BY <2>6, <3>11 DEF LockVm, BeginChange, Changing, Invalidating
    <3> QED BY <1>4, <3>4, <3>5, <3>6, <3>7, <3>8, <3>9, <3>10, <3>11 DEF Change
  <2>7. CASE held[d] = None
    BY <2>1, <2>7 DEF CopyCovered
  <2> QED BY <2>3, <2>4, <2>5, <2>6, <2>7
<1> QED BY <1>1, <1>2, <1>3, <1>4

-----------------------------------------------------------------------------
(* Translations.                                                           *)

\* A step that leaves a CPU's TLB and loaded space, the page of that space and
\* its lock to others leaves the CPU's translation sound.
LEMMA TranslatesApart ==
  ASSUME IInv, NEW c \in Cpu, Switch(c) \/ Change(c) \/ Copy(c) \/ Hardware(c),
         NEW d \in Cpu, cr3'[d] = cr3[d], tlb'[d] = tlb[d],
         reqLock # None => toAck \ {c} \subseteq toAck', d = c => toAck' = toAck,
         cr3[d] \in Space => pt'[cr3[d]] = pt[cr3[d]] /\ vmLock[cr3[d]] # c
  PROVE  Translates(d)'
<1>1. \A h \in Cpu \ {c} :
        /\ pc'[h] = pc[h] /\ detached'[h] = detached[h] /\ targets'[h] = targets[h]
        /\ \A s \in Space : vmLock[s] = h => vmLock'[s] = h
  BY OthersKeep
<1>2. Translates(d) /\ \A h \in Cpu : pc[h] = "acks" => reqLock = h /\ h # None
  BY AddressSpaceAssumption DEF IInv, Locked
<1>3. SUFFICES ASSUME tlb[d] # None, cr3[d] \in Space, tlb[d] # pt[cr3[d]],
                      Flushing(d), tlb[d].frame \in OwnFrames(cr3[d])
               PROVE  Flushing(d)' /\ (tlb[d].frame \in OwnFrames(cr3[d]))'
  BY <1>2 DEF Translates
<1>4. Flushing(d)'
  <2>1. PICK h \in Cpu : /\ vmLock[cr3[d]] = h
                         /\ \/ pc[h] = "sample"
                            \/ pc[h] = "request" /\ d \in targets[h] \union {h}
                            \/ pc[h] = "acks" /\ d \in toAck
    BY <1>3 DEF Flushing
  <2>2. h # c
    BY <1>3, <2>1
  <2>3. pc[h] = "acks" /\ d \in toAck => d \in toAck'
    BY <1>2
  <2> QED BY <1>1, <1>3, <2>1, <2>2, <2>3 DEF Flushing
<1>5. (tlb[d].frame \in OwnFrames(cr3[d]))'
  BY <1>1, <1>3 DEF OwnFrames
<1> QED BY <1>4, <1>5

\* A TLB entry that the table no longer has stays due for a flush.
LEMMA TranslatesStep ==
  ASSUME IInv, NEW c \in Cpu, Switch(c) \/ Change(c) \/ Copy(c) \/ Hardware(c),
         NEW d \in Cpu
  PROVE  Translates(d)'
<1>0. /\ \A e \in Cpu : /\ Placed(e) /\ Locked(e) /\ Detaching(e) /\ Resident(e)
                        /\ Translates(e)
      /\ TypeOK
  BY DEF IInv
<1>1. CASE Switch(c)
  <2>1. pc[c] \notin Changing /\ toAck' = toAck
    BY <1>1 DEF Switch, BeginSwitch, LoadCr3, LeaveSpace, Exit, Release, Teardown,
       lockVars, Changing, Invalidating
  <2>2. CASE d = c /\ LoadCr3(c)
    BY <1>0, <2>2 DEF LoadCr3, Translates, TypeOK
  <2>3. CASE ~(d = c /\ LoadCr3(c))
    <3>1. cr3'[d] = cr3[d] /\ tlb'[d] = tlb[d]
      BY <1>0, <1>1, <2>3 DEF Switch, BeginSwitch, LoadCr3, LeaveSpace, Exit,
         Release, Teardown, TypeOK
    <3>2. cr3[d] \in Space => pt'[cr3[d]] = pt[cr3[d]]
      BY <1>0, <1>1, TeardownAlone DEF Switch, BeginSwitch, LoadCr3, LeaveSpace,
         Exit, Release, Teardown, tableVars, TypeOK
    <3>3. cr3[d] \in Space => vmLock[cr3[d]] # c
      BY <1>0, <2>1 DEF Locked
    <3> QED BY <1>1, <2>1, <3>1, <3>2, <3>3, TranslatesApart
  <2> QED BY <2>2, <2>3
<1>2. CASE Copy(c)
  <2>1. /\ pc[c] \notin Changing /\ pt' = pt /\ cr3' = cr3 /\ tlb' = tlb
        /\ toAck' = toAck
    BY <1>2 DEF Copy, LoadEpoch, PublishAccess, Recheck, Walk, EndAccess, tableVars,
       lockVars, switchVars, Changing, Invalidating
  <2> QED BY <1>0, <1>2, <2>1, TranslatesApart DEF Locked
<1>3. CASE Fill(c)
  <2>1. CASE d = c
    BY <1>0, <1>3, <2>1 DEF Fill, Translates, switchVars, tableVars, TypeOK
  <2>2. CASE d # c
    BY <1>0, <1>3, <2>2 DEF Fill, Translates, Flushing, OwnFrames, switchVars,
       tableVars, lockVars, TypeOK
  <2> QED BY <2>1, <2>2
<1>4. CASE Retain(c)
  BY <1>0, <1>4 DEF Retain, Translates, Flushing, OwnFrames, switchVars, tableVars,
     lockVars
<1>5. CASE Acknowledge(c)
  <2>1. /\ pc' = pc /\ cr3' = cr3 /\ pt' = pt /\ detached' = detached
        /\ vmLock' = vmLock /\ targets' = targets /\ toAck' = toAck \ {c}
        /\ tlb' = [tlb EXCEPT ![c] = IF cr3[c] = cr3[reqLock] THEN None ELSE tlb[c]]
    BY <1>5 DEF Acknowledge, AfterIpi, switchVars, tableVars
  <2>2. CASE d # c
    BY <1>0, <2>1, <2>2 DEF Translates, Flushing, OwnFrames, TypeOK
  <2>3. CASE d = c /\ tlb'[c] # None
    <3>1. tlb'[c] = tlb[c] /\ cr3[c] # cr3[reqLock]
      BY <1>0, <2>1, <2>3 DEF TypeOK
    <3>2. \A h \in Cpu : vmLock[cr3[c]] = h /\ cr3[c] \in Space => pc[h] # "acks"
      BY <1>0, <3>1 DEF Locked
    <3> QED BY <1>0, <2>1, <2>3, <3>1, <3>2 DEF Translates, Flushing, OwnFrames
  <2> QED BY <2>2, <2>3 DEF Translates
<1>6. CASE Change(c)
  <2>1. /\ pc[c] \in Changing \union {"run", "lockVm"} /\ cr3' = cr3
        /\ tlb'[d] \in {tlb[d], None}
    BY <1>0, <1>6 DEF Change, BeginChange, LockVm, NoChange, DetachPage,
       SampleResidents, SendRequest, RequestDone, FlipEpoch, FreeDetached,
       ProtectPage, MapPage, switchVars, Changing, Invalidating, TypeOK
  <2>2. CASE tlb'[d] = None
    BY <2>2 DEF Translates
  <2>3. CASE tlb'[d] = tlb[d] /\ pc[c] \notin Changing
    <3>1. pt' = pt /\ toAck' = toAck
      BY <1>6, <2>3 DEF Change, BeginChange, LockVm, NoChange, DetachPage,
         SampleResidents, SendRequest, RequestDone, FlipEpoch, FreeDetached,
         ProtectPage, MapPage, tableVars, Changing, Invalidating
    <3> QED BY <1>0, <1>6, <2>1, <2>3, <3>1, TranslatesApart DEF Locked
  <2>4. CASE tlb'[d] = tlb[d] /\ pc[c] \in Changing /\ cr3[d] # cr3[c]
    <3>1. cr3[d] \in Space => pt'[cr3[d]] = pt[cr3[d]]
      BY <1>0, <1>6, <2>4 DEF Change, BeginChange, LockVm, NoChange, DetachPage,
         SampleResidents, SendRequest, RequestDone, FlipEpoch, FreeDetached,
         ProtectPage, MapPage, tableVars, TypeOK
    <3>2. cr3[d] \in Space => vmLock[cr3[d]] # c
      BY <1>0, <2>4 DEF Locked
    <3>3. toAck' = toAck \/ reqLock = None
      BY <1>6 DEF Change, BeginChange, LockVm, NoChange, DetachPage,
         SampleResidents, SendRequest, RequestDone, FlipEpoch, FreeDetached,
         ProtectPage, MapPage, lockVars
    <3> QED BY <1>6, <2>1, <2>4, <3>1, <3>2, <3>3, TranslatesApart
  <2>5. CASE tlb'[d] = tlb[d] /\ pc[c] \in Changing /\ cr3[d] = cr3[c] /\ tlb[d] # None
    <3> DEFINE s == cr3[c]
    <3>1. /\ s \in Space /\ vmLock[s] = c /\ s' = s /\ cr3'[d] = s
          /\ \/ tlb[d] = pt[s]
             \/ /\ \/ pc[c] = "sample"
                   \/ pc[c] = "request" /\ d \in targets[c] \union {c}
                   \/ pc[c] = "acks" /\ d \in toAck
                /\ \/ pt[s] # None /\ pt[s].frame = tlb[d].frame
                   \/ detached[c] = tlb[d].frame
      BY <1>0, <2>1, <2>5 DEF Locked, Translates, Flushing, OwnFrames
    <3>2. tlb[d] \in Entry /\ tlb[d].frame \in Frame
      BY <1>0, <2>5 DEF TypeOK, Entry
    <3>3. SUFFICES \/ tlb[d] = pt'[s]
                   \/ /\ vmLock'[s] = c
                      /\ \/ pc'[c] = "sample"
                         \/ pc'[c] = "request" /\ d \in targets'[c] \union {c}
                         \/ pc'[c] = "acks" /\ d \in toAck'
                      /\ \/ pt'[s] # None /\ pt'[s].frame = tlb[d].frame
                         \/ detached'[c] = tlb[d].frame
      BY <2>5, <3>1, <3>2 DEF Translates, Flushing, OwnFrames
    <3>4. CASE NoChange(c) \/ \E r \in {"ro", "rw"}, f \in Frame : MapPage(c, f, r)
      BY <2>5, <3>1, <3>4 DEF NoChange, MapPage, tableVars
    <3>5. CASE DetachPage(c)
      BY <1>0, <2>5, <3>1, <3>5 DEF DetachPage, Goto, lockVars, TypeOK
    <3>6. CASE \E r \in {"ro", "rw"} : ProtectPage(c, r)
      BY <1>0, <2>5, <3>1, <3>6, AddressSpaceAssumption DEF ProtectPage, Goto,
         lockVars, TypeOK, Entry
    <3>7. CASE SampleResidents(c)
      <4>1. d \in active[s]
        BY <1>0, <2>5, <3>1 DEF Resident
      <4>2. ~(active[s] \subseteq {c})
        BY <1>0, <2>5, <3>7, <4>1 DEF SampleResidents, TypeOK
      <4> QED BY <1>0, <3>1, <3>7, <4>1, <4>2 DEF SampleResidents, Goto, tableVars, TypeOK
    <3>8. CASE SendRequest(c)
      <4>1. d # c
        BY <1>0, <2>5, <3>8 DEF SendRequest, TypeOK
      <4> QED BY <1>0, <3>1, <3>8, <4>1 DEF SendRequest, Goto, tableVars, TypeOK
    <3>9. CASE RequestDone(c) \/ FlipEpoch(c) \/ FreeDetached(c)
      BY <3>1, <3>9 DEF RequestDone, FlipEpoch, FreeDetached, tableVars
    <3>10. CASE LockVm(c) \/ \E what \in {"fault", "unmap", "protect"} : BeginChange(c, what)
      BY <2>5, <3>10 DEF LockVm, BeginChange, Changing, Invalidating
    <3> QED BY <1>6, <3>4, <3>5, <3>6, <3>7, <3>8, <3>9, <3>10 DEF Change
  <2> QED BY <2>1, <2>2, <2>3, <2>4, <2>5
<1> QED BY <1>1, <1>2, <1>3, <1>4, <1>5, <1>6 DEF Hardware

-----------------------------------------------------------------------------
(* Frames.                                                                 *)

\* Mapping, detaching, freeing and tearing down move a frame, whole, from one
\* place to another.
LEMMA OnePlaceStep ==
  ASSUME IInv, NEW c \in Cpu, Switch(c) \/ Change(c) \/ Copy(c) \/ Hardware(c)
  PROVE  OnePlace'
<1>0. /\ OnePlace
      /\ pt \in [Space -> Entry \union {None}] /\ free \subseteq Frame
      /\ detached \in [Cpu -> Frame \union {None}]
      /\ \A s \in Space : pt[s] # None => pt[s].frame \in Frame
      /\ None \notin Frame /\ None \notin Entry
  BY AddressSpaceAssumption DEF IInv, TypeOK, Entry
<1>1. ASSUME UNCHANGED tableVars PROVE OnePlace'
  BY <1>0, <1>1 DEF OnePlace, tableVars
<1>2. CASE Teardown(c)
  <2> DEFINE s == other[c]
  <2>1. /\ s \in Space /\ detached' = detached
        /\ pt' = [pt EXCEPT ![s] = None]
        /\ free' = IF pt[s] = None THEN free ELSE free \union {pt[s].frame}
    BY <1>2 DEF Teardown, IInv, Placed
  <2> HIDE DEF s
  <2> QED BY <1>0, <2>1 DEF OnePlace
<1>3. ASSUME NEW r \in {"ro", "rw"}, NEW f \in Frame, MapPage(c, f, r)
      PROVE  OnePlace'
  <2> DEFINE s == cr3[c]
  <2>1. /\ s \in Space /\ detached' = detached /\ pt[s] = None /\ f \in free
        /\ pt' = [pt EXCEPT ![s] = [frame |-> f, rights |-> r]]
        /\ free' = free \ {f} /\ [frame |-> f, rights |-> r] \in Entry
    BY <1>3 DEF MapPage, IInv, Placed, Switching, Entry
  <2>2. /\ \A x \in Space : pt'[x] = IF x = s THEN [frame |-> f, rights |-> r] ELSE pt[x]
        /\ pt'[s].frame = f /\ pt'[s] # None
    BY <1>0, <2>1
  <2>3. detached[c] \notin free /\ \A d \in Cpu : detached[d] # f
    BY <1>0, <2>1 DEF OnePlace
  <2> HIDE DEF s
  <2> QED BY <1>0, <2>1, <2>2, <2>3 DEF OnePlace
<1>4. CASE DetachPage(c)
  <2> DEFINE s == cr3[c]
  <2>1. /\ s \in Space /\ free' = free /\ pt[s] # None /\ detached[c] = None
        /\ pt' = [pt EXCEPT ![s] = None]
        /\ detached' = [detached EXCEPT ![c] = pt[s].frame]
    BY <1>4 DEF DetachPage, IInv, Placed, Switching, Detaching
  <2>2. /\ \A x \in Space : pt'[x] = IF x = s THEN None ELSE pt[x]
        /\ \A d \in Cpu : detached'[d] = IF d = c THEN pt[s].frame ELSE detached[d]
    BY <1>0, <2>1
  <2> HIDE DEF s
  <2> QED BY <1>0, <2>1, <2>2 DEF OnePlace
<1>5. ASSUME NEW r \in {"ro", "rw"}, ProtectPage(c, r)
      PROVE  OnePlace'
  <2> DEFINE s == cr3[c]
             e == [frame |-> pt[s].frame, rights |-> r]
  <2>1. /\ s \in Space /\ free' = free /\ pt[s] # None /\ detached' = detached
        /\ pt' = [pt EXCEPT ![s] = e]
    BY <1>5 DEF ProtectPage, IInv, Placed, Switching
  <2>2. e # None /\ e.frame = pt[s].frame
    BY <1>0, <2>1 DEF Entry
  <2>3. \A x \in Space : /\ pt'[x] # None <=> pt[x] # None
                         /\ pt[x] # None => pt'[x].frame = pt[x].frame
    <3> HIDE DEF s, e
    <3> QED BY <1>0, <2>1, <2>2
  <2> HIDE DEF s, e
  <2> QED BY <1>0, <2>1, <2>3 DEF OnePlace
<1>6. CASE FreeDetached(c)
  <2>1. /\ pt' = pt /\ detached[c] # None
        /\ free' = free \union {detached[c]}
        /\ detached' = [detached EXCEPT ![c] = None]
    BY <1>6 DEF FreeDetached, IInv, Detaching, Changing, Invalidating
  <2>2. \A d \in Cpu : detached'[d] = IF d = c THEN None ELSE detached[d]
    BY <1>0, <2>1
  <2> QED BY <1>0, <2>1, <2>2 DEF OnePlace
<1>7. CASE Copy(c) \/ Hardware(c)
  BY <1>1, <1>7 DEF Copy, LoadEpoch, PublishAccess, Recheck, Walk, EndAccess,
     Hardware, Fill, Acknowledge, Retain
<1>8. CASE Switch(c) /\ ~Teardown(c)
  BY <1>1, <1>8 DEF Switch, BeginSwitch, LoadCr3, LeaveSpace, Exit, Release
<1>9. CASE \/ \E what \in {"fault", "unmap", "protect"} : BeginChange(c, what)
           \/ LockVm(c) \/ NoChange(c) \/ SampleResidents(c) \/ SendRequest(c)
           \/ RequestDone(c) \/ FlipEpoch(c)
  BY <1>1, <1>9 DEF BeginChange, LockVm, NoChange, SampleResidents, SendRequest,
     RequestDone, FlipEpoch
<1> QED BY <1>2, <1>3, <1>4, <1>5, <1>6, <1>7, <1>8, <1>9 DEF Change

-----------------------------------------------------------------------------
(* Types.                                                                  *)

\* Every step keeps the types; a count goes down only where it was above zero.
LEMMA TypeStep ==
  ASSUME IInv, NEW c \in Cpu, Switch(c) \/ Change(c) \/ Copy(c) \/ Hardware(c)
  PROVE  TypeOK'
<1>0. TypeOK /\ Placed(c) /\ Locked(c) /\ Detaching(c)
  BY DEF IInv
<1>2. CASE Release(c)
  <2>1. other[c] \in Space /\ c \in Users(other[c])
    BY <1>0, <1>2 DEF Release, Placed, Users, TypeOK
  <2>2. refs[other[c]] \in Nat /\ refs[other[c]] >= 1
    BY <2>1, UserKeepsSpace
  <2>3. refs' \in [Space -> Nat]
    BY <1>0, <1>2, <2>1, <2>2 DEF Release, TypeOK
  <2> QED BY <1>0, <1>2, <2>3 DEF Release, Goto, Cr3, TypeOK, Locals, tableVars,
      lockVars, accessVars
<1>12. CASE PublishAccess(c) \/ Recheck(c) \/ EndAccess(c)
  <2>1. pc[c] \in Counting \union {"count"} /\ cr3[c] \in Space
    BY <1>0, <1>12 DEF PublishAccess, Recheck, EndAccess, Placed, Switching, Counting
  <2>2. seen[c] % 2 \in 0 .. 1
    BY <1>0, Parity DEF TypeOK
  <2>3. /\ counts[cr3[c]][seen[c] % 2] \in Nat
        /\ pc[c] \in Counting => counts[cr3[c]][seen[c] % 2] >= 1
    <3>1. pc[c] \in Counting => c \in Accesses(cr3[c], seen[c] % 2)
      BY DEF Accesses
    <3> QED BY <2>1, <2>2, <3>1, AccessesCounted
  <2> DEFINE n == counts[cr3[c]][seen[c] % 2]
  <2>4. \/ counts' = counts
        \/ counts' = [counts EXCEPT ![cr3[c]][seen[c] % 2] = n + 1]
        \/ counts' = [counts EXCEPT ![cr3[c]][seen[c] % 2] = n - 1] /\ n - 1 \in Nat
    BY <1>12, <2>3 DEF PublishAccess, Recheck, EndAccess, Counted, Counting
  <2>5. counts' \in [Space -> [0 .. 1 -> Nat]]
    <3>1. counts \in [Space -> [0 .. 1 -> Nat]] /\ n \in Nat
      BY <1>0, <2>3 DEF TypeOK
    <3> HIDE DEF n
    <3> QED BY <2>1, <2>2, <2>4, <3>1
  <2> USE <1>0 DEF Goto, TypeOK, Locals, switchVars, tableVars, lockVars
  <2>6. CASE PublishAccess(c)
    BY <2>5, <2>6 DEF PublishAccess
  <2>7. CASE Recheck(c)
    BY SMTT(30), <2>5, <2>7 DEF Recheck
  <2>8. CASE EndAccess(c)
    BY <2>5, <2>8 DEF EndAccess
  <2> QED BY <1>12, <2>6, <2>7, <2>8
<1>10. CASE FreeDetached(c)
  <2>1. detached[c] \in Frame
    BY <1>0, <1>10 DEF FreeDetached, Detaching, Changing, Invalidating, TypeOK
  <2> QED BY <1>0, <1>10, <2>1 DEF FreeDetached, UnlockVm, Goto, TypeOK, Locals,
      switchVars, Placed, Switching
<1> USE <1>0 DEF Goto, TypeOK, Cr3, Locals, Entry, switchVars, tableVars, lockVars,
        accessVars, Placed, Switching
<1>1. CASE \E s \in Cr3 : BeginSwitch(c, s)
  BY <1>1 DEF BeginSwitch
<1>3. CASE LoadCr3(c)
  BY <1>3 DEF LoadCr3
<1>4. CASE LeaveSpace(c)
  BY <1>4 DEF LeaveSpace
<1>5. CASE Exit(c)
  BY <1>5 DEF Exit
<1>6. CASE Teardown(c)
  BY <1>6 DEF Teardown
<1>7. CASE Retain(c)
  BY <1>7 DEF Retain
<1>8. CASE Fill(c)
  BY <1>8 DEF Fill
<1>9. CASE Acknowledge(c)
  BY <1>9 DEF Acknowledge, AfterIpi
<1>11. CASE \E what \in {"fault", "unmap", "protect"} : BeginChange(c, what)
  BY <1>11 DEF BeginChange
<1>13. CASE LockVm(c)
  BY <1>13 DEF LockVm
<1>14. CASE NoChange(c)
  BY <1>14 DEF NoChange, UnlockVm
<1>15. CASE \E r \in {"ro", "rw"}, f \in Frame : MapPage(c, f, r)
  BY <1>15 DEF MapPage, UnlockVm
<1>16. CASE DetachPage(c)
  BY <1>16 DEF DetachPage
<1>17. CASE \E r \in {"ro", "rw"} : ProtectPage(c, r)
  BY <1>17 DEF ProtectPage
<1>18. CASE SampleResidents(c)
  BY ZenonT(40), <1>18 DEF SampleResidents, AfterInvalidate, UnlockVm
<1>19. CASE SendRequest(c)
  BY <1>19 DEF SendRequest
<1>20. CASE RequestDone(c)
  BY <1>20 DEF RequestDone, AfterInvalidate, UnlockVm
<1>21. CASE FlipEpoch(c)
  BY <1>21 DEF FlipEpoch
<1>22. CASE LoadEpoch(c)
  BY <1>22 DEF LoadEpoch
<1>23. CASE Walk(c)
  BY <1>23 DEF Walk
<1> QED BY <1>1, <1>2, <1>3, <1>4, <1>5, <1>6, <1>7, <1>8, <1>9, <1>10, <1>11,
       <1>12, <1>13, <1>14, <1>15, <1>16, <1>17, <1>18, <1>19, <1>20, <1>21, <1>22, <1>23
    DEF Switch, Change, Copy, Hardware

-----------------------------------------------------------------------------
(* The inductive invariant and what it gives.                              *)

\* The initial states satisfy the inductive invariant.
LEMMA InitIInv ==
  ASSUME Init
  PROVE  IInv
<1>1. TypeOK
  BY DEF Init, TypeOK, Locals, Cr3
<1>2. ASSUME NEW S, S = {} PROVE Cardinality(S) = 0
  BY <1>2, FS_EmptySet
<1>3. Referenced
  <2>1. \A s \in Space : Users(s) = {} /\ refs[s] = 1
    BY AddressSpaceAssumption DEF Init, Users
  <2>2. \A s \in Space : Cardinality(Users(s)) = 0
    BY <1>2, <2>1
  <2> QED BY <2>1, <2>2 DEF Init, Referenced
<1>4. CountsExact
  <2>1. \A s \in Space, p \in 0 .. 1 : Accesses(s, p) = {} /\ counts[s][p] = 0
    BY DEF Init, Accesses, Counting
  <2> QED BY <1>2, <2>1 DEF CountsExact
<1>5. OnePlace
  BY AddressSpaceAssumption DEF Init, OnePlace
<1>6. ASSUME NEW c \in Cpu
      PROVE  /\ Placed(c) /\ Resident(c) /\ Locked(c) /\ Detaching(c)
             /\ EpochOf(c) /\ CopyCovered(c) /\ Translates(c)
  BY AddressSpaceAssumption DEF Init, Placed, Resident, Locked, Detaching, EpochOf,
     CopyCovered, Translates, Switching, Changing, Invalidating
<1> QED BY <1>1, <1>3, <1>4, <1>5, <1>6 DEF IInv

\* Every step keeps the inductive invariant.
LEMMA NextIInv ==
  ASSUME IInv, Next
  PROVE  IInv'
<1>1. PICK c \in Cpu : Switch(c) \/ Change(c) \/ Copy(c) \/ Hardware(c)
  BY StepCases
<1>2. TypeOK' /\ Referenced' /\ CountsExact' /\ OnePlace'
  BY <1>1, TypeStep, ReferencedStep, CountsExactStep, OnePlaceStep
<1>3. ASSUME NEW d \in Cpu
      PROVE  /\ Placed(d)' /\ Resident(d)' /\ Locked(d)' /\ Detaching(d)'
             /\ EpochOf(d)' /\ CopyCovered(d)' /\ Translates(d)'
  BY <1>1, PlacedStep, ResidentStep, LockedStep, DetachingStep, EpochOfStep,
     CopyCoveredStep, TranslatesStep
<1> QED BY <1>2, <1>3 DEF IInv

\* So does a step that changes nothing.
LEMMA StutterIInv ==
  ASSUME IInv, UNCHANGED vars
  PROVE  IInv'
<1> USE DEF vars, switchVars, tableVars, lockVars, accessVars
<1>1. TypeOK' /\ OnePlace'
  BY DEF IInv, TypeOK, OnePlace
<1>3. Referenced'
  BY DEF IInv, Referenced, Users
<1>4. CountsExact'
  BY DEF IInv, CountsExact, Accesses
<1>2. ASSUME NEW c \in Cpu
      PROVE  /\ Placed(c)' /\ Resident(c)' /\ Locked(c)' /\ Detaching(c)'
             /\ EpochOf(c)' /\ CopyCovered(c)' /\ Translates(c)'
  BY DEF IInv, Placed, Resident, Locked, Detaching, EpochOf, CopyCovered, Translates,
     Flushing, OwnFrames
<1> QED BY <1>1, <1>2, <1>3, <1>4 DEF IInv

\* Every reachable state satisfies the inductive invariant.
THEOREM Invariance == Spec => []IInv
<1>1. IInv /\ [Next]_vars => IInv'
  BY NextIInv, StutterIInv
<1> QED BY InitIInv, <1>1, PTL DEF Spec

\* Every variable keeps its type: no access count and no reference count goes
\* below zero, whatever the CPUs interleave.
THEOREM TypeCorrect == Spec => []TypeOK
<1>1. IInv => TypeOK
  BY DEF IInv
<1> QED BY <1>1, Invariance, PTL

\* drainAccesses waits long enough: no copy between the kernel and user memory
\* reads or writes a frame that its space no longer owns.
THEOREM CopiesStayInside == Spec => []CopyStaysInside
<1>1. ASSUME IInv PROVE CopyStaysInside
  <2> SUFFICES ASSUME NEW c \in Cpu, held[c] # None
               PROVE  held[c] \in OwnFrames(cr3[c])
    BY DEF CopyStaysInside
  <2>1. CopyCovered(c) /\ held[c] \in Frame
    BY <1>1 DEF IInv, TypeOK
  <2> QED BY <2>1 DEF CopyCovered, OwnFrames
<1> QED BY <1>1, Invariance, PTL

\* A frame is freed only when no TLB translates to it: the residents sampled
\* after the unlinking include every CPU that may hold the old entry.
THEOREM NoTlbIsStale == Spec => []NoStaleFrame
<1>1. ASSUME IInv PROVE NoStaleFrame
  <2> SUFFICES ASSUME NEW c \in Cpu, tlb[c] # None
               PROVE  cr3[c] \in Space /\ tlb[c].frame \in OwnFrames(cr3[c])
    BY DEF NoStaleFrame
  <2>1. Translates(c) /\ tlb[c].frame \in Frame
    BY <1>1 DEF IInv, TypeOK, Entry
  <2> QED BY <2>1 DEF Translates, OwnFrames
<1> QED BY <1>1, Invariance, PTL

\* When the VM lock is free, every TLB of the space agrees with its table, so no
\* CPU keeps a right that protect took away.
THEOREM TlbsAgree == Spec => []TlbCoherent
<1>1. ASSUME IInv PROVE TlbCoherent
  <2> SUFFICES ASSUME NEW c \in Cpu, tlb[c] # None, vmLock[cr3[c]] = None
               PROVE  tlb[c] = pt[cr3[c]]
    BY DEF TlbCoherent
  <2>1. Translates(c)
    BY <1>1 DEF IInv
  <2> QED BY <2>1, AddressSpaceAssumption DEF Translates, Flushing
<1> QED BY <1>1, Invariance, PTL

\* Every frame is in exactly one place: none leaks, none is freed twice, none is
\* mapped by two spaces.
THEOREM FramesAreConserved == Spec => []FramesConserved
<1>1. ASSUME IInv PROVE FramesConserved
  <2> SUFFICES ASSUME NEW f \in Frame
               PROVE  Cardinality({s \in Space : pt[s] # None /\ pt[s].frame = f})
                        + Cardinality({c \in Cpu : detached[c] = f})
                        + (IF f \in free THEN 1 ELSE 0) = 1
    BY DEF FramesConserved
  <2> DEFINE Mapped == {s \in Space : pt[s] # None /\ pt[s].frame = f}
             Taken == {c \in Cpu : detached[c] = f}
  <2>0. OnePlace /\ None \notin Frame
    BY <1>1, AddressSpaceAssumption DEF IInv
  <2>1. CASE f \in free
    <3>1. Mapped = {} /\ Taken = {}
      BY <2>0, <2>1 DEF OnePlace
    <3>2. Cardinality(Mapped) = 0 /\ Cardinality(Taken) = 0
      BY <3>1, FS_EmptySet
    <3> QED BY <2>1, <3>2
  <2>2. ASSUME NEW s \in Space, pt[s] # None, pt[s].frame = f
        PROVE  /\ Cardinality(Mapped) = 1 /\ Cardinality(Taken) = 0 /\ f \notin free
    <3>1. Mapped = {s} /\ Taken = {} /\ f \notin free
      BY <2>0, <2>2 DEF OnePlace
    <3> QED BY <3>1, FS_EmptySet, FS_Singleton
  <2>3. ASSUME NEW c \in Cpu, detached[c] = f
        PROVE  /\ Cardinality(Mapped) = 0 /\ Cardinality(Taken) = 1 /\ f \notin free
    <3>1. Mapped = {} /\ Taken = {c} /\ f \notin free
      BY <2>0, <2>3 DEF OnePlace
    <3> QED BY <3>1, FS_EmptySet, FS_Singleton
  <2>4. \/ f \in free
        \/ \E s \in Space : pt[s] # None /\ pt[s].frame = f
        \/ \E c \in Cpu : detached[c] = f
    BY <2>0 DEF OnePlace
  <2>5. CASE \E s \in Space : pt[s] # None /\ pt[s].frame = f
    BY <2>2, <2>5
  <2>6. CASE \E c \in Cpu : detached[c] = f
    BY <2>3, <2>6
  <2> QED BY <2>1, <2>4, <2>5, <2>6
<1> QED BY <1>1, Invariance, PTL
=============================================================================
