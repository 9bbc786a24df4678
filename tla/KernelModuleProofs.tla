------------------------- MODULE KernelModuleProofs -------------------------
(* Theorems about KernelModule, for every number of processes, slots,        *)
(* messages and loads.                                                       *)
EXTENDS KernelModule, FiniteSetTheorems, TLAPS

Sending == {"claim", "clear", "copy", "count", "publish"}

-----------------------------------------------------------------------------
(* The inductive invariant, in parts.                                        *)

\* Where the loader is decides what is registered and allocated.
Phase ==
    /\ pc = "none" => module \in {"unloaded", "live"}
    /\ pc \in {"region", "cdev", "alloc", "zero"} \cup Sending => module = "coming"
    /\ pc \in {"free", "forget", "unregister"} => module = "going"
    /\ module # "unloaded" => loads > 0 /\ loads \notin orphaning
    /\ region <=> module # "unloaded" /\ pc # "region"
    /\ cdev <=> module # "unloaded" /\ pc \notin {"region", "cdev"}
    /\ buffer = IF module = "live" \/ pc \in {"zero", "free", "forget"} \cup Sending THEN loads ELSE 0
    /\ allocated = IF module = "live" \/ pc \in {"zero", "free"} \cup Sending THEN {loads} ELSE {}

\* Nobody opens the device of a load before cdev_add.
Opened ==
    /\ FilesHoldModule
    /\ pc \in {"region", "cdev"} => \A u \in Users : file[u] # loads

\* A mapping of a buffer is of the present one, by a process that holds the
\* module.
Mapped ==
    \A u \in Users : \A n \in map[u] :
        \/ n = 0
        \/ n = loads /\ file[u] = loads /\ n \in allocated /\ module \in {"coming", "live"}

\* How far a send has come, in the counters.
Progress ==
    /\ pc \in {"region", "cdev", "alloc", "zero"} => sent = 0
    /\ pc = "claim" => writeIdx = count /\ (count = sent \/ (count = Capacity /\ sent >= Capacity))
    /\ pc \in {"clear", "copy", "count"} => writeIdx = count + 1 /\ sent = count /\ idx = count
    /\ pc = "publish" => writeIdx = count /\ count = sent + 1 /\ idx = sent
    /\ pc \in Sending => sent < Messages
    /\ module = "live" =>
        writeIdx = count /\ sent = Messages /\ (count = sent \/ (count = Capacity /\ sent >= Capacity))

Whole(i) == slots[i].ready = 1 /\ slots[i].text = i + 1

\* The messages that were sent are in their slots.
Delivered ==
    /\ pc \in {"claim", "clear", "copy", "count"} \/ module = "live" =>
        \A i \in Slot : i < count => Whole(i)
    /\ pc = "count" => slots[idx].text = idx + 1
    /\ pc = "publish" =>
        /\ \A i \in Slot : i < idx => Whole(i)
        /\ slots[idx].text = idx + 1

IInv == TypeOK /\ Phase /\ Opened /\ Mapped /\ Progress /\ Delivered

-----------------------------------------------------------------------------
LEMMA IInvInit == Init => IInv
<1> SUFFICES ASSUME Init PROVE IInv
  OBVIOUS
<1> USE ModuleAssumption
<1>1. TypeOK
  <2>1. 0 \in Slot
    BY DEF Slot
  <2>2. [ready |-> 0, text |-> Garbage] \in Content
    BY DEF Content
  <2>3. slots \in [Slot -> Content]
    BY <2>2 DEF Init
  <2>4. pc \in Points /\ module = "unloaded" /\ loads \in 0 .. MaxLoads
    BY DEF Init, Points
  <2>5. /\ region \in BOOLEAN /\ cdev \in BOOLEAN
        /\ buffer \in 0 .. loads /\ allocated \subseteq 1 .. loads
        /\ orphaning \subseteq 1 .. loads
    <3>1. region \in BOOLEAN /\ cdev \in BOOLEAN
      BY Zenon DEF Init
    <3>2. buffer \in 0 .. loads
      BY DEF Init
    <3>3. allocated \subseteq 1 .. loads /\ orphaning \subseteq 1 .. loads
      BY Zenon DEF Init
    <3> QED
      BY <3>1, <3>2, <3>3
  <2>6. /\ writeIdx \in 0 .. Capacity /\ count \in 0 .. Capacity
        /\ idx \in Slot /\ sent \in 0 .. Messages
    BY <2>1 DEF Init
  <2>7. file \in [Users -> 0 .. loads] /\ map \in [Users -> SUBSET (0 .. loads)]
    BY DEF Init
  <2> QED
    BY <2>3, <2>4, <2>5, <2>6, <2>7 DEF TypeOK
<1>2. Phase
  BY DEF Init, Phase, Sending
<1>3. Opened /\ Mapped
  BY DEF Init, Opened, FilesHoldModule, Mapped
<1>4. Progress /\ Delivered
  BY DEF Init, Progress, Delivered, Sending
<1> QED
  BY <1>1, <1>2, <1>3, <1>4 DEF IInv

\* What a step leaves alone keeps the parts of the invariant that are about it.
LEMMA UsersKept ==
  ASSUME IInv, UNCHANGED users, UNCHANGED <<loads, orphaning, allocated>>,
         module' = module \/ (module = "coming" /\ module' = "live"),
         pc \notin {"region", "cdev"} /\ pc' \notin {"region", "cdev"}
  PROVE  Opened' /\ Mapped'
  BY DEF IInv, Opened, FilesHoldModule, Mapped, users

LEMMA InsmodStep == IInv /\ Insmod => IInv'
<1> SUFFICES ASSUME IInv, Insmod PROVE IInv'
  OBVIOUS
<1> USE ModuleAssumption DEF IInv, Insmod, users
<1>1. TypeOK'
  BY DEF TypeOK, Points
<1>2. Phase'
  BY DEF Phase, TypeOK, Sending
<1>3. Opened'
  BY DEF Opened, FilesHoldModule, TypeOK, Phase
<1>4. Mapped'
  BY DEF Mapped, TypeOK
<1>5. Progress'
  BY DEF Progress, Phase, Sending
<1>6. Delivered'
  BY DEF Delivered, Phase, Sending
<1> QED
  BY <1>1, <1>2, <1>3, <1>4, <1>5, <1>6

LEMMA AllocRegionStep == IInv /\ AllocRegion => IInv'
<1> SUFFICES ASSUME IInv, AllocRegion PROVE IInv'
  OBVIOUS
<1> USE DEF IInv, AllocRegion, users, memory, Fail
<1>1. TypeOK'
  BY DEF TypeOK, Points
<1>2. Phase'
  BY DEF Phase, TypeOK, Sending
<1>3. Opened'
  BY DEF Opened, FilesHoldModule, TypeOK
<1>4. Mapped'
  BY DEF Mapped, Opened
<1>5. Progress'
  BY DEF Progress, Phase, Sending
<1>6. Delivered'
  BY DEF Delivered, Phase, Sending
<1> QED
  BY <1>1, <1>2, <1>3, <1>4, <1>5, <1>6

LEMMA AddCdevStep == IInv /\ AddCdev => IInv'
<1> SUFFICES ASSUME IInv, AddCdev PROVE IInv'
  OBVIOUS
<1> USE DEF IInv, AddCdev, users, memory, Fail
<1>1. TypeOK'
  BY DEF TypeOK, Points
<1>2. Phase'
  <2>1. CASE cdev' = TRUE /\ pc' = "alloc" /\ UNCHANGED <<module, region>>
    BY <2>1 DEF Phase, TypeOK, Sending
  <2>2. CASE region' = FALSE /\ Fail /\ UNCHANGED cdev
    BY <2>2 DEF Phase, TypeOK, Sending
  <2> QED
    BY <2>1, <2>2
<1>3. Opened'
  BY DEF Opened, FilesHoldModule, TypeOK, Phase
<1>4. Mapped'
  BY DEF Mapped, Opened, Phase
<1>5. Progress'
  BY DEF Progress, Phase, Sending
<1>6. Delivered'
  BY DEF Delivered, Phase, Sending
<1> QED
  BY <1>1, <1>2, <1>3, <1>4, <1>5, <1>6

LEMMA AllocBufferStep == IInv /\ AllocBuffer => IInv'
<1> SUFFICES ASSUME IInv, AllocBuffer PROVE IInv'
  OBVIOUS
<1> USE ModuleAssumption DEF IInv, AllocBuffer, users
<1>1. CASE Allocate /\ pc' = "zero" /\ UNCHANGED <<module, region, cdev, orphaning>>
  <2> USE <1>1 DEF Allocate
  <2>1. TypeOK'
    <3>1. slots' \in [Slot -> Content]
      BY DEF Content
    <3> QED
      BY <3>1 DEF TypeOK, Points, Phase
  <2>2. Phase'
    BY DEF Phase, TypeOK, Sending
  <2>3. Opened' /\ Mapped'
    BY DEF Opened, FilesHoldModule, Mapped, Phase, Sending
  <2>4. Progress' /\ Delivered'
    BY DEF Progress, Delivered, Phase, Sending
  <2> QED
    BY <2>1, <2>2, <2>3, <2>4
<1>2. CASE /\ cdev' = FALSE /\ region' = FALSE /\ Fail
           /\ orphaning' = orphaning \cup {loads}
           /\ UNCHANGED <<buffer, allocated, memory>>
  <2> USE <1>2 DEF Fail, memory
  <2>1. TypeOK'
    <3>1. loads \in 1 .. loads
      BY DEF TypeOK, Phase
    <3>2. orphaning' \subseteq 1 .. loads'
      BY <3>1 DEF TypeOK
    <3> QED
      BY <3>2 DEF TypeOK, Points
  <2>2. Phase'
    BY DEF Phase, TypeOK, Sending
  <2>3. Opened' /\ Mapped'
    BY DEF Opened, FilesHoldModule, Mapped, Phase, Sending
  <2>4. Progress' /\ Delivered'
    BY DEF Progress, Delivered, Sending
  <2> QED
    BY <2>1, <2>2, <2>3, <2>4
<1> QED
  BY <1>1, <1>2

LEMMA ZeroCountersStep == IInv /\ ZeroCounters => IInv'
<1> SUFFICES ASSUME IInv, ZeroCounters PROVE IInv'
  OBVIOUS
<1> USE ModuleAssumption DEF IInv, ZeroCounters
<1>1. TypeOK'
  BY DEF TypeOK, Points, users
<1>2. Phase'
  BY DEF Phase, Sending
<1>3. Opened' /\ Mapped'
  BY UsersKept
<1>4. Progress' /\ Delivered'
  BY DEF Progress, Delivered, TypeOK, Phase, Sending, Slot
<1> QED
  BY <1>1, <1>2, <1>3, <1>4

-----------------------------------------------------------------------------
(* send_mmap_message.                                                        *)
LEMMA Modulo == ASSUME NEW a \in Nat, NEW b \in Nat, a < b PROVE a % b = a
  OBVIOUS

\* The end of a call: the next one begins, or init returns 0.
LEMMA ReturnKeeps ==
  ASSUME IInv, Return, pc \in Sending,
         UNCHANGED <<loads, region, cdev, buffer, allocated, orphaning, idx, users>>,
         UNCHANGED <<writeIdx, count>>, slots' \in [Slot -> Content],
         count = sent + 1 \/ (count = Capacity /\ sent + 1 >= Capacity),
         writeIdx = count,
         \A i \in Slot : i < count => Whole(i)'
  PROVE  IInv'
<1> USE ModuleAssumption DEF IInv, Return
<1>1. TypeOK'
  BY DEF TypeOK, Points, Progress, users
<1>2. Phase'
  BY DEF Phase, Sending
<1>3. Opened' /\ Mapped'
  BY UsersKept DEF Phase, Sending
<1>4. Progress'
  BY DEF Progress, Sending, TypeOK, Phase
<1>5. Delivered'
  BY DEF Delivered, Sending
<1> QED
  BY <1>1, <1>2, <1>3, <1>4, <1>5

LEMMA ClaimStep == IInv /\ Claim => IInv'
<1> SUFFICES ASSUME IInv, Claim PROVE IInv'
  OBVIOUS
<1> USE ModuleAssumption DEF IInv, Claim
<1>1. CASE count >= Capacity
  <2>1. UNCHANGED <<writeIdx, count, slots, idx>> /\ Return
    BY <1>1
  <2>2. count = Capacity /\ sent + 1 >= Capacity /\ writeIdx = count
    BY <1>1 DEF TypeOK, Progress
  <2>3. \A i \in Slot : i < count => Whole(i)'
    BY <2>1 DEF Delivered, Whole
  <2> QED
    BY <2>1, <2>2, <2>3, ReturnKeeps DEF Sending, TypeOK
<1>2. CASE ~(count >= Capacity)
  <2>1. count < Capacity /\ writeIdx = count /\ count = sent /\ count \in Slot
    BY <1>2 DEF TypeOK, Progress, Slot
  <2>2. idx' = count /\ writeIdx' = count + 1 /\ pc' = "clear" /\ UNCHANGED <<module, sent>>
    <3>1. count % Capacity = count
      BY <2>1, Modulo DEF TypeOK
    <3> QED
      BY <1>2, <2>1, <3>1
  <2>3. TypeOK'
    BY <2>1, <2>2 DEF TypeOK, Points, users
  <2>4. Phase'
    BY <2>2 DEF Phase, Sending
  <2>5. Opened' /\ Mapped'
    BY <2>2, UsersKept
  <2>6. Progress'
    BY <2>1, <2>2 DEF Progress, Phase, Sending
  <2>7. Delivered'
    BY <2>2 DEF Delivered, Whole, Phase, Sending
  <2> QED
    BY <2>3, <2>4, <2>5, <2>6, <2>7
<1> QED
  BY <1>1, <1>2

\* What an assignment to a member of a slot does.
LEMMA SlotSet ==
  ASSUME slots \in [Slot -> Content], idx \in Slot,
         NEW r \in {0, 1}, NEW t \in {Garbage} \cup 1 .. Messages
  PROVE  /\ [slots EXCEPT ![idx].ready = r] \in [Slot -> Content]
         /\ [slots EXCEPT ![idx].text = t] \in [Slot -> Content]
         /\ \A i \in Slot \ {idx} : [slots EXCEPT ![idx].ready = r][i] = slots[i]
         /\ \A i \in Slot \ {idx} : [slots EXCEPT ![idx].text = t][i] = slots[i]
         /\ [slots EXCEPT ![idx].ready = r][idx].ready = r
         /\ [slots EXCEPT ![idx].ready = r][idx].text = slots[idx].text
         /\ [slots EXCEPT ![idx].text = t][idx].text = t
  BY DEF Content

LEMMA ClearStep == IInv /\ Clear => IInv'
<1> SUFFICES ASSUME IInv, Clear PROVE IInv'
  OBVIOUS
<1> USE ModuleAssumption DEF IInv, Clear
<1>1. /\ slots' \in [Slot -> Content]
      /\ \A i \in Slot \ {idx} : slots'[i] = slots[i]
  BY SlotSet DEF TypeOK
<1>2. TypeOK'
  BY <1>1 DEF TypeOK, Points, users
<1>3. Phase'
  BY DEF Phase, Sending
<1>4. Opened' /\ Mapped'
  BY UsersKept
<1>5. Progress'
  BY DEF Progress, Phase, Sending
<1>6. Delivered'
  <2>1. \A i \in Slot : i < count => Whole(i) /\ i # idx
    BY DEF Delivered, Progress, TypeOK, Slot
  <2>2. \A i \in Slot : i < count => Whole(i)'
    BY <1>1, <2>1 DEF Whole
  <2> QED
    BY <2>2 DEF Delivered, Phase
<1> QED
  BY <1>2, <1>3, <1>4, <1>5, <1>6

LEMMA CopyStep == IInv /\ Copy => IInv'
<1> SUFFICES ASSUME IInv, Copy PROVE IInv'
  OBVIOUS
<1> USE ModuleAssumption DEF IInv, Copy
<1>0. sent + 1 \in {Garbage} \cup 1 .. Messages /\ idx = sent /\ idx \in Slot
  BY DEF TypeOK, Progress, Sending
<1>1. /\ slots' \in [Slot -> Content]
      /\ \A i \in Slot \ {idx} : slots'[i] = slots[i]
      /\ slots'[idx].text = idx + 1
  BY <1>0, SlotSet DEF TypeOK
<1>2. TypeOK'
  BY <1>1 DEF TypeOK, Points, users
<1>3. Phase'
  BY DEF Phase, Sending
<1>4. Opened' /\ Mapped'
  BY UsersKept
<1>5. Progress'
  BY DEF Progress, Phase, Sending
<1>6. Delivered'
  <2>1. \A i \in Slot : i < count => Whole(i) /\ i # idx
    BY DEF Delivered, Progress, TypeOK, Slot
  <2>2. \A i \in Slot : i < count => Whole(i)'
    BY <1>1, <2>1 DEF Whole
  <2> QED
    BY <1>1, <2>2 DEF Delivered, Phase
<1> QED
  BY <1>2, <1>3, <1>4, <1>5, <1>6

LEMMA CountStep == IInv /\ Count => IInv'
<1> SUFFICES ASSUME IInv, Count PROVE IInv'
  OBVIOUS
<1> USE ModuleAssumption DEF IInv, Count
<1>1. count = idx /\ idx = sent /\ count + 1 \in 0 .. Capacity /\ count' = count + 1
  BY DEF Progress, TypeOK, Slot
<1>2. TypeOK'
  BY <1>1 DEF TypeOK, Points, users
<1>3. Phase'
  BY DEF Phase, Sending
<1>4. Opened' /\ Mapped'
  BY UsersKept
<1>5. Progress'
  BY <1>1 DEF Progress, Phase, Sending
<1>6. Delivered'
  BY <1>1 DEF Delivered, Whole, Phase, Sending
<1> QED
  BY <1>2, <1>3, <1>4, <1>5, <1>6

LEMMA PublishStep == IInv /\ Publish => IInv'
<1> SUFFICES ASSUME IInv, Publish PROVE IInv'
  OBVIOUS
<1> USE ModuleAssumption DEF IInv, Publish
<1>1. /\ slots' \in [Slot -> Content]
      /\ \A i \in Slot \ {idx} : slots'[i] = slots[i]
      /\ slots'[idx].ready = 1 /\ slots'[idx].text = slots[idx].text
  BY SlotSet DEF TypeOK
<1>2. count = idx + 1 /\ count = sent + 1 /\ writeIdx = count /\ idx \in Slot
  BY DEF Progress, TypeOK
<1>3. \A i \in Slot : i < count => Whole(i)'
  <2> SUFFICES ASSUME NEW i \in Slot, i < count PROVE Whole(i)'
    OBVIOUS
  <2>1. CASE i = idx
    BY <2>1, <1>1 DEF Delivered, Whole
  <2>2. CASE i # idx
    BY <2>2, <1>1, <1>2 DEF Delivered, Whole, Slot
  <2> QED
    BY <2>1, <2>2
<1> QED
  BY <1>1, <1>2, <1>3, ReturnKeeps DEF Sending

-----------------------------------------------------------------------------
(* kernel_module_exit and the processes.                                     *)
LEMMA RmmodStep == IInv /\ Rmmod => IInv'
<1> SUFFICES ASSUME IInv, Rmmod PROVE IInv'
  OBVIOUS
<1> USE DEF IInv, Rmmod, memory, users
<1>1. TypeOK'
  BY DEF TypeOK, Points
<1>2. Phase'
  BY DEF Phase, TypeOK, Sending
<1>3. Opened' /\ Mapped'
  BY DEF Opened, FilesHoldModule, Mapped, Referrers
<1>4. Progress' /\ Delivered'
  BY DEF Progress, Delivered, Sending
<1> QED
  BY <1>1, <1>2, <1>3, <1>4

LEMMA ExitStep == IInv /\ ExitSteps => IInv'
<1> SUFFICES ASSUME IInv, ExitSteps PROVE IInv'
  OBVIOUS
<1> USE DEF IInv, ExitSteps, FreeBuffer, ForgetBuffer, Unregister, memory, users
<1>1. TypeOK'
  <2>1. CASE FreeBuffer
    BY <2>1 DEF TypeOK, Points
  <2>2. CASE ForgetBuffer
    BY <2>2 DEF TypeOK, Points
  <2>3. CASE Unregister
    BY <2>3 DEF TypeOK, Points
  <2> QED
    BY <2>1, <2>2, <2>3
<1>2. Phase'
  BY DEF Phase, TypeOK, Sending
<1>3. Opened'
  BY DEF Opened, FilesHoldModule, Phase
<1>4. Mapped'
  BY DEF Mapped, Phase
<1>5. Progress'
  BY DEF Progress, Phase, Sending
<1>6. Delivered'
  BY DEF Delivered, Phase, Sending
<1> QED
  BY <1>1, <1>2, <1>3, <1>4, <1>5, <1>6

LEMMA UserStep == IInv /\ UserSteps => IInv'
<1> SUFFICES ASSUME IInv, NEW u \in Users, Open(u) \/ Mmap(u) \/ Munmap(u) \/ Release(u)
             PROVE  IInv'
  BY DEF UserSteps
<1> USE DEF IInv, loader, memory
<1>0. UNCHANGED <<loader, memory>>
  BY DEF Open, Mmap, Munmap, Release
<1>1. TypeOK'
  <2>1. CASE Open(u)
    BY <2>1 DEF TypeOK, Open
  <2>2. CASE Mmap(u)
    BY <2>2 DEF TypeOK, Mmap
  <2>3. CASE Munmap(u)
    BY <2>3 DEF TypeOK, Munmap
  <2>4. CASE Release(u)
    BY <2>4 DEF TypeOK, Release
  <2> QED
    BY <2>1, <2>2, <2>3, <2>4
<1>2. Phase'
  BY <1>0 DEF Phase
<1>3. Opened'
  <2>1. CASE Open(u)
    BY <2>1 DEF Opened, FilesHoldModule, TypeOK, Open, Phase
  <2>2. CASE Release(u)
    BY <2>2 DEF Opened, FilesHoldModule, TypeOK, Release, Phase
  <2>3. CASE Mmap(u) \/ Munmap(u)
    BY <2>3 DEF Opened, FilesHoldModule, Mmap, Munmap
  <2> QED
    BY <2>1, <2>2, <2>3
<1>4. Mapped'
  <2>1. CASE Open(u)
    BY <2>1 DEF Mapped, TypeOK, Open
  <2>2. CASE Mmap(u)
    <3>1. buffer = 0 \/ (buffer = loads /\ buffer \in allocated /\ module \in {"coming", "live"})
      BY <2>2 DEF Phase, Sending, Mmap, TypeOK, Opened, FilesHoldModule
    <3> QED
      BY <2>2, <3>1 DEF Mapped, TypeOK, Mmap
  <2>3. CASE Munmap(u)
    BY <2>3 DEF Mapped, TypeOK, Munmap
  <2>4. CASE Release(u)
    BY <2>4 DEF Mapped, TypeOK, Release
  <2> QED
    BY <2>1, <2>2, <2>3, <2>4
<1>5. Progress' /\ Delivered'
  BY <1>0 DEF Progress, Delivered, Whole
<1> QED
  BY <1>1, <1>2, <1>3, <1>4, <1>5

-----------------------------------------------------------------------------
LEMMA IInvStep == IInv /\ [Next]_modvars => IInv'
<1> SUFFICES ASSUME IInv, [Next]_modvars PROVE IInv'
  OBVIOUS
<1>1. CASE Insmod
  BY <1>1, InsmodStep
<1>2. CASE Rmmod
  BY <1>2, RmmodStep
<1>3. CASE InitSteps
  BY <1>3, AllocRegionStep, AddCdevStep, AllocBufferStep, ZeroCountersStep, ClaimStep, ClearStep,
     CopyStep, CountStep, PublishStep DEF InitSteps, SendMessage
<1>4. CASE ExitSteps
  BY <1>4, ExitStep
<1>5. CASE UserSteps
  BY <1>5, UserStep
<1>6. CASE UNCHANGED modvars
  BY <1>6 DEF modvars, loader, memory, users, IInv, TypeOK, Phase, Opened, FilesHoldModule, Mapped,
     Progress, Delivered, Whole
<1> QED
  BY <1>1, <1>2, <1>3, <1>4, <1>5, <1>6 DEF Next

LEMMA Invariance == Spec => []IInv
  BY IInvInit, IInvStep, PTL DEF Spec

-----------------------------------------------------------------------------
\* The variables keep their types, and the counters never leave the buffer
\* (src/kernel/module/kernel-module.c:30-68).
THEOREM TypeCorrect == Spec => []TypeOK
<1>1. IInv => TypeOK
  BY DEF IInv
<1> QED
  BY <1>1, Invariance, PTL

\* A process that has the device open keeps the module in memory, but for a load
\* that fails after cdev_add (src/kernel/module/kernel-module.c:138).
THEOREM FilesHold == Spec => []FilesHoldModule
<1>1. IInv => FilesHoldModule
  BY DEF IInv, Opened
<1> QED
  BY <1>1, Invariance, PTL

\* No process has memory mapped that was freed
\* (src/kernel/module/kernel-module.c:165).
THEOREM MappingsHold == Spec => []MappingsHoldBuffer
<1>1. IInv => MappingsHoldBuffer
  BY DEF IInv, Mapped, MappingsHoldBuffer
<1> QED
  BY <1>1, Invariance, PTL

\* A module that is not loaded has nothing registered or allocated, whichever
\* step of init failed (src/kernel/module/kernel-module.c:131-144).
THEOREM NothingIsLeft == Spec => []NothingLeft
<1>1. IInv => NothingLeft
  <2> SUFFICES ASSUME IInv PROVE NothingLeft
    OBVIOUS
  <2>1. allocated = {} \/ allocated = {loads}
    BY DEF IInv, Phase
  <2>2. Cardinality(allocated) <= 1
    <3>1. Cardinality({}) = 0
      BY FS_EmptySet
    <3>2. Cardinality({loads}) = 1
      BY FS_Singleton
    <3> QED
      BY <2>1, <3>1, <3>2
  <2>3. module = "unloaded" => ~region /\ ~cdev /\ allocated = {} /\ buffer = 0
    BY DEF IInv, Phase, Sending
  <2> QED
    BY <2>2, <2>3 DEF NothingLeft
<1> QED
  BY <1>1, Invariance, PTL

\* A slot below num_messages that is marked ready holds its message, at every
\* moment of a send (src/kernel/module/kernel-module.c:59-66).
THEOREM CountedAreWhole == Spec => []CountedIsWhole
<1>1. IInv => CountedIsWhole
  BY DEF IInv, CountedIsWhole, Delivered, Progress, Whole, TypeOK, Slot
<1> QED
  BY <1>1, Invariance, PTL

\* After init the messages are in the buffer, as many as it has room for
\* (src/kernel/module/kernel-module.c:150-152).
THEOREM MessagesAreDelivered == Spec => []MessagesDelivered
<1>1. IInv => MessagesDelivered
  <2> SUFFICES ASSUME IInv, module = "live" PROVE MessagesDelivered
    BY DEF MessagesDelivered
  <2>1. count = (IF Messages < Capacity THEN Messages ELSE Capacity) /\ writeIdx = count
    BY ModuleAssumption DEF IInv, Progress, TypeOK
  <2>2. \A i \in Slot : i < count => slots[i] = [ready |-> 1, text |-> i + 1]
    BY DEF IInv, Delivered, Whole, TypeOK, Content
  <2> QED
    BY <2>1, <2>2 DEF MessagesDelivered
<1> QED
  BY <1>1, Invariance, PTL
=============================================================================
