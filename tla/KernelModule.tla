---------------------------- MODULE KernelModule ----------------------------
(***************************************************************************)
(* The kernel module of src/kernel/module: its init function registers a   *)
(* character device, allocates the buffer that processes map, and puts     *)
(* three messages into it; its exit function takes everything back.  The   *)
(* device is live from cdev_add on, so processes open and map it while     *)
(* init is still running.                                                  *)
(*                                                                         *)
(* What the kernel itself does (the module loader, the reference a file    *)
(* holds through fops.owner, remap_pfn_range) is modelled from how the     *)
(* module uses it.  Processes only read the buffer: the program that would *)
(* write to it is commented out in src/kernel/kernel-module.cpp.           *)
(***************************************************************************)
EXTENDS Integers, FiniteSets

CONSTANTS
    Users,    \* the processes that use the device
    Capacity, \* ANT_MMAP_BUF_SIZE / sizeof(mmap_message_t), which is 62
    Messages, \* the number of messages init sends, which is 3
    MaxLoads  \* bound on how often the module is loaded

ASSUME ModuleAssumption ==
    /\ Capacity \in Nat \ {0} /\ Messages \in Nat \ {0} /\ MaxLoads \in Nat

VARIABLES
    module,    \* "unloaded", "coming", "live" or "going"
    pc,        \* the next step of kernel_module_init or _exit, if any
    loads,     \* how often the module was loaded
    region,    \* TRUE while the device numbers are allocated
    cdev,      \* TRUE while the device is registered
    buffer,    \* mmap_buffer: the number of the load it is of, 0 for NULL
    allocated, \* the buffers that are allocated
    writeIdx,  \* mmap_buffer->write_idx
    count,     \* mmap_buffer->num_messages
    slots,     \* mmap_buffer->messages: ready, and the message data and len hold
    idx,       \* send_mmap_message's idx
    sent,      \* how many calls of send_mmap_message have returned
    file,      \* file[u]: the load whose device u has open, or 0
    map,       \* map[u]: {} or what u has mapped, buffer n or, as 0, not a buffer
    orphaning  \* the loads that failed when the device was live already

loader == <<module, pc, loads, region, cdev, buffer, allocated, orphaning>>
memory == <<writeIdx, count, slots, idx, sent>>
users == <<file, map>>
modvars == <<loader, memory, users>>

\* Slots are numbered from 0, as in the code; what is in memory before it is
\* written is not 0 but anything.
Slot == 0 .. Capacity - 1
Garbage == -1
Content == [ready: {0, 1}, text: {Garbage} \cup 1 .. Messages]

Init ==
    /\ module = "unloaded" /\ pc = "none" /\ loads = 0
    /\ region = FALSE /\ cdev = FALSE /\ buffer = 0 /\ allocated = {}
    /\ writeIdx = 0 /\ count = 0 /\ idx = 0 /\ sent = 0
    /\ slots = [i \in Slot |-> [ready |-> 0, text |-> Garbage]]
    /\ file = [u \in Users |-> 0] /\ map = [u \in Users |-> {}]
    /\ orphaning = {}

(***************************************************************************)
(* kernel_module_init.                                                     *)
(***************************************************************************)
Insmod ==
    /\ module = "unloaded" /\ loads < MaxLoads
    /\ module' = "coming" /\ pc' = "region" /\ loads' = loads + 1
    /\ sent' = 0
    /\ UNCHANGED <<region, cdev, buffer, allocated, orphaning, writeIdx, count, slots, idx,
                   users>>

\* Init returns an error: the module is freed, whoever uses it.
Fail == module' = "unloaded" /\ pc' = "none"

AllocRegion ==
    /\ pc = "region"
    /\ \/ region' = TRUE /\ pc' = "cdev" /\ UNCHANGED module
       \/ Fail /\ UNCHANGED region
    /\ UNCHANGED <<loads, cdev, buffer, allocated, orphaning, memory, users>>

AddCdev ==
    /\ pc = "cdev"
    /\ \/ cdev' = TRUE /\ pc' = "alloc" /\ UNCHANGED <<module, region>>
       \/ region' = FALSE /\ Fail /\ UNCHANGED cdev
    /\ UNCHANGED <<loads, buffer, allocated, orphaning, memory, users>>

\* kmalloc_array leaves the memory as it is.
Allocate ==
    /\ buffer' = loads /\ allocated' = allocated \cup {loads}
    /\ writeIdx' \in {0, Capacity} /\ count' \in {0, Capacity}
    /\ slots' \in [Slot -> [ready: {0, 1}, text: {Garbage}]]
    /\ UNCHANGED <<idx, sent>>

\* Mutant: the numbers stay allocated when there is no memory.
AllocBufferLeaking ==
    /\ pc = "alloc"
    /\ \/ /\ Allocate
          /\ pc' = "zero" /\ UNCHANGED <<module, region, cdev, orphaning>>
       \/ /\ cdev' = FALSE /\ Fail
          /\ orphaning' = orphaning \cup {loads}
          /\ UNCHANGED <<region, buffer, allocated, memory>>
    /\ UNCHANGED <<loads, users>>

AllocBuffer ==
    /\ pc = "alloc"
    /\ \/ /\ Allocate
          /\ pc' = "zero" /\ UNCHANGED <<module, region, cdev, orphaning>>
       \/ /\ cdev' = FALSE /\ region' = FALSE /\ Fail
          /\ orphaning' = orphaning \cup {loads}
          /\ UNCHANGED <<buffer, allocated, memory>>
    /\ UNCHANGED <<loads, users>>

\* Mutant: num_messages is not reset.
ZeroIndicesOnly ==
    /\ pc = "zero"
    /\ writeIdx' = 0
    /\ pc' = "claim"
    /\ UNCHANGED <<module, loads, region, cdev, buffer, allocated, orphaning, count, slots,
                   idx, sent, users>>

ZeroCounters ==
    /\ pc = "zero"
    /\ writeIdx' = 0 /\ count' = 0
    /\ pc' = "claim"
    /\ UNCHANGED <<module, loads, region, cdev, buffer, allocated, orphaning, slots, idx, sent,
                   users>>

(***************************************************************************)
(* send_mmap_message, called Messages times.                               *)
(***************************************************************************)
\* A call returns; after the last one init returns 0.
Return ==
    /\ sent' = sent + 1
    /\ IF sent + 1 < Messages
       THEN pc' = "claim" /\ UNCHANGED module
       ELSE pc' = "none" /\ module' = "live"

\* Mutant: the writer waits for a reader to make room.
ClaimWaiting ==
    /\ pc = "claim" /\ count < Capacity
    /\ idx' = writeIdx % Capacity /\ writeIdx' = writeIdx + 1
    /\ pc' = "clear" /\ UNCHANGED <<module, sent>>
    /\ UNCHANGED <<loads, region, cdev, buffer, allocated, orphaning, count, slots, users>>

\* Mutants: the limit is off by one; the index is incremented before it is used.
ClaimOneMore ==
    /\ pc = "claim"
    /\ IF count > Capacity
       THEN Return /\ UNCHANGED <<writeIdx, idx>>
       ELSE /\ idx' = writeIdx % Capacity /\ writeIdx' = writeIdx + 1
            /\ pc' = "clear" /\ UNCHANGED <<module, sent>>
    /\ UNCHANGED <<loads, region, cdev, buffer, allocated, orphaning, count, slots, users>>

ClaimNext ==
    /\ pc = "claim"
    /\ IF count >= Capacity
       THEN Return /\ UNCHANGED <<writeIdx, idx>>
       ELSE /\ idx' = (writeIdx + 1) % Capacity /\ writeIdx' = writeIdx + 1
            /\ pc' = "clear" /\ UNCHANGED <<module, sent>>
    /\ UNCHANGED <<loads, region, cdev, buffer, allocated, orphaning, count, slots, users>>

\* get_next_write_pos: a full buffer drops the message.  (There is a buffer:
\* init sends only after it was allocated.)
Claim ==
    /\ pc = "claim"
    /\ IF count >= Capacity
       THEN Return /\ UNCHANGED <<writeIdx, idx>>
       ELSE /\ idx' = writeIdx % Capacity /\ writeIdx' = writeIdx + 1
            /\ pc' = "clear" /\ UNCHANGED <<module, sent>>
    /\ UNCHANGED <<loads, region, cdev, buffer, allocated, orphaning, count, slots, users>>

Clear ==
    /\ pc = "clear"
    /\ slots' = [slots EXCEPT ![idx].ready = 0]
    /\ pc' = "copy"
    /\ UNCHANGED <<module, loads, region, cdev, buffer, allocated, orphaning, writeIdx, count,
                   idx, sent, users>>

\* data and len.
Copy ==
    /\ pc = "copy"
    /\ slots' = [slots EXCEPT ![idx].text = sent + 1]
    /\ pc' = "count"
    /\ UNCHANGED <<module, loads, region, cdev, buffer, allocated, orphaning, writeIdx, count,
                   idx, sent, users>>

Count ==
    /\ pc = "count"
    /\ count' = count + 1
    /\ pc' = "publish"
    /\ UNCHANGED <<module, loads, region, cdev, buffer, allocated, orphaning, writeIdx, slots,
                   idx, sent, users>>

\* The smp_wmb that follows orders nothing of this message.
Publish ==
    /\ pc = "publish"
    /\ slots' = [slots EXCEPT ![idx].ready = 1]
    /\ Return
    /\ UNCHANGED <<loads, region, cdev, buffer, allocated, orphaning, writeIdx, count, idx,
                   users>>

(***************************************************************************)
(* kernel_module_exit.                                                     *)
(***************************************************************************)
\* The processes that hold a reference to the module.
Referrers == {u \in Users : file[u] = loads}

\* Mutant: the file operations have no owner.
RmmodForced ==
    /\ module = "live"
    /\ module' = "going" /\ pc' = "free"
    /\ UNCHANGED <<loads, region, cdev, buffer, allocated, orphaning, memory, users>>

Rmmod ==
    /\ module = "live" /\ Referrers = {}
    /\ module' = "going" /\ pc' = "free"
    /\ UNCHANGED <<loads, region, cdev, buffer, allocated, orphaning, memory, users>>

FreeBuffer ==
    /\ pc = "free"
    /\ allocated' = allocated \ {buffer}
    /\ pc' = "forget"
    /\ UNCHANGED <<module, loads, region, cdev, buffer, orphaning, memory, users>>

ForgetBuffer ==
    /\ pc = "forget"
    /\ buffer' = 0
    /\ pc' = "unregister"
    /\ UNCHANGED <<module, loads, region, cdev, allocated, orphaning, memory, users>>

Unregister ==
    /\ pc = "unregister"
    /\ cdev' = FALSE /\ region' = FALSE
    /\ module' = "unloaded" /\ pc' = "none"
    /\ UNCHANGED <<loads, buffer, allocated, orphaning, memory, users>>

(***************************************************************************)
(* Processes that use the device.                                          *)
(***************************************************************************)
\* fops.owner: a file is only opened if the module is not going.
Open(u) ==
    /\ cdev /\ module \in {"coming", "live"}
    /\ file[u] = 0
    /\ file' = [file EXCEPT ![u] = loads]
    /\ UNCHANGED <<loader, memory, map>>

\* kernel_module_mmap does not ask whether there is a buffer.  It may fail, for
\* a region that is too large or in remap_pfn_range.
Mmap(u) ==
    /\ file[u] = loads /\ module # "unloaded"
    /\ map[u] = {}
    /\ map' = [map EXCEPT ![u] = {buffer}]
    /\ UNCHANGED <<loader, memory, file>>

Munmap(u) ==
    /\ map[u] # {}
    /\ map' = [map EXCEPT ![u] = {}]
    /\ UNCHANGED <<loader, memory, file>>

\* The last reference to the file is gone; a mapping is one.
Release(u) ==
    /\ file[u] # 0 /\ map[u] = {}
    /\ file' = [file EXCEPT ![u] = 0]
    /\ UNCHANGED <<loader, memory, map>>

-----------------------------------------------------------------------------
SendMessage == Claim \/ Clear \/ Copy \/ Count \/ Publish
InitSteps == AllocRegion \/ AddCdev \/ AllocBuffer \/ ZeroCounters \/ SendMessage
ExitSteps == FreeBuffer \/ ForgetBuffer \/ Unregister
UserSteps == \E u \in Users : Open(u) \/ Mmap(u) \/ Munmap(u) \/ Release(u)

Next == Insmod \/ Rmmod \/ InitSteps \/ ExitSteps \/ UserSteps

Spec == Init /\ [][Next]_modvars

\* insmod and rmmod run init and exit to their ends.
FairSpec == Spec /\ WF_modvars(InitSteps) /\ WF_modvars(ExitSteps)

-----------------------------------------------------------------------------
(***************************************************************************)
(* Properties.                                                             *)
(***************************************************************************)
Points == {"none", "region", "cdev", "alloc", "zero", "claim", "clear", "copy", "count",
           "publish", "free", "forget", "unregister"}

\* Types; and the buffer's counters stay within its slots.
TypeOK ==
    /\ module \in {"unloaded", "coming", "live", "going"} /\ pc \in Points
    /\ loads \in 0 .. MaxLoads
    /\ region \in BOOLEAN /\ cdev \in BOOLEAN
    /\ buffer \in 0 .. loads /\ allocated \subseteq 1 .. loads
    /\ writeIdx \in 0 .. Capacity /\ count \in 0 .. Capacity
    /\ slots \in [Slot -> Content]
    /\ idx \in Slot /\ sent \in 0 .. Messages
    /\ file \in [Users -> 0 .. loads] /\ map \in [Users -> SUBSET (0 .. loads)]
    /\ orphaning \subseteq 1 .. loads

\* A process that has the device open keeps the module in memory, and its exit
\* function from running; the one exception is an init that fails after
\* cdev_add (kernel-module.c:138-144), which takes the module away from
\* processes that have opened its device already.
FilesHoldModule ==
    \A u \in Users :
        \/ file[u] = 0
        \/ file[u] = loads /\ module \in {"coming", "live"}
        \/ file[u] \in orphaning

\* No process keeps a mapping of memory that was freed: exit frees the buffer
\* (kernel-module.c:165) before it unregisters the device, and relies on the
\* reference every mapping holds.
MappingsHoldBuffer == \A u \in Users : map[u] \subseteq allocated \cup {0}

\* Whichever step of init failed, and after exit, nothing is left allocated or
\* registered (kernel-module.c:131-144, 161-171), and there is never a second
\* buffer.
NothingLeft ==
    /\ module = "unloaded" => ~region /\ ~cdev /\ allocated = {} /\ buffer = 0
    /\ Cardinality(allocated) <= 1

\* A slot below num_messages that is marked ready holds its message, at every
\* moment of a send a reader may look (kernel-module.c:59-66), although ready
\* and num_messages are two variables and the memory was not cleared.
CountedIsWhole ==
    module = "live" \/ pc \in {"claim", "clear", "copy", "count", "publish"} =>
        \A i \in Slot : i < count /\ slots[i].ready = 1 => slots[i].text = i + 1

\* When init has returned 0 the messages are in the buffer, in the order they
\* were sent, as many as it has room for.
MessagesDelivered ==
    module = "live" =>
        /\ count = (IF Messages < Capacity THEN Messages ELSE Capacity)
        /\ writeIdx = count
        /\ \A i \in Slot : i < count => slots[i] = [ready |-> 1, text |-> i + 1]

\* insmod returns: init never waits, not even for room in the buffer.
LoadEnds == module = "coming" ~> module # "coming"

\* "1 = ready, 0 = not" (src/kernel/module/include/ant-kernel/mmap.h:17): in a
\* buffer that a process may read, a slot is ready only if a message was put
\* there.
ReadyIsWritten ==
    buffer # 0 => \A i \in Slot : slots[i].ready = 1 => slots[i].text # Garbage

\* "Mapped buffer to user space" (src/kernel/module/kernel-module.c:102): what
\* a process has mapped is the module's buffer.
MappedIsBuffer == \A u \in Users : 0 \notin map[u]
=============================================================================
