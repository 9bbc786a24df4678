# A TLA+ model of ant-kernel-filter

ant-kernel-filter is a collection of small programs around one idea: move
messages from the kernel to user space and filter them on the way. This
directory holds TLA+ models of them, the TLC configurations that check the
models on small instances, and TLAPS proofs of the theorems about them.
Paths below are relative to the repository.

## Inventory

| Part | Source | State it keeps | Operations |
|---|---|---|---|
| tracepoint program | `src/bpf/ant-bpf.bpf.c`, `include/ant-bpf/event.h` | one perf ring per CPU | `handle_exec`: one event per exec |
| process monitor | `src/bpf/main.cpp` | `running`, the event vector, the output stream, the BPF object and the perf buffer | construct, poll, take, sort and write, destroy; the signal handler |
| kernel module | `src/kernel/module/` | device numbers, cdev, the mapped buffer with `write_idx`, `read_idx`, `num_messages` and 62 slots | init, `send_mmap_message`, exit, open, mmap, release |
| kernel module handle | `src/kernel/kernel-module.cpp` | `status_`, for the life of one command | `Load` (insmod), `Unload` (rmmod); `CreateMap`, `ReadMap`, `CloseMap` are empty |
| ctl | `src/ctl/main.cpp`, `commands.hpp` | none | eleven commands, two of which do something |
| filter: parser | `src/filter/xml-parser.cpp`, `block.cpp`, `graph.hpp` | the graph: blocks and their inputs, by SID; lines by source and port | `Parse`, `CreateConnection` |
| filter: generator | `src/filter/code-generator.cpp`, `filter.cpp` | the lines of the generated program | `TopologicalSort`, `GenStep` and the other `Gen*`, `WriteToFile`; `Filter::Create` |
| prometheus exporter | `src/ctl/prometheus.cpp` | counters | never called |
| core, log | `src/core`, `src/log` | none | an error value, formatters, a logger |
| tinyxml2 | `src/filter/lib/tinyxml` | nodes linked by pointers, the list of unlinked nodes, pools and their counts, the raw text of each node | parse, decode, insert, delete, clone, edit, print |

There are no tests in the repository (`src/test` is a CMake file only).

How the parts meet: the tracepoint program and the monitor share the perf
rings, and the monitor polls them. ctl runs insmod and rmmod, which run the
module's init and exit; processes open and map the module's device meanwhile.
The parser hands its graph to the generator. Nothing connects the filters, the
module and the monitor yet: the docs describe the plan, the code has no calls.

What is hard in each part, and what makes it correct:

* **Monitor.** Handlers on every CPU race with a reader that visits the rings
  one by one; every constructor, the poll, a conversion and a write may fail;
  signals arrive anywhere; the process may be killed and started again over its
  old output. Correct means: an exec is logged at most once, the execs of a CPU
  in order, everything received is in the file after a normal end, and nothing
  stays attached, open or installed.
* **Kernel module.** The device is live before its buffer exists and after init
  began to fail; exit frees the buffer before it unregisters the device;
  readers look while a message is written. Correct means: no mapping of memory
  that was freed, no file without its module, no half-written message that
  counts.
* **ctl.** Several invocations share one module, and an invocation answers some
  time after its insmod or rmmod has ended, when others may have changed the
  module again. Correct means: once nobody has still to answer, the exit statuses
  tell what became of the module.
* **Filter.** The order of the generated assignments decides what they compute:
  everything a block reads is computed before it, cycles without a delay are
  refused, others are not. The input is any file: elements may be missing,
  repeated or malformed, and the output goes over the input. Correct means:
  an error changes nothing, the graph is one the sort can be given, and the
  program compiles and computes the diagram.
* **tinyxml2.** Five pointers per node, a second list of nodes nobody inserted
  yet, and counts that go with both change at every call and on every error
  path; entities are replaced in the buffer they are read from. Correct means:
  pointers, list and counts agree after every sequence of calls, an error
  leaves nothing behind, and a document that is saved reads back the same.

## Modules

* `EventLog` states what the monitor promises the reader of its file.
* `BpfMonitor` models the tracepoint program and the monitor process, and
  implements `EventLog`. `MCBpfMonitor` instantiates it for TLC,
  `BpfMonitorProofs` holds its theorems.
* `KernelModule` models the module, its device and the processes that use it.
* `Ctl` composes any number of ctl invocations with `KernelModule`, which it
  instantiates, and shows that they use it as it allows.
* `TopoSort` models `CodeGenerator::TopologicalSort` over the graphs the parser
  leaves behind. `MCTopoSort` gives it all small graphs and the repository's
  `filter-sheme.xml`, `TopoSortProofs` holds its theorems.
* `Filter` models `Filter::Create` from the file to the file: the parser, then
  `TopoSort` (which it instantiates on the graph it has read), then the
  generator. `MCFilter` gives it files. Its theorems are in `FilterProofs`: the
  file, the graph, what the sort gives, that the program is closed, and that its
  step computes the diagram.
* `Loop` says what a loop of the code leaves behind: the state after so many
  turns. Its theorem is that there are states between the turns, which is all
  that invariants of turns need.
* `XmlText`, `XmlLinks`, `XmlDom`, `XmlParse` and `XmlPrint` model tinyxml2 as
  operators: its strings, the links of its tree, the rest of its tree, its parser,
  its printer. `Xml` is a program that calls them, `MCXml` gives it texts and
  numbers of calls. `XmlDomProofs` has the theorems of the calls that create,
  insert, delete, change and copy nodes, `XmlProofs` those of the parser, of
  decoding and printing, and of `Xml`.
* `KernelModuleProofs` and `CtlProofs` hold the theorems of `KernelModule` and
  `Ctl`.

An operator that follows the word "Mutant" in a comment is a variant of the
definition below it with a plausible bug. Nothing refers to it; substituting it
for the definition shows that the property named in `PROJECT.json` notices.

### BpfMonitor

An event is a record of its id (the number of the exec), its CPU, its timestamp
in milliseconds and a flag that says whether `comm` and `cmdline`, which are cut
at a fixed number of bytes, are UTF-8. `ExecStart` is `handle_exec` up to the
timestamp and `ExecOutput` its last call, which loses the event when the ring is
full; between the two, anything may happen. `pc` follows `main` and `App::run`:

`idle` (`Start`) `load` (`OpenAndLoad`) `attach` (`Attach`) `perf`
(`NewPerfBuffer`) `open` (`OpenDumper`) `loop` (`CheckRunning`) `poll`
(`EnterWait`) `wait` (`Wake`) `drain` (`Drain`, one ring at a time, then
`DrainDone`) `take` (`TakeAll`) `dump` (`WriteEvent` for each event, then `Flush`)
and back to `loop`; `unwind` is the way out of `run`, normal or by exception,
through the destructors (`CloseDumper`, `FreePerfBuffer`, `DestroySkeleton`,
`ResetSignals`).

Every constructor may throw, `perf_buffer__poll` may fail, `j.dump()` throws on a
string that is not UTF-8, and, if `DiskMayFill`, a write may set the stream's
badbit, after which the code goes on. `Signal` clears `running` and interrupts
the wait; `Kill` is SIGKILL or a crash at any step. Vectors of events are sets,
because every batch goes through `std::sort`: `Earliest` is what may be written
next. The stream's buffer (`stream`) and the file (`file`) are separate: a line may
reach the file at once, later, or, if the write fails or the process dies, never.
`received`, `culprit` and `exit` are history variables.

Left out: the contents of the event besides what is named above, `receiveLost`
(it prints), and the mutex of `EventBuffer`, which one thread uses.

### KernelModule

`module` is the loader's state, `pc` the step of init or exit. Init is one action
for each acquisition with its failure, one for the counters and five for each
message: claim a slot, clear `ready`, copy, count, set `ready`. Memory from
`kmalloc_array` holds anything. A process opens the device as soon as `cdev_add`
has run, and its file holds a reference to the module (`fops.owner`), so that
`Rmmod` waits for no one and simply fails while there is one; a mapping holds the
file. When init fails the loader frees the module without asking. Such a load
is put into `orphaning`, and `FilesHoldModule` says that it is the only way to
keep a file without its module. What the code in that file would do then is
undefined and not modelled: the process only unmaps and closes.

Stores become visible in the order of the code, as on x86; the `smp_wmb` after
the last store orders nothing of the message. Processes do not write to the
buffer: the reader of the repository is commented out.

### Ctl

`Parse` recognises the command or fails with status 1. `Load` and `Unload` are
`KernelModule::Load` and `Unload` up to where insmod or rmmod gets to run the
module's code, `Refused` is the same where it does not (no file, no permission,
loaded already, in use). The step of the module that ends init or exit ends the
insmod or rmmod that waits for it (`ModuleStep`, `Ended`) and nothing more:
`std::system` returns, and `main` answers, in a step of its own (`Return`). Between the
two, other invocations may load or unload the module, and answer before this
one does; until it does (`Pending`), the statuses may add up to -1, and
`AnswersAddUp` speaks of moments without pending invocations. Every other command is
`Empty`.

### TopoSort

The graph is a record: the size of the vector of slots, the SIDs of its blocks,
which of them are UnitDelays and Outports, and the lines in the order of the
file. `Visit` is one turn of the first loop, `Pop` the head of the second,
`Follow` one turn of its inner loops, and `Finish` what follows. The ports of an
`unordered_map` come in any order, the lines of one port in that of the file.

### Filter

`pc` follows `Create`: `sids` (`FindMaxSid`), `blocks` (`ReadBlock`, one turn for
each element, and `BlocksRead`), `lines` (`ReadLine`, one turn for each line or
branch, and `LinesRead`), `sort` (`Sort`, the steps of `TopoSort`, and `Sorted`),
then the loops of the generator, one turn an action and `EndLoop` the step from
one to the next: `struct` (`GenStruct`), `init` (`GenInit`), `step` (`GenStep`),
`update` (`UpdateDelays`), `ports` (`GenExtPorts`), and `write` (`WriteToFile`);
`idle` is between calls. A file is a
record of the elements `Parse` looks at, with values for an attribute that is
missing, a text that is empty and one that `ParseEndpoint` or `std::stoi`
rejects. The program is a record of its members, of what its init clears, of
the assignments of its step and of its ports; an assignment is a sum of signed,
weighted variables. Where the code's behaviour is undefined (a negative SID
indexes the vector; an empty `Name` of a `<Port>` is a null pointer in a
`std::string` assignment) the run ends in `undefined`.

Three abstract meanings are stated beside it: which graphs the sort may be given
(`T!WellFormed`), which programs compile (`CodeIsClosed`), and what a diagram
computes: `Outputs` solves all Sums and Gains at once for the outputs of the
other blocks, and `Run` executes the generated assignments one by one. Both are
linear forms over the members, so that `StepIsSynchronous` compares them for
every state of the members and not for sample values. It speaks of diagrams as
an editor draws them (`Drawable`: every port has at most one line, no line leaves
an Outport, all blocks were sorted) whose blocks have names of their own, whose
Sums begin with a plus and whose Gains are whole numbers (`Meaningful`); fractions
would only change the numbers the forms are over.

### Xml, XmlText, XmlLinks, XmlDom, XmlParse, XmlPrint

A document is a record: nodes with the pointers of the code (`parent`, `first`,
`last`, `prev`, `next`), `_unlinked`, the counts of the four pools, the error and
the parsing depth. Every member function is an operator from documents to
documents; `XmlLinks` has those that create, insert, unlink and free a node,
`XmlDom` those that delete, copy, look up and change. Where the code calls
itself for the children of a node (`DeleteChildren`, `DeepClone`, `ParseDeep`,
`Accept`), the operator is a loop over the calls under way, a sequence with the
innermost call last: `DeleteTurn`, `CopyTurn`, `ReadTurn` and `AcceptTurn` are one
pass of the innermost loop, or its end and the return to the call before it. How
many turns there are is given beforehand (`Loop!Turns`), and a turn after the end
changes nothing; that the number is enough is proved of all loops but the printer's,
where the run shows it. The parser works on sequences of characters,
because what it does depends on single ones: `DecodeTurn` of `XmlText` is a turn of
the loop of `StrPair::GetStr` with its read and write positions, `ParseElement`
reads a tag with the turns of `ParseAttributes` (`AttributeTurn`), `Take` is all
that `ParseDeep` does with a node that was read, and `Parse` deletes what it has
read when it meets an error, which `LoadFile` does not. `Xml` is the program on top:
it may parse or load at most twice and makes as many calls of the library as its
plan says, in any order, with all nodes as arguments. It respects what the
library demands of a caller but for one call, `InsertAfterFails`:
`InsertAfterChild(a, b)`, where `b` already follows `a` and is the last child,
takes `b` away first and then dereferences the null pointer behind `a`.

## What TLC checks

| Run | Instance | Shows |
|---|---|---|
| `monitor` | 2 CPUs, rings of 2, 3 execs, clock 0..1, 2 runs, disk may fill | types, at most once, no overtaking, order per CPU, nothing leaks, earlier output preserved, implements `EventLog` |
| `monitor_end` | 2 CPUs, rings of 2, 3 execs, 1 run, disk takes all, fair | a signal ends the monitor; complete after a normal end; a failure costs only what is not older; an event in a ring is written |
| `monitor_disk` | disk may fill | violation: a normal end with lines missing |
| `toposort` | 3 blocks in 4 slots; all types; 2 lines between any 2 ports, or 3 from one port; `filter-sheme.xml` | every block once, inputs first, acyclic graphs sorted whole, cycles reported when there is no Outport, delays by SID, the function ends |
| `toposort_cycles` | the same, Outports without outputs and one line per port | violation: a cycle is not reported |
| `module` | 2 processes, 3 messages, 2 slots, 2 loads, fair | references, mappings, cleaning up, whole messages, the full buffer; loading ends |
| `module_ready` | 3 slots | violation: slots ready that nobody wrote |
| `module_null` | 3 slots | violation: the page of NULL is mapped |
| `ctl` | 3 invocations, 1 process, 3 messages, 3 slots, 2 loads, fair | exit statuses add up when none is outstanding, all exit, `KernelModule` is implemented |
| `filter` | all diagrams of 3 blocks with a line into every port, the repository's `filter-sheme.xml` (with 1 for its gain of 0.01), a smaller controller, and files of at most 2 blocks and 2 lines with every defect; 2 calls, disk may fail | an error keeps the input, the graph fits the sort, the program compiles, its step is synchronous |
| `filter_delays` | the same files, 1 call | violation: a delay takes over the next value of a delay |
| `xml` | texts of up to 3 pieces, some 30 broken ones; 2 or 3 calls from small documents, at most 4 nodes by calls | pointers, list and counts agree; loads leave no orphans; copies are equal; edits are local; text and attributes read as written; a saved document reads back; decoding in place is right |

Why the bounds are enough. *Monitor*: a ring of two makes full, half-full and
empty rings; three execs fill one ring and leave one for the other CPU, or make
three batches; two timestamps make equal and different ones; a second run meets
the file of the first. *TopoSort*: three blocks have every shape of a
self-loop, a two-cycle, a three-cycle, a fork, a join, and a port with two
lines, over every assignment of types; the empty slot is in the middle. *Kernel
module*: three messages are what init sends; with two slots (`module`) they do not
fit, with three (`ctl`) they do; a second load meets processes that still hold the first. *Ctl*:
three invocations load, unload and load, or race two against one.
*Filter*: with three blocks there are all cycles, delays in a row, a Sum that
reads a block twice, and Outports before and after what they read; the defects
come alone and in pairs, with duplicates of a SID and of a port. The second call
meets the output of the first. *Xml*: `MaxElementDepth` is 5 instead of 500, and
one text exceeds it; `MaxNodes` only stops calls from creating nodes; two calls
from each small document make every pair of an insertion, a move, a deletion, an
edit and a copy, three calls start from nothing; the references among the texts
lie on both sides of every length of UTF-8.

`CHECK_DEADLOCK FALSE` is used for the monitor, the module, ctl, the filter and
Xml, which stop when the execs, starts, loads, invocations or calls of the
instance are used up.

Fairness. `BpfMonitor!FairSpec` is weak fairness of the monitor's one thread: the
scheduler runs it, and `perf_buffer__poll(100)` returns without events. Nothing is
assumed of execs, signals or the disk, and a poll that fails (`PollFails`) may
happen but never has to. `TopoSort!FairSpec` says that a function
in one thread goes on. `KernelModule!FairSpec` says that init and exit, which
never wait, go on; `Ctl!FairSpec` adds that each invocation does. Processes that
use the device need not do anything.

## What the runs found

* `monitor_disk`: `main.cpp:198` says the output was written; nobody looks at the
  stream after the constructor.
* `toposort_cycles`: "checking for cycles" (`code-generator.cpp:79`) compares a
  count with Outports with a count without, and a cycle of a plain block with
  itself goes unreported if as many Outports were sorted.
* `module_ready`: "1 = ready, 0 = not" (`mmap.h:17`) does not hold of slots that
  were never written.
* `module_null`: "Mapped buffer to user space" (`kernel-module.c:102`) is also said
  of the page at the physical address of NULL.
* `filter_delays`: "Update delay blocks state" (`code-generator.cpp:157`) updates
  the delays one after the other, so one that reads a delay with a lower SID
  gets its new value: two delays in a row delay by one step.

One comment disagrees with the code where the code does the better thing, and no
run is spent on it: "if the attribute in the source xml document is duplicated, it
will not be detected and the attribute will be doubly added"
(`tinyxml.cpp:1985-1989`). The test six lines above it (1980) looks the name up and ends
with `XML_ERROR_PARSING_ATTRIBUTE`, after `DeleteAttribute`. `TakeAttribute` models the
code; run `xml` parses such a text, and `LoadLeavesNoOrphans` and its theorem say that
no element gets two attributes of one name, contrary to the comment.

## What TLAPS proves

The theorems hold for every value of the constants that satisfies the
assumption of the module: for `BpfMonitor`, `MonitorAssumption` (any set of CPUs,
any set of covered ones, any ring size but 0); for `TopoSort`, `GraphsAssumption`
(any set of well-formed graphs, of any size, with any lines); for
`KernelModule`, `ModuleAssumption` (at least one slot and one message, any
processes and loads); for `Ctl`, `CtlAssumption` (a finite set of invocations,
and the same); for `Filter`, `FilesAssumption` (a file that tinyxml2 can read has
the elements `Parse` looks at; any number of them, with any defects); for
tinyxml2, `NilAssumption` (no node is called Nil) and `ProgramsAssumption` (files,
names and texts are sequences of bytes).

*BpfMonitor* (`BpfMonitorProofs`).

* `TypesHold`: one lemma for the variables of the kernel, one for the process,
  one for the output.
* `NothingOvertakes`, `LoggedAtMostOnce`, `LoggedInOrder` follow from `OrderInv`.
  None of the three is inductive: to append a line one must know that it is later
  than the lines there are, hence that the batch is later than the file, the event
  vector later than the batch, the rings later than the vector, and a handler in
  flight later than its ring. `OrderInv` says this of all stages at once
  (`NoOvertaking`), of the lines (`LineOrder`, per CPU, without repetition), and
  that ids and timestamps so far lie in the past (`Past`).
* `NothingLeaks` follows from `HoldInv`, which says for every point of `run()` and
  of its unwinding which of skeleton, perf buffer and output are constructed.
  `OutputIsPreserved`, an action property, uses it at the one step that cuts the
  file, `OpenDumper`.
* `MonitorImplementsEventLog`: initial states map to initial states (the file is
  empty, nothing waits), and each action maps to `Occur`, `Lose`, `Record`,
  `StartOver` or a stutter; `Record` needs `OrderInv`, because it accepts events only
  in an order in which no waiting event of the same CPU is overtaken, and
  `StartOver` needs `HoldInv`.
* `CleanExitIsComplete` and `FailureKeepsOlder` assume `DiskMayFill = FALSE`; run
  `monitor_disk` shows that the first one is false without the assumption. Their
  invariant `CompleteInv` adds to `HoldInv` where the received events are
  (`Accounted`: written, in the batch, or in the event vector) and which of these
  are empty at each point of the loop (`LoopInv`).

*TopoSort* (`TopoSortProofs`). `SortInv` adds three facts to the types: the counter
of a visited block is what it started from less the lines into it that were
followed (`DegreeInv`); a block is queued or sorted exactly if it was visited and
its counter is not positive (`QueueInv`); and what the phases have in common
(`PhaseInv`). The counter starts from the number of ports with an input and falls
with every line, so the two sides meet only if each port has one line: this
is where `OneDriver` enters.

* `TypesHold`: a block enters the queue only when its counter is 1 (or in the first
  loop), so it was not in it before, even if its counter then falls below zero.
* `SortsInputsFirst`: a queued block has as many followed lines as lines.
* `SortsAcyclic`: a block that is left over has a line that was not followed, from
  another block that is left over; together they are a loop.
* `ReportsCycles`: a loop never gets into the order (`Barred`), so the order is
  shorter than the total it is compared with.
* `DelaysInOrder`: what the first loop queues lies before the slot it is at and
  waits for nothing, and nothing that is queued later is a UnitDelay (`DelayInv`).

*KernelModule* (`KernelModuleProofs`). `IInv` is inductive; besides the types it
says

* `Phase`: at each point of init and exit, what is registered and allocated. The
  device is there from `cdev` on and until `unregister`, the buffer from `zero` on
  and until `forget`. `NothingIsLeft` is the case of a module that is not loaded.
* `Opened` and `Mapped`: an open file has its module in memory, unless the load it
  came from failed (`orphaning`); a mapping is of the page at NULL, or of the
  present buffer, by a process whose file is of the present load. Exit runs only
  when nobody holds the module (`Rmmod`), so what it frees is not mapped:
  `FilesHold`, `MappingsHold`.
* `Progress`: at each of the five steps of a send, how `write_idx`, `num_messages`
  and the number of the message are related, and `Delivered`, what that means once
  init has ended. `CountedAreWhole` needs `Progress`, because a slot may only be
  cleared when it is not below `num_messages`: the slot of message *n* is
  *n*, which lies beyond what was counted.

*Ctl* (`CtlProofs`). `UsesModule`: a step of an invocation is insmod, rmmod or
leaves the module alone. With it, `TypeCorrect` of `KernelModuleProofs` carries
over to `Ctl`. `CInv` says who waits: nobody while the module is loaded or not
there, one load while it is coming, one unload while it is going (`Waiting`). That
makes `TypesHold` (no two at a time). The answers alone are no invariant, because
they come late; `CInv` counts instead what insmod and rmmod returned
(`ReturnsAddUp`), which is right at every moment: the step that ends init or exit
sets exactly one of these, and `Return` changes none. With nobody pending, what was
returned is what was answered: `AnswersHold`.

*Filter* (`FilterProofs`).

* `InputKept` follows from `Kept`: the file is the one the call found, until the
  call ends in success.
* `GraphFits` needs `ParseInv` (where Parse is in the file) and `GraphInv`, whose
  part `Linked` says of the graph so far that the latest line into each port is
  the one the block knows of. `ReadBlock` keeps it because no line was read yet:
  a block that replaced another after a line had been would lose its inputs.
* `SortHeld` carries what `TopoSortProofs` proves of any graph over to the graph of
  the file: `GraphFits` makes the sort's assumption true, `SortBegins` and
  `SortGoesOn` say that `Filter` takes the steps of the sort, and the results of
  the sort stay true while its variables stay as they are.
* `ProgramCloses` follows from `CodeInv`: the members are the names of the blocks
  the first loop has passed (`MembersInv`), and what init, step and the ports name
  are blocks that were sorted or are inputs of such (`UsesInv`). No member is
  declared twice because the order has no block twice.
* `StepComputes` has two halves. `OutputsFix`, about the diagram: after as many
  rounds as there are blocks another one changes nothing, because a round settles
  the next block of the order, whose sources come before it (`SourceBefore`).
  `RunInv`, about the program: after the statements generated so far a member
  holds what it did, if its block was not assigned yet, its output in *any*
  solution of the diagram, if it computes, and the output of its input, if it is
  a delay. Speaking of any solution keeps `RunInv` apart from how one is found.
  A delay may be assigned only after the blocks that read it, and so the update
  comes last; among delays the order is that of the SIDs (`DelaysBySlot` of the
  sort), which is where `Chained` is needed (`GivesInput`).

`Run` and `Rounds` are recursive functions and a sum is a fold over a set. That they
are what their equations say is proved first (`Iterates`, `RunFacts`,
`RoundsFacts`, `SumExists`), each with a least counterexample in place of
induction.

*tinyxml2* (`Loop`, `XmlDomProofs`, `XmlProofs`). `Sane` is the invariant of a
document:

* `Linked`, which `WellLinked` of run `xml` is made of: parents, siblings and
  children agree about their pointers;
* `Ordered`: there are a level that grows from parent to child and a place that
  grows from sibling to sibling, so no node lies under itself or comes after itself;
* `Tallied`: `_unlinked` has the nodes without a parent, each once (`Listed`), and
  the pools count what is in use and what is untracked;
* `Attributed`: no element has two attributes of one name, what nodes hold are texts,
  the document itself holds nothing, and the pool counts the attributes.

The theorems about single calls hold for every sane document.

* *Insertion.* `CreateKeeps`, `InsertEndKeeps`, `InsertFirstKeeps` and
  `InsertAfterKeeps`: each call keeps `Sane` and puts the node where it was asked
  for. Each insertion is a preamble, after which the node is nowhere (`Floating`:
  under nothing, not on the list, not untracked), and a `Joined` between two
  neighbours (`Slot`), which the three calls only choose differently. Two
  hypotheses are what the code leaves to its caller: the node is neither the
  parent nor above it (`Apart`), for which `Ordered` needs that the part of the
  tree below the node can be moved down as a whole; and `~InsertAfterCrashes`,
  without which there is no document to speak of.
* *Deletion.* `FreeKeeps` is its step: a node that was taken out and has no first
  child can be freed, because then no node has it as its parent (`NoChildren`,
  where siblings have to be followed to their end). `DeleteChildrenKeeps`,
  `DeleteKeeps` and `ClearKeeps`: the turns are enough, and what is gone is the
  node with all below it and nothing else. The invariant of the turns says
  that each open node is under the one before it or was taken out by its turn,
  and the measure is twice the nodes that are left less the open ones.
* *Setters and copies.* `SettersKeep`, `SetTextKeeps`, `ShallowCloneKeeps`,
  `CopyChildrenKeeps`, `DeepCloneKeeps`, `DeepCopyKeeps`. While children are copied the
  open copies are unlinked nodes of the target, so inserting one below another
  is never into itself; the measure counts the nodes of the source that were not
  reached yet.
* *Copies are equal.* `CopyChildrenMirrors` says what is copied: the invariant of
  its turns (`Mirroring`) has a set of nodes that were reached and for each of them
  its copy, with the same kind, value and attributes, hung below the copy of its
  parent, in the same order (`Mirrors`, at the end, with first children and next
  siblings for the order). Its measure is twice the nodes reached less the calls under way.
  `MirroredTrees` goes from pointers to what a program sees: `Tree` and the lists of
  children are recursive functions over the nodes, which are shown to exist and
  to be what their equations say by adding one node after another in the order of
  the places and levels of `Ordered` (`RankExtension`: `ListsExist`, `ShowsExist`);
  two trees that mirror each other are equal, with a least counterexample in place
  of induction (`RankInduction`). `ProgramsCopyEqually` is `CopiesAreEqual`.
* *Parser.* `Reads` is the invariant of its turns: the document is sane, the open
  nodes lie one below the other in what has been read, at most one node was
  read and not inserted, and that one is the whole of `_unlinked`. Every
  turn takes a character or returns from a call, so `Len(x) + 2` turns end it.
  `LoadFileKeeps` and `ParseKeeps` say of any text, of any characters: the document
  is sane, `_unlinked` is empty, and after an error `Parse` leaves no node.
  `DiscardKeeps` is why the pools may be cleared there without freeing their items.
  The depth is counted back to 0 on every way out.
* *Decoding.* `DecodingIsInPlace`: each turn of `GetStr` writes at most as many
  characters as it has read. A code point takes four bytes at the most, and a
  reference with a digit has four characters at least; one without a digit, which
  the code accepts, is the code point 0 and takes one byte (`NoDigits`).
* *Printing.* `PrintedIsText`: whatever is printed is a text, so that the file of a
  program can always be read.
* *Reading back.* `TextIsReadBack` and `AttributeIsReadBack`: `GetText` after
  `SetText` and `Attribute` after `SetAttribute`, for every sane document.
* *Staying.* `NoneButOneMoved`: where all nodes but one have the parent they had
  and skip that one the same way, the nodes that come after another are the same
  (`FromFacts`: `From` is the least set closed under `next`). Every call of the
  library is shown to change `next` in that way only; `LastComesAfter` and
  `FirstComesBefore` say of the ends of a list that all siblings are on one side of
  them, for which the places of `Ordered` are followed to an end.
* *Programs.* `BuildingIsSane` takes the calls together: `Called` is any call with
  any arguments the library allows, and `Building` any sequence of them from the
  empty document. `ProgramsAreSound` says the same of `Xml!Spec`: `Sound` (`Sane`,
  and the file is a text) is inductive, with one lemma for each kind of
  action; that `Movable` is no less than the code demands is `OutsideIsApart`.
  `ProgramsAreWellLinked`, `ProgramsAreCounted`, `LoadsLeaveNoOrphans`,
  `ProgramsReadWhatWasWritten` and `ProgramsEditLocally` draw the properties of run
  `xml` from it. `AllAreReached` is what `WellLinked` says beyond `Linked`: every
  node is reached from the document or from the list. It needs the levels of
  `Ordered`, since nodes in a ring would agree about their pointers too.

## What is model-checked only

Liveness (`SignalStops`, `AcceptedIsWritten`, `Terminates`, `LoadEnds`, `AllExit`), which
is beyond the prover. Of tinyxml2, what is said of the meaning of texts, which is
an induction over them: that a document that was saved is read back
(`SavedIsReadBack`, for documents whose parts a text keeps apart, `WithinXml`), and, of
`DecodesInPlace`, that what is decoded is what the text means, for references of at
most six digits (its first conjunct, `InPlace`, is proved of every text). The violations are counterexamples.

## What is not modelled

* The user side of the mapped buffer (`CreateMap`, `ReadMap`, `CloseMap`,
  `src/kernel/mmap.cpp`): empty in the code. The processes of `KernelModule` stand
  for any program that opens and maps the device.
* The exporter (`src/ctl/prometheus.cpp`), which nothing calls; error values,
  formatters and the logger, which have no state; the build files.
* Of tinyxml2: line numbers, the conversions of numbers and booleans, the handles
  and lookups by name, `ShallowEqual`, user data, documents with entities left
  alone, nodes that are moved between documents, and failing reads and writes of
  stdio (a file that cannot be opened is an error of `LoadFile`).
* Of the filter: the text of the generated program besides its names, signs and
  gains, and what `std::stoi` makes of a number with a text after it.
* Weak memory: stores are seen in the order of the code.
* `write_idx` past 2^31: init sends three messages and nothing sends more.

## Plan

Done: all modules above, and the proofs named there. What could be added:

1. `ExecEvent`: which of the ids of a task the event carries
   (`ant-bpf.bpf.c:43`, `event.h:15`), for tasks and groups of a small process tree.
2. Store buffers for `send_mmap_message`, for CPUs that reorder.
