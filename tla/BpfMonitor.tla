----------------------------- MODULE BpfMonitor -----------------------------
(***************************************************************************)
(* The process monitor of src/bpf: the tracepoint program handle_exec      *)
(* (ant-bpf.bpf.c) runs in the kernel on every CPU and outputs one event   *)
(* per exec into a per-CPU perf ring; the user process (main.cpp) polls    *)
(* the rings, sorts what one poll delivered and writes it to a file, until *)
(* a signal clears `running`.                                              *)
(*                                                                         *)
(* The vectors of events are sets here: every batch goes through           *)
(* std::sort, which is not stable, so the order in which events were       *)
(* pushed is not observable.  Lines of the output are a sequence.          *)
(***************************************************************************)
EXTENDS Integers, Sequences, FiniteSets, Functions

CONSTANTS
    CPUs,        \* the CPUs on which programs are executed
    Covered,     \* the CPUs for which perf_buffer__new opened a ring
    RingSize,    \* the number of events one perf ring holds
    DiskMayFill, \* whether a write to the output may fail
    MaxExecs,    \* bound on the number of execs
    MaxTime,     \* bound on the clock, in milliseconds
    MaxRuns      \* bound on how often the monitor is started

ASSUME MonitorAssumption ==
    /\ Covered \subseteq CPUs
    /\ RingSize \in Nat \ {0}
    /\ DiskMayFill \in BOOLEAN
    /\ MaxExecs \in Nat /\ MaxTime \in Nat /\ MaxRuns \in Nat

VARIABLES
    \* --- the kernel
    now,         \* bpf_ktime_get_ns() / 1000000
    execs,       \* number of execs so far; the next event's id is execs + 1
    skel,        \* the BPF object: "none", "loaded" or "attached"
    perf,        \* TRUE while the perf buffer is open
    inflight,    \* inflight[c]: the event handle_exec is building on CPU c
    ring,        \* ring[c]: the events in the perf ring of CPU c
    \* --- the monitor process
    pc,          \* the next step of main / App::run
    runs,        \* how often the monitor was started
    running,     \* SignalGuard::running
    handlers,    \* TRUE while SIGINT and SIGTERM go to SignalGuard::handle
    bpf,         \* TRUE while the BPFProgram object is constructed
    todo,        \* the CPUs the current perf_buffer__poll still has to read
    eventBuffer, \* EventBuffer::eventBuffer
    batch,       \* App::run's evs: what is left of the batch to be written
    \* --- the output
    out,         \* JsonDumper::outStream: "closed", "good" or "bad"
    stream,      \* lines in the stream's buffer
    file,        \* lines in the output file
    \* --- history
    exit,        \* how the last run ended: "none" (it did not), "ok", "error", "killed"
    received,    \* the events receiveEvent was called with in this run
    culprit      \* the event, if any, whose line could not be made

kernel == <<now, execs, skel, perf, inflight, ring>>
process == <<pc, runs, running, handlers, bpf, todo, eventBuffer, batch>>
output == <<out, stream, file>>
history == <<exit, received, culprit>>
vars == <<kernel, process, output, history>>

Event == [id: Nat, cpu: CPUs, ts: Nat, utf8: BOOLEAN]

Nothing == [c \in CPUs |-> {}]

-----------------------------------------------------------------------------
Init ==
    /\ now = 0 /\ execs = 0
    /\ skel = "none" /\ perf = FALSE /\ inflight = Nothing /\ ring = Nothing
    /\ pc = "idle" /\ runs = 0 /\ running = FALSE /\ handlers = FALSE
    /\ bpf = FALSE /\ todo = {} /\ eventBuffer = {} /\ batch = {}
    /\ out = "closed" /\ stream = <<>> /\ file = <<>>
    /\ exit = "none" /\ received = {} /\ culprit = {}

(***************************************************************************)
(* The kernel.                                                             *)
(***************************************************************************)
Tick ==
    /\ now < MaxTime
    /\ now' = now + 1
    /\ UNCHANGED <<execs, skel, perf, inflight, ring, process, output, history>>

\* handle_exec up to its last call: the event gets its timestamp.  utf8 says
\* whether comm and cmdline, which are cut at 15 and 255 bytes, are valid UTF-8.
ExecStart(c) ==
    /\ execs < MaxExecs
    /\ skel = "attached"
    /\ inflight[c] = {}
    /\ execs' = execs + 1
    /\ \E u \in BOOLEAN :
          inflight' = [inflight EXCEPT ![c] =
                          {[id |-> execs + 1, cpu |-> c, ts |-> now, utf8 |-> u]}]
    /\ UNCHANGED <<now, skel, perf, ring, process, output, history>>

\* Mutant: the ring takes an event although it is full.
ExecOutputUnbounded(c) ==
    /\ inflight[c] # {}
    /\ inflight' = [inflight EXCEPT ![c] = {}]
    /\ ring' = IF perf /\ c \in Covered
               THEN [ring EXCEPT ![c] = @ \cup inflight[c]] ELSE ring
    /\ UNCHANGED <<now, execs, skel, perf, process, output, history>>

\* bpf_perf_event_output, whose result handle_exec ignores: the event is lost
\* when the CPU has no ring or its ring is full.
ExecOutput(c) ==
    /\ inflight[c] # {}
    /\ inflight' = [inflight EXCEPT ![c] = {}]
    /\ ring' = IF perf /\ c \in Covered /\ Cardinality(ring[c]) < RingSize
               THEN [ring EXCEPT ![c] = @ \cup inflight[c]]
               ELSE ring
    /\ UNCHANGED <<now, execs, skel, perf, process, output, history>>

(***************************************************************************)
(* Starting: SignalGuard, BPFProgram and JsonDumper are constructed in     *)
(* that order; an exception leaves run() through the destructors of the    *)
(* objects constructed so far.                                             *)
(***************************************************************************)
\* Mutant: the dumper is constructed first, before anything can fail.
StartTruncating ==
    /\ pc = "idle" /\ runs < MaxRuns
    /\ runs' = runs + 1
    /\ running' = TRUE /\ handlers' = TRUE
    /\ pc' = "load" /\ file' = <<>>
    /\ exit' = "none" /\ received' = {} /\ culprit' = {}
    /\ UNCHANGED <<kernel, bpf, todo, eventBuffer, batch, out, stream>>

Start ==
    /\ pc = "idle" /\ runs < MaxRuns
    /\ runs' = runs + 1
    /\ running' = TRUE /\ handlers' = TRUE
    /\ pc' = "load"
    /\ exit' = "none" /\ received' = {} /\ culprit' = {}
    /\ UNCHANGED <<kernel, bpf, todo, eventBuffer, batch, output>>

Throw == pc' = "unwind" /\ exit' = "error"

\* ant_bpf_bpf__destroy: detaching waits for running handlers, whose output
\* finds no perf ring any more.
Destroy ==
    /\ skel' = "none"
    /\ inflight' = Nothing
    /\ UNCHANGED <<now, execs>>

OpenAndLoad ==
    /\ pc = "load"
    /\ \/ skel' = "loaded" /\ pc' = "attach" /\ UNCHANGED exit
       \/ Throw /\ UNCHANGED skel
    /\ UNCHANGED <<now, execs, perf, inflight, ring, runs, running, handlers, bpf, todo,
                   eventBuffer, batch, output, received, culprit>>

\* Mutant: the failing constructor leaves destroy to the destructor.
AttachLeaking ==
    /\ pc = "attach"
    /\ \/ skel' = "attached" /\ pc' = "perf" /\ UNCHANGED <<now, execs, inflight, exit>>
       \/ Throw /\ UNCHANGED <<now, execs, skel, inflight>>
    /\ UNCHANGED <<perf, ring, runs, running, handlers, bpf, todo, eventBuffer, batch,
                   output, received, culprit>>

Attach ==
    /\ pc = "attach"
    /\ \/ skel' = "attached" /\ pc' = "perf" /\ UNCHANGED <<now, execs, inflight, exit>>
       \/ Destroy /\ Throw
    /\ UNCHANGED <<perf, ring, runs, running, handlers, bpf, todo, eventBuffer, batch,
                   output, received, culprit>>

NewPerfBuffer ==
    /\ pc = "perf"
    /\ \/ /\ perf' = TRUE /\ bpf' = TRUE /\ pc' = "open"
          /\ UNCHANGED <<now, execs, skel, inflight, exit>>
       \/ Destroy /\ Throw /\ UNCHANGED <<perf, bpf>>
    /\ UNCHANGED <<ring, runs, running, handlers, todo, eventBuffer, batch,
                   output, received, culprit>>

\* std::ofstream with std::ios::out truncates the file.
OpenDumper ==
    /\ pc = "open"
    /\ \/ out' = "good" /\ stream' = <<>> /\ file' = <<>> /\ pc' = "loop" /\ UNCHANGED exit
       \/ Throw /\ UNCHANGED output
    /\ UNCHANGED <<kernel, runs, running, handlers, bpf, todo, eventBuffer, batch,
                   received, culprit>>

(***************************************************************************)
(* The loop of App::run.                                                   *)
(***************************************************************************)
CheckRunning ==
    /\ pc = "loop"
    /\ IF running
       THEN pc' = "poll" /\ UNCHANGED exit
       ELSE pc' = "unwind" /\ exit' = "ok"
    /\ UNCHANGED <<kernel, runs, running, handlers, bpf, todo, eventBuffer, batch, output,
                   received, culprit>>

\* perf_buffer__poll enters epoll_wait.
EnterWait ==
    /\ pc = "poll"
    /\ pc' = "wait"
    /\ UNCHANGED <<kernel, runs, running, handlers, bpf, todo, eventBuffer, batch, output,
                   history>>

Ready == {c \in CPUs : ring[c] # {}}

\* Mutant: perf_buffer__poll is called with no timeout.
WakeOnData ==
    /\ pc = "wait" /\ Ready # {}
    /\ todo' = Ready
    /\ pc' = "drain"
    /\ UNCHANGED <<kernel, runs, running, handlers, bpf, eventBuffer, batch, output, history>>

\* Mutant: only a ring that is full wakes the monitor and is read.
WakeOnFull ==
    /\ pc = "wait"
    /\ todo' = {c \in CPUs : Cardinality(ring[c]) = RingSize}
    /\ pc' = "drain"
    /\ UNCHANGED <<kernel, runs, running, handlers, bpf, eventBuffer, batch, output, history>>

\* epoll_wait returns the CPUs that have data, none after interval_ms.
Wake ==
    /\ pc = "wait"
    /\ todo' = Ready
    /\ pc' = "drain"
    /\ UNCHANGED <<kernel, runs, running, handlers, bpf, eventBuffer, batch, output, history>>

\* Mutant: the ring's tail is not moved past what was read.
DrainPeeking(c) ==
    /\ pc = "drain" /\ c \in todo
    /\ todo' = todo \ {c}
    /\ eventBuffer' = eventBuffer \cup ring[c]
    /\ received' = received \cup ring[c]
    /\ UNCHANGED <<kernel, pc, runs, running, handlers, bpf, batch, output, exit, culprit>>

\* perf_buffer__poll reads one ring up to its head and calls receiveEvent.
Drain(c) ==
    /\ pc = "drain" /\ c \in todo
    /\ todo' = todo \ {c}
    /\ eventBuffer' = eventBuffer \cup ring[c]
    /\ received' = received \cup ring[c]
    /\ ring' = [ring EXCEPT ![c] = {}]
    /\ UNCHANGED <<now, execs, skel, perf, inflight, pc, runs, running, handlers, bpf, batch,
                   output, exit, culprit>>

\* Mutant: a cleared flag ends the loop before the last batch is taken.
DrainDoneChecking ==
    /\ pc = "drain" /\ todo = {}
    /\ pc' = IF running THEN "take" ELSE "loop"
    /\ UNCHANGED <<kernel, runs, running, handlers, bpf, todo, eventBuffer, batch, output,
                   history>>

DrainDone ==
    /\ pc = "drain" /\ todo = {}
    /\ pc' = "take"
    /\ UNCHANGED <<kernel, runs, running, handlers, bpf, todo, eventBuffer, batch, output,
                   history>>

\* perf_buffer__poll fails for another reason than EINTR: BPFProgram::poll throws.
PollFails ==
    /\ pc \in {"wait", "drain"}
    /\ Throw
    /\ todo' = {}
    /\ UNCHANGED <<kernel, runs, running, handlers, bpf, eventBuffer, batch, output,
                   received, culprit>>

\* Mutant: takeAll copies the vector and does not empty it.
TakeAllCopying ==
    /\ pc = "take"
    /\ batch' = eventBuffer
    /\ pc' = IF eventBuffer = {} THEN "loop" ELSE "dump"
    /\ UNCHANGED <<kernel, runs, running, handlers, bpf, todo, eventBuffer, output, history>>

\* EventBuffer::takeAll swaps the vector with an empty one.
TakeAll ==
    /\ pc = "take"
    /\ batch' = eventBuffer
    /\ eventBuffer' = {}
    /\ pc' = IF eventBuffer = {} THEN "loop" ELSE "dump"
    /\ UNCHANGED <<kernel, runs, running, handlers, bpf, todo, output, history>>

\* Mutants: the comparator is turned round; the batch is not sorted.
Latest(S) == {e \in S : \A o \in S : e.ts >= o.ts}
Unsorted(S) == {e \in S : TRUE}

\* What JsonDumper::dump may write next: std::sort puts an event of least
\* timestamp first, any of them when there are several.
Earliest(S) == {e \in S : \A o \in S : e.ts <= o.ts}

\* `outStream << line`: buffered; a full buffer goes to the file, or sets badbit.
Put(e) ==
    \/ out = "good" /\ stream' = Append(stream, e) /\ UNCHANGED <<out, file>>
    \/ out = "good" /\ file' = file \o Append(stream, e) /\ stream' = <<>> /\ UNCHANGED out
    \/ out = "good" /\ DiskMayFill /\ out' = "bad" /\ stream' = <<>> /\ UNCHANGED file
    \/ out = "bad" /\ UNCHANGED output

\* j.dump() throws type_error when a string is not valid UTF-8.
WriteEvent ==
    /\ pc = "dump"
    /\ \E e \in Earliest(batch) :
          IF e.utf8
          THEN /\ batch' = batch \ {e}
               /\ Put(e)
               /\ UNCHANGED <<pc, exit, culprit>>
          ELSE /\ batch' = {}
               /\ culprit' = {e}
               /\ Throw
               /\ UNCHANGED output
    /\ UNCHANGED <<kernel, runs, running, handlers, bpf, todo, eventBuffer, received>>

\* outStream.flush() and the stream's close in ~JsonDumper.
FlushTo(state) ==
    \/ /\ out = "good"
       /\ file' = file \o stream /\ stream' = <<>> /\ out' = state
    \/ /\ out = "bad" \/ (out = "good" /\ DiskMayFill)
       /\ out' = IF state = "closed" THEN "closed" ELSE "bad"
       /\ stream' = <<>> /\ UNCHANGED file

Flush ==
    /\ pc = "dump" /\ batch = {}
    /\ FlushTo("good")
    /\ pc' = "loop"
    /\ UNCHANGED <<kernel, runs, running, handlers, bpf, todo, eventBuffer, batch, history>>

(***************************************************************************)
(* Ending: the destructors run in the reverse order of construction.       *)
(***************************************************************************)
CloseDumper ==
    /\ pc = "unwind" /\ out # "closed"
    /\ FlushTo("closed")
    /\ UNCHANGED <<kernel, process, history>>

FreePerfBuffer ==
    /\ pc = "unwind" /\ out = "closed" /\ bpf /\ perf
    /\ perf' = FALSE
    /\ ring' = Nothing
    /\ UNCHANGED <<now, execs, skel, inflight, process, output, history>>

DestroySkeleton ==
    /\ pc = "unwind" /\ out = "closed" /\ bpf /\ ~perf
    /\ Destroy
    /\ bpf' = FALSE
    /\ UNCHANGED <<perf, ring, pc, runs, running, handlers, todo, eventBuffer, batch,
                   output, history>>

\* ~SignalGuard, then main returns and App is gone.
ResetSignals ==
    /\ pc = "unwind" /\ out = "closed" /\ ~bpf
    /\ handlers' = FALSE
    /\ eventBuffer' = {}
    /\ pc' = "idle"
    /\ UNCHANGED <<kernel, runs, running, bpf, todo, batch, output, history>>

(***************************************************************************)
(* The environment of the process.                                         *)
(***************************************************************************)

\* SIGINT or SIGTERM reaches SignalGuard::handle; epoll_wait returns EINTR,
\* on which BPFProgram::poll does not throw.
Signal ==
    /\ handlers
    /\ running' = FALSE
    /\ pc' = IF pc = "wait" THEN "take" ELSE pc
    /\ UNCHANGED <<kernel, runs, handlers, bpf, todo, eventBuffer, batch, output, history>>

\* SIGKILL, or a crash: the kernel releases what the process held.
Kill ==
    /\ pc # "idle"
    /\ pc' = "idle" /\ exit' = "killed"
    /\ Destroy /\ perf' = FALSE /\ ring' = Nothing
    /\ handlers' = FALSE /\ bpf' = FALSE
    /\ todo' = {} /\ eventBuffer' = {} /\ batch' = {}
    /\ out' = "closed" /\ stream' = <<>>
    /\ UNCHANGED <<runs, running, file, received, culprit>>

-----------------------------------------------------------------------------
Setup == OpenAndLoad \/ Attach \/ NewPerfBuffer \/ OpenDumper
Loop == \/ CheckRunning \/ EnterWait \/ Wake \/ DrainDone
        \/ TakeAll \/ WriteEvent \/ Flush \/ \E c \in CPUs : Drain(c)
Teardown == CloseDumper \/ FreePerfBuffer \/ DestroySkeleton \/ ResetSignals

\* A step of the monitor's only thread, but for a poll that fails: that may
\* happen, and never has to.
Monitor == Setup \/ Loop \/ Teardown

Next ==
    \/ Tick
    \/ \E c \in CPUs : ExecStart(c) \/ ExecOutput(c)
    \/ Start \/ Monitor \/ PollFails \/ Signal \/ Kill

Spec == Init /\ [][Next]_vars

\* The scheduler runs a process that can run, and perf_buffer__poll returns
\* after interval_ms when no event arrives.
FairSpec == Spec /\ WF_vars(Monitor)

-----------------------------------------------------------------------------
(***************************************************************************)
(* Properties.                                                             *)
(***************************************************************************)
\* The lines written so far, in the file or on their way to it.
Lines == file \o stream

Points == {"idle", "load", "attach", "perf", "open", "loop", "poll", "wait", "drain",
           "take", "dump", "unwind"}

KernelOK ==
    /\ now \in Nat /\ execs \in Nat
    /\ skel \in {"none", "loaded", "attached"} /\ perf \in BOOLEAN
    /\ inflight \in [CPUs -> SUBSET Event]
    /\ ring \in [CPUs -> SUBSET Event]

\* A CPU runs one handler at a time, and its ring holds events of its own, at
\* most RingSize, if one was opened for it.
RingsOK ==
    \A c \in CPUs :
        /\ \A e \in inflight[c] \cup ring[c] : e.cpu = c
        /\ \A e, f \in inflight[c] : e = f
        /\ IsFiniteSet(ring[c]) /\ Cardinality(ring[c]) <= RingSize
        /\ ring[c] # {} => c \in Covered

ProcessOK ==
    /\ pc \in Points /\ runs \in Nat /\ running \in BOOLEAN
    /\ handlers \in BOOLEAN /\ bpf \in BOOLEAN
    /\ todo \subseteq Covered
    /\ eventBuffer \subseteq Event /\ batch \subseteq Event
    /\ exit \in {"none", "ok", "error", "killed"}
    /\ received \subseteq Event /\ culprit \subseteq Event

OutputOK ==
    /\ out \in {"closed", "good", "bad"}
    /\ stream \in Seq(Event) /\ file \in Seq(Event)

\* Types; and every perf ring (bpf/main.cpp:138) stays within its limits, for
\* bpf_perf_event_output drops what does not fit (ant-bpf.bpf.c:72).
TypeOK == KernelOK /\ RingsOK /\ ProcessOK /\ OutputOK

InFlight == UNION {inflight[c] : c \in CPUs}
InRings == UNION {ring[c] : c \in CPUs}

\* No exec is logged twice: receiveEvent, takeAll and dump (bpf/main.cpp) hand
\* each event on once, whatever happens between them.
AtMostOnce == \A i, j \in DOMAIN Lines : Lines[i] = Lines[j] => i = j

\* No event of S is in T, or younger than an event of T from the same CPU.
Before(S, T) == \A e \in S, f \in T : e # f /\ (e.cpu = f.cpu => e.ts <= f.ts)

\* On its way from handle_exec to the file an event is in one stage at a time,
\* and no event overtakes one of its CPU: what is in a later stage is older.
\* This is what the sort of single batches (bpf/main.cpp:89) relies on.
NoOvertaking ==
    /\ Before(Range(Lines), batch \cup eventBuffer \cup InRings \cup InFlight)
    /\ Before(batch, eventBuffer \cup InRings \cup InFlight)
    /\ Before(eventBuffer, InRings \cup InFlight)
    /\ Before(InRings, InFlight)

\* The comment in takeAll (bpf/main.cpp:67) concedes that the file as a whole is
\* not sorted.  What remains true is that the execs of one CPU are logged in
\* the order of their timestamps, across all batches.
PerCpuOrder ==
    \A i, j \in DOMAIN Lines :
        i < j /\ Lines[i].cpu = Lines[j].cpu => Lines[i].ts <= Lines[j].ts

\* When run() ends normally ("Exiting, output written to", bpf/main.cpp:198)
\* every event that receiveEvent was given is in the file, also when the signal
\* arrived between the poll and the dump.
CleanExitComplete ==
    pc = "idle" /\ exit = "ok" => received \subseteq Range(file)

\* A line that cannot be made (j.dump() throws, bpf/main.cpp:108) ends the
\* monitor, but every event received with an earlier timestamp is in the file:
\* the batch is sorted, and the unwinding closes the stream.
FailureKeepsPrefix ==
    pc = "idle" /\ exit = "error" =>
        \A bad \in culprit : {e \in received : e.ts < bad.ts} \subseteq Range(file)

\* Whichever constructor failed, and wherever an exception was thrown, when
\* the process is over no BPF program stays attached, no perf ring open and no
\* handler installed; and the rings never outlive the program's map, whose
\* descriptor they were made from (bpf/main.cpp:122-163).
ResourcesReleased ==
    /\ pc = "idle" => skel = "none" /\ ~perf /\ ~handlers /\ out = "closed"
    /\ perf => skel = "attached"

\* A file of an earlier run is never cut short, except by a run that has
\* already loaded and attached its program and opened its rings: a monitor
\* that cannot start leaves the earlier output alone (bpf/main.cpp:184-186).
OutputPreserved ==
    [][\/ Len(file) <= Len(file') /\ SubSeq(file', 1, Len(file)) = file
       \/ skel = "attached" /\ perf /\ out = "closed"]_file

\* A signal ends the monitor, wherever it arrives: in the window between the
\* test of `running` and epoll_wait it is the poll's timeout that bounds the
\* wait (bpf/main.cpp:190-191).
SignalStops == handlers /\ ~running ~> pc = "idle"

\* An event that reached a perf ring is written, unless the monitor ends first.
AcceptedIsWritten ==
    \A n \in 1 .. MaxExecs :
        (\E e \in InRings : e.id = n)
            ~> (pc = "idle" \/ \E e \in Range(Lines) : e.id = n)

-----------------------------------------------------------------------------
(***************************************************************************)
(* The monitor implements EventLog: what waits is anywhere between         *)
(* handle_exec and the file, and the log is the file.                      *)
(***************************************************************************)
Log == INSTANCE EventLog
         WITH waiting <- InFlight \cup InRings \cup eventBuffer \cup batch \cup Range(stream),
              log <- file

\* Whatever fails, whoever is killed and whichever way the steps of kernel and
\* monitor interleave, the file grows as EventLog promises (App::run,
\* bpf/main.cpp:183).
ImplementsEventLog == Log!Spec
=============================================================================
