-------------------------- MODULE BpfMonitorProofs --------------------------
(***************************************************************************)
(* Theorems about BpfMonitor, for every number of CPUs, every ring size,   *)
(* and any number of execs and runs.                                       *)
(***************************************************************************)
EXTENDS BpfMonitor, FiniteSetTheorems, SequenceTheorems, TLAPS

-----------------------------------------------------------------------------
(***************************************************************************)
(* Types.                                                                  *)
(***************************************************************************)
LEMMA NothingIsEmpty ==
    /\ Nothing \in [CPUs -> SUBSET Event]
    /\ \A c \in CPUs : Nothing[c] = {}
BY DEF Nothing

LEMMA EmptyRing == IsFiniteSet({}) /\ Cardinality({}) <= RingSize
BY FS_EmptySet, MonitorAssumption

LEMMA GrowingRing ==
    ASSUME NEW S, NEW e, IsFiniteSet(S), Cardinality(S) < RingSize
    PROVE  IsFiniteSet(S \cup {e}) /\ Cardinality(S \cup {e}) <= RingSize
<1>1. Cardinality(S) \in Nat
  BY FS_CardinalityType
<1>2. IsFiniteSet(S \cup {e}) /\ Cardinality(S \cup {e}) \in {Cardinality(S), Cardinality(S) + 1}
  BY FS_AddElement
<1>3. RingSize \in Nat
  BY MonitorAssumption
<1> QED
  BY <1>1, <1>2, <1>3

LEMMA TypeInit == Init => TypeOK
<1> SUFFICES ASSUME Init PROVE TypeOK
  OBVIOUS
<1>1. KernelOK
  BY NothingIsEmpty DEF Init, KernelOK
<1>2. \A c \in CPUs : inflight[c] = {} /\ ring[c] = {}
  BY NothingIsEmpty DEF Init
<1>3. RingsOK
  BY <1>2, EmptyRing DEF RingsOK
<1>4. ProcessOK
  BY DEF Init, ProcessOK, Points
<1>5. OutputOK
  BY DEF Init, OutputOK
<1> QED
  BY <1>1, <1>3, <1>4, <1>5 DEF TypeOK

\* A step that starts no handler and outputs no event.
LEMMA RingsOKKept ==
    ASSUME RingsOK,
           \A c \in CPUs : inflight'[c] \in {inflight[c], {}} /\ ring'[c] \in {ring[c], {}}
    PROVE  RingsOK'
<1>1. ASSUME NEW c \in CPUs
      PROVE  /\ \A e \in inflight'[c] \cup ring'[c] : e.cpu = c
             /\ \A e, f \in inflight'[c] : e = f
             /\ ring'[c] # {} => c \in Covered
  BY <1>1 DEF RingsOK
<1>2. ASSUME NEW c \in CPUs
      PROVE  IsFiniteSet(ring'[c]) /\ Cardinality(ring'[c]) <= RingSize
  <2>1. CASE ring'[c] = ring[c]
    BY <2>1 DEF RingsOK
  <2>2. CASE ring'[c] = {}
    BY <2>2, EmptyRing
  <2> QED
    BY <2>1, <2>2
<1> QED
  BY <1>1, <1>2 DEF RingsOK

LEMMA ExecStartType ==
    ASSUME KernelOK, RingsOK, NEW c \in CPUs, ExecStart(c)
    PROVE  KernelOK' /\ RingsOK'
<1>1. PICK u \in BOOLEAN : inflight' = [inflight EXCEPT ![c] =
                  {[id |-> execs + 1, cpu |-> c, ts |-> now, utf8 |-> u]}]
  BY DEF ExecStart
<1> DEFINE e == [id |-> execs + 1, cpu |-> c, ts |-> now, utf8 |-> u]
<1>2. e \in Event /\ e.cpu = c
  BY DEF Event, KernelOK
<1>3. inflight' = [inflight EXCEPT ![c] = {e}]
  BY <1>1
<1> HIDE DEF e
<1>4. execs' = execs + 1 /\ UNCHANGED <<now, skel, perf, ring>>
  BY DEF ExecStart
<1>5. \A d \in CPUs : inflight'[d] = IF d = c THEN {e} ELSE inflight[d]
  BY <1>3 DEF KernelOK
<1>6. KernelOK'
  BY <1>2, <1>3, <1>4 DEF KernelOK
<1>7. RingsOK'
  BY <1>2, <1>4, <1>5 DEF RingsOK
<1> QED
  BY <1>6, <1>7

LEMMA ExecOutputType ==
    ASSUME KernelOK, RingsOK, NEW c \in CPUs, ExecOutput(c)
    PROVE  KernelOK' /\ RingsOK'
<1>1. PICK e \in inflight[c] : inflight[c] = {e} /\ e \in Event /\ e.cpu = c
  <2>1. inflight[c] # {} /\ inflight[c] \subseteq Event
    BY DEF ExecOutput, KernelOK
  <2>2. \A f, g \in inflight[c] : f = g /\ f.cpu = c
    BY DEF RingsOK
  <2> QED
    BY <2>1, <2>2
<1>2. inflight' = [inflight EXCEPT ![c] = {}] /\ UNCHANGED <<now, execs, skel, perf>>
  BY DEF ExecOutput
<1>3. \A d \in CPUs : inflight'[d] \in {inflight[d], {}}
  BY <1>2 DEF KernelOK
<1>4. CASE ring' = ring
  <2>1. KernelOK'
    BY <1>2, <1>4 DEF KernelOK
  <2>2. RingsOK'
    BY <1>3, <1>4, RingsOKKept
  <2> QED
    BY <2>1, <2>2
<1>5. CASE /\ ring' = [ring EXCEPT ![c] = @ \cup inflight[c]]
           /\ c \in Covered /\ Cardinality(ring[c]) < RingSize
  <2>1. KernelOK'
    BY <1>1, <1>2, <1>5 DEF KernelOK
  <2>2. \A d \in CPUs : ring'[d] = IF d = c THEN ring[c] \cup {e} ELSE ring[d]
    BY <1>1, <1>5 DEF KernelOK
  <2>3. IsFiniteSet(ring[c])
    BY DEF RingsOK
  <2>4. IsFiniteSet(ring[c] \cup {e}) /\ Cardinality(ring[c] \cup {e}) <= RingSize
    BY <1>5, <2>3, GrowingRing
  <2>5. ASSUME NEW d \in CPUs
        PROVE  /\ \A f \in inflight'[d] \cup ring'[d] : f.cpu = d
               /\ \A f, g \in inflight'[d] : f = g
               /\ ring'[d] # {} => d \in Covered
    BY <1>1, <1>3, <1>5, <2>2 DEF RingsOK
  <2>6. ASSUME NEW d \in CPUs
        PROVE  IsFiniteSet(ring'[d]) /\ Cardinality(ring'[d]) <= RingSize
    <3>1. CASE d = c
      BY <3>1, <2>2, <2>4
    <3>2. CASE d # c
      BY <3>2, <2>2 DEF RingsOK
    <3> QED
      BY <3>1, <3>2
  <2> QED
    BY <2>1, <2>5, <2>6 DEF RingsOK
<1> QED
  BY <1>4, <1>5 DEF ExecOutput

LEMMA KernelNext == TypeOK /\ [Next]_vars => KernelOK' /\ RingsOK'
<1> SUFFICES ASSUME TypeOK, [Next]_vars PROVE KernelOK' /\ RingsOK'
  OBVIOUS
<1> USE DEF TypeOK, kernel
<1>1. CASE UNCHANGED kernel
  BY <1>1 DEF KernelOK, RingsOK
<1>2. CASE Tick
  BY <1>2 DEF Tick, KernelOK, RingsOK
<1>3. ASSUME NEW c \in CPUs, ExecStart(c) PROVE KernelOK' /\ RingsOK'
  BY <1>3, ExecStartType
<1>4. ASSUME NEW c \in CPUs, ExecOutput(c) PROVE KernelOK' /\ RingsOK'
  BY <1>4, ExecOutputType
<1>5. CASE OpenAndLoad
  BY <1>5 DEF OpenAndLoad, Throw, KernelOK, RingsOK
<1>6. ASSUME ring' \in {ring, Nothing}, perf' \in BOOLEAN, Destroy
      PROVE  KernelOK' /\ RingsOK'
  <2>1. KernelOK'
    BY <1>6, NothingIsEmpty DEF Destroy, KernelOK
  <2>2. \A c \in CPUs : inflight'[c] \in {inflight[c], {}} /\ ring'[c] \in {ring[c], {}}
    BY <1>6, NothingIsEmpty DEF Destroy
  <2> QED
    BY <2>1, <2>2, RingsOKKept
<1>7. CASE Attach
  <2>1. CASE Destroy
    BY <1>6, <1>7, <2>1 DEF Attach, KernelOK
  <2>2. CASE skel' = "attached" /\ UNCHANGED <<now, execs, inflight>>
    BY <1>7, <2>2 DEF Attach, KernelOK, RingsOK
  <2> QED
    BY <1>7, <2>1, <2>2 DEF Attach
<1>8. CASE NewPerfBuffer
  <2>1. CASE Destroy /\ UNCHANGED perf
    BY <1>6, <1>8, <2>1 DEF NewPerfBuffer, KernelOK
  <2>2. CASE perf' = TRUE /\ UNCHANGED <<now, execs, skel, inflight>>
    BY <1>8, <2>2 DEF NewPerfBuffer, KernelOK, RingsOK
  <2> QED
    BY <1>8, <2>1, <2>2 DEF NewPerfBuffer
<1>9. ASSUME NEW c \in CPUs, Drain(c) PROVE KernelOK' /\ RingsOK'
  <2>1. KernelOK'
    BY <1>9 DEF Drain, KernelOK
  <2>2. \A d \in CPUs : inflight'[d] = inflight[d] /\ ring'[d] \in {ring[d], {}}
    BY <1>9 DEF Drain, KernelOK
  <2> QED
    BY <2>1, <2>2, RingsOKKept
<1>10. CASE FreePerfBuffer
  <2>1. KernelOK'
    BY <1>10, NothingIsEmpty DEF FreePerfBuffer, KernelOK
  <2>2. \A c \in CPUs : inflight'[c] = inflight[c] /\ ring'[c] = {}
    BY <1>10, NothingIsEmpty DEF FreePerfBuffer
  <2> QED
    BY <2>1, <2>2, RingsOKKept
<1>11. CASE DestroySkeleton
  BY <1>6, <1>11 DEF DestroySkeleton, KernelOK
<1>12. CASE Kill
  BY <1>6, <1>12 DEF Kill
<1>13. ASSUME \/ Start \/ Signal \/ OpenDumper \/ CheckRunning \/ EnterWait \/ Wake \/ DrainDone
              \/ PollFails \/ TakeAll \/ WriteEvent \/ Flush \/ CloseDumper \/ ResetSignals
       PROVE  UNCHANGED kernel
  BY <1>13 DEF Start, Signal, OpenDumper, CheckRunning, EnterWait, Wake, DrainDone,
               PollFails, TakeAll, WriteEvent, Flush, CloseDumper, ResetSignals
<1> QED
  BY <1>1, <1>2, <1>3, <1>4, <1>5, <1>7, <1>8, <1>9, <1>10, <1>11, <1>12, <1>13
  DEF Next, Monitor, Setup, Loop, Teardown, vars

LEMMA ProcessNext == TypeOK /\ [Next]_vars => ProcessOK'
<1> SUFFICES ASSUME TypeOK, [Next]_vars PROVE ProcessOK'
  OBVIOUS
<1> USE DEF TypeOK, ProcessOK, Points, process, history, Throw
<1>1. CASE UNCHANGED <<process, history>>
  BY <1>1
<1>2. ASSUME \/ Tick \/ CloseDumper \/ FreePerfBuffer
             \/ \E c \in CPUs : ExecStart(c) \/ ExecOutput(c)
      PROVE  UNCHANGED <<process, history>>
  BY <1>2 DEF Tick, ExecStart, ExecOutput, CloseDumper, FreePerfBuffer
<1>3. CASE Start
  BY <1>3 DEF Start
<1>4. CASE Setup
  BY <1>4 DEF Setup, OpenAndLoad, Attach, NewPerfBuffer, OpenDumper
<1>5. CASE CheckRunning \/ EnterWait \/ DrainDone \/ PollFails \/ TakeAll \/ Flush
  BY <1>5 DEF CheckRunning, EnterWait, DrainDone, PollFails, TakeAll, Flush
<1>6. CASE Wake
  BY <1>6 DEF Wake, Ready, RingsOK
<1>7. CASE WriteEvent
  BY <1>7 DEF WriteEvent, Earliest
<1>8. ASSUME NEW c \in CPUs, Drain(c) PROVE ProcessOK'
  BY <1>8 DEF Drain, KernelOK
<1>9. CASE DestroySkeleton \/ ResetSignals \/ Signal \/ Kill
  BY <1>9 DEF DestroySkeleton, ResetSignals, Signal, Kill
<1> QED
  BY <1>1, <1>2, <1>3, <1>4, <1>5, <1>6, <1>7, <1>8, <1>9
  DEF Next, Monitor, Loop, Teardown, vars

\* What writing a line, and flushing, does to the stream and the file.
LEMMA PutType == ASSUME OutputOK, NEW e \in Event, Put(e) PROVE OutputOK'
<1>1. Append(stream, e) \in Seq(Event) /\ <<>> \in Seq(Event)
  BY DEF OutputOK
<1>2. file \o Append(stream, e) \in Seq(Event)
  BY <1>1 DEF OutputOK
<1>3. stream' \in {stream, Append(stream, e), <<>>}
  BY DEF Put, output
<1>4. file' \in {file, file \o Append(stream, e)}
  BY DEF Put, output
<1>5. out' \in {out, "bad"}
  BY DEF Put, output
<1> QED
  BY <1>1, <1>2, <1>3, <1>4, <1>5 DEF OutputOK

LEMMA FlushToType ==
    ASSUME OutputOK, NEW state \in {"good", "closed"}, FlushTo(state)
    PROVE  OutputOK'
<1>1. file \o stream \in Seq(Event) /\ <<>> \in Seq(Event)
  BY DEF OutputOK
<1>2. stream' = <<>> /\ file' \in {file, file \o stream}
  BY DEF FlushTo
<1>3. out' \in {state, "closed", "bad"}
  BY DEF FlushTo
<1> QED
  BY <1>1, <1>2, <1>3 DEF OutputOK

LEMMA OutputNext == TypeOK /\ [Next]_vars => OutputOK'
<1> SUFFICES ASSUME TypeOK, [Next]_vars PROVE OutputOK'
  OBVIOUS
<1> USE DEF TypeOK, output
<1>1. CASE UNCHANGED output
  BY <1>1 DEF OutputOK
<1>2. CASE OpenDumper
  <2>1. CASE out' = "good" /\ stream' = <<>> /\ file' = <<>>
    BY <2>1 DEF OutputOK
  <2> QED
    BY <1>1, <1>2, <2>1 DEF OpenDumper
<1>3. CASE WriteEvent
  <2>1. \A e \in Earliest(batch) : e \in Event
    BY DEF Earliest, ProcessOK
  <2> QED
    BY <1>1, <1>3, <2>1, PutType DEF WriteEvent
<1>4. CASE Flush
  BY <1>4, FlushToType DEF Flush
<1>5. CASE CloseDumper
  BY <1>5, FlushToType DEF CloseDumper
<1>6. CASE Kill
  BY <1>6 DEF Kill, OutputOK
<1>7. ASSUME \/ Tick \/ Start \/ Signal \/ OpenAndLoad \/ Attach \/ NewPerfBuffer
             \/ CheckRunning \/ EnterWait \/ Wake \/ DrainDone \/ PollFails \/ TakeAll
             \/ FreePerfBuffer \/ DestroySkeleton \/ ResetSignals
             \/ \E c \in CPUs : ExecStart(c) \/ ExecOutput(c) \/ Drain(c)
      PROVE  UNCHANGED output
  BY <1>7 DEF Tick, Start, Signal, OpenAndLoad, Attach, NewPerfBuffer, CheckRunning,
              EnterWait, Wake, DrainDone, PollFails, TakeAll, FreePerfBuffer,
              DestroySkeleton, ResetSignals, ExecStart, ExecOutput, Drain
<1> QED
  BY <1>1, <1>2, <1>3, <1>4, <1>5, <1>6, <1>7
  DEF Next, Monitor, Setup, Loop, Teardown, vars

LEMMA TypeNext == TypeOK /\ [Next]_vars => TypeOK'
BY KernelNext, ProcessNext, OutputNext DEF TypeOK

\* Every variable keeps its type, and every perf ring its limits, whatever the
\* order in which kernel, monitor and signals take their steps.
THEOREM TypesHold == Spec => []TypeOK
BY TypeInit, TypeNext, PTL DEF Spec

-----------------------------------------------------------------------------
(***************************************************************************)
(* The lines.  A step leaves them, cuts them to those that are in the      *)
(* file, empties them, or appends one event, the earliest of the batch.    *)
(***************************************************************************)
Cut == Lines' \in {Lines, file, <<>>}

LEMMA LineToStream ==
    ASSUME OutputOK, NEW e \in Event
    PROVE  file \o Append(stream, e) = Append(file \o stream, e)
<1>1. stream \in Seq(Event) /\ file \in Seq(Event)
  BY DEF OutputOK
<1>2. file \o stream \in Seq(Event) /\ <<e>> \in Seq(Event)
  BY <1>1
<1>3. (file \o stream) \o <<e>> = file \o (stream \o <<e>>)
  BY <1>1, <1>2, ConcatAssociative
<1> QED
  BY <1>1, <1>2, <1>3, AppendIsConcat

LEMMA PutLines ==
    ASSUME OutputOK, NEW e \in Event, Put(e)
    PROVE  Cut \/ Lines' = Append(Lines, e)
<1> USE DEF Lines, Cut
<1>1. stream \in Seq(Event) /\ file \in Seq(Event) /\ Append(stream, e) \in Seq(Event)
  BY DEF OutputOK
<1>2. file \o Append(stream, e) = Append(file \o stream, e)
  BY LineToStream
<1>3. file \o <<>> = file /\ (file \o Append(stream, e)) \o <<>> = file \o Append(stream, e)
  BY <1>1, ConcatEmptySeq, ConcatProperties
<1>4. CASE stream' = Append(stream, e) /\ file' = file
  BY <1>2, <1>4
<1>5. CASE file' = file \o Append(stream, e) /\ stream' = <<>>
  BY <1>2, <1>3, <1>5
<1>6. CASE file' = file /\ stream' \in {stream, <<>>}
  BY <1>3, <1>6
<1> QED
  BY <1>4, <1>5, <1>6 DEF Put, output

LEMMA FlushToLines == ASSUME OutputOK, NEW state, FlushTo(state) PROVE Cut
<1>1. stream \in Seq(Event) /\ file \in Seq(Event) /\ file \o stream \in Seq(Event)
  BY DEF OutputOK
<1>2. file \o <<>> = file /\ (file \o stream) \o <<>> = file \o stream
  BY <1>1, ConcatEmptySeq
<1> QED
  BY <1>2 DEF FlushTo, Cut, Lines

\* A step that writes a line.
WritesLine(e) ==
    /\ e \in Earliest(batch) /\ batch' = batch \ {e} /\ Lines' = Append(Lines, e)
    /\ UNCHANGED <<kernel, eventBuffer>>

LEMMA LinesNext ==
    ASSUME TypeOK, [Next]_vars
    PROVE  Cut \/ \E e \in Event : WritesLine(e)
<1> USE DEF TypeOK, output
<1>1. CASE UNCHANGED output
  BY <1>1 DEF Cut, Lines
<1>2. CASE OpenDumper
  BY <1>1, <1>2 DEF OpenDumper, Cut, Lines
<1>3. CASE WriteEvent
  <2>1. PICK e \in Earliest(batch) : (batch' = batch \ {e} /\ Put(e)) \/ UNCHANGED output
    BY <1>3 DEF WriteEvent
  <2>2. e \in Event
    BY DEF Earliest, ProcessOK
  <2>3. UNCHANGED <<kernel, eventBuffer>>
    BY <1>3 DEF WriteEvent
  <2> QED
    BY <1>1, <2>1, <2>2, <2>3, PutLines DEF WritesLine
<1>4. CASE Flush \/ CloseDumper
  BY <1>4, FlushToLines DEF Flush, CloseDumper
<1>5. CASE Kill
  <2>1. file \o <<>> = file
    BY ConcatEmptySeq DEF OutputOK
  <2> QED
    BY <1>5, <2>1 DEF Kill, Cut, Lines
<1>6. ASSUME \/ Tick \/ Start \/ Signal \/ OpenAndLoad \/ Attach \/ NewPerfBuffer
             \/ CheckRunning \/ EnterWait \/ Wake \/ DrainDone \/ PollFails \/ TakeAll
             \/ FreePerfBuffer \/ DestroySkeleton \/ ResetSignals
             \/ \E c \in CPUs : ExecStart(c) \/ ExecOutput(c) \/ Drain(c)
      PROVE  UNCHANGED output
  BY <1>6 DEF Tick, Start, Signal, OpenAndLoad, Attach, NewPerfBuffer, CheckRunning,
              EnterWait, Wake, DrainDone, PollFails, TakeAll, FreePerfBuffer,
              DestroySkeleton, ResetSignals, ExecStart, ExecOutput, Drain
<1> QED
  BY <1>1, <1>2, <1>3, <1>4, <1>5, <1>6
  DEF Next, Monitor, Setup, Loop, Teardown, vars

\* What is cut is a prefix.
LEMMA CutIsPrefix ==
    ASSUME OutputOK, Cut
    PROVE  /\ Lines' \in Seq(Event)
           /\ \A i \in DOMAIN Lines' : i \in DOMAIN Lines /\ Lines'[i] = Lines[i]
           /\ Range(Lines') \subseteq Range(Lines)
<1>1. file \in Seq(Event) /\ stream \in Seq(Event)
  BY DEF OutputOK
<1>2. \A i \in DOMAIN file : i \in DOMAIN Lines /\ Lines[i] = file[i]
  BY <1>1 DEF Lines
<1>3. Lines \in Seq(Event) /\ <<>> \in Seq(Event) /\ DOMAIN <<>> = {}
  BY <1>1 DEF Lines
<1>4. \A i \in DOMAIN Lines' : i \in DOMAIN Lines /\ Lines'[i] = Lines[i]
  BY <1>2, <1>3 DEF Cut
<1>5. Lines' \in Seq(Event)
  BY <1>1, <1>3 DEF Cut
<1> QED
  BY <1>4, <1>5 DEF Range

-----------------------------------------------------------------------------
(***************************************************************************)
(* The stages.  A step moves events from one stage to the next, or loses   *)
(* events.                                                                 *)
(***************************************************************************)
Written == Range(Lines)

\* No event is younger than the clock, or has an id still to be given.
Past ==
    \A e \in Written \cup batch \cup eventBuffer \cup InRings \cup InFlight :
        e.id <= execs /\ e.ts <= now

Loses ==
    /\ Written' \subseteq Written /\ batch' \subseteq batch
    /\ eventBuffer' \subseteq eventBuffer
    /\ InRings' \subseteq InRings /\ InFlight' \subseteq InFlight
    /\ now' >= now /\ execs' >= execs

Starts(e) ==
    /\ e.id = execs + 1 /\ e.ts = now
    /\ InFlight' = InFlight \cup {e}
    /\ now' = now /\ execs' = execs + 1
    /\ UNCHANGED <<Lines, batch, eventBuffer, ring>>

Outputs(c) ==
    /\ InRings' \subseteq InRings \cup inflight[c]
    /\ InFlight' \subseteq InFlight
    /\ \A e \in inflight[c], f \in InFlight' : e.cpu # f.cpu
    /\ UNCHANGED <<now, execs, Lines, batch, eventBuffer>>

Drains(c) ==
    /\ eventBuffer' = eventBuffer \cup ring[c]
    /\ InRings' \subseteq InRings
    /\ \A e \in ring[c], f \in InRings' : e.cpu # f.cpu
    /\ UNCHANGED <<now, execs, Lines, batch, inflight>>

Takes ==
    /\ batch' = eventBuffer /\ eventBuffer' = {}
    /\ UNCHANGED <<kernel, Lines>>

LEMMA StagesNext ==
    ASSUME TypeOK, [Next]_vars
    PROVE  \/ Loses \/ Takes
           \/ \E e \in Event : Starts(e) \/ WritesLine(e)
           \/ \E c \in CPUs : Outputs(c) \/ Drains(c)
<1> USE DEF TypeOK
<1>1. CASE Cut /\ batch' \subseteq batch /\ eventBuffer' \subseteq eventBuffer
           /\ (\A c \in CPUs : inflight'[c] \in {inflight[c], {}} /\ ring'[c] \in {ring[c], {}})
           /\ now' >= now /\ execs' >= execs
  <2>1. InRings' \subseteq InRings /\ InFlight' \subseteq InFlight
    BY <1>1 DEF InRings, InFlight
  <2> QED
    BY <1>1, <2>1, CutIsPrefix DEF Loses, Written
<1>2. ASSUME NEW c \in CPUs, ExecStart(c) PROVE \E e \in Event : Starts(e)
  <2>1. PICK u \in BOOLEAN : inflight' = [inflight EXCEPT ![c] =
                  {[id |-> execs + 1, cpu |-> c, ts |-> now, utf8 |-> u]}]
    BY <1>2 DEF ExecStart
  <2> DEFINE e == [id |-> execs + 1, cpu |-> c, ts |-> now, utf8 |-> u]
  <2>2. e \in Event /\ e.id = execs + 1 /\ e.ts = now
    BY DEF Event, KernelOK
  <2>3. inflight' = [inflight EXCEPT ![c] = {e}]
    BY <2>1
  <2> HIDE DEF e
  <2>4. inflight[c] = {} /\ \A d \in CPUs : inflight'[d] = IF d = c THEN {e} ELSE inflight[d]
    BY <1>2, <2>3 DEF ExecStart, KernelOK
  <2>5. InFlight' = InFlight \cup {e}
    BY <2>4 DEF InFlight
  <2>6. now' = now /\ execs' = execs + 1 /\ UNCHANGED <<Lines, batch, eventBuffer, ring>>
    BY <1>2 DEF ExecStart, process, output, Lines
  <2> QED
    BY <2>2, <2>5, <2>6 DEF Starts
<1>3. ASSUME NEW c \in CPUs, ExecOutput(c) PROVE Outputs(c)
  <2>1. inflight' = [inflight EXCEPT ![c] = {}]
        /\ ring' \in {ring, [ring EXCEPT ![c] = @ \cup inflight[c]]}
        /\ UNCHANGED <<now, execs, Lines, batch, eventBuffer>>
    BY <1>3 DEF ExecOutput, process, output, Lines
  <2>2. \A d \in CPUs : ring'[d] \subseteq ring[d] \cup inflight[c]
    BY <2>1 DEF KernelOK
  <2>3. \A d \in CPUs : inflight'[d] = IF d = c THEN {} ELSE inflight[d]
    BY <2>1 DEF KernelOK
  <2>4. InRings' \subseteq InRings \cup inflight[c]
    BY <2>2 DEF InRings
  <2>5. InFlight' \subseteq InFlight
    BY <2>3 DEF InFlight
  <2>6. \A e \in inflight[c], f \in InFlight' : e.cpu # f.cpu
    BY <2>3 DEF InFlight, RingsOK
  <2> QED
    BY <2>1, <2>4, <2>5, <2>6 DEF Outputs
<1>4. ASSUME NEW c \in CPUs, Drain(c) PROVE Drains(c)
  <2>1. /\ eventBuffer' = eventBuffer \cup ring[c]
        /\ ring' = [ring EXCEPT ![c] = {}]
        /\ UNCHANGED <<now, execs, Lines, batch, inflight>>
    BY <1>4 DEF Drain, output, Lines
  <2>2. \A d \in CPUs : ring'[d] = IF d = c THEN {} ELSE ring[d]
    BY <2>1 DEF KernelOK
  <2>3. InRings' \subseteq InRings
    BY <2>2 DEF InRings
  <2>4. \A e \in ring[c], f \in InRings' : e.cpu # f.cpu
    BY <2>2 DEF InRings, RingsOK
  <2> QED
    BY <2>1, <2>3, <2>4 DEF Drains
<1>5. CASE TakeAll
  BY <1>5 DEF TakeAll, Takes, Lines, output
<1>6. CASE \E e \in Event : WritesLine(e)
  BY <1>6
<1>7. CASE WriteEvent /\ Cut
  BY <1>1, <1>7 DEF WriteEvent, kernel, KernelOK
<1>8. ASSUME Destroy, ring' \in {ring, Nothing}
      PROVE  /\ \A c \in CPUs : inflight'[c] \in {inflight[c], {}} /\ ring'[c] \in {ring[c], {}}
             /\ now' >= now /\ execs' >= execs
  BY <1>8, NothingIsEmpty DEF Destroy, KernelOK
<1>9. CASE Cut /\ (Attach \/ NewPerfBuffer \/ DestroySkeleton \/ Kill)
  <2>1. batch' \subseteq batch /\ eventBuffer' \subseteq eventBuffer
    BY <1>9 DEF Attach, NewPerfBuffer, DestroySkeleton, Kill
  <2>2. CASE Destroy /\ ring' \in {ring, Nothing}
    BY <1>1, <1>8, <1>9, <2>1, <2>2
  <2>3. CASE UNCHANGED <<now, execs, inflight, ring>>
    BY <1>1, <1>9, <2>1, <2>3 DEF KernelOK
  <2> QED
    BY <1>9, <2>2, <2>3 DEF Attach, NewPerfBuffer, DestroySkeleton, Kill
<1>10. CASE Cut /\ FreePerfBuffer
  <2>1. \A c \in CPUs : inflight'[c] = inflight[c] /\ ring'[c] = {}
    BY <1>10, NothingIsEmpty DEF FreePerfBuffer
  <2> QED
    BY <1>1, <1>10, <2>1 DEF FreePerfBuffer, process, KernelOK
<1>11. CASE Cut /\ (Tick \/ OpenAndLoad \/ UNCHANGED vars)
  BY <1>1, <1>11 DEF Tick, OpenAndLoad, vars, kernel, process, KernelOK
<1>12. CASE Cut /\ (\/ Start \/ Signal \/ OpenDumper \/ CheckRunning \/ EnterWait \/ Wake
                    \/ DrainDone \/ PollFails \/ Flush \/ CloseDumper \/ ResetSignals)
  <2>1. UNCHANGED kernel /\ batch' = batch /\ eventBuffer' \subseteq eventBuffer
    BY <1>12 DEF Start, Signal, OpenDumper, CheckRunning, EnterWait, Wake, DrainDone,
                 PollFails, Flush, CloseDumper, ResetSignals, process
  <2> QED
    BY <1>1, <1>12, <2>1 DEF kernel, KernelOK
<1> QED
  BY LinesNext, <1>2, <1>3, <1>4, <1>5, <1>6, <1>7, <1>9, <1>10, <1>11, <1>12
  DEF Next, Monitor, Setup, Loop, Teardown

-----------------------------------------------------------------------------
(***************************************************************************)
(* The order of the stages.  The inductive invariant also says that no     *)
(* event comes from the future: that is why a new one may be put behind    *)
(* all the others.                                                         *)
(***************************************************************************)
LineOrder ==
    \A i, j \in DOMAIN Lines : i < j =>
        Lines[i] # Lines[j] /\ (Lines[i].cpu = Lines[j].cpu => Lines[i].ts <= Lines[j].ts)

OrderInv == TypeOK /\ Past /\ NoOvertaking /\ LineOrder

LEMMA WritesLineFacts ==
    ASSUME TypeOK, NEW e \in Event, WritesLine(e)
    PROVE  /\ e \in batch /\ Written' = Written \cup {e}
           /\ \A i \in DOMAIN Lines' : \/ i \in DOMAIN Lines /\ Lines'[i] = Lines[i]
                                       \/ Lines'[i] = e /\ \A j \in DOMAIN Lines' : j <= i
<1>1. Lines \in Seq(Event) /\ Lines' = Append(Lines, e)
  BY DEF WritesLine, TypeOK, OutputOK, Lines
<1>2. /\ DOMAIN Lines = 1 .. Len(Lines) /\ Len(Lines) \in Nat
      /\ DOMAIN Lines' = 1 .. (Len(Lines) + 1)
      /\ Lines'[Len(Lines) + 1] = e
      /\ \A i \in 1 .. Len(Lines) : Lines'[i] = Lines[i]
  BY <1>1
<1>3. Written' = Written \cup {e}
  BY <1>2 DEF Written, Range
<1>4. e \in batch
  BY DEF WritesLine, Earliest
<1> QED
  BY <1>2, <1>3, <1>4

LEMMA PastNext == TypeOK /\ Past /\ [Next]_vars => Past'
<1> SUFFICES ASSUME TypeOK, Past, [Next]_vars PROVE Past'
  OBVIOUS
<1>1. now \in Nat /\ execs \in Nat /\ now' \in Nat /\ execs' \in Nat
  BY TypeNext DEF TypeOK, KernelOK
<1>2. \A e \in Written \cup batch \cup eventBuffer \cup InRings \cup InFlight :
          e.id \in Nat /\ e.ts \in Nat
  <2>1. batch \subseteq Event /\ eventBuffer \subseteq Event
    BY DEF TypeOK, ProcessOK
  <2>2. InRings \subseteq Event /\ InFlight \subseteq Event
    BY DEF TypeOK, KernelOK, InRings, InFlight
  <2>3. Written \subseteq Event
    <3>1. Lines \in Seq(Event)
      BY DEF TypeOK, OutputOK, Lines
    <3> QED
      BY <3>1, RangeOfSeq DEF Written
  <2> QED
    BY <2>1, <2>2, <2>3 DEF Event
<1>3. CASE Loses
  BY <1>1, <1>2, <1>3 DEF Past, Loses
<1>4. CASE Takes
  BY <1>4 DEF Past, Takes, Written, kernel, InRings, InFlight
<1>5. ASSUME NEW e \in Event, Starts(e) PROVE Past'
  BY <1>1, <1>2, <1>5 DEF Past, Starts, Written, InRings
<1>6. ASSUME NEW e \in Event, WritesLine(e) PROVE Past'
  BY <1>6, WritesLineFacts DEF Past, WritesLine, kernel, InRings, InFlight
<1>7. ASSUME NEW c \in CPUs, Outputs(c) PROVE Past'
  <2>1. inflight[c] \subseteq InFlight
    BY DEF InFlight
  <2> QED
    BY <1>7, <2>1 DEF Past, Outputs, Written
<1>8. ASSUME NEW c \in CPUs, Drains(c) PROVE Past'
  <2>1. ring[c] \subseteq InRings
    BY DEF InRings
  <2> QED
    BY <1>8, <2>1 DEF Past, Drains, Written, InFlight
<1> QED
  BY StagesNext, <1>3, <1>4, <1>5, <1>6, <1>7, <1>8

LEMMA NoOvertakingNext ==
    TypeOK /\ Past /\ NoOvertaking /\ [Next]_vars => NoOvertaking'
<1> SUFFICES ASSUME TypeOK, Past, NoOvertaking, [Next]_vars PROVE NoOvertaking'
  OBVIOUS
<1> USE DEF NoOvertaking, Before
<1>3. CASE Loses
  BY <1>3 DEF Loses, Written
<1>4. CASE Takes
  BY <1>4 DEF Takes, kernel, InRings, InFlight
<1>5. ASSUME NEW e \in Event, Starts(e) PROVE NoOvertaking'
  <2>1. \A f \in Written \cup batch \cup eventBuffer \cup InRings : f # e /\ f.ts <= e.ts
    BY <1>5 DEF Past, Starts, TypeOK, KernelOK
  <2> QED
    BY <1>5, <2>1 DEF Starts, InRings, Written
<1>6. ASSUME NEW e \in Event, WritesLine(e) PROVE NoOvertaking'
  <2>1. \A f \in batch' : f # e /\ e.ts <= f.ts
    BY <1>6 DEF WritesLine, Earliest
  <2> QED
    BY <1>6, <2>1, WritesLineFacts DEF WritesLine, kernel, InRings, InFlight, Written
<1>7. ASSUME NEW c \in CPUs, Outputs(c) PROVE NoOvertaking'
  <2>1. inflight[c] \subseteq InFlight
    BY DEF InFlight
  <2> QED
    BY <1>7, <2>1 DEF Outputs
<1>8. ASSUME NEW c \in CPUs, Drains(c) PROVE NoOvertaking'
  <2>1. ring[c] \subseteq InRings
    BY DEF InRings
  <2> QED
    BY <1>8, <2>1 DEF Drains, InFlight
<1> QED
  BY StagesNext, <1>3, <1>4, <1>5, <1>6, <1>7, <1>8

LEMMA LineOrderNext ==
    TypeOK /\ NoOvertaking /\ LineOrder /\ [Next]_vars => LineOrder'
<1> SUFFICES ASSUME TypeOK, NoOvertaking, LineOrder, [Next]_vars PROVE LineOrder'
  OBVIOUS
<1>1. CASE Cut
  BY <1>1, CutIsPrefix DEF LineOrder, TypeOK
<1>2. ASSUME NEW e \in Event, WritesLine(e) PROVE LineOrder'
  <2>1. \A i \in DOMAIN Lines : Lines[i] # e /\ (Lines[i].cpu = e.cpu => Lines[i].ts <= e.ts)
    BY <1>2, WritesLineFacts DEF NoOvertaking, Before, Range
  <2>2. DOMAIN Lines' \subseteq Nat
    <3>1. Lines' \in Seq(Event)
      BY TypeNext DEF TypeOK, OutputOK, Lines
    <3> QED
      BY <3>1
  <2> SUFFICES ASSUME NEW i \in DOMAIN Lines', NEW j \in DOMAIN Lines', i < j
               PROVE  /\ Lines'[i] # Lines'[j]
                      /\ Lines'[i].cpu = Lines'[j].cpu => Lines'[i].ts <= Lines'[j].ts
    BY DEF LineOrder
  <2>3. i \in DOMAIN Lines /\ Lines'[i] = Lines[i]
    BY <1>2, <2>2, WritesLineFacts
  <2>4. CASE j \in DOMAIN Lines /\ Lines'[j] = Lines[j]
    BY <2>3, <2>4 DEF LineOrder
  <2>5. CASE Lines'[j] = e
    BY <2>1, <2>3, <2>5
  <2> QED
    BY <1>2, <2>4, <2>5, WritesLineFacts
<1> QED
  BY <1>1, <1>2, LinesNext

LEMMA OrderInit == Init => OrderInv
<1> SUFFICES ASSUME Init PROVE OrderInv
  OBVIOUS
<1>1. Lines = <<>>
  BY DEF Init, Lines
<1>2. Range(Lines) = {} /\ DOMAIN Lines = {}
  BY <1>1 DEF Range
<1>3. InRings = {} /\ InFlight = {}
  BY NothingIsEmpty DEF Init, InRings, InFlight
<1>4. batch = {} /\ eventBuffer = {}
  BY DEF Init
<1> QED
  BY TypeInit, <1>2, <1>3, <1>4 DEF OrderInv, Past, Written, NoOvertaking, Before, LineOrder

\* What is in the stages between handle_exec and the file (ant-bpf.bpf.c:55-72,
\* main.cpp:166-170, 191-195) is ordered, and so are the lines: the inductive
\* invariant behind the three theorems below.
THEOREM OrderHolds == Spec => []OrderInv
<1>1. OrderInv /\ [Next]_vars => OrderInv'
  BY TypeNext, PastNext, NoOvertakingNext, LineOrderNext DEF OrderInv
<1> QED
  BY OrderInit, <1>1, PTL DEF Spec

LEMMA OrderImplies == OrderInv => NoOvertaking /\ AtMostOnce /\ PerCpuOrder
<1> SUFFICES ASSUME OrderInv PROVE NoOvertaking /\ AtMostOnce /\ PerCpuOrder
  OBVIOUS
<1>1. DOMAIN Lines \subseteq Nat
  <2>1. Lines \in Seq(Event)
    BY DEF OrderInv, TypeOK, OutputOK, Lines
  <2> QED
    BY <2>1
<1>2. AtMostOnce
  BY <1>1 DEF OrderInv, LineOrder, AtMostOnce
<1>3. PerCpuOrder
  BY DEF OrderInv, LineOrder, PerCpuOrder
<1> QED
  BY <1>2, <1>3 DEF OrderInv

\* An event is in one stage at a time, and none is overtaken by one of its CPU:
\* perf ring, receiveEvent, takeAll and dump (main.cpp) keep the order.
THEOREM NothingOvertakes == Spec => []NoOvertaking
BY OrderHolds, OrderImplies, PTL

\* No exec is logged twice: receiveEvent, takeAll and dump (main.cpp) each hand
\* an event on once, over any number of runs, batches and flushes.
THEOREM LoggedAtMostOnce == Spec => []AtMostOnce
BY OrderHolds, OrderImplies, PTL

\* The execs of one CPU are logged in the order of their timestamps, although
\* dump (main.cpp:89) sorts one batch at a time.
THEOREM LoggedInOrder == Spec => []PerCpuOrder
BY OrderHolds, OrderImplies, PTL

-----------------------------------------------------------------------------
(***************************************************************************)
(* What the monitor holds.  The inductive invariant says for every point   *)
(* of run() which objects are constructed there.                           *)
(***************************************************************************)
Constructing == {"load", "attach", "perf", "open"}
Working == {"loop", "poll", "wait", "drain", "take", "dump"}

SkelInv ==
    /\ pc \in {"idle", "load"} => skel = "none" /\ ~perf /\ ~bpf
    /\ pc = "attach" => skel = "loaded" /\ ~perf /\ ~bpf
    /\ pc = "perf" => skel = "attached" /\ ~perf /\ ~bpf
    /\ pc \in {"open"} \cup Working => skel = "attached" /\ perf /\ bpf
    /\ pc = "unwind" => /\ bpf => skel = "attached"
                        /\ ~bpf => skel = "none" /\ ~perf

DumperInv ==
    /\ pc \in {"idle"} \cup Constructing => out = "closed"
    /\ pc \in Working => out # "closed"
    /\ out # "good" => stream = <<>>
    /\ pc = "idle" => ~handlers

HoldInv == TypeOK /\ SkelInv /\ DumperInv

LEMMA HoldInit == Init => HoldInv
BY TypeInit DEF Init, HoldInv, SkelInv, DumperInv, Constructing, Working

LEMMA SkelNext == TypeOK /\ SkelInv /\ [Next]_vars => SkelInv'
<1> SUFFICES ASSUME TypeOK, SkelInv, [Next]_vars PROVE SkelInv'
  OBVIOUS
<1>0. pc \in Points /\ bpf \in BOOLEAN /\ perf \in BOOLEAN
  BY DEF TypeOK, ProcessOK, KernelOK
<1> USE DEF SkelInv, Working
<1>1. CASE UNCHANGED vars
  BY <1>1 DEF vars, kernel, process
<1>2. ASSUME Tick \/ Start \/ Signal \/ \E c \in CPUs : ExecStart(c) \/ ExecOutput(c)
      PROVE  SkelInv'
  BY <1>2 DEF Tick, Start, Signal, ExecStart, ExecOutput, kernel, process
<1>3. CASE Setup
  BY <1>0, <1>3 DEF Setup, OpenAndLoad, Attach, NewPerfBuffer, OpenDumper, Throw, Destroy,
                    kernel
<1>4. CASE CheckRunning \/ EnterWait \/ Wake \/ DrainDone \/ PollFails \/ TakeAll \/ Flush
  BY <1>4 DEF CheckRunning, EnterWait, Wake, DrainDone, PollFails, TakeAll, Flush, Throw, kernel
<1>5. CASE WriteEvent \/ \E c \in CPUs : Drain(c)
  BY <1>5 DEF WriteEvent, Drain, Throw, kernel
<1>6. CASE Teardown
  BY <1>6 DEF Teardown, CloseDumper, FreePerfBuffer, DestroySkeleton, ResetSignals,
              Destroy, kernel, process
<1>7. CASE Kill
  BY <1>7 DEF Kill, Destroy
<1> QED
  BY <1>1, <1>2, <1>3, <1>4, <1>5, <1>6, <1>7 DEF Next, Monitor, Loop

LEMMA DumperNext == TypeOK /\ DumperInv /\ [Next]_vars => DumperInv'
<1> SUFFICES ASSUME TypeOK, DumperInv, [Next]_vars PROVE DumperInv'
  OBVIOUS
<1>0. pc \in Points
  BY DEF TypeOK, ProcessOK
<1> USE DEF DumperInv, Working, Constructing
<1>1. CASE UNCHANGED vars
  BY <1>1 DEF vars, process, output
<1>2. ASSUME \/ Tick \/ Start \/ Signal \/ FreePerfBuffer \/ DestroySkeleton \/ ResetSignals
             \/ \E c \in CPUs : ExecStart(c) \/ ExecOutput(c)
      PROVE  DumperInv'
  BY <1>2 DEF Tick, Start, Signal, FreePerfBuffer, DestroySkeleton, ResetSignals,
              ExecStart, ExecOutput, process, output
<1>3. CASE Setup
  BY <1>0, <1>3 DEF Setup, OpenAndLoad, Attach, NewPerfBuffer, OpenDumper, Throw, output
<1>4. CASE CheckRunning \/ EnterWait \/ Wake \/ DrainDone \/ PollFails \/ TakeAll
  BY <1>4 DEF CheckRunning, EnterWait, Wake, DrainDone, PollFails, TakeAll, Throw, output
<1>5. CASE \E c \in CPUs : Drain(c)
  BY <1>5 DEF Drain, output
<1>6. CASE WriteEvent
  <2>1. pc = "dump" /\ handlers' = handlers
    BY <1>6 DEF WriteEvent
  <2>2. CASE UNCHANGED output /\ pc' = "unwind"
    BY <2>1, <2>2 DEF output
  <2>3. CASE pc' = pc /\ \E e \in batch : Put(e)
    <3>1. out' # "closed" /\ (out' # "good" => stream' = <<>>)
      BY <2>1, <2>3 DEF Put, output
    <3> QED
      BY <2>1, <2>3, <3>1
  <2> QED
    BY <1>6, <2>2, <2>3 DEF WriteEvent, Throw, Earliest
<1>7. CASE Flush
  <2>1. out' # "closed" /\ stream' = <<>>
    BY <1>7 DEF Flush, FlushTo
  <2> QED
    BY <1>7, <2>1 DEF Flush
<1>8. CASE CloseDumper
  <2>1. out' = "closed" /\ stream' = <<>>
    BY <1>8 DEF CloseDumper, FlushTo
  <2> QED
    BY <1>8, <2>1 DEF CloseDumper, process
<1>9. CASE Kill
  BY <1>9 DEF Kill
<1> QED
  BY <1>1, <1>2, <1>3, <1>4, <1>5, <1>6, <1>7, <1>8, <1>9 DEF Next, Monitor, Loop, Teardown

\* At every step of run() and of its unwinding (main.cpp:122-163, 183-199) the
\* objects constructed so far, and only those, hold what they acquired: the
\* inductive invariant behind the two theorems below.
THEOREM HoldHolds == Spec => []HoldInv
<1>1. HoldInv /\ [Next]_vars => HoldInv'
  BY TypeNext, SkelNext, DumperNext DEF HoldInv
<1> QED
  BY HoldInit, <1>1, PTL DEF Spec

\* When the process is over it holds nothing, whichever constructor failed and
\* wherever an exception was thrown; no ring outlives the program.
THEOREM NothingLeaks == Spec => []ResourcesReleased
<1>1. HoldInv => ResourcesReleased
  <2> SUFFICES ASSUME HoldInv PROVE ResourcesReleased
    OBVIOUS
  <2>1. pc \in Points /\ bpf \in BOOLEAN
    BY DEF HoldInv, TypeOK, ProcessOK
  <2> QED
    BY <2>1 DEF HoldInv, SkelInv, DumperInv, ResourcesReleased, Constructing, Working, Points
<1> QED
  BY HoldHolds, <1>1, PTL

-----------------------------------------------------------------------------
(***************************************************************************)
(* The file.                                                               *)
(***************************************************************************)
Extends(t) == file' = file \o t

\* Only OpenDumper does not append to the file.
LEMMA FileNext ==
    ASSUME TypeOK, [Next]_vars
    PROVE  OpenDumper \/ \E t \in Seq(Event) : Extends(t)
<1> USE DEF TypeOK, output
<1>1. file \in Seq(Event) /\ stream \in Seq(Event) /\ <<>> \in Seq(Event)
  BY DEF OutputOK
<1>2. file \o <<>> = file
  BY <1>1, ConcatEmptySeq
<1>3. ASSUME UNCHANGED file PROVE \E t \in Seq(Event) : Extends(t)
  BY <1>1, <1>2, <1>3 DEF Extends
<1>4. CASE WriteEvent
  <2>1. ASSUME NEW e \in Earliest(batch), Put(e) PROVE \E t \in Seq(Event) : Extends(t)
    <3>1. Append(stream, e) \in Seq(Event)
      BY <1>1 DEF Earliest, ProcessOK
    <3>2. file' \in {file, file \o Append(stream, e)}
      BY <2>1 DEF Put
    <3> QED
      BY <1>3, <3>1, <3>2 DEF Extends
  <2> QED
    BY <1>3, <1>4, <2>1 DEF WriteEvent
<1>5. CASE Flush \/ CloseDumper
  <2>1. file' \in {file, file \o stream}
    BY <1>5 DEF Flush, CloseDumper, FlushTo
  <2> QED
    BY <1>1, <1>3, <2>1 DEF Extends
<1>6. ASSUME \/ Tick \/ Start \/ Signal \/ OpenAndLoad \/ Attach \/ NewPerfBuffer \/ Kill
             \/ CheckRunning \/ EnterWait \/ Wake \/ DrainDone \/ PollFails \/ TakeAll
             \/ FreePerfBuffer \/ DestroySkeleton \/ ResetSignals
             \/ \E c \in CPUs : ExecStart(c) \/ ExecOutput(c) \/ Drain(c)
      PROVE  UNCHANGED file
  BY <1>6 DEF Tick, Start, Signal, OpenAndLoad, Attach, NewPerfBuffer, CheckRunning,
              EnterWait, Wake, DrainDone, PollFails, TakeAll, FreePerfBuffer,
              DestroySkeleton, ResetSignals, ExecStart, ExecOutput, Drain, Kill
<1> QED
  BY <1>3, <1>4, <1>5, <1>6 DEF Next, Monitor, Setup, Loop, Teardown, vars

\* An earlier output is cut only by a run that got as far as opening its rings:
\* JsonDumper is constructed last (main.cpp:184-186).
THEOREM OutputIsPreserved == Spec => OutputPreserved
<1> DEFINE Kept == \/ Len(file) <= Len(file') /\ SubSeq(file', 1, Len(file)) = file
                   \/ skel = "attached" /\ perf /\ out = "closed"
<1>1. HoldInv /\ [Next]_vars => [Kept]_file
  <2> SUFFICES ASSUME HoldInv, [Next]_vars PROVE Kept
    OBVIOUS
  <2>1. CASE OpenDumper
    BY <2>1 DEF OpenDumper, HoldInv, SkelInv, DumperInv, Constructing
  <2>2. ASSUME NEW t \in Seq(Event), Extends(t) PROVE Kept
    <3>1. file \in Seq(Event) /\ file' \in Seq(Event)
      BY <2>2, TypeNext DEF HoldInv, TypeOK, OutputOK
    <3>2. Len(file) <= Len(file') /\ \A i \in 1 .. Len(file) : file'[i] = file[i]
      BY <2>2, <3>1, ConcatProperties DEF Extends
    <3>3. /\ SubSeq(file', 1, Len(file)) \in Seq(Event)
          /\ Len(SubSeq(file', 1, Len(file))) = Len(file)
          /\ \A i \in 1 .. Len(file) : SubSeq(file', 1, Len(file))[i] = file[i]
      BY <3>1, <3>2
    <3>4. SubSeq(file', 1, Len(file)) = file
      BY <3>1, <3>3, SeqEqual
    <3> QED
      BY <3>2, <3>4
  <2> QED
    BY <2>1, <2>2, FileNext DEF HoldInv
<1> QED
  BY HoldHolds, <1>1, PTL DEF Spec, OutputPreserved

-----------------------------------------------------------------------------
(***************************************************************************)
(* The monitor implements EventLog.  A step that leaves the file is an     *)
(* Occur or a Lose; one that appends to it is a Record, whose order        *)
(* follows from NoOvertaking and LineOrder in the next state; OpenDumper   *)
(* is StartOver, for the stream is empty while no file is open.            *)
(***************************************************************************)
Unwritten == InFlight \cup InRings \cup eventBuffer \cup batch
Waiting == InFlight \cup InRings \cup eventBuffer \cup batch \cup Range(stream)

LEMMA LoseStep ==
    ASSUME Waiting' \subseteq Waiting, UNCHANGED file
    PROVE  Log!Next
<1>1. Waiting' = Waiting \ (Waiting \ Waiting')
  OBVIOUS
<1> QED
  BY <1>1 DEF Log!Next, Log!Lose, Waiting

LEMMA RecordStep ==
    ASSUME TypeOK, OrderInv', NEW t \in Seq(Event), Extends(t), stream' = <<>>,
           Waiting = Unwritten' \cup Range(t)
    PROVE  Log!Next
<1>1. file \in Seq(Event) /\ file' \in Seq(Event)
  BY DEF TypeOK, OutputOK, OrderInv
<1>2. Len(file') = Len(file) + Len(t) /\ Len(file) \in Nat /\ Len(t) \in Nat
      /\ \A i \in 1 .. Len(t) : file'[Len(file) + i] = t[i]
  BY <1>1 DEF Extends
<1> DEFINE s == SubSeq(file', Len(file) + 1, Len(file'))
<1>3. s = t
  <2>1. s \in Seq(Event) /\ Len(s) = Len(t) /\ \A i \in 1 .. Len(t) : s[i] = t[i]
    BY <1>1, <1>2
  <2> QED
    BY <2>1, SeqEqual
<1>4. Lines' = file'
  BY <1>1, ConcatEmptySeq DEF Lines
<1> DEFINE at(i) == Len(file) + i
<1>5. \A i \in DOMAIN t : at(i) \in DOMAIN Lines' /\ Lines'[at(i)] = t[i]
  <2>1. DOMAIN t = 1 .. Len(t) /\ DOMAIN file' = 1 .. Len(file')
    BY <1>1
  <2> QED
    BY <1>2, <1>4, <2>1
<1>6. \A i, j \in DOMAIN t : i < j => at(i) < at(j)
  <2>1. DOMAIN t = 1 .. Len(t)
    OBVIOUS
  <2> QED
    BY <1>2, <2>1
<1> HIDE DEF at
<1>7. Range(t) \subseteq Range(Lines')
  BY <1>5 DEF Range
<1>8. \A i, j \in DOMAIN t : i < j =>
          t[i] # t[j] /\ (t[i].cpu = t[j].cpu => t[i].ts <= t[j].ts)
  BY <1>5, <1>6 DEF OrderInv, LineOrder
<1>9. Before(Range(t), Unwritten')
  BY <1>7 DEF OrderInv, NoOvertaking, Before, Unwritten
<1>10. Waiting' = Unwritten'
  BY DEF Waiting, Unwritten, Range
<1>11. /\ Range(t) \subseteq Waiting
       /\ \A e \in Range(t), o \in Waiting \ Range(t) : e.cpu = o.cpu => e.ts <= o.ts
       /\ Waiting' = Waiting \ Range(t)
  BY <1>9, <1>10 DEF Before
<1>12. Log!Record(t)
  BY <1>8, <1>11 DEF Log!Record, Waiting, Range, Extends
<1> QED
  BY <1>3, <1>12 DEF Log!Next

LEMMA OccurStep ==
    ASSUME TypeOK, Past, NEW e \in Event, Starts(e), UNCHANGED output
    PROVE  Log!Next
<1>1. Waiting' = Waiting \cup {e}
  <2>1. Range(stream') = Range(stream) /\ InRings' = InRings
    BY DEF Starts, output, InRings
  <2> QED
    BY <2>1 DEF Starts, Waiting
<1>2. Waiting \cup Range(file) \subseteq Written \cup batch \cup eventBuffer \cup InRings \cup InFlight
  <2>1. file \in Seq(Event) /\ stream \in Seq(Event)
    BY DEF TypeOK, OutputOK
  <2>2. Written = Range(file) \cup Range(stream)
    BY <2>1, RangeConcatenation DEF Written, Lines
  <2> QED
    BY <2>2 DEF Waiting
<1>3. \A o \in Waiting \cup Range(file) : o.id # e.id /\ o.ts <= e.ts
  BY <1>2 DEF Past, Starts, TypeOK, KernelOK
<1>4. Log!Occur(e)
  BY <1>1, <1>3 DEF Log!Occur, Log!Logged, Waiting, Range, output
<1>5. e \in Waiting' \ Waiting
  BY <1>1, <1>3
<1> QED
  BY <1>4, <1>5 DEF Log!Next, Waiting

LEMMA FewerWaiting ==
    ASSUME TypeOK, [Next]_vars, UNCHANGED output
    PROVE  Waiting' \subseteq Waiting \/ \E e \in Event : Starts(e)
<1>1. Range(stream') = Range(stream)
  BY DEF output
<1>2. CASE Loses
  BY <1>1, <1>2 DEF Loses, Waiting
<1>3. CASE Takes
  BY <1>1, <1>3 DEF Takes, Waiting, kernel, InFlight, InRings
<1>4. ASSUME NEW e \in Event, WritesLine(e) PROVE Waiting' \subseteq Waiting
  BY <1>1, <1>4 DEF WritesLine, Waiting, kernel, InFlight, InRings
<1>5. ASSUME NEW c \in CPUs, Outputs(c) PROVE Waiting' \subseteq Waiting
  BY <1>1, <1>5 DEF Outputs, Waiting, InFlight
<1>6. ASSUME NEW c \in CPUs, Drains(c) PROVE Waiting' \subseteq Waiting
  BY <1>1, <1>6 DEF Drains, Waiting, InFlight, InRings
<1> QED
  BY StagesNext, <1>2, <1>3, <1>4, <1>5, <1>6

LEMMA RefinementStep ==
    OrderInv /\ OrderInv' /\ DumperInv /\ [Next]_vars => [Log!Next]_(Log!logvars)
<1> SUFFICES ASSUME OrderInv, OrderInv', DumperInv, [Next]_vars
             PROVE  Log!Next
  OBVIOUS
<1>0. TypeOK /\ file \in Seq(Event) /\ stream \in Seq(Event)
  BY DEF OrderInv, TypeOK, OutputOK
<1>1. CASE UNCHANGED output
  BY <1>0, <1>1, FewerWaiting, LoseStep, OccurStep DEF OrderInv, output
<1>2. CASE OpenDumper /\ ~UNCHANGED output
  <2>1. stream = <<>> /\ stream' = <<>> /\ file' = <<>>
    BY <1>2 DEF OpenDumper, DumperInv, Constructing
  <2>2. Waiting' = Waiting
    BY <1>2, <2>1 DEF OpenDumper, kernel, Waiting, InFlight, InRings
  <2> QED
    BY <2>1, <2>2 DEF Log!Next, Log!StartOver, Waiting
<1>3. ASSUME FlushTo("good") \/ FlushTo("closed"), UNCHANGED <<kernel, eventBuffer, batch>>
      PROVE  Log!Next
  <2>1. Unwritten' = Unwritten
    BY <1>3 DEF Unwritten, kernel, InFlight, InRings
  <2>2. CASE file' = file \o stream /\ stream' = <<>>
    <3>1. Waiting = Unwritten' \cup Range(stream)
      BY <2>1 DEF Waiting, Unwritten
    <3> QED
      BY <1>0, <2>2, <3>1, RecordStep DEF Extends
  <2>3. CASE file' = file /\ stream' = <<>>
    <3>1. Waiting' \subseteq Waiting
      BY <2>1, <2>3 DEF Waiting, Unwritten, Range
    <3> QED
      BY <2>3, <3>1, LoseStep
  <2> QED
    BY <1>3, <2>2, <2>3 DEF FlushTo
<1>4. CASE Flush \/ CloseDumper
  BY <1>3, <1>4 DEF Flush, CloseDumper, process
<1>5. CASE WriteEvent /\ ~UNCHANGED output
  <2>1. PICK e \in Earliest(batch) : batch' = batch \ {e} /\ Put(e)
    BY <1>5 DEF WriteEvent
  <2>2. e \in Event /\ e \in batch
    BY <1>0 DEF Earliest, TypeOK, ProcessOK
  <2>3. Append(stream, e) \in Seq(Event) /\ Range(Append(stream, e)) = Range(stream) \cup {e}
    BY <1>0, <2>2 DEF Range
  <2>4. Unwritten = Unwritten' \cup {e} /\ Unwritten' \subseteq Unwritten
    BY <1>5, <2>1, <2>2 DEF WriteEvent, Unwritten, kernel, InFlight, InRings
  <2>5. CASE file' = file \o Append(stream, e) /\ stream' = <<>>
    <3>1. Waiting = Unwritten' \cup Range(Append(stream, e))
      BY <2>3, <2>4 DEF Waiting, Unwritten
    <3> QED
      BY <1>0, <2>3, <2>5, <3>1, RecordStep DEF Extends
  <2>6. CASE file' = file /\ stream' \in {Append(stream, e), <<>>}
    <3>1. Range(stream') \subseteq Range(stream) \cup {e}
      BY <2>3, <2>6 DEF Range
    <3>2. Waiting' \subseteq Waiting
      BY <2>4, <3>1 DEF Waiting, Unwritten
    <3> QED
      BY <2>6, <3>2, LoseStep
  <2> QED
    BY <1>5, <2>1, <2>5, <2>6 DEF Put
<1>6. CASE Kill
  <2>1. \A c \in CPUs : inflight'[c] = {} /\ ring'[c] = {}
    BY <1>6, NothingIsEmpty DEF Kill, Destroy
  <2>2. InFlight' = {} /\ InRings' = {}
    BY <2>1 DEF InFlight, InRings
  <2>3. Waiting' = {} /\ file' = file
    BY <1>6, <2>2 DEF Kill, Waiting, Range
  <2> QED
    BY <2>3, LoseStep
<1>7. ASSUME \/ Tick \/ Start \/ Signal \/ OpenAndLoad \/ Attach \/ NewPerfBuffer
             \/ CheckRunning \/ EnterWait \/ Wake \/ DrainDone \/ PollFails \/ TakeAll
             \/ FreePerfBuffer \/ DestroySkeleton \/ ResetSignals
             \/ \E c \in CPUs : ExecStart(c) \/ ExecOutput(c) \/ Drain(c)
      PROVE  UNCHANGED output
  BY <1>7 DEF Tick, Start, Signal, OpenAndLoad, Attach, NewPerfBuffer, CheckRunning,
              EnterWait, Wake, DrainDone, PollFails, TakeAll, FreePerfBuffer,
              DestroySkeleton, ResetSignals, ExecStart, ExecOutput, Drain
<1> QED
  BY <1>1, <1>2, <1>4, <1>5, <1>6, <1>7
  DEF Next, Monitor, Setup, Loop, Teardown, vars

\* The file grows as EventLog promises, whatever fails and in whatever order
\* kernel, monitor and signals take their steps.
THEOREM MonitorImplementsEventLog == Spec => ImplementsEventLog
<1>1. Init => Log!Init
  <2> SUFFICES ASSUME Init PROVE Log!Init
    OBVIOUS
  <2>1. InRings = {} /\ InFlight = {}
    BY NothingIsEmpty DEF Init, InRings, InFlight
  <2> QED
    BY <2>1 DEF Init, Log!Init, Range
<1>2. HoldInv => DumperInv
  BY DEF HoldInv
<1> QED
  BY OrderHolds, HoldHolds, RefinementStep, <1>1, <1>2, PTL
  DEF Spec, ImplementsEventLog, Log!Spec

-----------------------------------------------------------------------------
(***************************************************************************)
(* Complete output, as long as the disk does not fill.  The inductive      *)
(* invariant follows what was received through the loop: between two       *)
(* polls neither the buffer nor the batch holds anything back.             *)
(***************************************************************************)
LoopInv ==
    /\ pc # "dump" => batch = {}
    /\ pc \notin {"drain", "take", "unwind"} => eventBuffer = {}
    /\ pc \in Constructing => received = {}
    /\ pc \in Constructing \cup Working => exit = "none" /\ culprit = {}
    /\ exit = "none" => pc # "unwind" /\ (pc = "idle" => received = {})
    /\ exit = "ok" => eventBuffer = {} /\ batch = {} /\ culprit = {}
    /\ out # "bad"

Accounted ==
    /\ exit \in {"none", "ok"} => received \subseteq eventBuffer \cup batch \cup Written
    /\ exit = "error" => \A bad \in culprit : {e \in received : e.ts < bad.ts} \subseteq Written

CompleteInv == HoldInv /\ LoopInv /\ Accounted

LEMMA RangeOfAppend ==
    ASSUME NEW S, NEW s \in Seq(S), NEW e \in S
    PROVE  Range(Append(s, e)) = Range(s) \cup {e}
<1>1. DOMAIN Append(s, e) = DOMAIN s \cup {Len(s) + 1}
  OBVIOUS
<1>2. \A i \in DOMAIN s : Append(s, e)[i] = s[i]
  OBVIOUS
<1>3. Append(s, e)[Len(s) + 1] = e
  OBVIOUS
<1> QED
  BY <1>1, <1>2, <1>3 DEF Range

LEMMA FullPut ==
    ASSUME DiskMayFill = FALSE, OutputOK, out # "bad", NEW e \in Event, Put(e)
    PROVE  out' # "bad" /\ Lines' = Append(Lines, e)
<1>1. stream \in Seq(Event) /\ file \in Seq(Event) /\ Append(stream, e) \in Seq(Event)
  BY DEF OutputOK
<1>2. file \o Append(stream, e) = Append(file \o stream, e)
  BY LineToStream
<1>3. (file \o Append(stream, e)) \o <<>> = file \o Append(stream, e)
  BY <1>1, ConcatEmptySeq, ConcatProperties
<1> QED
  BY <1>2, <1>3 DEF Put, Lines

LEMMA FullFlushTo ==
    ASSUME DiskMayFill = FALSE, OutputOK, out # "bad",
           NEW state \in {"good", "closed"}, FlushTo(state)
    PROVE  out' # "bad" /\ Lines' = Lines
<1>1. (file \o stream) \o <<>> = file \o stream
  BY ConcatEmptySeq DEF OutputOK
<1> QED
  BY <1>1 DEF FlushTo, Lines

LEMMA CompleteInit == Init => CompleteInv
BY HoldInit DEF Init, CompleteInv, LoopInv, Accounted, Constructing, Working

LEMMA LoopNext ==
    ASSUME DiskMayFill = FALSE, HoldInv, LoopInv, [Next]_vars
    PROVE  LoopInv'
<1>0. pc \in Points /\ OutputOK
  BY DEF HoldInv, TypeOK, ProcessOK
<1> USE DEF LoopInv, Constructing, Working, Points
<1>1. CASE UNCHANGED vars
  BY <1>1 DEF vars, process, output, history
<1>2. ASSUME \/ Tick \/ Signal \/ FreePerfBuffer \/ DestroySkeleton
             \/ \E c \in CPUs : ExecStart(c) \/ ExecOutput(c)
      PROVE  LoopInv'
  BY <1>0, <1>2 DEF Tick, Signal, FreePerfBuffer, DestroySkeleton, ExecStart, ExecOutput,
              process, output, history
<1>3. CASE Start
  BY <1>3 DEF Start, output
<1>4. CASE ResetSignals
  BY <1>0, <1>4 DEF ResetSignals, output, history
<1>5. CASE Setup
  BY <1>0, <1>5 DEF Setup, OpenAndLoad, Attach, NewPerfBuffer, OpenDumper, Throw, output
<1>6. CASE CheckRunning \/ EnterWait \/ Wake \/ DrainDone \/ PollFails \/ TakeAll
  BY <1>0, <1>6 DEF CheckRunning, EnterWait, Wake, DrainDone, PollFails, TakeAll, Throw,
                    output, history
<1>7. CASE \E c \in CPUs : Drain(c)
  BY <1>7 DEF Drain, output
<1>8. CASE WriteEvent
  <2>1. CASE UNCHANGED output
    BY <1>8, <2>1 DEF WriteEvent, Throw, output
  <2>2. CASE UNCHANGED <<pc, exit, culprit>> /\ \E e \in Earliest(batch) : Put(e)
    <3>1. out' # "bad"
      BY <1>0, <2>2, FullPut DEF HoldInv, TypeOK, ProcessOK, Earliest
    <3> QED
      BY <1>8, <2>2, <3>1 DEF WriteEvent
  <2> QED
    BY <1>8, <2>1, <2>2 DEF WriteEvent
<1>9. CASE Flush
  BY <1>0, <1>9, FullFlushTo DEF Flush, history
<1>10. CASE CloseDumper
  BY <1>0, <1>10, FullFlushTo DEF CloseDumper, process, history
<1>11. CASE Kill
  BY <1>11 DEF Kill
<1> QED
  BY <1>1, <1>2, <1>3, <1>4, <1>5, <1>6, <1>7, <1>8, <1>9, <1>10, <1>11
  DEF Next, Monitor, Loop, Teardown

LEMMA AccountedNext ==
    ASSUME DiskMayFill = FALSE, CompleteInv, [Next]_vars
    PROVE  Accounted'
<1>0. pc \in Points /\ OutputOK /\ batch \subseteq Event /\ eventBuffer \subseteq Event
  BY DEF CompleteInv, HoldInv, TypeOK, ProcessOK
<1> USE DEF CompleteInv, LoopInv, Accounted, Constructing, Working
<1>1. CASE UNCHANGED <<Written, eventBuffer, batch, history>>
  BY <1>1 DEF history
<1>2. CASE Start
  BY <1>2 DEF Start
<1>3. CASE OpenAndLoad \/ Attach \/ NewPerfBuffer \/ OpenDumper
  <2>1. received' = {} /\ exit' \in {"none", "error"} /\ culprit' = {}
    BY <1>3 DEF OpenAndLoad, Attach, NewPerfBuffer, OpenDumper, Throw
  <2> QED
    BY <2>1
<1>4. CASE CheckRunning \/ PollFails
  <2>1. /\ UNCHANGED <<Written, eventBuffer, batch, received, culprit>>
        /\ exit' \in {"none", "ok", "error"} /\ exit = "none" /\ culprit = {}
    BY <1>4 DEF CheckRunning, PollFails, Throw, Written, Lines, output
  <2> QED
    BY <2>1
<1>5. CASE TakeAll
  BY <1>5 DEF TakeAll, Written, Lines, output, history
<1>6. ASSUME NEW c \in CPUs, Drain(c) PROVE Accounted'
  BY <1>6 DEF Drain, Written, Lines, output
<1>7. CASE WriteEvent
  <2>1. pc = "dump" /\ exit = "none" /\ eventBuffer = {} /\ eventBuffer' = {} /\ received' = received
        /\ culprit = {}
    BY <1>7 DEF WriteEvent
  <2>2. PICK e \in Earliest(batch) :
           \/ batch' = batch \ {e} /\ Put(e) /\ exit' = exit /\ culprit' = culprit
           \/ culprit' = {e} /\ exit' = "error" /\ UNCHANGED output
    BY <1>7 DEF WriteEvent, Throw
  <2>3. e \in batch /\ e \in Event /\ \A f \in batch : ~ (f.ts < e.ts)
    BY <1>0, <2>2 DEF Earliest, Event
  <2>4. CASE batch' = batch \ {e} /\ Put(e) /\ exit' = exit /\ culprit' = culprit
    <3>1. Lines \in Seq(Event)
      BY <1>0 DEF Lines, OutputOK
    <3>2. Lines' = Append(Lines, e)
      BY <1>0, <2>3, <2>4, FullPut
    <3>3. Range(Append(Lines, e)) = Range(Lines) \cup {e}
      BY <2>3, <3>1, RangeOfAppend
    <3>4. Written' = Written \cup {e}
      BY <3>2, <3>3 DEF Written
    <3> QED
      BY <2>1, <2>4, <3>4
  <2>5. CASE culprit' = {e} /\ exit' = "error" /\ UNCHANGED output
    <3>1. Written' = Written
      BY <2>5 DEF Written, Lines, output
    <3>2. received \subseteq batch \cup Written
      BY <2>1
    <3> QED
      BY <2>1, <2>3, <2>5, <3>1, <3>2
  <2> QED
    BY <2>2, <2>4, <2>5
<1>8. CASE Flush \/ CloseDumper
  <2>1. Lines' = Lines
    BY <1>0, <1>8, FullFlushTo DEF Flush, CloseDumper
  <2> QED
    BY <1>1, <1>8, <2>1 DEF Flush, CloseDumper, process, Written
<1>9. CASE ResetSignals
  <2>1. Lines' = Lines /\ batch' = batch /\ UNCHANGED history /\ pc = "unwind"
    BY <1>9 DEF ResetSignals, output, Lines
  <2>2. exit \in {"none", "ok"} => eventBuffer = {} /\ eventBuffer' = {}
    BY <1>9, <2>1 DEF ResetSignals
  <2> QED
    BY <2>1, <2>2 DEF history, Written
<1>10. CASE Kill
  BY <1>10 DEF Kill
<1>11. ASSUME \/ Tick \/ Signal \/ EnterWait \/ Wake \/ DrainDone \/ FreePerfBuffer
              \/ DestroySkeleton \/ UNCHANGED vars
              \/ \E c \in CPUs : ExecStart(c) \/ ExecOutput(c)
       PROVE  UNCHANGED <<Written, eventBuffer, batch, history>>
  BY <1>11 DEF Tick, Signal, EnterWait, Wake, DrainDone, FreePerfBuffer, DestroySkeleton,
               ExecStart, ExecOutput, vars, process, output, history, Written, Lines
<1> QED
  BY <1>1, <1>2, <1>3, <1>4, <1>5, <1>6, <1>7, <1>8, <1>9, <1>10, <1>11
  DEF Next, Monitor, Setup, Loop, Teardown

\* While no write fails, every received event is in the buffer, in the batch or
\* in a line, until one cannot be made (main.cpp:88-112, 190-196): the inductive
\* invariant behind the two theorems below.
THEOREM CompleteHolds == ASSUME DiskMayFill = FALSE PROVE Spec => []CompleteInv
<1>1. CompleteInv /\ [Next]_vars => CompleteInv'
  BY TypeNext, SkelNext, DumperNext, LoopNext, AccountedNext DEF CompleteInv, HoldInv
<1> QED
  BY CompleteInit, <1>1, PTL DEF Spec

LEMMA IdleFile == ASSUME HoldInv, pc = "idle" PROVE Written = Range(file)
<1>1. stream = <<>> /\ file \in Seq(Event)
  BY DEF HoldInv, DumperInv, Constructing, TypeOK, OutputOK
<1> QED
  BY <1>1, ConcatEmptySeq DEF Written, Lines

\* After a normal end (main.cpp:198) the file holds every event that was received.
THEOREM CleanExitIsComplete ==
    ASSUME DiskMayFill = FALSE PROVE Spec => []CleanExitComplete
<1>1. CompleteInv => CleanExitComplete
  BY IdleFile DEF CompleteInv, LoopInv, Accounted, CleanExitComplete
<1> QED
  BY CompleteHolds, <1>1, PTL

\* A line that cannot be made (main.cpp:108) costs only events that are not older.
THEOREM FailureKeepsOlder ==
    ASSUME DiskMayFill = FALSE PROVE Spec => []FailureKeepsPrefix
<1>1. CompleteInv => FailureKeepsPrefix
  BY IdleFile DEF CompleteInv, Accounted, FailureKeepsPrefix
<1> QED
  BY CompleteHolds, <1>1, PTL
=============================================================================
