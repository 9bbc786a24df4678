------------------------------ MODULE TopoSort ------------------------------
(***************************************************************************)
(* CodeGenerator::TopologicalSort (src/filter/code-generator.cpp): the     *)
(* order in which the generated step function computes the blocks of a     *)
(* parsed graph.  It is Kahn's algorithm over the connections of the       *)
(* diagram, with three twists: a UnitDelay starts without dependencies     *)
(* (its output is last step's value), a block waits for as many ports as   *)
(* have an input while the counter falls with every line that arrives, and *)
(* the test at the end counts Outports on one side only.                   *)
(*                                                                         *)
(* A graph is what XMLParser::Parse leaves behind: block SIDs are slots of *)
(* a vector, some of them empty, and a line is kept only between two       *)
(* blocks that exist.                                                      *)
(***************************************************************************)
EXTENDS Integers, Sequences, FiniteSets, Functions

CONSTANT Graphs \* the graphs that may be sorted

Line(blocks) == [src: blocks, out: Int, dst: blocks, in: Int]

WellFormed(g) ==
    /\ g.size \in Nat
    /\ g.blocks \subseteq 0 .. g.size - 1
    /\ g.delays \subseteq g.blocks
    /\ g.outports \subseteq g.blocks \ g.delays
    /\ g.lines \in Seq(Line(g.blocks))

ASSUME GraphsAssumption == \A g \in Graphs : WellFormed(g)

VARIABLES
    graph,    \* the graph: size, blocks, delays (UnitDelay), outports, lines
    pc,       \* "degrees": the first loop; "loop": the second; "done"
    slot,     \* the slot of graph.blocks the first loop is at
    inDegree, \* in_degree; operator[] makes an entry 0 when it is missing
    q,        \* q
    sorted,   \* sorted_order
    todo,     \* the lines of the popped block that are still to be followed
    port,     \* the source port that is being iterated over, if any
    outcome   \* "none", "sorted", or "thrown" when a cycle is reported

vars == <<graph, pc, slot, inDegree, q, sorted, todo, port, outcome>>

Blocks == graph.blocks
Delays == graph.delays
Plain == Blocks \ Delays
Lines == DOMAIN graph.lines
Src(l) == graph.lines[l].src
Out(l) == graph.lines[l].out
Dst(l) == graph.lines[l].dst
In(l) == graph.lines[l].in

\* The keys of Block::inputs.  CreateConnection overwrites the entry of a port
\* that has one.
Inputs(b) == {In(l) : l \in {k \in Lines : Dst(k) = b}}

Init ==
    /\ graph \in Graphs
    /\ pc = "degrees" /\ slot = 0
    /\ inDegree = [b \in Blocks |-> 0]
    /\ q = <<>> /\ sorted = <<>>
    /\ todo = {} /\ port = {}
    /\ outcome = "none"

\* Mutant: a UnitDelay waits for its input like any other block.
DegreeOfAll(b) == Cardinality(Inputs(b))

Degree(b) == IF b \in Delays THEN 0 ELSE Cardinality(Inputs(b))

\* Mutant: the index is not advanced past an empty slot.
VisitStuck ==
    /\ pc = "degrees" /\ slot < graph.size
    /\ IF slot \in Blocks
       THEN /\ slot' = slot + 1
            /\ inDegree' = [inDegree EXCEPT ![slot] = Degree(slot)]
            /\ q' = IF Degree(slot) = 0 THEN Append(q, slot) ELSE q
       ELSE UNCHANGED <<slot, inDegree, q>>
    /\ UNCHANGED <<graph, pc, sorted, todo, port, outcome>>

\* One turn of the first loop; an empty slot is skipped.
Visit ==
    /\ pc = "degrees" /\ slot < graph.size
    /\ slot' = slot + 1
    /\ IF slot \in Blocks
       THEN /\ inDegree' = [inDegree EXCEPT ![slot] = Degree(slot)]
            /\ q' = IF Degree(slot) = 0 THEN Append(q, slot) ELSE q
       ELSE UNCHANGED <<inDegree, q>>
    /\ UNCHANGED <<graph, pc, sorted, todo, port, outcome>>

BeginLoop ==
    /\ pc = "degrees" /\ slot = graph.size
    /\ pc' = "loop"
    /\ UNCHANGED <<graph, slot, inDegree, q, sorted, todo, port, outcome>>

\* The next block is taken from the queue and put into the order.
Pop ==
    /\ pc = "loop" /\ todo = {} /\ q # <<>>
    /\ q' = Tail(q)
    /\ sorted' = Append(sorted, Head(q))
    /\ todo' = {l \in Lines : Src(l) = Head(q)}
    /\ port' = {}
    /\ UNCHANGED <<graph, pc, slot, inDegree, outcome>>

\* blockOutputs[id] is an unordered_map from ports to destinations: the ports
\* come in any order, the destinations of one port in the order of the file.
NextLines ==
    {l \in todo :
        /\ \A k \in todo : Out(k) = Out(l) => l <= k
        /\ (\E k \in todo : Out(k) \in port) => Out(l) \in port}

\* Mutants: a block is ready as soon as one of its inputs is; a block is pushed
\* for every line that finds it ready.
FollowEager(l) ==
    /\ pc = "loop" /\ l \in NextLines
    /\ inDegree' = [inDegree EXCEPT ![Dst(l)] = @ - 1]
    /\ q' = IF inDegree[Dst(l)] = Cardinality(Inputs(Dst(l))) /\ Dst(l) \notin Delays
            THEN Append(q, Dst(l)) ELSE q
    /\ todo' = todo \ {l}
    /\ port' = {Out(l)}
    /\ UNCHANGED <<graph, pc, slot, sorted, outcome>>

FollowTwice(l) ==
    /\ pc = "loop" /\ l \in NextLines
    /\ inDegree' = [inDegree EXCEPT ![Dst(l)] = @ - 1]
    /\ q' = IF inDegree[Dst(l)] <= 1 THEN Append(q, Dst(l)) ELSE q
    /\ todo' = todo \ {l}
    /\ port' = {Out(l)}
    /\ UNCHANGED <<graph, pc, slot, sorted, outcome>>

\* A line is followed: its destination waits for one input less, and is ready
\* when that leaves none.
Follow(l) ==
    /\ pc = "loop" /\ l \in NextLines
    /\ inDegree' = [inDegree EXCEPT ![Dst(l)] = @ - 1]
    /\ q' = IF inDegree[Dst(l)] = 1 THEN Append(q, Dst(l)) ELSE q
    /\ todo' = todo \ {l}
    /\ port' = {Out(l)}
    /\ UNCHANGED <<graph, pc, slot, sorted, outcome>>

\* Mutant: nothing is compared.
FinishUnchecked ==
    /\ pc = "loop" /\ todo = {} /\ q = <<>>
    /\ pc' = "done"
    /\ outcome' = "sorted"
    /\ UNCHANGED <<graph, slot, inDegree, q, sorted, todo, port>>

\* The queue is empty.  The order holds every block that was popped; the total
\* it is compared with leaves the Outports out.
Finish ==
    /\ pc = "loop" /\ todo = {} /\ q = <<>>
    /\ pc' = "done"
    /\ outcome' = IF Len(sorted) < Cardinality(Blocks \ graph.outports)
                  THEN "thrown" ELSE "sorted"
    /\ UNCHANGED <<graph, slot, inDegree, q, sorted, todo, port>>

Step == Visit \/ BeginLoop \/ Pop \/ Finish \/ \E l \in Lines : Follow(l)

\* The function has returned or thrown.
Done == pc = "done" /\ UNCHANGED vars

Next == Step \/ Done

Spec == Init /\ [][Next]_vars

\* The function runs in one thread to its end.
FairSpec == Spec /\ WF_vars(Step)

-----------------------------------------------------------------------------
(***************************************************************************)
(* Properties.                                                             *)
(***************************************************************************)
\* Types; and every block is queued or in the order at most once, whichever
\* lines make its counter pass zero (src/filter/code-generator.cpp:71).
TypeOK ==
    /\ WellFormed(graph)
    /\ pc \in {"degrees", "loop", "done"}
    /\ slot \in 0 .. graph.size
    /\ inDegree \in [Blocks -> Int]
    /\ q \in Seq(Blocks) /\ sorted \in Seq(Blocks)
    /\ todo \subseteq Lines
    /\ port \subseteq Int
    /\ outcome \in {"none", "sorted", "thrown"}
    /\ \A i, j \in DOMAIN (sorted \o q) : (sorted \o q)[i] = (sorted \o q)[j] => i = j

\* Every port has at most one line, as in a diagram a user can draw.
OneDriver ==
    \A k, l \in Lines : Dst(k) = Dst(l) /\ In(k) = In(l) => k = l

\* Every line into b comes from a block before position i of the order.
Fed(b, i) == \A l \in Lines : Dst(l) = b => \E j \in 1 .. i - 1 : sorted[j] = Src(l)

\* What GenStep relies on: where a block is computed, everything it reads has
\* been computed in this step, or is the stored output of a UnitDelay
\* (src/filter/code-generator.cpp:134).
InputsFirst ==
    OneDriver => \A i \in DOMAIN sorted : sorted[i] \in Plain => Fed(sorted[i], i)

\* A cycle without a UnitDelay: blocks each of which reads another of them.
Loop(S) ==
    /\ S # {} /\ S \subseteq Plain
    /\ \A b \in S : \E l \in Lines : Dst(l) = b /\ Src(l) \in S

Cyclic == \E S \in SUBSET Plain : Loop(S)

\* A diagram without such a cycle is never rejected and loses no block, however
\* its lines are arranged: every loop through a UnitDelay is accepted
\* (src/filter/code-generator.cpp:47, 87).
AcyclicSorted ==
    pc = "done" /\ ~Cyclic => outcome = "sorted" /\ Range(sorted) = Blocks

\* With an Outport in the diagram the test at the end may miss a cycle (see
\* CyclesDetected); without one, a cycle is always reported.
CyclesWithoutOutports ==
    pc = "done" /\ OneDriver /\ graph.outports = {} /\ Cyclic => outcome = "thrown"

\* GenStep updates the UnitDelays one after the other, in the order they have
\* here: it is that of their SIDs, and no other block comes between them that
\* was waiting for a line (src/filter/code-generator.cpp:40, 159).
DelaysBySlot ==
    \A i, j \in DOMAIN sorted :
        /\ i < j /\ sorted[i] \in Delays /\ sorted[j] \in Delays => sorted[i] < sorted[j]
        /\ i < j /\ sorted[j] \in Delays => Inputs(sorted[i]) = {} \/ sorted[i] \in Delays

\* The function ends, whether or not there is a cycle: nothing is queued again.
Terminates == <>(pc = "done")

\* "checking for cycles" (src/filter/code-generator.cpp:79): a graph that has
\* one is rejected.
CyclesDetected == pc = "done" /\ Cyclic => outcome = "thrown"
=============================================================================
