------------------------------- MODULE Filter -------------------------------
(***************************************************************************)
(* Filter::Create (src/filter/filter.cpp): a diagram is read from a file   *)
(* (XMLParser), its blocks are sorted (TopoSort) and a C program that      *)
(* computes it (CodeGenerator) is written over the file.                   *)
(*                                                                         *)
(* A file that tinyxml2 can read is a record of the elements Parse looks   *)
(* at.  A <Block> has its three attributes, the <P> elements in their      *)
(* order and the Name of its <Port>; a <Line> has its Src and its Dst or   *)
(* those of its branches.  Missing stands for what is not there, Empty for *)
(* a <P> without text, and Bad for a text ParseEndpoint or std::stoi       *)
(* rejects.  The text of an Inputs parameter is a sequence of signs and    *)
(* that of a Gain a number.                                                *)
(*                                                                         *)
(* The generated program is a record too: the members of its struct, those *)
(* its init clears, the assignments of its step and the entries of         *)
(* ext_ports, Outports and Inports apart.                                  *)
(***************************************************************************)
EXTENDS Integers, Sequences, FiniteSets, SequencesExt

CONSTANTS
    Files,              \* what the file may hold at first
    SanitizeName,       \* the name of a block with '_' for ' '
    MaxCalls,           \* how often Create is called
    DiskMayFail,        \* whether WriteToFile may fail
    Missing, Empty, Bad

\* The texts of a Src or a Dst.
Ends == [block : Int, port : Int] \cup {Missing, Empty, Bad}

Document(f) ==
    /\ f.blocks \in Seq(Range(f.blocks))
    /\ \A e \in Range(f.blocks) : e.sid \in Int \cup {Missing, Bad}
    /\ f.lines \in Seq([src : Ends, dst : Ends, branches : Seq(Ends)])

ASSUME FilesAssumption == \A f \in Files : f.kind = "xml" /\ f.system => Document(f)

VARIABLES
    file,     \* what path holds
    before,   \* what it held when Create was called
    calls,    \* how often Create was called
    pc,       \* where Create is; "idle" outside, "undefined" after undefined behaviour
    result,   \* of the last call: "none", "filter", "error"
    cursor,   \* the element or block the loop is at
    branch,   \* the branch of a line that is being read
    graph,    \* blocks and inputs by SID, blockOutputs as one list of lines
    code,     \* bytecode_
    sortPc, slot, inDegree, q, sorted, todo, port, outcome \* of TopologicalSort

callVars == <<file, before, calls>>
sortVars == <<sortPc, slot, inDegree, q, sorted, todo, port, outcome>>
vars == <<callVars, pc, result, cursor, branch, graph, code, sortVars>>

EmptyGraph == [size |-> 0, blocks |-> <<>>, lines |-> <<>>]
NoCode == [members |-> <<>>, init |-> <<>>, step |-> <<>>, outports |-> <<>>, inports |-> <<>>]

\* map[key] = value, of the vector and the unordered_maps.
Put(map, key, value) == [k \in DOMAIN map \cup {key} |-> IF k = key THEN value ELSE map[k]]

Ids == DOMAIN graph.blocks
OfType(t) == {b \in Ids : graph.blocks[b].type = t}

\* The graph as TopologicalSort reads it.
SortGraph ==
    [size |-> graph.size, blocks |-> Ids, delays |-> OfType("UnitDelay"),
     outports |-> OfType("Outport"), lines |-> graph.lines]

T == INSTANCE TopoSort WITH
        Graphs <- {}, graph <- SortGraph, pc <- sortPc

Init ==
    /\ file \in Files /\ before = file
    /\ calls = 0
    /\ pc = "idle" /\ result = "none"
    /\ cursor = 1 /\ branch = 1
    /\ graph = EmptyGraph /\ code = NoCode
    /\ sortPc = "done" /\ outcome = "none"
    /\ slot = 0 /\ inDegree = <<>> /\ q = <<>> /\ sorted = <<>>
    /\ todo = {} /\ port = {}

\* An error of Parse, or an exception that Create catches.
Fail == pc' = "idle" /\ result' = "error"

\* The behaviour of the program is undefined from here on.
Undefined == pc' = "undefined"

-----------------------------------------------------------------------------
(***************************************************************************)
(* XMLParser::Parse.                                                       *)
(***************************************************************************)
\* LoadFile rejects a file that is not XML, such as an earlier output.
Create ==
    /\ pc = "idle" /\ calls < MaxCalls
    /\ calls' = calls + 1
    /\ before' = file
    /\ cursor' = 1 /\ branch' = 1 /\ graph' = EmptyGraph /\ code' = NoCode
    /\ IF file.kind = "xml" /\ file.system
       THEN pc' = "sids" /\ result' = "none"
       ELSE Fail
    /\ UNCHANGED <<file, sortVars>>

\* TopologicalSort is called: its variables are initialised.
BeginSort(g) ==
    /\ pc' = "sort"
    /\ sortPc' = "degrees" /\ outcome' = "none"
    /\ slot' = 0 /\ inDegree' = [b \in DOMAIN g.blocks |-> 0]
    /\ q' = <<>> /\ sorted' = <<>> /\ todo' = {} /\ port' = {}

Sids == {file.blocks[i].sid : i \in DOMAIN file.blocks} \ {Missing}
MaxSid == Max((Sids \ {Bad}) \cup {-1})

\* The first loop; std::stoi throws.  Without a SID the graph stays empty.
FindMaxSid ==
    /\ pc = "sids"
    /\ \/ Bad \in Sids /\ Fail /\ UNCHANGED <<graph, sortVars>>
       \/ /\ Bad \notin Sids /\ MaxSid = -1
          /\ BeginSort(EmptyGraph) /\ UNCHANGED <<result, graph>>
       \/ /\ Bad \notin Sids /\ MaxSid >= 0
          /\ pc' = "blocks" /\ graph' = [EmptyGraph EXCEPT !.size = MaxSid + 1]
          /\ UNCHANGED <<result, sortVars>>
    /\ UNCHANGED <<callVars, cursor, branch, code>>

\* The parameters of a block: of two with one name the last one counts, and one
\* without text does not.
Params(element) ==
    LET Set(f, p) == IF p.text = Empty THEN f ELSE Put(f, p.name, p.text)
        own == FoldLeft(Set, <<>>, element.params)
    IN  IF element.port = Missing THEN own ELSE Put(own, "PortName", element.port)

BlockOf(element) ==
    [name |-> SanitizeName[element.name], type |-> element.type,
     params |-> Params(element), inputs |-> <<>>]

Incomplete(e) == e.sid = Missing \/ e.type = Missing \/ e.name = Missing

\* One turn of the second loop.  An element that lacks an attribute is skipped;
\* a later block with the same SID replaces an earlier one.  A negative SID is
\* an index outside the vector, and an empty Name of a port is a null pointer
\* that is assigned to a string.
ReadBlock ==
    /\ pc = "blocks" /\ cursor <= Len(file.blocks)
    /\ LET e == file.blocks[cursor]
       IN  \/ Incomplete(e) /\ UNCHANGED <<pc, graph>>
           \/ /\ ~Incomplete(e) /\ (e.sid < 0 \/ e.port = Empty)
              /\ Undefined /\ UNCHANGED graph
           \/ /\ ~Incomplete(e) /\ e.sid >= 0 /\ e.port # Empty
              /\ graph' = [graph EXCEPT !.blocks = Put(@, e.sid, BlockOf(e))]
              /\ UNCHANGED pc
    /\ cursor' = cursor + 1
    /\ UNCHANGED <<callVars, result, branch, code, sortVars>>

BlocksRead ==
    /\ pc = "blocks" /\ cursor > Len(file.blocks)
    /\ pc' = "lines" /\ cursor' = 1
    /\ UNCHANGED <<callVars, result, branch, graph, code, sortVars>>

\* The Dst texts of a line: those of its branches or its own.
Destinations(line) == IF line.branches # <<>> THEN line.branches ELSE <<line.dst>>

\* Mutant: the block at the far end need not exist.
ConnectUnchecked(g, s, d) ==
    IF s.block \in DOMAIN g.blocks
    THEN [g EXCEPT !.lines = Append(@, [src |-> s.block, out |-> s.port, dst |-> d.block, in |-> d.port])]
    ELSE g

\* The rest of CreateConnection: a line between blocks that both exist is kept;
\* it takes the port from the line that had it.
Connect(g, s, d) ==
    IF s.block \in DOMAIN g.blocks /\ d.block \in DOMAIN g.blocks
    THEN [g EXCEPT
            !.lines = Append(@, [src |-> s.block, out |-> s.port, dst |-> d.block, in |-> d.port]),
            !.blocks[d.block].inputs = Put(@, d.port, s.block)]
    ELSE g

\* One turn of the last loop or of the one over the branches in it.  A line
\* without a Src is skipped, as is a branch without a Dst; an endpoint that cannot
\* be parsed (or is a null pointer, of which std::string is then constructed) ends
\* the parse.
ReadLine ==
    /\ pc = "lines" /\ cursor <= Len(file.lines)
    /\ LET line == file.lines[cursor]
           ends == Destinations(line)
           skipped == Missing \in {line.src, ends[branch]}
           rejected == {line.src, ends[branch]} \cap {Bad, Empty} # {}
       IN  /\ \/ skipped /\ UNCHANGED <<pc, result, graph>>
              \/ ~skipped /\ rejected /\ Fail /\ UNCHANGED graph
              \/ /\ ~skipped /\ ~rejected
                 /\ graph' = Connect(graph, line.src, ends[branch])
                 /\ UNCHANGED <<pc, result>>
           /\ IF line.src # Missing /\ branch < Len(ends)
              THEN branch' = branch + 1 /\ UNCHANGED cursor
              ELSE branch' = 1 /\ cursor' = cursor + 1
    /\ UNCHANGED <<callVars, code, sortVars>>

\* Mutant: the output is opened when generation begins.
LinesReadOpening ==
    /\ pc = "lines" /\ cursor > Len(file.lines)
    /\ BeginSort(graph)
    /\ file' = [kind |-> "partial"]
    /\ UNCHANGED <<before, calls, result, cursor, branch, graph, code>>

\* Parse returns the graph and Generate begins.
LinesRead ==
    /\ pc = "lines" /\ cursor > Len(file.lines)
    /\ BeginSort(graph)
    /\ UNCHANGED <<callVars, result, cursor, branch, graph, code>>

-----------------------------------------------------------------------------
(***************************************************************************)
(* CodeGenerator::Generate.                                                *)
(***************************************************************************)
Sort ==
    /\ pc = "sort" /\ sortPc # "done"
    /\ UNCHANGED <<callVars, pc, result, cursor, branch, graph, code>>
    /\ T!Step

\* The sort returns, and the loops of the generator begin; or it throws.
Sorted ==
    /\ pc = "sort" /\ sortPc = "done"
    /\ IF outcome = "thrown" THEN Fail ELSE pc' = "struct" /\ UNCHANGED result
    /\ cursor' = 1
    /\ UNCHANGED <<callVars, branch, graph, code, sortVars>>

Block(b) == graph.blocks[b]
Name(b) == Block(b).name
Param(b, p, default) == IF p \in DOMAIN Block(b).params THEN Block(b).params[p] ELSE default

\* Mutant: the delays are updated before the blocks are computed.
AfterDelaysFirst ==
    [struct |-> "init", init |-> "update", update |-> "step", step |-> "ports", ports |-> "write"]

\* The loops, one after the other: those of GenStruct and GenInit, the computing
\* and the updating part of GenStep, and that of GenExtPorts.
After ==
    [struct |-> "init", init |-> "step", step |-> "update", update |-> "ports", ports |-> "write"]

\* All but the last are over the sorted blocks; the loops over delay_blocks are
\* those that pass over all others.
Turns == IF pc = "ports" THEN graph.size ELSE Len(sorted)
Current == sorted[cursor]

Turn(loop) ==
    /\ pc = loop /\ cursor <= Turns
    /\ cursor' = cursor + 1
    /\ UNCHANGED <<callVars, branch, graph, sortVars>>

EndLoop ==
    /\ pc \in DOMAIN After /\ cursor > Turns
    /\ pc' = After[pc] /\ cursor' = 1
    /\ UNCHANGED <<callVars, result, branch, graph, code, sortVars>>

\* Mutant: a delay, which is cleared by init, is not a member.
GenStructComputed ==
    /\ Turn("struct")
    /\ code' = IF Block(Current).type \in {"Outport", "UnitDelay"} THEN code
               ELSE [code EXCEPT !.members = Append(@, Name(Current))]
    /\ UNCHANGED <<pc, result>>

GenStruct ==
    /\ Turn("struct")
    /\ code' = IF Block(Current).type = "Outport" THEN code
               ELSE [code EXCEPT !.members = Append(@, Name(Current))]
    /\ UNCHANGED <<pc, result>>

GenInit ==
    /\ Turn("init")
    /\ code' = IF Block(Current).type # "UnitDelay" THEN code
               ELSE [code EXCEPT !.init = Append(@, Name(Current))]
    /\ UNCHANGED <<pc, result>>

Signs(b) == Param(b, "Inputs", <<"+", "+">>)

\* The ports a block's statements read; an Outport's is read by GenExtPorts.
Reads(b) ==
    CASE Block(b).type = "Sum" -> 1 .. Max({1, Len(Signs(b))})
      [] Block(b).type \in {"Gain", "UnitDelay", "Outport"} -> {1}
      [] OTHER -> {}

\* Whether Block::GetCInputVar throws for one of them.
Connected(b) ==
    \A i \in Reads(b) : i \in DOMAIN Block(b).inputs /\ Block(b).inputs[i] \in Ids

InputVar(b, i) == Name(Block(b).inputs[i])
Term(sign, b, i, gain) == [sign |-> sign, var |-> InputVar(b, i), gain |-> gain]

\* ant.<name> = ...: the sign of a Sum's first input is not printed.
Assignment(b) ==
    [to |-> Name(b),
     terms |->
        CASE Block(b).type = "Sum" ->
                [i \in Reads(b) |-> Term(IF i = 1 THEN "+" ELSE Signs(b)[i], b, i, 1)]
          [] Block(b).type = "Gain" -> <<Term("+", b, 1, Param(b, "Gain", 1))>>
          [] OTHER -> <<Term("+", b, 1, 1)>>]

\* The statement of a block, if it is of one of the types, or an exception.
Assign(types) ==
    LET b == Current
    IN  \/ Block(b).type \notin types /\ UNCHANGED <<pc, result, code>>
        \/ /\ Block(b).type \in types /\ Connected(b)
           /\ code' = [code EXCEPT !.step = Append(@, Assignment(b))]
           /\ UNCHANGED <<pc, result>>
        \/ Block(b).type \in types /\ ~Connected(b) /\ Fail /\ UNCHANGED code

\* The computing part of GenStep in the sorted order, and the updating part: the
\* delays one after the other.
GenStep == Turn("step") /\ Assign({"Sum", "Gain"})
UpdateDelays == Turn("update") /\ Assign({"UnitDelay"})

\* One turn over the vector.  Outports give the name of the block they read,
\* Inports their own; the Outports are printed first.
GenExtPorts ==
    /\ Turn("ports")
    /\ LET b == cursor - 1
       IN  \/ b \notin OfType("Inport") \cup OfType("Outport") /\ UNCHANGED <<pc, result, code>>
           \/ /\ b \in OfType("Inport")
              /\ code' = [code EXCEPT !.inports =
                            Append(@, [name |-> Param(b, "PortName", Name(b)), var |-> Name(b)])]
              /\ UNCHANGED <<pc, result>>
           \/ /\ b \in OfType("Outport") /\ Connected(b)
              /\ code' = [code EXCEPT !.outports = Append(@, [name |-> Name(b), var |-> InputVar(b, 1)])]
              /\ UNCHANGED <<pc, result>>
           \/ b \in OfType("Outport") /\ ~Connected(b) /\ Fail /\ UNCHANGED code

\* The stream is not looked at: a file that cannot be opened stays as it is and
\* a disk that fills leaves a part of the program, and Create succeeds.
WriteToFile ==
    /\ pc = "write"
    /\ \/ file' = [kind |-> "code", code |-> code]
       \/ DiskMayFail /\ file' \in {file, [kind |-> "partial"]}
    /\ pc' = "idle" /\ result' = "filter"
    /\ UNCHANGED <<before, calls, cursor, branch, graph, code, sortVars>>

Step ==
    \/ FindMaxSid \/ ReadBlock \/ BlocksRead \/ ReadLine \/ LinesRead
    \/ Sort \/ Sorted \/ EndLoop \/ GenStruct \/ GenInit
    \/ GenStep \/ UpdateDelays \/ GenExtPorts \/ WriteToFile

Next == Create \/ Step

Spec == Init /\ [][Next]_vars

-----------------------------------------------------------------------------
(***************************************************************************)
(* Properties.                                                             *)
(***************************************************************************)
\* A call that ends with an error, wherever in Parse or Generate it arose, has
\* not touched the file it read, which is also the one it would have written
\* (src/filter/filter.cpp:21, 24).
FailureKeepsInput == pc = "idle" /\ result = "error" => file = before

\* What TopologicalSort is given: the graphs TopoSort assumes, in which both
\* ends of a line exist; and the inputs of a block, of which it counts the
\* ports, say of each port which block its last line came from, whatever lines,
\* duplicates and defects the file has (src/filter/xml-parser.cpp:142).
GraphFitsSort ==
    pc \in {"sort", "write"} \cup DOMAIN After =>
        /\ T!WellFormed(SortGraph)
        /\ \A b \in Ids :
            /\ DOMAIN Block(b).inputs = T!Inputs(b)
            /\ \A i \in T!Inputs(b) :
                Block(b).inputs[i] =
                    T!Src(Max({l \in T!Lines : T!Dst(l) = b /\ T!In(l) = i}))

\* A diagram as an editor draws it: every port has at most one line and no line
\* leaves an Outport; and all of its blocks were sorted.
Drawable ==
    /\ T!OneDriver
    /\ \A l \in T!Lines : T!Src(l) \notin OfType("Outport")
    /\ Range(sorted) = Ids

Distinct == \A a, b \in Ids : Name(a) = Name(b) => a = b

\* The program compiles: what its init, its step and its ext_ports refer to are
\* members, and no two members have the same name unless two blocks had (after
\* SanitizeName) (src/filter/code-generator.cpp:105, 159, 194).
CodeIsClosed ==
    pc = "write" /\ Drawable =>
        LET members == Range(code.members)
            used == Range(code.init) \cup {p.var : p \in Range(code.outports \o code.inports)}
                    \cup UNION {{a.to} \cup {t.var : t \in Range(a.terms)} : a \in Range(code.step)}
        IN  /\ used \subseteq members
            /\ Distinct => IsInjective(code.members)

\* Members hold linear forms over their values before the step.
Members == {Name(b) : b \in Ids}
Unit(n) == [m \in Members |-> IF m = n THEN 1 ELSE 0]
Identity == [n \in Members |-> Unit(n)]
Weight(t) == IF t.sign = "-" THEN -t.gain ELSE t.gain

Execute(env, a) ==
    [env EXCEPT ![a.to] =
        [m \in DOMAIN env |-> SumFunction([i \in DOMAIN a.terms |-> Weight(a.terms[i]) * env[a.terms[i].var][m]])]]

\* The step function of the program, one assignment after the other: what the
\* members hold after it.
Run(env, statements) ==
    LET after[k \in 0 .. Len(statements)] ==
            IF k = 0 THEN env ELSE Execute(after[k - 1], statements[k])
    IN  after[Len(statements)]

\* What the diagram means: all Sums and Gains hold at once for the outputs of
\* this step, given what the other blocks put out.  Diagrams without a cycle
\* of such blocks need as many rounds as there are blocks.
Weigh(b, i) ==
    IF Block(b).type = "Gain" THEN Param(b, "Gain", 1) ELSE IF Signs(b)[i] = "-" THEN -1 ELSE 1

Compute(outs) ==
    [b \in Ids |->
        IF Block(b).type \notin {"Sum", "Gain"} THEN Unit(Name(b))
        ELSE [m \in Members |-> SumFunction([i \in Reads(b) |-> Weigh(b, i) * outs[Block(b).inputs[i]][m]])]]

Rounds ==
    LET round[n \in 0 .. Cardinality(Ids)] ==
            IF n = 0 THEN [b \in Ids |-> Unit(Name(b))] ELSE Compute(round[n - 1])
    IN  round

Outputs == Rounds[Cardinality(Ids)]

\* A UnitDelay holds its input until the next step.
AfterStep(b) ==
    IF Block(b).type = "UnitDelay" THEN Outputs[Block(b).inputs[1]] ELSE Outputs[b]

\* A diagram whose blocks have names of their own, whose Sums begin with a plus
\* and whose Gains are numbers.
Meaningful ==
    /\ Drawable /\ Distinct
    /\ \A b \in OfType("Sum") :
        Signs(b) \in Seq({"+", "-"}) /\ Signs(b) # <<>> /\ Signs(b)[1] = "+"
    /\ \A b \in OfType("Gain") : Param(b, "Gain", 1) \in Int

\* A UnitDelay that reads another one with a lower SID.
Chained(b) ==
    /\ Block(b).type = "UnitDelay"
    /\ LET s == Block(b).inputs[1] IN Block(s).type = "UnitDelay" /\ s < b

\* The generated step computes the diagram: for every state of its members the
\* Sums and Gains get their values of this step and the delays those of their
\* inputs, but for a delay that reads another with a lower SID
\* (src/filter/code-generator.cpp:134, 159).
StepIsSynchronous ==
    pc = "write" /\ Meaningful =>
        \A b \in Ids \ OfType("Outport") :
            ~Chained(b) => Run(Identity, code.step)[Name(b)] = AfterStep(b)

\* "Update delay blocks state" (src/filter/code-generator.cpp:157): every
\* UnitDelay gets what its input put out in this step.
DelaysHoldInput ==
    pc = "write" /\ Meaningful =>
        \A b \in OfType("UnitDelay") : Run(Identity, code.step)[Name(b)] = AfterStep(b)
=============================================================================
