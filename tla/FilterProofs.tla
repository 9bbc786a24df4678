---------------------------- MODULE FilterProofs ----------------------------
(***************************************************************************)
(* Theorems about Filter, for all files, names and numbers of calls: the   *)
(* graph that is read, the program that is generated from it, and that the *)
(* step function of the program computes the diagram.                      *)
(***************************************************************************)
EXTENDS Filter, FiniteSetTheorems, SequenceTheorems, TLAPS

TP == INSTANCE TopoSortProofs WITH
        Graphs <- {}, graph <- SortGraph, pc <- sortPc

-----------------------------------------------------------------------------
(***************************************************************************)
(* Sets of numbers.                                                        *)
(***************************************************************************)
\* Among finite sets there is one that has no other as a proper subset.
LEMMA Smallest ==
    ASSUME NEW F, F # {}, \A X \in F : IsFiniteSet(X)
    PROVE  \E X \in F : \A Y \in F : Y \subseteq X => Y = X
<1> DEFINE All == UNION F
<1>1. IsWellFoundedOn(StrictSubsetOrdering(All), FiniteSubsetsOf(All))
  BY FS_StrictSubsetOrderingWellFounded
<1>2. F \subseteq FiniteSubsetsOf(All)
  BY DEF FiniteSubsetsOf
<1>3. PICK X \in F : \A Y \in F : <<Y, X>> \notin StrictSubsetOrdering(All)
  BY <1>1, <1>2, WFMin
<1>4. \A Y \in F : Y \subseteq X => Y = X
  BY <1>3 DEF StrictSubsetOrdering
<1> QED
  BY <1>4

LEMMA Least ==
    ASSUME NEW S \in SUBSET Nat, S # {}
    PROVE  \E n \in S : \A m \in S : n <= m
<1> DEFINE F == {0 .. m : m \in S}
<1>1. \A m \in S : IsFiniteSet(0 .. m)
  BY FS_Interval
<1>2. F # {} /\ \A X \in F : IsFiniteSet(X)
  BY <1>1, Zenon
<1>3. \E X \in F : \A Y \in F : Y \subseteq X => Y = X
  <2> HIDE DEF F
  <2> QED
    BY <1>2, Smallest
<1>4. PICK n \in S : \A Y \in F : Y \subseteq 0 .. n => Y = 0 .. n
  BY <1>3
<1>5. ASSUME NEW m \in S, m < n PROVE FALSE
  <2>1. 0 .. m \in F /\ 0 .. m \subseteq 0 .. n
    BY <1>5
  <2>2. 0 .. m = 0 .. n
    BY <1>4, <2>1, Zenon
  <2>3. n \in 0 .. n /\ n \notin 0 .. m
    BY <1>5
  <2> QED
    BY <2>2, <2>3
<1> QED
  BY <1>5

LEMMA Greatest ==
    ASSUME NEW S \in SUBSET Int, S # {}, IsFiniteSet(S)
    PROVE  \E n \in S : \A m \in S : n >= m
<1> DEFINE Above(n) == {m \in S : m >= n}
           F == {Above(n) : n \in S}
<1>1. \A n \in S : IsFiniteSet(Above(n))
  BY FS_Subset
<1>2. F # {} /\ \A X \in F : IsFiniteSet(X)
  BY <1>1, Zenon
<1>3. \E X \in F : \A Y \in F : Y \subseteq X => Y = X
  <2> HIDE DEF F, Above
  <2> QED
    BY <1>2, Smallest
<1>4. PICK n \in S : \A Y \in F : Y \subseteq Above(n) => Y = Above(n)
  BY <1>3, Zenon
<1>5. ASSUME NEW m \in S, m > n PROVE FALSE
  <2>1. Above(m) \subseteq Above(n)
    <3> SUFFICES ASSUME NEW x \in S, x >= m PROVE x >= n
      OBVIOUS
    <3> HIDE DEF F, Above
    <3>1. x \in Int /\ m \in Int /\ n \in Int
      OBVIOUS
    <3> QED
      BY <1>5, <3>1
  <2>2. n \in Above(n) /\ n \notin Above(m)
    BY <1>5
  <2>3. Above(m) = Above(n)
    BY <1>4, <2>1
  <2> QED
    BY <2>2, <2>3
<1> QED
  BY <1>5

LEMMA MaxOf ==
    ASSUME NEW S \in SUBSET Int, S # {}, IsFiniteSet(S)
    PROVE  Max(S) \in S /\ \A m \in S : Max(S) >= m
BY Greatest DEF Max

-----------------------------------------------------------------------------
(***************************************************************************)
(* The graph that Parse builds.                                            *)
(***************************************************************************)
\* A graph is a record, its blocks are a function and each of them a record.
Shaped(g) ==
    /\ g = [size |-> g.size, blocks |-> g.blocks, lines |-> g.lines]
    /\ g.blocks = [b \in DOMAIN g.blocks |-> g.blocks[b]]
    /\ \A b \in DOMAIN g.blocks :
        LET B == g.blocks[b]
        IN  /\ B = [name |-> B.name, type |-> B.type, params |-> B.params, inputs |-> B.inputs]
            /\ B.inputs = [i \in DOMAIN B.inputs |-> B.inputs[i]]

\* The lines into port i of block b.
LinesTo(g, b, i) == {l \in DOMAIN g.lines : g.lines[l].dst = b /\ g.lines[l].in = i}

\* The blocks are slots of the vector, a line joins two of them, and of each of
\* its connected ports a block knows the source of the latest line.
Linked(g) ==
    /\ g.size \in Nat
    /\ DOMAIN g.blocks \subseteq 0 .. g.size - 1
    /\ g.lines \in Seq(T!Line(DOMAIN g.blocks))
    /\ \A b \in DOMAIN g.blocks :
        /\ \A i : i \in DOMAIN g.blocks[b].inputs <=> LinesTo(g, b, i) # {}
        /\ \A i \in DOMAIN g.blocks[b].inputs :
            \E l \in LinesTo(g, b, i) :
                /\ \A k \in LinesTo(g, b, i) : k <= l
                /\ g.blocks[b].inputs[i] = g.lines[l].src

NewLine(s, d) == [src |-> s.block, out |-> s.port, dst |-> d.block, in |-> d.port]

\* What Connect makes of the graph when both blocks exist.
LEMMA ConnectShape ==
    ASSUME NEW g, Shaped(g), NEW s, NEW d,
           s.block \in DOMAIN g.blocks, d.block \in DOMAIN g.blocks
    PROVE  LET h == Connect(g, s, d)
           IN  /\ Shaped(h)
               /\ h.size = g.size /\ h.lines = Append(g.lines, NewLine(s, d))
               /\ DOMAIN h.blocks = DOMAIN g.blocks
               /\ \A b \in DOMAIN g.blocks :
                    h.blocks[b].inputs = IF b = d.block THEN Put(g.blocks[b].inputs, d.port, s.block)
                                         ELSE g.blocks[b].inputs
               /\ \A b \in DOMAIN g.blocks :
                    /\ h.blocks[b].type = g.blocks[b].type
                    /\ h.blocks[b].name = g.blocks[b].name
                    /\ h.blocks[b].params = g.blocks[b].params
<1> DEFINE B == g.blocks[d.block]
           inputs == Put(B.inputs, d.port, s.block)
           blocks == [g.blocks EXCEPT ![d.block] =
                        [name |-> B.name, type |-> B.type, params |-> B.params, inputs |-> inputs]]
<1>1. [B EXCEPT !.inputs = inputs]
        = [name |-> B.name, type |-> B.type, params |-> B.params, inputs |-> inputs]
  <2>1. B = [name |-> B.name, type |-> B.type, params |-> B.params, inputs |-> B.inputs]
    BY DEF Shaped
  <2> HIDE DEF B, inputs
  <2> QED
    BY <2>1
<1>2. Connect(g, s, d) = [size |-> g.size, blocks |-> blocks, lines |-> Append(g.lines, NewLine(s, d))]
  BY <1>1 DEF Connect, Shaped, NewLine
<1> DEFINE h == Connect(g, s, d)
<1>3. h.size = g.size /\ h.lines = Append(g.lines, NewLine(s, d)) /\ h.blocks = blocks
      /\ h = [size |-> h.size, blocks |-> h.blocks, lines |-> h.lines]
  BY <1>2
<1> HIDE DEF h
<1>4. /\ DOMAIN h.blocks = DOMAIN g.blocks
      /\ h.blocks = [b \in DOMAIN h.blocks |-> h.blocks[b]]
  BY <1>3
<1>5. inputs = [i \in DOMAIN inputs |-> inputs[i]]
  BY DEF Put
<1>6. \A b \in DOMAIN g.blocks :
        h.blocks[b] = IF b = d.block
                      THEN [name |-> B.name, type |-> B.type, params |-> B.params, inputs |-> inputs]
                      ELSE g.blocks[b]
  BY <1>3 DEF Shaped
<1>7. \A b \in DOMAIN g.blocks :
        /\ h.blocks[b].inputs = IF b = d.block THEN inputs ELSE g.blocks[b].inputs
        /\ h.blocks[b].type = g.blocks[b].type
        /\ h.blocks[b].name = g.blocks[b].name
        /\ h.blocks[b].params = g.blocks[b].params
  <2> HIDE DEF inputs
  <2> QED
    BY <1>6
<1>8. Shaped(h)
  <2>1. ASSUME NEW b \in DOMAIN h.blocks
        PROVE  LET C == h.blocks[b]
               IN  /\ C = [name |-> C.name, type |-> C.type, params |-> C.params, inputs |-> C.inputs]
                   /\ C.inputs = [i \in DOMAIN C.inputs |-> C.inputs[i]]
    <3>1. CASE b = d.block
      <4> HIDE DEF inputs
      <4> QED
        BY <3>1, <1>4, <1>5, <1>6
    <3>2. CASE b # d.block
      BY <3>2, <1>4, <1>6 DEF Shaped
    <3> QED
      BY <3>1, <3>2
  <2> HIDE DEF blocks
  <2> QED
    BY <2>1, <1>3, <1>4 DEF Shaped
<1> QED
  <2> HIDE DEF blocks
  <2> QED
    BY <1>3, <1>4, <1>7, <1>8 DEF h

\* A connection keeps the graph linked, whichever line had the port before.
LEMMA ConnectLinked ==
    ASSUME NEW g, Shaped(g), Linked(g),
           NEW s \in [block : Int, port : Int], NEW d \in [block : Int, port : Int]
    PROVE  Shaped(Connect(g, s, d)) /\ Linked(Connect(g, s, d))
<1>1. CASE ~(s.block \in DOMAIN g.blocks /\ d.block \in DOMAIN g.blocks)
  BY <1>1 DEF Connect
<1>2. CASE s.block \in DOMAIN g.blocks /\ d.block \in DOMAIN g.blocks
  <2> DEFINE h == Connect(g, s, d)
             n == Len(g.lines)
             new == NewLine(s, d)
  <2>1. /\ Shaped(h) /\ h.size = g.size /\ h.lines = Append(g.lines, new)
        /\ DOMAIN h.blocks = DOMAIN g.blocks
        /\ \A b \in DOMAIN g.blocks :
            h.blocks[b].inputs = IF b = d.block THEN Put(g.blocks[b].inputs, d.port, s.block)
                                 ELSE g.blocks[b].inputs
    BY <1>2, ConnectShape
  <2> HIDE DEF h
  <2>2. /\ new.src = s.block /\ new.dst = d.block /\ new.in = d.port
        /\ new \in T!Line(DOMAIN g.blocks)
    BY <1>2 DEF NewLine, T!Line
  <2> HIDE DEF new
  <2>3. /\ g.lines \in Seq(T!Line(DOMAIN g.blocks)) /\ n \in Nat
        /\ DOMAIN g.lines = 1 .. n /\ DOMAIN h.lines = 1 .. n + 1
        /\ h.lines[n + 1] = new /\ \A l \in 1 .. n : h.lines[l] = g.lines[l]
        /\ h.lines \in Seq(T!Line(DOMAIN g.blocks))
    BY <2>1, <2>2 DEF Linked
  <2>4. \A b, i : LinesTo(h, b, i) = IF b = d.block /\ i = d.port
                                     THEN LinesTo(g, b, i) \cup {n + 1} ELSE LinesTo(g, b, i)
    <3> SUFFICES ASSUME NEW b, NEW i
                 PROVE  LinesTo(h, b, i) = IF b = d.block /\ i = d.port
                                           THEN LinesTo(g, b, i) \cup {n + 1} ELSE LinesTo(g, b, i)
      OBVIOUS
    <3>1. DOMAIN h.lines = DOMAIN g.lines \cup {n + 1} /\ n + 1 \notin DOMAIN g.lines
      BY <2>3
    <3>2. \A l \in DOMAIN g.lines : l \in LinesTo(h, b, i) <=> l \in LinesTo(g, b, i)
      BY <3>1, <2>3 DEF LinesTo
    <3>3. n + 1 \in LinesTo(h, b, i) <=> b = d.block /\ i = d.port
      BY <3>1, <2>2, <2>3 DEF LinesTo
    <3>4. LinesTo(h, b, i) \subseteq DOMAIN h.lines /\ LinesTo(g, b, i) \subseteq DOMAIN g.lines
      BY DEF LinesTo
    <3>5. CASE b = d.block /\ i = d.port
      <4>1. \A l : l \in LinesTo(h, b, i) <=> l \in LinesTo(g, b, i) \cup {n + 1}
        BY <3>1, <3>2, <3>3, <3>4, <3>5
      <4> QED
        BY <3>5, <4>1
    <3>6. CASE ~(b = d.block /\ i = d.port)
      <4>1. \A l : l \in LinesTo(h, b, i) <=> l \in LinesTo(g, b, i)
        BY <3>1, <3>2, <3>3, <3>4, <3>6
      <4> QED
        BY <3>6, <4>1
    <3> QED
      BY <3>5, <3>6
  <2>5. \A b, i : LinesTo(g, b, i) \subseteq 1 .. n
    BY <2>3 DEF LinesTo
  <2>6. ASSUME NEW b \in DOMAIN g.blocks
        PROVE  /\ \A i : i \in DOMAIN h.blocks[b].inputs <=> LinesTo(h, b, i) # {}
               /\ \A i \in DOMAIN h.blocks[b].inputs :
                   \E l \in LinesTo(h, b, i) :
                        /\ \A k \in LinesTo(h, b, i) : k <= l
                        /\ h.blocks[b].inputs[i] = h.lines[l].src
    <3> DEFINE old == g.blocks[b].inputs
               now == h.blocks[b].inputs
    <3>1. /\ \A i : i \in DOMAIN old <=> LinesTo(g, b, i) # {}
          /\ \A i \in DOMAIN old :
                \E l \in LinesTo(g, b, i) :
                    /\ \A k \in LinesTo(g, b, i) : k <= l
                    /\ old[i] = g.lines[l].src
      BY DEF Linked
    <3>2. now = IF b = d.block THEN Put(old, d.port, s.block) ELSE old
      BY <2>1
    <3> HIDE DEF old, now
    <3>3. \A i : i \in DOMAIN now <=> i \in DOMAIN old \/ (b = d.block /\ i = d.port)
      BY <3>2 DEF Put
    <3>4. \A i : i \in DOMAIN now <=> LinesTo(h, b, i) # {}
      BY <3>1, <3>3, <2>4
    <3>5. ASSUME NEW i \in DOMAIN now
          PROVE  \E l \in LinesTo(h, b, i) :
                    (\A k \in LinesTo(h, b, i) : k <= l) /\ now[i] = h.lines[l].src
      <4>1. CASE b = d.block /\ i = d.port
        <5>1. now[i] = s.block
          BY <4>1, <3>2 DEF Put
        <5>2. n + 1 \in LinesTo(h, b, i) /\ \A k \in LinesTo(h, b, i) : k <= n + 1
          <6>1. LinesTo(h, b, i) = LinesTo(g, b, i) \cup {n + 1}
            BY <4>1, <2>4
          <6>2. \A k \in LinesTo(g, b, i) : k <= n + 1
            BY <2>3, <2>5
          <6>3. n + 1 <= n + 1
            BY <2>3
          <6> QED
            BY <6>1, <6>2, <6>3
        <5> QED
          BY <5>1, <5>2, <2>2, <2>3
      <4>2. CASE ~(b = d.block /\ i = d.port)
        <5>1. i \in DOMAIN old /\ now[i] = old[i]
          BY <4>2, <3>2, <3>3 DEF Put
        <5>2. LinesTo(h, b, i) = LinesTo(g, b, i)
          BY <4>2, <2>4
        <5>3. PICK l \in LinesTo(g, b, i) : (\A k \in LinesTo(g, b, i) : k <= l) /\ old[i] = g.lines[l].src
          BY <5>1, <3>1
        <5>4. h.lines[l] = g.lines[l]
          BY <2>3, <2>5
        <5> QED
          BY <5>1, <5>2, <5>3, <5>4
      <4> QED
        BY <4>1, <4>2
    <3> QED
      BY <3>4, <3>5 DEF now
  <2>7. Linked(h)
    <3>1. h.size \in Nat /\ DOMAIN h.blocks \subseteq 0 .. h.size - 1
      BY <2>1 DEF Linked
    <3>2. h.lines \in Seq(T!Line(DOMAIN h.blocks))
      BY <2>1, <2>3
    <3>3. \A b \in DOMAIN h.blocks : b \in DOMAIN g.blocks
      BY <2>1
    <3> HIDE <2>1, <2>3
    <3> QED
      BY <2>6, <3>1, <3>2, <3>3 DEF Linked
  <2> QED
    BY <2>1, <2>7 DEF h
<1> QED
  BY <1>1, <1>2

-----------------------------------------------------------------------------
(***************************************************************************)
(* The inductive invariant of Parse: where it is in the file, and what it  *)
(* has made of it.                                                         *)
(***************************************************************************)
Generating == pc \in {"sort", "write"} \cup DOMAIN After

ParseInv ==
    /\ file \in Files \/ file.kind # "xml"
    /\ cursor \in Nat \ {0}
    /\ pc \in {"sids", "blocks", "lines"} => file.kind = "xml" /\ file.system
    /\ pc \in {"sids", "blocks"} => branch = 1
    /\ pc = "lines" =>
        \/ branch = 1
        \/ cursor <= Len(file.lines) /\ branch \in DOMAIN Destinations(file.lines[cursor])

GraphInv ==
    /\ pc = "sids" => graph = EmptyGraph
    /\ pc = "blocks" =>
        /\ Bad \notin Sids /\ Shaped(graph)
        /\ graph.size = MaxSid + 1 /\ graph.lines = <<>>
        /\ \A b \in Ids : b \in 0 .. MaxSid /\ graph.blocks[b].inputs = <<>>
    /\ pc = "lines" \/ Generating => Shaped(graph) /\ Linked(graph)

LEMMA DocumentFacts ==
    ASSUME ParseInv, pc \in {"sids", "blocks", "lines"}
    PROVE  /\ Document(file)
           /\ file.blocks \in Seq(Range(file.blocks))
           /\ file.lines \in Seq([src : Ends, dst : Ends, branches : Seq(Ends)])
BY FilesAssumption DEF ParseInv, Document

\* The vector has a slot for every SID, whatever the elements without one.
LEMMA SidFacts ==
    ASSUME Document(file), Bad \notin Sids
    PROVE  /\ MaxSid \in Int /\ MaxSid >= -1
           /\ \A e \in Range(file.blocks) : e.sid # Missing => e.sid \in Int /\ e.sid <= MaxSid
<1> DEFINE All == {file.blocks[i].sid : i \in DOMAIN file.blocks}
           S == (Sids \ {Bad}) \cup {-1}
<1>1. DOMAIN file.blocks = 1 .. Len(file.blocks) /\ Len(file.blocks) \in Nat
  BY DEF Document
<1>2. IsFiniteSet(All)
  <2>1. [i \in DOMAIN file.blocks |-> file.blocks[i].sid] \in Surjection(DOMAIN file.blocks, All)
    BY DEF Surjection
  <2>2. IsFiniteSet(DOMAIN file.blocks)
    BY <1>1, FS_Interval
  <2> QED
    BY <2>1, <2>2, FS_Surjection
<1>3. \A e \in Range(file.blocks) : e.sid # Missing => e.sid \in Sids /\ e.sid # Bad /\ e.sid \in Int
  BY DEF Sids, Range, Document
<1>4. S \subseteq Int
  BY <1>3 DEF Sids, Range
<1>5. IsFiniteSet(S)
  <2>1. IsFiniteSet(All \cup {-1})
    BY <1>2, FS_AddElement
  <2>2. S \subseteq All \cup {-1}
    BY DEF Sids
  <2> QED
    BY <2>1, <2>2, FS_Subset
<1>6. Max(S) \in S /\ \A m \in S : Max(S) >= m
  <2> HIDE DEF S
  <2>1. -1 \in S
    BY DEF S
  <2> QED
    BY <1>4, <1>5, <2>1, MaxOf
<1>7. MaxSid = Max(S)
  BY DEF MaxSid
<1>8. -1 \in S /\ \A e \in Range(file.blocks) : e.sid # Missing => e.sid \in S
  BY <1>3
<1> HIDE DEF S
<1> QED
  BY <1>3, <1>4, <1>6, <1>7, <1>8

\* A turn of ReadLine is at a destination of the line.
LEMMA AtDestination ==
    ASSUME ParseInv, pc = "lines", cursor <= Len(file.lines)
    PROVE  LET line == file.lines[cursor]
           IN  /\ line.src \in Ends /\ Destinations(line) \in Seq(Ends)
               /\ branch \in DOMAIN Destinations(line)
<1> DEFINE line == file.lines[cursor]
           Lines == [src : Ends, dst : Ends, branches : Seq(Ends)]
<1>1. file.lines \in Seq(Lines)
  BY DocumentFacts
<1>2. cursor \in DOMAIN file.lines
  BY <1>1 DEF ParseInv
<1>3. line \in Lines
  <2> HIDE DEF Lines
  <2> QED
    BY <1>1, <1>2
<1>4. line.src \in Ends /\ line.dst \in Ends /\ line.branches \in Seq(Ends)
  BY <1>3
<1> HIDE DEF line
<1>5. Destinations(line) \in Seq(Ends) /\ Destinations(line) # <<>>
  BY <1>4 DEF Destinations
<1>6. 1 \in DOMAIN Destinations(line)
  BY <1>5
<1> QED
  BY <1>4, <1>5, <1>6 DEF line, ParseInv

LEMMA ParseInit == Init => ParseInv /\ GraphInv
BY DEF Init, ParseInv, GraphInv, Generating, After

\* The other actions and what they leave alone.
Elsewhere == Sort \/ Sorted \/ EndLoop \/ GenStruct \/ GenInit \/ GenStep \/ UpdateDelays \/ GenExtPorts

LEMMA ElsewhereStep ==
    ASSUME Elsewhere, cursor \in Nat \ {0}
    PROVE  /\ Generating /\ pc' \in {"idle", "sort", "write"} \cup DOMAIN After
           /\ UNCHANGED <<file, branch, graph>> /\ cursor' \in Nat \ {0}
<1> USE DEF callVars
<1>1. CASE Sort
  <2>1. pc = "sort" /\ UNCHANGED <<pc, file, branch, graph, cursor>>
    BY <1>1 DEF Sort
  <2> QED
    BY <2>1 DEF Generating
<1>2. CASE Sorted
  BY <1>2 DEF Sorted, Fail, Generating, After
<1>3. CASE EndLoop
  BY <1>3 DEF EndLoop, Generating, After
<1>4. ASSUME NEW p \in DOMAIN After, Turn(p), UNCHANGED pc \/ Fail
      PROVE  /\ Generating /\ pc' \in {"idle", "sort", "write"} \cup DOMAIN After
             /\ UNCHANGED <<file, branch, graph>> /\ cursor' \in Nat \ {0}
  BY <1>4 DEF Turn, Generating, Fail
<1>5. CASE GenStruct
  BY <1>4, <1>5 DEF GenStruct, After
<1>6. CASE GenInit
  BY <1>4, <1>6 DEF GenInit, After
<1>7. CASE GenStep \/ UpdateDelays
  <2>1. UNCHANGED pc \/ Fail
    BY <1>7 DEF GenStep, UpdateDelays, Assign
  <2> QED
    BY <1>4, <1>7, <2>1 DEF GenStep, UpdateDelays, After
<1>8. CASE GenExtPorts
  <2>1. UNCHANGED pc \/ Fail
    BY <1>8 DEF GenExtPorts
  <2> QED
    BY <1>4, <1>8, <2>1 DEF GenExtPorts, After
<1> QED
  BY <1>1, <1>2, <1>3, <1>5, <1>6, <1>7, <1>8 DEF Elsewhere

LEMMA ReadBlockNext == ParseInv /\ GraphInv /\ ReadBlock => ParseInv' /\ GraphInv'
<1> SUFFICES ASSUME ParseInv, GraphInv, ReadBlock PROVE ParseInv' /\ GraphInv'
  OBVIOUS
<1> DEFINE e == file.blocks[cursor]
<1>1. /\ pc = "blocks" /\ cursor \in 1 .. Len(file.blocks) /\ cursor' = cursor + 1
      /\ pc' \in {"blocks", "undefined"} /\ UNCHANGED <<file, branch>>
  BY DEF ReadBlock, ParseInv, Undefined, callVars
<1>2. ParseInv'
  BY <1>1 DEF ParseInv
<1>3. e \in Range(file.blocks)
  <2>1. file.blocks \in Seq(Range(file.blocks))
    BY <1>1, DocumentFacts
  <2> QED
    BY <1>1, <2>1 DEF Range
<1>4. /\ Bad \notin Sids /\ Shaped(graph) /\ graph.size = MaxSid + 1 /\ graph.lines = <<>>
      /\ \A b \in Ids : b \in 0 .. MaxSid /\ graph.blocks[b].inputs = <<>>
      /\ MaxSid' = MaxSid /\ Sids' = Sids
  BY <1>1 DEF GraphInv, MaxSid, Sids
<1>5. CASE UNCHANGED graph
  <2>1. Ids' = Ids
    BY <1>5 DEF Ids
  <2> QED
    BY <1>1, <1>2, <1>4, <1>5, <2>1 DEF GraphInv, Generating, After
<1>6. CASE ~Incomplete(e) /\ e.sid >= 0 /\ graph' = [graph EXCEPT !.blocks = Put(@, e.sid, BlockOf(e))]
  <2> DEFINE new == BlockOf(e)
  <2>1. e.sid \in 0 .. MaxSid
    BY <1>1, <1>3, <1>4, <1>6, DocumentFacts, SidFacts DEF Incomplete
  <2>2. graph' = [size |-> graph.size, blocks |-> Put(graph.blocks, e.sid, new), lines |-> <<>>]
    BY <1>4, <1>6 DEF Shaped
  <2>3. /\ new = [name |-> new.name, type |-> new.type, params |-> new.params, inputs |-> new.inputs]
        /\ new.inputs = <<>>
    BY DEF BlockOf
  <2> HIDE DEF new
  <2>4. /\ graph'.size = graph.size /\ graph'.lines = <<>>
        /\ graph'.blocks = [b \in Ids \cup {e.sid} |-> IF b = e.sid THEN new ELSE graph.blocks[b]]
        /\ graph' = [size |-> graph'.size, blocks |-> graph'.blocks, lines |-> graph'.lines]
    BY <2>2 DEF Put, Ids
  <2>5. Ids' = Ids \cup {e.sid} /\ graph'.blocks = [b \in DOMAIN graph'.blocks |-> graph'.blocks[b]]
    BY <2>4 DEF Ids
  <2>6. \A b \in Ids' : graph'.blocks[b] = IF b = e.sid THEN new ELSE graph.blocks[b]
    BY <2>4, <2>5
  <2>7. \A b \in Ids' : b \in 0 .. MaxSid /\ graph'.blocks[b].inputs = <<>>
    BY <1>4, <2>1, <2>3, <2>5, <2>6
  <2>8. ASSUME NEW b \in Ids'
        PROVE  LET B == graph'.blocks[b]
               IN  /\ B = [name |-> B.name, type |-> B.type, params |-> B.params, inputs |-> B.inputs]
                   /\ B.inputs = [i \in DOMAIN B.inputs |-> B.inputs[i]]
    <3>1. CASE b = e.sid
      <4>1. graph'.blocks[b] = new
        BY <2>6, <3>1
      <4>2. new.inputs = [i \in DOMAIN new.inputs |-> new.inputs[i]]
        BY <2>3
      <4> QED
        BY <2>3, <4>1, <4>2
    <3>2. CASE b # e.sid
      BY <1>4, <2>5, <2>6, <3>2 DEF Shaped, Ids
    <3> QED
      BY <3>1, <3>2
  <2>9. Shaped(graph')
    BY <2>4, <2>5, <2>8 DEF Shaped, Ids
  <2> QED
    BY <1>1, <1>2, <1>4, <2>4, <2>7, <2>9 DEF GraphInv, Generating, After
<1> QED
  BY <1>5, <1>6 DEF ReadBlock

LEMMA ReadLineNext == ParseInv /\ GraphInv /\ ReadLine => ParseInv' /\ GraphInv'
<1> SUFFICES ASSUME ParseInv, GraphInv, ReadLine PROVE ParseInv' /\ GraphInv'
  OBVIOUS
<1> DEFINE line == file.lines[cursor]
           ends == Destinations(line)
<1>1. /\ pc = "lines" /\ cursor <= Len(file.lines) /\ UNCHANGED file
      /\ pc' \in {"lines", "idle"}
      /\ IF line.src # Missing /\ branch < Len(ends)
         THEN branch' = branch + 1 /\ UNCHANGED cursor
         ELSE branch' = 1 /\ cursor' = cursor + 1
  BY DEF ReadLine, Fail, callVars
<1>2. line.src \in Ends /\ ends \in Seq(Ends) /\ branch \in DOMAIN ends
  BY <1>1, AtDestination
<1>3. branch \in 1 .. Len(ends) /\ ends[branch] \in Ends
  BY <1>2
<1>4. ParseInv'
  <2> HIDE DEF ends
  <2>1. CASE line.src # Missing /\ branch < Len(ends)
    <3>1. branch' \in DOMAIN ends
      BY <1>1, <1>2, <1>3, <2>1
    <3>2. ends = Destinations(file.lines[cursor])'
      BY <1>1, <2>1 DEF ends
    <3> QED
      BY <1>1, <2>1, <3>1, <3>2 DEF ParseInv
  <2>2. CASE ~(line.src # Missing /\ branch < Len(ends))
    BY <1>1, <2>2 DEF ParseInv
  <2> QED
    BY <2>1, <2>2
<1>5. Shaped(graph) /\ Linked(graph)
  BY <1>1 DEF GraphInv
<1>6. Shaped(graph') /\ Linked(graph')
  <2>1. CASE UNCHANGED graph
    BY <1>5, <2>1
  <2>2. CASE /\ {line.src, ends[branch]} \cap {Missing, Bad, Empty} = {}
             /\ graph' = Connect(graph, line.src, ends[branch])
    <3>1. line.src \in [block : Int, port : Int] /\ ends[branch] \in [block : Int, port : Int]
      BY <1>2, <1>3, <2>2 DEF Ends
    <3> QED
      BY <1>5, <2>2, <3>1, ConnectLinked
  <2> QED
    BY <2>1, <2>2 DEF ReadLine
<1>7. GraphInv'
  BY <1>1, <1>6 DEF GraphInv, Generating, After
<1> QED
  BY <1>4, <1>7

LEMMA LinkedAtFirst ==
    ASSUME NEW g, g.size \in Nat, DOMAIN g.blocks \subseteq 0 .. g.size - 1, g.lines = <<>>,
           \A b \in DOMAIN g.blocks : g.blocks[b].inputs = <<>>
    PROVE  Linked(g)
<1>1. \A b, i : LinesTo(g, b, i) = {}
  BY DEF LinesTo
<1>2. DOMAIN <<>> = {} /\ <<>> \in Seq(T!Line(DOMAIN g.blocks))
  OBVIOUS
<1> QED
  BY <1>1, <1>2 DEF Linked

LEMMA EmptyLinked == Shaped(EmptyGraph) /\ Linked(EmptyGraph)
<1>1. /\ EmptyGraph.size = 0 /\ EmptyGraph.blocks = <<>> /\ EmptyGraph.lines = <<>>
      /\ DOMAIN EmptyGraph.blocks = {}
      /\ EmptyGraph.blocks = [b \in DOMAIN EmptyGraph.blocks |-> EmptyGraph.blocks[b]]
      /\ EmptyGraph = [size |-> EmptyGraph.size, blocks |-> EmptyGraph.blocks, lines |-> EmptyGraph.lines]
  BY DEF EmptyGraph
<1>2. Shaped(EmptyGraph)
  <2> HIDE DEF EmptyGraph
  <2> QED
    BY <1>1 DEF Shaped
<1>3. Linked(EmptyGraph)
  BY <1>1, LinkedAtFirst
<1> QED
  BY <1>2, <1>3

LEMMA ParseNext == ParseInv /\ GraphInv /\ [Next]_vars => ParseInv' /\ GraphInv'
<1> SUFFICES ASSUME ParseInv, GraphInv, [Next]_vars PROVE ParseInv' /\ GraphInv'
  OBVIOUS
<1> USE DEF callVars, After
<1>1. CASE Create
  BY <1>1 DEF Create, Fail, ParseInv, GraphInv, Generating
<1>2. CASE FindMaxSid
  <2>1. CASE Fail /\ UNCHANGED graph
    BY <1>2, <2>1 DEF FindMaxSid, Fail, ParseInv, GraphInv, Generating
  <2>2. CASE BeginSort(EmptyGraph) /\ UNCHANGED graph
    BY <1>2, <2>2, EmptyLinked DEF FindMaxSid, BeginSort, ParseInv, GraphInv, Generating
  <2>3. CASE /\ Bad \notin Sids /\ MaxSid >= 0
             /\ pc' = "blocks" /\ graph' = [EmptyGraph EXCEPT !.size = MaxSid + 1]
    <3>1. graph' = [size |-> MaxSid + 1, blocks |-> <<>>, lines |-> <<>>]
      BY <2>3 DEF EmptyGraph
    <3>2. /\ graph'.size = MaxSid + 1 /\ graph'.blocks = <<>> /\ graph'.lines = <<>>
          /\ DOMAIN graph'.blocks = {}
          /\ graph'.blocks = [b \in DOMAIN graph'.blocks |-> graph'.blocks[b]]
          /\ graph' = [size |-> graph'.size, blocks |-> graph'.blocks, lines |-> graph'.lines]
      BY <3>1
    <3>3. Shaped(graph')
      <4> HIDE <2>3, <3>1
      <4> QED
        BY <3>2 DEF Shaped
    <3>4. UNCHANGED <<file, cursor, branch>> /\ MaxSid' = MaxSid /\ Sids' = Sids
      BY <1>2 DEF FindMaxSid, MaxSid, Sids
    <3> QED
      BY <1>2, <2>3, <3>2, <3>3, <3>4 DEF FindMaxSid, ParseInv, GraphInv, Generating, Ids
  <2> QED
    BY <1>2, <2>1, <2>2, <2>3 DEF FindMaxSid
<1>3. CASE ReadBlock
  BY <1>3, ReadBlockNext
<1>4. CASE BlocksRead
  <2>1. Document(file) /\ Bad \notin Sids /\ pc = "blocks"
    BY <1>4, DocumentFacts DEF BlocksRead, GraphInv
  <2>2. MaxSid \in Int /\ MaxSid >= -1
    BY <2>1, SidFacts
  <2>3. graph.size = MaxSid + 1 /\ \A b \in DOMAIN graph.blocks : b \in 0 .. MaxSid
    BY <2>1 DEF GraphInv, Ids
  <2>4. graph.size \in Nat /\ DOMAIN graph.blocks \subseteq 0 .. graph.size - 1
    BY <2>2, <2>3
  <2>5. Linked(graph)
    BY <2>1, <2>4, LinkedAtFirst DEF GraphInv, Ids
  <2>6. UNCHANGED <<file, branch, graph>> /\ pc' = "lines" /\ cursor' = 1
    BY <1>4 DEF BlocksRead
  <2> QED
    BY <2>1, <2>5, <2>6 DEF ParseInv, GraphInv, Generating
<1>5. CASE ReadLine
  BY <1>5, ReadLineNext
<1>6. CASE LinesRead
  BY <1>6 DEF LinesRead, BeginSort, ParseInv, GraphInv, Generating
<1>7. CASE Elsewhere
  BY <1>7, ElsewhereStep DEF ParseInv, GraphInv, Generating
<1>8. CASE WriteToFile
  BY <1>8 DEF WriteToFile, ParseInv, GraphInv, Generating
<1>9. CASE UNCHANGED vars
  <2>1. Ids' = Ids /\ Sids' = Sids /\ MaxSid' = MaxSid
    BY <1>9 DEF vars, Ids, Sids, MaxSid
  <2> QED
    BY <1>9, <2>1 DEF vars, ParseInv, GraphInv, Generating
<1> QED
  BY <1>1, <1>2, <1>3, <1>4, <1>5, <1>6, <1>7, <1>8, <1>9 DEF Next, Step, Elsewhere

LEMMA LinkedFits ==
    ASSUME Linked(graph)
    PROVE  T!WellFormed(SortGraph)
<1>1. /\ SortGraph.size = graph.size /\ SortGraph.blocks = Ids /\ SortGraph.lines = graph.lines
      /\ SortGraph.delays = OfType("UnitDelay") /\ SortGraph.outports = OfType("Outport")
  BY DEF SortGraph
<1>2. OfType("UnitDelay") \subseteq Ids /\ OfType("Outport") \subseteq Ids \ OfType("UnitDelay")
  BY DEF OfType
<1>3. graph.size \in Nat /\ Ids \subseteq 0 .. graph.size - 1 /\ graph.lines \in Seq(T!Line(Ids))
  BY DEF Linked, Ids
<1> QED
  BY <1>1, <1>2, <1>3 DEF T!WellFormed

\* The latest of the lines into a port is there.
LEMMA LatestLine ==
    ASSUME Linked(graph), NEW b \in Ids
    PROVE  /\ DOMAIN Block(b).inputs = T!Inputs(b)
           /\ \A i \in T!Inputs(b) :
                Block(b).inputs[i] = T!Src(Max({l \in T!Lines : T!Dst(l) = b /\ T!In(l) = i}))
<1>1. SortGraph.lines = graph.lines
  BY DEF SortGraph
<1>2. T!Lines = DOMAIN graph.lines /\ \A l : /\ T!Src(l) = graph.lines[l].src
                                             /\ T!Dst(l) = graph.lines[l].dst
                                             /\ T!In(l) = graph.lines[l].in
  BY <1>1 DEF T!Lines, T!Src, T!Dst, T!In
<1>3. \A i : LinesTo(graph, b, i) = {l \in T!Lines : T!Dst(l) = b /\ T!In(l) = i}
  BY <1>2 DEF LinesTo
<1>4. T!Inputs(b) = {i \in T!Inputs(b) : LinesTo(graph, b, i) # {}}
      /\ \A i : LinesTo(graph, b, i) # {} => i \in T!Inputs(b)
  BY <1>2 DEF T!Inputs, LinesTo
<1>5. /\ \A i : i \in DOMAIN Block(b).inputs <=> LinesTo(graph, b, i) # {}
      /\ \A i \in DOMAIN Block(b).inputs :
            \E l \in LinesTo(graph, b, i) :
                /\ \A k \in LinesTo(graph, b, i) : k <= l
                /\ Block(b).inputs[i] = graph.lines[l].src
  BY DEF Linked, Block, Ids
<1>6. DOMAIN Block(b).inputs = T!Inputs(b)
  BY <1>4, <1>5
<1>7. ASSUME NEW i \in T!Inputs(b)
      PROVE  Block(b).inputs[i] = T!Src(Max(LinesTo(graph, b, i)))
  <2>1. PICK l \in LinesTo(graph, b, i) :
            (\A k \in LinesTo(graph, b, i) : k <= l) /\ Block(b).inputs[i] = graph.lines[l].src
    BY <1>5, <1>6
  <2>2. LinesTo(graph, b, i) \subseteq Int
    BY DEF Linked, LinesTo
  <2>3. \A k \in LinesTo(graph, b, i) : l >= k
    BY <2>1, <2>2
  <2>4. \A m \in LinesTo(graph, b, i) : (\A k \in LinesTo(graph, b, i) : m >= k) => m = l
    BY <2>1, <2>2, <2>3
  <2>5. Max(LinesTo(graph, b, i)) = l
    BY <2>3, <2>4 DEF Max
  <2> QED
    BY <1>2, <2>1, <2>5
<1> QED
  BY <1>3, <1>6, <1>7

\* Whatever the file holds, the sort and the generator get a graph whose lines
\* join existing blocks, and the inputs of a block are those of its latest lines
\* (src/filter/xml-parser.cpp:142).
THEOREM GraphFits == Spec => []GraphFitsSort
<1>1. ParseInv /\ GraphInv => GraphFitsSort
  <2> SUFFICES ASSUME GraphInv, Generating
               PROVE  /\ T!WellFormed(SortGraph)
                      /\ \A b \in Ids :
                            /\ DOMAIN Block(b).inputs = T!Inputs(b)
                            /\ \A i \in T!Inputs(b) : Block(b).inputs[i] =
                                T!Src(Max({l \in T!Lines : T!Dst(l) = b /\ T!In(l) = i}))
    BY DEF GraphFitsSort, Generating
  <2>1. Linked(graph)
    BY DEF GraphInv
  <2> QED
    BY <2>1, LinkedFits, LatestLine
<1> QED
  BY <1>1, ParseInit, ParseNext, PTL DEF Spec

-----------------------------------------------------------------------------
(***************************************************************************)
(* The sort, of which TopoSortProofs says what it gives for any graph.     *)
(***************************************************************************)
SortHeld == Generating => TP!CallInv

LEMMA SameGraphs == T!WellFormed(SortGraph) <=> TP!WellFormed(SortGraph)
BY DEF T!WellFormed, TP!WellFormed, T!Line, TP!Line

\* The same of the next state.
LEMMA FitsNext == GraphInv' /\ Generating' => T!WellFormed(SortGraph)'
<1>1. GraphInv /\ Generating => T!WellFormed(SortGraph)
  BY LinkedFits DEF GraphInv
<1> QED
  BY <1>1, PTL

LEMMA BegunNext == TP!Begun' => TP!CallInv'
<1>1. TP!Begun => TP!CallInv
  BY TP!CallBegins
<1> QED
  BY <1>1, PTL

LEMMA SortBegins ==
    ASSUME GraphInv, T!WellFormed(SortGraph)', NEW g, g = graph', BeginSort(g)
    PROVE  TP!CallInv'
<1>1. TP!WellFormed(SortGraph)'
  BY SameGraphs, PTL
<1>2. TP!Blocks' = DOMAIN graph'.blocks
  BY DEF TP!Blocks, SortGraph, Ids
<1>3. TP!Begun'
  BY <1>1, <1>2 DEF BeginSort, TP!Begun
<1> QED
  BY <1>3, BegunNext

LEMMA SortGoesOn ==
    ASSUME TP!CallInv, UNCHANGED graph, T!Step \/ UNCHANGED sortVars
    PROVE  TP!CallInv'
<1>1. SortGraph' = SortGraph
  BY DEF SortGraph, Ids, OfType
<1>2. T!Step => TP!Step
  <2> USE DEF T!Lines, TP!Lines, T!Src, TP!Src, T!Dst, TP!Dst, T!Out, TP!Out, T!In, TP!In,
              T!Blocks, TP!Blocks
  <2>1. T!Visit => TP!Visit
    BY DEF T!Visit, TP!Visit, T!Degree, TP!Degree, T!Inputs, TP!Inputs, T!Delays, TP!Delays,
       T!Cardinality, TP!Cardinality
  <2>2. T!BeginLoop => TP!BeginLoop
    BY DEF T!BeginLoop, TP!BeginLoop
  <2>3. T!Pop => TP!Pop
    BY DEF T!Pop, TP!Pop
  <2>4. T!Finish => TP!Finish
    BY DEF T!Finish, TP!Finish, T!Cardinality, TP!Cardinality
  <2>5. ASSUME NEW l \in T!Lines PROVE T!Follow(l) => TP!Follow(l)
    BY DEF T!Follow, TP!Follow, T!NextLines, TP!NextLines
  <2> QED
    BY <2>1, <2>2, <2>3, <2>4, <2>5 DEF T!Step, TP!Step
<1>3. UNCHANGED sortVars => UNCHANGED TP!vars
  BY <1>1 DEF sortVars, TP!vars
<1>4. [TP!Next]_(TP!vars)
  BY <1>2, <1>3 DEF TP!Next
<1> QED
  BY <1>4, TP!CallGoesOn

LEMMA SortHeldNext == ParseInv /\ GraphInv /\ SortHeld /\ [Next]_vars => SortHeld'
<1> SUFFICES ASSUME ParseInv, GraphInv, SortHeld, [Next]_vars, Generating' PROVE TP!CallInv'
  BY DEF SortHeld
<1>1. GraphInv'
  BY ParseNext
<1>2. GraphInv' /\ Generating' => T!WellFormed(SortGraph)'
  BY FitsNext
<1>3. CASE FindMaxSid
  <2>1. BeginSort(EmptyGraph) /\ UNCHANGED graph /\ pc = "sids"
    BY <1>3 DEF FindMaxSid, Fail, Generating, After
  <2> QED
    BY <1>1, <1>2, <2>1, SortBegins DEF GraphInv
<1>4. CASE LinesRead
  BY <1>1, <1>2, <1>4, SortBegins DEF LinesRead
<1>5. CASE Sort
  <2>1. UNCHANGED graph /\ T!Step /\ Generating
    BY <1>5 DEF Sort, Generating
  <2> QED
    BY <2>1, SortGoesOn DEF SortHeld
<1>6. CASE Elsewhere /\ ~Sort
  <2>1. Generating /\ UNCHANGED graph
    BY <1>6, ElsewhereStep DEF ParseInv
  <2>2. UNCHANGED sortVars
    BY <1>6 DEF Elsewhere, Sorted, EndLoop, GenStruct, GenInit, GenStep, UpdateDelays, GenExtPorts, Turn
  <2> QED
    BY <2>1, <2>2, SortGoesOn DEF SortHeld
<1>7. CASE Create \/ ReadBlock \/ BlocksRead \/ ReadLine \/ WriteToFile
  BY <1>7 DEF Create, ReadBlock, BlocksRead, ReadLine, WriteToFile, Fail, Undefined, Generating, After
<1>8. CASE UNCHANGED vars
  <2>1. Generating /\ UNCHANGED graph /\ UNCHANGED sortVars
    BY <1>8 DEF vars, Generating
  <2> QED
    BY <2>1, SortGoesOn DEF SortHeld
<1> QED
  BY <1>3, <1>4, <1>5, <1>6, <1>7, <1>8 DEF Next, Step, Elsewhere

-----------------------------------------------------------------------------
\* While a call is under way, and after one that failed, the file is what it was
\* when the call began.
Kept == pc # "idle" \/ result = "error" => file = before

LEMMA KeptInit == Init => Kept
  BY DEF Init, Kept

\* Between its first and its last step a call only reads the file.
LEMMA OnlyReads ==
    ASSUME [Next]_vars, ~Create, ~WriteToFile
    PROVE  UNCHANGED <<file, before>> /\ (pc' # pc => pc # "idle")
           /\ (result' # result => pc # "idle")
<1>1. CASE FindMaxSid \/ BlocksRead \/ LinesRead \/ Sorted \/ EndLoop
  BY <1>1 DEF FindMaxSid, BlocksRead, LinesRead, BeginSort, Sorted, EndLoop, After, callVars
<1>2. CASE ReadBlock
  <2>1. pc # "idle" /\ UNCHANGED <<file, before>>
    BY <1>2 DEF ReadBlock, callVars
  <2> QED
    BY <2>1
<1>3. CASE ReadLine
  <2>1. pc # "idle" /\ UNCHANGED <<file, before>>
    BY <1>3 DEF ReadLine, callVars
  <2> QED
    BY <2>1
<1>4. CASE Sort
  <2>1. pc # "idle" /\ UNCHANGED <<file, before>>
    BY <1>4 DEF Sort, callVars
  <2> QED
    BY <2>1
<1>5. CASE GenStruct \/ GenInit \/ GenStep \/ UpdateDelays \/ GenExtPorts
  <2>1. pc # "idle" /\ UNCHANGED <<file, before>>
    BY <1>5 DEF GenStruct, GenInit, GenStep, UpdateDelays, GenExtPorts, Turn, callVars
  <2> QED
    BY <2>1
<1>6. CASE UNCHANGED vars
  BY <1>6 DEF vars, callVars
<1> QED
  BY <1>1, <1>2, <1>3, <1>4, <1>5, <1>6 DEF Next, Step

LEMMA KeptStep == Kept /\ [Next]_vars => Kept'
<1> SUFFICES ASSUME Kept, [Next]_vars PROVE Kept'
  OBVIOUS
<1>1. CASE Create
  BY <1>1 DEF Create, Kept
\* The only step that changes the file is the last one of a call that succeeds.
<1>2. CASE WriteToFile
  BY <1>2 DEF WriteToFile, Kept
<1>3. CASE ~Create /\ ~WriteToFile
  BY <1>3, OnlyReads DEF Kept
<1> QED
  BY <1>1, <1>2, <1>3

\* A call of Create that ends with an error has not touched the file it read,
\* whatever the file holds and wherever the error arose (src/filter/filter.cpp:21).
THEOREM InputKept == Spec => []FailureKeepsInput
<1>1. Kept => FailureKeepsInput
  BY DEF Kept, FailureKeepsInput
<1> QED
  BY <1>1, KeptInit, KeptStep, PTL DEF Spec

-----------------------------------------------------------------------------
(***************************************************************************)
(* What the generator is given.                                            *)
(***************************************************************************)
\* The order has no block twice; a block comes after those it reads, if every
\* port has one line; the delays come in the order of their SIDs.
LEMMA SortedFacts ==
    ASSUME Generating, SortHeld
    PROVE  /\ sorted \in Seq(Ids)
           /\ \A i, j \in DOMAIN sorted : sorted[i] = sorted[j] => i = j
           /\ T!OneDriver =>
                \A i \in DOMAIN sorted : sorted[i] \in Ids \ OfType("UnitDelay") =>
                    \A l \in T!Lines : T!Dst(l) = sorted[i] => \E j \in 1 .. i - 1 : sorted[j] = T!Src(l)
           /\ \A i, j \in DOMAIN sorted :
                i < j /\ sorted[i] \in OfType("UnitDelay") /\ sorted[j] \in OfType("UnitDelay")
                    => sorted[i] < sorted[j]
<1>1. TP!TypeOK /\ TP!InputsFirst /\ TP!DelaysBySlot
  BY TP!CallGives DEF SortHeld
<1>2. TP!Blocks = Ids /\ TP!Delays = OfType("UnitDelay") /\ TP!Plain = Ids \ OfType("UnitDelay")
      /\ TP!Lines = T!Lines /\ TP!OneDriver = T!OneDriver
      /\ \A l : TP!Src(l) = T!Src(l) /\ TP!Dst(l) = T!Dst(l)
  BY DEF TP!Blocks, TP!Delays, TP!Plain, TP!Lines, T!Lines, TP!OneDriver, T!OneDriver,
         TP!Src, T!Src, TP!Dst, T!Dst, TP!In, T!In, SortGraph
<1>3. sorted \in Seq(Ids) /\ q \in Seq(Ids)
      /\ \A i, j \in DOMAIN (sorted \o q) : (sorted \o q)[i] = (sorted \o q)[j] => i = j
  BY <1>1, <1>2 DEF TP!TypeOK
<1>4. \A i \in DOMAIN sorted : i \in DOMAIN (sorted \o q) /\ (sorted \o q)[i] = sorted[i]
  BY <1>3
<1>5. T!OneDriver =>
        \A i \in DOMAIN sorted : sorted[i] \in Ids \ OfType("UnitDelay") =>
            \A l \in T!Lines : T!Dst(l) = sorted[i] => \E j \in 1 .. i - 1 : sorted[j] = T!Src(l)
  BY <1>1, <1>2 DEF TP!InputsFirst, TP!Fed
<1>6. \A i, j \in DOMAIN sorted :
        i < j /\ sorted[i] \in OfType("UnitDelay") /\ sorted[j] \in OfType("UnitDelay")
            => sorted[i] < sorted[j]
  BY <1>1, <1>2 DEF TP!DelaysBySlot
<1> QED
  BY <1>3, <1>4, <1>5, <1>6

\* A block reads blocks that have a line to it.
LEMMA InputFacts ==
    ASSUME Linked(graph), NEW b \in Ids, NEW i \in DOMAIN Block(b).inputs
    PROVE  \E l \in T!Lines : /\ T!Dst(l) = b /\ T!Src(l) = Block(b).inputs[i]
                              /\ T!Src(l) \in Ids
<1>1. PICK l \in LinesTo(graph, b, i) : graph.blocks[b].inputs[i] = graph.lines[l].src
  BY DEF Linked, Block, Ids
<1>2. l \in DOMAIN graph.lines /\ graph.lines[l].dst = b
  BY DEF LinesTo
<1>3. graph.lines[l] \in T!Line(Ids)
  BY <1>2 DEF Linked, Ids
<1>4. graph.lines[l].src \in Ids
  BY <1>3 DEF T!Line
<1> QED
  BY <1>1, <1>2, <1>4 DEF T!Lines, T!Src, T!Dst, SortGraph, Block

\* The generator changes neither the graph nor the order.
LEMMA Still ==
    ASSUME UNCHANGED <<graph, sorted>>
    PROVE  /\ Ids' = Ids /\ Distinct' = Distinct /\ \A t : OfType(t)' = OfType(t)
           /\ \A b : /\ Block(b)' = Block(b) /\ Name(b)' = Name(b) /\ Connected(b)' = Connected(b)
                     /\ Assignment(b)' = Assignment(b)
           /\ \A b, i : InputVar(b, i)' = InputVar(b, i)
<1>1. Ids' = Ids /\ \A b : Block(b)' = Block(b) /\ Name(b)' = Name(b)
  BY DEF Ids, Block, Name
<1>2. Distinct' = Distinct
  BY <1>1 DEF Distinct
<1>3. \A t : OfType(t)' = OfType(t)
  BY <1>1 DEF OfType
<1>4. \A b : Signs(b)' = Signs(b) /\ Reads(b)' = Reads(b)
  BY <1>1 DEF Signs, Param, Reads
<1>5. \A b : Connected(b)' = Connected(b)
  BY <1>1, <1>4 DEF Connected
<1>6. \A b, i : InputVar(b, i)' = InputVar(b, i)
  BY <1>1 DEF InputVar
<1>7. \A b : Assignment(b)' = Assignment(b)
  BY <1>1, <1>4, <1>6 DEF Assignment, Term, Param
<1> QED
  BY <1>1, <1>2, <1>3, <1>5, <1>6, <1>7

\* A list that grows at its end.
LEMMA Extended ==
    ASSUME NEW s, s \in Seq(Range(s)), NEW x
    PROVE  /\ Append(s, x) \in Seq(Range(Append(s, x)))
           /\ Range(Append(s, x)) = Range(s) \cup {x}
           /\ IsInjective(s) /\ x \notin Range(s) => IsInjective(Append(s, x))
<1> DEFINE t == Append(s, x)
<1>1. /\ t \in Seq(Range(s) \cup {x}) /\ DOMAIN s = 1 .. Len(s) /\ Len(s) \in Nat
      /\ DOMAIN t = 1 .. Len(s) + 1 /\ t[Len(s) + 1] = x
      /\ \A i \in 1 .. Len(s) : t[i] = s[i]
  <2>1. s \in Seq(Range(s) \cup {x})
    <3>1. Range(s) \subseteq Range(s) \cup {x}
      OBVIOUS
    <3> QED
      BY <3>1, SeqDef
  <2> QED
    BY <2>1
<1> HIDE DEF t
<1>2. Range(t) = Range(s) \cup {x}
  BY <1>1 DEF Range
<1>3. IsInjective(s) /\ x \notin Range(s) => IsInjective(t)
  BY <1>1 DEF IsInjective, Range
<1> QED
  BY <1>1, <1>2, <1>3 DEF t

-----------------------------------------------------------------------------
(***************************************************************************)
(* What has been generated.                                                *)
(***************************************************************************)
Loops == DOMAIN After \cup {"write"}

\* The positions whose blocks are members.
Declared == {k \in DOMAIN sorted : (pc = "struct" => k < cursor) /\ sorted[k] \notin OfType("Outport")}

MembersInv ==
    /\ code.members \in Seq(Range(code.members))
    /\ Range(code.members) = {Name(sorted[k]) : k \in Declared}
    /\ Distinct => IsInjective(code.members)

Delayed(n) == \E b \in Range(sorted) \cap OfType("UnitDelay") : n = Name(b)

Computed(a) ==
    \E b \in Range(sorted) :
        Block(b).type \in {"Sum", "Gain", "UnitDelay"} /\ Connected(b) /\ a = Assignment(b)

PutOut(p) == \E b \in OfType("Outport") : Connected(b) /\ p.var = InputVar(b, 1)

TakenIn(p) == \E b \in OfType("Inport") : p.var = Name(b)

UsesInv ==
    /\ code.init \in Seq(Range(code.init)) /\ \A n \in Range(code.init) : Delayed(n)
    /\ code.step \in Seq(Range(code.step)) /\ \A a \in Range(code.step) : Computed(a)
    /\ code.outports \in Seq(Range(code.outports)) /\ \A p \in Range(code.outports) : PutOut(p)
    /\ code.inports \in Seq(Range(code.inports)) /\ \A p \in Range(code.inports) : TakenIn(p)

\* A program is a record.
Program ==
    code = [members |-> code.members, init |-> code.init, step |-> code.step,
            outports |-> code.outports, inports |-> code.inports]

CodeInv ==
    /\ pc \in {"sids", "blocks", "lines", "sort"} => code = NoCode
    /\ pc \in Loops => Program /\ MembersInv /\ UsesInv

\* A loop takes its turn at a block of the order.
LEMMA TurnFacts ==
    ASSUME ParseInv, GraphInv, SortHeld, CodeInv, NEW loop \in DOMAIN After, Turn(loop),
           UNCHANGED pc
    PROVE  /\ pc = loop /\ pc' = loop /\ cursor' = cursor + 1 /\ cursor \in Nat \ {0}
           /\ UNCHANGED <<graph, sorted>>
           /\ Program /\ MembersInv /\ UsesInv
           /\ loop # "ports" => cursor \in DOMAIN sorted /\ Current \in Ids /\ Current \in Range(sorted)
<1>1. Generating /\ pc = loop /\ pc' = loop /\ cursor' = cursor + 1 /\ cursor \in Nat \ {0}
      /\ UNCHANGED <<graph, sorted>> /\ Program /\ MembersInv /\ UsesInv /\ cursor <= Turns
  BY DEF Turn, Generating, ParseInv, CodeInv, Loops, sortVars
<1>2. sorted \in Seq(Ids)
  BY <1>1, SortedFacts
<1>3. loop # "ports" => cursor \in 1 .. Len(sorted)
  BY <1>1, <1>2 DEF Turns
<1>4. loop # "ports" => cursor \in DOMAIN sorted /\ Current \in Ids /\ Current \in Range(sorted)
  BY <1>2, <1>3 DEF Current, Range
<1> QED
  BY <1>1, <1>4

\* A list that is what it was or has one entry more.
Grows(s, t, x) == t = s \/ t = Append(s, x)

LEMMA UsesGrow ==
    ASSUME UsesInv, UNCHANGED <<graph, sorted>>,
           NEW n, Delayed(n) \/ code'.init = code.init, Grows(code.init, code'.init, n),
           NEW a, Computed(a) \/ code'.step = code.step, Grows(code.step, code'.step, a),
           NEW o, PutOut(o) \/ code'.outports = code.outports, Grows(code.outports, code'.outports, o),
           NEW i, TakenIn(i) \/ code'.inports = code.inports, Grows(code.inports, code'.inports, i)
    PROVE  UsesInv'
<1>2. code'.init \in Seq(Range(code'.init)) /\ \A m \in Range(code'.init) : Delayed(m)
  <2>1. code.init \in Seq(Range(code.init)) /\ \A m \in Range(code.init) : Delayed(m)
    BY DEF UsesInv
  <2>2. CASE code'.init = code.init
    BY <2>1, <2>2
  <2>3. CASE code'.init = Append(code.init, n) /\ Delayed(n)
    BY <2>1, <2>3, Extended
  <2> QED
    BY <2>2, <2>3 DEF Grows
<1>3. code'.step \in Seq(Range(code'.step)) /\ \A m \in Range(code'.step) : Computed(m)
  <2>1. code.step \in Seq(Range(code.step)) /\ \A m \in Range(code.step) : Computed(m)
    BY DEF UsesInv
  <2>2. CASE code'.step = code.step
    BY <2>1, <2>2
  <2>3. CASE code'.step = Append(code.step, a) /\ Computed(a)
    BY <2>1, <2>3, Extended
  <2> QED
    BY <2>2, <2>3 DEF Grows
<1>4. code'.outports \in Seq(Range(code'.outports)) /\ \A m \in Range(code'.outports) : PutOut(m)
  <2>1. code.outports \in Seq(Range(code.outports)) /\ \A m \in Range(code.outports) : PutOut(m)
    BY DEF UsesInv
  <2>2. CASE code'.outports = code.outports
    BY <2>1, <2>2
  <2>3. CASE code'.outports = Append(code.outports, o) /\ PutOut(o)
    BY <2>1, <2>3, Extended
  <2> QED
    BY <2>2, <2>3 DEF Grows
<1>5. code'.inports \in Seq(Range(code'.inports)) /\ \A m \in Range(code'.inports) : TakenIn(m)
  <2>1. code.inports \in Seq(Range(code.inports)) /\ \A m \in Range(code.inports) : TakenIn(m)
    BY DEF UsesInv
  <2>2. CASE code'.inports = code.inports
    BY <2>1, <2>2
  <2>3. CASE code'.inports = Append(code.inports, i) /\ TakenIn(i)
    BY <2>1, <2>3, Extended
  <2> QED
    BY <2>2, <2>3 DEF Grows
<1>6. \A m : Delayed(m)' <=> Delayed(m)
  BY Still DEF Delayed
<1>7. \A m : Computed(m)' <=> Computed(m)
  BY Still DEF Computed
<1>8. \A m : PutOut(m)' <=> PutOut(m)
  BY Still DEF PutOut
<1>9. \A m : TakenIn(m)' <=> TakenIn(m)
  BY Still DEF TakenIn
<1> QED
  BY <1>2, <1>3, <1>4, <1>5, <1>6, <1>7, <1>8, <1>9 DEF UsesInv

\* Outside GenStruct the members stay.
LEMMA MembersStay ==
    ASSUME MembersInv, UNCHANGED <<graph, sorted>>, code'.members = code.members,
           Declared' = Declared
    PROVE  MembersInv'
<1>1. {Name(sorted[k]) : k \in Declared}' = {Name(sorted[k]) : k \in Declared}
  BY Still
<1> QED
  BY <1>1, Still DEF MembersInv

LEMMA DeclaredStay ==
    ASSUME UNCHANGED <<graph, sorted>>, pc # "struct", pc' # "struct"
    PROVE  Declared' = Declared
BY Still DEF Declared

\* A program that is not added to.
LEMMA ProgramStays ==
    ASSUME Program, MembersInv, UsesInv, UNCHANGED <<graph, sorted, code>>, Declared' = Declared
    PROVE  Program' /\ MembersInv' /\ UsesInv'
<1>1. UsesInv'
  BY UsesGrow DEF Grows
<1> QED
  BY <1>1, MembersStay DEF Program

LEMMA StructNext ==
    ASSUME ParseInv, GraphInv, SortHeld, CodeInv, GenStruct
    PROVE  CodeInv'
<1> DEFINE b == Current
<1>1. /\ pc = "struct" /\ pc' = "struct" /\ cursor' = cursor + 1 /\ cursor \in Nat \ {0}
      /\ UNCHANGED <<graph, sorted>> /\ Program /\ MembersInv /\ UsesInv
      /\ cursor \in DOMAIN sorted /\ b \in Ids
  BY TurnFacts DEF GenStruct, After
<1>2. sorted \in Seq(Ids) /\ DOMAIN sorted \subseteq Int
      /\ \A i, j \in DOMAIN sorted : sorted[i] = sorted[j] => i = j
  BY <1>1, SortedFacts DEF Generating, After
<1>3. Declared' = IF Block(b).type = "Outport" THEN Declared ELSE Declared \cup {cursor}
  <2>1. \A k \in DOMAIN sorted : k < cursor' <=> k < cursor \/ k = cursor
    BY <1>1, <1>2
  <2>2. b \in OfType("Outport") <=> Block(b).type = "Outport"
    BY <1>1 DEF OfType, Block
  <2> QED
    BY <1>1, <2>1, <2>2, Still DEF Declared, Current
<1>4. CASE Block(b).type = "Outport"
  <2>1. UNCHANGED code /\ Declared' = Declared
    BY <1>3, <1>4 DEF GenStruct
  <2> QED
    BY <1>1, <2>1, ProgramStays DEF CodeInv
<1>5. CASE Block(b).type # "Outport"
  <2>1. /\ code'.members = Append(code.members, Name(b))
        /\ code'.init = code.init /\ code'.step = code.step
        /\ code'.outports = code.outports /\ code'.inports = code.inports
        /\ Program'
    BY <1>1, <1>5 DEF GenStruct, Program
  <2>2. Distinct => Name(b) \notin Range(code.members)
    <3> SUFFICES ASSUME Distinct, NEW k \in Declared, Name(b) = Name(sorted[k]) PROVE FALSE
      BY <1>1 DEF MembersInv
    <3>1. k \in DOMAIN sorted /\ k < cursor /\ sorted[k] \in Ids
      BY <1>1, <1>2 DEF Declared
    <3>2. sorted[k] = sorted[cursor]
      BY <1>1, <3>1 DEF Distinct, Current
    <3> QED
      BY <1>1, <1>2, <3>1, <3>2
  <2>3. MembersInv'
    <3>1. /\ code.members \in Seq(Range(code.members))
          /\ Distinct => IsInjective(code.members)
      BY <1>1 DEF MembersInv
    <3>2. /\ code'.members \in Seq(Range(code'.members))
          /\ Range(code'.members) = Range(code.members) \cup {Name(b)}
      BY <2>1, <3>1, Extended
    <3>3. Range(code'.members) = {Name(sorted[k]) : k \in Declared'}
      BY <1>1, <1>3, <1>5, <3>2 DEF MembersInv, Current
    <3>4. {Name(sorted[k]) : k \in Declared}' = {Name(sorted[k]) : k \in Declared'}
      BY <1>1, Still
    <3>5. ASSUME Distinct PROVE IsInjective(code'.members)
      <4>1. IsInjective(code.members) /\ Name(b) \notin Range(code.members)
        BY <2>2, <3>1, <3>5
      <4>2. IsInjective(Append(code.members, Name(b)))
        BY <3>1, <4>1, Extended
      <4> QED
        BY <2>1, <4>2
    <3>6. Distinct' => Distinct
      BY <1>1, Still
    <3> QED
      BY <3>2, <3>3, <3>4, <3>5, <3>6 DEF MembersInv
  <2>4. UsesInv'
    BY <1>1, <2>1, UsesGrow DEF Grows
  <2> QED
    BY <1>1, <2>1, <2>3, <2>4 DEF CodeInv
<1> QED
  BY <1>4, <1>5

LEMMA InitNext ==
    ASSUME ParseInv, GraphInv, SortHeld, CodeInv, GenInit
    PROVE  CodeInv'
<1> DEFINE b == Current
<1>1. /\ pc = "init" /\ pc' = "init" /\ UNCHANGED <<graph, sorted>>
      /\ Program /\ MembersInv /\ UsesInv /\ b \in Ids /\ b \in Range(sorted)
  BY TurnFacts DEF GenInit, After
<1>2. CASE UNCHANGED code
  BY <1>1, <1>2, DeclaredStay, ProgramStays DEF CodeInv
<1>3. CASE /\ Block(b).type = "UnitDelay"
           /\ code' = [code EXCEPT !.init = Append(@, Name(b))]
  <2>1. /\ code'.init = Append(code.init, Name(b))
        /\ code'.members = code.members /\ code'.step = code.step
        /\ code'.outports = code.outports /\ code'.inports = code.inports
        /\ Program'
    BY <1>1, <1>3 DEF Program
  <2>2. Delayed(Name(b))
    BY <1>1, <1>3 DEF OfType, Block, Delayed
  <2>4. UsesInv'
    BY <1>1, <2>1, <2>2, UsesGrow DEF Grows
  <2> QED
    BY <1>1, <2>1, <2>4, DeclaredStay, MembersStay DEF CodeInv
<1> QED
  BY <1>2, <1>3 DEF GenInit

LEMMA AssignNext ==
    ASSUME ParseInv, GraphInv, SortHeld, CodeInv, NEW loop \in {"step", "update"}, Turn(loop),
           NEW types \in SUBSET {"Sum", "Gain", "UnitDelay"}, Assign(types)
    PROVE  CodeInv'
<1> DEFINE b == Current
<1>1. CASE Fail
  BY <1>1 DEF Fail, CodeInv, Loops, After
<1>2. CASE UNCHANGED pc
  <2>1. /\ pc \in {"step", "update"} /\ pc' = pc /\ UNCHANGED <<graph, sorted>>
        /\ Program /\ MembersInv /\ UsesInv /\ b \in Ids /\ b \in Range(sorted)
    BY <1>2, TurnFacts DEF After
  <2>2. CASE UNCHANGED code
    BY <2>1, <2>2, DeclaredStay, ProgramStays DEF CodeInv
  <2>3. CASE /\ Block(b).type \in types /\ Connected(b)
             /\ code' = [code EXCEPT !.step = Append(@, Assignment(b))]
    <3>1. /\ code'.step = Append(code.step, Assignment(b))
          /\ code'.members = code.members /\ code'.init = code.init
          /\ code'.outports = code.outports /\ code'.inports = code.inports
          /\ Program'
      BY <2>1, <2>3 DEF Program
    <3>2. Computed(Assignment(b))
      BY <2>1, <2>3 DEF Computed
    <3>3. UsesInv'
      BY <2>1, <3>1, <3>2, UsesGrow DEF Grows
    <3> QED
      BY <2>1, <3>1, <3>3, DeclaredStay, MembersStay DEF CodeInv
  <2> QED
    BY <1>2, <2>2, <2>3, <2>1 DEF Assign, Fail
<1> QED
  BY <1>1, <1>2 DEF Assign

LEMMA PortsNext ==
    ASSUME ParseInv, GraphInv, SortHeld, CodeInv, GenExtPorts
    PROVE  CodeInv'
<1> DEFINE b == cursor - 1
           in == [name |-> Param(b, "PortName", Name(b)), var |-> Name(b)]
           out == [name |-> Name(b), var |-> InputVar(b, 1)]
<1>1. CASE Fail
  BY <1>1 DEF Fail, CodeInv, Loops, After
<1>2. CASE UNCHANGED pc
  <2>1. /\ pc = "ports" /\ pc' = pc /\ UNCHANGED <<graph, sorted>>
        /\ Program /\ MembersInv /\ UsesInv
    BY <1>2, TurnFacts DEF GenExtPorts, After
  <2>2. CASE UNCHANGED code
    BY <2>1, <2>2, DeclaredStay, ProgramStays DEF CodeInv
  <2>3. CASE b \in OfType("Inport") /\ code' = [code EXCEPT !.inports = Append(@, in)]
    <3>1. /\ code'.inports = Append(code.inports, in)
          /\ code'.members = code.members /\ code'.init = code.init
          /\ code'.outports = code.outports /\ code'.step = code.step
          /\ Program' /\ in.var = Name(b)
      BY <2>1, <2>3 DEF Program
    <3> HIDE DEF in
    <3>2. TakenIn(in)
      BY <2>3, <3>1 DEF TakenIn
    <3>3. UsesInv'
      BY <2>1, <3>1, <3>2, UsesGrow DEF Grows
    <3> QED
      BY <2>1, <3>1, <3>3, DeclaredStay, MembersStay DEF CodeInv
  <2>4. CASE /\ b \in OfType("Outport") /\ Connected(b)
             /\ code' = [code EXCEPT !.outports = Append(@, out)]
    <3>1. /\ code'.outports = Append(code.outports, out)
          /\ code'.members = code.members /\ code'.init = code.init
          /\ code'.inports = code.inports /\ code'.step = code.step
          /\ Program' /\ out.var = InputVar(b, 1)
      BY <2>1, <2>4 DEF Program
    <3> HIDE DEF out
    <3>2. PutOut(out)
      BY <2>4, <3>1 DEF PutOut
    <3>3. UsesInv'
      BY <2>1, <3>1, <3>2, UsesGrow DEF Grows
    <3> QED
      BY <2>1, <3>1, <3>3, DeclaredStay, MembersStay DEF CodeInv
  <2> QED
    BY <1>2, <2>1, <2>2, <2>3, <2>4 DEF GenExtPorts, Fail
<1> QED
  BY <1>1, <1>2 DEF GenExtPorts

LEMMA CodeInit == Init => CodeInv
BY DEF Init, CodeInv, Loops, After

LEMMA CodeNext == ParseInv /\ GraphInv /\ SortHeld /\ CodeInv /\ [Next]_vars => CodeInv'
<1> SUFFICES ASSUME ParseInv, GraphInv, SortHeld, CodeInv, [Next]_vars PROVE CodeInv'
  OBVIOUS
<1>1. CASE Create
  BY <1>1 DEF Create, Fail, CodeInv, Loops, After
<1>2. CASE FindMaxSid \/ ReadBlock \/ BlocksRead \/ ReadLine \/ LinesRead
  BY <1>2 DEF FindMaxSid, ReadBlock, BlocksRead, ReadLine, LinesRead, BeginSort, Fail, Undefined,
         CodeInv, Loops, After
<1>3. CASE Sort
  BY <1>3 DEF Sort, CodeInv, Loops, After
<1>4. CASE Sorted
  <2>1. code = NoCode /\ UNCHANGED <<code, graph, sorted>> /\ cursor' = 1 /\ pc' \in {"idle", "struct"}
        /\ Generating
    BY <1>4 DEF Sorted, Fail, CodeInv, sortVars, Generating
  <2>2. DOMAIN sorted = 1 .. Len(sorted)
    BY <2>1, SortedFacts
  <2>3. pc' = "struct" => Declared' = {}
    BY <2>1, <2>2 DEF Declared
  <2>4. <<>> \in Seq(Range(<<>>)) /\ Range(<<>>) = {} /\ IsInjective(<<>>)
    BY DEF Range, IsInjective
  <2>5. /\ code'.members = <<>> /\ code'.init = <<>> /\ code'.step = <<>>
        /\ code'.outports = <<>> /\ code'.inports = <<>> /\ Program'
    BY <2>1 DEF NoCode, Program
  <2>6. pc' = "struct" => MembersInv' /\ UsesInv'
    BY <2>3, <2>4, <2>5 DEF MembersInv, UsesInv
  <2> QED
    BY <2>1, <2>5, <2>6 DEF CodeInv, Loops, After
<1>5. CASE EndLoop
  <2>1. /\ pc \in DOMAIN After /\ pc' \in Loops \ {"struct"} /\ UNCHANGED <<code, graph, sorted>>
        /\ cursor > Turns /\ Generating
    BY <1>5 DEF EndLoop, After, Loops, sortVars, Generating
  <2>2. Program /\ MembersInv /\ UsesInv
    BY <2>1 DEF CodeInv, Loops
  <2>3. sorted \in Seq(Ids)
    BY <2>1, SortedFacts
  <2>4. pc = "struct" => \A k \in DOMAIN sorted : k < cursor
    BY <2>1, <2>3 DEF Turns, ParseInv
  <2>5. Declared' = Declared
    BY <2>1, <2>4, Still DEF Declared
  <2>6. MembersInv' /\ UsesInv' /\ Program'
    BY <2>1, <2>2, <2>5, ProgramStays
  <2> QED
    BY <2>1, <2>6 DEF CodeInv, Loops, After
<1>6. CASE GenStruct \/ GenInit \/ GenExtPorts
  BY <1>6, StructNext, InitNext, PortsNext
<1>7. CASE GenStep \/ UpdateDelays
  BY <1>7, AssignNext DEF GenStep, UpdateDelays
<1>8. CASE WriteToFile
  BY <1>8 DEF WriteToFile, CodeInv, Loops, After
<1>9. CASE UNCHANGED vars
  <2>1. UNCHANGED <<pc, cursor, code, graph, sorted>>
    BY <1>9 DEF vars, sortVars
  <2>2. Declared' = Declared
    BY <2>1, Still DEF Declared
  <2> QED
    BY <2>1, <2>2, ProgramStays DEF CodeInv
<1> QED
  BY <1>1, <1>2, <1>3, <1>4, <1>5, <1>6, <1>7, <1>8, <1>9 DEF Next, Step

-----------------------------------------------------------------------------
(***************************************************************************)
(* The program is closed.                                                  *)
(***************************************************************************)
\* What the program may refer to.
Declarable == {Name(b) : b \in Ids \ OfType("Outport")}

\* In a diagram as an editor draws it no block reads an Outport.
LEMMA ReadsDeclared ==
    ASSUME GraphInv, Generating, Drawable, NEW b \in Ids, Connected(b), NEW i \in Reads(b)
    PROVE  InputVar(b, i) \in Declarable
<1>1. i \in DOMAIN Block(b).inputs
  BY DEF Connected
<1>2. PICK l \in T!Lines : T!Src(l) = Block(b).inputs[i] /\ T!Src(l) \in Ids
  BY <1>1, InputFacts DEF GraphInv
<1>3. T!Src(l) \notin OfType("Outport")
  BY DEF Drawable
<1> QED
  BY <1>2, <1>3 DEF InputVar, Declarable

\* The variables of an assignment.
LEMMA AssignmentVars ==
    ASSUME NEW b \in Ids, Block(b).type \in {"Sum", "Gain", "UnitDelay"},
           NEW t \in Range(Assignment(b).terms)
    PROVE  \E i \in Reads(b) : t.var = InputVar(b, i)
<1>1. \A sign, i, gain : Term(sign, b, i, gain).var = InputVar(b, i)
  BY DEF Term
<1>2. CASE Block(b).type = "Sum"
  BY <1>1, <1>2 DEF Assignment, Range
<1>3. CASE Block(b).type # "Sum"
  <2>1. 1 \in Reads(b)
    BY <1>3 DEF Reads
  <2>2. \E sign, gain : Assignment(b).terms = <<Term(sign, b, 1, gain)>>
    BY <1>3 DEF Assignment
  <2>3. \A x : Range(<<x>>) = {x}
    BY DEF Range
  <2> QED
    BY <1>1, <2>1, <2>2, <2>3
<1> QED
  BY <1>2, <1>3

\* The program that is written for a diagram as an editor draws it refers to
\* members only, and declares none of them twice (src/filter/code-generator.cpp:105).
THEOREM ProgramCloses == Spec => []CodeIsClosed
<1>1. GraphInv /\ SortHeld /\ CodeInv => CodeIsClosed
  <2> SUFFICES ASSUME GraphInv, SortHeld, CodeInv, pc = "write", Drawable
               PROVE  LET members == Range(code.members)
                          used == Range(code.init) \cup {p.var : p \in Range(code.outports \o code.inports)}
                                  \cup UNION {{a.to} \cup {t.var : t \in Range(a.terms)} : a \in Range(code.step)}
                      IN  /\ used \subseteq members
                          /\ Distinct => IsInjective(code.members)
    BY DEF CodeIsClosed
  <2>1. Generating /\ MembersInv /\ UsesInv
    BY DEF Generating, CodeInv, Loops
  <2>2. Range(sorted) = Ids
    BY DEF Drawable
  <2>3. Range(code.members) = Declarable
    <3>1. Declared = {k \in DOMAIN sorted : sorted[k] \notin OfType("Outport")}
      BY DEF Declared
    <3>2. Ids \ OfType("Outport") = {sorted[k] : k \in Declared}
      BY <2>2, <3>1 DEF Range
    <3>3. Declarable = {Name(sorted[k]) : k \in Declared}
      BY <3>2 DEF Declarable
    <3> QED
      BY <2>1, <3>3 DEF MembersInv
  <2>4. Range(code.init) \subseteq Declarable
    BY <2>1, <2>2 DEF UsesInv, Delayed, Declarable, OfType
  <2>5. ASSUME NEW p \in Range(code.outports \o code.inports)
        PROVE  p.var \in Declarable
    <3>1. p \in Range(code.outports) \/ p \in Range(code.inports)
      <4>1. /\ code.outports \in Seq(Range(code.outports) \cup Range(code.inports))
            /\ code.inports \in Seq(Range(code.outports) \cup Range(code.inports))
        <5>1. /\ Range(code.outports) \subseteq Range(code.outports) \cup Range(code.inports)
              /\ Range(code.inports) \subseteq Range(code.outports) \cup Range(code.inports)
          OBVIOUS
        <5> QED
          BY <2>1, <5>1, SeqDef DEF UsesInv
      <4> QED
        BY <4>1, RangeConcatenation
    <3>2. CASE PutOut(p)
      <4>1. PICK b \in OfType("Outport") : Connected(b) /\ p.var = InputVar(b, 1)
        BY <3>2 DEF PutOut
      <4>2. b \in Ids /\ 1 \in Reads(b)
        BY DEF OfType, Reads, Block
      <4> QED
        BY <2>1, <4>1, <4>2, ReadsDeclared
    <3>3. CASE TakenIn(p)
      BY <3>3 DEF TakenIn, Declarable, OfType
    <3> QED
      BY <2>1, <3>1, <3>2, <3>3 DEF UsesInv
  <2>6. ASSUME NEW a \in Range(code.step)
        PROVE  a.to \in Declarable /\ \A t \in Range(a.terms) : t.var \in Declarable
    <3>1. PICK b \in Ids : /\ Block(b).type \in {"Sum", "Gain", "UnitDelay"}
                           /\ Connected(b) /\ a = Assignment(b)
      BY <2>1, <2>2 DEF UsesInv, Computed
    <3>2. a.to = Name(b) /\ b \notin OfType("Outport")
      BY <3>1 DEF Assignment, OfType, Block
    <3>3. \A t \in Range(a.terms) : t.var \in Declarable
      BY <2>1, <3>1, AssignmentVars, ReadsDeclared
    <3> QED
      BY <3>2, <3>3 DEF Declarable
  <2>7. Distinct => IsInjective(code.members)
    BY <2>1 DEF MembersInv
  <2> QED
    BY <2>3, <2>4, <2>5, <2>6, <2>7
<1>2. Spec => [](ParseInv /\ GraphInv)
  BY ParseInit, ParseNext, PTL DEF Spec
<1>3. Init => SortHeld /\ CodeInv
  BY CodeInit DEF Init, SortHeld, Generating, After
<1> QED
  BY <1>1, <1>2, <1>3, SortHeldNext, CodeNext, PTL DEF Spec

-----------------------------------------------------------------------------
(***************************************************************************)
(* Recursive functions on numbers.                                         *)
(***************************************************************************)
\* What is computed in n rounds exists.
LEMMA Iterates ==
    \A V : \A v \in V : \A n \in Nat : \A F \in [1 .. n -> [V -> V]] :
        \E g \in [0 .. n -> V] : g[0] = v /\ \A k \in 1 .. n : g[k] = F[k][g[k - 1]]
<1> SUFFICES ASSUME NEW V, NEW v \in V, NEW n \in Nat, NEW F \in [1 .. n -> [V -> V]]
             PROVE  \E g \in [0 .. n -> V] : g[0] = v /\ \A k \in 1 .. n : g[k] = F[k][g[k - 1]]
  OBVIOUS
<1> DEFINE Reached(m) == \E g \in [0 .. m -> V] : g[0] = v /\ \A k \in 1 .. m : g[k] = F[k][g[k - 1]]
           Rest == {m \in 0 .. n : ~Reached(m)}
<1>1. Reached(0)
  <2>1. [k \in 0 .. 0 |-> v] \in [0 .. 0 -> V] /\ [k \in 0 .. 0 |-> v][0] = v /\ 1 .. 0 = {}
    OBVIOUS
  <2> QED
    BY <2>1
<1>2. ASSUME NEW m \in 1 .. n, Reached(m - 1) PROVE Reached(m)
  <2>1. PICK g \in [0 .. m - 1 -> V] : g[0] = v /\ \A k \in 1 .. m - 1 : g[k] = F[k][g[k - 1]]
    BY <1>2
  <2> DEFINE h == [k \in 0 .. m |-> IF k = m THEN F[m][g[m - 1]] ELSE g[k]]
  <2>2. F[m] \in [V -> V] /\ g[m - 1] \in V
    OBVIOUS
  <2>3. h \in [0 .. m -> V]
    BY <2>2
  <2>4. h[0] = v
    BY <2>1
  <2>5. ASSUME NEW k \in 1 .. m PROVE h[k] = F[k][h[k - 1]]
    <3>1. CASE k = m
      BY <3>1
    <3>2. CASE k \in 1 .. m - 1
      BY <3>2, <2>1
    <3> QED
      BY <3>1, <3>2
  <2> HIDE DEF h
  <2> QED
    BY <2>3, <2>4, <2>5
<1>3. ASSUME Rest # {} PROVE FALSE
  <2> HIDE DEF Reached
  <2>0. Rest \in SUBSET Nat
    OBVIOUS
  <2>1. PICK m \in Rest : \A k \in Rest : m <= k
    <3> HIDE DEF Rest
    <3> QED
      BY <1>3, <2>0, Least
  <2>2. m \in 1 .. n
    BY <1>1, <2>1
  <2>3. m - 1 \notin Rest /\ m - 1 \in 0 .. n
    BY <2>1, <2>2
  <2> QED
    BY <1>2, <2>1, <2>2, <2>3
<1>4. Reached(n)
  <2> HIDE DEF Reached
  <2> QED
    BY <1>3
<1> QED
  BY <1>4

\* Statements that lead from an environment in V to one in V.
Within(V, s) == s \in Seq(Range(s)) /\ \A a \in Range(s) : \A x \in V : Execute(x, a) \in V

\* The rounds of a run: they exist and stay among the environments V.
LEMMA RunFacts ==
    \A V : \A e \in V : \A s : Within(V, s) =>
        \E g \in [0 .. Len(s) -> V] :
            /\ g[0] = e /\ \A k \in 1 .. Len(s) : g[k] = Execute(g[k - 1], s[k])
            /\ Run(e, s) = g[Len(s)]
<1> SUFFICES
    ASSUME NEW V, NEW e \in V, NEW s, s \in Seq(Range(s)),
           \A a \in Range(s) : \A x \in V : Execute(x, a) \in V
    PROVE  \E g \in [0 .. Len(s) -> V] :
                /\ g[0] = e /\ \A k \in 1 .. Len(s) : g[k] = Execute(g[k - 1], s[k])
                /\ Run(e, s) = g[Len(s)]
  BY DEF Within
<1> DEFINE n == Len(s)
           F == [k \in 1 .. n |-> [x \in V |-> Execute(x, s[k])]]
           Body(h) == [k \in 0 .. n |-> IF k = 0 THEN e ELSE Execute(h[k - 1], s[k])]
           after == CHOOSE h : h = Body(h)
           Rest == {k \in 0 .. n : after[k] \notin V}
<1>1. n \in Nat /\ \A k \in 1 .. n : s[k] \in Range(s)
  BY DEF Range
<1>2. F \in [1 .. n -> [V -> V]]
  BY <1>1
<1>3. \E g : g = Body(g)
  <2>1. PICK g \in [0 .. n -> V] : g[0] = e /\ \A k \in 1 .. n : g[k] = F[k][g[k - 1]]
    <3>1. n \in Nat
      BY <1>1
    <3> HIDE DEF F, n
    <3> QED
      BY <3>1, <1>2, Iterates
  <2>2. ASSUME NEW k \in 1 .. n PROVE g[k - 1] \in V /\ g[k] = Execute(g[k - 1], s[k])
    <3>1. k - 1 \in 0 .. n /\ g[k] = F[k][g[k - 1]]
      BY <1>1, <2>1
    <3>2. g[k - 1] \in V
      BY <3>1
    <3>3. F[k][g[k - 1]] = Execute(g[k - 1], s[k])
      BY <3>2
    <3> QED
      BY <3>1, <3>2, <3>3
  <2>3. \A k \in 0 .. n : g[k] = IF k = 0 THEN e ELSE Execute(g[k - 1], s[k])
    BY <1>1, <2>1, <2>2
  <2>4. g = Body(g)
    BY <2>3
  <2> QED
    BY <2>4
<1>4. after = Body(after)
  <2> HIDE DEF Body
  <2> QED
    BY <1>3
<1>5. Run(e, s) = after[n]
  BY DEF Run
<1> HIDE DEF after
<1>6. DOMAIN after = 0 .. n /\ after[0] = e /\ \A k \in 1 .. n : after[k] = Execute(after[k - 1], s[k])
  BY <1>1, <1>4
<1>7. ASSUME Rest # {} PROVE FALSE
  <2>0. Rest \in SUBSET Nat
    OBVIOUS
  <2>1. PICK k \in Rest : \A j \in Rest : k <= j
    <3> HIDE DEF Rest
    <3> QED
      BY <1>7, <2>0, Least
  <2>2. k \in 1 .. n
    BY <1>6, <2>1
  <2>3. after[k - 1] \in V
    BY <2>1, <2>2
  <2>4. after[k] \in V
    BY <1>1, <1>6, <2>2, <2>3
  <2> QED
    BY <2>1, <2>4
<1>8. after \in [0 .. n -> V]
  <2>1. after = [k \in 0 .. n |-> after[k]]
    BY <1>4, <1>6
  <2> QED
    BY <1>7, <2>1
<1> QED
  BY <1>5, <1>6, <1>8

LEMMA RunEmpty ==
    ASSUME NEW e
    PROVE  Run(e, <<>>) = e
<1>1. Within({e}, <<>>) /\ Len(<<>>) = 0
  BY DEF Within, Range
<1>2. \E g \in [0 .. Len(<<>>) -> {e}] :
        /\ g[0] = e /\ \A k \in 1 .. Len(<<>>) : g[k] = Execute(g[k - 1], <<>>[k])
        /\ Run(e, <<>>) = g[Len(<<>>)]
  BY <1>1, RunFacts
<1> QED
  BY <1>1, <1>2

\* One assignment more.
LEMMA RunAppend ==
    ASSUME NEW V, NEW e \in V, NEW s, Within(V, s), NEW a, \A x \in V : Execute(x, a) \in V
    PROVE  /\ Run(e, s) \in V
           /\ Run(e, Append(s, a)) = Execute(Run(e, s), a)
           /\ Within(V, Append(s, a))
<1> DEFINE t == Append(s, a)
           n == Len(s)
<1>0. s \in Seq(Range(s))
  BY DEF Within
<1>1. Within(V, t)
  <2>1. t \in Seq(Range(t)) /\ Range(t) = Range(s) \cup {a}
    BY <1>0, Extended
  <2> HIDE DEF t
  <2> QED
    BY <2>1 DEF Within
<1>2. n \in Nat /\ Len(t) = n + 1 /\ t[n + 1] = a /\ \A k \in 1 .. n : t[k] = s[k]
  BY <1>0
<1>3. PICK g \in [0 .. n -> V] :
        /\ g[0] = e /\ \A k \in 1 .. n : g[k] = Execute(g[k - 1], s[k])
        /\ Run(e, s) = g[n]
  BY RunFacts
<1> HIDE DEF t
<1>4. PICK h \in [0 .. n + 1 -> V] :
        /\ h[0] = e /\ \A k \in 1 .. n + 1 : h[k] = Execute(h[k - 1], t[k])
        /\ Run(e, t) = h[n + 1]
  <2>1. \E h \in [0 .. Len(t) -> V] :
            /\ h[0] = e /\ \A k \in 1 .. Len(t) : h[k] = Execute(h[k - 1], t[k])
            /\ Run(e, t) = h[Len(t)]
    BY <1>1, RunFacts
  <2> QED
    BY <1>2, <2>1
<1> DEFINE Rest == {k \in 0 .. n : g[k] # h[k]}
<1>5. ASSUME Rest # {} PROVE FALSE
  <2>0. Rest \in SUBSET Nat
    OBVIOUS
  <2>1. PICK k \in Rest : \A j \in Rest : k <= j
    <3> HIDE DEF Rest
    <3> QED
      BY <1>5, <2>0, Least
  <2>2. k \in 1 .. n
    BY <1>3, <1>4, <2>1
  <2>3. g[k - 1] = h[k - 1]
    BY <2>1, <2>2
  <2>4. g[k] = h[k]
    BY <1>2, <1>3, <1>4, <2>2, <2>3
  <2> QED
    BY <2>1, <2>4
<1>6. g[n] = h[n]
  BY <1>2, <1>5
<1>7. Run(e, t) = Execute(Run(e, s), a)
  BY <1>2, <1>3, <1>4, <1>6
<1>8. Run(e, s) \in V
  BY <1>2, <1>3
<1> QED
  BY <1>1, <1>7, <1>8 DEF t

-----------------------------------------------------------------------------
(***************************************************************************)
(* Sums.                                                                   *)
(***************************************************************************)
\* The rounds of SumFunction: one element of s is added at a time.
Pick(s) == CHOOSE x \in s : TRUE
Others(s) == s \ {Pick(s)}

SumBody(f, h) ==
    [s \in SUBSET DOMAIN f |-> IF s = {} THEN 0 ELSE f[Pick(s)] + h[Others(s)]]

LEMMA Smaller ==
    ASSUME NEW S, IsFiniteSet(S), NEW s \in SUBSET S, s # {}
    PROVE  /\ Pick(s) \in S /\ Others(s) \in SUBSET S /\ Others(s) \subseteq s /\ Others(s) # s
           /\ Cardinality(s) \in Nat /\ Cardinality(s) <= Cardinality(S)
           /\ Cardinality(Others(s)) \in Nat /\ Cardinality(Others(s)) = Cardinality(s) - 1
<1>1. IsFiniteSet(s) /\ IsFiniteSet(s \ {Pick(s)}) /\ Pick(s) \in s
      /\ Cardinality(s) <= Cardinality(S)
  BY FS_Subset DEF Pick
<1> QED
  BY <1>1, FS_RemoveElement, FS_CardinalityType DEF Others

LEMMA SumBodyFacts ==
    ASSUME NEW S, IsFiniteSet(S), NEW f \in [S -> Int], NEW h \in [SUBSET S -> Int]
    PROVE  /\ SumBody(f, h) \in [SUBSET S -> Int]
           /\ SumBody(f, h)[{}] = 0
           /\ \A s \in SUBSET S : s # {} => SumBody(f, h)[s] = f[Pick(s)] + h[Others(s)]
<1>1. DOMAIN f = S
  OBVIOUS
<1>2. \A s \in SUBSET S : s # {} => f[Pick(s)] + h[Others(s)] \in Int
  BY Smaller
<1> QED
  BY <1>1, <1>2 DEF SumBody

\* On sets of at most k elements the rounds after the k-th make no difference.
LEMMA SumExists ==
    ASSUME NEW S, IsFiniteSet(S), NEW f \in [S -> Int]
    PROVE  \E h \in [SUBSET S -> Int] : h = SumBody(f, h)
<1> DEFINE n == Cardinality(S)
           V == [SUBSET S -> Int]
           F == [k \in 1 .. n |-> [h \in V |-> SumBody(f, h)]]
           first == [s \in SUBSET S |-> 0]
<1>1. n \in Nat
  BY FS_CardinalityType
<1>2. ASSUME NEW h \in V
      PROVE  /\ SumBody(f, h) \in V /\ SumBody(f, h)[{}] = 0
             /\ \A s \in SUBSET S : s # {} => SumBody(f, h)[s] = f[Pick(s)] + h[Others(s)]
  <2>1. SumBody(f, h) \in V
    BY SumBodyFacts
  <2>2. SumBody(f, h)[{}] = 0
    BY SumBodyFacts
  <2>3. \A s \in SUBSET S : s # {} => SumBody(f, h)[s] = f[Pick(s)] + h[Others(s)]
    BY DEF SumBody
  <2> QED
    BY <2>1, <2>2, <2>3
<1>3. F \in [1 .. n -> [V -> V]]
  BY <1>2
<1>4. first \in V /\ \A s \in SUBSET S : first[s] = 0
  OBVIOUS
<1>5. \A h, k \in V : (\A s \in SUBSET S : h[s] = k[s]) => h = k
  OBVIOUS
<1> HIDE DEF V, n, first
<1>6. PICK g \in [0 .. n -> V] : g[0] = first /\ \A k \in 1 .. n : g[k] = F[k][g[k - 1]]
  <2> HIDE DEF F
  <2> QED
    BY <1>1, <1>3, <1>4, Iterates
<1>7. ASSUME NEW k \in 1 .. n PROVE g[k] = SumBody(f, g[k - 1]) /\ g[k - 1] \in V
  <2>1. k - 1 \in 0 .. n /\ g[k] = F[k][g[k - 1]]
    BY <1>1, <1>6
  <2>2. g[k - 1] \in V
    BY <2>1
  <2> QED
    BY <2>1, <2>2
<1>8. \A k \in 0 .. n : g[k] \in V /\ g[k][{}] = 0
  BY <1>1, <1>2, <1>4, <1>6, <1>7
<1> HIDE DEF F
<1> DEFINE Same(k) == \A s \in SUBSET S : Cardinality(s) <= k => SumBody(f, g[k])[s] = g[k][s]
           Rest == {k \in 0 .. n : ~Same(k)}
<1>9. ASSUME NEW k \in 0 .. n, k = 0 \/ Same(k - 1), NEW s \in SUBSET S, Cardinality(s) <= k
      PROVE  SumBody(f, g[k])[s] = g[k][s]
  <2>1. CASE s = {}
    BY <1>2, <1>8, <2>1
  <2>2. CASE s # {}
    <3>1. /\ Others(s) \in SUBSET S /\ Cardinality(s) \in Nat
          /\ Cardinality(Others(s)) = Cardinality(s) - 1 /\ Cardinality(Others(s)) \in Nat
      BY <2>2, Smaller
    <3>2. k \in 1 .. n /\ Cardinality(Others(s)) <= k - 1 /\ Same(k - 1)
      BY <1>1, <1>9, <3>1
    <3>3. SumBody(f, g[k])[s] = f[Pick(s)] + g[k][Others(s)]
      BY <1>2, <1>8, <2>2
    <3>4. g[k][s] = f[Pick(s)] + g[k - 1][Others(s)]
      BY <1>2, <1>7, <2>2, <3>2
    <3>5. g[k][Others(s)] = g[k - 1][Others(s)]
      BY <1>7, <3>1, <3>2
    <3> QED
      BY <3>3, <3>4, <3>5
  <2> QED
    BY <2>1, <2>2
<1>10. ASSUME Rest # {} PROVE FALSE
  <2> HIDE DEF Same
  <2>1. Rest \in SUBSET Nat
    OBVIOUS
  <2>2. PICK k \in Rest : \A j \in Rest : k <= j
    <3> HIDE DEF Rest
    <3> QED
      BY <1>10, <2>1, Least
  <2>3. k \in 0 .. n /\ (k = 0 \/ Same(k - 1))
    BY <1>1, <2>2
  <2> QED
    BY <1>9, <2>2, <2>3 DEF Same
<1>11. n \in 0 .. n /\ Same(n)
  <2>1. n \in 0 .. n
    BY <1>1
  <2> HIDE DEF Same
  <2> QED
    BY <1>10, <2>1
<1>12. \A s \in SUBSET S : SumBody(f, g[n])[s] = g[n][s]
  <2>1. \A s \in SUBSET S : Cardinality(s) <= n
    BY FS_Subset DEF n
  <2> QED
    BY <1>11, <2>1
<1>13. g[n] = SumBody(f, g[n])
  BY <1>2, <1>5, <1>8, <1>11, <1>12
<1> QED
  BY <1>8, <1>11, <1>13 DEF V

LEMMA SumFacts ==
    ASSUME NEW S, IsFiniteSet(S), NEW f \in [S -> Int]
    PROVE  /\ SumFunction(f) \in Int
           /\ S = {1} => SumFunction(f) = f[1]
<1> DEFINE iter == CHOOSE h : h = SumBody(f, h)
           Rest == {s \in SUBSET S : iter[s] \notin Int}
<1>1. DOMAIN f = S
  OBVIOUS
<1>2. SumFunction(f) = iter[S]
  BY <1>1 DEF SumFunction, SumFunctionOnSet, FoldFunctionOnSet, MapThenFoldSet, SumBody, Pick, Others
<1>3. iter = SumBody(f, iter)
  BY SumExists
<1> HIDE DEF iter
<1>4. /\ DOMAIN iter = SUBSET S /\ iter[{}] = 0
      /\ \A s \in SUBSET S : s # {} =>
            iter[s] = f[Pick(s)] + iter[Others(s)]
  BY <1>1, <1>3 DEF SumBody
<1>5. ASSUME Rest # {} PROVE FALSE
  <2>1. \A s \in Rest : IsFiniteSet(s)
    BY FS_Subset
  <2>2. PICK s \in Rest : \A r \in Rest : r \subseteq s => r = s
    <3> HIDE DEF Rest
    <3> QED
      BY <1>5, <2>1, Smallest
  <2>3. s \in SUBSET S /\ iter[s] \notin Int
    BY <2>2
  <2>4. s # {}
    <3>1. 0 \in Int
      OBVIOUS
    <3> QED
      BY <1>4, <2>3, <3>1
  <2>5. Pick(s) \in S /\ Others(s) \in SUBSET S /\ Others(s) \subseteq s /\ Others(s) # s
    BY <2>3, <2>4, Smaller
  <2>6. iter[Others(s)] \in Int
    BY <2>2, <2>5
  <2>7. iter[s] \in Int
    BY <1>4, <2>3, <2>4, <2>5, <2>6
  <2> QED
    BY <2>3, <2>7
<1>6. iter[S] \in Int
  BY <1>5
<1>7. ASSUME S = {1} PROVE iter[S] = f[1]
  <2>1. Pick(S) = 1 /\ Others(S) = {} /\ S # {}
    BY <1>7 DEF Pick, Others
  <2>2. iter[S] = f[1] + iter[{}]
    BY <1>4, <2>1
  <2>3. f[1] \in Int
    BY <1>7
  <2> QED
    BY <1>4, <2>2, <2>3
<1> QED
  BY <1>2, <1>6, <1>7

-----------------------------------------------------------------------------
(***************************************************************************)
(* What a diagram means: the rounds reach values that fit together.        *)
(***************************************************************************)
Computing(b) == Block(b).type \in {"Sum", "Gain"}

AllConnected == \A b \in Ids : Computing(b) => Connected(b)

Forms == [Members -> Int]
Values == [Ids -> Forms]

\* A diagram that was sorted and whose blocks all have their inputs.
Sound == GraphInv /\ SortHeld /\ Generating /\ Meaningful /\ AllConnected

LEMMA SumReads ==
    ASSUME Meaningful, NEW b \in Ids, Block(b).type = "Sum"
    PROVE  /\ Reads(b) = 1 .. Len(Signs(b)) /\ Len(Signs(b)) \in Nat
           /\ \A i \in Reads(b) : Signs(b)[i] \in {"+", "-"}
           /\ Signs(b)[1] = "+"
<1>1. Signs(b) \in Seq({"+", "-"}) /\ Signs(b) # <<>> /\ Signs(b)[1] = "+"
  BY DEF Meaningful, OfType, Block
<1> DEFINE n == Len(Signs(b))
<1>2. n \in Nat /\ n >= 1 /\ \A i \in 1 .. n : Signs(b)[i] \in {"+", "-"}
  BY <1>1
<1> HIDE DEF n
<1>3. n \in {1, n} /\ \A m \in {1, n} : n >= m
  BY <1>2
<1>4. Max({1, n}) = n
  <2>1. \A m \in {1, n} : (\A k \in {1, n} : m >= k) => m = n
    BY <1>2
  <2> QED
    BY <1>3, <2>1 DEF Max
<1>5. Reads(b) = 1 .. n
  BY <1>4 DEF Reads, n
<1> QED
  BY <1>1, <1>2, <1>5 DEF n

LEMMA ReadsFacts ==
    ASSUME Meaningful, NEW b \in Ids, Computing(b)
    PROVE  IsFiniteSet(Reads(b)) /\ \A i \in Reads(b) : Weigh(b, i) \in Int
<1>1. CASE Block(b).type = "Sum"
  <2>1. \A i : Weigh(b, i) = IF Signs(b)[i] = "-" THEN -1 ELSE 1
    BY <1>1 DEF Weigh
  <2> QED
    BY <1>1, <2>1, SumReads, FS_Interval
<1>2. CASE Block(b).type = "Gain"
  <2>1. \A i : Weigh(b, i) = Param(b, "Gain", 1)
    BY <1>2 DEF Weigh
  <2>2. b \in OfType("Gain") /\ Reads(b) = {1}
    BY <1>2 DEF OfType, Block, Reads
  <2> QED
    BY <2>1, <2>2, FS_Singleton DEF Meaningful
<1> QED
  BY <1>1, <1>2 DEF Computing

LEMMA UnitType ==
    ASSUME NEW b \in Ids
    PROVE  Unit(Name(b)) \in Forms /\ Name(b) \in Members
BY DEF Unit, Forms, Members

\* What Compute makes of values.
LEMMA ComputeFacts ==
    ASSUME Meaningful, AllConnected, NEW outs \in Values
    PROVE  /\ Compute(outs) \in Values
           /\ \A b \in Ids : ~Computing(b) => Compute(outs)[b] = Unit(Name(b))
<1>1. ASSUME NEW b \in Ids, Computing(b), NEW m \in Members
      PROVE  SumFunction([i \in Reads(b) |-> Weigh(b, i) * outs[Block(b).inputs[i]][m]]) \in Int
  <2> DEFINE f == [i \in Reads(b) |-> Weigh(b, i) * outs[Block(b).inputs[i]][m]]
  <2>1. ASSUME NEW i \in Reads(b) PROVE Weigh(b, i) * outs[Block(b).inputs[i]][m] \in Int
    <3>1. Block(b).inputs[i] \in Ids
      BY <1>1 DEF AllConnected, Connected
    <3>2. outs[Block(b).inputs[i]] \in Forms
      BY <3>1 DEF Values
    <3>3. outs[Block(b).inputs[i]][m] \in Int
      BY <3>2 DEF Forms
    <3>4. Weigh(b, i) \in Int
      BY <1>1, ReadsFacts
    <3> QED
      BY <3>3, <3>4
  <2>2. f \in [Reads(b) -> Int]
    BY <2>1
  <2> HIDE DEF f
  <2>3. SumFunction(f) \in Int
    BY <1>1, <2>2, ReadsFacts, SumFacts
  <2> QED
    BY <2>3 DEF f
<1>2. ASSUME NEW b \in Ids
      PROVE  Compute(outs)[b] \in Forms /\ (~Computing(b) => Compute(outs)[b] = Unit(Name(b)))
  <2>1. CASE ~Computing(b)
    BY <2>1, UnitType DEF Compute, Computing
  <2>2. CASE Computing(b)
    <3>1. Compute(outs)[b] =
            [m \in Members |-> SumFunction([i \in Reads(b) |-> Weigh(b, i) * outs[Block(b).inputs[i]][m]])]
      BY <2>2 DEF Compute, Computing
    <3> QED
      BY <1>1, <2>2, <3>1 DEF Forms
  <2> QED
    BY <2>1, <2>2
<1>3. Compute(outs) = [b \in Ids |-> Compute(outs)[b]]
  BY DEF Compute
<1>4. Compute(outs) \in Values
  BY <1>2, <1>3 DEF Values
<1> QED
  BY <1>2, <1>4

-----------------------------------------------------------------------------
(***************************************************************************)
(* What a diagram means: after as many rounds as there are blocks another  *)
(* one changes nothing.                                                    *)
(***************************************************************************)
LEMMA IdsFinite ==
    ASSUME GraphInv, Generating
    PROVE  IsFiniteSet(Ids) /\ Cardinality(Ids) \in Nat /\ Ids \subseteq Nat
<1>1. graph.size \in Nat /\ Ids \subseteq 0 .. graph.size - 1
  BY DEF GraphInv, Generating, Linked, Ids
<1>2. IsFiniteSet(0 .. graph.size - 1)
  BY <1>1, FS_Interval
<1>3. IsFiniteSet(Ids)
  BY <1>1, <1>2, FS_Subset
<1> QED
  BY <1>1, <1>3, FS_CardinalityType

LEMMA RoundsFacts ==
    ASSUME Sound
    PROVE  /\ Rounds \in [0 .. Cardinality(Ids) -> Values]
           /\ \A k \in 1 .. Cardinality(Ids) : Rounds[k] = Compute(Rounds[k - 1])
           /\ \A k \in 0 .. Cardinality(Ids), b \in Ids : ~Computing(b) => Rounds[k][b] = Unit(Name(b))
<1> DEFINE n == Cardinality(Ids)
           first == [b \in Ids |-> Unit(Name(b))]
           F == [k \in 1 .. n |-> [x \in Values |-> Compute(x)]]
           Body(h) == [k \in 0 .. n |-> IF k = 0 THEN first ELSE Compute(h[k - 1])]
           Rest == {k \in 0 .. n : Rounds[k] \notin Values}
<1>1. n \in Nat
  BY IdsFinite DEF Sound
<1>2. first \in Values /\ \A b \in Ids : first[b] = Unit(Name(b))
  BY UnitType DEF Values
<1>3. \A x \in Values : Compute(x) \in Values
  BY ComputeFacts DEF Sound
<1>4. F \in [1 .. n -> [Values -> Values]]
  BY <1>3
<1>5. \E g : g = Body(g)
  <2>1. PICK g \in [0 .. n -> Values] : g[0] = first /\ \A k \in 1 .. n : g[k] = F[k][g[k - 1]]
    <3> HIDE DEF F, n, first
    <3> QED
      BY <1>1, <1>2, <1>4, Iterates
  <2>2. ASSUME NEW k \in 1 .. n PROVE g[k] = Compute(g[k - 1])
    <3>1. k - 1 \in 0 .. n /\ g[k] = F[k][g[k - 1]]
      BY <1>1, <2>1
    <3>2. g[k - 1] \in Values
      BY <3>1
    <3> QED
      BY <3>1, <3>2
  <2> HIDE DEF first
  <2>3. \A k \in 0 .. n : g[k] = IF k = 0 THEN first ELSE Compute(g[k - 1])
    BY <1>1, <2>1, <2>2
  <2>4. g = Body(g)
    BY <2>3
  <2> QED
    BY <2>4
<1>6. Rounds = CHOOSE g : g = Body(g)
  BY DEF Rounds
<1>7. Rounds = Body(Rounds)
  <2> HIDE DEF Body
  <2> QED
    BY <1>5, <1>6
<1> HIDE DEF first
<1>8. DOMAIN Rounds = 0 .. n /\ Rounds[0] = first /\ \A k \in 1 .. n : Rounds[k] = Compute(Rounds[k - 1])
  BY <1>1, <1>7
<1>9. ASSUME Rest # {} PROVE FALSE
  <2>0. Rest \in SUBSET Nat
    OBVIOUS
  <2>1. PICK k \in Rest : \A j \in Rest : k <= j
    <3> HIDE DEF Rest
    <3> QED
      BY <1>9, <2>0, Least
  <2>2. k \in 1 .. n /\ k - 1 \in 0 .. n
    BY <1>1, <1>2, <1>8, <2>1
  <2>3. Rounds[k - 1] \in Values
    BY <2>1, <2>2
  <2>4. Rounds[k] \in Values
    BY <1>3, <1>8, <2>2, <2>3
  <2> QED
    BY <2>1, <2>4
<1>10. Rounds \in [0 .. n -> Values]
  <2>1. Rounds = [k \in 0 .. n |-> Rounds[k]]
    BY <1>7, <1>8
  <2> QED
    BY <1>9, <2>1
<1>11. ASSUME NEW k \in 0 .. n, NEW b \in Ids, ~Computing(b) PROVE Rounds[k][b] = Unit(Name(b))
  <2>1. CASE k = 0
    BY <1>2, <1>8, <2>1
  <2>2. CASE k \in 1 .. n
    <3>1. Rounds[k] = Compute(Rounds[k - 1]) /\ k - 1 \in 0 .. n
      BY <1>1, <1>8, <2>2
    <3>2. Rounds[k - 1] \in Values
      BY <1>10, <3>1
    <3> QED
      BY <1>11, <3>1, <3>2, ComputeFacts DEF Sound
  <2> QED
    BY <2>1, <2>2
<1> QED
  BY <1>8, <1>10, <1>11

\* A Sum or a Gain comes after the blocks it reads.
LEMMA SourceBefore ==
    ASSUME GraphInv, SortHeld, Generating, Drawable, NEW i \in 1 .. Len(sorted),
           Computing(sorted[i]), Connected(sorted[i]), NEW p \in Reads(sorted[i])
    PROVE  \E j \in 1 .. i - 1 : sorted[j] = Block(sorted[i]).inputs[p]
<1>1. sorted \in Seq(Ids) /\ sorted[i] \in Ids \ OfType("UnitDelay")
  BY SortedFacts DEF Computing, OfType, Block
<1>2. p \in DOMAIN Block(sorted[i]).inputs
  BY <1>1 DEF Connected
<1>3. PICK l \in T!Lines : T!Dst(l) = sorted[i] /\ T!Src(l) = Block(sorted[i]).inputs[p]
  BY <1>1, <1>2, InputFacts DEF GraphInv, Generating
<1>4. T!OneDriver
  BY DEF Drawable
<1>5. i \in DOMAIN sorted
  BY <1>1
<1> QED
  BY <1>1, <1>3, <1>4, <1>5, SortedFacts

\* Compute looks only at what a block reads.
LEMMA ComputeLooks ==
    ASSUME NEW b \in Ids, NEW x, NEW y,
           Computing(b) => \A p \in Reads(b) : x[Block(b).inputs[p]] = y[Block(b).inputs[p]]
    PROVE  Compute(x)[b] = Compute(y)[b]
<1>1. CASE ~Computing(b)
  BY <1>1 DEF Compute, Computing
<1>2. CASE Computing(b)
  <2>1. \A m \in Members :
            [p \in Reads(b) |-> Weigh(b, p) * x[Block(b).inputs[p]][m]]
                = [p \in Reads(b) |-> Weigh(b, p) * y[Block(b).inputs[p]][m]]
    BY <1>2
  <2>2. Compute(x)[b] = [m \in Members |-> SumFunction([p \in Reads(b) |-> Weigh(b, p) * x[Block(b).inputs[p]][m]])]
    BY <1>2 DEF Compute, Computing
  <2>3. Compute(y)[b] = [m \in Members |-> SumFunction([p \in Reads(b) |-> Weigh(b, p) * y[Block(b).inputs[p]][m]])]
    BY <1>2 DEF Compute, Computing
  <2> QED
    BY <2>1, <2>2, <2>3
<1> QED
  BY <1>1, <1>2

\* Each round settles the next block of the order.
LEMMA OutputsFix ==
    ASSUME Sound
    PROVE  Outputs \in Values /\ Compute(Outputs) = Outputs
<1> DEFINE n == Cardinality(Ids)
           Settled(k) == \A i \in 1 .. Len(sorted) :
                            i <= k => Compute(Rounds[k])[sorted[i]] = Rounds[k][sorted[i]]
           Rest == {k \in 0 .. n : ~Settled(k)}
<1>1. n \in Nat /\ sorted \in Seq(Ids) /\ Len(sorted) \in Nat
  BY IdsFinite, SortedFacts DEF Sound
<1>2. ASSUME NEW k \in 1 .. n, Settled(k - 1) PROVE Settled(k)
  <2> SUFFICES ASSUME NEW i \in 1 .. Len(sorted), i <= k
               PROVE  Compute(Rounds[k])[sorted[i]] = Rounds[k][sorted[i]]
    OBVIOUS
  <2>1. k - 1 \in 0 .. n /\ sorted[i] \in Ids
    BY <1>1
  <2>2. Rounds[k] = Compute(Rounds[k - 1])
    BY RoundsFacts
  <2>3. ASSUME Computing(sorted[i]), NEW p \in Reads(sorted[i])
        PROVE  Rounds[k][Block(sorted[i]).inputs[p]] = Rounds[k - 1][Block(sorted[i]).inputs[p]]
    <3>1. PICK j \in 1 .. i - 1 : sorted[j] = Block(sorted[i]).inputs[p]
      BY <2>1, <2>3, SourceBefore DEF Sound, Meaningful, AllConnected
    <3>2. j \in 1 .. Len(sorted) /\ j <= k - 1
      BY <1>1
    <3> QED
      BY <1>2, <2>2, <3>1, <3>2
  <2>4. Compute(Rounds[k])[sorted[i]] = Compute(Rounds[k - 1])[sorted[i]]
    BY <2>1, <2>3, ComputeLooks
  <2> QED
    BY <2>2, <2>4
<1>3. Settled(0)
  BY <1>1
<1>4. ASSUME Rest # {} PROVE FALSE
  <2> HIDE DEF Settled
  <2>0. Rest \in SUBSET Nat
    OBVIOUS
  <2>1. PICK k \in Rest : \A j \in Rest : k <= j
    <3> HIDE DEF Rest
    <3> QED
      BY <1>4, <2>0, Least
  <2>2. k \in 1 .. n /\ k - 1 \in 0 .. n /\ k - 1 \notin Rest
    BY <1>1, <1>3, <2>1
  <2> QED
    BY <1>2, <2>1, <2>2
<1>5. Settled(n)
  <2>1. n \in 0 .. n
    BY <1>1
  <2> HIDE DEF Settled
  <2> QED
    BY <1>4, <2>1
<1>6. Len(sorted) <= n
  <2>1. sorted \in Injection(1 .. Len(sorted), Ids)
    <3>1. sorted \in [1 .. Len(sorted) -> Ids]
      BY <1>1
    <3>2. \A i, j \in 1 .. Len(sorted) : sorted[i] = sorted[j] => i = j
      BY <3>1, SortedFacts DEF Sound
    <3> QED
      BY <3>1, <3>2 DEF Injection, IsInjective
  <2>2. Cardinality(1 .. Len(sorted)) <= n
    BY <2>1, IdsFinite, FS_Injection DEF Sound
  <2> QED
    BY <1>1, <2>2, FS_Interval
<1>7. \A b \in Ids : \E i \in 1 .. Len(sorted) : sorted[i] = b
  BY <1>1 DEF Sound, Meaningful, Drawable, Range
<1>8. \A b \in Ids : Compute(Outputs)[b] = Outputs[b]
  <2>1. \A i \in 1 .. Len(sorted) : i <= n
    BY <1>1, <1>6
  <2> QED
    BY <1>5, <1>7, <2>1 DEF Outputs
<1>9. Outputs \in Values
  BY <1>1, RoundsFacts DEF Outputs
<1>10. Compute(Outputs) \in Values
  BY <1>9, ComputeFacts DEF Sound
<1> QED
  BY <1>8, <1>9, <1>10 DEF Values

-----------------------------------------------------------------------------
(***************************************************************************)
(* What an assignment does to the members.                                 *)
(***************************************************************************)
Envs == [Members -> Forms]

Assignable == {b \in Ids : Block(b).type \in {"Sum", "Gain", "UnitDelay"}}

\* How much of its port i a block adds.
Share(b, i) == IF Computing(b) THEN Weigh(b, i) ELSE 1

LEMMA AssignmentTerms ==
    ASSUME Meaningful, NEW b \in Assignable
    PROVE  /\ Assignment(b).to = Name(b)
           /\ DOMAIN Assignment(b).terms = Reads(b)
           /\ \A i \in Reads(b) : /\ Assignment(b).terms[i].var = InputVar(b, i)
                                  /\ Weight(Assignment(b).terms[i]) = Share(b, i)
<1>1. \A sign, i, gain : /\ Term(sign, b, i, gain).var = InputVar(b, i)
                         /\ Weight(Term(sign, b, i, gain)) = IF sign = "-" THEN -gain ELSE gain
  BY DEF Term, Weight
<1>2. Assignment(b).to = Name(b)
  BY DEF Assignment
<1>3. CASE Block(b).type = "Sum"
  <2>1. Assignment(b).terms = [i \in Reads(b) |-> Term(IF i = 1 THEN "+" ELSE Signs(b)[i], b, i, 1)]
    BY <1>3 DEF Assignment
  <2>2. \A i \in Reads(b) : Share(b, i) = IF Signs(b)[i] = "-" THEN -1 ELSE 1
    BY <1>3 DEF Share, Weigh, Computing
  <2>3. b \in Ids /\ Signs(b)[1] = "+"
    BY <1>3, SumReads DEF Assignable
  <2> QED
    BY <1>1, <1>2, <2>1, <2>2, <2>3
<1>4. CASE Block(b).type = "Gain"
  <2>1. Assignment(b).terms = <<Term("+", b, 1, Param(b, "Gain", 1))>> /\ Reads(b) = {1}
    BY <1>4 DEF Assignment, Reads
  <2>2. Share(b, 1) = Param(b, "Gain", 1)
    BY <1>4 DEF Share, Weigh, Computing
  <2> QED
    BY <1>1, <1>2, <2>1, <2>2
<1>5. CASE Block(b).type = "UnitDelay"
  <2>1. Assignment(b).terms = <<Term("+", b, 1, 1)>> /\ Reads(b) = {1}
    BY <1>5 DEF Assignment, Reads
  <2>2. Share(b, 1) = 1
    BY <1>5 DEF Share, Computing
  <2> QED
    BY <1>1, <1>2, <2>1, <2>2
<1> QED
  BY <1>3, <1>4, <1>5 DEF Assignable

\* The form an assignment gives to its block.
Given(e, b) == [m \in Members |-> SumFunction([i \in Reads(b) |-> Share(b, i) * e[InputVar(b, i)][m]])]

LEMMA ExecuteFacts ==
    ASSUME Meaningful, NEW b \in Assignable, Connected(b), NEW e \in Envs
    PROVE  /\ Execute(e, Assignment(b)) \in Envs
           /\ Execute(e, Assignment(b))[Name(b)] = Given(e, b)
           /\ \A n \in Members : n # Name(b) => Execute(e, Assignment(b))[n] = e[n]
           /\ ~Computing(b) => Given(e, b) = e[InputVar(b, 1)]
<1>1. b \in Ids /\ Name(b) \in Members /\ DOMAIN e = Members
  BY UnitType DEF Assignable, Envs
<1>2. \A m \in Members :
        [i \in DOMAIN Assignment(b).terms |-> Weight(Assignment(b).terms[i]) * e[Assignment(b).terms[i].var][m]]
            = [i \in Reads(b) |-> Share(b, i) * e[InputVar(b, i)][m]]
  BY AssignmentTerms
<1>3. Execute(e, Assignment(b)) = [e EXCEPT ![Name(b)] = Given(e, b)]
  BY <1>1, <1>2, AssignmentTerms DEF Execute, Given
<1>4. IsFiniteSet(Reads(b)) /\ \A i \in Reads(b) : Share(b, i) \in Int
  <2>1. CASE Computing(b)
    BY <1>1, <2>1, ReadsFacts DEF Share
  <2>2. CASE ~Computing(b)
    <3>1. Reads(b) = {1} /\ \A i : Share(b, i) = 1
      BY <2>2 DEF Share, Reads, Assignable, Computing
    <3>2. IsFiniteSet({1})
      BY FS_Singleton
    <3> QED
      BY <3>1, <3>2
  <2> QED
    BY <2>1, <2>2
<1>5. \A i \in Reads(b) : e[InputVar(b, i)] \in Forms /\ \A m \in Members : e[InputVar(b, i)][m] \in Int
  BY DEF Connected, InputVar, Members, Envs, Forms
<1>6. ASSUME NEW m \in Members
      PROVE  LET f == [i \in Reads(b) |-> Share(b, i) * e[InputVar(b, i)][m]]
             IN  SumFunction(f) \in Int /\ (Reads(b) = {1} => SumFunction(f) = f[1])
  <2> DEFINE f == [i \in Reads(b) |-> Share(b, i) * e[InputVar(b, i)][m]]
  <2>1. f \in [Reads(b) -> Int]
    BY <1>4, <1>5
  <2> HIDE DEF f
  <2>2. SumFunction(f) \in Int /\ (Reads(b) = {1} => SumFunction(f) = f[1])
    BY <1>4, <2>1, SumFacts
  <2> QED
    BY <2>2 DEF f
<1>7. Given(e, b) \in Forms
  BY <1>6 DEF Given, Forms
<1>8. ASSUME ~Computing(b) PROVE Given(e, b) = e[InputVar(b, 1)]
  <2>1. Reads(b) = {1} /\ Share(b, 1) = 1
    BY <1>8 DEF Reads, Assignable, Computing, Share
  <2>2. \A m \in Members : Given(e, b)[m] = e[InputVar(b, 1)][m]
    <3> SUFFICES ASSUME NEW m \in Members PROVE Given(e, b)[m] = e[InputVar(b, 1)][m]
      OBVIOUS
    <3>1. Given(e, b)[m] = SumFunction([i \in Reads(b) |-> Share(b, i) * e[InputVar(b, i)][m]])
      BY DEF Given
    <3>2. Given(e, b)[m] = Share(b, 1) * e[InputVar(b, 1)][m]
      BY <1>6, <2>1, <3>1
    <3> QED
      BY <1>5, <2>1, <3>2
  <2>3. Given(e, b) \in Forms /\ e[InputVar(b, 1)] \in Forms
    BY <1>5, <1>7, <2>1
  <2> QED
    BY <2>2, <2>3 DEF Forms
<1> QED
  BY <1>1, <1>3, <1>7, <1>8 DEF Envs

\* The statements of the program lead from members to members.
LEMMA StepWithin ==
    ASSUME GraphInv, SortHeld, Generating, Meaningful, UsesInv
    PROVE  Identity \in Envs /\ Within(Envs, code.step)
<1>1. \A n \in Members : Unit(n) \in Forms
  BY DEF Unit, Forms
<1>2. Identity \in Envs
  BY <1>1 DEF Identity, Envs
<1>3. ASSUME NEW a \in Range(code.step), NEW x \in Envs PROVE Execute(x, a) \in Envs
  <2>1. PICK b \in Range(sorted) :
            Block(b).type \in {"Sum", "Gain", "UnitDelay"} /\ Connected(b) /\ a = Assignment(b)
    BY DEF UsesInv, Computed
  <2>2. b \in Assignable
    BY <2>1 DEF Meaningful, Drawable, Assignable
  <2> QED
    BY <2>1, <2>2, ExecuteFacts
<1> QED
  BY <1>2, <1>3 DEF Within, UsesInv

-----------------------------------------------------------------------------
(***************************************************************************)
(* The inductive invariant of GenStep: what the members hold after the     *)
(* statements generated so far.                                            *)
(***************************************************************************)
Delay(b) == Block(b).type = "UnitDelay"

\* The blocks whose assignments the program has.
Turned(b, j) ==
    \/ Computing(b) /\ ((pc = "step" /\ j < cursor) \/ pc \in {"update", "ports", "write"})
    \/ Delay(b) /\ ((pc = "update" /\ j < cursor) \/ pc \in {"ports", "write"})

Assigned == {b \in Ids : \E j \in DOMAIN sorted : sorted[j] = b /\ Turned(b, j)}

\* The outputs of the blocks in a step.
Fits(outs) == outs \in Values /\ Compute(outs) = outs

\* What the members hold after the statements generated so far.
Env == Run(Identity, code.step)

\* Until its assignment a member keeps its value; then it has its output, if it
\* computes, or that of its input, if it is a delay.
Holds(outs, b) ==
    /\ b \notin Assigned => Env[Name(b)] = Unit(Name(b))
    /\ b \in Assigned /\ Computing(b) => Env[Name(b)] = outs[b]
    /\ b \in Assigned /\ ~Computing(b) => Chained(b) \/ Env[Name(b)] = outs[Block(b).inputs[1]]

RunInv ==
    pc \in Loops =>
        /\ \A b \in Assigned : Connected(b)
        /\ Meaningful => \A outs : Fits(outs) => \A b \in Ids : Holds(outs, b)

\* The generator changes neither the meaning of the diagram nor that of a block.
LEMMA MeaningStays ==
    ASSUME UNCHANGED <<graph, sorted>>
    PROVE  /\ Meaningful' = Meaningful /\ Members' = Members /\ Identity' = Identity
           /\ \A outs : Fits(outs)' = Fits(outs)
           /\ \A b : /\ Computing(b)' = Computing(b) /\ Delay(b)' = Delay(b)
                     /\ Chained(b)' = Chained(b) /\ Reads(b)' = Reads(b)
           /\ \A n : Unit(n)' = Unit(n)
<1>1. Members' = Members
  BY Still DEF Members
<1>2. \A n : Unit(n)' = Unit(n)
  BY <1>1 DEF Unit
<1>3. Identity' = Identity
  BY <1>1, <1>2 DEF Identity
<1>4. \A b : Computing(b)' = Computing(b) /\ Delay(b)' = Delay(b) /\ Chained(b)' = Chained(b)
  BY Still DEF Computing, Delay, Chained
<1>5. \A b : Signs(b)' = Signs(b) /\ Param(b, "Gain", 1)' = Param(b, "Gain", 1)
  BY Still DEF Signs, Param
<1>6. \A b : Reads(b)' = Reads(b)
  BY <1>5, Still DEF Reads
<1>7. \A b, i : Weigh(b, i)' = Weigh(b, i)
  BY <1>5, Still DEF Weigh
<1>8. \A outs : Compute(outs)' = Compute(outs)
  <2> SUFFICES ASSUME NEW outs PROVE Compute(outs)' = Compute(outs)
    OBVIOUS
  <2> DEFINE f(b, m) == [i \in Reads(b) |-> Weigh(b, i) * outs[Block(b).inputs[i]][m]]
  <2>1. \A b, m : f(b, m)' = f(b, m)
    BY <1>6, <1>7, Still
  <2>2. Compute(outs) = [b \in Ids |-> IF Block(b).type \notin {"Sum", "Gain"} THEN Unit(Name(b))
                                       ELSE [m \in Members |-> SumFunction(f(b, m))]]
    BY DEF Compute
  <2>3. Compute(outs)' = [b \in Ids' |-> IF Block(b)'.type \notin {"Sum", "Gain"} THEN Unit(Name(b))'
                                         ELSE [m \in Members' |-> SumFunction(f(b, m)')]]
    BY DEF Compute
  <2> HIDE DEF f
  <2>4. \A b : [m \in Members |-> SumFunction(f(b, m))] = [m \in Members' |-> SumFunction(f(b, m)')]
    BY <1>1, <2>1
  <2>5. \A b : Unit(Name(b))' = Unit(Name(b))
    BY <1>2, Still
  <2> QED
    BY <2>2, <2>3, <2>4, <2>5, Still
<1>9. Values' = Values
  BY <1>1, Still DEF Values, Forms
<1>10. Drawable' = Drawable
  BY Still DEF Drawable, T!OneDriver, T!Lines, T!Src, T!Dst, T!In, SortGraph
<1>11. Meaningful' = Meaningful
  BY <1>5, <1>10, Still DEF Meaningful
<1> QED
  BY <1>1, <1>2, <1>3, <1>4, <1>6, <1>8, <1>9, <1>11 DEF Fits

\* The environment in the next state.
LEMMA EnvPrimed ==
    ASSUME UNCHANGED <<graph, sorted>>
    PROVE  Env' = Run(Identity, code'.step)
<1>1. Env' = Run(Identity', code'.step)
  BY DEF Env, Run, Execute, Weight
<1> QED
  BY <1>1, MeaningStays

\* A step that adds no statement and assigns no block.
LEMMA RunStays ==
    ASSUME RunInv, pc \in Loops, UNCHANGED <<graph, sorted>>, code'.step = code.step,
           Assigned' = Assigned
    PROVE  RunInv'
<1>1. Env' = Env
  BY EnvPrimed DEF Env
<1>2. \A outs, b : Holds(outs, b)' <=> Holds(outs, b)
  BY <1>1, MeaningStays, Still DEF Holds
<1>3. \A b \in Assigned' : Connected(b)'
  BY Still DEF RunInv
<1>4. ASSUME Meaningful', NEW outs, Fits(outs)', NEW b \in Ids'
      PROVE  Holds(outs, b)'
  BY <1>2, <1>4, MeaningStays, Still DEF RunInv
<1> QED
  BY <1>3, <1>4 DEF RunInv

Types == IF pc = "step" THEN {"Sum", "Gain"} ELSE {"UnitDelay"}

\* A turn of GenStep assigns its block, which was not assigned before.
LEMMA TurnAssigns ==
    ASSUME pc \in {"step", "update"}, pc' = pc, UNCHANGED <<graph, sorted>>, cursor' = cursor + 1,
           SortHeld, cursor \in DOMAIN sorted
    PROVE  /\ Block(Current).type \in Types => Current \notin Assigned
           /\ Assigned' = Assigned \cup {b \in {Current} : Block(b).type \in Types}
<1>1. /\ sorted \in Seq(Ids) /\ DOMAIN sorted = 1 .. Len(sorted) /\ Len(sorted) \in Nat
      /\ \A i, j \in DOMAIN sorted : sorted[i] = sorted[j] => i = j
  BY SortedFacts DEF Generating, After
<1>2. Current = sorted[cursor] /\ Current \in Ids
  BY <1>1 DEF Current
<1>3. \A j \in DOMAIN sorted : j < cursor' <=> j < cursor \/ j = cursor
  BY <1>1
<1>4. \A b, j : j \in DOMAIN sorted =>
        (Turned(b, j)' <=> Turned(b, j) \/ (j = cursor /\ Block(b).type \in Types))
  <2>1. CASE pc = "step"
    BY <1>3, <2>1, MeaningStays DEF Turned, Types, Computing
  <2>2. CASE pc = "update"
    <3>1. pc \in {"update", "ports", "write"} /\ pc \notin {"ports", "write"} /\ pc # "step"
      BY <2>2
    <3>2. \A b, j : Turned(b, j) <=> Computing(b) \/ (Delay(b) /\ j < cursor)
      BY <2>2, <3>1 DEF Turned
    <3>3. \A b, j : Turned(b, j)' <=> Computing(b) \/ (Delay(b) /\ j < cursor')
      BY <2>2, <3>1, MeaningStays DEF Turned
    <3>4. \A b : Delay(b) <=> Block(b).type \in Types
      BY <2>2 DEF Delay, Types
    <3> QED
      BY <1>3, <3>2, <3>3, <3>4
  <2> QED
    BY <2>1, <2>2
<1>5. \A b : Block(b).type \in Types => ~Turned(b, cursor)
  BY <1>1 DEF Turned, Types, Computing, Delay
<1>6. Assigned' = {b \in Ids : \E j \in DOMAIN sorted : sorted[j] = b /\ Turned(b, j)'}
  BY Still DEF Assigned
<1>7. Block(Current).type \in Types => Current \notin Assigned
  BY <1>1, <1>2, <1>5 DEF Assigned
<1>8. Assigned' = Assigned \cup {b \in {Current} : Block(b).type \in Types}
  <2>1. \A b \in Ids : b \in Assigned' <=>
            \E j \in DOMAIN sorted : sorted[j] = b /\ (Turned(b, j) \/ (j = cursor /\ Block(b).type \in Types))
    BY <1>4, <1>6
  <2>2. \A b \in Ids : b \in Assigned' <=> b \in Assigned \/ (b = Current /\ Block(b).type \in Types)
    BY <1>2, <2>1 DEF Assigned
  <2>3. Assigned' \subseteq Ids /\ Assigned \subseteq Ids
    BY <1>6 DEF Assigned
  <2> QED
    BY <1>2, <2>2, <2>3
<1> QED
  BY <1>7, <1>8

\* What is not computed is what the member held.
LEMMA UnitOut ==
    ASSUME NEW outs, Fits(outs), NEW b \in Ids, ~Computing(b)
    PROVE  outs[b] = Unit(Name(b))
BY DEF Fits, Compute, Computing

\* A Sum or a Gain is given its output.
LEMMA GivesOutput ==
    ASSUME GraphInv, SortHeld, Meaningful, pc = "step", cursor \in DOMAIN sorted,
           Computing(Current), Connected(Current),
           NEW outs, Fits(outs), \A b \in Ids : Holds(outs, b)
    PROVE  Given(Env, Current) = outs[Current]
<1> DEFINE b == Current
<1>1. Generating /\ Drawable /\ sorted \in Seq(Ids) /\ DOMAIN sorted = 1 .. Len(sorted)
  BY SortedFacts DEF Generating, After, Meaningful
<1>2. b = sorted[cursor] /\ b \in Ids
  BY <1>1 DEF Current
<1>3. ASSUME NEW p \in Reads(b) PROVE Env[InputVar(b, p)] = outs[Block(b).inputs[p]]
  <2> DEFINE c == Block(b).inputs[p]
  <2>1. c \in Ids /\ InputVar(b, p) = Name(c)
    BY DEF Connected, InputVar
  <2>2. Holds(outs, c)
    BY <2>1
  <2>3. CASE Computing(c)
    <3>1. \E j \in 1 .. cursor - 1 : sorted[j] = c
      BY <1>1, <1>2, SourceBefore
    <3>2. \E j \in DOMAIN sorted : sorted[j] = c /\ j < cursor
      BY <1>1, <3>1
    <3>3. c \in Assigned
      BY <2>1, <2>3, <3>2 DEF Assigned, Turned
    <3> QED
      BY <2>1, <2>2, <2>3, <3>3 DEF Holds
  <2>4. CASE ~Computing(c)
    <3>1. c \notin Assigned
      BY <2>4 DEF Assigned, Turned
    <3> QED
      BY <2>1, <2>2, <2>4, <3>1, UnitOut DEF Holds
  <2> QED
    BY <2>3, <2>4
<1>4. \A m \in Members : [i \in Reads(b) |-> Share(b, i) * Env[InputVar(b, i)][m]]
                            = [i \in Reads(b) |-> Weigh(b, i) * outs[Block(b).inputs[i]][m]]
  BY <1>3 DEF Share
<1>5. Compute(outs)[b] = [m \in Members |-> SumFunction([i \in Reads(b) |-> Weigh(b, i) * outs[Block(b).inputs[i]][m]])]
  BY <1>2 DEF Compute, Computing
<1>6. Given(Env, b) = Compute(outs)[b]
  BY <1>4, <1>5 DEF Given
<1> QED
  BY <1>6 DEF Fits

\* A delay is given what its input put out, unless that is a delay with a lower
\* SID, which has been given its own input.
LEMMA GivesInput ==
    ASSUME GraphInv, SortHeld, Meaningful, pc = "update", cursor \in DOMAIN sorted,
           Delay(Current), Connected(Current), ~Chained(Current),
           NEW outs, Fits(outs), \A b \in Ids : Holds(outs, b)
    PROVE  Env[InputVar(Current, 1)] = outs[Block(Current).inputs[1]]
<1> DEFINE b == Current
           c == Block(b).inputs[1]
<1>1. /\ Generating /\ sorted \in Seq(Ids) /\ DOMAIN sorted = 1 .. Len(sorted) /\ Len(sorted) \in Nat
      /\ \A i, j \in DOMAIN sorted :
            i < j /\ Delay(sorted[i]) /\ Delay(sorted[j]) => sorted[i] < sorted[j]
  BY SortedFacts DEF Generating, After, Delay, OfType, Block
<1>2. b = sorted[cursor] /\ b \in Ids /\ 1 \in Reads(b) /\ Range(sorted) = Ids
  BY <1>1 DEF Current, Delay, Reads, Meaningful, Drawable
<1>3. c \in Ids /\ InputVar(b, 1) = Name(c) /\ Holds(outs, c)
  BY <1>2 DEF Connected, InputVar
<1>4. CASE Computing(c)
  <2>1. \E j \in DOMAIN sorted : sorted[j] = c
    BY <1>2, <1>3 DEF Range
  <2>2. c \in Assigned
    BY <1>3, <1>4, <2>1 DEF Assigned, Turned
  <2> QED
    BY <1>3, <1>4, <2>2 DEF Holds
<1>5. CASE ~Computing(c)
  <2>1. ASSUME c \in Assigned PROVE FALSE
    <3>1. Delay(c) /\ \E j \in DOMAIN sorted : sorted[j] = c /\ j < cursor
      BY <1>5, <2>1 DEF Assigned, Turned
    <3>2. c < b
      BY <1>1, <1>2, <3>1
    <3> QED
      BY <3>1, <3>2 DEF Chained, Delay
  <2> QED
    BY <1>3, <1>5, <2>1, UnitOut DEF Holds
<1> QED
  BY <1>4, <1>5

\* A turn of GenStep.
LEMMA AssignRun ==
    ASSUME ParseInv, GraphInv, SortHeld, CodeInv, RunInv,
           NEW loop \in {"step", "update"}, pc = loop, Turn(loop), Assign(Types)
    PROVE  RunInv'
<1> DEFINE b == Current
<1>1. CASE Fail
  BY <1>1 DEF Fail, RunInv, Loops, After
<1>2. CASE UNCHANGED pc
  <2>1. /\ pc \in {"step", "update"} /\ pc' = pc /\ cursor' = cursor + 1 /\ UNCHANGED <<graph, sorted>>
        /\ UsesInv /\ cursor \in DOMAIN sorted /\ b \in Ids
    BY <1>2, TurnFacts DEF After
  <2>2. /\ Block(b).type \in Types => b \notin Assigned
        /\ Assigned' = Assigned \cup {c \in {b} : Block(c).type \in Types}
    BY <2>1, TurnAssigns
  <2>3. Generating /\ pc \in Loops /\ pc' \in Loops /\ RunInv
    BY <2>1 DEF Generating, Loops, After
  <2>4. CASE Block(b).type \notin Types /\ UNCHANGED code
    <3>1. Assigned' = Assigned
      BY <2>2, <2>4
    <3> QED
      BY <2>1, <2>3, <2>4, <3>1, RunStays
  <2>5. CASE /\ Block(b).type \in Types /\ Connected(b)
             /\ code' = [code EXCEPT !.step = Append(@, Assignment(b))]
    <3>1. code'.step = Append(code.step, Assignment(b))
      BY <2>1, <2>3, <2>5 DEF CodeInv, Program
    <3>2. Assigned' = Assigned \cup {b} /\ b \notin Assigned
      BY <2>2, <2>5
    <3>3. b \in Assignable
      BY <2>1, <2>5 DEF Assignable, Types
    <3>4. \A c \in Assigned' : Connected(c)'
      BY <2>1, <2>3, <2>5, <3>2, Still DEF RunInv
    <3>5. ASSUME Meaningful', NEW outs, Fits(outs)', NEW c \in Ids'
          PROVE  Holds(outs, c)'
      <4>1. Meaningful /\ Fits(outs) /\ c \in Ids
        BY <2>1, <3>5, MeaningStays, Still
      <4>2. \A d \in Ids : Holds(outs, d)
        BY <2>3, <4>1 DEF RunInv
      <4>3. Env \in Envs /\ Env' = Execute(Env, Assignment(b))
        <5>1. Identity \in Envs /\ Within(Envs, code.step)
          BY <2>1, <2>3, <4>1, StepWithin
        <5>2. \A x \in Envs : Execute(x, Assignment(b)) \in Envs
          BY <2>5, <3>3, <4>1, ExecuteFacts
        <5>3. /\ Run(Identity, code.step) \in Envs
              /\ Run(Identity, Append(code.step, Assignment(b)))
                    = Execute(Run(Identity, code.step), Assignment(b))
          BY <5>1, <5>2, RunAppend
        <5>4. Env' = Run(Identity, code'.step)
          BY <2>1, EnvPrimed
        <5> QED
          BY <3>1, <5>3, <5>4 DEF Env
      <4>4. /\ Env'[Name(b)] = Given(Env, b)
            /\ \A n \in Members : n # Name(b) => Env'[n] = Env[n]
            /\ ~Computing(b) => Given(Env, b) = Env[InputVar(b, 1)]
        BY <2>5, <3>3, <4>1, <4>3, ExecuteFacts
      <4>5. CASE c = b
        <5>1. CASE pc = "step"
          <6>1. Computing(b)
            BY <2>5, <5>1 DEF Types, Computing
          <6>2. Env'[Name(b)] = outs[b]
            BY <2>1, <2>5, <4>1, <4>2, <4>4, <5>1, <6>1, GivesOutput
          <6>3. c \in Assigned' /\ Computing(c)' /\ Name(c)' = Name(c)
            BY <2>1, <3>2, <4>5, <6>1, MeaningStays, Still
          <6> QED
            BY <4>5, <6>2, <6>3 DEF Holds
        <5>2. CASE pc = "update"
          <6>1. Delay(b) /\ ~Computing(b)
            BY <2>5, <5>2 DEF Types, Computing, Delay
          <6>2. Chained(b) \/ Env'[Name(b)] = outs[Block(b).inputs[1]]
            BY <2>1, <2>5, <4>1, <4>2, <4>4, <5>2, <6>1, GivesInput
          <6>3. /\ c \in Assigned' /\ ~Computing(c)' /\ Name(c)' = Name(c)
                /\ Chained(c)' = Chained(c) /\ Block(c)' = Block(c)
            BY <2>1, <3>2, <4>5, <6>1, MeaningStays, Still
          <6> QED
            BY <4>5, <6>2, <6>3 DEF Holds
        <5> QED
          BY <2>1, <5>1, <5>2
      <4>6. CASE c # b
        <5>1. Name(c) # Name(b) /\ Name(c) \in Members
          BY <2>1, <4>1, <4>6 DEF Meaningful, Distinct, Members
        <5>2. Env'[Name(c)] = Env[Name(c)]
          BY <4>4, <5>1
        <5>3. /\ c \in Assigned' <=> c \in Assigned
              /\ Computing(c)' = Computing(c) /\ Name(c)' = Name(c)
              /\ Chained(c)' = Chained(c) /\ Block(c)' = Block(c) /\ Unit(Name(c))' = Unit(Name(c))
          BY <2>1, <3>2, <4>6, MeaningStays, Still
        <5>4. Holds(outs, c)
          BY <4>1, <4>2
        <5> QED
          BY <5>2, <5>3, <5>4 DEF Holds
      <4> QED
        BY <4>5, <4>6
    <3> QED
      BY <3>4, <3>5 DEF RunInv
  <2> QED
    BY <1>2, <2>1, <2>4, <2>5 DEF Assign, Fail
<1> QED
  BY <1>1, <1>2 DEF Assign

LEMMA RunInit == Init => RunInv
BY DEF Init, RunInv, Loops, After

LEMMA RunNext == ParseInv /\ GraphInv /\ SortHeld /\ CodeInv /\ RunInv /\ [Next]_vars => RunInv'
<1> SUFFICES ASSUME ParseInv, GraphInv, SortHeld, CodeInv, RunInv, [Next]_vars PROVE RunInv'
  OBVIOUS
<1>1. CASE Create \/ FindMaxSid \/ ReadBlock \/ BlocksRead \/ ReadLine \/ LinesRead \/ Sort \/ WriteToFile
  BY <1>1 DEF Create, FindMaxSid, ReadBlock, BlocksRead, ReadLine, LinesRead, BeginSort, Sort,
         WriteToFile, Fail, Undefined, RunInv, Loops, After
<1>2. CASE Sorted
  <2>1. pc' \in {"idle", "struct"} /\ code' = NoCode /\ UNCHANGED <<graph, sorted>>
    BY <1>2 DEF Sorted, Fail, CodeInv, sortVars
  <2>2. CASE pc' = "struct"
    <3>1. Assigned' = {}
      BY <2>2 DEF Assigned, Turned
    <3>2. Env' = Identity
      <4>1. code'.step = <<>>
        BY <2>1 DEF NoCode
      <4> QED
        BY <2>1, <4>1, EnvPrimed, RunEmpty
    <3>3. \A outs, b : b \in Ids' => Holds(outs, b)'
      <4> SUFFICES ASSUME NEW outs, NEW b \in Ids' PROVE Holds(outs, b)'
        OBVIOUS
      <4>1. Name(b) \in Members /\ Name(b)' = Name(b) /\ Unit(Name(b))' = Unit(Name(b))
        BY <2>1, MeaningStays, Still DEF Members
      <4>2. Env'[Name(b)] = Unit(Name(b))
        BY <3>2, <4>1 DEF Identity
      <4> QED
        BY <3>1, <4>1, <4>2 DEF Holds
    <3> QED
      BY <3>1, <3>3 DEF RunInv
  <2> QED
    BY <2>1, <2>2 DEF RunInv, Loops, After
<1>3. CASE EndLoop
  <2>1. /\ pc \in DOMAIN After /\ pc' = After[pc] /\ UNCHANGED <<code, graph, sorted>>
        /\ cursor > Turns /\ Generating
    BY <1>3 DEF EndLoop, sortVars, Generating
  <2>2. DOMAIN sorted = 1 .. Len(sorted) /\ Len(sorted) \in Nat
    BY <2>1, SortedFacts
  <2>3. pc # "ports" => \A j \in DOMAIN sorted : j < cursor
    BY <2>1, <2>2 DEF Turns, ParseInv
  <2>4. cursor' = 1 /\ \A j \in DOMAIN sorted : ~(j < cursor')
    BY <1>3, <2>2 DEF EndLoop
  <2>5. \A b, j : j \in DOMAIN sorted => (Turned(b, j)' <=> Turned(b, j))
    <3>1. CASE pc = "struct"
      BY <2>1, <3>1 DEF After, Turned
    <3>2. CASE pc = "init"
      BY <2>1, <2>4, <3>2 DEF After, Turned
    <3>3. CASE pc = "step"
      BY <2>1, <2>3, <2>4, <3>3, MeaningStays DEF After, Turned
    <3>4. CASE pc = "update"
      BY <2>1, <2>3, <2>4, <3>4, MeaningStays DEF After, Turned
    <3>5. CASE pc = "ports"
      BY <2>1, <2>4, <3>5, MeaningStays DEF After, Turned
    <3> QED
      BY <2>1, <3>1, <3>2, <3>3, <3>4, <3>5 DEF After
  <2>6. Assigned' = Assigned
    BY <2>1, <2>5, Still DEF Assigned
  <2>7. pc \in Loops
    BY <2>1 DEF Loops
  <2> QED
    BY <2>1, <2>6, <2>7, RunStays
<1>4. CASE GenStruct \/ GenInit \/ GenExtPorts
  <2>1. CASE Fail
    BY <2>1 DEF Fail, RunInv, Loops, After
  <2>2. CASE UNCHANGED pc
    <3>1. PICK loop \in {"struct", "init", "ports"} : Turn(loop) /\ pc = loop
      BY <1>4 DEF GenStruct, GenInit, GenExtPorts, Turn
    <3>2. UNCHANGED <<graph, sorted>> /\ Program
      BY <2>2, <3>1, TurnFacts DEF After
    <3>3. code'.step = code.step
      BY <1>4, <3>2 DEF GenStruct, GenInit, GenExtPorts, Program
    <3>4. \A b, j : Turned(b, j)' <=> Turned(b, j)
      BY <2>2, <3>1, <3>2, MeaningStays DEF Turned
    <3>5. Assigned' = Assigned
      BY <3>2, <3>4, Still DEF Assigned
    <3> QED
      BY <3>1, <3>2, <3>3, <3>5, RunStays DEF Loops, After
  <2> QED
    BY <1>4, <2>1, <2>2 DEF GenStruct, GenInit, GenExtPorts
<1>5. CASE GenStep
  <2>1. pc = "step" /\ Types = {"Sum", "Gain"}
    BY <1>5 DEF GenStep, Turn, Types
  <2> QED
    BY <1>5, <2>1, AssignRun DEF GenStep
<1>6. CASE UpdateDelays
  <2>1. pc = "update" /\ Types = {"UnitDelay"}
    BY <1>6 DEF UpdateDelays, Turn, Types
  <2> QED
    BY <1>6, <2>1, AssignRun DEF UpdateDelays
<1>7. CASE UNCHANGED vars
  <2>1. UNCHANGED <<pc, cursor, code, graph, sorted>>
    BY <1>7 DEF vars, sortVars
  <2>2. \A b, j : Turned(b, j)' <=> Turned(b, j)
    BY <2>1, MeaningStays DEF Turned
  <2>3. Assigned' = Assigned
    BY <2>1, <2>2, Still DEF Assigned
  <2>4. CASE pc \in Loops
    BY <2>1, <2>3, <2>4, RunStays
  <2> QED
    BY <2>1, <2>4 DEF RunInv
<1> QED
  BY <1>1, <1>2, <1>3, <1>4, <1>5, <1>6, <1>7 DEF Next, Step

-----------------------------------------------------------------------------
(***************************************************************************)
(* The step computes the diagram.                                          *)
(***************************************************************************)
LEMMA AllAssigned ==
    ASSUME pc = "write", Drawable
    PROVE  Assigned = {b \in Ids : Computing(b) \/ Delay(b)}
<1>1. \A b, j : Turned(b, j) <=> Computing(b) \/ Delay(b)
  BY DEF Turned
<1>2. \A b \in Ids : \E j \in DOMAIN sorted : sorted[j] = b
  BY DEF Drawable, Range
<1> QED
  BY <1>1, <1>2 DEF Assigned

\* For every state of its members the generated step gives the Sums and Gains
\* of a diagram the values that make all of them hold at once, and the delays
\* those of their inputs, but for a delay that reads another with a lower SID
\* (src/filter/code-generator.cpp:134, 159).
THEOREM StepComputes == Spec => []StepIsSynchronous
<1>1. GraphInv /\ SortHeld /\ RunInv => StepIsSynchronous
  <2> SUFFICES ASSUME GraphInv, SortHeld, RunInv, pc = "write", Meaningful,
                      NEW b \in Ids \ OfType("Outport"), ~Chained(b)
               PROVE  Run(Identity, code.step)[Name(b)] = AfterStep(b)
    BY DEF StepIsSynchronous
  <2>1. Generating /\ pc \in Loops
    BY DEF Generating, Loops
  <2>2. Assigned = {c \in Ids : Computing(c) \/ Delay(c)}
    BY AllAssigned DEF Meaningful
  <2>3. Sound
    BY <2>1, <2>2 DEF Sound, AllConnected, RunInv
  <2>4. Fits(Outputs)
    BY <2>3, OutputsFix DEF Fits
  <2>5. Holds(Outputs, b)
    BY <2>1, <2>4 DEF RunInv
  <2>6. CASE Delay(b)
    <3>1. b \in Assigned /\ ~Computing(b)
      BY <2>2, <2>6 DEF Delay, Computing
    <3> QED
      BY <2>5, <2>6, <3>1 DEF Holds, AfterStep, Delay, Env
  <2>7. CASE ~Delay(b)
    <3>1. AfterStep(b) = Outputs[b]
      BY <2>7 DEF AfterStep, Delay
    <3>2. CASE Computing(b)
      BY <2>2, <2>5, <3>1, <3>2 DEF Holds, Env
    <3>3. CASE ~Computing(b)
      <4>1. Outputs[b] = Unit(Name(b))
        BY <2>4, <3>3, UnitOut
      <4>2. b \notin Assigned
        BY <2>2, <2>7, <3>3
      <4> QED
        BY <2>5, <3>1, <4>1, <4>2 DEF Holds, Env
    <3> QED
      BY <3>2, <3>3
  <2> QED
    BY <2>6, <2>7
<1>2. Spec => [](ParseInv /\ GraphInv)
  BY ParseInit, ParseNext, PTL DEF Spec
<1>3. Init => SortHeld /\ CodeInv /\ RunInv
  BY CodeInit, RunInit DEF Init, SortHeld, Generating, After
<1> QED
  BY <1>1, <1>2, <1>3, SortHeldNext, CodeNext, RunNext, PTL DEF Spec
=============================================================================
