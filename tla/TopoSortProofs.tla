--------------------------- MODULE TopoSortProofs ---------------------------
(***************************************************************************)
(* Theorems about TopoSort, for every set of well-formed graphs.           *)
(*                                                                         *)
(* The argument: the counter of a block is what it started from less the   *)
(* lines into it that were followed, and a block is queued or in the order *)
(* exactly if its counter is not positive.  A queued block therefore has   *)
(* all its lines followed when each has a port of its own; and a block     *)
(* that is never queued has a line that was never followed, from another   *)
(* block that was never queued.                                            *)
(***************************************************************************)
EXTENDS TopoSort, FiniteSetTheorems, FunctionTheorems, SequenceTheorems, TLAPS

-----------------------------------------------------------------------------
(***************************************************************************)
(* Sequences, and the graph.                                               *)
(***************************************************************************)
Distinct(s) == \A i, j \in DOMAIN s : s[i] = s[j] => i = j

LEMMA AppendRange ==
    ASSUME NEW T, NEW s \in Seq(T), NEW x \in T
    PROVE  /\ Range(Append(s, x)) = Range(s) \cup {x}
           /\ Distinct(s) /\ x \notin Range(s) => Distinct(Append(s, x))
<1>1. /\ Append(s, x) \in Seq(T) /\ Len(Append(s, x)) = Len(s) + 1
      /\ \A i \in 1 .. Len(s) : Append(s, x)[i] = s[i]
      /\ Append(s, x)[Len(s) + 1] = x
  OBVIOUS
<1>2. DOMAIN s = 1 .. Len(s) /\ DOMAIN Append(s, x) = 1 .. Len(s) + 1
  BY <1>1
<1>3. Range(Append(s, x)) = Range(s) \cup {x}
  BY <1>1, <1>2 DEF Range
<1>4. Distinct(s) /\ x \notin Range(s) => Distinct(Append(s, x))
  BY <1>1, <1>2 DEF Distinct, Range
<1> QED
  BY <1>3, <1>4

\* Taking the head of one sequence to the end of another.
LEMMA MoveHead ==
    ASSUME NEW T, NEW s \in Seq(T), NEW r \in Seq(T), r # <<>>
    PROVE  /\ Head(r) \in T /\ Tail(r) \in Seq(T)
           /\ Append(s, Head(r)) \o Tail(r) = s \o r
<1>1. Head(r) \in T /\ Tail(r) \in Seq(T) /\ <<Head(r)>> \o Tail(r) = r
  OBVIOUS
<1>2. Append(s, Head(r)) = s \o <<Head(r)>>
  BY <1>1, AppendIsConcat
<1>3. (s \o <<Head(r)>>) \o Tail(r) = s \o (<<Head(r)>> \o Tail(r))
  BY <1>1, ConcatAssociative
<1> QED
  BY <1>1, <1>2, <1>3

LEMMA DistinctLen ==
    ASSUME NEW T, NEW s \in Seq(T), Distinct(s)
    PROVE  IsFiniteSet(Range(s)) /\ Cardinality(Range(s)) = Len(s)
<1>1. DOMAIN s = 1 .. Len(s) /\ Len(s) \in Nat
  OBVIOUS
<1>2. s \in Surjection(1 .. Len(s), Range(s))
  BY <1>1, Fun_RangeProperties, SeqOfRange DEF Surjection, Range
<1>3. s \in Injection(1 .. Len(s), Range(s))
  BY <1>1, <1>2 DEF Injection, IsInjective, Surjection, Distinct
<1>4. IsFiniteSet(1 .. Len(s)) /\ Cardinality(1 .. Len(s)) = Len(s)
  BY <1>1, FS_Interval
<1> QED
  BY <1>2, <1>3, <1>4, FS_Surjection

LEMMA GraphFacts ==
    ASSUME TypeOK
    PROVE  /\ IsFiniteSet(Lines) /\ IsFiniteSet(Blocks)
           /\ Blocks \subseteq 0 .. graph.size - 1 /\ graph.size \in Nat
           /\ Delays \subseteq Blocks /\ graph.outports \subseteq Blocks
           /\ \A l \in Lines : Src(l) \in Blocks /\ Dst(l) \in Blocks
<1>1. graph.lines \in Seq(Line(graph.blocks)) /\ graph.size \in Nat
  BY DEF TypeOK, WellFormed
<1>2. Lines = 1 .. Len(graph.lines) /\ Len(graph.lines) \in Nat
  BY <1>1 DEF Lines
<1>3. IsFiniteSet(Lines)
  BY <1>2, FS_Interval
<1>4. Blocks \subseteq 0 .. graph.size - 1
  BY DEF TypeOK, WellFormed, Blocks
<1>5. IsFiniteSet(Blocks)
  <2>1. IsFiniteSet(0 .. graph.size - 1)
    BY <1>1, FS_Interval
  <2> QED
    BY <2>1, <1>4, FS_Subset
<1>6. Delays \subseteq Blocks /\ graph.outports \subseteq Blocks
  BY DEF TypeOK, WellFormed, Blocks, Delays
<1>7. \A l \in Lines : graph.lines[l] \in Line(graph.blocks)
  BY <1>1, <1>2
<1>8. \A l \in Lines : Src(l) \in Blocks /\ Dst(l) \in Blocks
  BY <1>7 DEF Src, Dst, Line, Blocks
<1> QED
  BY <1>1, <1>3, <1>4, <1>5, <1>6, <1>8

\* The lines that enter b.
Into(b) == {l \in Lines : Dst(l) = b}

\* No more ports than lines, and as many if every line has its own.
LEMMA PortsAndLines ==
    ASSUME TypeOK, NEW b \in Blocks
    PROVE  /\ IsFiniteSet(Into(b)) /\ IsFiniteSet(Inputs(b))
           /\ Cardinality(Into(b)) \in Nat /\ Cardinality(Inputs(b)) \in Nat
           /\ Cardinality(Inputs(b)) <= Cardinality(Into(b))
           /\ OneDriver => Cardinality(Inputs(b)) = Cardinality(Into(b))
<1> DEFINE f == [l \in Into(b) |-> In(l)]
<1>1. IsFiniteSet(Into(b))
  BY GraphFacts, FS_Subset DEF Into
<1>2. f \in Surjection(Into(b), Inputs(b))
  BY DEF Surjection, Inputs, Into
<1>3. OneDriver => f \in Injection(Into(b), Inputs(b))
  <2> SUFFICES ASSUME OneDriver PROVE f \in Injection(Into(b), Inputs(b))
    OBVIOUS
  <2>1. f \in [Into(b) -> Inputs(b)]
    BY <1>2 DEF Surjection
  <2>2. \A k, l \in Into(b) : f[k] = f[l] => k = l
    BY DEF OneDriver, Into
  <2> QED
    BY <2>1, <2>2 DEF Injection, IsInjective
<1>4. /\ IsFiniteSet(Inputs(b))
      /\ Cardinality(Inputs(b)) <= Cardinality(Into(b))
      /\ Cardinality(Inputs(b)) = Cardinality(Into(b)) <=> f \in Injection(Into(b), Inputs(b))
  BY <1>1, <1>2, FS_Surjection
<1> QED
  BY <1>1, <1>3, <1>4, FS_CardinalityType

\* The graph does not change.
LEMMA GraphKept ==
    ASSUME [Next]_vars
    PROVE  graph' = graph
BY DEF Next, Step, Done, vars, Visit, BeginLoop, Pop, Follow, Finish

-----------------------------------------------------------------------------
(***************************************************************************)
(* The inductive invariant.                                                *)
(***************************************************************************)
\* The order the blocks have or will have.
Order == sorted \o q

\* The lines that were followed.
Followed == {l \in Lines : Src(l) \in Range(sorted) /\ l \notin todo}

Visited(b) == pc # "degrees" \/ b < slot

\* A counter is what it started from less the lines that were followed.
DegreeInv ==
    \A b \in Blocks :
        Visited(b) => inDegree[b] = Degree(b) - Cardinality(Into(b) \cap Followed)

\* A block is queued or in the order if its counter is not positive.
QueueInv ==
    \A b \in Blocks : b \in Range(Order) <=> Visited(b) /\ inDegree[b] <= 0

PhaseInv ==
    /\ pc = "degrees" => sorted = <<>> /\ todo = {}
    /\ pc = "done" => /\ q = <<>> /\ todo = {}
                      /\ outcome = IF Len(sorted) < Cardinality(Blocks \ graph.outports)
                                   THEN "thrown" ELSE "sorted"
    /\ \A l \in todo : Src(l) \in Range(sorted)

SortInv == TypeOK /\ DegreeInv /\ QueueInv /\ PhaseInv

LEMMA FollowedFacts ==
    ASSUME TypeOK, NEW b
    PROVE  /\ IsFiniteSet(Into(b) \cap Followed)
           /\ Cardinality(Into(b) \cap Followed) \in Nat
BY GraphFacts, FS_Subset, FS_CardinalityType DEF Into, Followed

LEMMA DegreeType ==
    ASSUME TypeOK, NEW b \in Blocks
    PROVE  /\ Degree(b) \in Nat
           /\ Degree(b) = 0 => Inputs(b) = {} \/ b \in Delays
BY PortsAndLines, FS_EmptySet DEF Degree

LEMMA OrderType ==
    ASSUME TypeOK
    PROVE  /\ sorted \in Seq(Blocks) /\ q \in Seq(Blocks) /\ Order \in Seq(Blocks)
           /\ Range(Order) = Range(sorted) \cup Range(q)
           /\ Distinct(Order)
BY RangeConcatenation DEF TypeOK, Order, Distinct

LEMMA OrderGrows ==
    ASSUME TypeOK, NEW x \in Blocks
    PROVE  /\ Range(Append(Order, x)) = Range(Order) \cup {x}
           /\ x \notin Range(Order) => Distinct(Append(Order, x))
<1>1. Order \in Seq(Blocks) /\ Distinct(Order)
  BY OrderType
<1> QED
  BY <1>1, AppendRange

\* The block at the head of the queue is not in the order yet.
LEMMA HeadIsNew ==
    ASSUME TypeOK, q # <<>>
    PROVE  /\ Head(q) \in Blocks /\ Head(q) \in Range(Order)
           /\ Head(q) \notin Range(sorted)
           /\ Append(sorted, Head(q)) \in Seq(Blocks) /\ Tail(q) \in Seq(Blocks)
           /\ Append(sorted, Head(q)) \o Tail(q) = Order
<1> USE OrderType
<1>1. /\ Head(q) \in Blocks /\ Tail(q) \in Seq(Blocks)
      /\ Append(sorted, Head(q)) \o Tail(q) = Order
  BY MoveHead DEF Order
<1>2. Len(q) > 0 /\ q[1] = Head(q) /\ Len(sorted) \in Nat /\ Len(q) \in Nat
  OBVIOUS
<1>3. /\ DOMAIN Order = 1 .. Len(sorted) + Len(q)
      /\ Order[Len(sorted) + 1] = q[1]
      /\ \A i \in 1 .. Len(sorted) : Order[i] = sorted[i]
  BY <1>2 DEF Order
<1>4. Head(q) \in Range(Order)
  BY <1>2, <1>3 DEF Range
<1>5. Head(q) \notin Range(sorted)
  <2> SUFFICES ASSUME NEW i \in 1 .. Len(sorted), sorted[i] = Head(q) PROVE FALSE
    BY DEF Range
  <2>1. Order[i] = Order[Len(sorted) + 1]
    BY <1>2, <1>3
  <2>2. i \in DOMAIN Order /\ Len(sorted) + 1 \in DOMAIN Order
    BY <1>2, <1>3
  <2>3. i = Len(sorted) + 1
    BY <2>1, <2>2 DEF Distinct
  <2> QED
    BY <1>2, <2>3
<1> QED
  BY <1>1, <1>4, <1>5

\* What a call begins with; Filter calls it with graphs of its own.
Begun ==
    /\ WellFormed(graph)
    /\ pc = "degrees" /\ slot = 0
    /\ inDegree = [b \in Blocks |-> 0]
    /\ q = <<>> /\ sorted = <<>>
    /\ todo = {} /\ port = {}
    /\ outcome = "none"

LEMMA BegunHolds == Begun => SortInv
<1> SUFFICES ASSUME Begun PROVE SortInv
  OBVIOUS
<1>1. WellFormed(graph)
  BY DEF Begun
<1>2. Order = <<>> /\ Range(Order) = {} /\ DOMAIN (sorted \o q) = {}
  BY DEF Begun, Order, Range
<1>3. 0 \in 0 .. graph.size
  BY <1>1 DEF WellFormed
<1>4. TypeOK
  BY <1>1, <1>2, <1>3 DEF Begun, TypeOK, Blocks
<1>5. \A b \in Blocks : ~Visited(b)
  BY <1>1 DEF Begun, Visited, WellFormed, Blocks
<1> QED
  BY <1>2, <1>4, <1>5 DEF SortInv, DegreeInv, QueueInv, PhaseInv, Begun

LEMMA SortInit == Init => SortInv
BY BegunHolds, GraphsAssumption DEF Init, Begun

-----------------------------------------------------------------------------
(***************************************************************************)
(* The steps.                                                              *)
(***************************************************************************)
\* What a step makes of what the graph says.
LEMMA Kept ==
    ASSUME [Next]_vars
    PROVE  /\ Blocks' = Blocks /\ Delays' = Delays /\ Lines' = Lines
           /\ \A b : Into(b)' = Into(b) /\ Inputs(b)' = Inputs(b) /\ Degree(b)' = Degree(b)
           /\ \A l : Src(l)' = Src(l) /\ Dst(l)' = Dst(l) /\ In(l)' = In(l)
           /\ OneDriver' = OneDriver
<1>1. graph' = graph
  BY GraphKept
<1>2. Blocks' = Blocks /\ Delays' = Delays /\ Lines' = Lines
  BY <1>1 DEF Blocks, Delays, Lines
<1>3. \A l : Src(l)' = Src(l) /\ Dst(l)' = Dst(l) /\ In(l)' = In(l)
  BY <1>1 DEF Src, Dst, In
<1>4. \A b : Into(b)' = Into(b) /\ Inputs(b)' = Inputs(b)
  BY <1>2, <1>3 DEF Into, Inputs
<1>5. \A b : Degree(b)' = Degree(b)
  BY <1>2, <1>4 DEF Degree
<1>6. OneDriver' = OneDriver
  BY <1>2, <1>3 DEF OneDriver
<1> QED
  BY <1>2, <1>3, <1>4, <1>5, <1>6

\* A block that is visited is not in the queue before.
LEMMA SlotIsNew ==
    ASSUME SortInv, pc = "degrees", slot \in Blocks
    PROVE  slot \notin Range(Order)
BY GraphFacts DEF SortInv, QueueInv, Visited

\* A block whose counter falls to zero is not in the queue before.
LEMMA FreedIsNew ==
    ASSUME SortInv, NEW b \in Blocks, inDegree[b] = 1
    PROVE  b \notin Range(Order)
BY DEF SortInv, QueueInv

LEMMA VisitOrder ==
    ASSUME SortInv, Visit
    PROVE  /\ sorted' = <<>> /\ q' \in Seq(Blocks)
           /\ \/ /\ slot \in Blocks /\ Degree(slot) = 0
                 /\ Order' = Append(Order, slot)
              \/ /\ ~(slot \in Blocks /\ Degree(slot) = 0)
                 /\ Order' = Order
<1>1. sorted = <<>> /\ sorted' = <<>>
  BY DEF Visit, SortInv, PhaseInv
<1>2. q \in Seq(Blocks)
  BY DEF SortInv, TypeOK
<1>3. Order = q /\ Order' = q'
  <2>1. q' \in Seq(Blocks)
    BY <1>2 DEF Visit
  <2> QED
    BY <1>1, <1>2, <2>1, ConcatEmptySeq DEF Order
<1> QED
  BY <1>1, <1>2, <1>3 DEF Visit

LEMMA FollowOrder ==
    ASSUME SortInv, NEW l \in Lines, Follow(l)
    PROVE  /\ q' \in Seq(Blocks)
           /\ \/ inDegree[Dst(l)] = 1 /\ Order' = Append(Order, Dst(l))
              \/ inDegree[Dst(l)] # 1 /\ Order' = Order
<1>1. Dst(l) \in Blocks
  BY GraphFacts DEF SortInv
<1>2. sorted \in Seq(Blocks) /\ q \in Seq(Blocks) /\ sorted' = sorted
  BY DEF SortInv, TypeOK, Follow
<1>3. sorted \o Append(q, Dst(l)) = Append(sorted \o q, Dst(l))
  <2>1. Append(q, Dst(l)) = q \o <<Dst(l)>>
    BY <1>1, <1>2, AppendIsConcat
  <2>2. Append(sorted \o q, Dst(l)) = (sorted \o q) \o <<Dst(l)>>
    BY <1>1, <1>2, AppendIsConcat
  <2>3. sorted \o (q \o <<Dst(l)>>) = (sorted \o q) \o <<Dst(l)>>
    BY <1>1, <1>2, ConcatAssociative
  <2> QED
    BY <2>1, <2>2, <2>3
<1> QED
  BY <1>1, <1>2, <1>3 DEF Follow, Order

LEMMA PopOrder ==
    ASSUME SortInv, Pop
    PROVE  Order' = Order
BY HeadIsNew DEF SortInv, Pop, Order

\* The lines followed: one more with Follow, and no other step changes them.
LEMMA FollowedNext ==
    ASSUME SortInv, [Next]_vars
    PROVE  \/ Followed' = Followed /\ ~\E l \in Lines : Follow(l)
           \/ \E l \in Lines : /\ Follow(l) /\ l \in todo /\ l \notin Followed
                                /\ Followed' = Followed \cup {l}
<1>1. CASE Visit
  BY <1>1, Kept DEF Visit, Followed, Follow
<1>2. CASE BeginLoop
  BY <1>2, Kept DEF BeginLoop, Followed, Follow
<1>3. CASE Pop
  <2>1. todo = {} /\ q # <<>> /\ sorted' = Append(sorted, Head(q))
        /\ todo' = {l \in Lines : Src(l) = Head(q)}
    BY <1>3 DEF Pop
  <2>2. Range(sorted') = Range(sorted) \cup {Head(q)} /\ Head(q) \notin Range(sorted)
    BY <2>1, HeadIsNew, OrderType, AppendRange DEF SortInv
  <2>3. \A l \in Lines : l \in Followed' <=> l \in Followed
    BY <2>1, <2>2, Kept DEF Followed
  <2>4. Followed' = Followed
    BY <2>3, Kept DEF Followed
  <2> QED
    BY <2>1, <2>4 DEF Follow, NextLines
<1>4. CASE \E l \in Lines : Follow(l)
  <2>1. PICK l \in Lines : Follow(l)
    BY <1>4
  <2>2. l \in todo /\ todo' = todo \ {l} /\ sorted' = sorted
    BY <2>1 DEF Follow, NextLines
  <2>3. Src(l) \in Range(sorted)
    BY <2>2 DEF SortInv, PhaseInv
  <2>4. l \notin Followed /\ Followed' = Followed \cup {l}
    BY <2>2, <2>3, Kept DEF Followed
  <2> QED
    BY <2>1, <2>2, <2>4
<1>5. CASE Finish
  BY <1>5, Kept DEF Finish, Followed, Follow, NextLines
<1>6. CASE UNCHANGED vars
  <2>1. Followed' = Followed
    BY <1>6, Kept DEF vars, Followed
  <2>2. ~\E l \in Lines : Follow(l)
    BY <1>6 DEF vars, Follow, NextLines
  <2> QED
    BY <2>1, <2>2
<1> QED
  BY <1>1, <1>2, <1>3, <1>4, <1>5, <1>6 DEF Next, Step, Done

LEMMA DegreeNext == SortInv /\ [Next]_vars => DegreeInv'
<1> SUFFICES ASSUME SortInv, [Next]_vars, NEW b \in Blocks, Visited(b)'
             PROVE  inDegree'[b] = Degree(b) - Cardinality(Into(b) \cap Followed')
  BY Kept DEF DegreeInv
<1> USE DEF SortInv
<1>0. inDegree \in [Blocks -> Int]
  BY DEF TypeOK
<1>1. CASE Visit
  <2>1. Followed' = Followed
    BY <1>1, FollowedNext DEF Visit, Follow
  <2>2. CASE b = slot
    <3>1. sorted = <<>>
      BY <1>1 DEF Visit, PhaseInv
    <3>2. Into(b) \cap Followed' = {}
      BY <2>1, <3>1 DEF Followed, Range
    <3>3. inDegree'[b] = Degree(b)
      BY <1>0, <1>1, <2>2 DEF Visit
    <3> QED
      BY <3>2, <3>3, FS_EmptySet, DegreeType
  <2>3. CASE b # slot
    <3>1. Visited(b)
      <4>1. b \in Int /\ slot \in Int
        BY GraphFacts DEF TypeOK
      <4> QED
        BY <1>1, <2>3, <4>1 DEF Visit, Visited
    <3>2. inDegree'[b] = inDegree[b]
      BY <1>0, <1>1, <2>3 DEF Visit
    <3> QED
      BY <2>1, <3>1, <3>2 DEF DegreeInv
  <2> QED
    BY <2>2, <2>3
<1>2. CASE BeginLoop \/ Pop \/ Finish \/ UNCHANGED vars
  <2>1. inDegree' = inDegree /\ Followed' = Followed
    BY <1>2, FollowedNext DEF BeginLoop, Pop, Finish, vars, Follow, NextLines
  <2>2. Visited(b)
    BY <1>2, GraphFacts DEF BeginLoop, Pop, Finish, vars, Visited, TypeOK
  <2> QED
    BY <2>1, <2>2 DEF DegreeInv
<1>3. CASE \E l \in Lines : Follow(l)
  <2>1. PICK l \in Lines : Follow(l) /\ l \notin Followed /\ Followed' = Followed \cup {l}
    BY <1>3, FollowedNext
  <2>2. inDegree' = [inDegree EXCEPT ![Dst(l)] = @ - 1] /\ Visited(b)
    BY <2>1 DEF Follow, Visited
  <2>3. inDegree[b] = Degree(b) - Cardinality(Into(b) \cap Followed)
    BY <2>2 DEF DegreeInv
  <2>4. CASE Dst(l) = b
    <3>1. Into(b) \cap Followed' = (Into(b) \cap Followed) \cup {l}
      BY <2>1, <2>4 DEF Into
    <3>2. Cardinality(Into(b) \cap Followed') = Cardinality(Into(b) \cap Followed) + 1
      BY <2>1, <3>1, FollowedFacts, FS_AddElement
    <3>3. inDegree'[b] = inDegree[b] - 1
      BY <1>0, <2>2, <2>4
    <3> QED
      BY <2>3, <3>2, <3>3, FollowedFacts, DegreeType
  <2>5. CASE Dst(l) # b
    <3>1. Into(b) \cap Followed' = Into(b) \cap Followed
      BY <2>1, <2>5 DEF Into
    <3>2. inDegree'[b] = inDegree[b]
      BY <1>0, <2>2, <2>5
    <3> QED
      BY <2>3, <3>1, <3>2
  <2> QED
    BY <2>4, <2>5
<1> QED
  BY <1>1, <1>2, <1>3 DEF Next, Step, Done

LEMMA QueueNext == SortInv /\ [Next]_vars => QueueInv'
<1> SUFFICES ASSUME SortInv, [Next]_vars, NEW b \in Blocks
             PROVE  b \in Range(Order') <=> Visited(b)' /\ inDegree'[b] <= 0
  BY Kept DEF QueueInv
<1> USE DEF SortInv
<1>0. inDegree \in [Blocks -> Int] /\ Order \in Seq(Blocks)
  BY OrderType DEF TypeOK
<1>1. CASE Visit
  <2>1. CASE b = slot
    <3>1. inDegree'[b] = Degree(b) /\ Visited(b)'
      BY <1>0, <1>1, <2>1, GraphFacts DEF Visit, Visited
    <3>2. b \in Range(Order') <=> Degree(b) = 0
      <4>1. b \notin Range(Order)
        BY <1>1, <2>1, SlotIsNew DEF Visit
      <4>2. Range(Append(Order, b)) = Range(Order) \cup {b}
        BY OrderGrows
      <4>3. \/ Degree(b) = 0 /\ Order' = Append(Order, b)
            \/ Degree(b) # 0 /\ Order' = Order
        BY <1>1, <2>1, VisitOrder
      <4> QED
        BY <4>1, <4>2, <4>3
    <3> QED
      BY <3>1, <3>2, DegreeType
  <2>2. CASE b # slot
    <3>1. Visited(b)' <=> Visited(b)
      <4>1. b \in Int /\ slot \in Int
        BY GraphFacts DEF TypeOK
      <4> QED
        BY <1>1, <2>2, <4>1 DEF Visit, Visited
    <3>2. inDegree'[b] = inDegree[b]
      BY <1>0, <1>1, <2>2 DEF Visit
    <3>3. b \in Range(Order') <=> b \in Range(Order)
      <4>1. slot \in Blocks => Range(Append(Order, slot)) = Range(Order) \cup {slot}
        BY OrderGrows
      <4> QED
        BY <1>1, <2>2, <4>1, VisitOrder
    <3> QED
      BY <3>1, <3>2, <3>3 DEF QueueInv
  <2> QED
    BY <2>1, <2>2
<1>2. CASE BeginLoop \/ Pop \/ Finish \/ UNCHANGED vars
  <2>1. inDegree' = inDegree /\ Order' = Order
    BY <1>2, PopOrder DEF BeginLoop, Pop, Finish, vars, Order
  <2>2. Visited(b)' <=> Visited(b)
    <3>1. CASE BeginLoop
      <4>1. b < slot
        BY <3>1, GraphFacts DEF BeginLoop
      <4> QED
        BY <3>1, <4>1 DEF BeginLoop, Visited
    <3>2. CASE Pop \/ UNCHANGED vars
      BY <3>2 DEF Pop, vars, Visited
    <3>3. CASE Finish
      BY <3>3 DEF Finish, Visited
    <3> QED
      BY <1>2, <3>1, <3>2, <3>3
  <2> QED
    BY <2>1, <2>2 DEF QueueInv
<1>3. ASSUME NEW l \in Lines, Follow(l)
      PROVE  b \in Range(Order') <=> Visited(b)' /\ inDegree'[b] <= 0
  <2>1. /\ inDegree' = [inDegree EXCEPT ![Dst(l)] = @ - 1]
        /\ Visited(b) /\ Visited(b)'
    BY <1>3 DEF Follow, Visited
  <2>2. b \in Range(Order) <=> inDegree[b] <= 0
    BY <2>1 DEF QueueInv
  <2>3. Range(Append(Order, Dst(l))) = Range(Order) \cup {Dst(l)}
    BY GraphFacts, OrderGrows
  <2>4. CASE Dst(l) = b
    <3>1. inDegree'[b] = inDegree[b] - 1 /\ inDegree[b] \in Int
      BY <1>0, <2>1, <2>4
    <3>2. b \in Range(Order') <=> b \in Range(Order) \/ inDegree[b] = 1
      BY <1>3, <2>3, <2>4, FollowOrder
    <3> QED
      BY <2>1, <2>2, <3>1, <3>2
  <2>5. CASE Dst(l) # b
    <3>1. inDegree'[b] = inDegree[b]
      BY <1>0, <2>1, <2>5
    <3>2. b \in Range(Order') <=> b \in Range(Order)
      BY <1>3, <2>3, <2>5, FollowOrder
    <3> QED
      BY <2>1, <2>2, <3>1, <3>2
  <2> QED
    BY <2>4, <2>5
<1> QED
  BY <1>1, <1>2, <1>3 DEF Next, Step, Done

LEMMA PhaseNext == SortInv /\ [Next]_vars => PhaseInv'
<1> SUFFICES ASSUME SortInv, [Next]_vars PROVE PhaseInv'
  OBVIOUS
<1> USE DEF SortInv, PhaseInv
<1>1. CASE Visit
  BY <1>1 DEF Visit
<1>2. CASE BeginLoop
  BY <1>2 DEF BeginLoop
<1>3. CASE Pop
  <2>1. pc = "loop" /\ pc' = pc /\ sorted' = Append(sorted, Head(q))
        /\ todo' = {l \in Lines : Src(l) = Head(q)}
    BY <1>3 DEF Pop
  <2>2. Range(sorted') = Range(sorted) \cup {Head(q)}
    BY <1>3, <2>1, HeadIsNew, OrderType, AppendRange DEF Pop
  <2>3. \A l \in todo' : Src(l)' \in Range(sorted')
    BY <2>1, <2>2, Kept
  <2> QED
    BY <2>1, <2>3
<1>4. ASSUME NEW l \in Lines, Follow(l) PROVE PhaseInv'
  <2>1. pc = "loop" /\ pc' = pc /\ sorted' = sorted /\ todo' = todo \ {l}
    BY <1>4 DEF Follow
  <2>2. \A k \in todo' : Src(k)' \in Range(sorted')
    BY <2>1, Kept
  <2> QED
    BY <2>1, <2>2
<1>5. CASE Finish
  BY <1>5, Kept DEF Finish, Blocks
<1>6. CASE UNCHANGED vars
  BY <1>6, Kept DEF vars
<1> QED
  BY <1>1, <1>2, <1>3, <1>4, <1>5, <1>6 DEF Next, Step, Done

LEMMA TypeNext == SortInv /\ [Next]_vars => TypeOK'
<1> SUFFICES ASSUME SortInv, [Next]_vars PROVE TypeOK'
  OBVIOUS
<1> USE DEF SortInv
<1>1. WellFormed(graph)' /\ graph' = graph /\ Blocks' = Blocks /\ Lines' = Lines
  BY GraphKept, Kept DEF TypeOK, WellFormed
<1>2. Distinct(Order')
  <2>1. Order \in Seq(Blocks) /\ Distinct(Order)
    BY OrderType
  <2>2. CASE Visit
    <3>1. slot \in Blocks => slot \notin Range(Order)
      BY <2>2, SlotIsNew DEF Visit
    <3>2. slot \in Blocks => Distinct(Append(Order, slot))
      BY <3>1, OrderGrows
    <3> QED
      BY <2>1, <2>2, <3>2, VisitOrder
  <2>3. ASSUME NEW l \in Lines, Follow(l) PROVE Distinct(Order')
    <3>1. Dst(l) \in Blocks
      BY GraphFacts
    <3>2. inDegree[Dst(l)] = 1 => Distinct(Append(Order, Dst(l)))
      BY <3>1, FreedIsNew, OrderGrows
    <3> QED
      BY <2>1, <2>3, <3>2, FollowOrder
  <2>4. CASE BeginLoop \/ Pop \/ Finish \/ UNCHANGED vars
    BY <2>1, <2>4, PopOrder DEF BeginLoop, Finish, vars, Order
  <2> QED
    BY <2>2, <2>3, <2>4 DEF Next, Step, Done
<1>3. q' \in Seq(Blocks) /\ sorted' \in Seq(Blocks)
  <2>1. q \in Seq(Blocks) /\ sorted \in Seq(Blocks)
    BY OrderType
  <2>2. CASE Visit
    BY <2>1, <2>2, VisitOrder DEF Visit
  <2>3. ASSUME NEW l \in Lines, Follow(l) PROVE q' \in Seq(Blocks) /\ sorted' \in Seq(Blocks)
    BY <2>1, <2>3, FollowOrder DEF Follow
  <2>4. CASE Pop
    BY <2>1, <2>4, HeadIsNew DEF Pop
  <2>5. CASE BeginLoop \/ Finish \/ UNCHANGED vars
    BY <2>1, <2>5 DEF BeginLoop, Finish, vars
  <2> QED
    BY <2>2, <2>3, <2>4, <2>5 DEF Next, Step, Done
<1>4. inDegree' \in [Blocks -> Int]
  <2>1. inDegree \in [Blocks -> Int]
    BY DEF TypeOK
  <2>2. CASE Visit
    BY <2>1, <2>2, DegreeType DEF Visit
  <2>3. ASSUME NEW l \in Lines, Follow(l) PROVE inDegree' \in [Blocks -> Int]
    BY <2>1, <2>3, GraphFacts DEF Follow
  <2>4. CASE BeginLoop \/ Pop \/ Finish \/ UNCHANGED vars
    BY <2>1, <2>4 DEF BeginLoop, Pop, Finish, vars
  <2> QED
    BY <2>2, <2>3, <2>4 DEF Next, Step, Done
<1>5. /\ pc' \in {"degrees", "loop", "done"} /\ slot' \in 0 .. graph.size
      /\ outcome' \in {"none", "sorted", "thrown"}
  BY GraphFacts DEF TypeOK, Next, Step, Done, vars, Visit, BeginLoop, Pop, Follow, Finish
<1>6. todo' \subseteq Lines /\ port' \subseteq Int
  <2>1. todo \subseteq Lines /\ port \subseteq Int
    BY DEF TypeOK
  <2>2. \A l \in Lines : Out(l) \in Int
    <3>1. graph.lines \in Seq(Line(graph.blocks))
      BY DEF TypeOK, WellFormed
    <3>2. \A l \in Lines : graph.lines[l] \in Line(graph.blocks)
      BY <3>1 DEF Lines
    <3> QED
      BY <3>2 DEF Out, Line
  <2> QED
    BY <2>1, <2>2 DEF Next, Step, Done, vars, Visit, BeginLoop, Pop, Follow, Finish
<1> QED
  BY <1>1, <1>2, <1>3, <1>4, <1>5, <1>6 DEF TypeOK, Distinct, Order

LEMMA SortNext == SortInv /\ [Next]_vars => SortInv'
BY TypeNext, DegreeNext, QueueNext, PhaseNext DEF SortInv

\* What the two loops of TopologicalSort (code-generator.cpp:40-75) keep
\* together: counters, followed lines, queue and order.
THEOREM SortHolds == Spec => []SortInv
BY SortInit, SortNext, PTL DEF Spec

\* Types; and no block is queued twice, although the counter of one whose ports
\* are driven more than once passes below zero (code-generator.cpp:68-72).
THEOREM TypesHold == Spec => []TypeOK
<1>1. SortInv => TypeOK
  BY DEF SortInv
<1> QED
  BY SortHolds, <1>1, PTL

-----------------------------------------------------------------------------
(***************************************************************************)
(* Inputs first, and what that means for loops.                            *)
(***************************************************************************)
\* When every port has one line, a block that is queued has all lines followed.
LEMMA QueuedIsFed ==
    ASSUME SortInv, OneDriver, NEW b \in Plain, b \in Range(Order),
           NEW l \in Lines, Dst(l) = b
    PROVE  Src(l) \in Range(sorted)
<1> DEFINE F == Into(b) \cap Followed
<1>1. TypeOK /\ b \in Blocks /\ b \notin Delays
  BY DEF SortInv, Plain
<1>2. inDegree[b] <= 0 /\ inDegree[b] = Degree(b) - Cardinality(F)
  BY <1>1 DEF SortInv, QueueInv, DegreeInv
<1>3. Degree(b) = Cardinality(Into(b))
  BY <1>1, PortsAndLines DEF Degree
<1>4. IsFiniteSet(Into(b)) /\ Cardinality(Into(b)) \in Nat /\ Cardinality(F) \in Nat
  BY <1>1, PortsAndLines, FollowedFacts
<1>5. Cardinality(Into(b)) <= Cardinality(F)
  BY <1>2, <1>3, <1>4
<1>6. F \in SUBSET Into(b)
  OBVIOUS
<1>7. F = Into(b)
  <2>1. /\ Cardinality(F) <= Cardinality(Into(b))
        /\ Cardinality(Into(b)) = Cardinality(F) => Into(b) = F
    BY <1>4, <1>6, FS_Subset
  <2> QED
    BY <1>4, <1>5, <2>1
<1>8. l \in Followed
  BY <1>7 DEF Into
<1> QED
  BY <1>8 DEF Followed

\* The order grows by the head of the queue, or not at all.
LEMMA OrderStep ==
    ASSUME SortInv, [Next]_vars
    PROVE  \/ sorted' = sorted
           \/ /\ q # <<>> /\ sorted' = Append(sorted, Head(q))
              /\ Head(q) \in Blocks /\ Head(q) \in Range(Order)
<1>1. CASE Pop
  BY <1>1, HeadIsNew DEF Pop, SortInv
<1>2. CASE ~Pop
  BY <1>2 DEF Next, Step, Done, vars, Visit, BeginLoop, Follow, Finish
<1> QED
  BY <1>1, <1>2

LEMMA InputsFirstNext == SortInv /\ InputsFirst /\ [Next]_vars => InputsFirst'
<1> SUFFICES ASSUME SortInv, InputsFirst, [Next]_vars PROVE InputsFirst'
  OBVIOUS
<1>a. Plain' = Plain
  BY Kept DEF Plain
<1>b. Lines' = Lines /\ OneDriver' = OneDriver /\ \A l : Dst(l)' = Dst(l) /\ Src(l)' = Src(l)
  BY Kept
<1> SUFFICES ASSUME OneDriver, NEW i \in DOMAIN sorted', sorted'[i] \in Plain
             PROVE  Fed(sorted[i], i)'
  BY <1>a, <1>b DEF InputsFirst
<1> SUFFICES ASSUME NEW l \in Lines, Dst(l) = sorted'[i]
             PROVE  \E j \in 1 .. i - 1 : sorted'[j] = Src(l)
  BY <1>b DEF Fed
<1>1. sorted \in Seq(Blocks)
  BY DEF SortInv, TypeOK
<1>2. CASE sorted' = sorted
  BY <1>2 DEF InputsFirst, Fed
<1>3. CASE /\ q # <<>> /\ sorted' = Append(sorted, Head(q))
           /\ Head(q) \in Blocks /\ Head(q) \in Range(Order)
  <2>1. /\ DOMAIN sorted = 1 .. Len(sorted) /\ Len(sorted) \in Nat
        /\ DOMAIN sorted' = 1 .. Len(sorted) + 1
        /\ \A j \in 1 .. Len(sorted) : sorted'[j] = sorted[j]
        /\ sorted'[Len(sorted) + 1] = Head(q)
    BY <1>1, <1>3
  <2>2. CASE i \in 1 .. Len(sorted)
    <3>1. sorted'[i] = sorted[i]
      BY <2>1, <2>2
    <3>2. PICK j \in 1 .. i - 1 : sorted[j] = Src(l)
      BY <2>1, <2>2, <3>1 DEF InputsFirst, Fed
    <3>3. j \in 1 .. Len(sorted)
      BY <2>1, <2>2
    <3> QED
      BY <2>1, <3>2, <3>3
  <2>3. CASE i = Len(sorted) + 1
    <3>1. Src(l) \in Range(sorted)
      BY <1>3, <2>1, <2>3, QueuedIsFed
    <3>2. PICK j \in 1 .. Len(sorted) : sorted[j] = Src(l)
      BY <2>1, <3>1 DEF Range
    <3> QED
      BY <2>1, <2>3, <3>2
  <2> QED
    BY <2>1, <2>2, <2>3
<1> QED
  BY <1>2, <1>3, OrderStep

\* GenStep computes a block after everything it reads (code-generator.cpp:134):
\* a block is queued only when all its lines were followed (70-72).
THEOREM SortsInputsFirst == Spec => []InputsFirst
<1>1. Init => InputsFirst
  BY DEF Init, InputsFirst
<1> QED
  BY SortHolds, <1>1, InputsFirstNext, PTL DEF Spec

\* A loop without a UnitDelay never gets into the order: its first block would
\* read one that comes later.
Barred == OneDriver => \A S : Loop(S) => S \cap Range(sorted) = {}

LEMMA BarredNext == SortInv /\ Barred /\ [Next]_vars => Barred'
<1> SUFFICES ASSUME SortInv, Barred, [Next]_vars PROVE Barred'
  OBVIOUS
<1>1. \A S : Loop(S)' <=> Loop(S)
  <2>1. Plain' = Plain
    BY Kept DEF Plain
  <2> QED
    BY <2>1, Kept DEF Loop
<1> SUFFICES ASSUME OneDriver, NEW S, Loop(S) PROVE S \cap Range(sorted') = {}
  BY <1>1, Kept DEF Barred
<1>2. S \cap Range(sorted) = {}
  BY DEF Barred
<1>3. CASE sorted' = sorted
  BY <1>2, <1>3
<1>4. CASE /\ q # <<>> /\ sorted' = Append(sorted, Head(q))
           /\ Head(q) \in Blocks /\ Head(q) \in Range(Order)
  <2>1. Range(sorted') = Range(sorted) \cup {Head(q)}
    BY <1>4, AppendRange DEF SortInv, TypeOK
  <2>2. Head(q) \notin S
    <3> SUFFICES ASSUME Head(q) \in S PROVE FALSE
      OBVIOUS
    <3>1. PICK l \in Lines : Dst(l) = Head(q) /\ Src(l) \in S
      BY DEF Loop
    <3>2. Head(q) \in Plain
      BY DEF Loop
    <3>3. Src(l) \in Range(sorted)
      BY <1>4, <3>1, <3>2, QueuedIsFed
    <3> QED
      BY <1>2, <3>1, <3>3
  <2> QED
    BY <1>2, <2>1, <2>2
<1> QED
  BY <1>3, <1>4, OrderStep

LEMMA DoneFacts ==
    ASSUME SortInv, pc = "done"
    PROVE  /\ Order = sorted /\ \A b : Visited(b)
           /\ Followed = {l \in Lines : Src(l) \in Range(sorted)}
           /\ Range(sorted) \subseteq Blocks /\ IsFiniteSet(Blocks)
           /\ Len(sorted) = Cardinality(Range(sorted))
           /\ outcome = IF Len(sorted) < Cardinality(Blocks \ graph.outports)
                        THEN "thrown" ELSE "sorted"
<1>1. q = <<>> /\ todo = {} /\ sorted \in Seq(Blocks) /\ TypeOK
  BY DEF SortInv, PhaseInv, TypeOK
<1>2. Order = sorted
  BY <1>1, ConcatEmptySeq DEF Order
<1>3. Len(sorted) = Cardinality(Range(sorted))
  BY <1>1, <1>2, OrderType, DistinctLen
<1>4. Range(sorted) \subseteq Blocks
  BY <1>1 DEF Range
<1> QED
  BY <1>1, <1>2, <1>3, <1>4, GraphFacts DEF Visited, Followed, SortInv, PhaseInv

\* What the order does not hold are blocks each of which waits for another.
LEMMA LeftIsLoop ==
    ASSUME SortInv, pc = "done", Blocks \ Range(sorted) # {}
    PROVE  Loop(Blocks \ Range(sorted))
<1> DEFINE U == Blocks \ Range(sorted)
<1>1. TypeOK
  BY DEF SortInv
<1>2. ASSUME NEW b \in U
      PROVE  b \in Plain /\ \E l \in Lines : Dst(l) = b /\ Src(l) \in U
  <2> DEFINE F == Into(b) \cap Followed
  <2>1. ~(inDegree[b] <= 0) /\ inDegree[b] = Degree(b) - Cardinality(F)
    BY <1>2, DoneFacts DEF SortInv, QueueInv, DegreeInv
  <2>2. Degree(b) \in Nat /\ Cardinality(F) \in Nat
    BY <1>1, <1>2, DegreeType, FollowedFacts
  <2>3. Degree(b) > Cardinality(F) /\ Degree(b) # 0
    BY <2>1, <2>2
  <2>4. b \in Plain /\ Degree(b) = Cardinality(Inputs(b))
    BY <1>2, <2>3 DEF Plain, Degree
  <2>5. Cardinality(Inputs(b)) <= Cardinality(Into(b))
    BY <1>1, <1>2, PortsAndLines
  <2>6. F # Into(b)
    BY <1>1, <1>2, <2>2, <2>3, <2>4, <2>5, PortsAndLines
  <2>7. PICK l \in Lines : Dst(l) = b /\ l \notin Followed
    BY <2>6 DEF Into
  <2>8. Src(l) \in U
    BY <1>1, <2>7, DoneFacts, GraphFacts
  <2> QED
    BY <2>4, <2>7, <2>8
<1> QED
  BY <1>2 DEF Loop

\* A diagram in which every loop goes through a UnitDelay is accepted and
\* sorted completely (code-generator.cpp:87): what is left over would be a loop.
THEOREM SortsAcyclic == Spec => []AcyclicSorted
<1>1. SortInv => AcyclicSorted
  <2> SUFFICES ASSUME SortInv, pc = "done", ~Cyclic
               PROVE  outcome = "sorted" /\ Range(sorted) = Blocks
    BY DEF AcyclicSorted
  <2>1. \A S \in SUBSET Plain : ~Loop(S)
    BY DEF Cyclic
  <2>2. Range(sorted) = Blocks
    <3>1. ~Loop(Blocks \ Range(sorted))
      BY <2>1 DEF Loop
    <3> QED
      BY <3>1, LeftIsLoop, DoneFacts
  <2>3. /\ Cardinality(Blocks \ graph.outports) <= Cardinality(Blocks)
        /\ Cardinality(Blocks) \in Nat /\ Cardinality(Blocks \ graph.outports) \in Nat
    <3>1. IsFiniteSet(Blocks) /\ Blocks \ graph.outports \in SUBSET Blocks
      BY DoneFacts
    <3> QED
      BY <3>1, FS_Subset, FS_CardinalityType
  <2> QED
    BY <2>2, <2>3, DoneFacts
<1> QED
  BY SortHolds, <1>1, PTL

\* Without an Outport the comparison at the end (code-generator.cpp:82-88)
\* reports every loop that has no UnitDelay.
THEOREM ReportsCycles == Spec => []CyclesWithoutOutports
<1>1. Init => Barred
  <2> SUFFICES ASSUME Init PROVE Range(sorted) = {}
    BY DEF Barred
  <2> QED
    BY DEF Init, Range
<1>2. Spec => []Barred
  BY SortHolds, <1>1, BarredNext, PTL DEF Spec
<1>3. SortInv /\ Barred => CyclesWithoutOutports
  <2> SUFFICES ASSUME SortInv, Barred, pc = "done", OneDriver, graph.outports = {}, Cyclic
               PROVE  outcome = "thrown"
    BY DEF CyclesWithoutOutports
  <2>1. PICK S \in SUBSET Plain : Loop(S)
    BY DEF Cyclic
  <2>2. S # {} /\ S \subseteq Blocks /\ S \cap Range(sorted) = {}
    BY <2>1 DEF Loop, Plain, Barred
  <2>3. Range(sorted) \in SUBSET Blocks /\ Range(sorted) # Blocks /\ IsFiniteSet(Blocks)
    BY <2>2, DoneFacts
  <2>4. /\ Cardinality(Range(sorted)) <= Cardinality(Blocks)
        /\ Cardinality(Range(sorted)) # Cardinality(Blocks)
        /\ Cardinality(Range(sorted)) \in Nat /\ Cardinality(Blocks) \in Nat
    BY <2>3, FS_Subset, FS_CardinalityType
  <2>5. Blocks \ graph.outports = Blocks
    OBVIOUS
  <2> QED
    BY <2>4, <2>5, DoneFacts
<1> QED
  BY SortHolds, <1>2, <1>3, PTL

-----------------------------------------------------------------------------
(***************************************************************************)
(* The UnitDelays: they enter the queue in the first loop, which goes      *)
(* through the slots in order, and never in the second.                    *)
(***************************************************************************)
Waitless(b) == Inputs(b) = {} \/ b \in Delays

Ahead(b, d) == Waitless(b) /\ (b \in Delays => b < d)

DelayInv ==
    \A i, j \in DOMAIN Order : i < j /\ Order[j] \in Delays => Ahead(Order[i], Order[j])

\* What the first loop has queued lies before the slot it is at.
LEMMA QueuedBefore ==
    ASSUME SortInv, pc = "degrees", NEW b \in Range(Order)
    PROVE  Waitless(b) /\ b < slot
<1>1. TypeOK /\ sorted = <<>>
  BY DEF SortInv, PhaseInv
<1>2. b \in Blocks
  BY <1>1, OrderType DEF Range
<1>3. Visited(b) /\ inDegree[b] <= 0
  BY <1>2 DEF SortInv, QueueInv
<1>4. Followed = {}
  BY <1>1 DEF Followed, Range
<1>5. inDegree[b] = Degree(b)
  <2>1. inDegree[b] = Degree(b) - Cardinality(Into(b) \cap Followed)
    BY <1>2, <1>3 DEF SortInv, DegreeInv
  <2>2. Cardinality(Into(b) \cap Followed) = 0
    BY <1>4, FS_EmptySet
  <2> QED
    BY <1>1, <1>2, <2>1, <2>2, DegreeType
<1>6. Degree(b) = 0
  BY <1>1, <1>2, <1>3, <1>5, DegreeType
<1> QED
  BY <1>1, <1>2, <1>3, <1>6, DegreeType DEF Visited, Waitless

\* Whatever is queued later than the first loop is no UnitDelay.
LEMMA FreedIsPlain ==
    ASSUME SortInv, pc # "degrees", NEW b \in Blocks, inDegree[b] = 1
    PROVE  b \notin Delays
<1>1. inDegree[b] = Degree(b) - Cardinality(Into(b) \cap Followed)
  BY DEF SortInv, DegreeInv, Visited
<1> QED
  BY <1>1, FollowedFacts DEF Degree, SortInv

LEMMA QueueStep ==
    ASSUME SortInv, [Next]_vars
    PROVE  \/ Order' = Order
           \/ \E x \in Blocks : /\ Order' = Append(Order, x)
                                /\ x \in Delays => \A b \in Range(Order) : Ahead(b, x)
<1>1. CASE Visit
  <2>1. CASE Order' = Order
    BY <2>1
  <2>2. CASE slot \in Blocks /\ Order' = Append(Order, slot)
    BY <1>1, <2>2, QueuedBefore DEF Visit, Ahead
  <2> QED
    BY <1>1, <2>1, <2>2, VisitOrder
<1>2. ASSUME NEW l \in Lines, Follow(l), Order' # Order
      PROVE  \E x \in Blocks : Order' = Append(Order, x) /\ x \notin Delays
  <2>1. Dst(l) \in Blocks /\ pc # "degrees"
    BY <1>2, GraphFacts DEF SortInv, Follow
  <2>2. inDegree[Dst(l)] = 1 /\ Order' = Append(Order, Dst(l))
    BY <1>2, FollowOrder
  <2> QED
    BY <2>1, <2>2, FreedIsPlain
<1>3. CASE BeginLoop \/ Pop \/ Finish \/ UNCHANGED vars
  BY <1>3, PopOrder DEF BeginLoop, Finish, vars, Order
<1> QED
  BY <1>1, <1>2, <1>3 DEF Next, Step, Done

LEMMA DelayNext == SortInv /\ DelayInv /\ [Next]_vars => DelayInv'
<1> SUFFICES ASSUME SortInv, DelayInv, [Next]_vars PROVE DelayInv'
  OBVIOUS
<1>1. Delays' = Delays /\ \A b, d : Ahead(b, d)' <=> Ahead(b, d)
  BY Kept DEF Ahead, Waitless
<1> SUFFICES ASSUME NEW i \in DOMAIN Order', NEW j \in DOMAIN Order',
                    i < j, Order'[j] \in Delays
             PROVE  Ahead(Order'[i], Order'[j])
  BY <1>1 DEF DelayInv
<1>2. CASE Order' = Order
  BY <1>2 DEF DelayInv
<1>3. ASSUME NEW x \in Blocks, Order' = Append(Order, x),
             x \in Delays => \A b \in Range(Order) : Ahead(b, x)
      PROVE  Ahead(Order'[i], Order'[j])
  <2>1. Order \in Seq(Blocks)
    BY OrderType DEF SortInv
  <2>2. /\ DOMAIN Order = 1 .. Len(Order) /\ Len(Order) \in Nat
        /\ DOMAIN Order' = 1 .. Len(Order) + 1
        /\ \A k \in 1 .. Len(Order) : Order'[k] = Order[k]
        /\ Order'[Len(Order) + 1] = x
    BY <1>3, <2>1
  <2>3. i \in 1 .. Len(Order) /\ Order'[i] = Order[i] /\ Order[i] \in Range(Order)
    BY <2>2 DEF Range
  <2>4. CASE j \in 1 .. Len(Order)
    BY <2>2, <2>3, <2>4 DEF DelayInv
  <2>5. CASE j = Len(Order) + 1
    BY <1>3, <2>2, <2>3, <2>5
  <2> QED
    BY <2>2, <2>4, <2>5
<1> QED
  BY <1>2, <1>3, QueueStep

LEMMA DelaysAhead == SortInv /\ DelayInv => DelaysBySlot
<1> SUFFICES ASSUME SortInv, DelayInv, NEW i \in DOMAIN sorted, NEW j \in DOMAIN sorted,
                    i < j, sorted[j] \in Delays
             PROVE  Ahead(sorted[i], sorted[j])
  BY DEF DelaysBySlot, Ahead, Waitless
<1>1. sorted \in Seq(Blocks) /\ q \in Seq(Blocks)
  BY DEF SortInv, TypeOK
<1>2. \A k \in DOMAIN sorted : k \in DOMAIN Order /\ Order[k] = sorted[k]
  BY <1>1 DEF Order
<1> QED
  BY <1>2 DEF DelayInv

\* The UnitDelays come in the order of their SIDs, and ahead of every block
\* that waits for a line (code-generator.cpp:40-52): the order in which GenStep
\* updates them (159-170).
THEOREM DelaysInOrder == Spec => []DelaysBySlot
<1>1. Init => DelayInv
  BY DEF Init, DelayInv, Order
<1>2. Spec => []DelayInv
  BY SortHolds, <1>1, DelayNext, PTL DEF Spec
<1> QED
  BY SortHolds, <1>2, DelaysAhead, PTL

-----------------------------------------------------------------------------
(***************************************************************************)
(* For a program that calls TopologicalSort.                               *)
(***************************************************************************)
CallInv == SortInv /\ InputsFirst /\ DelayInv

LEMMA CallBegins == Begun => CallInv
<1>1. Begun => sorted = <<>> /\ Order = <<>>
  BY DEF Begun, Order
<1> QED
  BY <1>1, BegunHolds DEF CallInv, InputsFirst, DelayInv

LEMMA CallGoesOn == CallInv /\ [Next]_vars => CallInv'
BY SortNext, InputsFirstNext, DelayNext DEF CallInv

LEMMA CallGives == CallInv => TypeOK /\ InputsFirst /\ DelaysBySlot
BY DelaysAhead DEF CallInv, SortInv
=============================================================================
