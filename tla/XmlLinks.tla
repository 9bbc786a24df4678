------------------------------ MODULE XmlLinks ------------------------------
(***************************************************************************)
(* The document of tinyxml2: nodes linked to their parent, their siblings  *)
(* and their first and last child, the list _unlinked of the nodes nobody  *)
(* has inserted yet, and the counts of the pools nodes and attributes are  *)
(* allocated from.  This module has the calls that create, insert and      *)
(* unlink a node, and what frees one.                                      *)
(*                                                                         *)
(* A document is a value d; each operator is a member function, gives the  *)
(* document after the call and is defined for the calls the library        *)
(* allows.  Nodes are numbers, the document itself is node 0, and the      *)
(* pointers of a node are numbers or Nil.                                  *)
(***************************************************************************)
EXTENDS Integers, Sequences, SequencesExt

CONSTANT Nil

ASSUME NilAssumption == Nil \notin Int

Doc == 0
Kinds == {"element", "text", "cdata", "comment", "declaration", "unknown"}
Pools == {"element", "text", "comment", "attribute"}
PoolOf(kind) ==
    CASE kind = "element" -> "element" [] kind \in {"text", "cdata"} -> "text" [] OTHER -> "comment"

NewNode(kind, value) ==
    [kind |-> kind, value |-> value, attrs |-> <<>>, closing |-> "open",
     parent |-> Nil, first |-> Nil, last |-> Nil, prev |-> Nil, next |-> Nil]

EmptyDocument ==
    [node |-> [n \in {Doc} |-> NewNode("document", <<>>)], unlinked |-> <<>>,
     current |-> [p \in Pools |-> 0], untracked |-> [p \in Pools |-> 0],
     error |-> "success", depth |-> 0, bom |-> FALSE]

Nodes(d) == DOMAIN d.node \ {Doc}

\* Assigns to a member of a node, if there is one.
Set(d, n, member, x) == IF n = Nil THEN d ELSE [d EXCEPT !.node[n][member] = x]

\* A node is put between two others below a parent, or taken out.
Place(d, n, parent, prev, next) ==
    Set(Set(Set(d, n, "parent", parent), n, "prev", prev), n, "next", next)

-----------------------------------------------------------------------------
\* The node the next CreateUnlinkedNode returns.
Fresh(d) == Min(1 .. Cardinality(DOMAIN d.node) \ Nodes(d))

CreateUnlinkedNode(d, kind, value) ==
    [d EXCEPT !.node = [n \in DOMAIN @ \cup {Fresh(d)} |-> IF n = Fresh(d) THEN NewNode(kind, value) ELSE @[n]],
              !.unlinked = Append(@, Fresh(d)),
              !.current[PoolOf(kind)] = @ + 1,
              !.untracked[PoolOf(kind)] = @ + 1]

\* A node goes back to its pool.
Free(d, n) ==
    [d EXCEPT !.node = [m \in DOMAIN @ \ {n} |-> @[m]],
              !.current[PoolOf(d.node[n].kind)] = @ - 1]

SetTracked(d, n) == [d EXCEPT !.untracked[PoolOf(d.node[n].kind)] = @ - 1]

\* SwapRemove: the last one takes the place.
SwapRemove(s, i) == Front(ReplaceAt(s, i, Last(s)))

MarkInUse(d, n) ==
    IF n \notin ToSet(d.unlinked) THEN d
    ELSE [d EXCEPT !.unlinked = SwapRemove(@, SelectInSeq(@, LAMBDA m : m = n))]

\* Mutant: the parent keeps its last child.
UnlinkFirst(d, c) ==
    LET n == d.node[c]
        d1 == IF d.node[n.parent].first = c THEN Set(d, n.parent, "first", n.next) ELSE d
        d2 == Set(Set(d1, n.prev, "next", n.next), n.next, "prev", n.prev)
    IN  Place(d2, c, Nil, Nil, Nil)

Unlink(d, c) ==
    LET n == d.node[c]
        d1 == IF d.node[n.parent].first = c THEN Set(d, n.parent, "first", n.next) ELSE d
        d2 == IF d.node[n.parent].last = c THEN Set(d1, n.parent, "last", n.prev) ELSE d1
        d3 == Set(Set(d2, n.prev, "next", n.next), n.next, "prev", n.prev)
    IN  Place(d3, c, Nil, Nil, Nil)

\* Mutant: a node that is inserted stays on the list.
InsertChildPreambleListed(d, n) ==
    IF d.node[n].parent # Nil THEN Unlink(d, n) ELSE SetTracked(d, n)

InsertChildPreamble(d, n) ==
    IF d.node[n].parent # Nil THEN Unlink(d, n) ELSE SetTracked(MarkInUse(d, n), n)

InsertEndChild(d, p, n) ==
    LET d1 == InsertChildPreamble(d, n)
        l == d1.node[p].last
        d2 == IF l = Nil THEN Set(d1, p, "first", n) ELSE Set(d1, l, "next", n)
    IN  Place(Set(d2, p, "last", n), n, p, l, Nil)

InsertFirstChild(d, p, n) ==
    LET d1 == InsertChildPreamble(d, n)
        f == d1.node[p].first
        d2 == IF f = Nil THEN Set(d1, p, "last", n) ELSE Set(d1, f, "prev", n)
    IN  Place(Set(d2, p, "first", n), n, p, Nil, f)

\* The preamble takes away the sibling that the code then dereferences.
InsertAfterCrashes(d, a, n) == d.node[a].next = n /\ d.node[n].next = Nil

\* Mutant: it takes any sibling for the last one.
InsertAfterChildLast(d, p, a, n) == IF a = n THEN d ELSE InsertEndChild(d, p, n)

InsertAfterChild(d, p, a, n) ==
    LET d1 == InsertChildPreamble(d, n)
        x == d1.node[a].next
        d2 == Set(Set(d1, x, "prev", n), a, "next", n)
    IN  IF a = n THEN d
        ELSE IF d.node[a].next = Nil THEN InsertEndChild(d, p, n)
        ELSE Place(d2, n, p, a, x)

-----------------------------------------------------------------------------
(***************************************************************************)
(* What the pointers of a document are to say.                             *)
(***************************************************************************)
Child(d, c, p) == c \in Nodes(d) /\ d.node[c].parent = p

\* Parents know the ends of the list of their children and siblings each other.
Linked(d) ==
    /\ Doc \in DOMAIN d.node /\ d.node[Doc].parent = Nil
    /\ \A n \in DOMAIN d.node :
        LET x == d.node[n]
        IN  /\ x.first = Nil <=> x.last = Nil
            /\ x.first # Nil => Child(d, x.first, n) /\ d.node[x.first].prev = Nil
            /\ x.last # Nil => Child(d, x.last, n) /\ d.node[x.last].next = Nil
            /\ x.next # Nil => Child(d, x.next, x.parent) /\ d.node[x.next].prev = n
            /\ x.prev # Nil => Child(d, x.prev, x.parent) /\ d.node[x.prev].next = n
            /\ x.parent = Nil => x.prev = Nil /\ x.next = Nil
            /\ x.parent # Nil =>
                /\ x.parent \in DOMAIN d.node
                /\ x.prev = Nil => d.node[x.parent].first = n
                /\ x.next = Nil => d.node[x.parent].last = n

Roots(d) == {n \in Nodes(d) : d.node[n].parent = Nil}

\* One step further from the nodes that were seen.
Explore(s) ==
    [s EXCEPT !.seen = (@ \cup {s.doc.node[n].first : n \in @} \cup {s.doc.node[n].next : n \in @}) \ {Nil}]

Exploring == INSTANCE Loop WITH Step <- Explore

\* The nodes below the document and the nodes that were not inserted.
Reachable(d) ==
    Exploring!Turns([doc |-> d, seen |-> {Doc} \cup ToSet(d.unlinked)], Cardinality(DOMAIN d.node)).seen

\* _unlinked holds the nodes without a parent, each once.
Listed(d) ==
    /\ ToSet(d.unlinked) = Roots(d)
    /\ \A i, j \in DOMAIN d.unlinked : d.unlinked[i] = d.unlinked[j] => i = j

NodePools == Pools \ {"attribute"}

\* The nodes of S that a pool has, and the attributes, each a node and a place.
InPool(d, S, pool) == {n \in S : PoolOf(d.node[n].kind) = pool}
AttributesOf(d) == UNION {{n} \X DOMAIN d.node[n].attrs : n \in Nodes(d)}

\* The pools count their items, and those that were never inserted or deleted.
Counted(d) ==
    /\ \A pool \in NodePools :
        /\ d.current[pool] = Cardinality(InPool(d, Nodes(d), pool))
        /\ d.untracked[pool] = Cardinality(InPool(d, Roots(d), pool))
    /\ d.current["attribute"] = Cardinality(AttributesOf(d)) /\ d.untracked["attribute"] = 0
=============================================================================
