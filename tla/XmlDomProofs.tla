---------------------------- MODULE XmlDomProofs ----------------------------
(***************************************************************************)
(* Theorems about the calls of tinyxml2 on a document: those that create,  *)
(* insert and unlink a node, and those that delete, change and copy.       *)
(***************************************************************************)
EXTENDS XmlDom, FiniteSetTheorems, SequenceTheorems, WellFoundedInduction, TLAPS

-----------------------------------------------------------------------------
(***************************************************************************)
(* The form of a document.                                                 *)
(***************************************************************************)
Pointing == {"parent", "first", "last", "prev", "next"}
Members == {"kind", "value", "attrs", "closing"} \cup Pointing

Shaped(d) ==
    /\ d = [node |-> d.node, unlinked |-> d.unlinked, current |-> d.current,
            untracked |-> d.untracked, error |-> d.error, depth |-> d.depth, bom |-> d.bom]
    /\ d.node = [n \in DOMAIN d.node |-> d.node[n]]
    /\ \A n \in DOMAIN d.node : d.node[n] = [f \in Members |-> d.node[n][f]]
    /\ DOMAIN d.node \subseteq Nat /\ IsFiniteSet(DOMAIN d.node)
    /\ d.unlinked \in Seq(Nat)

\* Documents that differ in their nodes only.
Beside(d, e) ==
    /\ Shaped(e) /\ DOMAIN e.node = DOMAIN d.node
    /\ e.unlinked = d.unlinked /\ e.current = d.current /\ e.untracked = d.untracked

\* The nodes of both hold the same, whatever they are linked to.
Alike(d, e) ==
    /\ DOMAIN e.node = DOMAIN d.node
    /\ \A m \in DOMAIN d.node : \A f \in Members \ Pointing : e.node[m][f] = d.node[m][f]

LEMMA SetFacts ==
    ASSUME NEW d, Shaped(d), NEW n \in DOMAIN d.node, NEW member \in Members, NEW x
    PROVE  /\ Beside(d, Set(d, n, member, x))
           /\ \A m \in DOMAIN d.node, f \in Members :
                Set(d, n, member, x).node[m][f] = IF m = n /\ f = member THEN x ELSE d.node[m][f]
<1> DEFINE e == Set(d, n, member, x)
           y == [d.node[n] EXCEPT ![member] = x]
           node == [d.node EXCEPT ![n] = y]
<1>1. n # Nil
  BY NilAssumption DEF Shaped
<1>2. e = [d EXCEPT !.node = node]
  BY <1>1 DEF Set
<1>3. y = [f \in Members |-> IF f = member THEN x ELSE d.node[n][f]]
  BY DEF Shaped
<1>4. /\ DOMAIN node = DOMAIN d.node /\ node = [m \in DOMAIN node |-> node[m]]
      /\ \A m \in DOMAIN d.node : node[m] = IF m = n THEN y ELSE d.node[m]
  BY DEF Shaped
<1> HIDE DEF node, y, e
<1>5. e = [node |-> node, unlinked |-> d.unlinked, current |-> d.current,
           untracked |-> d.untracked, error |-> d.error, depth |-> d.depth, bom |-> d.bom]
  BY <1>2 DEF Shaped
<1>6. \A m \in DOMAIN d.node, f \in Members :
        node[m][f] = IF m = n /\ f = member THEN x ELSE d.node[m][f]
  BY <1>3, <1>4
<1>7. \A m \in DOMAIN d.node : node[m] = [f \in Members |-> node[m][f]]
  BY <1>3, <1>4 DEF Shaped
<1>8. Shaped(e)
  BY <1>4, <1>5, <1>7 DEF Shaped
<1> QED
  BY <1>4, <1>5, <1>6, <1>8 DEF Beside, e

\* The same for a pointer that may be Nil.
LEMMA SetPointer ==
    ASSUME NEW d, Shaped(d), NEW n \in DOMAIN d.node \cup {Nil}, NEW member \in Members, NEW x
    PROVE  /\ Beside(d, Set(d, n, member, x))
           /\ \A m \in DOMAIN d.node, f \in Members :
                Set(d, n, member, x).node[m][f] = IF m = n /\ f = member THEN x ELSE d.node[m][f]
<1>1. CASE n = Nil
  <2>1. Set(d, n, member, x) = d /\ n \notin DOMAIN d.node
    BY <1>1, NilAssumption DEF Set, Shaped
  <2> QED
    BY <2>1 DEF Beside
<1>2. CASE n \in DOMAIN d.node
  BY <1>2, SetFacts
<1> QED
  BY <1>1, <1>2

LEMMA PlaceFacts ==
    ASSUME NEW d, Shaped(d), NEW n \in DOMAIN d.node, NEW parent, NEW prev, NEW next
    PROVE  LET e == Place(d, n, parent, prev, next)
           IN  /\ Beside(d, e)
               /\ e.node[n].parent = parent /\ e.node[n].prev = prev /\ e.node[n].next = next
               /\ \A m \in DOMAIN d.node, f \in Members :
                    m # n \/ f \notin {"parent", "prev", "next"} => e.node[m][f] = d.node[m][f]
<1> DEFINE d1 == Set(d, n, "parent", parent)
           d2 == Set(d1, n, "prev", prev)
           e == Set(d2, n, "next", next)
<1>1. {"parent", "prev", "next"} \subseteq Members
  BY DEF Members, Pointing
<1>2. /\ Beside(d, d1)
      /\ \A m \in DOMAIN d.node, f \in Members :
            d1.node[m][f] = IF m = n /\ f = "parent" THEN parent ELSE d.node[m][f]
  BY <1>1, SetFacts
<1> HIDE DEF d1
<1>3. /\ Beside(d1, d2)
      /\ \A m \in DOMAIN d.node, f \in Members :
            d2.node[m][f] = IF m = n /\ f = "prev" THEN prev ELSE d1.node[m][f]
  <2>1. Shaped(d1) /\ DOMAIN d1.node = DOMAIN d.node
    BY <1>2 DEF Beside
  <2> QED
    BY <1>1, <2>1, SetFacts
<1> HIDE DEF d2
<1>4. /\ Beside(d2, e)
      /\ \A m \in DOMAIN d.node, f \in Members :
            e.node[m][f] = IF m = n /\ f = "next" THEN next ELSE d2.node[m][f]
  <2>1. Shaped(d2) /\ DOMAIN d2.node = DOMAIN d.node
    BY <1>2, <1>3 DEF Beside
  <2> QED
    BY <1>1, <2>1, SetFacts
<1> HIDE DEF e
<1>5. Beside(d, e)
  BY <1>2, <1>3, <1>4 DEF Beside
<1>6. e.node[n].parent = parent /\ e.node[n].prev = prev /\ e.node[n].next = next
  BY <1>1, <1>2, <1>3, <1>4
<1>7. \A m \in DOMAIN d.node, f \in Members :
        m # n \/ f \notin {"parent", "prev", "next"} => e.node[m][f] = d.node[m][f]
  BY <1>2, <1>3, <1>4
<1>8. Place(d, n, parent, prev, next) = e
  BY DEF Place, d1, d2, e
<1> QED
  BY <1>5, <1>6, <1>7, <1>8

\* Where the pointers of a node lead.
LEMMA Pointers ==
    ASSUME NEW d, Shaped(d), Linked(d), NEW n \in DOMAIN d.node
    PROVE  /\ d.node[n].parent \in DOMAIN d.node \cup {Nil}
           /\ d.node[n].first \in Nodes(d) \cup {Nil} /\ d.node[n].last \in Nodes(d) \cup {Nil}
           /\ d.node[n].prev \in Nodes(d) \cup {Nil} /\ d.node[n].next \in Nodes(d) \cup {Nil}
BY DEF Linked, Child, Nodes

\* What Unlink makes of a document.
LEMMA UnlinkFacts ==
    ASSUME NEW d, Shaped(d), Linked(d), NEW c \in Nodes(d), d.node[c].parent # Nil
    PROVE  LET e == Unlink(d, c)
               n == d.node[c]
           IN  /\ Beside(d, e)
               /\ \A m \in DOMAIN d.node :
                    /\ e.node[m].kind = d.node[m].kind /\ e.node[m].attrs = d.node[m].attrs
                    /\ \A f \in Members \ Pointing : e.node[m][f] = d.node[m][f]
                    /\ e.node[m].parent = IF m = c THEN Nil ELSE d.node[m].parent
                    /\ e.node[m].first = IF m = n.parent /\ d.node[m].first = c THEN n.next ELSE d.node[m].first
                    /\ e.node[m].last = IF m = n.parent /\ d.node[m].last = c THEN n.prev ELSE d.node[m].last
                    /\ e.node[m].next = IF m = c THEN Nil ELSE IF m = n.prev THEN n.next ELSE d.node[m].next
                    /\ e.node[m].prev = IF m = c THEN Nil ELSE IF m = n.next THEN n.prev ELSE d.node[m].prev
<1> DEFINE n == d.node[c]
           d1 == IF d.node[n.parent].first = c THEN Set(d, n.parent, "first", n.next) ELSE d
           d2 == IF d.node[n.parent].last = c THEN Set(d1, n.parent, "last", n.prev) ELSE d1
           d3 == Set(d2, n.prev, "next", n.next)
           d4 == Set(d3, n.next, "prev", n.prev)
           e == Place(d4, c, Nil, Nil, Nil)
<1>1. /\ c \in DOMAIN d.node /\ n.parent \in DOMAIN d.node
      /\ n.prev \in DOMAIN d.node \cup {Nil} /\ n.next \in DOMAIN d.node \cup {Nil}
  BY Pointers DEF Nodes
<1>2. {"kind", "attrs", "parent", "first", "last", "prev", "next"} \subseteq Members
  BY DEF Members, Pointing
<1>3. Unlink(d, c) = e
  BY DEF Unlink
<1> HIDE DEF n
<1>4. /\ Beside(d, d1)
      /\ \A m \in DOMAIN d.node, f \in Members :
            d1.node[m][f] = IF m = n.parent /\ f = "first" /\ d.node[m].first = c THEN n.next ELSE d.node[m][f]
  <2>1. CASE d.node[n.parent].first = c
    BY <1>1, <1>2, <2>1, SetFacts
  <2>2. CASE d.node[n.parent].first # c
    BY <1>1, <2>2 DEF Beside
  <2> QED
    BY <2>1, <2>2
<1> HIDE DEF d1
<1>5. /\ Beside(d, d2)
      /\ \A m \in DOMAIN d.node, f \in Members :
            d2.node[m][f] = IF m = n.parent /\ f = "last" /\ d.node[m].last = c THEN n.prev ELSE d1.node[m][f]
  <2>0. Shaped(d1) /\ DOMAIN d1.node = DOMAIN d.node
    BY <1>4 DEF Beside
  <2>1. CASE d.node[n.parent].last = c
    <3>1. /\ Beside(d1, d2)
          /\ \A m \in DOMAIN d.node, f \in Members :
                d2.node[m][f] = IF m = n.parent /\ f = "last" THEN n.prev ELSE d1.node[m][f]
      BY <1>1, <1>2, <2>0, <2>1, SetFacts
    <3> HIDE DEF d2
    <3> QED
      BY <1>1, <1>4, <2>1, <3>1 DEF Beside
  <2>2. CASE d.node[n.parent].last # c
    BY <1>1, <1>4, <2>0, <2>2
  <2> QED
    BY <2>1, <2>2
<1> HIDE DEF d2
<1>6. /\ Beside(d, d3)
      /\ \A m \in DOMAIN d.node, f \in Members :
            d3.node[m][f] = IF m = n.prev /\ f = "next" THEN n.next ELSE d2.node[m][f]
  <2>0. Shaped(d2) /\ DOMAIN d2.node = DOMAIN d.node
    BY <1>5 DEF Beside
  <2>1. /\ Beside(d2, d3)
        /\ \A m \in DOMAIN d.node, f \in Members :
              d3.node[m][f] = IF m = n.prev /\ f = "next" THEN n.next ELSE d2.node[m][f]
    BY <1>1, <1>2, <2>0, SetPointer
  <2> HIDE DEF d3
  <2> QED
    BY <1>5, <2>1 DEF Beside
<1> HIDE DEF d3
<1>7. /\ Beside(d, d4)
      /\ \A m \in DOMAIN d.node, f \in Members :
            d4.node[m][f] = IF m = n.next /\ f = "prev" THEN n.prev ELSE d3.node[m][f]
  <2>0. Shaped(d3) /\ DOMAIN d3.node = DOMAIN d.node
    BY <1>6 DEF Beside
  <2>1. /\ Beside(d3, d4)
        /\ \A m \in DOMAIN d.node, f \in Members :
              d4.node[m][f] = IF m = n.next /\ f = "prev" THEN n.prev ELSE d3.node[m][f]
    BY <1>1, <1>2, <2>0, SetPointer
  <2> HIDE DEF d4
  <2> QED
    BY <1>6, <2>1 DEF Beside
<1> HIDE DEF d4
<1>8. /\ Beside(d, e)
      /\ e.node[c].parent = Nil /\ e.node[c].prev = Nil /\ e.node[c].next = Nil
      /\ \A m \in DOMAIN d.node, f \in Members :
            m # c \/ f \notin {"parent", "prev", "next"} => e.node[m][f] = d4.node[m][f]
  <2>0. Shaped(d4) /\ DOMAIN d4.node = DOMAIN d.node
    BY <1>7 DEF Beside
  <2>1. /\ Beside(d4, e)
        /\ e.node[c].parent = Nil /\ e.node[c].prev = Nil /\ e.node[c].next = Nil
        /\ \A m \in DOMAIN d.node, f \in Members :
              m # c \/ f \notin {"parent", "prev", "next"} => e.node[m][f] = d4.node[m][f]
    BY <1>1, <2>0, PlaceFacts
  <2> HIDE DEF e
  <2> QED
    BY <1>7, <2>1 DEF Beside
<1> HIDE DEF e
<1>11. \A m \in DOMAIN d.node : \A f \in Members \ Pointing : e.node[m][f] = d.node[m][f]
  BY <1>4, <1>5, <1>6, <1>7, <1>8 DEF Pointing
<1>9. \A m \in DOMAIN d.node :
        /\ e.node[m].kind = d.node[m].kind /\ e.node[m].attrs = d.node[m].attrs
        /\ e.node[m].parent = IF m = c THEN Nil ELSE d.node[m].parent
        /\ e.node[m].first = IF m = n.parent /\ d.node[m].first = c THEN n.next ELSE d.node[m].first
        /\ e.node[m].last = IF m = n.parent /\ d.node[m].last = c THEN n.prev ELSE d.node[m].last
  BY <1>2, <1>4, <1>5, <1>6, <1>7, <1>8
<1>10. \A m \in DOMAIN d.node :
        /\ e.node[m].next = IF m = c THEN Nil ELSE IF m = n.prev THEN n.next ELSE d.node[m].next
        /\ e.node[m].prev = IF m = c THEN Nil ELSE IF m = n.next THEN n.prev ELSE d.node[m].prev
  BY <1>2, <1>4, <1>5, <1>6, <1>7, <1>8
<1> QED
  BY <1>3, <1>8, <1>9, <1>10, <1>11 DEF n

-----------------------------------------------------------------------------
(***************************************************************************)
(* Unlinking, and what inserting makes of a document.                      *)
(***************************************************************************)
LEMMA UnlinkKeepsLinks ==
    ASSUME NEW d, Shaped(d), Linked(d), NEW c \in Nodes(d), d.node[c].parent # Nil
    PROVE  Linked(Unlink(d, c))
<1> DEFINE e == Unlink(d, c)
           n == d.node[c]
<1>1. /\ DOMAIN e.node = DOMAIN d.node
      /\ \A m \in DOMAIN d.node :
            /\ e.node[m].parent = IF m = c THEN Nil ELSE d.node[m].parent
            /\ e.node[m].first = IF m = n.parent /\ d.node[m].first = c THEN n.next ELSE d.node[m].first
            /\ e.node[m].last = IF m = n.parent /\ d.node[m].last = c THEN n.prev ELSE d.node[m].last
            /\ e.node[m].next = IF m = c THEN Nil ELSE IF m = n.prev THEN n.next ELSE d.node[m].next
            /\ e.node[m].prev = IF m = c THEN Nil ELSE IF m = n.next THEN n.prev ELSE d.node[m].prev
  BY UnlinkFacts DEF Beside
<1>2. c \in DOMAIN d.node /\ c # Doc /\ Nil \notin DOMAIN d.node
  BY NilAssumption DEF Nodes, Shaped
<1>3. \A m \in DOMAIN d.node :
         /\ d.node[m].next # Nil =>
                /\ d.node[m].next \in Nodes(d) /\ d.node[d.node[m].next].prev = m
                /\ d.node[d.node[m].next].parent = d.node[m].parent
         /\ d.node[m].prev # Nil =>
                /\ d.node[m].prev \in Nodes(d) /\ d.node[d.node[m].prev].next = m
                /\ d.node[d.node[m].prev].parent = d.node[m].parent
  BY DEF Linked, Child
<1> HIDE DEF e
<1>4. Doc \in DOMAIN e.node /\ e.node[Doc].parent = Nil
  BY <1>1, <1>2 DEF Linked
<1>5. ASSUME NEW m \in DOMAIN e.node
      PROVE  /\ e.node[m].first = Nil <=> e.node[m].last = Nil
             /\ e.node[m].first # Nil => Child(e, e.node[m].first, m) /\ e.node[e.node[m].first].prev = Nil
             /\ e.node[m].last # Nil => Child(e, e.node[m].last, m) /\ e.node[e.node[m].last].next = Nil
  <2>1. e.node[m].first = Nil <=> e.node[m].last = Nil
    BY <1>1, <1>2, <1>5 DEF Linked, Child, Nodes
  <2>2. ASSUME e.node[m].first # Nil
        PROVE  Child(e, e.node[m].first, m) /\ e.node[e.node[m].first].prev = Nil
    BY <1>1, <1>2, <1>5, <2>2 DEF Linked, Child, Nodes
  <2>3. ASSUME e.node[m].last # Nil
        PROVE  Child(e, e.node[m].last, m) /\ e.node[e.node[m].last].next = Nil
    BY <1>1, <1>2, <1>5, <2>3 DEF Linked, Child, Nodes
  <2> QED
    BY <2>1, <2>2, <2>3
<1>6. ASSUME NEW m \in DOMAIN e.node
      PROVE  /\ e.node[m].next # Nil =>
                    Child(e, e.node[m].next, e.node[m].parent) /\ e.node[e.node[m].next].prev = m
             /\ e.node[m].prev # Nil =>
                    Child(e, e.node[m].prev, e.node[m].parent) /\ e.node[e.node[m].prev].next = m
             /\ e.node[m].parent = Nil => e.node[m].prev = Nil /\ e.node[m].next = Nil
  <2>1. ASSUME e.node[m].next # Nil
        PROVE  Child(e, e.node[m].next, e.node[m].parent) /\ e.node[e.node[m].next].prev = m
    <3> DEFINE y == e.node[m].next
    <3>1. m # c /\ m \in DOMAIN d.node
      BY <1>1, <1>6, <2>1
    <3>2. CASE m = n.prev
      <4>1. y = n.next
        BY <1>1, <3>1, <3>2
      <4>2. /\ y \in Nodes(d) /\ d.node[y].prev = c /\ d.node[y].parent = n.parent
            /\ d.node[m].parent = n.parent
        BY <1>2, <1>3, <2>1, <3>1, <3>2, <4>1
      <4>3. y # c
        BY <3>1, <3>2, <4>2
      <4> QED
        BY <1>1, <3>1, <3>2, <4>1, <4>2, <4>3 DEF Child, Nodes
    <3>3. CASE m # n.prev
      <4>1. y = d.node[m].next
        BY <1>1, <3>1, <3>3
      <4>2. y \in Nodes(d) /\ d.node[y].prev = m /\ d.node[y].parent = d.node[m].parent
        BY <1>3, <2>1, <3>1, <4>1
      <4>3. y # c /\ y # n.next
        BY <1>2, <1>3, <2>1, <3>1, <3>3, <4>1, <4>2
      <4> QED
        BY <1>1, <3>1, <4>1, <4>2, <4>3 DEF Child, Nodes
    <3> QED
      BY <3>2, <3>3
  <2>2. ASSUME e.node[m].prev # Nil
        PROVE  Child(e, e.node[m].prev, e.node[m].parent) /\ e.node[e.node[m].prev].next = m
    <3> DEFINE y == e.node[m].prev
    <3>1. m # c /\ m \in DOMAIN d.node
      BY <1>1, <1>6, <2>2
    <3>2. CASE m = n.next
      <4>1. y = n.prev
        BY <1>1, <3>1, <3>2
      <4>2. /\ y \in Nodes(d) /\ d.node[y].next = c /\ d.node[y].parent = n.parent
            /\ d.node[m].parent = n.parent
        BY <1>2, <1>3, <2>2, <3>1, <3>2, <4>1
      <4>3. y # c
        BY <3>1, <3>2, <4>2
      <4> QED
        BY <1>1, <3>1, <3>2, <4>1, <4>2, <4>3 DEF Child, Nodes
    <3>3. CASE m # n.next
      <4>1. y = d.node[m].prev
        BY <1>1, <3>1, <3>3
      <4>2. y \in Nodes(d) /\ d.node[y].next = m /\ d.node[y].parent = d.node[m].parent
        BY <1>3, <2>2, <3>1, <4>1
      <4>3. y # c /\ y # n.prev
        BY <1>2, <1>3, <2>2, <3>1, <3>3, <4>1, <4>2
      <4> QED
        BY <1>1, <3>1, <4>1, <4>2, <4>3 DEF Child, Nodes
    <3> QED
      BY <3>2, <3>3
  <2>3. e.node[m].parent = Nil => e.node[m].prev = Nil /\ e.node[m].next = Nil
    BY <1>1, <1>2, <1>6 DEF Linked, Child, Nodes
  <2> QED
    BY <2>1, <2>2, <2>3
<1>7. ASSUME NEW m \in DOMAIN e.node, e.node[m].parent # Nil
      PROVE  /\ e.node[m].parent \in DOMAIN e.node
             /\ e.node[m].prev = Nil => e.node[e.node[m].parent].first = m
             /\ e.node[m].next = Nil => e.node[e.node[m].parent].last = m
  <2>1. /\ m \in DOMAIN d.node /\ m # c /\ e.node[m].parent = d.node[m].parent
        /\ d.node[m].parent # Nil
    BY <1>1, <1>7
  <2>2. d.node[m].parent \in DOMAIN d.node
    BY <2>1 DEF Linked
  <2>3. ASSUME e.node[m].prev = Nil PROVE e.node[d.node[m].parent].first = m
    <3>1. CASE m = n.next
      <4>1. n.prev = Nil /\ d.node[m].parent = n.parent
        BY <1>1, <1>2, <1>3, <2>1, <2>3, <3>1, NilAssumption
      <4>2. d.node[n.parent].first = c
        BY <1>2, <4>1 DEF Linked
      <4> QED
        BY <1>1, <2>2, <3>1, <4>1, <4>2
    <3>2. CASE m # n.next
      <4>1. d.node[m].prev = Nil
        BY <1>1, <2>1, <2>3, <3>2
      <4>2. d.node[d.node[m].parent].first = m
        BY <2>1, <4>1 DEF Linked
      <4> QED
        BY <1>1, <2>1, <2>2, <4>2
    <3> QED
      BY <3>1, <3>2
  <2>4. ASSUME e.node[m].next = Nil PROVE e.node[d.node[m].parent].last = m
    <3>1. CASE m = n.prev
      <4>1. n.next = Nil /\ d.node[m].parent = n.parent
        BY <1>1, <1>2, <1>3, <2>1, <2>4, <3>1, NilAssumption
      <4>2. d.node[n.parent].last = c
        BY <1>2, <4>1 DEF Linked
      <4> QED
        BY <1>1, <2>2, <3>1, <4>1, <4>2
    <3>2. CASE m # n.prev
      <4>1. d.node[m].next = Nil
        BY <1>1, <2>1, <2>4, <3>2
      <4>2. d.node[d.node[m].parent].last = m
        BY <2>1, <4>1 DEF Linked
      <4> QED
        BY <1>1, <2>1, <2>2, <4>2
    <3> QED
      BY <3>1, <3>2
  <2> QED
    BY <1>1, <2>1, <2>2, <2>3, <2>4
<1> QED
  BY <1>4, <1>5, <1>6, <1>7 DEF Linked, e

\* l and r are neighbours below p, or the ends of its children.
Slot(d, p, l, r) ==
    /\ p \in DOMAIN d.node
    /\ IF l = Nil THEN d.node[p].first = r ELSE Child(d, l, p) /\ d.node[l].next = r
    /\ IF r = Nil THEN d.node[p].last = l ELSE Child(d, r, p) /\ d.node[r].prev = l

\* e is d with n between l and r below p.
Joined(d, e, p, l, n, r) ==
    /\ Beside(d, e) /\ Alike(d, e)
    /\ \A m \in DOMAIN d.node :
        /\ e.node[m].kind = d.node[m].kind /\ e.node[m].attrs = d.node[m].attrs
        /\ e.node[m].parent = IF m = n THEN p ELSE d.node[m].parent
        /\ e.node[m].first = IF m = p /\ l = Nil THEN n ELSE d.node[m].first
        /\ e.node[m].last = IF m = p /\ r = Nil THEN n ELSE d.node[m].last
        /\ e.node[m].next = IF m = n THEN r ELSE IF m = l THEN n ELSE d.node[m].next
        /\ e.node[m].prev = IF m = n THEN l ELSE IF m = r THEN n ELSE d.node[m].prev

LEMMA JoinKeepsLinks ==
    ASSUME NEW d, Shaped(d), Linked(d), NEW p, NEW l, NEW r, Slot(d, p, l, r),
           NEW n \in Roots(d), NEW e, Joined(d, e, p, l, n, r)
    PROVE  Linked(e)
<1>1. /\ DOMAIN e.node = DOMAIN d.node
      /\ \A m \in DOMAIN d.node :
            /\ e.node[m].parent = IF m = n THEN p ELSE d.node[m].parent
            /\ e.node[m].first = IF m = p /\ l = Nil THEN n ELSE d.node[m].first
            /\ e.node[m].last = IF m = p /\ r = Nil THEN n ELSE d.node[m].last
            /\ e.node[m].next = IF m = n THEN r ELSE IF m = l THEN n ELSE d.node[m].next
            /\ e.node[m].prev = IF m = n THEN l ELSE IF m = r THEN n ELSE d.node[m].prev
  BY DEF Joined, Beside
<1>2. /\ n \in DOMAIN d.node /\ n # Doc /\ Nil \notin DOMAIN d.node
      /\ d.node[n].parent = Nil /\ d.node[n].prev = Nil /\ d.node[n].next = Nil
  BY NilAssumption DEF Roots, Nodes, Shaped, Linked
<1>3. Doc \in DOMAIN e.node /\ e.node[Doc].parent = Nil
  BY <1>1, <1>2 DEF Linked
<1>4. ASSUME NEW m \in DOMAIN e.node
      PROVE  /\ e.node[m].first = Nil <=> e.node[m].last = Nil
             /\ e.node[m].first # Nil => Child(e, e.node[m].first, m) /\ e.node[e.node[m].first].prev = Nil
             /\ e.node[m].last # Nil => Child(e, e.node[m].last, m) /\ e.node[e.node[m].last].next = Nil
  <2>1. e.node[m].first = Nil <=> e.node[m].last = Nil
    BY <1>1, <1>2, <1>4 DEF Linked, Child, Nodes, Slot
  <2>2. ASSUME e.node[m].first # Nil
        PROVE  Child(e, e.node[m].first, m) /\ e.node[e.node[m].first].prev = Nil
    BY <1>1, <1>2, <1>4, <2>2 DEF Linked, Child, Nodes, Slot
  <2>3. ASSUME e.node[m].last # Nil
        PROVE  Child(e, e.node[m].last, m) /\ e.node[e.node[m].last].next = Nil
    BY <1>1, <1>2, <1>4, <2>3 DEF Linked, Child, Nodes, Slot
  <2> QED
    BY <2>1, <2>2, <2>3
<1>5. ASSUME NEW m \in DOMAIN e.node
      PROVE  /\ e.node[m].next # Nil =>
                    Child(e, e.node[m].next, e.node[m].parent) /\ e.node[e.node[m].next].prev = m
             /\ e.node[m].prev # Nil =>
                    Child(e, e.node[m].prev, e.node[m].parent) /\ e.node[e.node[m].prev].next = m
             /\ e.node[m].parent = Nil => e.node[m].prev = Nil /\ e.node[m].next = Nil
  <2>1. ASSUME e.node[m].next # Nil
        PROVE  Child(e, e.node[m].next, e.node[m].parent) /\ e.node[e.node[m].next].prev = m
    BY <1>1, <1>2, <1>5, <2>1 DEF Linked, Child, Nodes, Slot
  <2>2. ASSUME e.node[m].prev # Nil
        PROVE  Child(e, e.node[m].prev, e.node[m].parent) /\ e.node[e.node[m].prev].next = m
    BY <1>1, <1>2, <1>5, <2>2 DEF Linked, Child, Nodes, Slot
  <2>3. e.node[m].parent = Nil => e.node[m].prev = Nil /\ e.node[m].next = Nil
    BY <1>1, <1>2, <1>5 DEF Linked, Child, Nodes, Slot
  <2> QED
    BY <2>1, <2>2, <2>3
<1>6. ASSUME NEW m \in DOMAIN e.node, e.node[m].parent # Nil
      PROVE  /\ e.node[m].parent \in DOMAIN e.node
             /\ e.node[m].prev = Nil => e.node[e.node[m].parent].first = m
             /\ e.node[m].next = Nil => e.node[e.node[m].parent].last = m
  BY <1>1, <1>2, <1>6 DEF Linked, Child, Nodes, Slot
<1> QED
  BY <1>3, <1>4, <1>5, <1>6 DEF Linked

-----------------------------------------------------------------------------
(***************************************************************************)
(* No node lies under itself or comes after itself.                        *)
(***************************************************************************)
Ordered(d) ==
    \E level, place \in [DOMAIN d.node -> Int] :
        \A m \in DOMAIN d.node :
            /\ d.node[m].parent # Nil => level[d.node[m].parent] < level[m]
            /\ d.node[m].next # Nil => place[m] < place[d.node[m].next]

\* n is neither p nor above p: p is in a set with the parents of its members.
Apart(d, n, p) ==
    \E A \in SUBSET (DOMAIN d.node \ {n}) :
        p \in A /\ \A m \in A : d.node[m].parent \in A \cup {Nil}

LEMMA UnlinkKeepsOrder ==
    ASSUME NEW d, Shaped(d), Linked(d), Ordered(d), NEW c \in Nodes(d), d.node[c].parent # Nil
    PROVE  Ordered(Unlink(d, c))
<1> DEFINE e == Unlink(d, c)
           n == d.node[c]
<1>1. /\ DOMAIN e.node = DOMAIN d.node
      /\ \A m \in DOMAIN d.node :
            /\ e.node[m].parent = IF m = c THEN Nil ELSE d.node[m].parent
            /\ e.node[m].next = IF m = c THEN Nil ELSE IF m = n.prev THEN n.next ELSE d.node[m].next
  BY UnlinkFacts DEF Beside
<1>2. c \in DOMAIN d.node /\ n.next \in DOMAIN d.node \cup {Nil} /\ n.prev \in DOMAIN d.node \cup {Nil}
  BY Pointers DEF Nodes
<1>3. PICK level, place \in [DOMAIN d.node -> Int] :
        \A m \in DOMAIN d.node :
            /\ d.node[m].parent # Nil => level[d.node[m].parent] < level[m]
            /\ d.node[m].next # Nil => place[m] < place[d.node[m].next]
  BY DEF Ordered
<1>4. n.prev # Nil => d.node[n.prev].next = c
  BY <1>2 DEF Linked
<1> HIDE DEF e
<1>5. ASSUME NEW m \in DOMAIN e.node
      PROVE  /\ e.node[m].parent # Nil => level[e.node[m].parent] < level[m]
             /\ e.node[m].next # Nil => place[m] < place[e.node[m].next]
  <2>1. e.node[m].parent # Nil => level[e.node[m].parent] < level[m]
    BY <1>1, <1>3
  <2>2. CASE m = n.prev /\ m # c /\ n.next # Nil
    <3>1. place[m] < place[c] /\ place[c] < place[n.next]
      <4>1. m \in DOMAIN d.node /\ d.node[m].next = c /\ c # Nil
        BY <1>1, <1>2, <1>4, <2>2, NilAssumption DEF Shaped
      <4>2. place[m] < place[c]
        BY <1>3, <4>1
      <4>3. place[c] < place[n.next]
        BY <1>2, <1>3, <2>2
      <4> QED
        BY <4>2, <4>3
    <3>2. e.node[m].next = n.next
      BY <1>1, <2>2
    <3>3. place[m] \in Int /\ place[c] \in Int /\ place[n.next] \in Int
      BY <1>1, <1>2, <1>3, <2>2
    <3> QED
      BY <2>1, <3>1, <3>2, <3>3
  <2>3. CASE ~(m = n.prev /\ m # c /\ n.next # Nil)
    BY <1>1, <1>3, <2>1, <2>3
  <2> QED
    BY <2>2, <2>3
<1>6. level \in [DOMAIN e.node -> Int] /\ place \in [DOMAIN e.node -> Int]
  BY <1>1, <1>3
<1> QED
  BY <1>5, <1>6 DEF Ordered, e

LEMMA UnlinkKeepsApart ==
    ASSUME NEW d, Shaped(d), Linked(d), NEW c \in Nodes(d), d.node[c].parent # Nil,
           NEW n, NEW p, Apart(d, n, p)
    PROVE  Apart(Unlink(d, c), n, p)
<1>1. /\ DOMAIN Unlink(d, c).node = DOMAIN d.node
      /\ \A m \in DOMAIN d.node :
            Unlink(d, c).node[m].parent = IF m = c THEN Nil ELSE d.node[m].parent
  BY UnlinkFacts DEF Beside
<1> QED
  BY <1>1 DEF Apart

\* The part of the document that p is not in goes below p.
LEMMA JoinKeepsOrder ==
    ASSUME NEW d, Shaped(d), Linked(d), Ordered(d), NEW p, NEW l, NEW r, Slot(d, p, l, r),
           NEW n \in Roots(d), Apart(d, n, p), NEW e, Joined(d, e, p, l, n, r)
    PROVE  Ordered(e)
<1>1. /\ DOMAIN e.node = DOMAIN d.node
      /\ \A m \in DOMAIN d.node :
            /\ e.node[m].parent = IF m = n THEN p ELSE d.node[m].parent
            /\ e.node[m].next = IF m = n THEN r ELSE IF m = l THEN n ELSE d.node[m].next
  BY DEF Joined, Beside
<1>2. /\ n \in DOMAIN d.node /\ p \in DOMAIN d.node
      /\ l \in DOMAIN d.node \cup {Nil} /\ r \in DOMAIN d.node \cup {Nil}
      /\ d.node[n].parent = Nil /\ d.node[n].prev = Nil /\ d.node[n].next = Nil
      /\ Nil \notin DOMAIN d.node
  BY NilAssumption DEF Roots, Nodes, Linked, Slot, Child, Shaped
<1>3. PICK level, place \in [DOMAIN d.node -> Int] :
        \A m \in DOMAIN d.node :
            /\ d.node[m].parent # Nil => level[d.node[m].parent] < level[m]
            /\ d.node[m].next # Nil => place[m] < place[d.node[m].next]
  BY DEF Ordered
<1>4. PICK A \in SUBSET (DOMAIN d.node \ {n}) :
        p \in A /\ \A m \in A : d.node[m].parent \in A \cup {Nil}
  BY DEF Apart
<1>5. \A m \in DOMAIN d.node : level[m] \in Int /\ place[m] \in Int
  BY <1>3
<1> DEFINE K == IF level[p] < level[n] THEN 0 ELSE level[p] - level[n] + 1
           lower == [m \in DOMAIN d.node |-> IF m \in A THEN level[m] ELSE level[m] + K]
           middle == IF l # Nil THEN 2 * place[l] + 1 ELSE IF r # Nil THEN 2 * place[r] - 1 ELSE 0
           moved == [m \in DOMAIN d.node |-> IF m = n THEN middle ELSE 2 * place[m]]
<1>6. K \in Nat /\ level[p] < level[n] + K
  BY <1>2, <1>5
<1>7. middle \in Int
  BY <1>2, <1>5
<1>8. lower \in [DOMAIN e.node -> Int] /\ moved \in [DOMAIN e.node -> Int]
  <2>1. \A m \in DOMAIN d.node : level[m] + K \in Int /\ 2 * place[m] \in Int
    BY <1>5, <1>6
  <2> QED
    BY <1>1, <1>5, <1>7, <2>1
<1>9. ASSUME NEW m \in DOMAIN e.node, e.node[m].parent # Nil
      PROVE  lower[e.node[m].parent] < lower[m]
  <2> HIDE DEF K
  <2>1. CASE m = n
    BY <1>1, <1>2, <1>4, <1>6, <2>1
  <2>2. CASE m # n
    <3>1. /\ m \in DOMAIN d.node /\ d.node[m].parent \in DOMAIN d.node
          /\ e.node[m].parent = d.node[m].parent
          /\ level[d.node[m].parent] < level[m]
      BY <1>1, <1>3, <1>9, <2>2 DEF Linked
    <3>2. m \in A => d.node[m].parent \in A
      BY <1>2, <1>4, <3>1
    <3>3. level[m] \in Int /\ level[d.node[m].parent] \in Int
      BY <1>5, <3>1
    <3> QED
      BY <1>6, <3>1, <3>2, <3>3
  <2> QED
    BY <2>1, <2>2
<1>10. ASSUME NEW m \in DOMAIN e.node, e.node[m].next # Nil
       PROVE  moved[m] < moved[e.node[m].next]
  <2>1. CASE m = n
    <3>1. r \in DOMAIN d.node /\ r # n /\ e.node[m].next = r
      BY <1>1, <1>2, <1>10, <2>1 DEF Slot, Child
    <3>2. l # Nil => l \in DOMAIN d.node /\ place[l] < place[r]
      BY <1>2, <1>3, <3>1 DEF Slot
    <3>3. moved[m] = middle /\ moved[r] = 2 * place[r] /\ place[r] \in Int
      BY <1>2, <1>5, <2>1, <3>1
    <3>4. middle < 2 * place[r]
      BY <1>2, <1>5, <3>1, <3>2
    <3> QED
      BY <3>1, <3>3, <3>4
  <2>2. CASE m # n /\ m = l
    <3>1. e.node[m].next = n /\ moved[n] = 2 * place[l] + 1 /\ moved[m] = 2 * place[l]
      BY <1>1, <1>2, <2>2
    <3> QED
      BY <1>1, <1>5, <2>2, <3>1
  <2>3. CASE m # n /\ m # l
    <3>1. e.node[m].next = d.node[m].next /\ d.node[m].next # Nil
      BY <1>1, <1>10, <2>3
    <3>2. d.node[m].next \in DOMAIN d.node /\ d.node[m].next # n
      BY <1>1, <1>2, <3>1 DEF Linked, Child, Nodes
    <3>3. place[m] < place[d.node[m].next]
      BY <1>1, <1>3, <3>1
    <3>4. moved[m] = 2 * place[m] /\ moved[d.node[m].next] = 2 * place[d.node[m].next]
      BY <1>1, <2>3, <3>2
    <3> QED
      BY <1>1, <1>5, <3>1, <3>2, <3>3, <3>4
  <2> QED
    BY <2>1, <2>2, <2>3
<1> HIDE DEF lower, moved
<1> QED
  BY <1>8, <1>9, <1>10 DEF Ordered

-----------------------------------------------------------------------------
(***************************************************************************)
(* Inserting a node that lies under nothing.                               *)
(***************************************************************************)
\* Two pointers are set and the node is put in its place.
Relinked(d, a, f, x, b, g, y, n, parent, prev, next) ==
    Place(Set(Set(d, a, f, x), b, g, y), n, parent, prev, next)

LEMMA RelinkedFacts ==
    ASSUME NEW d, Shaped(d),
           NEW a \in DOMAIN d.node, NEW f \in Members, NEW x,
           NEW b \in DOMAIN d.node, NEW g \in Members, NEW y,
           NEW n \in DOMAIN d.node, NEW parent, NEW prev, NEW next
    PROVE  LET e == Relinked(d, a, f, x, b, g, y, n, parent, prev, next)
           IN  /\ Beside(d, e)
               /\ e.node[n].parent = parent /\ e.node[n].prev = prev /\ e.node[n].next = next
               /\ \A m \in DOMAIN d.node, h \in Members :
                    m # n \/ h \notin {"parent", "prev", "next"} =>
                        e.node[m][h] = IF m = b /\ h = g THEN y
                                       ELSE IF m = a /\ h = f THEN x ELSE d.node[m][h]
<1> DEFINE d1 == Set(d, a, f, x)
           d2 == Set(d1, b, g, y)
           e == Place(d2, n, parent, prev, next)
<1>2. /\ Beside(d, d1)
      /\ \A m \in DOMAIN d.node, h \in Members :
            d1.node[m][h] = IF m = a /\ h = f THEN x ELSE d.node[m][h]
  BY SetFacts
<1> HIDE DEF d1
<1>3. Shaped(d1) /\ DOMAIN d1.node = DOMAIN d.node
  BY <1>2 DEF Beside
<1>4. /\ Beside(d1, d2)
      /\ \A m \in DOMAIN d.node, h \in Members :
            d2.node[m][h] = IF m = b /\ h = g THEN y ELSE d1.node[m][h]
  BY <1>3, SetFacts
<1> HIDE DEF d2
<1>5. Shaped(d2) /\ DOMAIN d2.node = DOMAIN d.node
  BY <1>3, <1>4 DEF Beside
<1>6. /\ Beside(d2, e)
      /\ e.node[n].parent = parent /\ e.node[n].prev = prev /\ e.node[n].next = next
      /\ \A m \in DOMAIN d.node, h \in Members :
            m # n \/ h \notin {"parent", "prev", "next"} => e.node[m][h] = d2.node[m][h]
  BY <1>5, PlaceFacts
<1> HIDE DEF e
<1>7. Beside(d, e)
  BY <1>2, <1>4, <1>6 DEF Beside
<1>8. \A m \in DOMAIN d.node, h \in Members :
        m # n \/ h \notin {"parent", "prev", "next"} =>
            e.node[m][h] = IF m = b /\ h = g THEN y ELSE IF m = a /\ h = f THEN x ELSE d.node[m][h]
  BY <1>2, <1>4, <1>6
<1> QED
  BY <1>6, <1>7, <1>8 DEF Relinked, d1, d2, e

\* What follows the preamble in InsertEndChild.
LEMMA JoinsAtEnd ==
    ASSUME NEW d, Shaped(d), Linked(d), NEW p \in DOMAIN d.node, NEW n \in Roots(d)
    PROVE  LET l == d.node[p].last
               d2 == IF l = Nil THEN Set(d, p, "first", n) ELSE Set(d, l, "next", n)
           IN  /\ Slot(d, p, l, Nil)
               /\ Joined(d, Place(Set(d2, p, "last", n), n, p, l, Nil), p, l, n, Nil)
<1> DEFINE l == d.node[p].last
           d2 == IF l = Nil THEN Set(d, p, "first", n) ELSE Set(d, l, "next", n)
           e == Place(Set(d2, p, "last", n), n, p, l, Nil)
<1>1. /\ n \in DOMAIN d.node /\ n # Doc /\ Nil \notin DOMAIN d.node
      /\ d.node[n].parent = Nil
  BY NilAssumption DEF Roots, Nodes, Shaped
<1>2. /\ l = Nil => d.node[p].first = Nil
      /\ l # Nil => l \in DOMAIN d.node /\ d.node[l].parent = p /\ l # n
      /\ l # Nil => Child(d, l, p) /\ d.node[l].next = Nil
  BY <1>1 DEF Linked, Child, Nodes
<1>3. Slot(d, p, l, Nil)
  BY <1>2 DEF Slot
<1>4. {"kind", "attrs", "parent", "first", "last", "prev", "next"} \subseteq Members
  BY DEF Members, Pointing
<1> HIDE DEF l
<1>5. CASE l = Nil
  <2> DEFINE e1 == Relinked(d, p, "first", n, p, "last", n, n, p, l, Nil)
  <2>1. e = e1
    BY <1>5 DEF Relinked
  <2>2. /\ Beside(d, e1)
        /\ e1.node[n].parent = p /\ e1.node[n].prev = l /\ e1.node[n].next = Nil
        /\ \A m \in DOMAIN d.node, h \in Members :
            m # n \/ h \notin {"parent", "prev", "next"} =>
                e1.node[m][h] = IF m = p /\ h = "last" THEN n
                                ELSE IF m = p /\ h = "first" THEN n ELSE d.node[m][h]
    BY <1>1, <1>4, RelinkedFacts
  <2> HIDE DEF e1
  <2>3. Alike(d, e1)
    BY <1>1, <2>2 DEF Alike, Beside, Pointing
  <2>4. Joined(d, e1, p, l, n, Nil)
    BY <1>1, <1>4, <1>5, <2>2, <2>3 DEF Joined
  <2> QED
    BY <1>3, <2>1, <2>4 DEF e, d2, l
<1>6. CASE l # Nil
  <2> DEFINE e1 == Relinked(d, l, "next", n, p, "last", n, n, p, l, Nil)
  <2>1. e = e1
    BY <1>6 DEF Relinked
  <2>2. /\ Beside(d, e1)
        /\ e1.node[n].parent = p /\ e1.node[n].prev = l /\ e1.node[n].next = Nil
        /\ \A m \in DOMAIN d.node, h \in Members :
            m # n \/ h \notin {"parent", "prev", "next"} =>
                e1.node[m][h] = IF m = p /\ h = "last" THEN n
                                ELSE IF m = l /\ h = "next" THEN n ELSE d.node[m][h]
    BY <1>1, <1>2, <1>4, <1>6, RelinkedFacts
  <2> HIDE DEF e1
  <2>3. Alike(d, e1)
    BY <1>1, <2>2 DEF Alike, Beside, Pointing
  <2>4. Joined(d, e1, p, l, n, Nil)
    BY <1>1, <1>2, <1>4, <1>6, <2>2, <2>3 DEF Joined
  <2> QED
    BY <1>3, <2>1, <2>4 DEF e, d2, l
<1> QED
  BY <1>5, <1>6

\* What follows it in InsertFirstChild.
LEMMA JoinsAtFront ==
    ASSUME NEW d, Shaped(d), Linked(d), NEW p \in DOMAIN d.node, NEW n \in Roots(d)
    PROVE  LET r == d.node[p].first
               d2 == IF r = Nil THEN Set(d, p, "last", n) ELSE Set(d, r, "prev", n)
           IN  /\ Slot(d, p, Nil, r)
               /\ Joined(d, Place(Set(d2, p, "first", n), n, p, Nil, r), p, Nil, n, r)
<1> DEFINE r == d.node[p].first
           d2 == IF r = Nil THEN Set(d, p, "last", n) ELSE Set(d, r, "prev", n)
           e == Place(Set(d2, p, "first", n), n, p, Nil, r)
<1>1. /\ n \in DOMAIN d.node /\ n # Doc /\ Nil \notin DOMAIN d.node
      /\ d.node[n].parent = Nil
  BY NilAssumption DEF Roots, Nodes, Shaped
<1>2. /\ r = Nil => d.node[p].last = Nil
      /\ r # Nil => r \in DOMAIN d.node /\ d.node[r].parent = p /\ r # n
      /\ r # Nil => Child(d, r, p) /\ d.node[r].prev = Nil
  BY <1>1 DEF Linked, Child, Nodes
<1>3. Slot(d, p, Nil, r)
  BY <1>2 DEF Slot
<1>4. {"kind", "attrs", "parent", "first", "last", "prev", "next"} \subseteq Members
  BY DEF Members, Pointing
<1> HIDE DEF r
<1>5. CASE r = Nil
  <2> DEFINE e1 == Relinked(d, p, "last", n, p, "first", n, n, p, Nil, r)
  <2>1. e = e1
    BY <1>5 DEF Relinked
  <2>2. /\ Beside(d, e1)
        /\ e1.node[n].parent = p /\ e1.node[n].prev = Nil /\ e1.node[n].next = r
        /\ \A m \in DOMAIN d.node, h \in Members :
            m # n \/ h \notin {"parent", "prev", "next"} =>
                e1.node[m][h] = IF m = p /\ h = "first" THEN n
                                ELSE IF m = p /\ h = "last" THEN n ELSE d.node[m][h]
    BY <1>1, <1>4, RelinkedFacts
  <2> HIDE DEF e1
  <2>3. Alike(d, e1)
    BY <1>1, <2>2 DEF Alike, Beside, Pointing
  <2>4. Joined(d, e1, p, Nil, n, r)
    BY <1>1, <1>4, <1>5, <2>2, <2>3 DEF Joined
  <2> QED
    BY <1>3, <2>1, <2>4 DEF e, d2, r
<1>6. CASE r # Nil
  <2> DEFINE e1 == Relinked(d, r, "prev", n, p, "first", n, n, p, Nil, r)
  <2>1. e = e1
    BY <1>6 DEF Relinked
  <2>2. /\ Beside(d, e1)
        /\ e1.node[n].parent = p /\ e1.node[n].prev = Nil /\ e1.node[n].next = r
        /\ \A m \in DOMAIN d.node, h \in Members :
            m # n \/ h \notin {"parent", "prev", "next"} =>
                e1.node[m][h] = IF m = p /\ h = "first" THEN n
                                ELSE IF m = r /\ h = "prev" THEN n ELSE d.node[m][h]
    BY <1>1, <1>2, <1>4, <1>6, RelinkedFacts
  <2> HIDE DEF e1
  <2>3. Alike(d, e1)
    BY <1>1, <2>2 DEF Alike, Beside, Pointing
  <2>4. Joined(d, e1, p, Nil, n, r)
    BY <1>1, <1>2, <1>4, <1>6, <2>2, <2>3 DEF Joined
  <2> QED
    BY <1>3, <2>1, <2>4 DEF e, d2, r
<1> QED
  BY <1>5, <1>6

\* What follows it in InsertAfterChild, where the sibling has a next one.
LEMMA JoinsAfter ==
    ASSUME NEW d, Shaped(d), Linked(d), NEW p, NEW a, Child(d, a, p),
           NEW n \in Roots(d), d.node[a].next # Nil, p # Nil
    PROVE  LET x == d.node[a].next
           IN  /\ Slot(d, p, a, x)
               /\ Joined(d, Place(Set(Set(d, x, "prev", n), a, "next", n), n, p, a, x), p, a, n, x)
<1> DEFINE x == d.node[a].next
           e == Relinked(d, x, "prev", n, a, "next", n, n, p, a, x)
<1>1. /\ n \in DOMAIN d.node /\ n # Doc /\ Nil \notin DOMAIN d.node
      /\ d.node[n].parent = Nil /\ d.node[n].prev = Nil
  BY NilAssumption DEF Roots, Nodes, Shaped, Linked
<1>2. /\ a \in DOMAIN d.node /\ a # Nil /\ a # n
      /\ x \in DOMAIN d.node /\ x # n /\ Child(d, x, p) /\ d.node[x].prev = a
      /\ p \in DOMAIN d.node
  BY <1>1 DEF Linked, Child, Nodes
<1>3. Slot(d, p, a, x)
  BY <1>2 DEF Slot
<1>4. {"kind", "attrs", "parent", "first", "last", "prev", "next"} \subseteq Members
  BY DEF Members, Pointing
<1> HIDE DEF x
<1>5. /\ Beside(d, e)
      /\ e.node[n].parent = p /\ e.node[n].prev = a /\ e.node[n].next = x
      /\ \A m \in DOMAIN d.node, h \in Members :
            m # n \/ h \notin {"parent", "prev", "next"} =>
                e.node[m][h] = IF m = a /\ h = "next" THEN n
                               ELSE IF m = x /\ h = "prev" THEN n ELSE d.node[m][h]
  BY <1>1, <1>2, <1>4, RelinkedFacts
<1> HIDE DEF e
<1>6. Alike(d, e)
  BY <1>1, <1>5 DEF Alike, Beside, Pointing
<1>7. Joined(d, e, p, a, n, x)
  BY <1>1, <1>2, <1>4, <1>5, <1>6 DEF Joined
<1> QED
  BY <1>3, <1>7 DEF e, x, Relinked

-----------------------------------------------------------------------------
(***************************************************************************)
(* The list of the nodes without a parent, and the counts.                 *)
(***************************************************************************)
Distinct(s) == \A i, j \in DOMAIN s : s[i] = s[j] => i = j

LEMMA SwapRemoveFacts ==
    ASSUME NEW s \in Seq(Nat), NEW i \in DOMAIN s, Distinct(s)
    PROVE  /\ SwapRemove(s, i) \in Seq(Nat) /\ Distinct(SwapRemove(s, i))
           /\ ToSet(SwapRemove(s, i)) = ToSet(s) \ {s[i]} /\ Len(SwapRemove(s, i)) = Len(s) - 1
<1> DEFINE k == Len(s)
           t == [s EXCEPT ![i] = s[k]]
           r == SubSeq(t, 1, k - 1)
<1>1. k \in Nat \ {0} /\ i \in 1 .. k /\ DOMAIN s = 1 .. k /\ s[k] \in Nat
  OBVIOUS
<1>2. t \in Seq(Nat) /\ Len(t) = k /\ \A j \in 1 .. k : t[j] = IF j = i THEN s[k] ELSE s[j]
  BY <1>1
<1> HIDE DEF t
<1>3. \A j \in 1 .. k - 1 : t[j] \in Nat
  BY <1>1, <1>2
<1>4. /\ r \in Seq(Nat) /\ Len(r) = k - 1
      /\ \A j \in 1 .. k - 1 : r[j] = t[j]
  <2>1. /\ r \in Seq(Nat)
        /\ Len(r) = IF 1 <= k - 1 THEN k - 1 - 1 + 1 ELSE 0
        /\ \A j \in 1 .. k - 1 - 1 + 1 : r[j] = t[1 + j - 1]
    BY <1>1, <1>3, SubSeqProperties
  <2> QED
    BY <1>1, <2>1
<1>5. SwapRemove(s, i) = r
  BY <1>2 DEF SwapRemove, Front, ReplaceAt, Last, t
<1> HIDE DEF r
<1> HIDE DEF k
<1>6. DOMAIN r = 1 .. k - 1 /\ \A j \in 1 .. k - 1 : r[j] = IF j = i THEN s[k] ELSE s[j]
  <2>1. DOMAIN r = 1 .. k - 1
    BY <1>1, <1>4
  <2>2. \A j \in 1 .. k - 1 : j \in 1 .. k
    BY <1>1
  <2> QED
    BY <1>2, <1>4, <2>1, <2>2
<1>7. ASSUME NEW a \in DOMAIN r, NEW b \in DOMAIN r, r[a] = r[b]
      PROVE  a = b
  <2>1. a \in 1 .. k /\ b \in 1 .. k /\ a # k /\ b # k
    BY <1>1, <1>6, <1>7
  <2>2. a = i => b = i
    BY <1>1, <1>6, <1>7, <2>1 DEF Distinct
  <2>3. b = i => a = i
    BY <1>1, <1>6, <1>7, <2>1 DEF Distinct
  <2> QED
    BY <1>1, <1>6, <1>7, <2>1, <2>2, <2>3 DEF Distinct
<1>8. ASSUME NEW j \in 1 .. k - 1
      PROVE  r[j] \in ToSet(s) \ {s[i]}
  <2>1. j \in 1 .. k /\ j # k
    BY <1>1
  <2>2. CASE j = i
    BY <1>1, <1>6, <2>1, <2>2 DEF Distinct, ToSet
  <2>3. CASE j # i
    BY <1>1, <1>6, <2>1, <2>3 DEF Distinct, ToSet
  <2> QED
    BY <2>2, <2>3
<1>9. ASSUME NEW j \in 1 .. k, s[j] # s[i]
      PROVE  s[j] \in ToSet(r)
  <2>1. CASE j = k
    <3>1. i \in 1 .. k - 1 /\ r[i] = s[k]
      BY <1>1, <1>6, <1>9, <2>1
    <3> QED
      BY <1>6, <2>1, <3>1 DEF ToSet
  <2>2. CASE j # k
    <3>1. j \in 1 .. k - 1 /\ r[j] = s[j]
      BY <1>1, <1>6, <1>9, <2>2
    <3> QED
      BY <1>6, <3>1 DEF ToSet
  <2> QED
    BY <2>1, <2>2
<1>10. ToSet(r) = ToSet(s) \ {s[i]}
  BY <1>1, <1>6, <1>8, <1>9 DEF ToSet
<1> QED
  BY <1>1, <1>4, <1>5, <1>7, <1>10 DEF Distinct

LEMMA LeastFresh ==
    ASSUME NEW T \in SUBSET Nat, T # {}
    PROVE  Min(T) \in T /\ \A y \in T : Min(T) <= y
<1>1. PICK x \in T : \A y \in T : <<y, x>> \notin OpToRel(<, Nat)
  BY NatLessThanWellFounded, WFMin
<1>2. \A y \in T : x <= y
  <2> TAKE y \in T
  <2>1. <<y, x>>[1] = y /\ <<y, x>>[2] = x /\ <<y, x>> \in Nat \X Nat
    OBVIOUS
  <2>2. ~(y < x)
    BY <1>1, <2>1 DEF OpToRel
  <2> QED
    BY <2>2
<1> QED
  BY <1>1, <1>2 DEF Min

LEMMA FreshFacts ==
    ASSUME NEW d, Shaped(d), Doc \in DOMAIN d.node
    PROVE  Fresh(d) \in Nat \ {Doc} /\ Fresh(d) \notin DOMAIN d.node
<1> DEFINE c == Cardinality(DOMAIN d.node)
           T == 1 .. c \ Nodes(d)
<1>1. IsFiniteSet(DOMAIN d.node) /\ c \in Nat
  BY FS_CardinalityType DEF Shaped
<1>2. IsFiniteSet(Nodes(d)) /\ Cardinality(Nodes(d)) = c - 1
  BY <1>1, FS_RemoveElement DEF Nodes
<1>3. T # {}
  <2> SUFFICES ASSUME 1 .. c \subseteq Nodes(d) PROVE FALSE
    OBVIOUS
  <2>1. Cardinality(1 .. c) = c
    BY <1>1, FS_Interval
  <2>2. Cardinality(1 .. c) <= Cardinality(Nodes(d))
    BY <1>2, FS_Subset
  <2> QED
    BY <1>1, <1>2, <2>1, <2>2
<1>4. T \in SUBSET Nat
  BY <1>1
<1>5. Min(T) \in T
  BY <1>3, <1>4, LeastFresh
<1>6. Fresh(d) = Min(T)
  BY DEF Fresh
<1> QED
  BY <1>1, <1>5, <1>6 DEF Nodes, Doc

-----------------------------------------------------------------------------
\* A text is a sequence, of whatever characters.
Text(v) == \E S : v \in Seq(S)

\* No two attributes have the same name.
Named(a) ==
    /\ \E S : a \in Seq(S)
    /\ \A i \in DOMAIN a :
        a[i] = [name |-> a[i].name, value |-> a[i].value] /\ Text(a[i].name) /\ Text(a[i].value)
    /\ \A i, j \in DOMAIN a : a[i].name = a[j].name => i = j

\* What nodes hold are texts, and the document itself holds nothing; the attributes
\* of a node have different names, and their pool counts them.
Attributed(d) ==
    /\ d.node[Doc].kind = "document" /\ d.node[Doc].value = <<>> /\ d.node[Doc].attrs = <<>>
    /\ \A n \in Nodes(d) : Text(d.node[n].value) /\ Named(d.node[n].attrs)
    /\ d.current["attribute"] = Cardinality(AttributesOf(d)) /\ d.untracked["attribute"] = 0

\* R is on the list of the unlinked nodes, and counted as untracked.
Tallied(d, R) ==
    /\ ToSet(d.unlinked) = R /\ Distinct(d.unlinked)
    /\ d.current \in [Pools -> Int] /\ d.untracked \in [Pools -> Int]
    /\ \A pool \in NodePools :
        /\ d.current[pool] = Cardinality(InPool(d, Nodes(d), pool))
        /\ d.untracked[pool] = Cardinality(InPool(d, R, pool))
    /\ Attributed(d)

\* The invariant of the calls that create, insert and unlink nodes.
Sane(d) == Shaped(d) /\ Linked(d) /\ Ordered(d) /\ Tallied(d, Roots(d))

LEMMA NoneAreNamed == Named(<<>>)
<1>1. <<>> \in Seq({}) /\ DOMAIN <<>> = {}
  OBVIOUS
<1> QED
  BY <1>1 DEF Named

\* Nodes that hold the same hold texts.
LEMMA AlikeTexts ==
    ASSUME NEW d, NEW R, Tallied(d, R), NEW e, Alike(d, e)
    PROVE  /\ \A m \in Nodes(d) : Text(e.node[m].value)
           /\ Doc \in DOMAIN d.node => e.node[Doc].value = d.node[Doc].value
<1>1. \A m \in Nodes(d) : Text(d.node[m].value) /\ m \in DOMAIN d.node
  BY DEF Tallied, Attributed, Nodes
<1>2. "value" \in Members \ Pointing
  BY DEF Members, Pointing
<1> QED
  BY <1>1, <1>2 DEF Alike

LEMMA PoolOfKind ==
    ASSUME NEW kind
    PROVE  PoolOf(kind) \in NodePools
<1>1. CASE kind = "element"
  BY <1>1 DEF PoolOf, NodePools, Pools
<1>2. CASE kind \in {"text", "cdata"}
  BY <1>2 DEF PoolOf, NodePools, Pools
<1>3. CASE kind # "element" /\ kind \notin {"text", "cdata"}
  BY <1>3 DEF PoolOf, NodePools, Pools
<1> QED
  BY <1>1, <1>2, <1>3

\* Documents with the same kinds of nodes count the same.
LEMMA SameTally ==
    ASSUME NEW d, NEW e, NEW R \in SUBSET DOMAIN d.node, Beside(d, e), Tallied(d, R),
           \A m \in DOMAIN d.node : e.node[m].kind = d.node[m].kind /\ e.node[m].attrs = d.node[m].attrs,
           \A m \in Nodes(d) : Text(e.node[m].value),
           Doc \in DOMAIN d.node, e.node[Doc].value = d.node[Doc].value
    PROVE  Tallied(e, R)
<1>1. Nodes(e) = Nodes(d) /\ Nodes(d) \subseteq DOMAIN d.node
  BY DEF Nodes, Beside
<1>2. \A pool \in NodePools : InPool(e, Nodes(d), pool) = InPool(d, Nodes(d), pool)
  BY <1>1 DEF InPool
<1>3. \A pool \in NodePools : InPool(e, R, pool) = InPool(d, R, pool)
  BY DEF InPool
<1>4. AttributesOf(e) = AttributesOf(d)
  BY <1>1 DEF AttributesOf
<1>5. Attributed(e)
  BY <1>1, <1>4 DEF Attributed, Tallied, Beside
<1> QED
  BY <1>1, <1>2, <1>3, <1>5 DEF Tallied, Beside

\* The place a node has on the list is found.
LEMMA MarkInUseFacts ==
    ASSUME NEW d, d.unlinked \in Seq(Nat), Distinct(d.unlinked),
           NEW i \in DOMAIN d.unlinked, NEW n, d.unlinked[i] = n
    PROVE  MarkInUse(d, n) = [d EXCEPT !.unlinked = SwapRemove(d.unlinked, i)]
<1> DEFINE s == d.unlinked
           I == {j \in 1 .. Len(s) : s[j] = n}
<1>1. n \in ToSet(s) /\ i \in Nat /\ I = {i}
  BY DEF ToSet, Distinct
<1>2. SelectInSeq(s, LAMBDA m : m = n) = IF I # {} THEN Min(I) ELSE 0
  BY DEF SelectInSeq
<1>3. Min({i}) = i
  BY <1>1 DEF Min
<1>4. SelectInSeq(s, LAMBDA m : m = n) = i
  BY <1>1, <1>2, <1>3
<1> QED
  BY <1>1, <1>4 DEF MarkInUse

\* A node without a parent leaves the list and is tracked.
LEMMA MarkedFacts ==
    ASSUME NEW d, Sane(d), NEW n \in Roots(d)
    PROVE  LET e == SetTracked(MarkInUse(d, n), n)
           IN  /\ Shaped(e) /\ e.node = d.node /\ Len(e.unlinked) = Len(d.unlinked) - 1
               /\ MarkInUse(SetTracked(d, n), n) = e
               /\ Tallied(e, Roots(d) \ {n})
<1> DEFINE s == d.unlinked
           q == PoolOf(d.node[n].kind)
           u == [d.untracked EXCEPT ![q] = @ - 1]
           e == SetTracked(MarkInUse(d, n), n)
<1>1. /\ s \in Seq(Nat) /\ Distinct(s) /\ ToSet(s) = Roots(d)
      /\ d.untracked \in [Pools -> Int] /\ d.current \in [Pools -> Int]
  BY DEF Sane, Shaped, Tallied
<1>2. PICK i \in DOMAIN s : s[i] = n
  BY <1>1 DEF ToSet
<1>5. MarkInUse(d, n) = [d EXCEPT !.unlinked = SwapRemove(s, i)]
  BY <1>1, <1>2, MarkInUseFacts
<1>6. q \in NodePools /\ q \in Pools
  BY PoolOfKind DEF NodePools
<1> DEFINE r == SwapRemove(s, i)
<1>7. r \in Seq(Nat) /\ Distinct(r) /\ ToSet(r) = Roots(d) \ {n} /\ Len(r) = Len(s) - 1
  BY <1>1, <1>2, SwapRemoveFacts
<1> HIDE DEF r
<1>8. e = [node |-> d.node, unlinked |-> r, current |-> d.current, untracked |-> u,
           error |-> d.error, depth |-> d.depth, bom |-> d.bom]
  <2>1. d = [node |-> d.node, unlinked |-> d.unlinked, current |-> d.current,
             untracked |-> d.untracked, error |-> d.error, depth |-> d.depth, bom |-> d.bom]
    BY DEF Sane, Shaped
  <2>2. MarkInUse(d, n) = [node |-> d.node, unlinked |-> r, current |-> d.current,
                           untracked |-> d.untracked, error |-> d.error, depth |-> d.depth, bom |-> d.bom]
    BY <1>5, <2>1 DEF r
  <2> QED
    BY <2>2 DEF SetTracked
<1>21. MarkInUse(SetTracked(d, n), n) = e
  <2> DEFINE t == SetTracked(d, n)
  <2>1. d = [node |-> d.node, unlinked |-> d.unlinked, current |-> d.current,
             untracked |-> d.untracked, error |-> d.error, depth |-> d.depth, bom |-> d.bom]
    BY DEF Sane, Shaped
  <2>2. t = [node |-> d.node, unlinked |-> s, current |-> d.current,
             untracked |-> u, error |-> d.error, depth |-> d.depth, bom |-> d.bom]
    BY <2>1 DEF SetTracked
  <2> HIDE DEF t, u
  <2>3. MarkInUse(t, n) = [t EXCEPT !.unlinked = SwapRemove(s, i)]
    <3>1. t.unlinked = s
      BY <2>2
    <3> QED
      BY <1>1, <1>2, <3>1, MarkInUseFacts
  <2> QED
    BY <1>8, <2>2, <2>3 DEF t, r
<1> HIDE DEF e
<1>9. Shaped(e) /\ e.node = d.node /\ Nodes(e) = Nodes(d)
  BY <1>7, <1>8 DEF Sane, Shaped, Nodes
<1>10. u \in [Pools -> Int] /\ u[q] = d.untracked[q] - 1
       /\ \A pool \in Pools \ {q} : u[pool] = d.untracked[pool]
  BY <1>1, <1>6
<1> HIDE DEF u, q
<1>11. ASSUME NEW pool \in NodePools
       PROVE  /\ d.current[pool] = Cardinality(InPool(e, Nodes(e), pool))
              /\ u[pool] = Cardinality(InPool(e, Roots(d) \ {n}, pool))
  <2>1. InPool(e, Nodes(e), pool) = InPool(d, Nodes(d), pool)
    BY <1>9 DEF InPool
  <2>2. InPool(e, Roots(d) \ {n}, pool) = InPool(d, Roots(d), pool) \ {n}
    BY <1>9 DEF InPool
  <2>3. IsFiniteSet(InPool(d, Roots(d), pool))
    <3>1. IsFiniteSet(DOMAIN d.node) /\ InPool(d, Roots(d), pool) \in SUBSET DOMAIN d.node
      BY DEF Sane, Shaped, InPool, Roots, Nodes
    <3> QED
      BY <3>1, FS_Subset
  <2>4. d.untracked[pool] = Cardinality(InPool(d, Roots(d), pool))
        /\ d.current[pool] = Cardinality(InPool(d, Nodes(d), pool))
    BY DEF Sane, Tallied
  <2>5. n \in InPool(d, Roots(d), pool) <=> pool = q
    BY DEF InPool, q
  <2>6. Cardinality(InPool(d, Roots(d), pool) \ {n}) =
            IF pool = q THEN d.untracked[pool] - 1 ELSE d.untracked[pool]
    BY <2>3, <2>4, <2>5, FS_RemoveElement
  <2>7. pool \in Pools
    BY DEF NodePools
  <2> QED
    BY <1>10, <2>1, <2>2, <2>4, <2>6, <2>7
<1>12. Tallied(e, Roots(d) \ {n})
  <2>1. e.unlinked = r /\ e.current = d.current /\ e.untracked = u
    BY <1>8
  <2>2. "attribute" \in Pools \ {q}
    BY <1>6 DEF NodePools, Pools
  <2>3. AttributesOf(e) = AttributesOf(d)
    BY <1>9 DEF AttributesOf
  <2>4. Attributed(e)
    BY <1>9, <1>10, <2>1, <2>2, <2>3 DEF Attributed, Sane, Tallied
  <2> QED
    BY <1>1, <1>7, <1>10, <1>11, <2>1, <2>4 DEF Tallied
<1>22. Len(e.unlinked) = Len(s) - 1
  BY <1>7, <1>8
<1> QED
  BY <1>9, <1>12, <1>21, <1>22 DEF e

-----------------------------------------------------------------------------
(***************************************************************************)
(* The calls.                                                              *)
(***************************************************************************)
\* The nodes of S are nowhere, as between the preamble and the insertion of a node
\* and while nodes are deleted: they lie under nothing and are not on the list.
Loose(d, S) ==
    /\ Shaped(d) /\ Linked(d) /\ Ordered(d)
    /\ S \subseteq Roots(d) /\ Tallied(d, Roots(d) \ S)

Floating(d, n) == Loose(d, {n})

\* The sibling after a, n left out.
Skip(d, a, n) == IF d.node[a].next = n THEN d.node[n].next ELSE d.node[a].next

\* All nodes of both but n have the parent they had, and the order.
Elsewhere(d, e, n) ==
    \A a \in (DOMAIN d.node \cap DOMAIN e.node) \ {n} :
        e.node[a].parent = d.node[a].parent /\ Skip(e, a, n) = Skip(d, a, n)

LEMMA PreambleFloats ==
    ASSUME NEW d, Sane(d), NEW n \in Nodes(d)
    PROVE  LET e == InsertChildPreamble(d, n)
           IN  /\ Floating(e, n) /\ DOMAIN e.node = DOMAIN d.node /\ Alike(d, e)
               /\ \A p : Apart(d, n, p) => Apart(e, n, p)
               /\ \A a, p : Child(d, a, p) /\ a # n => Child(e, a, p)
               /\ Elsewhere(d, e, n)
               /\ \A a \in Nodes(d) \ {n} : e.node[a].next = Skip(d, a, n)
<1> DEFINE e == InsertChildPreamble(d, n)
<1>1. /\ Shaped(d) /\ Linked(d) /\ Ordered(d) /\ Tallied(d, Roots(d))
      /\ n \in DOMAIN d.node /\ Nil \notin DOMAIN d.node
  BY NilAssumption DEF Sane, Nodes, Shaped
<1>2. CASE d.node[n].parent # Nil
  <2>1. e = Unlink(d, n)
    BY <1>2 DEF InsertChildPreamble
  <2>2. /\ Beside(d, e)
        /\ \A m \in DOMAIN d.node :
            /\ e.node[m].kind = d.node[m].kind /\ e.node[m].attrs = d.node[m].attrs
            /\ e.node[m].parent = IF m = n THEN Nil ELSE d.node[m].parent
            /\ e.node[m].next = IF m = n THEN Nil ELSE IF m = d.node[n].prev THEN d.node[n].next
                                                  ELSE d.node[m].next
    BY <1>1, <1>2, <2>1, UnlinkFacts
  <2>11. Alike(d, e)
    BY <1>1, <1>2, <2>1, UnlinkFacts DEF Alike, Beside
  <2>3. Linked(e) /\ Ordered(e)
    BY <1>1, <1>2, <2>1, UnlinkKeepsLinks, UnlinkKeepsOrder
  <2>4. \A p : Apart(d, n, p) => Apart(e, n, p)
    BY <1>1, <1>2, <2>1, UnlinkKeepsApart
  <2> HIDE DEF e
  <2>5. Shaped(e) /\ DOMAIN e.node = DOMAIN d.node /\ Nodes(e) = Nodes(d)
    BY <2>2 DEF Beside, Nodes
  <2>6. n \in Roots(e) /\ Roots(e) \ {n} = Roots(d)
    BY <1>2, <2>2, <2>5 DEF Roots, Nodes
  <2>7. Tallied(e, Roots(d))
    <3>1. Roots(d) \in SUBSET DOMAIN d.node
      BY DEF Roots, Nodes
    <3>2. /\ \A m \in Nodes(d) : Text(e.node[m].value)
          /\ Doc \in DOMAIN d.node /\ e.node[Doc].value = d.node[Doc].value
      BY <1>1, <2>11, AlikeTexts DEF Linked
    <3> QED
      BY <1>1, <2>2, <3>1, <3>2, SameTally
  <2>8. \A a, p : Child(d, a, p) /\ a # n => Child(e, a, p)
    BY <2>2, <2>5 DEF Child, Nodes
  <2>9. \A a \in DOMAIN d.node \ {n} : e.node[a].next = Skip(d, a, n)
    BY <1>1, <2>2 DEF Linked, Nodes, Skip
  <2>10. Elsewhere(d, e, n)
    <3>1. \A a \in DOMAIN d.node : e.node[a].next # n
      BY <1>1, <2>3, <2>5, <2>6 DEF Linked, Roots
    <3> QED
      BY <2>2, <2>5, <2>9, <3>1 DEF Elsewhere, Skip
  <2> QED
    BY <2>3, <2>4, <2>5, <2>6, <2>7, <2>8, <2>9, <2>10, <2>11 DEF Floating, Loose, Nodes, e
<1>3. CASE d.node[n].parent = Nil
  <2>1. n \in Roots(d) /\ e = SetTracked(MarkInUse(d, n), n)
    BY <1>3 DEF Roots, InsertChildPreamble
  <2>2. Shaped(e) /\ e.node = d.node /\ Tallied(e, Roots(d) \ {n})
    BY <2>1, MarkedFacts
  <2> HIDE DEF e
  <2>3. Linked(e) /\ Ordered(e) /\ Nodes(e) = Nodes(d) /\ Roots(e) = Roots(d)
    <3>1. Linked(e)
      BY <1>1, <2>2 DEF Linked, Child, Nodes
    <3>2. Ordered(e)
      BY <1>1, <2>2 DEF Ordered
    <3> QED
      BY <2>2, <3>1, <3>2 DEF Nodes, Roots
  <2>4. \A p : Apart(d, n, p) => Apart(e, n, p)
    BY <2>2 DEF Apart
  <2>5. \A a, p : Child(d, a, p) => Child(e, a, p)
    BY <2>2 DEF Child, Nodes
  <2>6. \A a \in Nodes(d) : d.node[a].next # n
    BY <1>1, <1>3 DEF Linked, Nodes
  <2>7. Elsewhere(d, e, n)
    BY <2>2 DEF Elsewhere, Skip
  <2>8. Alike(d, e)
    BY <2>2 DEF Alike
  <2> QED
    BY <2>1, <2>2, <2>3, <2>4, <2>5, <2>6, <2>7, <2>8 DEF Floating, Loose, Skip, e
<1> QED
  BY <1>2, <1>3

LEMMA JoinedIsSane ==
    ASSUME NEW d, NEW n, Floating(d, n), NEW p, NEW l, NEW r, Slot(d, p, l, r),
           Apart(d, n, p), NEW e, Joined(d, e, p, l, n, r)
    PROVE  /\ Sane(e) /\ Child(e, n, p) /\ e.node[n].prev = l /\ e.node[n].next = r
           /\ Alike(d, e) /\ Elsewhere(d, e, n)
<1>1. Shaped(d) /\ Linked(d) /\ Ordered(d) /\ n \in Roots(d) /\ Tallied(d, Roots(d) \ {n})
  BY DEF Floating, Loose
<1>2. Linked(e) /\ Ordered(e)
  BY <1>1, JoinKeepsLinks, JoinKeepsOrder
<1>3. /\ Beside(d, e) /\ Nodes(e) = Nodes(d) /\ n \in Nodes(d) /\ Nodes(d) \subseteq DOMAIN d.node
      /\ \A m \in DOMAIN d.node :
            /\ e.node[m].kind = d.node[m].kind /\ e.node[m].attrs = d.node[m].attrs
            /\ e.node[m].parent = IF m = n THEN p ELSE d.node[m].parent
      /\ e.node[n].prev = l /\ e.node[n].next = r
  BY <1>1 DEF Joined, Beside, Nodes, Roots
<1>4. Roots(e) = Roots(d) \ {n}
  <2>1. p # Nil
    BY <1>1, NilAssumption DEF Slot, Shaped
  <2> QED
    BY <1>3, <2>1 DEF Roots
<1>5. Tallied(e, Roots(d) \ {n})
  <2>1. Roots(d) \ {n} \in SUBSET DOMAIN d.node
    BY <1>3 DEF Roots
  <2>2. /\ \A m \in Nodes(d) : Text(e.node[m].value)
        /\ Doc \in DOMAIN d.node /\ e.node[Doc].value = d.node[Doc].value
    BY <1>1, AlikeTexts DEF Joined, Linked
  <2> QED
    BY <1>1, <1>3, <2>1, <2>2, SameTally
<1>6. Child(e, n, p)
  BY <1>3 DEF Child
<1>7. Elsewhere(d, e, n)
  <2>1. Nil \notin DOMAIN d.node
    BY <1>1, NilAssumption DEF Shaped
  <2>2. \A a \in DOMAIN d.node : d.node[a].next # n
    BY <1>1, <1>3, <2>1 DEF Linked, Roots
  <2>3. \A a \in DOMAIN d.node \ {n} :
            e.node[a].next = IF a = l THEN n ELSE d.node[a].next
    BY DEF Joined
  <2>4. l # Nil => d.node[l].next = r
    BY DEF Slot
  <2> QED
    BY <1>3, <2>1, <2>2, <2>3, <2>4 DEF Elsewhere, Skip
<1> QED
  BY <1>2, <1>3, <1>4, <1>5, <1>6, <1>7 DEF Sane, Beside, Joined

\* e is d after n was inserted below p: it is sane, and no other node has moved.
Inserted(d, e, p, n) ==
    Sane(e) /\ Alike(d, e) /\ Child(e, n, p) /\ Elsewhere(d, e, n)

LEMMA InsertEndFacts ==
    ASSUME NEW d, Sane(d), NEW p \in DOMAIN d.node, NEW n \in Nodes(d), Apart(d, n, p)
    PROVE  LET e == InsertEndChild(d, p, n)
           IN  /\ Inserted(d, e, p, n) /\ e.node[n].next = Nil
               /\ e.node[n].prev = InsertChildPreamble(d, n).node[p].last
<1> DEFINE c == InsertChildPreamble(d, n)
<1>1. Floating(c, n) /\ DOMAIN c.node = DOMAIN d.node /\ Apart(c, n, p) /\ Alike(d, c) /\ Elsewhere(d, c, n)
  BY PreambleFloats
<1> HIDE DEF c
<1> DEFINE l == c.node[p].last
           d2 == IF l = Nil THEN Set(c, p, "first", n) ELSE Set(c, l, "next", n)
           e == Place(Set(d2, p, "last", n), n, p, l, Nil)
<1>2. Slot(c, p, l, Nil) /\ Joined(c, e, p, l, n, Nil)
  BY <1>1, JoinsAtEnd DEF Floating, Loose
<1>3. InsertEndChild(d, p, n) = e
  BY DEF InsertEndChild, c
<1> HIDE DEF e, l
<1>4. Inserted(d, e, p, n) /\ e.node[n].next = Nil /\ e.node[n].prev = l
  BY <1>1, <1>2, JoinedIsSane DEF Elsewhere, Inserted, Alike
<1> QED
  BY <1>3, <1>4 DEF l, c

\* InsertEndChild keeps the document sane and makes the node the last child; every
\* other node keeps its parent and the order it has to its siblings
\* (src/filter/lib/tinyxml/tinyxml.cpp:925).
THEOREM InsertEndKeeps ==
    ASSUME NEW d, Sane(d), NEW p \in DOMAIN d.node, NEW n \in Nodes(d), Apart(d, n, p)
    PROVE  LET e == InsertEndChild(d, p, n)
           IN  Inserted(d, e, p, n) /\ e.node[n].next = Nil
BY InsertEndFacts

\* InsertFirstChild keeps the document sane and makes the node the first child;
\* every other node keeps its parent and the order it has to its siblings
\* (src/filter/lib/tinyxml/tinyxml.cpp:955).
THEOREM InsertFirstKeeps ==
    ASSUME NEW d, Sane(d), NEW p \in DOMAIN d.node, NEW n \in Nodes(d), Apart(d, n, p)
    PROVE  LET e == InsertFirstChild(d, p, n)
           IN  Inserted(d, e, p, n) /\ e.node[n].prev = Nil
<1> DEFINE c == InsertChildPreamble(d, n)
<1>1. Floating(c, n) /\ DOMAIN c.node = DOMAIN d.node /\ Apart(c, n, p) /\ Alike(d, c) /\ Elsewhere(d, c, n)
  BY PreambleFloats
<1> HIDE DEF c
<1> DEFINE r == c.node[p].first
           d2 == IF r = Nil THEN Set(c, p, "last", n) ELSE Set(c, r, "prev", n)
           e == Place(Set(d2, p, "first", n), n, p, Nil, r)
<1>2. Slot(c, p, Nil, r) /\ Joined(c, e, p, Nil, n, r)
  BY <1>1, JoinsAtFront DEF Floating, Loose
<1>3. InsertFirstChild(d, p, n) = e
  BY DEF InsertFirstChild, c
<1> HIDE DEF e, r
<1>4. Inserted(d, e, p, n) /\ e.node[n].prev = Nil
  BY <1>1, <1>2, JoinedIsSane DEF Elsewhere, Inserted, Alike
<1> QED
  BY <1>3, <1>4

\* InsertAfterChild keeps the document sane and puts the node after its sibling,
\* where it does not use a null pointer; every other node keeps its parent and the
\* order it has to its siblings
\* (src/filter/lib/tinyxml/tinyxml.cpp:988).
THEOREM InsertAfterKeeps ==
    ASSUME NEW d, Sane(d), NEW p \in DOMAIN d.node, NEW n \in Nodes(d), Apart(d, n, p),
           NEW a, Child(d, a, p), ~InsertAfterCrashes(d, a, n)
    PROVE  LET e == InsertAfterChild(d, p, a, n)
           IN  Inserted(d, e, p, n) /\ (a # n => e.node[n].prev = a)
<1> DEFINE c == InsertChildPreamble(d, n)
<1>1. CASE a = n
  BY <1>1 DEF InsertAfterChild, Inserted, Elsewhere, Alike
<1>2. CASE a # n /\ d.node[a].next = Nil
  <2>1. InsertAfterChild(d, p, a, n) = InsertEndChild(d, p, n)
    BY <1>2 DEF InsertAfterChild
  <2>2. n # Nil
    BY NilAssumption DEF Sane, Shaped, Nodes
  <2>3. Floating(c, n) /\ Child(c, a, p) /\ c.node[a].next = Nil
    BY <1>2, <2>2, PreambleFloats DEF Child, Skip
  <2> HIDE DEF c
  <2>4. p # Nil
    BY NilAssumption DEF Sane, Shaped
  <2>5. c.node[p].last = a
    BY <2>3, <2>4 DEF Floating, Loose, Linked, Child, Nodes
  <2> QED
    BY <2>1, <2>5, InsertEndFacts DEF c
<1>3. CASE a # n /\ d.node[a].next # Nil
  <2>1. /\ Floating(c, n) /\ DOMAIN c.node = DOMAIN d.node /\ Apart(c, n, p) /\ Child(c, a, p)
        /\ Alike(d, c) /\ Elsewhere(d, c, n) /\ c.node[a].next = Skip(d, a, n)
    BY <1>3, PreambleFloats DEF Child
  <2>2. c.node[a].next # Nil
    BY <1>3, <2>1 DEF InsertAfterCrashes, Skip
  <2>3. p # Nil
    BY NilAssumption DEF Sane, Shaped
  <2> HIDE DEF c
  <2> DEFINE x == c.node[a].next
             e == Place(Set(Set(c, x, "prev", n), a, "next", n), n, p, a, x)
  <2>4. Slot(c, p, a, x) /\ Joined(c, e, p, a, n, x)
    BY <2>1, <2>2, <2>3, JoinsAfter DEF Floating, Loose
  <2>5. InsertAfterChild(d, p, a, n) = e
    BY <1>3 DEF InsertAfterChild, c
  <2> HIDE DEF e, x
  <2>6. Inserted(d, e, p, n) /\ e.node[n].prev = a
    BY <2>1, <2>4, JoinedIsSane DEF Elsewhere, Inserted, Alike
  <2> QED
    BY <2>5, <2>6
<1> QED
  BY <1>1, <1>2, <1>3

\* CreateUnlinkedNode keeps the document sane: it gives a node that was not there
\* and that lies under nothing, and changes no other (src/filter/lib/tinyxml/tinyxml.h:1981).
THEOREM CreateKeeps ==
    ASSUME NEW d, Sane(d), NEW kind, NEW value, Text(value)
    PROVE  LET e == CreateUnlinkedNode(d, kind, value)
           IN  /\ Sane(e) /\ Nodes(e) = Nodes(d) \cup {Fresh(d)}
               /\ Fresh(d) \notin DOMAIN d.node /\ Fresh(d) \in Roots(e)
               /\ e.node[Fresh(d)] = NewNode(kind, value)
               /\ \A m \in DOMAIN d.node : e.node[m] = d.node[m] /\ Apart(e, Fresh(d), m)
<1> DEFINE x == Fresh(d)
           D == DOMAIN d.node \cup {x}
           new == NewNode(kind, value)
           node == [n \in D |-> IF n = x THEN new ELSE d.node[n]]
           q == PoolOf(kind)
           u == Append(d.unlinked, x)
           cur == [d.current EXCEPT ![q] = @ + 1]
           unt == [d.untracked EXCEPT ![q] = @ + 1]
           e == CreateUnlinkedNode(d, kind, value)
<1>1. /\ Shaped(d) /\ Linked(d) /\ Ordered(d) /\ Tallied(d, Roots(d))
      /\ Doc \in DOMAIN d.node
  BY DEF Sane, Linked
<1>2. x \in Nat \ {Doc} /\ x \notin DOMAIN d.node /\ x # Nil
  BY <1>1, FreshFacts, NilAssumption
<1>3. q \in NodePools /\ q \in Pools
  BY PoolOfKind DEF NodePools
<1>4. e = [node |-> node, unlinked |-> u, current |-> cur, untracked |-> unt,
           error |-> d.error, depth |-> d.depth, bom |-> d.bom]
  <2>1. d = [node |-> d.node, unlinked |-> d.unlinked, current |-> d.current,
             untracked |-> d.untracked, error |-> d.error, depth |-> d.depth, bom |-> d.bom]
    BY <1>1 DEF Shaped
  <2>2. e = [d EXCEPT !.node = node, !.unlinked = u, !.current = cur, !.untracked = unt]
    BY <2>1 DEF CreateUnlinkedNode
  <2> HIDE DEF node, u, cur, unt, e
  <2> QED
    BY <2>1, <2>2
<1>5. /\ new = [f \in Members |-> new[f]] /\ new.kind = kind /\ new.attrs = <<>> /\ new.value = value
      /\ new.parent = Nil /\ new.first = Nil /\ new.last = Nil /\ new.prev = Nil /\ new.next = Nil
  BY DEF NewNode, Members, Pointing
<1> HIDE DEF x, new, e
<1>6. /\ DOMAIN node = D /\ node = [n \in DOMAIN node |-> node[n]] /\ node[x] = new
      /\ \A n \in DOMAIN d.node : node[n] = d.node[n]
  BY <1>2
<1>7. u \in Seq(Nat) /\ Len(u) = Len(d.unlinked) + 1 /\ u[Len(u)] = x
      /\ \A i \in 1 .. Len(d.unlinked) : u[i] = d.unlinked[i]
  <2>1. d.unlinked \in Seq(Nat) /\ x \in Nat
    BY <1>1, <1>2 DEF Shaped
  <2> QED
    BY <2>1, AppendProperties
<1>8. IsFiniteSet(D) /\ D \subseteq Nat
  BY <1>1, <1>2, FS_AddElement DEF Shaped
<1> HIDE DEF D, node, u, q
<1>9. Shaped(e) /\ e.node = node /\ e.unlinked = u /\ e.current = cur /\ e.untracked = unt
  <2>1. \A n \in D : node[n] = [f \in Members |-> node[n][f]]
    BY <1>1, <1>5, <1>6 DEF Shaped, D
  <2> HIDE DEF cur, unt
  <2> QED
    BY <1>4, <1>6, <1>7, <1>8, <2>1 DEF Shaped
<1>10. /\ DOMAIN e.node = D /\ Nodes(e) = Nodes(d) \cup {x} /\ x \notin Nodes(d)
       /\ Roots(e) = Roots(d) \cup {x} /\ x \notin Roots(d)
  BY <1>2, <1>5, <1>6, <1>9 DEF Nodes, Roots, D
<1>11. Linked(e)
  BY <1>1, <1>2, <1>5, <1>6, <1>9 DEF Linked, Child, Nodes, D
<1>12. Ordered(e)
  <2>1. PICK level, place \in [DOMAIN d.node -> Int] :
          \A m \in DOMAIN d.node :
            /\ d.node[m].parent # Nil => level[d.node[m].parent] < level[m]
            /\ d.node[m].next # Nil => place[m] < place[d.node[m].next]
    BY <1>1 DEF Ordered
  <2> DEFINE lv == [m \in D |-> IF m = x THEN 0 ELSE level[m]]
             pl == [m \in D |-> IF m = x THEN 0 ELSE place[m]]
  <2>2. lv \in [DOMAIN e.node -> Int] /\ pl \in [DOMAIN e.node -> Int]
    BY <1>10, <2>1 DEF D
  <2>3. \A m \in DOMAIN d.node : lv[m] = level[m] /\ pl[m] = place[m]
    BY <1>2 DEF D
  <2> HIDE DEF lv, pl
  <2>4. ASSUME NEW m \in DOMAIN e.node
        PROVE  /\ e.node[m].parent # Nil => lv[e.node[m].parent] < lv[m]
               /\ e.node[m].next # Nil => pl[m] < pl[e.node[m].next]
    <3>1. CASE m = x
      BY <1>5, <1>6, <1>9, <3>1
    <3>2. CASE m # x
      <4>1. m \in DOMAIN d.node /\ e.node[m] = d.node[m]
        BY <1>6, <1>9, <1>10, <3>2 DEF D
      <4>2. /\ d.node[m].parent \in DOMAIN d.node \cup {Nil}
            /\ d.node[m].next \in DOMAIN d.node \cup {Nil}
        BY <1>1, <4>1, Pointers DEF Nodes
      <4> QED
        BY <2>1, <2>3, <4>1, <4>2
    <3> QED
      BY <3>1, <3>2
  <2> QED
    BY <2>2, <2>4 DEF Ordered
<1>13. ToSet(e.unlinked) = Roots(e) /\ Distinct(e.unlinked)
  <2> DEFINE k == Len(d.unlinked)
  <2>1. k \in Nat /\ d.unlinked \in Seq(Nat) /\ DOMAIN d.unlinked = 1 .. k /\ DOMAIN u = 1 .. k + 1
    BY <1>1, <1>7 DEF Shaped
  <2>2. \A i \in 1 .. k : u[i] \in Roots(d)
    BY <1>1, <1>7, <2>1 DEF Tallied, ToSet
  <2>3. \A n \in Roots(d) : \E i \in 1 .. k : u[i] = n
    BY <1>1, <1>7, <2>1 DEF Tallied, ToSet
  <2>4. u[k + 1] = x /\ \A i \in 1 .. k + 1 : i = k + 1 \/ i \in 1 .. k
    BY <1>7, <2>1
  <2>5. \A i, j \in 1 .. k : u[i] = u[j] => i = j
    BY <1>1, <1>7, <2>1 DEF Tallied, Distinct
  <2> HIDE DEF k
  <2>6. ToSet(u) = Roots(d) \cup {x}
    <3>1. \A i \in 1 .. k + 1 : u[i] \in Roots(d) \cup {x}
      BY <2>2, <2>4
    <3>2. k + 1 \in 1 .. k + 1 /\ \A i \in 1 .. k : i \in 1 .. k + 1
      BY <2>1
    <3>3. \A n \in Roots(d) \cup {x} : \E i \in 1 .. k + 1 : u[i] = n
      BY <2>3, <2>4, <3>2
    <3>4. ToSet(u) = {u[i] : i \in 1 .. k + 1}
      BY <2>1 DEF ToSet
    <3> QED
      BY <3>1, <3>3, <3>4
  <2>7. Distinct(u)
    BY <1>10, <2>1, <2>2, <2>4, <2>5 DEF Distinct
  <2> QED
    BY <1>9, <1>10, <2>6, <2>7
<1>14. /\ cur \in [Pools -> Int] /\ unt \in [Pools -> Int]
       /\ cur[q] = d.current[q] + 1 /\ unt[q] = d.untracked[q] + 1
       /\ \A pool \in Pools \ {q} : cur[pool] = d.current[pool] /\ unt[pool] = d.untracked[pool]
  BY <1>1, <1>3 DEF Tallied
<1> HIDE DEF cur, unt
<1>15. ASSUME NEW S \in SUBSET Nodes(d), NEW pool \in NodePools
       PROVE  Cardinality(InPool(e, S \cup {x}, pool)) =
                IF pool = q THEN Cardinality(InPool(d, S, pool)) + 1 ELSE Cardinality(InPool(d, S, pool))
  <2>1. InPool(e, S \cup {x}, pool) =
            IF pool = q THEN InPool(d, S, pool) \cup {x} ELSE InPool(d, S, pool)
    BY <1>2, <1>5, <1>6, <1>9 DEF InPool, Nodes, q
  <2>2. InPool(d, S, pool) \in SUBSET DOMAIN d.node /\ IsFiniteSet(DOMAIN d.node)
    BY <1>1 DEF InPool, Nodes, Shaped
  <2>3. IsFiniteSet(InPool(d, S, pool)) /\ x \notin InPool(d, S, pool)
    BY <1>2, <2>2, FS_Subset
  <2> QED
    BY <2>1, <2>3, FS_AddElement
<1>16. ASSUME NEW pool \in NodePools
       PROVE  /\ cur[pool] = Cardinality(InPool(e, Nodes(e), pool))
              /\ unt[pool] = Cardinality(InPool(e, Roots(e), pool))
  <2>1. pool \in Pools /\ Nodes(d) \in SUBSET Nodes(d) /\ Roots(d) \in SUBSET Nodes(d)
    BY DEF NodePools, Roots
  <2>2. /\ d.current[pool] = Cardinality(InPool(d, Nodes(d), pool))
        /\ d.untracked[pool] = Cardinality(InPool(d, Roots(d), pool))
    BY <1>1 DEF Tallied
  <2>3. /\ Cardinality(InPool(e, Nodes(e), pool)) =
                IF pool = q THEN d.current[pool] + 1 ELSE d.current[pool]
        /\ Cardinality(InPool(e, Roots(e), pool)) =
                IF pool = q THEN d.untracked[pool] + 1 ELSE d.untracked[pool]
    BY <1>10, <1>15, <2>1, <2>2
  <2> QED
    BY <1>14, <2>1, <2>3
<1>20. Attributed(e)
  <2>1. \A n \in Nodes(d) : n \in DOMAIN d.node /\ e.node[n] = d.node[n]
    BY <1>6, <1>9 DEF Nodes
  <2>2. e.node[x].attrs = <<>> /\ DOMAIN e.node[x].attrs = {}
    BY <1>6, <1>9, <1>5
  <2>3. AttributesOf(e) = AttributesOf(d)
    BY <1>10, <2>1, <2>2 DEF AttributesOf
  <2>4. "attribute" \in Pools \ {q}
    BY <1>3 DEF NodePools, Pools
  <2>5. Named(<<>>)
    BY NoneAreNamed
  <2>6. Text(e.node[x].value)
    BY <1>6, <1>9, <1>5
  <2>7. e.node[Doc] = d.node[Doc]
    BY <1>1, <1>6, <1>9 DEF Linked
  <2> QED
    BY <1>1, <1>9, <1>10, <1>14, <2>1, <2>2, <2>3, <2>4, <2>5, <2>6, <2>7 DEF Attributed, Tallied
<1>17. Tallied(e, Roots(e))
  BY <1>9, <1>13, <1>14, <1>16, <1>20 DEF Tallied
<1>18. Sane(e)
  BY <1>9, <1>11, <1>12, <1>17 DEF Sane
<1>19. ASSUME NEW m \in DOMAIN d.node PROVE Apart(e, x, m)
  <2>1. \A k \in DOMAIN d.node : e.node[k].parent \in DOMAIN d.node \cup {Nil}
    BY <1>1, <1>6, <1>9 DEF Linked
  <2>2. DOMAIN d.node \in SUBSET (DOMAIN e.node \ {x})
    BY <1>2, <1>10 DEF D
  <2> QED
    BY <2>1, <2>2, Zenon DEF Apart
<1> QED
  BY <1>2, <1>6, <1>9, <1>10, <1>18, <1>19 DEF x, e, new

\* A node without a first child has no children: following the siblings back from
\* one would end at the first.
LEMMA NoChildren ==
    ASSUME NEW d, Shaped(d), Linked(d), Ordered(d), NEW n \in DOMAIN d.node, d.node[n].first = Nil
    PROVE  \A m \in DOMAIN d.node : d.node[m].parent # n
<1> DEFINE C == {m \in DOMAIN d.node : d.node[m].parent = n}
<1>1. PICK place \in [DOMAIN d.node -> Int] :
        \A m \in DOMAIN d.node : d.node[m].next # Nil => place[m] < place[d.node[m].next]
  BY DEF Ordered
<1>2. IsFiniteSet(C)
  BY FS_Subset DEF Shaped
<1> DEFINE P == [m \in C |-> {k \in C : place[k] < place[m]}]
           F == {P[m] : m \in C}
<1>3. SUFFICES ASSUME C # {} PROVE FALSE
  BY <1>3
<1>4. F # {} /\ F \subseteq FiniteSubsetsOf(C)
  <2>1. \A m \in C : P[m] \in SUBSET C
    OBVIOUS
  <2>2. \A m \in C : IsFiniteSet(P[m])
    BY <1>2, <2>1, FS_Subset
  <2> HIDE DEF P, C
  <2> QED
    BY <1>3, <2>1, <2>2 DEF FiniteSubsetsOf
<1>5. PICK X \in F : \A Y \in F : <<Y, X>> \notin StrictSubsetOrdering(C)
  BY <1>4, FS_StrictSubsetOrderingWellFounded, WFMin
<1>6. PICK m \in C : X = P[m]
  BY <1>5
<1> DEFINE k == d.node[m].prev
<1>7. k # Nil
  BY <1>6, NilAssumption DEF Linked, Shaped
<1>8. k \in C /\ place[k] < place[m]
  <2>1. k \in DOMAIN d.node /\ d.node[k].parent = n /\ d.node[k].next = m /\ m # Nil
    BY <1>6, <1>7, NilAssumption DEF Linked, Child, Nodes, Shaped
  <2> QED
    BY <1>1, <2>1
<1>9. P[k] \subseteq P[m] /\ k \in P[m] /\ k \notin P[k]
  <2>1. \A j \in C : place[j] \in Int
    BY <1>1
  <2> HIDE DEF C, k
  <2> QED
    BY <1>6, <1>8, <2>1
<1> HIDE DEF P, C, k
<1>10. P[k] \in F /\ P[k] \in SUBSET C /\ P[m] \in SUBSET C
  BY <1>4, <1>6, <1>8 DEF FiniteSubsetsOf
<1>11. <<P[k], P[m]>> \in StrictSubsetOrdering(C)
  BY <1>9, <1>10 DEF StrictSubsetOrdering
<1> QED
  BY <1>5, <1>6, <1>10, <1>11

LEMMA FreeFacts ==
    ASSUME NEW d, NEW S, Loose(d, S), NEW n \in S, d.node[n].first = Nil, d.node[n].attrs = <<>>
    PROVE  LET e == Free(d, n)
           IN  /\ Loose(e, S \ {n}) /\ DOMAIN e.node = DOMAIN d.node \ {n}
               /\ \A m \in DOMAIN e.node : e.node[m] = d.node[m]
               /\ e.unlinked = d.unlinked
<1> DEFINE D == DOMAIN d.node \ {n}
           node == [m \in D |-> d.node[m]]
           q == PoolOf(d.node[n].kind)
           cur == [d.current EXCEPT ![q] = @ - 1]
           e == Free(d, n)
<1>1. /\ Shaped(d) /\ Linked(d) /\ Ordered(d) /\ S \subseteq Roots(d) /\ Tallied(d, Roots(d) \ S)
      /\ n \in Roots(d)
      /\ n \in Nodes(d) /\ n \in DOMAIN d.node /\ n # Doc /\ Nil \notin DOMAIN d.node
  BY NilAssumption DEF Loose, Roots, Nodes, Shaped
<1>2. /\ d.node[n].parent = Nil /\ d.node[n].prev = Nil /\ d.node[n].next = Nil /\ d.node[n].last = Nil
  BY <1>1 DEF Linked, Roots
<1>3. q \in NodePools /\ q \in Pools
  BY PoolOfKind DEF NodePools
<1>4. e = [node |-> node, unlinked |-> d.unlinked, current |-> cur, untracked |-> d.untracked,
           error |-> d.error, depth |-> d.depth, bom |-> d.bom]
  <2>1. d = [node |-> d.node, unlinked |-> d.unlinked, current |-> d.current,
             untracked |-> d.untracked, error |-> d.error, depth |-> d.depth, bom |-> d.bom]
    BY <1>1 DEF Shaped
  <2>2. e = [d EXCEPT !.node = node, !.current = cur]
    BY <2>1 DEF Free
  <2> HIDE DEF node, cur, e
  <2> QED
    BY <2>1, <2>2
<1> HIDE DEF e
<1>5. DOMAIN node = D /\ node = [m \in DOMAIN node |-> node[m]] /\ \A m \in D : node[m] = d.node[m]
  OBVIOUS
<1>6. IsFiniteSet(D) /\ D \subseteq Nat
  BY <1>1, FS_RemoveElement DEF Shaped
<1> HIDE DEF node, q
<1>7. /\ Shaped(e) /\ e.node = node /\ e.unlinked = d.unlinked /\ e.current = cur
      /\ e.untracked = d.untracked
  <2>1. \A m \in D : node[m] = [f \in Members |-> node[m][f]]
    BY <1>1, <1>5 DEF Shaped
  <2> HIDE DEF cur
  <2> QED
    BY <1>1, <1>4, <1>5, <1>6, <2>1 DEF Shaped
<1>8. Nodes(e) = Nodes(d) \ {n} /\ Roots(e) = Roots(d) \ {n} /\ DOMAIN e.node = D
  BY <1>1, <1>5, <1>7 DEF Nodes, Roots
<1>9. \A m \in D : /\ d.node[m].parent # n /\ d.node[m].first # n /\ d.node[m].last # n
                   /\ d.node[m].prev # n /\ d.node[m].next # n
  <2> TAKE m \in D
  <2>1. m # n /\ m \in DOMAIN d.node /\ m # Nil
    BY <1>1
  <2>2. d.node[m].next # n /\ d.node[m].prev # n
    BY <1>1, <1>2, <2>1 DEF Linked
  <2>3. d.node[m].first # n /\ d.node[m].last # n
    BY <1>1, <1>2, <2>1 DEF Linked, Child
  <2>4. d.node[m].parent # n
    BY <1>1, <2>1, NoChildren
  <2> QED
    BY <2>2, <2>3, <2>4
<1>10. Linked(e)
  <2>1. Doc \in D /\ \A m \in D : e.node[m] = d.node[m] /\ m \in DOMAIN d.node
    BY <1>1, <1>5, <1>7 DEF Linked
  <2>2. \A m \in D : \A p : Child(d, m, p) => Child(e, m, p)
    BY <1>5, <1>7, <1>8 DEF Child
  <2> SUFFICES ASSUME NEW m \in D
               PROVE  LET x == e.node[m]
                      IN  /\ x.first = Nil <=> x.last = Nil
                          /\ x.first # Nil => Child(e, x.first, m) /\ e.node[x.first].prev = Nil
                          /\ x.last # Nil => Child(e, x.last, m) /\ e.node[x.last].next = Nil
                          /\ x.next # Nil => Child(e, x.next, x.parent) /\ e.node[x.next].prev = m
                          /\ x.prev # Nil => Child(e, x.prev, x.parent) /\ e.node[x.prev].next = m
                          /\ x.parent = Nil => x.prev = Nil /\ x.next = Nil
                          /\ x.parent # Nil =>
                                /\ x.parent \in D
                                /\ x.prev = Nil => e.node[x.parent].first = m
                                /\ x.next = Nil => e.node[x.parent].last = m
    BY <1>1, <1>8, <2>1 DEF Linked
  <2> DEFINE x == d.node[m]
  <2>3. /\ x.parent \in D \cup {Nil} /\ x.first \in D \cup {Nil} /\ x.last \in D \cup {Nil}
        /\ x.prev \in D \cup {Nil} /\ x.next \in D \cup {Nil}
    BY <1>1, <1>9, Pointers DEF Nodes
  <2>4. /\ x.first = Nil <=> x.last = Nil
        /\ x.first # Nil => Child(d, x.first, m) /\ d.node[x.first].prev = Nil
        /\ x.last # Nil => Child(d, x.last, m) /\ d.node[x.last].next = Nil
        /\ x.next # Nil => Child(d, x.next, x.parent) /\ d.node[x.next].prev = m
        /\ x.prev # Nil => Child(d, x.prev, x.parent) /\ d.node[x.prev].next = m
        /\ x.parent = Nil => x.prev = Nil /\ x.next = Nil
        /\ x.parent # Nil =>
            /\ x.prev = Nil => d.node[x.parent].first = m
            /\ x.next = Nil => d.node[x.parent].last = m
    BY <1>1 DEF Linked
  <2> HIDE DEF D
  <2> QED
    BY <2>1, <2>2, <2>3, <2>4
<1>11. Ordered(e)
  <2>1. PICK level, place \in [DOMAIN d.node -> Int] :
          \A m \in DOMAIN d.node :
            /\ d.node[m].parent # Nil => level[d.node[m].parent] < level[m]
            /\ d.node[m].next # Nil => place[m] < place[d.node[m].next]
    BY <1>1 DEF Ordered
  <2> DEFINE lv == [m \in D |-> level[m]]
             pl == [m \in D |-> place[m]]
  <2>2. lv \in [DOMAIN e.node -> Int] /\ pl \in [DOMAIN e.node -> Int]
    BY <1>8, <2>1
  <2>3. \A m \in D : lv[m] = level[m] /\ pl[m] = place[m]
    OBVIOUS
  <2> HIDE DEF lv, pl
  <2>4. ASSUME NEW m \in DOMAIN e.node
        PROVE  /\ e.node[m].parent # Nil => lv[e.node[m].parent] < lv[m]
               /\ e.node[m].next # Nil => pl[m] < pl[e.node[m].next]
    <3>1. m \in D /\ m \in DOMAIN d.node /\ e.node[m] = d.node[m]
      BY <1>5, <1>7, <1>8
    <3>2. d.node[m].parent \in D \cup {Nil} /\ d.node[m].next \in D \cup {Nil}
      BY <1>1, <1>9, <3>1, Pointers DEF Nodes
    <3> QED
      BY <2>1, <2>3, <3>1, <3>2
  <2> QED
    BY <2>2, <2>4 DEF Ordered
<1>12. /\ cur \in [Pools -> Int] /\ cur[q] = d.current[q] - 1
       /\ \A pool \in Pools \ {q} : cur[pool] = d.current[pool]
  BY <1>1, <1>3 DEF Tallied
<1> HIDE DEF cur
<1>13. ASSUME NEW pool \in NodePools
       PROVE  /\ cur[pool] = Cardinality(InPool(e, Nodes(e), pool))
              /\ d.untracked[pool] = Cardinality(InPool(e, Roots(e) \ (S \ {n}), pool))
  <2>1. /\ InPool(e, Nodes(e), pool) = InPool(d, Nodes(d), pool) \ {n}
        /\ InPool(e, Roots(e) \ (S \ {n}), pool) = InPool(d, Roots(d) \ S, pool)
    BY <1>1, <1>5, <1>7, <1>8 DEF InPool, Nodes, Roots
  <2>2. InPool(d, Nodes(d), pool) \in SUBSET DOMAIN d.node /\ IsFiniteSet(DOMAIN d.node)
    BY <1>1 DEF InPool, Nodes, Shaped
  <2>3. IsFiniteSet(InPool(d, Nodes(d), pool)) /\ (n \in InPool(d, Nodes(d), pool) <=> pool = q)
    BY <1>1, <2>2, FS_Subset DEF InPool, q
  <2>4. /\ d.current[pool] = Cardinality(InPool(d, Nodes(d), pool))
        /\ d.untracked[pool] = Cardinality(InPool(d, Roots(d) \ S, pool))
    BY <1>1 DEF Tallied
  <2>5. Cardinality(InPool(d, Nodes(d), pool) \ {n}) =
            IF pool = q THEN d.current[pool] - 1 ELSE d.current[pool]
    BY <2>3, <2>4, FS_RemoveElement
  <2>6. pool \in Pools
    BY DEF NodePools
  <2> QED
    BY <1>12, <2>1, <2>4, <2>5, <2>6
<1>14. Attributed(e)
  <2>1. \A m \in Nodes(e) : m \in Nodes(d) /\ e.node[m] = d.node[m]
    BY <1>5, <1>7, <1>8 DEF Nodes
  <2>2. DOMAIN d.node[n].attrs = {}
    OBVIOUS
  <2>3. AttributesOf(e) = AttributesOf(d)
    BY <1>8, <2>1, <2>2 DEF AttributesOf
  <2>4. "attribute" \in Pools \ {q}
    BY <1>3 DEF NodePools, Pools
  <2>5. e.node[Doc] = d.node[Doc]
    BY <1>1, <1>5, <1>7 DEF Linked
  <2> QED
    BY <1>1, <1>7, <1>12, <2>1, <2>3, <2>4, <2>5 DEF Attributed, Tallied
<1>15. Tallied(e, Roots(e) \ (S \ {n}))
  <2>1. Roots(e) \ (S \ {n}) = Roots(d) \ S
    BY <1>1, <1>8
  <2> QED
    BY <1>1, <1>7, <1>12, <1>13, <1>14, <2>1 DEF Tallied
<1>16. Loose(e, S \ {n})
  BY <1>1, <1>7, <1>8, <1>10, <1>11, <1>15 DEF Loose
<1> QED
  BY <1>5, <1>7, <1>8, <1>16 DEF e

LEMMA SaneIsLoose ==
    ASSUME NEW d
    PROVE  Sane(d) <=> Loose(d, {})
<1>1. Roots(d) \ {} = Roots(d)
  OBVIOUS
<1> QED
  BY <1>1 DEF Sane, Loose

\* Free of a node that was taken out of the tree and off the list, and has no
\* children and no attributes, keeps the document sane: nothing points to it any
\* more (src/filter/lib/tinyxml/tinyxml.cpp:1188).
THEOREM FreeKeeps ==
    ASSUME NEW d, NEW n, Floating(d, n), d.node[n].first = Nil, d.node[n].attrs = <<>>
    PROVE  Sane(Free(d, n)) /\ Nodes(Free(d, n)) = Nodes(d) \ {n}
<1>1. Loose(Free(d, n), {n} \ {n}) /\ DOMAIN Free(d, n).node = DOMAIN d.node \ {n}
  BY FreeFacts DEF Floating
<1>2. {n} \ {n} = {}
  OBVIOUS
<1> QED
  BY <1>1, <1>2, SaneIsLoose DEF Nodes

\* The document that a program begins with is sane.
THEOREM EmptyIsSane == Sane(EmptyDocument)
<1> DEFINE d == EmptyDocument
<1>1. /\ DOMAIN d.node = {Doc} /\ Nodes(d) = {} /\ Roots(d) = {}
      /\ d.node[Doc] = NewNode("document", <<>>)
      /\ d.unlinked = <<>> /\ d.current = [pool \in Pools |-> 0] /\ d.untracked = [pool \in Pools |-> 0]
  BY DEF EmptyDocument, Nodes, Roots
<1>2. Shaped(d)
  <2>1. \A n \in DOMAIN d.node : d.node[n] = [f \in Members |-> d.node[n][f]]
    BY <1>1 DEF NewNode, Members, Pointing
  <2>2. IsFiniteSet({Doc}) /\ {Doc} \subseteq Nat
    BY FS_Singleton DEF Doc
  <2>3. d.node = [n \in DOMAIN d.node |-> d.node[n]]
    BY DEF EmptyDocument
  <2>4. d = [node |-> d.node, unlinked |-> d.unlinked, current |-> d.current,
             untracked |-> d.untracked, error |-> d.error, depth |-> d.depth, bom |-> d.bom]
    BY DEF EmptyDocument
  <2>5. <<>> \in Seq(Nat)
    OBVIOUS
  <2> HIDE DEF d
  <2> QED
    BY <1>1, <2>1, <2>2, <2>3, <2>4, <2>5 DEF Shaped
<1> HIDE DEF d
<1>3. /\ d.node[Doc].parent = Nil /\ d.node[Doc].first = Nil /\ d.node[Doc].last = Nil
      /\ d.node[Doc].prev = Nil /\ d.node[Doc].next = Nil
  BY <1>1 DEF NewNode
<1>4. Linked(d)
  BY <1>1, <1>3 DEF Linked
<1>5. Ordered(d)
  <2> DEFINE zero == [n \in DOMAIN d.node |-> 0]
  <2>1. zero \in [DOMAIN d.node -> Int]
    OBVIOUS
  <2> QED
    BY <1>1, <1>3, <2>1 DEF Ordered
<1>6. Tallied(d, Roots(d))
  <2>1. ToSet(d.unlinked) = {} /\ Distinct(d.unlinked)
    BY <1>1 DEF ToSet, Distinct
  <2>2. \A pool \in NodePools : InPool(d, {}, pool) = {} /\ pool \in Pools
    BY DEF InPool, NodePools
  <2>3. Cardinality({}) = 0
    BY FS_EmptySet
  <2>4. d.current \in [Pools -> Int] /\ d.untracked \in [Pools -> Int]
    BY <1>1
  <2>5. Attributed(d)
    <3>1. d.node[Doc].kind = "document" /\ d.node[Doc].value = <<>> /\ d.node[Doc].attrs = <<>>
      BY <1>1 DEF NewNode
    <3>2. AttributesOf(d) = {}
      BY <1>1 DEF AttributesOf
    <3>3. d.current["attribute"] = 0 /\ d.untracked["attribute"] = 0
      BY <1>1 DEF Pools
    <3> QED
      BY <1>1, <2>3, <3>1, <3>2, <3>3 DEF Attributed
  <2> QED
    BY <1>1, <2>1, <2>2, <2>3, <2>4, <2>5 DEF Tallied
<1> QED
  BY <1>2, <1>4, <1>5, <1>6 DEF Sane, d

-----------------------------------------------------------------------------
(***************************************************************************)
(* Documents whose nodes are linked in the same way.                       *)
(***************************************************************************)
LEMMA SameLinks ==
    ASSUME NEW d, Shaped(d), Linked(d), Ordered(d), NEW e, DOMAIN e.node = DOMAIN d.node,
           \A m \in DOMAIN d.node :
                /\ e.node[m].parent = d.node[m].parent
                /\ e.node[m].first = d.node[m].first /\ e.node[m].last = d.node[m].last
                /\ e.node[m].prev = d.node[m].prev /\ e.node[m].next = d.node[m].next
    PROVE  Linked(e) /\ Ordered(e) /\ Nodes(e) = Nodes(d) /\ Roots(e) = Roots(d)
<1>1. Nodes(e) = Nodes(d) /\ Roots(e) = Roots(d) /\ Nodes(d) \subseteq DOMAIN d.node
  BY DEF Nodes, Roots
<1>2. \A m \in DOMAIN d.node \cup {Nil} : \A p : Child(e, m, p) <=> Child(d, m, p)
  BY <1>1 DEF Child
<1>3. \A m \in DOMAIN d.node :
        /\ d.node[m].parent \in DOMAIN d.node \cup {Nil}
        /\ d.node[m].first \in DOMAIN d.node \cup {Nil} /\ d.node[m].last \in DOMAIN d.node \cup {Nil}
        /\ d.node[m].prev \in DOMAIN d.node \cup {Nil} /\ d.node[m].next \in DOMAIN d.node \cup {Nil}
  BY <1>1, Pointers
<1>4. Linked(e)
  BY <1>2, <1>3 DEF Linked
<1>5. Ordered(e)
  BY DEF Ordered
<1> QED
  BY <1>1, <1>4, <1>5

\* An assignment that changes nothing.
LEMMA SetSame ==
    ASSUME NEW d, Shaped(d), NEW n \in DOMAIN d.node, NEW member \in Members
    PROVE  Set(d, n, member, d.node[n][member]) = d
<1> DEFINE e == Set(d, n, member, d.node[n][member])
<1>1. /\ Beside(d, e)
      /\ \A m \in DOMAIN d.node, f \in Members : e.node[m][f] = d.node[m][f]
  BY SetFacts
<1>2. n # Nil
  BY NilAssumption DEF Shaped
<1>3. e = [d EXCEPT !.node[n][member] = d.node[n][member]]
  BY <1>2 DEF Set
<1>4. d.node[n] = [d.node[n] EXCEPT ![member] = d.node[n][member]]
  BY DEF Shaped
<1>5. d.node = [d.node EXCEPT ![n] = d.node[n]]
  BY DEF Shaped
<1>6. d = [d EXCEPT !.node = d.node]
  BY DEF Shaped
<1> QED
  BY <1>3, <1>4, <1>5, <1>6

\* Among finitely many there is one with the least value.
LEMMA LeastOf ==
    ASSUME NEW X, IsFiniteSet(X), X # {}, NEW value, \A m \in X : value[m] \in Int
    PROVE  \E m \in X : \A k \in X : value[m] <= value[k]
<1> DEFINE P == [m \in X |-> {k \in X : value[k] < value[m]}]
           F == {P[m] : m \in X}
<1>1. F # {} /\ F \subseteq FiniteSubsetsOf(X)
  <2>1. \A m \in X : P[m] \in SUBSET X
    OBVIOUS
  <2>2. \A m \in X : IsFiniteSet(P[m])
    BY <2>1, FS_Subset
  <2> HIDE DEF P
  <2> QED
    BY <2>1, <2>2 DEF FiniteSubsetsOf
<1>2. PICK Y \in F : \A Z \in F : <<Z, Y>> \notin StrictSubsetOrdering(X)
  BY <1>1, FS_StrictSubsetOrderingWellFounded, WFMin
<1>3. PICK m \in X : Y = P[m]
  BY <1>2
<1> SUFFICES ASSUME NEW k \in X, value[k] < value[m] PROVE FALSE
  BY <1>3
<1>4. P[k] \subseteq P[m] /\ k \in P[m] /\ k \notin P[k]
  OBVIOUS
<1> HIDE DEF P
<1>5. P[k] \in F /\ P[k] \in SUBSET X /\ P[m] \in SUBSET X
  BY <1>1, <1>3 DEF FiniteSubsetsOf
<1>6. <<P[k], P[m]>> \in StrictSubsetOrdering(X)
  BY <1>4, <1>5 DEF StrictSubsetOrdering
<1> QED
  BY <1>2, <1>3, <1>5, <1>6

\* Whoever lies under a node of the same set only is not there.
LEMMA NoCycle ==
    ASSUME NEW d, Shaped(d), Ordered(d), NEW X \in SUBSET DOMAIN d.node,
           \A m \in X : d.node[m].parent \in X
    PROVE  X = {}
<1> SUFFICES ASSUME X # {} PROVE FALSE
  OBVIOUS
<1>1. PICK level \in [DOMAIN d.node -> Int] :
        \A m \in DOMAIN d.node : d.node[m].parent # Nil => level[d.node[m].parent] < level[m]
  BY DEF Ordered
<1>2. IsFiniteSet(X) /\ \A m \in X : level[m] \in Int
  BY <1>1, FS_Subset DEF Shaped
<1>3. PICK m \in X : \A k \in X : level[m] <= level[k]
  BY <1>2, LeastOf
<1>4. d.node[m].parent \in X /\ d.node[m].parent # Nil
  BY NilAssumption DEF Shaped
<1> QED
  BY <1>1, <1>2, <1>3, <1>4

-----------------------------------------------------------------------------
(***************************************************************************)
(* What nodes hold.                                                        *)
(***************************************************************************)
\* The attributes of a document are those of a node and those of the others.
LEMMA CountAttributes ==
    ASSUME NEW d, Shaped(d), \A m \in Nodes(d) : Named(d.node[m].attrs), NEW n \in Nodes(d)
    PROVE  LET others == UNION {{m} \X DOMAIN d.node[m].attrs : m \in Nodes(d) \ {n}}
           IN  /\ IsFiniteSet(others)
               /\ Cardinality(AttributesOf(d)) = Cardinality(others) + Len(d.node[n].attrs)
<1> DEFINE Of(m) == {m} \X DOMAIN d.node[m].attrs
           M == Nodes(d) \ {n}
           others == UNION {Of(m) : m \in M}
<1>1. ASSUME NEW m \in Nodes(d)
      PROVE  IsFiniteSet(Of(m)) /\ Cardinality(Of(m)) = Len(d.node[m].attrs) /\ Len(d.node[m].attrs) \in Nat
  <2>1. PICK S : d.node[m].attrs \in Seq(S)
    BY DEF Named
  <2> DEFINE k == Len(d.node[m].attrs)
  <2>2. k \in Nat /\ DOMAIN d.node[m].attrs = 1 .. k
    BY <2>1
  <2>3. IsFiniteSet(1 .. k) /\ Cardinality(1 .. k) = k
    BY <2>2, FS_Interval
  <2>4. IsFiniteSet({m}) /\ Cardinality({m}) = 1
    BY FS_Singleton
  <2>5. ASSUME NEW A, NEW N, IsFiniteSet(A), IsFiniteSet(N), Cardinality(A) = 1, Cardinality(N) = k
        PROVE  IsFiniteSet(A \X N) /\ Cardinality(A \X N) = k
    <3>1. IsFiniteSet(A \X N) /\ Cardinality(A \X N) = Cardinality(A) * Cardinality(N)
      BY <2>5, FS_Product
    <3> QED
      BY <2>2, <2>5, <3>1
  <2>6. IsFiniteSet({m} \X (1 .. k)) /\ Cardinality({m} \X (1 .. k)) = k
    <3> HIDE DEF k
    <3> QED
      BY <2>3, <2>4, <2>5
  <2> QED
    BY <2>2, <2>6
<1>2. IsFiniteSet(M)
  BY FS_Subset, FS_RemoveElement DEF Shaped, Nodes
<1>3. IsFiniteSet(others)
  <2>1. IsFiniteSet({Of(m) : m \in M})
    <3> DEFINE f == [m \in M |-> Of(m)]
    <3>1. f \in Surjection(M, {Of(m) : m \in M})
      <4> HIDE DEF M, Of
      <4> QED
        BY DEF Surjection
    <3> HIDE DEF M, Of, f
    <3> QED
      BY <1>2, <3>1, FS_Surjection
  <2>2. \A s \in {Of(m) : m \in M} : IsFiniteSet(s)
    <3> HIDE DEF Of
    <3> QED
      BY <1>1
  <2> HIDE DEF Of, M
  <2> QED
    BY <2>1, <2>2, FS_UNION
<1>4. AttributesOf(d) = others \cup Of(n) /\ others \cap Of(n) = {}
  BY DEF AttributesOf
<1>5. Cardinality(others \cup Of(n)) = Cardinality(others) + Cardinality(Of(n)) - Cardinality(others \cap Of(n))
  <2> HIDE DEF others, Of
  <2> QED
    BY <1>1, <1>3, FS_Union
<1>6. Cardinality(others \cap Of(n)) = 0 /\ Cardinality(others) \in Nat
  BY <1>3, <1>4, FS_EmptySet, FS_CardinalityType
<1> HIDE DEF others, Of
<1>7. Cardinality(AttributesOf(d)) = Cardinality(others) + Len(d.node[n].attrs)
  BY <1>1, <1>4, <1>5, <1>6
<1> QED
  BY <1>3, <1>7 DEF others, Of

\* A node gets other attributes or another value, and the pool counts them.
LEMMA ContentKeeps ==
    ASSUME NEW d, NEW S, Loose(d, S), NEW n \in Nodes(d), NEW e, Shaped(e),
           DOMAIN e.node = DOMAIN d.node, e.unlinked = d.unlinked, e.untracked = d.untracked,
           \A m \in DOMAIN d.node : \A f \in Pointing \cup {"kind"} : e.node[m][f] = d.node[m][f],
           \A m \in DOMAIN d.node \ {n} : e.node[m].attrs = d.node[m].attrs,
           \A m \in DOMAIN d.node : e.node[m].value = d.node[m].value,
           Named(e.node[n].attrs),
           e.current = [d.current EXCEPT !["attribute"] = @ - Len(d.node[n].attrs) + Len(e.node[n].attrs)]
    PROVE  Loose(e, S) /\ Nodes(e) = Nodes(d) /\ Roots(e) = Roots(d)
<1>1. /\ Shaped(d) /\ Linked(d) /\ Ordered(d) /\ S \subseteq Roots(d) /\ Tallied(d, Roots(d) \ S)
      /\ Nodes(d) \subseteq DOMAIN d.node /\ Roots(d) \subseteq Nodes(d)
  BY DEF Loose, Nodes, Roots
<1>2. Linked(e) /\ Ordered(e) /\ Nodes(e) = Nodes(d) /\ Roots(e) = Roots(d)
  BY <1>1, SameLinks DEF Pointing
<1>3. /\ d.current \in [Pools -> Int] /\ "attribute" \in Pools
      /\ e.current["attribute"] = d.current["attribute"] - Len(d.node[n].attrs) + Len(e.node[n].attrs)
      /\ \A pool \in NodePools : e.current[pool] = d.current[pool]
      /\ e.current = [pool \in Pools |-> IF pool = "attribute" THEN e.current[pool] ELSE d.current[pool]]
  BY <1>1 DEF Tallied, Pools, NodePools
<1>4. /\ \A m \in Nodes(d) : Named(d.node[m].attrs)
      /\ \A m \in Nodes(e) : Named(e.node[m].attrs)
      /\ Len(d.node[n].attrs) \in Nat /\ Len(e.node[n].attrs) \in Nat
  <2>1. \A m \in Nodes(d) : Named(d.node[m].attrs)
    BY <1>1 DEF Tallied, Attributed
  <2>2. \A m \in Nodes(e) : Named(e.node[m].attrs)
    <3> TAKE m \in Nodes(e)
    <3>1. CASE m = n
      BY <3>1
    <3>2. CASE m # n
      BY <1>1, <1>2, <2>1, <3>2
    <3> QED
      BY <3>1, <3>2
  <2>3. \A a : Named(a) => Len(a) \in Nat
    BY DEF Named
  <2> QED
    BY <2>1, <2>2, <2>3, <1>2
<1> DEFINE others == UNION {{m} \X DOMAIN d.node[m].attrs : m \in Nodes(d) \ {n}}
           othersAfter == UNION {{m} \X DOMAIN e.node[m].attrs : m \in Nodes(e) \ {n}}
<1>5. othersAfter = others
  BY <1>1, <1>2
<1>6. Cardinality(AttributesOf(d)) = Cardinality(others) + Len(d.node[n].attrs) /\ IsFiniteSet(others)
  BY <1>1, <1>4, CountAttributes
<1>7. Cardinality(AttributesOf(e)) = Cardinality(othersAfter) + Len(e.node[n].attrs)
  BY <1>2, <1>4, CountAttributes
<1>8. d.current["attribute"] = Cardinality(AttributesOf(d)) /\ d.untracked["attribute"] = 0
  BY <1>1 DEF Tallied, Attributed
<1> HIDE DEF others, othersAfter
<1>9. Attributed(e)
  <2>1. Cardinality(others) \in Nat
    BY <1>6, FS_CardinalityType
  <2> QED
    <3>1. e.current["attribute"] = Cardinality(AttributesOf(e))
      <4> DEFINE i == Len(d.node[n].attrs)
                 j == Len(e.node[n].attrs)
                 k == Cardinality(others)
      <4>1. i \in Nat /\ j \in Nat /\ k \in Nat /\ e.current["attribute"] = k + i - i + j
        BY <1>3, <1>4, <1>6, <1>8, <2>1
      <4>2. Cardinality(AttributesOf(e)) = k + j
        BY <1>5, <1>7
      <4> HIDE DEF i, j, k
      <4> QED
        BY <4>1, <4>2
    <3>2. \A m \in Nodes(e) : Text(e.node[m].value)
      BY <1>1, <1>2 DEF Tallied, Attributed
    <3>3. /\ e.node[Doc].kind = d.node[Doc].kind /\ e.node[Doc].value = d.node[Doc].value
          /\ e.node[Doc].attrs = d.node[Doc].attrs
      BY <1>1 DEF Linked, Nodes
    <3>4. d.node[Doc].kind = "document" /\ d.node[Doc].value = <<>> /\ d.node[Doc].attrs = <<>>
      BY <1>1 DEF Tallied, Attributed
    <3> QED
      BY <1>4, <1>8, <3>1, <3>2, <3>3, <3>4 DEF Attributed
<1>10. ASSUME NEW R \in SUBSET Nodes(d), NEW pool \in NodePools
       PROVE  InPool(e, R, pool) = InPool(d, R, pool)
  BY <1>1 DEF InPool
<1>11. Tallied(e, Roots(e) \ S)
  <2>1. Nodes(d) \in SUBSET Nodes(d) /\ Roots(d) \ S \in SUBSET Nodes(d)
    BY <1>1
  <2>2. e.current \in [Pools -> Int]
    <3>0. d.current["attribute"] \in Int
      BY <1>3
    <3>2. Len(d.node[n].attrs) \in Nat /\ Len(e.node[n].attrs) \in Nat
      BY <1>4
    <3>3. e.current["attribute"] = d.current["attribute"] - Len(d.node[n].attrs) + Len(e.node[n].attrs)
      BY <1>3
    <3>1. e.current["attribute"] \in Int
      <4>1. \A i \in Int, j, k \in Nat : i - j + k \in Int
        OBVIOUS
      <4> QED
        BY <3>0, <3>2, <3>3, <4>1
    <3> QED
      BY <1>3, <3>1
  <2>3. ASSUME NEW pool \in NodePools
        PROVE  /\ e.current[pool] = Cardinality(InPool(e, Nodes(e), pool))
               /\ e.untracked[pool] = Cardinality(InPool(e, Roots(e) \ S, pool))
    <3>1. /\ d.current[pool] = Cardinality(InPool(d, Nodes(d), pool))
          /\ d.untracked[pool] = Cardinality(InPool(d, Roots(d) \ S, pool))
      BY <1>1 DEF Tallied
    <3>2. /\ InPool(e, Nodes(e), pool) = InPool(d, Nodes(d), pool)
          /\ InPool(e, Roots(e) \ S, pool) = InPool(d, Roots(d) \ S, pool)
      BY <1>2, <1>10, <2>1
    <3> QED
      BY <1>3, <3>1, <3>2
  <2>4. ToSet(e.unlinked) = Roots(e) \ S /\ Distinct(e.unlinked) /\ e.untracked \in [Pools -> Int]
    BY <1>1, <1>2 DEF Tallied
  <2> QED
    BY <1>9, <2>2, <2>3, <2>4 DEF Tallied
<1> QED
  BY <1>1, <1>2, <1>11 DEF Loose

\* e is d with the attributes a at n.
Attributes(d, n, a, e) ==
    /\ DOMAIN e.node = DOMAIN d.node /\ e.unlinked = d.unlinked
    /\ Nodes(e) = Nodes(d) /\ Roots(e) = Roots(d)
    /\ \A m \in DOMAIN d.node \ {n} : e.node[m] = d.node[m]
    /\ \A f \in Members : e.node[n][f] = IF f = "attrs" THEN a ELSE d.node[n][f]

LEMMA AttributesKeep ==
    ASSUME NEW d, NEW S, Loose(d, S), NEW n \in Nodes(d), NEW a, Named(a)
    PROVE  LET k == d.current["attribute"] - Len(d.node[n].attrs) + Len(a)
               e == [d EXCEPT !.node[n].attrs = a, !.current["attribute"] = k]
           IN  Loose(e, S) /\ Attributes(d, n, a, e)
<1> DEFINE k == d.current["attribute"] - Len(d.node[n].attrs) + Len(a)
           y == [d.node[n] EXCEPT !.attrs = a]
           node == [d.node EXCEPT ![n] = y]
           cur == [d.current EXCEPT !["attribute"] = k]
           e == [d EXCEPT !.node[n].attrs = a, !.current["attribute"] = k]
<1>1. Shaped(d) /\ n \in DOMAIN d.node
  BY DEF Loose, Nodes
<1>2. e = [d EXCEPT !.node = node, !.current = cur]
  OBVIOUS
<1>3. y = [f \in Members |-> IF f = "attrs" THEN a ELSE d.node[n][f]]
  <2>1. d.node[n] = [f \in Members |-> d.node[n][f]]
    BY <1>1 DEF Shaped
  <2>2. "attrs" \in Members
    BY DEF Members
  <2> QED
    BY <2>1, <2>2
<1>4. /\ DOMAIN node = DOMAIN d.node /\ node = [m \in DOMAIN node |-> node[m]]
      /\ \A m \in DOMAIN d.node : node[m] = IF m = n THEN y ELSE d.node[m]
  BY <1>1 DEF Shaped
<1> HIDE DEF node, y, e, cur
<1>5. e = [node |-> node, unlinked |-> d.unlinked, current |-> cur,
           untracked |-> d.untracked, error |-> d.error, depth |-> d.depth, bom |-> d.bom]
  <2>1. d = [node |-> d.node, unlinked |-> d.unlinked, current |-> d.current,
             untracked |-> d.untracked, error |-> d.error, depth |-> d.depth, bom |-> d.bom]
    BY <1>1 DEF Shaped
  <2> QED
    BY <1>2, <2>1
<1>6. \A m \in DOMAIN d.node : node[m] = [f \in Members |-> node[m][f]]
  BY <1>1, <1>3, <1>4 DEF Shaped
<1>7. /\ Shaped(e) /\ DOMAIN e.node = DOMAIN d.node /\ e.unlinked = d.unlinked
      /\ e.untracked = d.untracked /\ e.current = cur
      /\ \A m \in DOMAIN d.node \ {n} : e.node[m] = d.node[m]
      /\ \A f \in Members : e.node[n][f] = IF f = "attrs" THEN a ELSE d.node[n][f]
  BY <1>1, <1>3, <1>4, <1>5, <1>6 DEF Shaped
<1>8. /\ \A m \in DOMAIN d.node : \A f \in Pointing \cup {"kind", "value"} : e.node[m][f] = d.node[m][f]
      /\ e.node[n].attrs = a
  BY <1>7 DEF Members, Pointing
<1>9. e.current = [d.current EXCEPT !["attribute"] = @ - Len(d.node[n].attrs) + Len(e.node[n].attrs)]
  BY <1>7, <1>8 DEF cur
<1>10. Loose(e, S) /\ Nodes(e) = Nodes(d) /\ Roots(e) = Roots(d)
  BY <1>7, <1>8, <1>9, ContentKeeps
<1> QED
  BY <1>7, <1>10 DEF Attributes, e, k

\* A node loses all its attributes.
LEMMA DeleteAttributesKeeps ==
    ASSUME NEW d, NEW S, Loose(d, S), NEW n \in Nodes(d)
    PROVE  Loose(DeleteAttributes(d, n), S) /\ Attributes(d, n, <<>>, DeleteAttributes(d, n))
<1> DEFINE k == d.current["attribute"] - Len(d.node[n].attrs) + Len(<<>>)
           e == [d EXCEPT !.node[n].attrs = <<>>, !.current["attribute"] = k]
<1>1. Named(<<>>)
  BY NoneAreNamed
<1>2. Loose(e, S) /\ Attributes(d, n, <<>>, e)
  BY <1>1, AttributesKeep
<1>3. k = d.current["attribute"] - Len(d.node[n].attrs)
  <2>1. d.current["attribute"] \in Int
    BY DEF Loose, Tallied, Pools
  <2>2. Len(d.node[n].attrs) \in Nat /\ Len(<<>>) = 0
    BY DEF Loose, Tallied, Attributed, Named
  <2> QED
    BY <2>1, <2>2
<1> HIDE DEF k
<1>4. e = DeleteAttributes(d, n)
  BY <1>3 DEF DeleteAttributes
<1> QED
  BY <1>2, <1>4

-----------------------------------------------------------------------------
(***************************************************************************)
(* Deletion.                                                               *)
(***************************************************************************)
\* The nodes below p: p is above them.
Under(d, p) == {m \in DOMAIN d.node \ {p} : ~Apart(d, p, m)}

\* B holds the children of p and of its own members, and nothing else.
Encloses(d, p, B) ==
    /\ B \subseteq Nodes(d) /\ p \notin B
    /\ \A m \in DOMAIN d.node : d.node[m].parent \in B \cup {p} <=> m \in B

LEMMA UnderEncloses ==
    ASSUME NEW d, Shaped(d), Linked(d), Ordered(d), NEW p \in DOMAIN d.node
    PROVE  Encloses(d, p, Under(d, p))
<1> DEFINE B == Under(d, p)
<1>1. Nil \notin DOMAIN d.node
  BY NilAssumption DEF Shaped
<1>2. ASSUME NEW m \in DOMAIN d.node, d.node[m].parent # Nil, m # p
      PROVE  Apart(d, p, m) <=> d.node[m].parent # p /\ Apart(d, p, d.node[m].parent)
  <2> DEFINE q == d.node[m].parent
  <2>1. ASSUME Apart(d, p, m) PROVE q # p /\ Apart(d, p, q)
    <3>1. PICK A \in SUBSET (DOMAIN d.node \ {p}) : m \in A /\ \A a \in A : d.node[a].parent \in A \cup {Nil}
      BY <2>1 DEF Apart
    <3>2. q \in A
      BY <1>2, <3>1
    <3> QED
      BY <3>1, <3>2 DEF Apart
  <2>2. ASSUME q # p, Apart(d, p, q) PROVE Apart(d, p, m)
    <3>1. PICK A \in SUBSET (DOMAIN d.node \ {p}) : q \in A /\ \A a \in A : d.node[a].parent \in A \cup {Nil}
      BY <2>2 DEF Apart
    <3>2. A \cup {m} \in SUBSET (DOMAIN d.node \ {p})
      BY <1>2
    <3>3. \A a \in A \cup {m} : d.node[a].parent \in (A \cup {m}) \cup {Nil}
      BY <3>1
    <3> QED
      BY <3>2, <3>3 DEF Apart
  <2> QED
    BY <2>1, <2>2
<1>3. ASSUME NEW m \in DOMAIN d.node, d.node[m].parent = Nil, m # p PROVE Apart(d, p, m)
  <2>1. {m} \in SUBSET (DOMAIN d.node \ {p}) /\ \A a \in {m} : d.node[a].parent \in {m} \cup {Nil}
    BY <1>3
  <2> QED
    BY <2>1 DEF Apart
<1>4. p \notin B /\ B \subseteq DOMAIN d.node
  BY DEF Under
<1>5. d.node[p].parent \notin B \cup {p}
  <2>1. PICK level \in [DOMAIN d.node -> Int] :
          \A m \in DOMAIN d.node : d.node[m].parent # Nil => level[d.node[m].parent] < level[m]
    BY DEF Ordered
  <2>2. d.node[p].parent # p
    <3>1. p # Nil /\ level[p] \in Int
      BY <1>1, <2>1
    <3> QED
      BY <2>1, <3>1
  <2>3. CASE d.node[p].parent = Nil
    BY <1>1, <1>4, <2>3
  <2>4. CASE d.node[p].parent # Nil
    <3> DEFINE q == d.node[p].parent
               A == {m \in DOMAIN d.node : level[m] < level[p]}
    <3>1. q \in DOMAIN d.node
      BY <2>4 DEF Linked
    <3>2. A \in SUBSET (DOMAIN d.node \ {p})
      BY <2>1
    <3>3. q \in A
      BY <2>1, <2>4, <3>1
    <3>4. \A a \in A : d.node[a].parent \in A \cup {Nil}
      <4> TAKE a \in A
      <4>1. CASE d.node[a].parent # Nil
        <5>1. d.node[a].parent \in DOMAIN d.node /\ level[d.node[a].parent] < level[a] /\ level[a] < level[p]
          BY <2>1, <4>1 DEF Linked
        <5>2. level[d.node[a].parent] \in Int /\ level[a] \in Int /\ level[p] \in Int
          BY <2>1, <5>1
        <5> QED
          BY <5>1, <5>2
      <4> QED
        BY <4>1
    <3>5. Apart(d, p, q)
      <4> HIDE DEF A
      <4> QED
        BY <3>2, <3>3, <3>4 DEF Apart
    <3> QED
      BY <2>2, <3>5 DEF Under
  <2> QED
    BY <2>3, <2>4
<1>6. ASSUME NEW m \in DOMAIN d.node PROVE d.node[m].parent \in B \cup {p} <=> m \in B
  <2>1. CASE m = p
    BY <1>4, <1>5, <2>1
  <2>2. CASE m # p /\ d.node[m].parent = Nil
    BY <1>1, <1>3, <1>4, <2>2 DEF Under
  <2>3. CASE m # p /\ d.node[m].parent # Nil
    <3>1. d.node[m].parent \in DOMAIN d.node
      BY <2>3 DEF Linked
    <3> QED
      BY <1>2, <2>3, <3>1 DEF Under
  <2> QED
    BY <2>1, <2>2, <2>3
<1>7. Doc \notin B
  <2>1. Doc \in DOMAIN d.node /\ d.node[Doc].parent = Nil
    BY DEF Linked
  <2> QED
    BY <1>1, <1>4, <1>6, <2>1
<1> HIDE DEF B
<1> QED
  BY <1>4, <1>6, <1>7 DEF Encloses, Nodes, B

\* e is d with c unlinked and without attributes: its siblings and its parent see it.
OutOf(d, c, e) ==
    LET q == d.node[c].parent
    IN  /\ DOMAIN e.node = DOMAIN d.node /\ e.unlinked = d.unlinked /\ e.node[c].attrs = <<>>
        /\ \A m \in DOMAIN d.node : e.node[m].parent = IF m = c THEN Nil ELSE d.node[m].parent
        /\ \A m \in DOMAIN d.node \ {c} :
            e.node[m].next = IF d.node[m].next = c THEN d.node[c].next ELSE d.node[m].next
        /\ \A m \in DOMAIN d.node : d.node[m].parent # q =>
            /\ \A f \in Members \ {"first", "last"} : e.node[m][f] = d.node[m][f]
            /\ m # q => e.node[m] = d.node[m]

LEMMA TakenOut ==
    ASSUME NEW d, NEW S, Loose(d, S), NEW c \in Nodes(d), d.node[c].parent # Nil
    PROVE  LET e == BeginDelete(Unlink(d, c), c)
           IN  Loose(e, S \cup {c}) /\ OutOf(d, c, e)
<1> DEFINE u == Unlink(d, c)
           e == BeginDelete(u, c)
           q == d.node[c].parent
<1>1. /\ Shaped(d) /\ Linked(d) /\ Ordered(d) /\ S \subseteq Roots(d) /\ Tallied(d, Roots(d) \ S)
      /\ c \in DOMAIN d.node /\ Nil \notin DOMAIN d.node
  BY NilAssumption DEF Loose, Nodes, Shaped
<1>2. /\ Beside(d, u)
      /\ \A m \in DOMAIN d.node :
            /\ u.node[m].kind = d.node[m].kind /\ u.node[m].attrs = d.node[m].attrs
            /\ \A f \in Members \ Pointing : u.node[m][f] = d.node[m][f]
            /\ u.node[m].parent = IF m = c THEN Nil ELSE d.node[m].parent
            /\ u.node[m].first = IF m = q /\ d.node[m].first = c THEN d.node[c].next ELSE d.node[m].first
            /\ u.node[m].last = IF m = q /\ d.node[m].last = c THEN d.node[c].prev ELSE d.node[m].last
            /\ u.node[m].next = IF m = c THEN Nil ELSE IF m = d.node[c].prev THEN d.node[c].next ELSE d.node[m].next
            /\ u.node[m].prev = IF m = c THEN Nil ELSE IF m = d.node[c].next THEN d.node[c].prev ELSE d.node[m].prev
  BY <1>1, UnlinkFacts
<1>3. Linked(u) /\ Ordered(u)
  BY <1>1, UnlinkKeepsLinks, UnlinkKeepsOrder
<1> HIDE DEF u
<1>4. /\ Shaped(u) /\ DOMAIN u.node = DOMAIN d.node /\ Nodes(u) = Nodes(d)
      /\ u.unlinked = d.unlinked /\ u.untracked = d.untracked /\ u.current = d.current
  BY <1>2 DEF Beside, Nodes
<1>5. c \in Roots(u) /\ c \notin Roots(d) /\ Roots(u) \ (S \cup {c}) = Roots(d) \ S
  BY <1>2, <1>4, <1>1 DEF Roots, Nodes
<1>6. Tallied(u, Roots(d) \ S)
  <2>1. Roots(d) \ S \in SUBSET DOMAIN d.node
    BY DEF Roots, Nodes
  <2>2. \A m \in Nodes(d) : Text(u.node[m].value)
    <3>1. Alike(d, u)
      BY <1>2, <1>4 DEF Alike
    <3> QED
      BY <1>1, <3>1, AlikeTexts
  <2>3. Doc \in DOMAIN d.node /\ u.node[Doc].value = d.node[Doc].value
    <3>1. Doc \in DOMAIN d.node /\ "value" \in Members \ Pointing
      BY DEF Loose, Linked, Members, Pointing
    <3> QED
      BY <1>2, <3>1
  <2> QED
    BY <1>1, <1>2, <2>1, <2>2, <2>3, SameTally
<1>7. Loose(u, S \cup {c})
  <2>1. S \subseteq Roots(u)
    BY <1>1, <1>2, <1>4 DEF Roots, Nodes
  <2> QED
    BY <1>3, <1>4, <1>5, <1>6, <2>1 DEF Loose
<1>8. MarkInUse(u, c) = u
  <2>1. c \notin ToSet(u.unlinked)
    BY <1>1, <1>4, <1>5 DEF Tallied
  <2> QED
    BY <2>1 DEF MarkInUse
<1>9. e = DeleteAttributes(u, c)
  BY <1>8 DEF BeginDelete
<1>10. Loose(e, S \cup {c}) /\ Attributes(u, c, <<>>, e)
  BY <1>4, <1>7, <1>9, DeleteAttributesKeeps
<1> HIDE DEF e
<1>11. {"attrs", "kind", "parent", "first", "last", "prev", "next"} \subseteq Members
  BY DEF Members, Pointing
<1>12. e.node[c].attrs = <<>>
  BY <1>10, <1>11 DEF Attributes
<1>13. \A m \in DOMAIN d.node : e.node[m].parent = IF m = c THEN Nil ELSE d.node[m].parent
  BY <1>2, <1>4, <1>10, <1>11 DEF Attributes
<1>14. ASSUME NEW m \in DOMAIN d.node, d.node[m].parent # q
       PROVE  /\ \A f \in Members \ {"first", "last"} : e.node[m][f] = d.node[m][f]
              /\ m # q => e.node[m] = d.node[m]
  <2>1. m # c /\ e.node[m] = u.node[m]
    BY <1>4, <1>10, <1>14 DEF Attributes
  <2>2. /\ m = d.node[c].prev => d.node[m].parent = q
        /\ m = d.node[c].next => d.node[m].parent = q
    BY <1>1, <1>14 DEF Linked, Child
  <2>3. /\ u.node[m].parent = d.node[m].parent
        /\ u.node[m].next = d.node[m].next /\ u.node[m].prev = d.node[m].prev
        /\ \A f \in Members \ Pointing : u.node[m][f] = d.node[m][f]
        /\ m # q => u.node[m].first = d.node[m].first /\ u.node[m].last = d.node[m].last
    BY <1>2, <1>14, <2>1, <2>2
  <2>4. \A f \in Members \ {"first", "last"} : u.node[m][f] = d.node[m][f]
    BY <2>3 DEF Pointing
  <2>5. ASSUME m # q PROVE u.node[m] = d.node[m]
    <3>1. \A f \in Members : u.node[m][f] = d.node[m][f]
      BY <2>3, <2>4, <2>5
    <3>2. u.node[m] = [f \in Members |-> u.node[m][f]] /\ d.node[m] = [f \in Members |-> d.node[m][f]]
      BY <1>1, <1>4 DEF Shaped
    <3> QED
      BY <3>1, <3>2
  <2> QED
    BY <2>1, <2>4, <2>5
<1>15. ASSUME NEW m \in DOMAIN d.node \ {c}
       PROVE  e.node[m].next = IF d.node[m].next = c THEN d.node[c].next ELSE d.node[m].next
  <2>1. e.node[m] = u.node[m] /\ m # Nil
    BY <1>1, <1>4, <1>10 DEF Attributes
  <2>2. u.node[m].next = IF m = d.node[c].prev THEN d.node[c].next ELSE d.node[m].next
    BY <1>2
  <2>3. m = d.node[c].prev <=> d.node[m].next = c
    BY <1>1, <2>1 DEF Linked
  <2> QED
    BY <2>1, <2>2, <2>3
<1>16. DOMAIN e.node = DOMAIN d.node /\ e.unlinked = d.unlinked
  BY <1>4, <1>10 DEF Attributes
<1>17. OutOf(d, c, e)
  BY <1>12, <1>13, <1>14, <1>15, <1>16 DEF OutOf
<1> QED
  BY <1>10, <1>17 DEF e, u

Inner(open) == {open[i] : i \in 2 .. Len(open)}

\* What holds between two turns of the deletion of what lies below p in d: the
\* calls under way are for nodes below p that have been taken out, and of the
\* rest of B every node still has its parent.
Gone(d, p, B, R, s) ==
    /\ s.open \in Seq(Nat) /\ Len(s.open) >= 1 /\ s.open[1] = p /\ Distinct(s.open)
    /\ Inner(s.open) \subseteq B
    /\ Loose(s.doc, R \cup Inner(s.open))
    /\ \A m \in Inner(s.open) : s.doc.node[m].attrs = <<>>
    /\ DOMAIN s.doc.node \subseteq DOMAIN d.node /\ DOMAIN d.node \ B \subseteq DOMAIN s.doc.node
    /\ s.doc.unlinked = d.unlinked
    /\ \A m \in DOMAIN d.node \ (B \cup {p}) : s.doc.node[m] = d.node[m]
    /\ \A f \in Members \ {"first", "last"} : s.doc.node[p][f] = d.node[p][f]
    /\ \A m \in DOMAIN s.doc.node :
        /\ s.doc.node[m].parent \in {d.node[m].parent, Nil}
        /\ m \in B /\ s.doc.node[m].parent = Nil => m \in Inner(s.open)

\* A node that is pushed, or popped.
LEMMA InnerFacts ==
    ASSUME NEW open \in Seq(Nat), Len(open) >= 1
    PROVE  /\ Last(open) \in Inner(open) \cup {open[1]} /\ Last(open) = open[Len(open)]
           /\ \A i \in DOMAIN open : open[i] \in Inner(open) \cup {open[1]}
           /\ \A c \in Nat : /\ Append(open, c) \in Seq(Nat) /\ Len(Append(open, c)) = Len(open) + 1
                             /\ Inner(Append(open, c)) = Inner(open) \cup {c}
                             /\ Append(open, c)[1] = open[1]
                             /\ Distinct(open) /\ c \notin Inner(open) \cup {open[1]} => Distinct(Append(open, c))
           /\ Len(open) > 1 =>
                /\ Front(open) \in Seq(Nat) /\ Len(Front(open)) = Len(open) - 1
                /\ Front(open)[1] = open[1] /\ Last(open) \in Inner(open)
                /\ Distinct(open) => Distinct(Front(open)) /\ Inner(Front(open)) = Inner(open) \ {Last(open)}
<1> DEFINE k == Len(open)
<1>1. k \in Nat /\ DOMAIN open = 1 .. k /\ \A i \in 1 .. k : open[i] \in Nat
  OBVIOUS
<1>2. Last(open) = open[k]
  BY DEF Last
<1>3. \A i \in 1 .. k : open[i] \in Inner(open) \cup {open[1]}
  <2> TAKE i \in 1 .. k
  <2>1. i = 1 \/ i \in 2 .. k
    BY <1>1
  <2> QED
    BY <2>1 DEF Inner
<1>4. k \in 1 .. k
  BY <1>1
<1>5. ASSUME NEW c \in Nat
      PROVE  /\ Append(open, c) \in Seq(Nat) /\ Len(Append(open, c)) = k + 1
             /\ Inner(Append(open, c)) = Inner(open) \cup {c}
             /\ Append(open, c)[1] = open[1]
             /\ Distinct(open) /\ c \notin Inner(open) \cup {open[1]} => Distinct(Append(open, c))
  <2> DEFINE t == Append(open, c)
  <2>1. /\ t \in Seq(Nat) /\ Len(t) = k + 1 /\ DOMAIN t = 1 .. k + 1
        /\ t[k + 1] = c /\ \A i \in 1 .. k : t[i] = open[i]
    BY <1>1
  <2> HIDE DEF t
  <2>2. t[1] = open[1]
    BY <1>1, <2>1
  <2>3. Inner(t) = Inner(open) \cup {c}
    <3>1. \A i \in 2 .. k + 1 : t[i] \in Inner(open) \cup {c}
      <4> TAKE i \in 2 .. k + 1
      <4>1. i = k + 1 \/ i \in 2 .. k
        BY <1>1
      <4> QED
        BY <1>1, <2>1, <4>1 DEF Inner
    <3>2. k + 1 \in 2 .. k + 1 /\ \A i \in 2 .. k : i \in 2 .. k + 1 /\ t[i] = open[i]
      BY <1>1, <2>1
    <3>3. \A x \in Inner(open) \cup {c} : \E i \in 2 .. k + 1 : t[i] = x
      BY <2>1, <3>2 DEF Inner
    <3>4. Inner(t) = {t[i] : i \in 2 .. k + 1}
      BY <2>1 DEF Inner
    <3> QED
      BY <3>1, <3>3, <3>4
  <2>4. ASSUME Distinct(open), c \notin Inner(open) \cup {open[1]} PROVE Distinct(t)
    <3>1. \A i \in 1 .. k : t[i] # c
      BY <1>3, <2>1, <2>4
    <3>2. \A i \in 1 .. k + 1 : i = k + 1 \/ i \in 1 .. k
      BY <1>1
    <3> QED
      BY <1>1, <2>1, <2>4, <3>1, <3>2 DEF Distinct
  <2> QED
    BY <2>1, <2>2, <2>3, <2>4 DEF t
<1>6. ASSUME k > 1
      PROVE  /\ Front(open) \in Seq(Nat) /\ Len(Front(open)) = k - 1
             /\ Front(open)[1] = open[1] /\ open[k] \in Inner(open)
             /\ Distinct(open) => Distinct(Front(open)) /\ Inner(Front(open)) = Inner(open) \ {open[k]}
  <2> DEFINE t == Front(open)
  <2>1. t \in Seq(Nat) /\ Len(t) = k - 1 /\ DOMAIN t = 1 .. k - 1 /\ \A i \in 1 .. k - 1 : t[i] = open[i]
    <3>1. /\ SubSeq(open, 1, k - 1) \in Seq(Nat)
          /\ Len(SubSeq(open, 1, k - 1)) = IF 1 <= k - 1 THEN k - 1 - 1 + 1 ELSE 0
          /\ \A i \in 1 .. k - 1 - 1 + 1 : SubSeq(open, 1, k - 1)[i] = open[1 + i - 1]
      BY <1>1, <1>6, SubSeqProperties
    <3>2. t = SubSeq(open, 1, k - 1)
      BY DEF Front
    <3> HIDE DEF t
    <3> QED
      BY <1>1, <1>6, <3>1, <3>2
  <2> HIDE DEF t
  <2>2. t[1] = open[1] /\ open[k] \in Inner(open)
    <3>1. 1 \in 1 .. k - 1 /\ k \in 2 .. k
      BY <1>1, <1>6
    <3> QED
      BY <2>1, <3>1 DEF Inner
  <2>3. ASSUME Distinct(open) PROVE Distinct(t) /\ Inner(t) = Inner(open) \ {open[k]}
    <3>1. \A i \in 1 .. k - 1 : i \in 1 .. k /\ open[i] # open[k]
      BY <1>1, <2>3 DEF Distinct
    <3>2. Distinct(t)
      BY <1>1, <2>1, <2>3, <3>1 DEF Distinct
    <3>3. Inner(t) = {t[i] : i \in 2 .. k - 1} /\ Inner(open) = {open[i] : i \in 2 .. k}
      BY <2>1 DEF Inner
    <3>4. \A i \in 2 .. k - 1 : t[i] \in Inner(open) \ {open[k]}
      BY <1>1, <2>1, <3>1, <3>3
    <3>5. \A i \in 2 .. k : i = k \/ i \in 2 .. k - 1
      <4> HIDE DEF k
      <4> TAKE i \in 2 .. k
      <4> QED
        BY <1>1
    <3>7. \A i \in 2 .. k - 1 : i \in 1 .. k - 1
      BY <1>1
    <3>6. \A x \in Inner(open) \ {open[k]} : \E i \in 2 .. k - 1 : t[i] = x
      BY <2>1, <3>3, <3>5, <3>7
    <3>8. Inner(t) = Inner(open) \ {open[k]}
      <4>1. Inner(t) \subseteq Inner(open) \ {open[k]}
        BY <3>3, <3>4
      <4>2. Inner(open) \ {open[k]} \subseteq Inner(t)
        BY <3>3, <3>6
      <4> QED
        BY <4>1, <4>2
    <3> QED
      BY <3>2, <3>8
  <2> QED
    BY <2>1, <2>2, <2>3 DEF t
<1> QED
  BY <1>1, <1>2, <1>3, <1>4, <1>5, <1>6

\* What the document, p and B of a deletion are to be.
Deletable(d, p, B, R) ==
    Loose(d, R) /\ p \in DOMAIN d.node /\ Encloses(d, p, B)

\* A turn that finds a child.
LEMMA PushKeeps ==
    ASSUME NEW d, NEW p, NEW B, NEW R, Deletable(d, p, B, R), NEW s, Gone(d, p, B, R, s),
           s.doc.node[Last(s.open)].first # Nil
    PROVE  LET t == DeleteTurn(s)
           IN  /\ Gone(d, p, B, R, t)
               /\ DOMAIN t.doc.node = DOMAIN s.doc.node /\ Len(t.open) = Len(s.open) + 1
<1> DEFINE n == Last(s.open)
           c == s.doc.node[n].first
           e == BeginDelete(Unlink(s.doc, c), c)
           I == Inner(s.open)
           t == [doc |-> e, open |-> Append(s.open, c)]
<1>1. DeleteTurn(s) = t
  BY DEF DeleteTurn
<1>2. /\ Shaped(d) /\ Linked(d) /\ p \in DOMAIN d.node /\ p \notin B /\ B \subseteq DOMAIN d.node
      /\ Nil \notin DOMAIN d.node
      /\ \A m \in DOMAIN d.node : d.node[m].parent \in B \cup {p} <=> m \in B
  BY NilAssumption DEF Deletable, Loose, Encloses, Nodes, Shaped
<1>3. /\ s.open \in Seq(Nat) /\ Len(s.open) >= 1 /\ s.open[1] = p /\ Distinct(s.open)
      /\ I \subseteq B /\ Loose(s.doc, R \cup I)
      /\ DOMAIN s.doc.node \subseteq DOMAIN d.node /\ DOMAIN d.node \ B \subseteq DOMAIN s.doc.node
  BY DEF Gone
<1>4. n \in I \cup {p} /\ n \in B \cup {p}
  BY <1>3, InnerFacts
<1>5. /\ Shaped(s.doc) /\ Linked(s.doc) /\ Ordered(s.doc) /\ R \cup I \subseteq Roots(s.doc)
      /\ n \in DOMAIN s.doc.node /\ n # Nil
  <2>1. I \subseteq DOMAIN s.doc.node /\ p \in DOMAIN s.doc.node
    BY <1>2, <1>3 DEF Loose, Roots, Nodes
  <2> QED
    BY <1>2, <1>3, <1>4, <2>1 DEF Loose
<1>6. c \in Nodes(s.doc) /\ c \in DOMAIN s.doc.node /\ s.doc.node[c].parent = n /\ c # Nil
  BY <1>5 DEF Linked, Child, Nodes
<1>7. d.node[c].parent = n /\ c \in B /\ c \in Nat /\ c \in DOMAIN d.node
  <2>1. d.node[c].parent = n
    BY <1>5, <1>6 DEF Gone
  <2> QED
    BY <1>2, <1>3, <1>4, <1>6, <2>1 DEF Shaped
<1>8. c \notin I \cup {p}
  BY <1>2, <1>5, <1>6, <1>7 DEF Roots
<1>9. /\ Loose(e, R \cup I \cup {c}) /\ DOMAIN e.node = DOMAIN s.doc.node
      /\ e.unlinked = s.doc.unlinked /\ e.node[c].attrs = <<>>
      /\ \A m \in DOMAIN s.doc.node : e.node[m].parent = IF m = c THEN Nil ELSE s.doc.node[m].parent
      /\ \A m \in DOMAIN s.doc.node : s.doc.node[m].parent # n =>
            /\ \A f \in Members \ {"first", "last"} : e.node[m][f] = s.doc.node[m][f]
            /\ m # n => e.node[m] = s.doc.node[m]
  <2>1. s.doc.node[c].parent # Nil
    BY <1>5, <1>6
  <2> DEFINE S == R \cup I
             q == s.doc.node[c].parent
  <2>2. Loose(s.doc, S)
    BY <1>3
  <2> HIDE DEF c, I, n, S
  <2>3. Loose(e, S \cup {c}) /\ OutOf(s.doc, c, e)
    BY <1>6, <2>1, <2>2, TakenOut
  <2>4. q = n
    BY <1>6
  <2> HIDE DEF q, e
  <2> QED
    BY <2>3, <2>4 DEF S, OutOf, q
<1> HIDE DEF e
<1>10. /\ t.open \in Seq(Nat) /\ Len(t.open) = Len(s.open) + 1 /\ t.open[1] = p /\ Distinct(t.open)
       /\ Inner(t.open) = I \cup {c}
  BY <1>3, <1>7, <1>8, InnerFacts
<1>11. R \cup I \cup {c} = R \cup Inner(t.open) /\ Inner(t.open) \subseteq B
  BY <1>3, <1>7, <1>10
<1>12. \A m \in Inner(t.open) : e.node[m].attrs = <<>>
  <2> TAKE m \in Inner(t.open)
  <2>1. CASE m = c
    BY <1>9, <2>1
  <2>2. CASE m \in I
    <3>1. s.doc.node[m].attrs = <<>> /\ m \in DOMAIN s.doc.node /\ s.doc.node[m].parent = Nil
      BY <1>5, <2>2 DEF Gone, Roots, Nodes
    <3>2. "attrs" \in Members \ {"first", "last"}
      BY DEF Members, Pointing
    <3> QED
      BY <1>5, <1>9, <3>1, <3>2
  <2> QED
    BY <1>10, <2>1, <2>2
<1>13. ASSUME NEW m \in DOMAIN d.node \ B
       PROVE  m \in DOMAIN s.doc.node /\ s.doc.node[m].parent # n
  <2>1. d.node[m].parent # n
    BY <1>2, <1>4, <1>13
  <2>2. m \in DOMAIN s.doc.node
    BY <1>3, <1>13
  <2>3. s.doc.node[m].parent \in {d.node[m].parent, Nil}
    BY <2>2 DEF Gone
  <2> QED
    BY <1>5, <2>1, <2>2, <2>3
<1>14. \A m \in DOMAIN d.node \ (B \cup {p}) : e.node[m] = d.node[m]
  <2> TAKE m \in DOMAIN d.node \ (B \cup {p})
  <2>1. s.doc.node[m] = d.node[m]
    BY DEF Gone
  <2>2. m # n
    BY <1>4
  <2> QED
    BY <1>9, <1>13, <2>1, <2>2
<1>15. \A f \in Members \ {"first", "last"} : e.node[p][f] = d.node[p][f]
  <2>1. \A f \in Members \ {"first", "last"} : s.doc.node[p][f] = d.node[p][f]
    BY DEF Gone
  <2> QED
    BY <1>2, <1>9, <1>13, <2>1
<1>16. ASSUME NEW m \in DOMAIN e.node
       PROVE  /\ e.node[m].parent \in {d.node[m].parent, Nil}
              /\ m \in B /\ e.node[m].parent = Nil => m \in Inner(t.open)
  <2>1. /\ s.doc.node[m].parent \in {d.node[m].parent, Nil}
        /\ m \in B /\ s.doc.node[m].parent = Nil => m \in I
    BY <1>9 DEF Gone
  <2> QED
    BY <1>9, <1>10, <2>1
<1>17. t.doc = e /\ e.unlinked = d.unlinked
  BY <1>9 DEF Gone
<1> HIDE DEF t, c, I, n
<1>18. Loose(t.doc, R \cup Inner(t.open))
  BY <1>9, <1>11, <1>17
<1>19. Gone(d, p, B, R, t)
  BY <1>3, <1>9, <1>10, <1>11, <1>12, <1>14, <1>15, <1>16, <1>17, <1>18 DEF Gone
<1> QED
  BY <1>1, <1>9, <1>10, <1>17, <1>19

\* A turn that finds no child of a node below p.
LEMMA PopKeeps ==
    ASSUME NEW d, NEW p, NEW B, NEW R, Deletable(d, p, B, R), NEW s, Gone(d, p, B, R, s),
           s.doc.node[Last(s.open)].first = Nil, Len(s.open) > 1
    PROVE  LET t == DeleteTurn(s)
           IN  /\ Gone(d, p, B, R, t)
               /\ \E n \in DOMAIN s.doc.node : DOMAIN t.doc.node = DOMAIN s.doc.node \ {n}
               /\ Len(t.open) = Len(s.open) - 1
<1> DEFINE n == Last(s.open)
           I == Inner(s.open)
           e == Free(s.doc, n)
           t == [doc |-> e, open |-> Front(s.open)]
<1>2. /\ p \in DOMAIN d.node /\ p \notin B /\ B \subseteq DOMAIN d.node
      /\ R \cap B = {} /\ Nil \notin DOMAIN d.node
  <2>1. Shaped(d) /\ R \subseteq Roots(d) /\ p \in DOMAIN d.node /\ Encloses(d, p, B)
    BY DEF Deletable, Loose
  <2>2. Nil \notin DOMAIN d.node
    BY <2>1, NilAssumption DEF Shaped
  <2> QED
    BY <2>1, <2>2 DEF Encloses, Roots, Nodes
<1>3. /\ s.open \in Seq(Nat) /\ Len(s.open) >= 1 /\ s.open[1] = p /\ Distinct(s.open)
      /\ I \subseteq B /\ Loose(s.doc, R \cup I)
      /\ DOMAIN s.doc.node \subseteq DOMAIN d.node /\ DOMAIN d.node \ B \subseteq DOMAIN s.doc.node
  BY DEF Gone
<1>4. n \in I /\ s.doc.node[n].attrs = <<>>
  <2>1. n \in I
    BY <1>3, InnerFacts
  <2> QED
    BY <2>1 DEF Gone
<1>5. /\ Shaped(s.doc) /\ Linked(s.doc) /\ n \in DOMAIN s.doc.node /\ n \in B /\ n \notin R
  BY <1>2, <1>3, <1>4 DEF Loose, Roots, Nodes
<1>6. Set(s.doc, n, "last", Nil) = s.doc
  <2>1. s.doc.node[n].last = Nil
    BY <1>5 DEF Linked
  <2>2. "last" \in Members
    BY DEF Members, Pointing
  <2> QED
    BY <1>5, <2>1, <2>2, SetSame
<1>7. DeleteTurn(s) = t
  BY <1>6 DEF DeleteTurn
<1>8. /\ Loose(e, (R \cup I) \ {n}) /\ DOMAIN e.node = DOMAIN s.doc.node \ {n}
      /\ \A m \in DOMAIN e.node : e.node[m] = s.doc.node[m]
      /\ e.unlinked = s.doc.unlinked
  <2> DEFINE S == R \cup I
  <2>1. s.doc.node[n].first = Nil
    OBVIOUS
  <2>2. Loose(s.doc, S) /\ n \in S
    BY <1>3, <1>4
  <2> HIDE DEF n, S
  <2>3. /\ Loose(e, S \ {n}) /\ DOMAIN e.node = DOMAIN s.doc.node \ {n}
        /\ \A m \in DOMAIN e.node : e.node[m] = s.doc.node[m]
        /\ e.unlinked = s.doc.unlinked
    BY <1>4, <2>1, <2>2, FreeFacts
  <2> HIDE DEF e
  <2> QED
    BY <2>3 DEF S
<1> HIDE DEF e
<1>9. /\ t.open \in Seq(Nat) /\ Len(t.open) = Len(s.open) - 1 /\ t.open[1] = p /\ Distinct(t.open)
      /\ Inner(t.open) = I \ {n} /\ Len(t.open) >= 1
  BY <1>3, InnerFacts
<1>10. (R \cup I) \ {n} = R \cup Inner(t.open) /\ Inner(t.open) \subseteq B /\ t.doc = e
  BY <1>3, <1>5, <1>9
<1> HIDE DEF t, I, n
<1>11. \A m \in Inner(t.open) : e.node[m].attrs = <<>>
  <2> TAKE m \in Inner(t.open)
  <2>1. m \in I /\ m # n /\ m \in DOMAIN s.doc.node
    BY <1>3, <1>9 DEF Loose, Roots, Nodes
  <2>2. s.doc.node[m].attrs = <<>>
    BY <2>1 DEF Gone, I
  <2> QED
    BY <1>8, <2>1, <2>2
<1>12. \A m \in DOMAIN d.node \ (B \cup {p}) : e.node[m] = d.node[m]
  <2> TAKE m \in DOMAIN d.node \ (B \cup {p})
  <2>1. s.doc.node[m] = d.node[m] /\ m \in DOMAIN e.node
    BY <1>3, <1>5, <1>8 DEF Gone
  <2> QED
    BY <1>8, <2>1
<1>13. \A f \in Members \ {"first", "last"} : e.node[p][f] = d.node[p][f]
  <2>1. p \in DOMAIN e.node
    BY <1>2, <1>3, <1>5, <1>8
  <2> QED
    BY <1>8, <2>1 DEF Gone
<1>14. ASSUME NEW m \in DOMAIN e.node
       PROVE  /\ e.node[m].parent \in {d.node[m].parent, Nil}
              /\ m \in B /\ e.node[m].parent = Nil => m \in Inner(t.open)
  <2>1. m \in DOMAIN s.doc.node /\ m # n /\ e.node[m] = s.doc.node[m]
    BY <1>8
  <2>2. /\ s.doc.node[m].parent \in {d.node[m].parent, Nil}
        /\ m \in B /\ s.doc.node[m].parent = Nil => m \in I
    BY <2>1 DEF Gone, I
  <2> QED
    BY <1>9, <2>1, <2>2
<1>15. Loose(t.doc, R \cup Inner(t.open)) /\ e.unlinked = d.unlinked
  BY <1>8, <1>10 DEF Gone
<1>16. /\ DOMAIN e.node \subseteq DOMAIN d.node /\ DOMAIN d.node \ B \subseteq DOMAIN e.node
  BY <1>3, <1>5, <1>8
<1>17. Gone(d, p, B, R, t)
  BY <1>9, <1>10, <1>11, <1>12, <1>13, <1>14, <1>15, <1>16 DEF Gone
<1> QED
  BY <1>5, <1>7, <1>8, <1>9, <1>10, <1>17

\* The deletion is done with the children of p.
Done(s) == Len(s.open) = 1 /\ s.doc.node[Last(s.open)].first = Nil

LEMMA GoneSizes ==
    ASSUME NEW d, NEW p, NEW B, NEW R, NEW s, Gone(d, p, B, R, s)
    PROVE  /\ s.open \in Seq(Nat) /\ Len(s.open) \in Nat /\ Len(s.open) >= 1
           /\ IsFiniteSet(DOMAIN s.doc.node) /\ Cardinality(DOMAIN s.doc.node) \in Nat
<1>1. s.open \in Seq(Nat) /\ Len(s.open) >= 1
  BY DEF Gone
<1>2. IsFiniteSet(DOMAIN s.doc.node)
  BY DEF Gone, Loose, Shaped
<1> QED
  BY <1>1, <1>2, FS_CardinalityType

\* A turn brings the end nearer: a node is reached, or left and freed.
LEMMA DeleteTurnKeeps ==
    ASSUME NEW d, NEW p, NEW B, NEW R, Deletable(d, p, B, R), NEW s, Gone(d, p, B, R, s)
    PROVE  LET t == DeleteTurn(s)
           IN  /\ Gone(d, p, B, R, t)
               /\ IF Done(s) THEN t = s
                  ELSE 2 * Cardinality(DOMAIN t.doc.node) - Len(t.open) =
                       2 * Cardinality(DOMAIN s.doc.node) - Len(s.open) - 1
<1> DEFINE t == DeleteTurn(s)
<1>1. s.open \in Seq(Nat) /\ Len(s.open) >= 1 /\ Len(s.open) \in Nat
  BY GoneSizes
<1>2. IsFiniteSet(DOMAIN s.doc.node) /\ Cardinality(DOMAIN s.doc.node) \in Nat
  BY GoneSizes
<1>6. \A k \in Nat : (k > 1 => k # 1) /\ (k >= 1 /\ ~(k > 1) => k = 1)
  OBVIOUS
<1>3. CASE s.doc.node[Last(s.open)].first # Nil
  <2>1. /\ Gone(d, p, B, R, t) /\ DOMAIN t.doc.node = DOMAIN s.doc.node
        /\ Len(t.open) = Len(s.open) + 1
    BY <1>3, PushKeeps
  <2>2. ~Done(s)
    BY <1>3 DEF Done
  <2> HIDE DEF t
  <2> QED
    BY <1>1, <1>2, <2>1, <2>2 DEF t
<1>4. CASE s.doc.node[Last(s.open)].first = Nil /\ Len(s.open) > 1
  <2>1. /\ Gone(d, p, B, R, t) /\ Len(t.open) = Len(s.open) - 1
        /\ \E n \in DOMAIN s.doc.node : DOMAIN t.doc.node = DOMAIN s.doc.node \ {n}
    BY <1>4, PopKeeps
  <2>2. ~Done(s)
    BY <1>1, <1>4, <1>6, Zenon DEF Done
  <2> HIDE DEF t
  <2>3. Cardinality(DOMAIN t.doc.node) = Cardinality(DOMAIN s.doc.node) - 1
    <3>1. PICK n \in DOMAIN s.doc.node : DOMAIN t.doc.node = DOMAIN s.doc.node \ {n}
      BY <2>1
    <3>2. Cardinality(DOMAIN s.doc.node \ {n}) = Cardinality(DOMAIN s.doc.node) - 1
      BY <1>2, FS_RemoveElement
    <3> QED
      BY <3>1, <3>2
  <2> QED
    BY <1>1, <1>2, <2>1, <2>2, <2>3 DEF t
<1>5. CASE s.doc.node[Last(s.open)].first = Nil /\ ~(Len(s.open) > 1)
  <2>1. t = s
    BY <1>5 DEF DeleteTurn
  <2>2. Done(s)
    BY <1>1, <1>5, <1>6, Zenon DEF Done
  <2> HIDE DEF t
  <2> QED
    BY <2>1, <2>2 DEF t
<1> QED
  BY <1>3, <1>4, <1>5

\* A deletion that begins.
LEMMA DeletionBegins ==
    ASSUME NEW d, NEW p, NEW B, NEW R, Deletable(d, p, B, R)
    PROVE  Gone(d, p, B, R, [doc |-> d, open |-> <<p>>])
<1> DEFINE s == [doc |-> d, open |-> <<p>>]
<1>1. /\ Shaped(d) /\ Linked(d) /\ Loose(d, R) /\ p \in DOMAIN d.node /\ p \in Nat
      /\ Encloses(d, p, B) /\ Nil \notin DOMAIN d.node
  BY NilAssumption DEF Deletable, Loose, Shaped
<1>2. /\ s.open \in Seq(Nat) /\ Len(s.open) >= 1 /\ s.open[1] = p /\ Distinct(s.open)
      /\ Inner(s.open) = {} /\ s.doc = d
  BY <1>1 DEF Distinct, Inner
<1> HIDE DEF s
<1>3. R \cup {} = R
  OBVIOUS
<1>4. ASSUME NEW m \in B PROVE d.node[m].parent # Nil
  BY <1>1 DEF Encloses, Nodes
<1> QED
  BY <1>1, <1>2, <1>3, <1>4 DEF Gone, s

\* The calls under way are for different nodes.
LEMMA OpenIsBounded ==
    ASSUME NEW d, NEW p, NEW B, NEW R, Deletable(d, p, B, R), NEW s, Gone(d, p, B, R, s)
    PROVE  Len(s.open) <= Cardinality(DOMAIN s.doc.node)
<1> DEFINE N == DOMAIN s.doc.node
           k == Len(s.open)
<1>1. /\ s.open \in Seq(Nat) /\ k \in Nat /\ DOMAIN s.open = 1 .. k /\ k >= 1 /\ Distinct(s.open)
  BY DEF Gone
<1>2. \A i \in 1 .. k : s.open[i] \in N
  <2>1. p \in DOMAIN d.node \ B /\ Inner(s.open) \subseteq Roots(s.doc) /\ s.open[1] = p
    BY DEF Deletable, Encloses, Gone, Loose
  <2>2. Inner(s.open) \cup {p} \subseteq N
    BY <2>1 DEF Gone, Roots, Nodes
  <2> QED
    BY <1>1, <2>1, <2>2, InnerFacts
<1>3. s.open \in Injection(1 .. k, N)
  <2>1. \A q \in Seq(Nat) : q \in [1 .. Len(q) -> Nat]
    OBVIOUS
  <2>2. s.open \in [1 .. k -> Nat]
    BY <1>1, <2>1
  <2> HIDE DEF k, N
  <2>3. s.open \in [1 .. k -> N]
    BY <1>2, <2>2
  <2> QED
    BY <1>1, <2>3 DEF Injection, IsInjective, Distinct
<1>4. IsFiniteSet(N) /\ Cardinality(1 .. k) = k
  BY <1>1, FS_Interval DEF Gone, Loose, Shaped
<1> HIDE DEF N, k
<1>5. Cardinality(1 .. k) <= Cardinality(N)
  BY <1>3, <1>4, FS_Injection
<1> QED
  BY <1>4, <1>5 DEF N, k

\* The turns of a deletion are enough.
LEMMA DeletionEnds ==
    ASSUME NEW d, NEW p, NEW B, NEW R, Deletable(d, p, B, R)
    PROVE  LET s == Deleting!Turns([doc |-> d, open |-> <<p>>], 2 * Cardinality(DOMAIN d.node))
           IN  Gone(d, p, B, R, s) /\ Done(s)
<1> DEFINE n == 2 * Cardinality(DOMAIN d.node)
           start == [doc |-> d, open |-> <<p>>]
           Left(s) == 2 * Cardinality(DOMAIN s.doc.node) - Len(s.open)
<1>1. n \in Nat /\ IsFiniteSet(DOMAIN d.node)
  BY FS_CardinalityType DEF Deletable, Loose, Shaped
<1>2. Gone(d, p, B, R, start)
  BY DeletionBegins
<1>9. Left(start) + 0 = n - 1
  BY <1>1
<1> HIDE DEF n, start, Left
<1>3. PICK turn : /\ turn[0] = start /\ turn[n] = Deleting!Turns(start, n)
                  /\ \A k \in 1 .. n : turn[k] = DeleteTurn(turn[k - 1])
  BY <1>1, Deleting!TurnsFacts
<1> DEFINE T == {k \in 0 .. n : Gone(d, p, B, R, turn[k]) /\ (Done(turn[k]) \/ Left(turn[k]) + k = n - 1)}
<1>4. 0 \in T
  BY <1>1, <1>2, <1>3, <1>9
<1>5. \A k \in 1 .. n : k - 1 \in T => k \in T
  <2> SUFFICES ASSUME NEW k \in 1 .. n, k - 1 \in T PROVE k \in T
    OBVIOUS
  <2>1. Gone(d, p, B, R, turn[k - 1]) /\ turn[k] = DeleteTurn(turn[k - 1])
    BY <1>3
  <2>2. /\ Gone(d, p, B, R, turn[k])
        /\ IF Done(turn[k - 1]) THEN turn[k] = turn[k - 1] ELSE Left(turn[k]) = Left(turn[k - 1]) - 1
    BY <2>1, DeleteTurnKeeps DEF Left
  <2>3. Left(turn[k - 1]) \in Int
    <3>1. Cardinality(DOMAIN turn[k - 1].doc.node) \in Nat /\ Len(turn[k - 1].open) \in Nat
      BY <2>1, GoneSizes
    <3> QED
      BY <3>1 DEF Left
  <2> QED
    BY <1>1, <2>2, <2>3
<1>6. n \in T
  <2> HIDE DEF T
  <2> QED
    BY <1>1, <1>4, <1>5, Deleting!UpTo
<1>7. Gone(d, p, B, R, turn[n])
  BY <1>6
<1>8. Done(turn[n])
  <2>1. Len(turn[n].open) <= Cardinality(DOMAIN turn[n].doc.node)
    BY <1>7, OpenIsBounded
  <2>2. Cardinality(DOMAIN turn[n].doc.node) \in Nat /\ Len(turn[n].open) \in Nat /\ Len(turn[n].open) >= 1
    BY <1>7, GoneSizes
  <2>3. Left(turn[n]) > 0
    BY <2>1, <2>2 DEF Left
  <2>4. Left(turn[n]) + n # n - 1
    <3>1. \A i \in Int : i > 0 => i + n # n - 1
      BY <1>1
    <3>2. Left(turn[n]) \in Int
      BY <2>2 DEF Left
    <3> QED
      BY <2>3, <3>1, <3>2
  <2> QED
    BY <1>6, <2>4
<1> QED
  BY <1>3, <1>7, <1>8 DEF start, n

\* What DeleteChildren makes of a document: what lies below p is gone, and of the
\* rest only p is changed.
LEMMA DeleteChildrenFacts ==
    ASSUME NEW d, NEW p, NEW B, NEW R, Deletable(d, p, B, R)
    PROVE  LET e == DeleteChildren(d, p)
           IN  /\ Loose(e, R) /\ DOMAIN e.node = DOMAIN d.node \ B /\ e.unlinked = d.unlinked
               /\ \A m \in DOMAIN e.node \ {p} : e.node[m] = d.node[m]
               /\ \A f \in Members \ {"first", "last"} : e.node[p][f] = d.node[p][f]
               /\ p \in DOMAIN e.node /\ e.node[p].first = Nil
<1> DEFINE s == Deleting!Turns([doc |-> d, open |-> <<p>>], 2 * Cardinality(DOMAIN d.node))
           x == s.doc
<1>1. Gone(d, p, B, R, s) /\ Done(s)
  BY DeletionEnds
<1> HIDE DEF s
<1>2. p \in DOMAIN d.node /\ p \notin B /\ \A m \in DOMAIN d.node : d.node[m].parent \in B \cup {p} <=> m \in B
  BY DEF Deletable, Encloses
<1>3. Last(s.open) = p /\ Inner(s.open) = {}
  <2>1. s.open \in Seq(Nat) /\ s.open[1] = p /\ Len(s.open) = 1
    BY <1>1 DEF Gone, Done
  <2> QED
    BY <2>1 DEF Last, Inner
<1>4. Loose(x, R) /\ x.node[p].first = Nil
  <2>1. R \cup {} = R
    OBVIOUS
  <2> QED
    BY <1>1, <1>3, <2>1 DEF Gone, Done
<1>5. /\ Shaped(x) /\ Linked(x) /\ Ordered(x) /\ p \in DOMAIN x.node /\ Nil \notin DOMAIN x.node
      /\ DOMAIN x.node \subseteq DOMAIN d.node /\ DOMAIN d.node \ B \subseteq DOMAIN x.node
  <2>1. Shaped(x) /\ Linked(x) /\ Ordered(x)
    BY <1>4 DEF Loose
  <2>2. DOMAIN x.node \subseteq DOMAIN d.node /\ DOMAIN d.node \ B \subseteq DOMAIN x.node
    BY <1>1 DEF Gone
  <2> QED
    BY <1>2, <2>1, <2>2, NilAssumption DEF Shaped
<1>6. B \cap DOMAIN x.node = {}
  <2> DEFINE X == B \cap DOMAIN x.node
  <2>1. \A m \in DOMAIN x.node : x.node[m].parent # p
    BY <1>4, <1>5, NoChildren
  <2>2. ASSUME NEW m \in X PROVE x.node[m].parent \in X
    <3>1. x.node[m].parent = d.node[m].parent /\ x.node[m].parent # Nil
      BY <1>1, <1>3 DEF Gone
    <3>2. x.node[m].parent \in B /\ x.node[m].parent \in DOMAIN x.node
      BY <1>2, <1>5, <2>1, <3>1 DEF Linked
    <3> QED
      BY <3>2
  <2>3. X \in SUBSET DOMAIN x.node
    OBVIOUS
  <2> HIDE DEF X
  <2>4. X = {}
    BY <1>5, <2>2, <2>3, NoCycle
  <2> QED
    BY <2>4 DEF X
<1>7. DOMAIN x.node = DOMAIN d.node \ B
  BY <1>5, <1>6
<1>8. Set(x, p, "last", Nil) = x
  <2>1. x.node[p].last = Nil
    BY <1>4, <1>5 DEF Linked
  <2>2. "last" \in Members
    BY DEF Members, Pointing
  <2> QED
    BY <1>5, <2>1, <2>2, SetSame
<1>9. DeleteChildren(d, p) = x
  BY <1>8 DEF DeleteChildren, s
<1>10. /\ x.unlinked = d.unlinked
       /\ \A m \in DOMAIN x.node \ {p} : x.node[m] = d.node[m]
       /\ \A f \in Members \ {"first", "last"} : x.node[p][f] = d.node[p][f]
  BY <1>1, <1>7 DEF Gone
<1> QED
  BY <1>4, <1>5, <1>7, <1>9, <1>10

\* A node that was taken out is deleted with all that lies below it.
LEMMA LooseIsDeleted ==
    ASSUME NEW d, NEW n, Floating(d, n), d.node[n].attrs = <<>>, NEW B, Encloses(d, n, B)
    PROVE  LET e == Free(DeleteChildren(d, n), n)
           IN  /\ Sane(e) /\ DOMAIN e.node = DOMAIN d.node \ (B \cup {n}) /\ e.unlinked = d.unlinked
               /\ \A m \in DOMAIN e.node : e.node[m] = d.node[m]
<1> DEFINE x == DeleteChildren(d, n)
           e == Free(x, n)
<1>1. Loose(d, {n}) /\ n \in DOMAIN d.node
  BY DEF Floating, Loose, Roots, Nodes
<1>2. /\ Loose(x, {n}) /\ DOMAIN x.node = DOMAIN d.node \ B /\ x.unlinked = d.unlinked
      /\ \A m \in DOMAIN x.node \ {n} : x.node[m] = d.node[m]
      /\ \A f \in Members \ {"first", "last"} : x.node[n][f] = d.node[n][f]
      /\ x.node[n].first = Nil
  <2>1. Deletable(d, n, B, {n})
    BY <1>1 DEF Deletable
  <2> QED
    BY <2>1, DeleteChildrenFacts
<1> HIDE DEF x
<1>3. x.node[n].attrs = <<>>
  <2>1. "attrs" \in Members \ {"first", "last"}
    BY DEF Members, Pointing
  <2> QED
    BY <1>2, <2>1
<1>4. /\ Loose(e, {n} \ {n}) /\ DOMAIN e.node = DOMAIN x.node \ {n}
      /\ \A m \in DOMAIN e.node : e.node[m] = x.node[m]
      /\ e.unlinked = x.unlinked
  <2>1. n \in {n}
    OBVIOUS
  <2> QED
    BY <1>2, <1>3, <2>1, FreeFacts
<1> HIDE DEF e
<1>5. Sane(e)
  <2>1. {n} \ {n} = {}
    OBVIOUS
  <2> QED
    BY <1>4, <2>1, SaneIsLoose
<1>6. DOMAIN e.node = DOMAIN d.node \ (B \cup {n})
  BY <1>2, <1>4
<1> QED
  BY <1>2, <1>4, <1>5, <1>6 DEF e, x

\* A node without a parent leaves the list and loses its attributes.
LEMMA RootIsOut ==
    ASSUME NEW d, Sane(d), NEW n \in Roots(d)
    PROVE  LET e == BeginDelete(SetTracked(d, n), n)
           IN  /\ Floating(e, n) /\ e.node[n].attrs = <<>> /\ DOMAIN e.node = DOMAIN d.node
               /\ Len(e.unlinked) = Len(d.unlinked) - 1
               /\ \A m \in DOMAIN d.node \ {n} : e.node[m] = d.node[m]
               /\ e.node[n].parent = d.node[n].parent
<1> DEFINE w == SetTracked(MarkInUse(d, n), n)
           e == DeleteAttributes(w, n)
<1>1. /\ Shaped(w) /\ w.node = d.node /\ Len(w.unlinked) = Len(d.unlinked) - 1
      /\ MarkInUse(SetTracked(d, n), n) = w /\ Tallied(w, Roots(d) \ {n})
  BY MarkedFacts
<1> HIDE DEF w
<1>2. BeginDelete(SetTracked(d, n), n) = e
  BY <1>1 DEF BeginDelete
<1>3. Linked(w) /\ Ordered(w) /\ Nodes(w) = Nodes(d) /\ Roots(w) = Roots(d)
  BY <1>1, SameLinks DEF Sane
<1>4. Loose(w, {n}) /\ n \in Nodes(w) /\ n \in DOMAIN d.node
  BY <1>1, <1>3 DEF Loose, Roots, Nodes
<1>5. Loose(e, {n}) /\ Attributes(w, n, <<>>, e)
  BY <1>4, DeleteAttributesKeeps
<1> HIDE DEF e
<1>6. {"attrs", "parent"} \subseteq Members
  BY DEF Members, Pointing
<1>7. e.node[n].attrs = <<>> /\ e.node[n].parent = d.node[n].parent
  BY <1>1, <1>5, <1>6 DEF Attributes
<1> QED
  BY <1>1, <1>2, <1>5, <1>7 DEF Attributes, Floating

\* DeleteNode, of a node in the tree or on the list, keeps the document sane: the
\* node and what lies below it is gone, once each, and nothing else; the others
\* keep their parent and the order of their siblings
\* (src/filter/lib/tinyxml/tinyxml.cpp:912, 1188, 2326).
THEOREM DeleteKeeps ==
    ASSUME NEW d, Sane(d), NEW n \in Nodes(d)
    PROVE  LET e == DeleteAnyNode(d, n)
           IN  /\ Sane(e)
               /\ DOMAIN e.node = {m \in DOMAIN d.node : Apart(d, n, m)}
               /\ \A m \in DOMAIN e.node :
                    /\ e.node[m].parent = d.node[m].parent
                    /\ e.node[m].next = IF d.node[m].next = n THEN d.node[n].next ELSE d.node[m].next
<1> DEFINE B == Under(d, n)
           e == DeleteAnyNode(d, n)
           x == IF d.node[n].parent # Nil THEN BeginDelete(Unlink(d, n), n) ELSE BeginDelete(SetTracked(d, n), n)
<1>1. /\ Shaped(d) /\ Linked(d) /\ Ordered(d) /\ n \in DOMAIN d.node /\ n # Doc
      /\ Nil \notin DOMAIN d.node
  BY NilAssumption DEF Sane, Nodes, Shaped
<1>2. Encloses(d, n, B)
  BY <1>1, UnderEncloses
<1>3. e = Free(DeleteChildren(x, n), n)
  BY DEF DeleteAnyNode, DeleteChild, DeleteNode
<1>4. /\ Floating(x, n) /\ x.node[n].attrs = <<>> /\ DOMAIN x.node = DOMAIN d.node
      /\ \A m \in DOMAIN d.node \ {n} :
            /\ x.node[m].parent = d.node[m].parent
            /\ x.node[m].next = IF d.node[m].next = n THEN d.node[n].next ELSE d.node[m].next
      /\ x.node[n].parent = Nil
  <2>1. CASE d.node[n].parent # Nil
    <3>1. Loose(d, {}) /\ x = BeginDelete(Unlink(d, n), n) /\ {} \cup {n} = {n}
      BY <2>1, SaneIsLoose
    <3> HIDE DEF x
    <3>2. Loose(x, {} \cup {n}) /\ OutOf(d, n, x)
      BY <2>1, <3>1, TakenOut
    <3> QED
      BY <1>1, <3>1, <3>2 DEF Floating, OutOf
  <2>2. CASE d.node[n].parent = Nil
    <3>1. n \in Roots(d) /\ x = BeginDelete(SetTracked(d, n), n)
      BY <2>2 DEF Roots
    <3> HIDE DEF x
    <3>2. /\ Floating(x, n) /\ x.node[n].attrs = <<>> /\ DOMAIN x.node = DOMAIN d.node
          /\ \A m \in DOMAIN d.node \ {n} : x.node[m] = d.node[m]
          /\ x.node[n].parent = d.node[n].parent
      BY <3>1, RootIsOut
    <3>3. \A m \in DOMAIN d.node : d.node[m].next # n
      BY <1>1, <2>2 DEF Linked
    <3> QED
      BY <2>2, <3>2, <3>3
  <2> QED
    BY <2>1, <2>2
<1> HIDE DEF x, B
<1>5. Encloses(x, n, B)
  <2>1. Nodes(x) = Nodes(d)
    BY <1>4 DEF Nodes
  <2>2. Nil \notin B \cup {n} /\ n \notin B
    BY <1>1, <1>2 DEF Encloses, Nodes
  <2> QED
    BY <1>2, <1>4, <2>1, <2>2 DEF Encloses
<1>6. /\ Sane(e) /\ DOMAIN e.node = DOMAIN d.node \ (B \cup {n})
      /\ \A m \in DOMAIN e.node : e.node[m] = x.node[m]
  BY <1>3, <1>4, <1>5, LooseIsDeleted
<1> HIDE DEF e
<1>7. \A m \in DOMAIN d.node : m \in B \cup {n} <=> ~Apart(d, n, m)
  <2>1. ~Apart(d, n, n)
    BY DEF Apart
  <2> QED
    BY <2>1 DEF B, Under
<1>8. DOMAIN e.node = {m \in DOMAIN d.node : Apart(d, n, m)}
  BY <1>6, <1>7
<1> QED
  BY <1>4, <1>6, <1>8 DEF e

\* DeleteChildren keeps the document sane; what lies below the node is gone, and
\* of the rest only the node is changed (src/filter/lib/tinyxml/tinyxml.cpp:878).
THEOREM DeleteChildrenKeeps ==
    ASSUME NEW d, Sane(d), NEW p \in DOMAIN d.node
    PROVE  LET e == DeleteChildren(d, p)
           IN  /\ Sane(e) /\ DOMAIN e.node = DOMAIN d.node \ Under(d, p) /\ p \in DOMAIN e.node
               /\ e.node[p].first = Nil /\ e.unlinked = d.unlinked
               /\ \A m \in DOMAIN e.node \ {p} : e.node[m] = d.node[m]
<1> DEFINE e == DeleteChildren(d, p)
<1>1. Deletable(d, p, Under(d, p), {})
  BY SaneIsLoose, UnderEncloses DEF Deletable, Sane
<1>2. /\ Loose(e, {}) /\ DOMAIN e.node = DOMAIN d.node \ Under(d, p) /\ e.unlinked = d.unlinked
      /\ p \in DOMAIN e.node /\ e.node[p].first = Nil
      /\ \A m \in DOMAIN e.node \ {p} : e.node[m] = d.node[m]
  BY <1>1, DeleteChildrenFacts
<1> HIDE DEF e
<1> QED
  BY <1>2, SaneIsLoose DEF e

\* The first of the list is deleted.
LEMMA FirstUnlinkedKeeps ==
    ASSUME NEW d, Sane(d), d.node[Doc].first = Nil, d.unlinked # <<>>
    PROVE  LET e == DeleteFirstUnlinked(d)
           IN  Sane(e) /\ e.node[Doc].first = Nil /\ Len(e.unlinked) = Len(d.unlinked) - 1
<1> DEFINE n == Head(d.unlinked)
           x == BeginDelete(SetTracked(d, n), n)
           e == Free(DeleteChildren(x, n), n)
<1>1. /\ n \in Roots(d) /\ n # Doc
  <2>1. d.unlinked \in Seq(Nat) /\ ToSet(d.unlinked) = Roots(d)
    BY DEF Sane, Shaped, Tallied
  <2>2. 1 \in DOMAIN d.unlinked /\ d.unlinked[1] = n
    BY <2>1
  <2>3. n \in Roots(d)
    BY <2>1, <2>2 DEF ToSet
  <2> QED
    BY <2>3 DEF Roots, Nodes
<1>2. DeleteFirstUnlinked(d) = e
  BY <1>1 DEF DeleteFirstUnlinked, DeleteAnyNode, DeleteNode, Roots
<1> HIDE DEF n
<1>3. /\ Floating(x, n) /\ x.node[n].attrs = <<>>
      /\ Len(x.unlinked) = Len(d.unlinked) - 1
      /\ \A m \in DOMAIN d.node \ {n} : x.node[m] = d.node[m]
  BY <1>1, RootIsOut
<1> HIDE DEF x
<1>4. Encloses(x, n, Under(x, n))
  <2>1. Shaped(x) /\ Linked(x) /\ Ordered(x) /\ n \in DOMAIN x.node
    BY <1>3 DEF Floating, Loose, Roots, Nodes
  <2> QED
    BY <2>1, UnderEncloses
<1>5. /\ Sane(e) /\ e.unlinked = x.unlinked
      /\ \A m \in DOMAIN e.node : e.node[m] = x.node[m]
  BY <1>3, <1>4, LooseIsDeleted
<1> HIDE DEF e
<1>6. e.node[Doc].first = Nil
  <2>1. Doc \in DOMAIN e.node /\ Doc \in DOMAIN d.node
    BY <1>5 DEF Sane, Linked
  <2> QED
    BY <1>1, <1>3, <1>5, <2>1
<1> QED
  BY <1>2, <1>3, <1>5, <1>6

\* What a document says of the last parse is no matter.
LEMMA NotesKeep ==
    ASSUME NEW d, Sane(d), NEW e,
           e = [node |-> d.node, unlinked |-> d.unlinked, current |-> d.current,
                untracked |-> d.untracked, error |-> e.error, depth |-> e.depth, bom |-> e.bom]
    PROVE  Sane(e)
<1>3. Beside(d, e) /\ e.node = d.node
  BY DEF Beside, Sane, Shaped
<1>4. Tallied(e, Roots(d))
  <2>1. Tallied(d, Roots(d)) /\ Roots(d) \in SUBSET DOMAIN d.node
    BY DEF Sane, Roots, Nodes
  <2>2. \A m \in Nodes(d) : Text(e.node[m].value)
    BY <1>3, <2>1 DEF Tallied, Attributed
  <2>3. Doc \in DOMAIN d.node
    BY DEF Sane, Linked
  <2> QED
    BY <1>3, <2>1, <2>2, <2>3, SameTally
<1>5. Linked(e) /\ Ordered(e) /\ Roots(e) = Roots(d)
  BY <1>3, SameLinks DEF Sane
<1> QED
  BY <1>3, <1>4, <1>5 DEF Sane, Beside

\* A document of which no node is unlinked and that has no child has no node.
LEMMA NothingLeft ==
    ASSUME NEW x, Sane(x), x.node[Doc].first = Nil, x.unlinked = <<>>
    PROVE  /\ Nodes(x) = {}
           /\ \A pool \in Pools : x.current[pool] = 0 /\ x.untracked[pool] = 0
<1>1. Nodes(x) = {} /\ Roots(x) = {}
  <2>1. /\ Shaped(x) /\ Linked(x) /\ Ordered(x) /\ Doc \in DOMAIN x.node /\ Nil \notin DOMAIN x.node
    BY NilAssumption DEF Sane, Linked, Shaped
  <2>2. Roots(x) = {}
    BY DEF Sane, Tallied, ToSet
  <2>3. \A m \in DOMAIN x.node : x.node[m].parent # Doc
    BY <2>1, NoChildren
  <2>4. \A m \in Nodes(x) : x.node[m].parent \in Nodes(x)
    BY <2>1, <2>2, <2>3 DEF Linked, Roots, Nodes
  <2>5. Nodes(x) = {}
    BY <2>1, <2>4, NoCycle DEF Nodes
  <2> QED
    BY <2>2, <2>5
<1>2. \A pool \in Pools : x.current[pool] = 0 /\ x.untracked[pool] = 0
  <2>1. Tallied(x, {})
    BY <1>1 DEF Sane
  <2>2. \A pool \in NodePools : InPool(x, {}, pool) = {} /\ x.current[pool] = 0 /\ x.untracked[pool] = 0
    BY <1>1, <2>1, FS_EmptySet DEF Tallied, InPool
  <2>3. x.current["attribute"] = 0 /\ x.untracked["attribute"] = 0
    <3>1. AttributesOf(x) = {}
      BY <1>1 DEF AttributesOf
    <3> QED
      BY <2>1, <3>1, FS_EmptySet DEF Tallied, Attributed
  <2> QED
    BY <2>2, <2>3 DEF NodePools
<1> QED
  BY <1>1, <1>2

\* Clear keeps the document sane and leaves nothing but the document: no node, and
\* nothing in use in the pools, of which none is untracked, as the code asserts
\* (src/filter/lib/tinyxml/tinyxml.cpp:2224, 2246).
THEOREM ClearKeeps ==
    ASSUME NEW d, Sane(d)
    PROVE  LET e == Clear(d)
           IN  /\ Sane(e) /\ Nodes(e) = {} /\ e.unlinked = <<>>
               /\ \A pool \in Pools : e.current[pool] = 0 /\ e.untracked[pool] = 0
<1> DEFINE c == DeleteChildren(d, Doc)
           k == Len(c.unlinked)
           x == DeleteUnlinked(c)
           e == [x EXCEPT !.error = "success", !.depth = 0]
<1>1. Sane(c) /\ c.node[Doc].first = Nil
  <2>1. Doc \in DOMAIN d.node
    BY DEF Sane, Linked
  <2> QED
    BY <2>1, DeleteChildrenKeeps
<1>2. Clear(d) = e
  BY DEF Clear
<1> HIDE DEF c
<1>3. k \in Nat /\ x = Sweeping!Turns(c, k)
  <2>1. c.unlinked \in Seq(Nat)
    BY <1>1 DEF Sane, Shaped
  <2> QED
    BY <2>1 DEF DeleteUnlinked
<1> HIDE DEF x
<1>4. PICK turn : /\ turn[0] = c /\ turn[k] = Sweeping!Turns(c, k)
                  /\ \A i \in 1 .. k : turn[i] = DeleteFirstUnlinked(turn[i - 1])
  BY <1>3, Sweeping!TurnsFacts
<1> DEFINE T == {i \in 0 .. k : Sane(turn[i]) /\ turn[i].node[Doc].first = Nil /\ Len(turn[i].unlinked) = k - i}
<1>5. 0 \in T
  BY <1>1, <1>3, <1>4
<1>6. \A i \in 1 .. k : i - 1 \in T => i \in T
  <2> SUFFICES ASSUME NEW i \in 1 .. k, i - 1 \in T PROVE i \in T
    OBVIOUS
  <2>1. Sane(turn[i - 1]) /\ turn[i - 1].node[Doc].first = Nil /\ Len(turn[i - 1].unlinked) = k - (i - 1)
    OBVIOUS
  <2> HIDE DEF k
  <2>2. turn[i - 1].unlinked # <<>>
    BY <1>3, <2>1
  <2>3. /\ Sane(turn[i]) /\ turn[i].node[Doc].first = Nil
        /\ Len(turn[i].unlinked) = Len(turn[i - 1].unlinked) - 1
    BY <1>4, <2>1, <2>2, FirstUnlinkedKeeps
  <2> QED
    BY <1>3, <2>1, <2>3
<1> HIDE DEF k
<1>7. k \in T
  <2> HIDE DEF T
  <2> QED
    BY <1>3, <1>5, <1>6, Sweeping!UpTo
<1>8. Sane(x) /\ x.node[Doc].first = Nil /\ x.unlinked = <<>>
  <2>1. Sane(x) /\ x.node[Doc].first = Nil /\ Len(x.unlinked) = 0
    BY <1>3, <1>4, <1>7
  <2>2. x.unlinked \in Seq(Nat)
    BY <2>1 DEF Sane, Shaped
  <2>3. \A s \in Seq(Nat) : Len(s) = 0 => s = <<>>
    OBVIOUS
  <2> QED
    BY <2>1, <2>2, <2>3, Zenon
<1>9. Nodes(x) = {} /\ \A pool \in Pools : x.current[pool] = 0 /\ x.untracked[pool] = 0
  BY <1>8, NothingLeft
<1>10. Sane(e) /\ e.node = x.node /\ e.unlinked = x.unlinked /\ e.current = x.current /\ e.untracked = x.untracked
  <2>1. x = [node |-> x.node, unlinked |-> x.unlinked, current |-> x.current,
             untracked |-> x.untracked, error |-> x.error, depth |-> x.depth, bom |-> x.bom]
    BY <1>8 DEF Sane, Shaped
  <2>2. e = [x EXCEPT !.error = "success", !.depth = 0]
    OBVIOUS
  <2> HIDE DEF e
  <2>3. e = [node |-> x.node, unlinked |-> x.unlinked, current |-> x.current,
             untracked |-> x.untracked, error |-> "success", depth |-> 0, bom |-> x.bom]
    BY <2>1, <2>2
  <2>4. e = [node |-> x.node, unlinked |-> x.unlinked, current |-> x.current,
             untracked |-> x.untracked, error |-> e.error, depth |-> e.depth, bom |-> x.bom]
    BY <2>3
  <2> QED
    BY <1>8, <2>3, <2>4, NotesKeep
<1> HIDE DEF e
<1> QED
  BY <1>2, <1>8, <1>9, <1>10 DEF Nodes

-----------------------------------------------------------------------------
(***************************************************************************)
(* What nodes hold is set.                                                 *)
(***************************************************************************)
\* e is d, but for the member f of n.
Held(d, e, n, f) ==
    /\ Sane(e) /\ DOMAIN e.node = DOMAIN d.node /\ e.depth = d.depth
    /\ \A m \in DOMAIN d.node \ {n} : e.node[m] = d.node[m]
    /\ \A g \in Members \ {f} : e.node[n][g] = d.node[n][g]

\* The value of a node is set, or how its tag is closed.
LEMMA ValueKeeps ==
    ASSUME NEW d, Sane(d), NEW n \in DOMAIN d.node, NEW f \in {"value", "closing"}, NEW x,
           f = "value" => Text(x) /\ n # Doc
    PROVE  Held(d, Set(d, n, f, x), n, f)
<1> DEFINE e == Set(d, n, f, x)
<1>1. f \in Members /\ f \notin Pointing \cup {"kind", "attrs"} /\ Pointing \cup {"kind", "attrs"} \subseteq Members
  BY DEF Members, Pointing
<1>2. /\ Beside(d, e)
      /\ \A m \in DOMAIN d.node, g \in Members :
            e.node[m][g] = IF m = n /\ g = f THEN x ELSE d.node[m][g]
  BY <1>1, SetFacts DEF Sane
<1>9. e.depth = d.depth
  <2>1. d = [node |-> d.node, unlinked |-> d.unlinked, current |-> d.current,
             untracked |-> d.untracked, error |-> d.error, depth |-> d.depth, bom |-> d.bom]
    BY DEF Sane, Shaped
  <2> QED
    BY <2>1 DEF Set
<1> HIDE DEF e
<1>3. \A m \in DOMAIN d.node : \A g \in Pointing \cup {"kind", "attrs"} : e.node[m][g] = d.node[m][g]
  BY <1>1, <1>2
<1>4. Linked(e) /\ Ordered(e) /\ Roots(e) = Roots(d)
  <2>1. DOMAIN e.node = DOMAIN d.node /\ Shaped(d) /\ Linked(d) /\ Ordered(d)
    BY <1>2 DEF Beside, Sane
  <2> QED
    BY <1>3, <2>1, SameLinks DEF Pointing
<1>5. Tallied(e, Roots(d))
  <2>1. Roots(d) \in SUBSET DOMAIN d.node /\ Tallied(d, Roots(d))
    BY DEF Roots, Nodes, Sane
  <2>2. ASSUME NEW m \in Nodes(d) PROVE Text(e.node[m].value)
    <3>1. Text(d.node[m].value) /\ m \in DOMAIN d.node /\ "value" \in Members
      BY <2>1 DEF Tallied, Attributed, Nodes, Members
    <3> QED
      BY <1>2, <3>1
  <2>3. Doc \in DOMAIN d.node /\ e.node[Doc].value = d.node[Doc].value
    <3>1. Doc \in DOMAIN d.node /\ "value" \in Members
      BY DEF Sane, Linked, Members
    <3> QED
      BY <1>2, <3>1
  <2> QED
    BY <1>2, <1>3, <2>1, <2>2, <2>3, SameTally
<1>6. Sane(e) /\ DOMAIN e.node = DOMAIN d.node
  BY <1>2, <1>4, <1>5 DEF Sane, Beside
<1>7. ASSUME NEW m \in DOMAIN d.node \ {n} PROVE e.node[m] = d.node[m]
  <2>1. d.node[m] = [g \in Members |-> d.node[m][g]] /\ e.node[m] = [g \in Members |-> e.node[m][g]]
    BY <1>6 DEF Sane, Shaped
  <2>2. \A g \in Members : e.node[m][g] = d.node[m][g]
    BY <1>2
  <2> QED
    BY <2>1, <2>2
<1>8. \A g \in Members \ {f} : e.node[n][g] = d.node[n][g]
  BY <1>2
<1> QED
  BY <1>6, <1>7, <1>8, <1>9 DEF Held, e

\* A node gets other attributes, and the pool counts them.
LEMMA WithAttributes ==
    ASSUME NEW d, Sane(d), NEW n \in Nodes(d), NEW a, Named(a)
    PROVE  LET k == d.current["attribute"] - Len(d.node[n].attrs) + Len(a)
               e == [d EXCEPT !.node[n].attrs = a, !.current["attribute"] = k]
           IN  Held(d, e, n, "attrs") /\ e.node[n].attrs = a
<1> DEFINE k == d.current["attribute"] - Len(d.node[n].attrs) + Len(a)
           e == [d EXCEPT !.node[n].attrs = a, !.current["attribute"] = k]
<1>1. Loose(e, {}) /\ Attributes(d, n, a, e)
  BY SaneIsLoose, AttributesKeep
<1>4. e.depth = d.depth
  <2>1. d = [node |-> d.node, unlinked |-> d.unlinked, current |-> d.current,
             untracked |-> d.untracked, error |-> d.error, depth |-> d.depth, bom |-> d.bom]
    BY DEF Sane, Shaped
  <2> QED
    BY <2>1
<1> HIDE DEF e
<1>2. Sane(e)
  BY <1>1, SaneIsLoose
<1>3. "attrs" \in Members
  BY DEF Members
<1> QED
  BY <1>1, <1>2, <1>3, <1>4 DEF Attributes, Held, e

\* Where FindAttribute finds an attribute there is one, and elsewhere there is none.
LEMMA FoundIsThere ==
    ASSUME NEW d, NEW n, Named(d.node[n].attrs), NEW name
    PROVE  LET s == d.node[n].attrs
               i == FindAttribute(d, n, name)
           IN  IF i = 0 THEN \A j \in DOMAIN s : s[j].name # name
               ELSE i \in DOMAIN s /\ s[i].name = name
<1> DEFINE s == d.node[n].attrs
           I == {j \in 1 .. Len(s) : s[j].name = name}
<1>1. FindAttribute(d, n, name) = IF I # {} THEN Min(I) ELSE 0
  BY DEF FindAttribute, SelectInSeq
<1>2. I \in SUBSET (Nat \ {0}) /\ DOMAIN s = 1 .. Len(s)
  BY DEF Named
<1>3. I # {} => Min(I) \in I
  BY <1>2, LeastFresh
<1> QED
  BY <1>1, <1>2, <1>3

\* e is d with one more attribute at n.
Added(d, e, n, name, value) ==
    /\ Held(d, e, n, "attrs")
    /\ e.node[n].attrs = Append(d.node[n].attrs, [name |-> name, value |-> value])

LEMMA AddAttributeKeeps ==
    ASSUME NEW d, Sane(d), NEW n \in Nodes(d), NEW name, Text(name), NEW value, Text(value),
           FindAttribute(d, n, name) = 0
    PROVE  Added(d, AddAttribute(d, n, name, value), n, name, value)
<1> DEFINE s == d.node[n].attrs
           y == [name |-> name, value |-> value]
           a == Append(s, y)
<1>1. Named(s) /\ d.current["attribute"] \in Int
  BY DEF Sane, Tallied, Attributed, Pools
<1>2. PICK S : s \in Seq(S)
  BY <1>1 DEF Named
<1>3. /\ a \in Seq(S \cup {y}) /\ Len(a) = Len(s) + 1 /\ Len(s) \in Nat
      /\ DOMAIN s = 1 .. Len(s) /\ DOMAIN a = 1 .. Len(s) + 1
      /\ a[Len(s) + 1] = y /\ \A i \in 1 .. Len(s) : a[i] = s[i]
  <2>1. s \in Seq(S \cup {y})
    BY <1>2
  <2> QED
    BY <2>1, AppendProperties
<1>4. \A j \in DOMAIN s : s[j].name # name
  BY <1>1, FoundIsThere
<1> HIDE DEF a
<1>5. Named(a)
  <2>1. \A i \in DOMAIN a : (a[i] = y /\ i = Len(s) + 1) \/ (i \in DOMAIN s /\ a[i] = s[i])
    <3> DEFINE l == Len(s)
    <3>1. l \in Nat /\ \A i \in 1 .. l + 1 : i = l + 1 \/ i \in 1 .. l
      BY <1>3
    <3> HIDE DEF l, y
    <3> QED
      BY <1>3, <3>1 DEF l
  <2>2. y = [name |-> y.name, value |-> y.value] /\ y.name = name /\ y.value = value
    OBVIOUS
  <2> HIDE DEF y
  <2>3. \A i \in DOMAIN s : s[i] = [name |-> s[i].name, value |-> s[i].value] /\ Text(s[i].name) /\ Text(s[i].value)
    BY <1>1 DEF Named
  <2>4. \A i, j \in DOMAIN s : s[i].name = s[j].name => i = j
    BY <1>1 DEF Named
  <2>5. \A i \in DOMAIN a : a[i] = [name |-> a[i].name, value |-> a[i].value] /\ Text(a[i].name) /\ Text(a[i].value)
    BY <2>1, <2>2, <2>3
  <2>6. \A i, j \in DOMAIN a : a[i].name = a[j].name => i = j
    BY <1>4, <2>1, <2>2, <2>4
  <2> QED
    BY <1>3, <2>5, <2>6 DEF Named
<1> DEFINE k == d.current["attribute"] - Len(s) + Len(a)
           e == [d EXCEPT !.node[n].attrs = a, !.current["attribute"] = k]
<1>6. Held(d, e, n, "attrs") /\ e.node[n].attrs = a
  BY <1>5, WithAttributes
<1>7. k = d.current["attribute"] + 1
  <2>1. \A i \in Int, j \in Nat : i - j + (j + 1) = i + 1
    OBVIOUS
  <2> QED
    BY <1>1, <1>3, <2>1
<1> HIDE DEF k
<1>8. e = AddAttribute(d, n, name, value)
  BY <1>7 DEF AddAttribute, a
<1> QED
  BY <1>6, <1>8 DEF a, Added

LEMMA SetAttributeKeeps ==
    ASSUME NEW d, Sane(d), NEW n \in Nodes(d), NEW name, Text(name), NEW value, Text(value)
    PROVE  Held(d, SetAttribute(d, n, name, value), n, "attrs")
<1> DEFINE i == FindAttribute(d, n, name)
           s == d.node[n].attrs
           y == [s[i] EXCEPT !.value = value]
           a == [s EXCEPT ![i] = y]
           k == d.current["attribute"] - Len(s) + Len(a)
           e == [d EXCEPT !.node[n].attrs = a, !.current["attribute"] = k]
<1>1. Named(s)
  BY DEF Sane, Tallied, Attributed
<1>2. CASE i = 0
  BY <1>2, AddAttributeKeeps DEF SetAttribute, Added
<1>3. CASE i # 0
  <2>1. i \in DOMAIN s
    BY <1>1, <1>3, FoundIsThere
  <2> HIDE DEF i
  <2>2. PICK S : s \in Seq(S)
    BY <1>1 DEF Named
  <2>3. a \in Seq(S \cup {y}) /\ Len(a) = Len(s) /\ Len(s) \in Nat /\ DOMAIN a = DOMAIN s
    BY <2>1, <2>2
  <2>4. Named(a)
    <3>1. s[i] = [name |-> s[i].name, value |-> s[i].value]
      BY <1>1, <2>1 DEF Named
    <3>2. y = [name |-> s[i].name, value |-> value]
      BY <3>1
    <3>3. \A j \in DOMAIN s : a[j] = (IF j = i THEN y ELSE s[j]) /\ a[j].name = s[j].name
      BY <2>1, <3>2
    <3>4. y.value = value
      BY <3>2
    <3> HIDE DEF a, y
    <3> QED
      BY <1>1, <2>3, <3>2, <3>3, <3>4 DEF Named
  <2>5. /\ d.current["attribute"] \in Int /\ d.current = [pool \in Pools |-> d.current[pool]]
        /\ d = [d EXCEPT !.current = d.current]
    BY DEF Sane, Shaped, Tallied, Pools
  <2>6. Held(d, e, n, "attrs")
    <3> HIDE DEF a
    <3> QED
      BY <2>4, WithAttributes
  <2>7. k = d.current["attribute"]
    BY <2>3, <2>5
  <2> HIDE DEF k
  <2>8. SetAttribute(d, n, name, value) = [d EXCEPT !.node[n].attrs = a]
    BY <1>3 DEF SetAttribute, i
  <2>9. [d.current EXCEPT !["attribute"] = k] = d.current
    BY <2>5, <2>7
  <2> HIDE DEF a
  <2>10. e = [d EXCEPT !.node[n].attrs = a, !.current = [d.current EXCEPT !["attribute"] = k]]
    OBVIOUS
  <2>11. [d EXCEPT !.node[n].attrs = a, !.current = d.current] = [d EXCEPT !.node[n].attrs = a]
    <3> DEFINE node == [d.node EXCEPT ![n].attrs = a]
    <3>1. [d EXCEPT !.node = node, !.current = d.current] = [d EXCEPT !.node = node]
      <4> HIDE DEF node
      <4>1. d = [node |-> d.node, unlinked |-> d.unlinked, current |-> d.current,
                 untracked |-> d.untracked, error |-> d.error, depth |-> d.depth, bom |-> d.bom]
        BY DEF Sane, Shaped
      <4> QED
        BY <4>1
    <3> QED
      BY <3>1
  <2> QED
    BY <2>6, <2>8, <2>9, <2>10, <2>11
<1> QED
  BY <1>2, <1>3

\* What RemoveAt leaves of a sequence.
LEMMA RemoveAtFacts ==
    ASSUME NEW S, NEW s \in Seq(S), NEW i \in DOMAIN s
    PROVE  /\ RemoveAt(s, i) \in Seq(S) /\ Len(RemoveAt(s, i)) = Len(s) - 1
           /\ \A j \in 1 .. Len(s) - 1 : RemoveAt(s, i)[j] = IF j < i THEN s[j] ELSE s[j + 1]
<1> DEFINE a == RemoveAt(s, i)
           u == SubSeq(s, 1, i - 1)
           v == SubSeq(s, i + 1, Len(s))
<1>1. i \in 1 .. Len(s) /\ Len(s) \in Nat
  OBVIOUS
<1>2. /\ u \in Seq(S) /\ Len(u) = i - 1
      /\ \A j \in 1 .. i - 1 : u[j] = s[j]
  BY <1>1, SubSeqProperties
<1>3. /\ v \in Seq(S) /\ Len(v) = Len(s) - i
      /\ \A j \in 1 .. Len(s) - i : v[j] = s[j + i]
  <2>1. i + 1 \in 1 .. Len(s) + 1 /\ Len(s) \in i .. Len(s)
    BY <1>1
  <2>2. /\ v \in Seq(S)
        /\ Len(v) = IF i + 1 <= Len(s) THEN Len(s) - (i + 1) + 1 ELSE 0
        /\ \A j \in 1 .. Len(s) - (i + 1) + 1 : v[j] = s[(i + 1) + j - 1]
    BY <1>1, <2>1, SubSeqProperties
  <2> HIDE DEF v
  <2>3. \A k, l \in Int : l - (k + 1) + 1 = l - k /\ (k + 1) + l - 1 = l + k
    OBVIOUS
  <2>4. /\ Len(s) \in Int /\ i \in Int /\ (i + 1 <= Len(s) \/ Len(s) - i = 0)
        /\ \A j \in 1 .. Len(s) - i : j \in Int
    BY <1>1
  <2> QED
    BY <2>2, <2>3, <2>4
<1>4. a = u \o v
  BY DEF RemoveAt
<1> HIDE DEF a, u, v
<1>5. /\ a \in Seq(S) /\ Len(a) = Len(u) + Len(v)
      /\ \A j \in 1 .. Len(u) + Len(v) : a[j] = IF j <= Len(u) THEN u[j] ELSE v[j - Len(u)]
  BY <1>2, <1>3, <1>4, ConcatProperties
<1>6. ASSUME NEW j \in 1 .. Len(s) - 1 PROVE a[j] = IF j < i THEN s[j] ELSE s[j + 1]
  <2>1. Len(u) + Len(v) = Len(s) - 1
    BY <1>1, <1>2, <1>3
  <2>2. a[j] = IF j <= i - 1 THEN u[j] ELSE v[j - (i - 1)]
    BY <1>2, <1>5, <2>1
  <2>3. CASE j < i
    <3>1. j \in 1 .. i - 1
      BY <1>1, <2>3
    <3> QED
      BY <1>2, <2>2, <2>3, <3>1
  <2>4. CASE ~(j < i)
    <3>1. j - (i - 1) \in 1 .. Len(s) - i /\ j - (i - 1) + i = j + 1 /\ ~(j <= i - 1)
      BY <1>1, <2>4
    <3> QED
      BY <1>3, <2>2, <2>4, <3>1
  <2> QED
    BY <2>3, <2>4
<1> QED
  BY <1>1, <1>2, <1>3, <1>5, <1>6 DEF a

LEMMA DeleteAttributeKeeps ==
    ASSUME NEW d, Sane(d), NEW n \in Nodes(d), NEW name
    PROVE  Held(d, DeleteAttribute(d, n, name), n, "attrs")
<1> DEFINE i == FindAttribute(d, n, name)
           s == d.node[n].attrs
           a == RemoveAt(s, i)
           k == d.current["attribute"] - Len(s) + Len(a)
           e == [d EXCEPT !.node[n].attrs = a, !.current["attribute"] = k]
<1>1. Named(s) /\ d.current["attribute"] \in Int
  BY DEF Sane, Tallied, Attributed, Pools
<1>2. CASE i = 0
  BY <1>2 DEF DeleteAttribute, Held
<1>3. CASE i # 0
  <2>1. i \in DOMAIN s
    BY <1>1, <1>3, FoundIsThere
  <2> HIDE DEF i
  <2>2. PICK S : s \in Seq(S)
    BY <1>1 DEF Named
  <2>3. /\ a \in Seq(S) /\ Len(a) = Len(s) - 1 /\ Len(s) \in Nat
        /\ \A j \in 1 .. Len(s) - 1 : a[j] = IF j < i THEN s[j] ELSE s[j + 1]
    <3> HIDE DEF s
    <3>1. Len(s) \in Nat
      BY <2>2
    <3>2. /\ a \in Seq(S) /\ Len(a) = Len(s) - 1
          /\ \A j \in 1 .. Len(s) - 1 : a[j] = IF j < i THEN s[j] ELSE s[j + 1]
      BY <2>1, <2>2, RemoveAtFacts
    <3> QED
      BY <3>1, <3>2
  <2> HIDE DEF a
  <2>4. DOMAIN s = 1 .. Len(s) /\ DOMAIN a = 1 .. Len(s) - 1
    BY <2>2, <2>3
  <2>5. Named(a)
    <3> DEFINE at == [j \in DOMAIN a |-> IF j < i THEN j ELSE j + 1]
    <3>1. \A j \in DOMAIN a : at[j] \in DOMAIN s /\ a[j] = s[at[j]]
      <4> TAKE j \in DOMAIN a
      <4>1. at[j] = IF j < i THEN j ELSE j + 1
        OBVIOUS
      <4>2. j \in 1 .. Len(s) - 1 /\ a[j] = IF j < i THEN s[j] ELSE s[j + 1]
        BY <2>3, <2>4
      <4>3. j \in 1 .. Len(s) /\ j + 1 \in 1 .. Len(s)
        BY <2>3, <4>2
      <4> HIDE DEF at, s
      <4> QED
        BY <2>4, <4>1, <4>2, <4>3
    <3>2. \A j, l \in DOMAIN a : at[j] = at[l] => j = l
      BY <2>1, <2>3, <2>4
    <3> HIDE DEF at
    <3>3. \A j \in DOMAIN a : a[j] = [name |-> a[j].name, value |-> a[j].value] /\ Text(a[j].name) /\ Text(a[j].value)
      <4> HIDE DEF s
      <4>1. \A j \in DOMAIN s : s[j] = [name |-> s[j].name, value |-> s[j].value] /\ Text(s[j].name) /\ Text(s[j].value)
        BY <1>1 DEF Named
      <4> QED
        BY <3>1, <4>1
    <3>4. \A j, l \in DOMAIN a : a[j].name = a[l].name => j = l
      BY <1>1, <3>1, <3>2 DEF Named
    <3> QED
      BY <2>3, <3>3, <3>4 DEF Named
  <2>6. Held(d, e, n, "attrs")
    BY <2>5, WithAttributes
  <2>7. k = d.current["attribute"] - 1
    BY <1>1, <2>3
  <2> HIDE DEF k
  <2>8. e = DeleteAttribute(d, n, name)
    BY <1>3, <2>7 DEF DeleteAttribute, i, a
  <2> QED
    BY <2>6, <2>8
<1> QED
  BY <1>2, <1>3

\* Setting, adding and deleting an attribute, and setting the value of a node, keep
\* the document sane, no two attributes of a node get the same name, and nothing
\* else is changed (src/filter/lib/tinyxml/tinyxml.cpp:1894, 1912, 2299).
THEOREM SettersKeep ==
    ASSUME NEW d, Sane(d), NEW n \in Nodes(d), NEW name, Text(name), NEW value, Text(value)
    PROVE  /\ Held(d, Set(d, n, "value", value), n, "value")
           /\ Held(d, SetAttribute(d, n, name, value), n, "attrs")
           /\ Held(d, DeleteAttribute(d, n, name), n, "attrs")
<1>1. n \in DOMAIN d.node /\ n # Doc
  BY DEF Nodes, Doc
<1> QED
  BY <1>1, ValueKeeps, SetAttributeKeeps, DeleteAttributeKeeps

\* SetText keeps the document sane (src/filter/lib/tinyxml/tinyxml.cpp:1707).
THEOREM SetTextKeeps ==
    ASSUME NEW d, Sane(d), NEW n \in Nodes(d), NEW text, Text(text)
    PROVE  Sane(SetText(d, n, text))
<1> DEFINE f == d.node[n].first
           c == CreateUnlinkedNode(d, "text", text)
<1>1. n \in DOMAIN d.node
  BY DEF Nodes
<1>2. CASE f # Nil /\ d.node[f].kind \in {"text", "cdata"}
  <2>1. f \in DOMAIN d.node /\ f # Doc
    BY <1>1, <1>2 DEF Sane, Linked, Child, Nodes, Doc
  <2> QED
    BY <1>2, <2>1, ValueKeeps DEF SetText, Held
<1>3. CASE ~(f # Nil /\ d.node[f].kind \in {"text", "cdata"})
  <2>1. SetText(d, n, text) = InsertFirstChild(c, n, Fresh(d))
    BY <1>3 DEF SetText
  <2>2. Sane(c) /\ Nodes(c) = Nodes(d) \cup {Fresh(d)} /\ Apart(c, Fresh(d), n)
    BY <1>1, CreateKeeps
  <2> HIDE DEF c
  <2>3. n \in DOMAIN c.node
    BY <2>2 DEF Nodes
  <2> QED
    BY <2>1, <2>2, <2>3, InsertFirstKeeps DEF Inserted
<1> QED
  BY <1>2, <1>3

\* Where nothing is unlinked, what Parse does after an error keeps the document
\* sane, and clearing the pools changes nothing any more
\* (src/filter/lib/tinyxml/tinyxml.cpp:2464).
THEOREM DiscardKeeps ==
    ASSUME NEW d, Sane(d), d.unlinked = <<>>
    PROVE  /\ ClearPools(DeleteChildren(d, Doc)) = DeleteChildren(d, Doc)
           /\ Sane(DeleteChildren(d, Doc)) /\ Nodes(DeleteChildren(d, Doc)) = {}
<1> DEFINE e == DeleteChildren(d, Doc)
           zero == [pool \in Pools |-> 0]
<1>1. Sane(e) /\ e.node[Doc].first = Nil /\ e.unlinked = <<>>
  <2>1. Doc \in DOMAIN d.node
    BY DEF Sane, Linked
  <2> QED
    BY <2>1, DeleteChildrenKeeps
<1> HIDE DEF e
<1>2. Nodes(e) = {} /\ \A pool \in Pools : e.current[pool] = 0 /\ e.untracked[pool] = 0
  BY <1>1, NothingLeft
<1>3. e.current = zero /\ e.untracked = zero
  <2>1. e.current \in [Pools -> Int] /\ e.untracked \in [Pools -> Int]
    BY <1>1 DEF Sane, Tallied
  <2> QED
    BY <1>2, <2>1
<1>4. e = [node |-> e.node, unlinked |-> e.unlinked, current |-> e.current,
           untracked |-> e.untracked, error |-> e.error, depth |-> e.depth, bom |-> e.bom]
  BY <1>1 DEF Sane, Shaped
<1>5. ClearPools(e) = e
  <2> HIDE DEF zero
  <2>1. ClearPools(e) = [e EXCEPT !.current = zero, !.untracked = zero]
    BY DEF ClearPools, zero
  <2> QED
    BY <1>3, <1>4, <2>1
<1> QED
  BY <1>1, <1>2, <1>5 DEF e

-----------------------------------------------------------------------------
(***************************************************************************)
(* Copies.                                                                 *)
(***************************************************************************)
\* A copy of x that is in no tree yet.
Copied(x, y) ==
    /\ y.kind = x.kind /\ y.value = x.value /\ y.attrs = x.attrs
    /\ \A f \in Pointing : y[f] = Nil

\* e is d with another node x, which lies under nothing.
Extending(d, e, x) ==
    /\ Sane(e) /\ x \in Nat \ DOMAIN d.node /\ DOMAIN e.node = DOMAIN d.node \cup {x}
    /\ \A m \in DOMAIN d.node : e.node[m] = d.node[m] /\ Apart(e, x, m)

\* While the attributes are copied: those of the copy and those left are all.
CopiedPart(from, n, d, s) ==
    LET x == Fresh(d)
        u == s.doc.node[x].attrs
    IN  /\ s = [doc |-> s.doc, copy |-> x, attrs |-> s.attrs]
        /\ Held(CreateUnlinkedNode(d, from.node[n].kind, from.node[n].value), s.doc, x, "attrs")
        /\ \E S : u \in Seq(S) /\ s.attrs \in Seq(S)
        /\ u \o s.attrs = from.node[n].attrs

\* The first of what is left follows what there is.
LEMMA FirstLeft ==
    ASSUME NEW S, NEW u \in Seq(S), NEW v \in Seq(S), v # <<>>
    PROVE  /\ Append(u, Head(v)) \o Tail(v) = u \o v
           /\ Tail(v) \in Seq(S) /\ Append(u, Head(v)) \in Seq(S) /\ Len(Tail(v)) = Len(v) - 1
           /\ Len(u) + 1 \in DOMAIN (u \o v) /\ (u \o v)[Len(u) + 1] = Head(v)
           /\ \A i \in DOMAIN u : i \in DOMAIN (u \o v) /\ (u \o v)[i] = u[i] /\ i # Len(u) + 1
<1>1. /\ Head(v) \in S /\ Tail(v) \in Seq(S) /\ Len(Tail(v)) = Len(v) - 1 /\ Len(v) \in Nat /\ Len(v) > 0
      /\ v[1] = Head(v)
      /\ \A i \in 1 .. Len(v) - 1 : Tail(v)[i] = v[i + 1]
  OBVIOUS
<1> DEFINE w == Append(u, Head(v))
<1>2. /\ w \in Seq(S) /\ Len(w) = Len(u) + 1 /\ Len(u) \in Nat
      /\ w[Len(u) + 1] = Head(v) /\ \A i \in 1 .. Len(u) : w[i] = u[i]
  BY <1>1, AppendProperties
<1>3. /\ u \o v \in Seq(S) /\ Len(u \o v) = Len(u) + Len(v)
      /\ \A i \in 1 .. Len(u) + Len(v) : (u \o v)[i] = IF i <= Len(u) THEN u[i] ELSE v[i - Len(u)]
  BY ConcatProperties
<1> HIDE DEF w
<1> DEFINE r == Tail(v)
<1>4. /\ w \o r \in Seq(S) /\ Len(w \o r) = Len(w) + Len(r)
      /\ \A i \in 1 .. Len(w) + Len(r) : (w \o r)[i] = IF i <= Len(w) THEN w[i] ELSE r[i - Len(w)]
  BY <1>1, <1>2, ConcatProperties
<1>5. Len(w) + Len(r) = Len(u) + Len(v)
  BY <1>1, <1>2
<1> HIDE DEF r
<1>6. ASSUME NEW i \in 1 .. Len(u) + Len(v) PROVE (w \o r)[i] = (u \o v)[i]
  <2> DEFINE j == Len(u)
  <2>1. j \in Nat /\ i \in Nat /\ Len(v) \in Nat
    BY <1>1, <1>2
  <2>2. CASE i <= j
    <3>1. (w \o r)[i] = w[i] /\ (u \o v)[i] = u[i] /\ i \in 1 .. j
      BY <1>2, <1>3, <1>4, <1>5, <2>1, <2>2
    <3> QED
      BY <1>2, <3>1
  <2>3. CASE i = j + 1
    <3>1. (w \o r)[i] = w[i] /\ (u \o v)[i] = v[1]
      BY <1>2, <1>3, <1>4, <1>5, <2>1, <2>3
    <3> QED
      BY <1>1, <1>2, <2>3, <3>1
  <2>4. CASE i > j + 1
    <3>1. /\ (w \o r)[i] = r[i - (j + 1)] /\ (u \o v)[i] = v[i - j]
          /\ i - (j + 1) \in 1 .. Len(v) - 1 /\ i - (j + 1) + 1 = i - j
      BY <1>2, <1>3, <1>4, <1>5, <2>1, <2>4
    <3> QED
      BY <1>1, <3>1 DEF r
  <2>5. i <= j \/ i = j + 1 \/ i > j + 1
    <3> HIDE DEF j
    <3> QED
      BY <2>1
  <2> QED
    BY <2>2, <2>3, <2>4, <2>5
<1>7. w \o r = u \o v
  <2>1. DOMAIN (w \o r) = 1 .. Len(u) + Len(v) /\ DOMAIN (u \o v) = 1 .. Len(u) + Len(v)
    BY <1>3, <1>4, <1>5
  <2> QED
    BY <1>3, <1>4, <1>5, <1>6, SeqEqual
<1>8. /\ DOMAIN (u \o v) = 1 .. Len(u) + Len(v) /\ DOMAIN u = 1 .. Len(u)
      /\ Len(u) + 1 \in 1 .. Len(u) + Len(v) /\ (u \o v)[Len(u) + 1] = v[1]
  BY <1>1, <1>2, <1>3
<1>9. ASSUME NEW i \in DOMAIN u PROVE i \in DOMAIN (u \o v) /\ (u \o v)[i] = u[i] /\ i # Len(u) + 1
  <2>1. i \in 1 .. Len(u) /\ i \in 1 .. Len(u) + Len(v)
    BY <1>1, <1>2, <1>8
  <2> QED
    BY <1>2, <1>3, <1>8, <2>1
<1> QED
  BY <1>1, <1>2, <1>7, <1>8, <1>9 DEF r, w

LEMMA CopyAttributeKeeps ==
    ASSUME NEW from, NEW n, Named(from.node[n].attrs), Text(from.node[n].value),
           NEW d, Sane(d), NEW s, CopiedPart(from, n, d, s),
           s.attrs # <<>>
    PROVE  CopiedPart(from, n, d, CopyAttribute(s)) /\ Len(CopyAttribute(s).attrs) = Len(s.attrs) - 1
<1> DEFINE x == Fresh(d)
           c == CreateUnlinkedNode(d, from.node[n].kind, from.node[n].value)
           u == s.doc.node[x].attrs
           v == s.attrs
           e == SetAttribute(s.doc, x, Head(v).name, Head(v).value)
           t == CopyAttribute(s)
<1>1. /\ s = [doc |-> s.doc, copy |-> x, attrs |-> v] /\ Held(c, s.doc, x, "attrs")
      /\ u \o v = from.node[n].attrs
  BY DEF CopiedPart
<1>2. PICK S : u \in Seq(S) /\ v \in Seq(S)
  BY DEF CopiedPart
<1>3. x \in Nodes(c)
  BY CreateKeeps
<1> HIDE DEF c
<1>4. Sane(s.doc) /\ x \in Nodes(s.doc)
  BY <1>1, <1>3 DEF Held, Nodes
<1> HIDE DEF u
<1>5. /\ Append(u, Head(v)) \o Tail(v) = u \o v
      /\ Tail(v) \in Seq(S) /\ Append(u, Head(v)) \in Seq(S) /\ Len(Tail(v)) = Len(v) - 1
      /\ Len(u) + 1 \in DOMAIN (u \o v) /\ (u \o v)[Len(u) + 1] = Head(v)
      /\ \A i \in DOMAIN u : i \in DOMAIN (u \o v) /\ (u \o v)[i] = u[i] /\ i # Len(u) + 1
  BY <1>2, FirstLeft
<1>6. \A i \in DOMAIN u : u[i].name # Head(v).name
  BY <1>1, <1>5 DEF Named
<1>7. FindAttribute(s.doc, x, Head(v).name) = 0
  <2>1. Named(u)
    BY <1>4 DEF u, Sane, Tallied, Attributed
  <2> QED
    BY <1>6, <2>1, FoundIsThere DEF u
<1>8. /\ Held(s.doc, e, x, "attrs")
      /\ e.node[x].attrs = Append(u, [name |-> Head(v).name, value |-> Head(v).value])
  <2>1. e = AddAttribute(s.doc, x, Head(v).name, Head(v).value)
    BY <1>7 DEF SetAttribute
  <2> DEFINE a == from.node[n].attrs
             j == Len(u) + 1
  <2>3. j \in DOMAIN a /\ a[j] = Head(v)
    BY <1>1, <1>5
  <2>4. Text(Head(v).name) /\ Text(Head(v).value)
    BY <2>3 DEF Named
  <2> HIDE DEF e, x, v
  <2>2. Added(s.doc, e, x, Head(v).name, Head(v).value)
    BY <1>4, <1>7, <2>1, <2>4, AddAttributeKeeps
  <2> QED
    BY <2>2 DEF u, Added
<1>9. [name |-> Head(v).name, value |-> Head(v).value] = Head(v)
  <2> DEFINE a == from.node[n].attrs
             j == Len(u) + 1
  <2>1. j \in DOMAIN a /\ a[j] = Head(v)
    BY <1>1, <1>5
  <2>2. a[j] = [name |-> a[j].name, value |-> a[j].value]
    BY <2>1 DEF Named
  <2> HIDE DEF a, v
  <2> QED
    BY <2>1, <2>2
<1> HIDE DEF e
<1>10. t = [doc |-> e, copy |-> x, attrs |-> Tail(v)]
  <2>1. s.copy = x
    BY <1>1
  <2>2. t = [doc |-> SetAttribute(s.doc, s.copy, Head(s.attrs).name, Head(s.attrs).value),
             copy |-> s.copy, attrs |-> Tail(s.attrs)]
    BY DEF CopyAttribute
  <2> QED
    BY <2>1, <2>2 DEF e
<1> HIDE DEF t
<1>11. Held(c, e, x, "attrs")
  BY <1>1, <1>8 DEF Held
<1>12. CopiedPart(from, n, d, t)
  BY <1>1, <1>5, <1>8, <1>9, <1>10, <1>11 DEF CopiedPart, c
<1> QED
  BY <1>5, <1>10, <1>12 DEF t

\* ShallowClone gives a copy of the node, with its attributes, that lies under
\* nothing, and changes no other node (src/filter/lib/tinyxml/tinyxml.cpp:2104).
THEOREM ShallowCloneKeeps ==
    ASSUME NEW from, NEW n, Named(from.node[n].attrs), Text(from.node[n].value), NEW d, Sane(d)
    PROVE  LET e == ShallowClone(from, n, d)
           IN  Extending(d, e, Fresh(d)) /\ Copied(from.node[n], e.node[Fresh(d)])
<1> DEFINE x == Fresh(d)
           y == from.node[n]
           c == CreateUnlinkedNode(d, y.kind, y.value)
           start == [doc |-> c, copy |-> x, attrs |-> y.attrs]
           k == Len(y.attrs)
<1>1. /\ Sane(c) /\ Nodes(c) = Nodes(d) \cup {x} /\ x \notin DOMAIN d.node
      /\ c.node[x] = NewNode(y.kind, y.value)
      /\ \A m \in DOMAIN d.node : c.node[m] = d.node[m] /\ Apart(c, x, m)
  BY CreateKeeps
<1>2. PICK S : y.attrs \in Seq(S)
  BY DEF Named
<1>3. CopiedPart(from, n, d, start) /\ Len(start.attrs) = k /\ k \in Nat
  <2>1. c.node[x].attrs = <<>>
    BY <1>1 DEF NewNode
  <2>2. Held(c, c, x, "attrs")
    BY <1>1 DEF Held
  <2>3. <<>> \o y.attrs = y.attrs /\ <<>> \in Seq(S)
    BY <1>2
  <2>4. start = [doc |-> start.doc, copy |-> x, attrs |-> start.attrs] /\ start.doc = c
    OBVIOUS
  <2> HIDE DEF c
  <2> QED
    <3>1. CopiedPart(from, n, d, start)
      BY <1>2, <2>1, <2>2, <2>3, <2>4 DEF CopiedPart, c
    <3>2. Len(start.attrs) = k /\ k \in Nat
      BY <1>2
    <3> QED
      BY <3>1, <3>2
<1> HIDE DEF start, k
<1>4. PICK turn : /\ turn[0] = start /\ turn[k] = CopyingAttributes!Turns(start, k)
                  /\ \A i \in 1 .. k : turn[i] = CopyAttribute(turn[i - 1])
  <2>1. k \in Nat
    BY <1>3
  <2> QED
    BY <2>1, CopyingAttributes!TurnsFacts
<1> DEFINE T == {i \in 0 .. k : CopiedPart(from, n, d, turn[i]) /\ Len(turn[i].attrs) = k - i}
<1>5. 0 \in T
  BY <1>3, <1>4
<1>6. \A i \in 1 .. k : i - 1 \in T => i \in T
  <2> SUFFICES ASSUME NEW i \in 1 .. k, i - 1 \in T PROVE i \in T
    OBVIOUS
  <2>1. CopiedPart(from, n, d, turn[i - 1]) /\ Len(turn[i - 1].attrs) = k - (i - 1)
    OBVIOUS
  <2>2. turn[i - 1].attrs # <<>>
    BY <1>3, <2>1
  <2>3. CopiedPart(from, n, d, turn[i]) /\ Len(turn[i].attrs) = Len(turn[i - 1].attrs) - 1
    BY <1>4, <2>1, <2>2, CopyAttributeKeeps
  <2> QED
    BY <1>3, <2>1, <2>3
<1>7. k \in T
  <2> HIDE DEF T
  <2> QED
    BY <1>3, <1>5, <1>6, CopyingAttributes!UpTo
<1> DEFINE e == turn[k].doc
<1>8. Held(c, e, x, "attrs") /\ e.node[x].attrs = y.attrs
  <2>1. CopiedPart(from, n, d, turn[k]) /\ Len(turn[k].attrs) = 0
    BY <1>3, <1>7
  <2>2. PICK S1 : e.node[x].attrs \in Seq(S1) /\ turn[k].attrs \in Seq(S1)
    BY <2>1 DEF CopiedPart
  <2>3. \A u, v \in Seq(S1) : Len(v) = 0 => u \o v = u
    <3>1. \A v \in Seq(S1) : Len(v) = 0 => v = <<>>
      OBVIOUS
    <3>2. \A u \in Seq(S1) : u \o <<>> = u
      OBVIOUS
    <3> QED
      BY <3>1, <3>2, Zenon
  <2>4. e.node[x].attrs \o turn[k].attrs = y.attrs
    BY <2>1 DEF CopiedPart
  <2> QED
    BY <2>1, <2>2, <2>3, <2>4 DEF CopiedPart
<1>9. ShallowClone(from, n, d) = e
  BY <1>4 DEF ShallowClone, start, k
<1> HIDE DEF e, c
<1>10. DOMAIN c.node = DOMAIN d.node \cup {x} /\ x \in Nat /\ x \in DOMAIN c.node
  <2>1. Doc \in DOMAIN c.node /\ Doc \in DOMAIN d.node
    BY <1>1 DEF Sane, Linked
  <2>2. DOMAIN c.node \subseteq Nat
    BY <1>1 DEF Sane, Shaped
  <2> QED
    BY <1>1, <2>1, <2>2 DEF Nodes
<1>11. Copied(y, e.node[x])
  <2>1. /\ {"kind", "value"} \cup Pointing \subseteq Members \ {"attrs"}
    BY DEF Members, Pointing
  <2>2. c.node[x].kind = y.kind /\ c.node[x].value = y.value /\ \A f \in Pointing : c.node[x][f] = Nil
    BY <1>1 DEF NewNode, Pointing
  <2> QED
    BY <1>8, <2>1, <2>2 DEF Held, Copied
<1>12. Extending(d, e, x)
  <2>1. \A m \in DOMAIN d.node : e.node[m] = d.node[m]
    BY <1>1, <1>8, <1>10 DEF Held
  <2>2. \A m \in DOMAIN c.node : e.node[m].parent = c.node[m].parent
    <3>1. "parent" \in Members \ {"attrs"}
      BY DEF Members, Pointing
    <3> QED
      BY <1>8, <3>1 DEF Held
  <2>3. \A m : Apart(c, x, m) => Apart(e, x, m)
    BY <1>8, <2>2 DEF Apart, Held
  <2> QED
    BY <1>1, <1>8, <1>10, <2>1, <2>3 DEF Extending, Held
<1> QED
  BY <1>9, <1>11, <1>12

\* The pointers after a root was inserted as the last child.
LEMMA AppendsRoot ==
    ASSUME NEW d, Sane(d), NEW p \in DOMAIN d.node, NEW n \in Roots(d), Apart(d, n, p)
    PROVE  LET e == InsertEndChild(d, p, n)
           IN  /\ Sane(e) /\ Alike(d, e)
               /\ \A m \in DOMAIN d.node :
                    /\ e.node[m].parent = IF m = n THEN p ELSE d.node[m].parent
                    /\ e.node[m].first = IF m = p /\ d.node[p].last = Nil THEN n ELSE d.node[m].first
                    /\ e.node[m].last = IF m = p THEN n ELSE d.node[m].last
                    /\ e.node[m].next = IF m = n THEN Nil ELSE IF m = d.node[p].last THEN n ELSE d.node[m].next
                    /\ e.node[m].prev = IF m = n THEN d.node[p].last ELSE d.node[m].prev
<1> DEFINE c == SetTracked(MarkInUse(d, n), n)
           l == c.node[p].last
           d2 == IF l = Nil THEN Set(c, p, "first", n) ELSE Set(c, l, "next", n)
           e == Place(Set(d2, p, "last", n), n, p, l, Nil)
<1>1. InsertChildPreamble(d, n) = c /\ n \in Nodes(d)
  BY DEF InsertChildPreamble, Roots
<1>2. Floating(c, n) /\ DOMAIN c.node = DOMAIN d.node /\ Apart(c, n, p)
  BY <1>1, PreambleFloats
<1>3. c.node = d.node
  BY MarkedFacts
<1> HIDE DEF c
<1>4. Slot(c, p, l, Nil) /\ Joined(c, e, p, l, n, Nil)
  BY <1>2, JoinsAtEnd DEF Floating, Loose
<1>5. InsertEndChild(d, p, n) = e
  BY <1>1 DEF InsertEndChild
<1> HIDE DEF e, l
<1>6. Sane(e)
  BY <1>2, <1>4, JoinedIsSane
<1>7. l = d.node[p].last
  BY <1>3 DEF l
<1>8. Nil \notin DOMAIN d.node
  BY NilAssumption DEF Sane, Shaped
<1>9. Alike(d, e)
  BY <1>3, <1>4 DEF Joined, Alike
<1> QED
  BY <1>3, <1>4, <1>5, <1>6, <1>7, <1>8, <1>9 DEF Joined

\* e is d with more nodes, of which some may lie under root.
Growing(d, e, root) ==
    /\ Sane(e) /\ DOMAIN d.node \subseteq DOMAIN e.node
    /\ \A m \in DOMAIN d.node : \A f \in Members :
        m # root \/ f \notin {"first", "last"} => e.node[m][f] = d.node[m][f]

\* While the children of a node of document from are copied below root: the copies
\* whose children are being copied are new, and lie under nothing.
CopyUnderWay(from, d, root, s) ==
    /\ s = [from |-> from, doc |-> s.doc, open |-> s.open]
    /\ s.open \in Seq([copy : Nat, child : Nodes(from) \cup {Nil}]) /\ s.open # <<>>
    /\ s.open[1].copy = root
    /\ \A i \in 2 .. Len(s.open) : s.open[i].copy \in Roots(s.doc) \ DOMAIN d.node
    /\ \A i, j \in 1 .. Len(s.open) : s.open[i].copy = s.open[j].copy => i = j
    /\ Growing(d, s.doc, root)

LEMMA CopyChildKeeps ==
    ASSUME NEW from, Sane(from), NEW d, Sane(d), NEW root \in DOMAIN d.node, NEW s,
           CopyUnderWay(from, d, root, s), NEW c \in Nodes(from)
    PROVE  CopyUnderWay(from, d, root, CopyChild(s, c))
<1> DEFINE x == Fresh(s.doc)
           e == ShallowClone(from, c, s.doc)
           k == Len(s.open)
           S == [copy : Nat, child : Nodes(from) \cup {Nil}]
           moved == [s.open EXCEPT ![k] = [copy |-> Last(s.open).copy, child |-> from.node[c].next]]
           new == [copy |-> x, child |-> from.node[c].first]
           open == Append(moved, new)
           t == CopyChild(s, c)
<1>1. /\ s = [from |-> from, doc |-> s.doc, open |-> s.open] /\ s.open \in Seq(S) /\ k \in Nat /\ k > 0
      /\ s.open[1].copy = root /\ Growing(d, s.doc, root)
      /\ \A i \in 2 .. k : s.open[i].copy \in Roots(s.doc) \ DOMAIN d.node
      /\ \A i, j \in 1 .. k : s.open[i].copy = s.open[j].copy => i = j
  BY DEF CopyUnderWay
<1>2. /\ c \in DOMAIN from.node /\ from.node[c].next \in Nodes(from) \cup {Nil}
      /\ from.node[c].first \in Nodes(from) \cup {Nil} /\ Named(from.node[c].attrs) /\ Text(from.node[c].value)
  BY Pointers DEF Sane, Nodes, Tallied, Attributed
<1>3. Sane(s.doc) /\ DOMAIN d.node \subseteq DOMAIN s.doc.node
  BY <1>1 DEF Growing
<1>4. Extending(s.doc, e, x) /\ Copied(from.node[c], e.node[x])
  BY <1>2, <1>3, ShallowCloneKeeps
<1> HIDE DEF e, x
<1>5. x \in Nat /\ x \notin DOMAIN s.doc.node /\ x # root /\ x # Doc
  BY <1>3, <1>4 DEF Extending, Sane, Linked
<1>6. /\ moved \in Seq(S) /\ Len(moved) = k
      /\ \A i \in 1 .. k : moved[i].copy = s.open[i].copy
  <2> DEFINE y == [copy |-> Last(s.open).copy, child |-> from.node[c].next]
  <2>1. Last(s.open) = s.open[k] /\ s.open[k] \in S
    <3> HIDE DEF S
    <3> QED
      BY <1>1 DEF Last
  <2>2. y \in S /\ y.copy = s.open[k].copy
    BY <1>2, <2>1
  <2>3. moved = [s.open EXCEPT ![k] = y]
    OBVIOUS
  <2> HIDE DEF S, y, moved, k
  <2>4. \A i \in 1 .. k : moved[i] = IF i = k THEN y ELSE s.open[i]
    BY <1>1, <2>3 DEF k
  <2>5. moved \in Seq(S) /\ Len(moved) = k
    BY <1>1, <2>2, <2>3 DEF k
  <2> QED
    BY <2>2, <2>4, <2>5
<1> HIDE DEF moved
<1>7. /\ open \in Seq(S) /\ Len(open) = k + 1 /\ open # <<>> /\ open[k + 1] = new
      /\ \A i \in 1 .. k : open[i] = moved[i]
  <2>1. new \in S
    BY <1>2, <1>5
  <2> HIDE DEF new, S
  <2>2. /\ open \in Seq(S) /\ Len(open) = k + 1 /\ open[k + 1] = new
        /\ \A i \in 1 .. k : open[i] = moved[i]
    BY <1>1, <1>6, <2>1, AppendProperties
  <2>3. open # <<>>
    BY <1>1, <2>2
  <2> QED
    BY <2>2, <2>3
<1>8. \A i \in 1 .. k : open[i].copy = s.open[i].copy
  BY <1>6, <1>7
<1>9. open[k + 1].copy = x
  BY <1>7
<1>10. t = [from |-> from, doc |-> e, open |-> open]
  <2>1. s.from = from
    BY <1>1
  <2> QED
    BY <2>1 DEF CopyChild, e, x, open, moved, new
<1> HIDE DEF open, t, new
<1>11. Growing(d, e, root)
  BY <1>1, <1>4 DEF Growing, Extending
<1>12. \A i \in 2 .. k : s.open[i].copy \in Roots(e) \ DOMAIN d.node
  BY <1>1, <1>4 DEF Extending, Roots, Nodes
<1>13. x \in Roots(e) \ DOMAIN d.node
  BY <1>3, <1>4, <1>5 DEF Extending, Copied, Roots, Nodes, Pointing
<1>14. \A i \in 1 .. k : s.open[i].copy # x
  <2>1. \A i \in 2 .. k : s.open[i].copy \in DOMAIN s.doc.node
    BY <1>1 DEF Roots, Nodes
  <2>2. \A i \in 1 .. k : i = 1 \/ i \in 2 .. k
    BY <1>1
  <2> QED
    BY <1>1, <1>5, <2>1, <2>2
<1> HIDE DEF k, S
<1>15. \A i \in 1 .. k + 1 : i \in 1 .. k \/ i = k + 1
  BY <1>1
<1>16. \A i \in 2 .. k + 1 : open[i].copy \in Roots(e) \ DOMAIN d.node
  <2> SUFFICES ASSUME NEW i \in 2 .. k + 1 PROVE open[i].copy \in Roots(e) \ DOMAIN d.node
    OBVIOUS
  <2>1. (i \in 2 .. k /\ i \in 1 .. k) \/ i = k + 1
    BY <1>1
  <2> QED
    BY <1>8, <1>9, <1>12, <1>13, <2>1
<1>17. \A i, j \in 1 .. k + 1 : open[i].copy = open[j].copy => i = j
  BY <1>1, <1>8, <1>9, <1>14, <1>15
<1>18. open[1].copy = root
  BY <1>1, <1>8
<1> QED
  BY <1>7, <1>10, <1>11, <1>16, <1>17, <1>18 DEF CopyUnderWay, S, t

\* The root n of d was inserted as the last child of p.
Appended(d, e, p, n) ==
    LET l == d.node[p].last
    IN  /\ Sane(e) /\ Alike(d, e)
        /\ \A m \in DOMAIN d.node :
            /\ e.node[m].parent = IF m = n THEN p ELSE d.node[m].parent
            /\ e.node[m].first = IF m = p /\ l = Nil THEN n ELSE d.node[m].first
            /\ e.node[m].last = IF m = p THEN n ELSE d.node[m].last
            /\ e.node[m].next = IF m = n THEN Nil ELSE IF m = l THEN n ELSE d.node[m].next
            /\ e.node[m].prev = IF m = n THEN l ELSE d.node[m].prev

\* t is s after the innermost copy was inserted below the one that was open before it.
Returned(from, d, root, s, t) ==
    LET k == Len(s.open)
        p == s.open[k - 1].copy
        n == s.open[k].copy
    IN  /\ t = [from |-> from, doc |-> t.doc, open |-> t.open] /\ k \in Nat
        /\ t.open \in Seq([copy : Nat, child : Nodes(from) \cup {Nil}]) /\ t.open # <<>>
        /\ Len(t.open) = k - 1 /\ \A i \in 1 .. k - 1 : t.open[i] = s.open[i]
        /\ Appended(s.doc, t.doc, p, n)
        /\ n \in Roots(s.doc) /\ n \notin DOMAIN d.node /\ n # p
        /\ p \in DOMAIN s.doc.node /\ (p = root \/ p \in Roots(s.doc) \ DOMAIN d.node)

LEMMA CopyReturns ==
    ASSUME NEW from, NEW d, Sane(d), NEW root \in DOMAIN d.node,
           NEW s, CopyUnderWay(from, d, root, s), Last(s.open).child = Nil, Len(s.open) > 1
    PROVE  Returned(from, d, root, s, CopyTurn(s))
<1> DEFINE k == Len(s.open)
           S == [copy : Nat, child : Nodes(from) \cup {Nil}]
           m == Last(s.open)
           open == Front(s.open)
           p == s.open[k - 1].copy
           n == s.open[k].copy
           e == InsertEndChild(s.doc, p, n)
           t == CopyTurn(s)
<1>1. /\ s = [from |-> from, doc |-> s.doc, open |-> s.open] /\ s.open \in Seq(S) /\ k \in Nat /\ k > 1
      /\ s.open[1].copy = root /\ Growing(d, s.doc, root)
      /\ \A i \in 2 .. k : s.open[i].copy \in Roots(s.doc) \ DOMAIN d.node
      /\ \A i, j \in 1 .. k : s.open[i].copy = s.open[j].copy => i = j
  BY DEF CopyUnderWay
<1>2. m = s.open[k] /\ m.child = Nil
  BY DEF Last
<1>3. /\ open \in Seq(S) /\ Len(open) = k - 1 /\ \A i \in 1 .. k - 1 : open[i] = s.open[i]
  <2>1. open = SubSeq(s.open, 1, k - 1)
    BY DEF Front
  <2> HIDE DEF S, open, k
  <2>2. 1 \in 1 .. k + 1 /\ k - 1 \in 0 .. k /\ k - 1 \in Int
    BY <1>1
  <2> QED
    BY <1>1, <2>1, <2>2, SubSeqProperties DEF k
<1>4. Last(open) = s.open[k - 1] /\ open # <<>> /\ k - 1 \in 1 .. k
  <2>1. k - 1 \in 1 .. k - 1 /\ k - 1 \in 1 .. k
    BY <1>1
  <2>2. Last(open) = open[k - 1] /\ open # <<>>
    BY <1>3, <2>1 DEF Last
  <2> QED
    BY <1>3, <2>1, <2>2
<1>5. s.from = from
  BY <1>1
<1>6. t = [from |-> from, doc |-> e, open |-> open]
  BY <1>2, <1>4, <1>5 DEF CopyTurn, CopyTurnWith
<1> HIDE DEF open, e, t
<1>7. Sane(s.doc) /\ DOMAIN d.node \subseteq DOMAIN s.doc.node
  BY <1>1 DEF Growing
<1>8. n \in Roots(s.doc) /\ n \notin DOMAIN d.node /\ n # p /\ n \in DOMAIN s.doc.node
  <2>1. k \in 2 .. k /\ k \in 1 .. k /\ k # k - 1
    BY <1>1
  <2>2. n \in Roots(s.doc) /\ n \notin DOMAIN d.node
    BY <1>1, <2>1
  <2>3. n # p
    BY <1>1, <1>4, <2>1
  <2> QED
    BY <2>2, <2>3 DEF Roots, Nodes
<1>9. p = root \/ p \in Roots(s.doc) \ DOMAIN d.node
  <2> HIDE DEF k
  <2>1. k - 1 = 1 \/ k - 1 \in 2 .. k
    BY <1>1
  <2>2. s.open[1].copy = root /\ \A i \in 2 .. k : s.open[i].copy \in Roots(s.doc) \ DOMAIN d.node
    BY <1>1
  <2> QED
    BY <2>1, <2>2
<1>10. p \in DOMAIN s.doc.node /\ Apart(s.doc, n, p)
  <2>1. CASE p = root
    <3> DEFINE A == DOMAIN d.node
    <3>1. \A a \in A : s.doc.node[a].parent = d.node[a].parent
      BY <1>1 DEF Growing, Members, Pointing
    <3>2. \A a \in A : d.node[a].parent \in A \cup {Nil}
      BY Pointers DEF Sane
    <3>3. A \in SUBSET (DOMAIN s.doc.node \ {n}) /\ p \in A
      BY <1>7, <1>8, <2>1
    <3> QED
      BY <3>1, <3>2, <3>3 DEF Apart
  <2>2. CASE p \in Roots(s.doc)
    <3>1. p \in DOMAIN s.doc.node /\ s.doc.node[p].parent = Nil
      BY <2>2 DEF Roots, Nodes
    <3>2. {p} \in SUBSET (DOMAIN s.doc.node \ {n})
      BY <1>8, <3>1
    <3> QED
      BY <3>1, <3>2 DEF Apart
  <2> QED
    BY <1>9, <2>1, <2>2
<1>11. Appended(s.doc, e, p, n)
  <2> HIDE DEF n, p
  <2> QED
    BY <1>7, <1>8, <1>10, AppendsRoot DEF e, Appended
<1>12. t.doc = e /\ t.open = open /\ t = [from |-> from, doc |-> t.doc, open |-> t.open]
  BY <1>6
<1> HIDE DEF k, n, p
<1> QED
  BY <1>1, <1>3, <1>4, <1>8, <1>9, <1>10, <1>11, <1>12 DEF k, n, p, t, S, Returned

LEMMA CopyTurnKeeps ==
    ASSUME NEW from, Sane(from), NEW d, Sane(d), NEW root \in DOMAIN d.node, d.node[root].last = Nil,
           NEW s, CopyUnderWay(from, d, root, s)
    PROVE  CopyUnderWay(from, d, root, CopyTurn(s))
<1> DEFINE k == Len(s.open)
           S == [copy : Nat, child : Nodes(from) \cup {Nil}]
           m == Last(s.open)
<1>1. /\ s = [from |-> from, doc |-> s.doc, open |-> s.open] /\ s.open \in Seq(S) /\ k \in Nat /\ k > 0
      /\ s.open[1].copy = root /\ Growing(d, s.doc, root)
      /\ \A i \in 2 .. k : s.open[i].copy \in Roots(s.doc) \ DOMAIN d.node
      /\ \A i, j \in 1 .. k : s.open[i].copy = s.open[j].copy => i = j
  BY DEF CopyUnderWay
<1>2. m = s.open[k] /\ m \in S /\ m.child \in Nodes(from) \cup {Nil}
  <2>1. m = s.open[k] /\ m \in S
    <3> HIDE DEF S
    <3> QED
      BY <1>1 DEF Last
  <2>2. \A y \in S : y.child \in Nodes(from) \cup {Nil}
    OBVIOUS
  <2> HIDE DEF S, m
  <2> QED
    BY <2>1, <2>2
<1>3. CASE m.child # Nil
  <2>1. m.child \in Nodes(from)
    BY <1>2, <1>3
  <2>2. CopyTurn(s) = CopyChild(s, m.child)
    BY <1>3 DEF CopyTurn, CopyTurnWith
  <2> QED
    BY <2>1, <2>2, CopyChildKeeps
<1>4. CASE m.child = Nil /\ ~(k > 1)
  <2>1. CopyTurn(s) = s
    BY <1>4 DEF CopyTurn, CopyTurnWith
  <2> QED
    BY <2>1
<1>5. CASE m.child = Nil /\ k > 1
  <2> DEFINE p == s.open[k - 1].copy
             n == s.open[k].copy
             t == CopyTurn(s)
             e == t.doc
             open == t.open
             l == s.doc.node[p].last
  <2>1. /\ t = [from |-> from, doc |-> e, open |-> open] /\ open \in Seq(S) /\ open # <<>>
        /\ Len(open) = k - 1 /\ \A i \in 1 .. k - 1 : open[i] = s.open[i]
        /\ Appended(s.doc, e, p, n)
        /\ n \in Roots(s.doc) /\ n \notin DOMAIN d.node /\ n # p
        /\ p \in DOMAIN s.doc.node /\ (p = root \/ p \in Roots(s.doc) \ DOMAIN d.node)
    <3>1. Returned(from, d, root, s, t)
      BY <1>5, CopyReturns
    <3> HIDE DEF t
    <3> QED
      BY <3>1 DEF Returned
  <2>2. Sane(s.doc) /\ DOMAIN d.node \subseteq DOMAIN s.doc.node
    BY <1>1 DEF Growing
  <2>3. /\ Sane(e) /\ Alike(s.doc, e)
        /\ \A a \in DOMAIN s.doc.node :
            /\ e.node[a].parent = IF a = n THEN p ELSE s.doc.node[a].parent
            /\ e.node[a].first = IF a = p /\ l = Nil THEN n ELSE s.doc.node[a].first
            /\ e.node[a].last = IF a = p THEN n ELSE s.doc.node[a].last
            /\ e.node[a].next = IF a = n THEN Nil ELSE IF a = l THEN n ELSE s.doc.node[a].next
            /\ e.node[a].prev = IF a = n THEN l ELSE s.doc.node[a].prev
    BY <2>1 DEF Appended
  <2> HIDE DEF e, open, t
  <2>4. l \notin DOMAIN d.node
    <3>1. Nil \notin DOMAIN d.node
      BY NilAssumption DEF Sane, Shaped
    <3>2. l # Nil => s.doc.node[l].parent = p
      BY <2>2, <2>1 DEF Sane, Linked, Child
    <3>3. \A a \in DOMAIN d.node : d.node[a].parent # root
      <4>1. d.node[root].first = Nil
        BY DEF Sane, Linked
      <4> QED
        BY <4>1, NoChildren DEF Sane
    <3>4. \A a \in DOMAIN d.node : s.doc.node[a].parent = d.node[a].parent
      BY <1>1 DEF Growing, Members, Pointing
    <3>5. \A a \in DOMAIN d.node : d.node[a].parent \in DOMAIN d.node \cup {Nil}
      BY Pointers DEF Sane
    <3>6. p # Nil
      BY <2>1, <2>2, NilAssumption DEF Sane, Shaped
    <3> QED
      BY <2>1, <3>1, <3>2, <3>3, <3>4, <3>5, <3>6
  <2>5. Growing(d, e, root)
    <3>1. DOMAIN e.node = DOMAIN s.doc.node
      BY <2>3 DEF Alike
    <3> SUFFICES ASSUME NEW a \in DOMAIN d.node, NEW f \in Members, a # root \/ f \notin {"first", "last"}
                 PROVE  e.node[a][f] = s.doc.node[a][f]
      BY <1>1, <2>3, <3>1 DEF Growing
    <3>2. a \in DOMAIN s.doc.node /\ a # n /\ a # l
      BY <2>2, <2>1, <2>4
    <3>3. a # root => a # p
      BY <2>1
    <3> HIDE DEF l, n, p
    <3>4. CASE f \in Members \ Pointing
      BY <2>3, <3>2, <3>4 DEF Alike
    <3>5. CASE f \in {"parent", "prev", "next"}
      BY <2>3, <3>2, <3>5
    <3>6. CASE f \in {"first", "last"}
      BY <2>3, <3>2, <3>3, <3>6
    <3> QED
      BY <3>4, <3>5, <3>6 DEF Members, Pointing
  <2>6. \A i \in 2 .. k - 1 : s.open[i].copy \in Roots(e) \ DOMAIN d.node
    <3> SUFFICES ASSUME NEW i \in 2 .. k - 1 PROVE s.open[i].copy \in Roots(e) \ DOMAIN d.node
      OBVIOUS
    <3>1. i \in 2 .. k /\ i \in 1 .. k /\ k \in 1 .. k /\ i # k
      BY <1>1
    <3> DEFINE a == s.open[i].copy
    <3>2. a \in Roots(s.doc) \ DOMAIN d.node /\ a # n
      BY <1>1, <3>1
    <3> HIDE DEF a, l, n, p
    <3> QED
      BY <2>3, <3>2 DEF a, Roots, Nodes, Alike
  <2>7. 1 .. k - 1 \subseteq 1 .. k /\ 2 .. k - 1 \subseteq 1 .. k - 1 /\ 1 \in 1 .. k - 1 /\ k - 1 \in Nat
    BY <1>1, <1>5
  <2>8. \A i \in 1 .. k - 1 : open[i].copy = s.open[i].copy
    BY <2>1
  <2> HIDE DEF k, S, n, p, l
  <2>9. /\ open[1].copy = root
        /\ \A i \in 2 .. k - 1 : open[i].copy \in Roots(e) \ DOMAIN d.node
        /\ \A i, j \in 1 .. k - 1 : open[i].copy = open[j].copy => i = j
    BY <1>1, <2>6, <2>7, <2>8
  <2>10. CopyUnderWay(from, d, root, t)
    BY <2>1, <2>5, <2>9 DEF CopyUnderWay, S
  <2> QED
    BY <2>10 DEF t
<1> QED
  BY <1>1, <1>3, <1>4, <1>5

LEMMA CopyStarts ==
    ASSUME NEW from, Sane(from), NEW n \in DOMAIN from.node, NEW d, Sane(d), NEW root \in DOMAIN d.node
    PROVE  CopyUnderWay(from, d, root,
                        [from |-> from, doc |-> d, open |-> <<[copy |-> root, child |-> from.node[n].first]>>])
<1> DEFINE first == [copy |-> root, child |-> from.node[n].first]
           start == [from |-> from, doc |-> d, open |-> <<first>>]
           S == [copy : Nat, child : Nodes(from) \cup {Nil}]
<1>1. first \in S
  BY Pointers DEF Sane, Shaped
<1>2. start.open \in Seq(S) /\ start.open # <<>> /\ Len(start.open) = 1 /\ start.open[1].copy = root
  <2> HIDE DEF S
  <2> QED
    BY <1>1
<1>3. start = [from |-> from, doc |-> start.doc, open |-> start.open] /\ start.doc = d
  OBVIOUS
<1>4. Growing(d, d, root)
  BY DEF Growing
<1> HIDE DEF start, S
<1>5. \A i, j \in 1 .. Len(start.open) : i = j
  BY <1>2
<1>6. \A i \in 2 .. Len(start.open) : FALSE
  BY <1>2
<1>7. CopyUnderWay(from, d, root, start)
  BY <1>2, <1>3, <1>4, <1>5, <1>6 DEF CopyUnderWay, S
<1> QED
  BY <1>7 DEF start

\* While children are copied below a node without any, the document stays sane and
\* every other node as it was.
THEOREM CopyChildrenKeeps ==
    ASSUME NEW from, Sane(from), NEW n \in DOMAIN from.node,
           NEW d, Sane(d), NEW root \in DOMAIN d.node, d.node[root].last = Nil
    PROVE  Growing(d, CopyChildren(from, n, d, root), root)
<1> DEFINE first == [copy |-> root, child |-> from.node[n].first]
           start == [from |-> from, doc |-> d, open |-> <<first>>]
           k == 2 * Cardinality(DOMAIN from.node)
<1>1. k \in Nat
  BY FS_CardinalityType DEF Sane, Shaped
<1>2. CopyUnderWay(from, d, root, start)
  BY CopyStarts
<1> HIDE DEF start, k
<1>3. PICK turn : /\ turn[0] = start /\ turn[k] = Copying!Turns(start, k)
                  /\ \A i \in 1 .. k : turn[i] = CopyTurn(turn[i - 1])
  BY <1>1, Copying!TurnsFacts
<1> DEFINE T == {i \in 0 .. k : CopyUnderWay(from, d, root, turn[i])}
<1>4. 0 \in T
  BY <1>1, <1>2, <1>3
<1>5. \A i \in 1 .. k : i - 1 \in T => i \in T
  <2> SUFFICES ASSUME NEW i \in 1 .. k, i - 1 \in T PROVE i \in T
    OBVIOUS
  <2>1. CopyUnderWay(from, d, root, turn[i - 1])
    OBVIOUS
  <2> HIDE DEF T
  <2>2. CopyUnderWay(from, d, root, turn[i])
    BY <1>3, <2>1, CopyTurnKeeps
  <2>3. i \in 0 .. k
    BY <1>1
  <2> QED
    BY <2>2, <2>3 DEF T
<1>6. k \in T
  <2> HIDE DEF T
  <2> QED
    BY <1>1, <1>4, <1>5, Copying!UpTo
<1>7. CopyChildren(from, n, d, root) = turn[k].doc
  BY <1>3 DEF CopyChildren, start, k
<1> QED
  BY <1>6, <1>7 DEF CopyUnderWay

\* DeepClone keeps the document sane, changes none of the nodes that it finds, and
\* returns a new node that lies under nothing
\* (src/filter/lib/tinyxml/tinyxml.cpp:865).
THEOREM DeepCloneKeeps ==
    ASSUME NEW from, Sane(from), NEW n \in Nodes(from), NEW d, Sane(d)
    PROVE  LET e == DeepClone(from, n, d)
               x == e.node[Fresh(d)]
           IN  /\ Sane(e) /\ DOMAIN d.node \subseteq DOMAIN e.node
               /\ \A m \in DOMAIN d.node : e.node[m] = d.node[m]
               /\ Fresh(d) \in Roots(e) /\ Fresh(d) \notin DOMAIN d.node
               /\ \A f \in {"kind", "value", "attrs"} : x[f] = from.node[n][f]
<1> DEFINE c == ShallowClone(from, n, d)
           x == Fresh(d)
           e == CopyChildren(from, n, c, x)
<1>1. Extending(d, c, x) /\ Copied(from.node[n], c.node[x])
  BY ShallowCloneKeeps DEF Sane, Tallied, Attributed
<1>2. DeepClone(from, n, d) = e
  BY DEF DeepClone
<1> HIDE DEF c, x
<1>3. Sane(c) /\ x \in DOMAIN c.node /\ c.node[x].last = Nil /\ n \in DOMAIN from.node
  BY <1>1 DEF Extending, Copied, Pointing, Nodes
<1>4. Growing(c, e, x)
  BY <1>3, CopyChildrenKeeps
<1> HIDE DEF e
<1>5. Sane(e) /\ DOMAIN d.node \subseteq DOMAIN e.node /\ x \in DOMAIN e.node /\ x \notin DOMAIN d.node
  BY <1>1, <1>4 DEF Growing, Extending
<1>6. ASSUME NEW m \in DOMAIN d.node PROVE e.node[m] = d.node[m]
  <2>1. /\ m \in DOMAIN c.node /\ m # x /\ c.node[m] = d.node[m]
        /\ \A f \in Members : e.node[m][f] = c.node[m][f]
    BY <1>1, <1>4 DEF Growing, Extending
  <2>2. e.node[m] = [f \in Members |-> e.node[m][f]] /\ c.node[m] = [f \in Members |-> c.node[m][f]]
    BY <1>3, <1>5, <2>1 DEF Sane, Shaped
  <2> QED
    BY <2>1, <2>2
<1>7. \A f \in {"kind", "value", "attrs", "parent"} : e.node[x][f] = c.node[x][f]
  BY <1>3, <1>4 DEF Growing, Members, Pointing
<1>8. \A f \in {"kind", "value", "attrs"} : e.node[x][f] = from.node[n][f]
  BY <1>1, <1>7 DEF Copied
<1>9. x \in Roots(e)
  <2>1. c.node[x].parent = Nil
    BY <1>1 DEF Copied, Pointing
  <2>2. Doc \in DOMAIN d.node
    BY DEF Sane, Linked
  <2> QED
    BY <1>5, <1>7, <2>1, <2>2 DEF Roots, Nodes
<1> QED
  BY <1>2, <1>5, <1>6, <1>8, <1>9 DEF x

\* DeepCopy keeps the document sane (src/filter/lib/tinyxml/tinyxml.cpp:2258).
THEOREM DeepCopyKeeps ==
    ASSUME NEW from, Sane(from), NEW d, Sane(d)
    PROVE  Sane(DeepCopy(from, d))
<1>1. Sane(Clear(d)) /\ Doc \in DOMAIN Clear(d).node /\ Clear(d).node[Doc].last = Nil
  <2> DEFINE c == Clear(d)
  <2>1. Sane(c) /\ Nodes(c) = {}
    BY ClearKeeps
  <2> HIDE DEF c
  <2>2. Doc \in DOMAIN c.node
    BY <2>1 DEF Sane, Linked
  <2>3. c.node[Doc].last \in Nodes(c) \cup {Nil}
    BY <2>1, <2>2, Pointers DEF Sane
  <2> QED
    BY <2>1, <2>2, <2>3 DEF c
<1>2. Doc \in DOMAIN from.node
  BY DEF Sane, Linked
<1> QED
  BY <1>1, <1>2, CopyChildrenKeeps DEF DeepCopy, Growing

(***************************************************************************)
(* Copies are equal.  While the children of node n of document from are    *)
(* copied: C are the nodes of it that have a copy, n and some below it, g  *)
(* maps them to their copies, D are those of them whose copies were        *)
(* inserted, and src are the others, whose children are being copied, the  *)
(* innermost last.                                                         *)
(***************************************************************************)
Image(g, D, m) == IF m \in D THEN g[m] ELSE Nil

Copies(from, n, e, C, g) ==
    /\ n \in C /\ C \subseteq {n} \cup Under(from, n)
    /\ g \in [C -> DOMAIN e.node] /\ \A a, b \in C : g[a] = g[b] => a = b
    /\ \A m \in C \ {n} : \A f \in {"kind", "value", "attrs"} : e.node[g[m]][f] = from.node[m][f]

\* Nodes are copied after their parent and inserted after the node before them and
\* all that is below them.
Finished(from, n, C, D) ==
    /\ D \subseteq C \ {n}
    /\ \A m \in C \ {n} : from.node[m].parent \in C /\ from.node[m].prev \in D \cup {Nil}
    /\ \A m \in Nodes(from) : from.node[m].parent \in D => m \in D

\* The copies of D are linked as their nodes are.
Hung(from, e, C, D, g) ==
    /\ \A m \in C : e.node[g[m]].first = Image(g, D, from.node[m].first)
    /\ \A m \in D : e.node[g[m]].next = Image(g, D, from.node[m].next)

\* c is the child of p to copy next, or there is none: the others have been copied
\* or come after one that has not.
Ahead(from, C, p, c) ==
    /\ c # Nil => c \notin C /\ Child(from, c, p) /\ from.node[c].prev \in C \cup {Nil}
    /\ \A m \in Nodes(from) :
        from.node[m].parent = p /\ m \notin C /\ m # c => from.node[m].prev \notin C \cup {Nil}

Settled(C, src) == C \ {src[i] : i \in 1 .. Len(src)}

Pending(from, n, C, g, src, open) ==
    /\ src \in Seq(C) /\ Len(src) = Len(open) /\ src[1] = n /\ src # <<>>
    /\ \A i, j \in 1 .. Len(src) : src[i] = src[j] => i = j
    /\ \A i \in 2 .. Len(src) :
        from.node[src[i]].parent = src[i - 1] /\ open[i - 1].child = from.node[src[i]].next
    /\ \A i \in 1 .. Len(src) : open[i].copy = g[src[i]] /\ Ahead(from, C, src[i], open[i].child)

\* The node whose copy was inserted last below the copy of src[i].
Newest(from, src, open, i) ==
    IF i < Len(src) THEN from.node[src[i + 1]].prev
    ELSE IF open[i].child # Nil THEN from.node[open[i].child].prev
    ELSE from.node[src[i]].last

Mirroring(from, n, s, C, g, src) ==
    /\ Copies(from, n, s.doc, C, g) /\ Pending(from, n, C, g, src, s.open)
    /\ Finished(from, n, C, Settled(C, src)) /\ Hung(from, s.doc, C, Settled(C, src), g)
    /\ \A i \in 1 .. Len(src) : s.doc.node[g[src[i]]].last = Image(g, C, Newest(from, src, s.open, i))

\* Nodes that all have one before them, of their own, are none.
LEMMA NoHead ==
    ASSUME NEW d, Sane(d), NEW X \in SUBSET DOMAIN d.node, \A m \in X : d.node[m].prev \in X
    PROVE  X = {}
<1> SUFFICES ASSUME X # {} PROVE FALSE
  OBVIOUS
<1>1. PICK place \in [DOMAIN d.node -> Int] :
        \A m \in DOMAIN d.node : d.node[m].next # Nil => place[m] < place[d.node[m].next]
  BY DEF Sane, Ordered
<1>2. IsFiniteSet(X) /\ Nil \notin DOMAIN d.node
  BY FS_Subset, NilAssumption DEF Sane, Shaped
<1>3. PICK m \in X : \A k \in X : place[m] <= place[k]
  <2>1. \A k \in X : place[k] \in Int
    BY <1>1
  <2> QED
    BY <1>2, <2>1, LeastOf
<1> DEFINE k == d.node[m].prev
<1>4. k \in X /\ k \in DOMAIN d.node /\ d.node[k].next = m /\ m # Nil
  BY <1>2, <1>3 DEF Sane, Linked
<1>5. place[k] < place[m] /\ place[m] <= place[k] /\ place[k] \in Int /\ place[m] \in Int
  BY <1>1, <1>3, <1>4
<1> QED
  BY <1>5

\* A child of a copied node lies below n.
LEMMA ChildBelow ==
    ASSUME NEW from, Sane(from), NEW n \in DOMAIN from.node, NEW C, C \subseteq {n} \cup Under(from, n),
           NEW m \in DOMAIN from.node, from.node[m].parent \in C
    PROVE  m \in Under(from, n) /\ m # n /\ m \in Nodes(from)
<1>1. Encloses(from, n, Under(from, n))
  BY UnderEncloses DEF Sane
<1> QED
  BY <1>1 DEF Encloses

\* Children of the innermost are not among those whose children are being copied.
LEMMA NotOpen ==
    ASSUME NEW from, Sane(from), NEW n \in DOMAIN from.node, NEW e, NEW C, NEW g, Copies(from, n, e, C, g),
           NEW src, NEW open, Pending(from, n, C, g, src, open),
           NEW y \in DOMAIN from.node, from.node[y].parent = src[Len(src)]
    PROVE  \A i \in 1 .. Len(src) : src[i] # y
<1> DEFINE k == Len(src)
<1> SUFFICES ASSUME NEW i \in 1 .. k, src[i] = y PROVE FALSE
  OBVIOUS
<1>1. src \in Seq(C) /\ k \in Nat /\ k \in 1 .. k /\ src[k] \in C
  BY DEF Pending
<1>2. y # n
  BY <1>1, ChildBelow DEF Copies
<1>3. i \in 2 .. k
  BY <1>1, <1>2 DEF Pending
<1>4. src[i - 1] = src[k] /\ i - 1 \in 1 .. k
  BY <1>1, <1>3 DEF Pending
<1>5. i - 1 = k
  BY <1>1, <1>4 DEF Pending
<1> QED
  BY <1>1, <1>5

LEMMA AllCopied ==
    ASSUME NEW from, Sane(from), NEW C, NEW p \in DOMAIN from.node, Ahead(from, C, p, Nil)
    PROVE  \A m \in Nodes(from) : from.node[m].parent = p => m \in C
<1> DEFINE X == {m \in Nodes(from) : from.node[m].parent = p /\ m \notin C}
<1>1. Nil \notin DOMAIN from.node
  BY NilAssumption DEF Sane, Shaped
<1>2. X \in SUBSET DOMAIN from.node
  BY DEF Nodes
<1>3. ASSUME NEW m \in X PROVE from.node[m].prev \in X
  <2> DEFINE q == from.node[m].prev
  <2>1. q \notin C \cup {Nil}
    BY <1>1 DEF Ahead, Nodes
  <2>2. Child(from, q, p)
    BY <2>1 DEF Sane, Linked, Nodes
  <2> QED
    BY <2>1, <2>2 DEF Child
<1>4. X = {}
  <2> HIDE DEF X
  <2> QED
    BY <1>2, <1>3, NoHead
<1> QED
  BY <1>4

\* The calls under way after a child was copied.
LEMMA ChildOpens ==
    ASSUME NEW from, Sane(from), NEW d, NEW root, NEW s, CopyUnderWay(from, d, root, s), NEW c \in Nodes(from)
    PROVE  LET t == CopyChild(s, c)
               k == Len(s.open)
           IN  /\ t.doc = ShallowClone(from, c, s.doc) /\ Len(t.open) = k + 1 /\ k \in Nat \ {0}
               /\ Last(s.open) = s.open[k]
               /\ t.open[k + 1].copy = Fresh(s.doc) /\ t.open[k + 1].child = from.node[c].first
               /\ \A i \in 1 .. k :
                    /\ t.open[i].copy = s.open[i].copy
                    /\ t.open[i].child = IF i = k THEN from.node[c].next ELSE s.open[i].child
<1> DEFINE S == [copy : Nat, child : Nodes(from) \cup {Nil}]
           k == Len(s.open)
           l == Last(s.open).copy
           y == [copy |-> l, child |-> from.node[c].next]
           moved == [s.open EXCEPT ![k] = y]
           new == [copy |-> Fresh(s.doc), child |-> from.node[c].first]
           t == CopyChild(s, c)
<1>1. s.open \in Seq(S) /\ k \in Nat \ {0} /\ s.from = from
  BY DEF CopyUnderWay
<1>2. Last(s.open) = s.open[k] /\ s.open[k] \in S
  <2> HIDE DEF S
  <2> QED
    BY <1>1 DEF Last
<1>3. t = [from |-> from, doc |-> ShallowClone(from, c, s.doc), open |-> Append(moved, new)]
  BY <1>1 DEF CopyChild
<1>4. y \in S /\ y.copy = s.open[k].copy /\ y.child = from.node[c].next
  <2>1. from.node[c].next \in Nodes(from) \cup {Nil}
    BY Pointers DEF Sane, Nodes
  <2> QED
    BY <1>2, <2>1
<1>5. new.copy = Fresh(s.doc) /\ new.child = from.node[c].first
  OBVIOUS
<1> HIDE DEF S, y, new, t, l
<1>6. moved \in Seq(S) /\ Len(moved) = k /\ \A i \in 1 .. k : moved[i] = IF i = k THEN y ELSE s.open[i]
  BY <1>1, <1>4
<1> HIDE DEF moved
<1>7. moved \in Seq(S \cup {new})
  BY <1>6
<1>8. /\ Len(Append(moved, new)) = k + 1 /\ Append(moved, new)[k + 1] = new
      /\ \A i \in 1 .. k : Append(moved, new)[i] = moved[i]
  BY <1>6, <1>7, AppendProperties
<1>9. t.open = Append(moved, new) /\ t.doc = ShallowClone(from, c, s.doc)
  BY <1>3
<1> HIDE DEF k
<1> QED
  BY <1>1, <1>2, <1>4, <1>5, <1>6, <1>8, <1>9 DEF k, t

\* What is ahead after the next child c of p was copied: of another node, of p and
\* of c.
LEMMA AheadOfOthers ==
    ASSUME NEW from, Sane(from), NEW C, NEW p, NEW c, Ahead(from, C, p, c), c # Nil,
           NEW q \in DOMAIN from.node, q # p, NEW a, Ahead(from, C, q, a)
    PROVE  Ahead(from, C \cup {c}, q, a)
<1>1. c \notin C /\ c \in Nodes(from) /\ from.node[c].parent = p
  BY DEF Ahead, Child
<1>2. a # Nil => a # c
  BY <1>1 DEF Ahead, Child
<1>3. ASSUME NEW m \in Nodes(from), from.node[m].parent = q, m \notin C \cup {c}, m # a
      PROVE  from.node[m].prev \notin C \cup {c, Nil}
  <2>1. from.node[m].prev \notin C \cup {Nil}
    BY <1>3 DEF Ahead
  <2>2. from.node[m].prev # c
    BY <1>1, <1>3, <2>1 DEF Sane, Linked, Child, Nodes
  <2> QED
    BY <2>1, <2>2
<1> QED
  BY <1>2, <1>3 DEF Ahead

LEMMA AheadAfter ==
    ASSUME NEW from, Sane(from), NEW n \in DOMAIN from.node, NEW e, NEW C, NEW g, Copies(from, n, e, C, g),
           NEW D, Finished(from, n, C, D), NEW p \in C, NEW c, Ahead(from, C, p, c), c # Nil
    PROVE  Ahead(from, C \cup {c}, p, from.node[c].next)
<1> DEFINE a == from.node[c].next
<1>1. /\ c \notin C /\ c \in Nodes(from) /\ from.node[c].parent = p /\ from.node[c].prev \in C \cup {Nil}
      /\ C \subseteq {n} \cup Under(from, n) /\ D \subseteq C
  BY DEF Ahead, Child, Copies, Finished
<1>2. Nil \notin DOMAIN from.node /\ c \in DOMAIN from.node
  BY <1>1, NilAssumption DEF Sane, Shaped, Nodes
<1>3. a # Nil => Child(from, a, p) /\ from.node[a].prev = c
  BY <1>1, <1>2 DEF Sane, Linked
<1>4. a # Nil => a \notin C
  <2>0. SUFFICES ASSUME a # Nil, a \in C PROVE FALSE
    OBVIOUS
  <2>1. a \in DOMAIN from.node /\ from.node[a].parent \in C
    BY <1>3, <2>0 DEF Child, Nodes
  <2>2. a # n
    BY <1>1, <2>1, ChildBelow
  <2>3. c \in D \cup {Nil}
    BY <1>3, <2>0, <2>2 DEF Finished
  <2> QED
    BY <1>1, <1>2, <2>3
<1>5. a # c
  BY <1>1, <1>2, <1>3
<1>6. ASSUME NEW m \in Nodes(from), from.node[m].parent = p, m \notin C \cup {c}, m # a
      PROVE  from.node[m].prev \notin C \cup {c, Nil}
  <2>1. from.node[m].prev \notin C \cup {Nil}
    BY <1>6 DEF Ahead
  <2>2. from.node[m].prev # c
    BY <1>6, <2>1 DEF Sane, Linked, Nodes
  <2> QED
    BY <2>1, <2>2
<1> HIDE DEF a
<1> QED
  BY <1>3, <1>4, <1>5, <1>6 DEF Ahead, a

LEMMA AheadOfNew ==
    ASSUME NEW from, Sane(from), NEW n \in DOMAIN from.node, NEW e, NEW C, NEW g, Copies(from, n, e, C, g),
           NEW D, Finished(from, n, C, D), NEW p \in C, NEW c, Ahead(from, C, p, c), c # Nil
    PROVE  /\ Ahead(from, C \cup {c}, c, from.node[c].first)
           /\ \A m \in Nodes(from) : from.node[m].parent = c => m \notin C \cup {c}
<1> DEFINE a == from.node[c].first
<1>1. /\ c \notin C /\ c \in Nodes(from) /\ from.node[c].parent = p
      /\ C \subseteq {n} \cup Under(from, n)
  BY DEF Ahead, Child, Copies
<1>2. Nil \notin DOMAIN from.node /\ c \in DOMAIN from.node
  BY <1>1, NilAssumption DEF Sane, Shaped, Nodes
<1>3. a # Nil => Child(from, a, c) /\ from.node[a].prev = Nil
  BY <1>2 DEF Sane, Linked
<1>4. c \in Under(from, n) /\ c # n
  BY <1>1, <1>2, ChildBelow
<1>5. ASSUME NEW m \in Nodes(from), from.node[m].parent = c PROVE m \notin C \cup {c}
  <2>1. m \in DOMAIN from.node /\ C \cup {c} \subseteq {n} \cup Under(from, n)
    BY <1>1, <1>4 DEF Nodes
  <2>2. m # n
    BY <1>5, <2>1, ChildBelow
  <2>3. m \in C => c \in C
    BY <1>5, <2>2 DEF Finished
  <2> QED
    BY <1>1, <1>5, <2>3
<1>6. ASSUME NEW m \in Nodes(from), from.node[m].parent = c, m # a
      PROVE  from.node[m].prev \notin C \cup {c, Nil}
  <2> DEFINE q == from.node[m].prev
  <2>1. m \in DOMAIN from.node /\ c # Nil
    BY <1>2 DEF Nodes
  <2>2. q # Nil
    BY <1>6, <2>1 DEF Sane, Linked
  <2>3. Child(from, q, c)
    BY <1>6, <2>1, <2>2 DEF Sane, Linked
  <2> QED
    BY <1>5, <2>2, <2>3 DEF Child
<1>7. a # Nil => a \notin C \cup {c}
  BY <1>3, <1>5 DEF Child
<1> HIDE DEF a
<1> QED
  BY <1>3, <1>5, <1>6, <1>7 DEF Ahead, a

WithCopy(C, g, c, x) == [m \in C \cup {c} |-> IF m = c THEN x ELSE g[m]]

MirroredNext(from, n, d, root, s, C, g, src, c) ==
    /\ Sane(from) /\ n \in DOMAIN from.node /\ CopyUnderWay(from, d, root, s) /\ Sane(s.doc)
    /\ Mirroring(from, n, s, C, g, src) /\ c = Last(s.open).child /\ c # Nil

\* A child is copied: it has a copy, whose children are copied next.
LEMMA MirrorChild ==
    ASSUME NEW from, NEW n, NEW d, NEW root, NEW s, NEW C, NEW g, NEW src, NEW c,
           MirroredNext(from, n, d, root, s, C, g, src, c)
    PROVE  /\ c \notin C
           /\ Mirroring(from, n, CopyChild(s, c), C \cup {c}, WithCopy(C, g, c, Fresh(s.doc)), Append(src, c))
<1> DEFINE k == Len(s.open)
           x == Fresh(s.doc)
           e == ShallowClone(from, c, s.doc)
           t == CopyChild(s, c)
           B == C \cup {c}
           h == [m \in B |-> IF m = c THEN x ELSE g[m]]
           path == Append(src, c)
           D == Settled(C, src)
           o == t.open
<1> SUFFICES ASSUME Sane(from), n \in DOMAIN from.node, CopyUnderWay(from, d, root, s), Sane(s.doc),
                    Mirroring(from, n, s, C, g, src), c = Last(s.open).child, c # Nil
             PROVE  /\ c \notin C
                    /\ Mirroring(from, n, t, B, WithCopy(C, g, c, x), path)
  BY DEF MirroredNext
<1>1. /\ Copies(from, n, s.doc, C, g) /\ Pending(from, n, C, g, src, s.open)
      /\ Finished(from, n, C, D) /\ Hung(from, s.doc, C, D, g)
      /\ \A i \in 1 .. Len(src) : s.doc.node[g[src[i]]].last = Image(g, C, Newest(from, src, s.open, i))
  BY DEF Mirroring
<1>2. /\ src \in Seq(C) /\ Len(src) = k /\ k \in Nat \ {0} /\ k \in 1 .. k /\ src[k] \in C /\ src[1] = n
      /\ \A i, j \in 1 .. k : src[i] = src[j] => i = j
      /\ \A i \in 1 .. k : src[i] \in C /\ s.open[i].copy = g[src[i]] /\ Ahead(from, C, src[i], s.open[i].child)
      /\ \A i \in 2 .. k : from.node[src[i]].parent = src[i - 1] /\ s.open[i - 1].child = from.node[src[i]].next
  BY <1>1 DEF Pending
<1>3. Last(s.open) = s.open[k] /\ Ahead(from, C, src[k], c)
  <2>1. Last(s.open) = s.open[k]
    BY DEF Last
  <2> QED
    BY <1>2, <2>1
<1>4. /\ c \notin C /\ c \in Nodes(from) /\ c \in DOMAIN from.node /\ from.node[c].parent = src[k]
      /\ from.node[c].prev \in C \cup {Nil} /\ Nil \notin DOMAIN from.node
  BY <1>3, NilAssumption DEF Ahead, Child, Nodes, Sane, Shaped
<1>5. C \subseteq {n} \cup Under(from, n) /\ D \subseteq C /\ Under(from, n) \subseteq DOMAIN from.node
  BY <1>1 DEF Copies, Finished, Under
<1>6. c \in Under(from, n) /\ c # n
  BY <1>2, <1>4, <1>5, ChildBelow
<1>7. Extending(s.doc, e, x) /\ Copied(from.node[c], e.node[x])
  BY <1>4, ShallowCloneKeeps DEF Sane, Tallied, Attributed
<1>8. /\ t.doc = e /\ Len(o) = k + 1
      /\ o[k + 1].copy = x /\ o[k + 1].child = from.node[c].first
      /\ \A i \in 1 .. k :
            /\ o[i].copy = s.open[i].copy
            /\ o[i].child = IF i = k THEN from.node[c].next ELSE s.open[i].child
  BY <1>4, ChildOpens
<1> HIDE DEF t, e, x, o
<1>9. /\ path \in Seq(B) /\ Len(path) = k + 1 /\ path[k + 1] = c /\ path # <<>>
      /\ \A i \in 1 .. k : path[i] = src[i]
  <2>1. src \in Seq(B) /\ c \in B
    BY <1>2
  <2> HIDE DEF B
  <2> QED
    BY <1>2, <2>1, AppendProperties
<1> HIDE DEF path
<1>10. \A i \in 1 .. k + 1 : i \in 1 .. k \/ i = k + 1
  BY <1>2
<1>11. Settled(B, path) = D
  <2>1. {path[i] : i \in 1 .. k + 1} = {src[i] : i \in 1 .. k} \cup {c}
    BY <1>2, <1>9, <1>10
  <2>2. Settled(B, path) = B \ ({src[i] : i \in 1 .. k} \cup {c})
    BY <1>9, <2>1 DEF Settled
  <2>3. D = C \ {src[i] : i \in 1 .. k}
    BY <1>2 DEF Settled
  <2> HIDE DEF D
  <2> QED
    BY <1>4, <2>2, <2>3
<1>12. /\ h = [m \in B |-> h[m]] /\ h[c] = x /\ \A m \in C : h[m] = g[m]
       /\ \A m \in C : g[m] \in DOMAIN s.doc.node
  BY <1>1, <1>4 DEF Copies
<1> HIDE DEF h, D
<1>13. /\ x \notin DOMAIN s.doc.node /\ DOMAIN e.node = DOMAIN s.doc.node \cup {x}
       /\ \A m \in C : e.node[h[m]] = s.doc.node[g[m]]
  BY <1>7, <1>12 DEF Extending
<1>14. Copies(from, n, e, B, h)
  <2>1. h \in [B -> DOMAIN e.node]
    BY <1>12, <1>13
  <2>2. \A a, b \in C : h[a] = h[b] => a = b
    BY <1>1, <1>12 DEF Copies
  <2>3. \A a \in C : h[a] # h[c]
    BY <1>12, <1>13
  <2>4. \A m \in C \ {n} : \A f \in {"kind", "value", "attrs"} : e.node[h[m]][f] = from.node[m][f]
    BY <1>1, <1>13 DEF Copies
  <2>5. \A f \in {"kind", "value", "attrs"} : e.node[h[c]][f] = from.node[c][f]
    BY <1>7, <1>12 DEF Copied
  <2>6. n \in B /\ B \subseteq {n} \cup Under(from, n)
    BY <1>1, <1>6 DEF Copies
  <2> QED
    BY <2>1, <2>2, <2>3, <2>4, <2>5, <2>6 DEF Copies
<1>15. from.node[c].prev \in D \cup {Nil}
  <2> SUFFICES ASSUME from.node[c].prev # Nil PROVE from.node[c].prev \in D
    OBVIOUS
  <2> DEFINE q == from.node[c].prev
  <2>1. q \in C /\ q \in DOMAIN from.node /\ from.node[q].parent = src[k]
    BY <1>4 DEF Sane, Linked, Child, Nodes
  <2>2. \A i \in 1 .. k : src[i] # q
    BY <1>1, <1>2, <2>1, NotOpen
  <2> QED
    BY <1>2, <2>1, <2>2 DEF D, Settled
<1>16. Finished(from, n, B, D)
  <2>1. D \subseteq B \ {n}
    BY <1>1 DEF Finished
  <2>2. \A m \in B \ {n} : from.node[m].parent \in B /\ from.node[m].prev \in D \cup {Nil}
    BY <1>1, <1>2, <1>4, <1>15 DEF Finished
  <2> QED
    BY <1>1, <2>1, <2>2 DEF Finished
<1>17. /\ Ahead(from, B, c, from.node[c].first) /\ Ahead(from, B, src[k], from.node[c].next)
       /\ \A m \in Nodes(from) : from.node[m].parent = c => m \notin B
  <2> HIDE DEF B, k
  <2>1. src[k] \in C
    BY <1>2
  <2>2. Ahead(from, C \cup {c}, src[k], from.node[c].next)
    BY <1>1, <1>3, <2>1, AheadAfter
  <2>3. /\ Ahead(from, C \cup {c}, c, from.node[c].first)
        /\ \A m \in Nodes(from) : from.node[m].parent = c => m \notin C \cup {c}
    BY <1>1, <1>3, <2>1, AheadOfNew
  <2> QED
    BY <2>2, <2>3 DEF B
<1>18. Hung(from, e, B, D, h)
  <2>1. \A m : Image(h, D, m) = Image(g, D, m)
    BY <1>5, <1>12 DEF Image
  <2>2. e.node[h[c]].first = Nil
    BY <1>7, <1>12 DEF Copied, Pointing
  <2>3. from.node[c].first \notin D
    <3>1. from.node[c].first # Nil => Child(from, from.node[c].first, c)
      BY <1>4 DEF Sane, Linked
    <3>2. Nil \notin D
      BY <1>4, <1>5, <1>1 DEF Copies
    <3> QED
      BY <1>5, <1>17, <3>1, <3>2 DEF Child
  <2> QED
    BY <1>1, <1>5, <1>13, <2>1, <2>2, <2>3 DEF Hung, Image
<1>19. Pending(from, n, B, h, path, o)
  <2>1. path[1] = n
    BY <1>2, <1>9
  <2>2. \A i, j \in 1 .. k + 1 : path[i] = path[j] => i = j
    BY <1>2, <1>4, <1>9, <1>10
  <2>3. ASSUME NEW i \in 2 .. k + 1
        PROVE  from.node[path[i]].parent = path[i - 1] /\ o[i - 1].child = from.node[path[i]].next
    <3>1. CASE i = k + 1
      BY <1>2, <1>4, <1>8, <1>9, <3>1
    <3>2. CASE i \in 2 .. k
      <4>1. i \in 1 .. k /\ i - 1 \in 1 .. k /\ i - 1 # k
        BY <1>2, <3>2
      <4> QED
        BY <1>2, <1>8, <1>9, <3>2, <4>1
    <3> QED
      BY <1>2, <3>1, <3>2
  <2>4. ASSUME NEW i \in 1 .. k + 1
        PROVE  o[i].copy = h[path[i]] /\ Ahead(from, B, path[i], o[i].child)
    <3>1. CASE i = k + 1
      BY <1>8, <1>9, <1>12, <1>17, <3>1
    <3>2. CASE i = k
      BY <1>2, <1>8, <1>9, <1>12, <1>17, <3>2
    <3>3. CASE i \in 1 .. k /\ i # k
      <4>1. src[i] # src[k] /\ src[i] \in DOMAIN from.node
        BY <1>2, <1>5, <3>3
      <4>2. Ahead(from, B, src[i], s.open[i].child)
        BY <1>2, <1>3, <3>3, <4>1, AheadOfOthers
      <4> QED
        BY <1>2, <1>8, <1>9, <1>12, <3>3, <4>2
    <3> QED
      BY <1>10, <3>1, <3>2, <3>3
  <2> HIDE DEF k, B
  <2> QED
    BY <1>8, <1>9, <2>1, <2>2, <2>3, <2>4 DEF Pending
<1>20. ASSUME NEW i \in 1 .. k + 1
       PROVE  e.node[h[path[i]]].last = Image(h, B, Newest(from, path, o, i))
  <2>1. CASE i = k + 1
    <3>1. Newest(from, path, o, i) = Nil
      <4>1. Newest(from, path, o, i) = IF from.node[c].first # Nil THEN from.node[from.node[c].first].prev ELSE from.node[c].last
        BY <1>2, <1>8, <1>9, <2>1 DEF Newest
      <4> QED
        BY <1>4, <4>1 DEF Sane, Linked
    <3>2. Nil \notin B /\ e.node[x].last = Nil
      BY <1>4, <1>5, <1>7 DEF Copied, Pointing
    <3> QED
      BY <1>9, <1>12, <2>1, <3>1, <3>2 DEF Image
  <2>2. CASE i \in 1 .. k
    <3> DEFINE q == Newest(from, src, s.open, i)
    <3>1. Newest(from, path, o, i) = q
      <4>1. CASE i = k
        BY <1>2, <1>3, <1>4, <1>9, <4>1 DEF Newest
      <4>2. CASE i # k
        <5>1. i < k /\ i < k + 1 /\ i + 1 \in 1 .. k
          BY <1>2, <2>2, <4>2
        <5> QED
          BY <1>2, <1>9, <5>1 DEF Newest
      <4> QED
        BY <4>1, <4>2
    <3>2. q # c
      <4>1. CASE i = k
        <5>1. q = from.node[c].prev
          BY <1>2, <1>3, <4>1 DEF Newest
        <5> QED
          BY <1>4, <5>1
      <4>2. CASE i # k
        <5>1. i < k /\ i + 1 \in 2 .. k /\ i + 1 \in 1 .. k /\ (i + 1) - 1 = i
          BY <1>2, <2>2, <4>2
        <5>2. q = from.node[src[i + 1]].prev
          BY <1>2, <5>1 DEF Newest
        <5>3. src[i + 1] \in C \ {n}
          <6>1. i + 1 # 1 /\ 1 \in 1 .. k
            BY <1>2, <5>1
          <6> QED
            BY <1>2, <5>1, <6>1
        <5>4. q \in C \cup {Nil}
          BY <1>1, <1>5, <5>2, <5>3 DEF Finished
        <5> QED
          BY <1>4, <5>4
      <4> QED
        BY <4>1, <4>2
    <3>3. Image(h, B, q) = Image(g, C, q)
      BY <1>12, <3>2 DEF Image
    <3>4. e.node[h[path[i]]] = s.doc.node[g[src[i]]]
      BY <1>2, <1>9, <1>13, <2>2
    <3> QED
      BY <1>1, <1>2, <2>2, <3>1, <3>3, <3>4
  <2> QED
    BY <1>10, <2>1, <2>2
<1> HIDE DEF k, B
<1>21. Mirroring(from, n, t, B, h, path)
  BY <1>8, <1>9, <1>11, <1>14, <1>16, <1>18, <1>19, <1>20 DEF Mirroring, o
<1> QED
  BY <1>4, <1>21 DEF t, B, h, path, x, WithCopy

\* The innermost copy is inserted: the node it is of is finished.
LEMMA MirrorReturn ==
    ASSUME NEW from, Sane(from), NEW n \in DOMAIN from.node, NEW d, NEW root, NEW s, NEW t,
           Returned(from, d, root, s, t), Sane(s.doc), Last(s.open).child = Nil, Len(s.open) > 1,
           NEW C, NEW g, NEW src, Mirroring(from, n, s, C, g, src)
    PROVE  Mirroring(from, n, t, C, g, Front(src)) /\ Len(Front(src)) = Len(src) - 1
<1> DEFINE k == Len(s.open)
           e == t.doc
           c == src[k]
           p == src[k - 1]
           path == Front(src)
           D == Settled(C, src)
           F == D \cup {c}
           o == t.open
           l == s.doc.node[g[p]].last
<1>1. /\ Copies(from, n, s.doc, C, g) /\ Pending(from, n, C, g, src, s.open)
      /\ Finished(from, n, C, D) /\ Hung(from, s.doc, C, D, g)
      /\ \A i \in 1 .. Len(src) : s.doc.node[g[src[i]]].last = Image(g, C, Newest(from, src, s.open, i))
  BY DEF Mirroring
<1>2. /\ src \in Seq(C) /\ Len(src) = k /\ k \in Nat /\ k > 1 /\ src[1] = n
      /\ \A i, j \in 1 .. k : src[i] = src[j] => i = j
      /\ \A i \in 1 .. k : src[i] \in C /\ s.open[i].copy = g[src[i]] /\ Ahead(from, C, src[i], s.open[i].child)
      /\ \A i \in 2 .. k : from.node[src[i]].parent = src[i - 1] /\ s.open[i - 1].child = from.node[src[i]].next
  BY <1>1 DEF Pending, Returned
<1>3. 1 \in 1 .. k /\ k \in 2 .. k /\ k \in 1 .. k /\ k - 1 \in 1 .. k /\ 1 # k /\ k - 1 # k
  BY <1>2
<1>4. Last(s.open) = s.open[k] /\ Ahead(from, C, c, Nil)
  <2>1. Last(s.open) = s.open[k]
    BY DEF Last
  <2> QED
    BY <1>2, <1>3, <2>1
<1>5. /\ C \subseteq {n} \cup Under(from, n) /\ D \subseteq C \ {n} /\ Under(from, n) \subseteq DOMAIN from.node
      /\ C \subseteq DOMAIN from.node /\ Nil \notin DOMAIN from.node
  BY <1>1, NilAssumption DEF Copies, Finished, Under, Sane, Shaped
<1>6. /\ c \in C \ {n} /\ p \in C /\ from.node[c].parent = p /\ c \notin D /\ c \in DOMAIN from.node
      /\ from.node[c].prev \in D \cup {Nil} /\ s.open[k - 1].child = from.node[c].next
  <2>1. c \in C \ {n} /\ p \in C /\ from.node[c].parent = p /\ c \in DOMAIN from.node
        /\ s.open[k - 1].child = from.node[c].next
    BY <1>2, <1>3, <1>5
  <2>2. c \notin D
    BY <1>2, <1>3 DEF Settled
  <2> HIDE DEF D, c
  <2> QED
    BY <1>1, <2>1, <2>2 DEF Finished
<1>7. /\ Appended(s.doc, e, g[p], g[c]) /\ Len(o) = k - 1 /\ o # <<>>
      /\ \A i \in 1 .. k - 1 : o[i] = s.open[i]
  BY <1>2, <1>3 DEF Returned
<1>8. /\ path \in Seq(C) /\ Len(path) = k - 1 /\ path # <<>> /\ \A i \in 1 .. k - 1 : path[i] = src[i]
  <2>1. path = SubSeq(src, 1, k - 1)
    BY <1>2 DEF Front
  <2> HIDE DEF path, k
  <2>2. 1 \in 1 .. k + 1 /\ k - 1 \in 0 .. k /\ k - 1 \in Int
    BY <1>2
  <2>3. path \in Seq(C) /\ Len(path) = k - 1 /\ \A i \in 1 .. k - 1 : path[i] = src[i]
    BY <1>2, <2>1, <2>2, SubSeqProperties
  <2>4. path # <<>>
    BY <1>2, <2>3
  <2> QED
    BY <2>3, <2>4
<1> HIDE DEF path, o, e
<1>9. Settled(C, path) = F
  <2>1. {src[i] : i \in 1 .. k} = {path[i] : i \in 1 .. k - 1} \cup {c}
    <3>1. \A i \in 1 .. k : i \in 1 .. k - 1 \/ i = k
      BY <1>2
    <3>2. 1 .. k - 1 \subseteq 1 .. k
      BY <1>2
    <3> HIDE DEF k
    <3> QED
      BY <1>3, <1>8, <3>1, <3>2
  <2>2. c \notin {path[i] : i \in 1 .. k - 1}
    <3>1. \A i \in 1 .. k - 1 : i \in 1 .. k /\ i # k
      BY <1>2
    <3> HIDE DEF k
    <3> QED
      BY <1>2, <1>3, <1>8, <3>1
  <2>3. D = C \ ({path[i] : i \in 1 .. k - 1} \cup {c})
    BY <1>2, <2>1 DEF Settled
  <2>4. Settled(C, path) = C \ {path[i] : i \in 1 .. k - 1}
    BY <1>8 DEF Settled
  <2> HIDE DEF D, c
  <2> QED
    BY <1>6, <2>2, <2>3, <2>4
<1> HIDE DEF D
<1>10. /\ DOMAIN e.node = DOMAIN s.doc.node
       /\ \A m \in C : g[m] \in DOMAIN s.doc.node
       /\ \A m \in C : \A f \in {"kind", "value", "attrs"} : e.node[g[m]][f] = s.doc.node[g[m]][f]
       /\ \A m \in C :
            /\ e.node[g[m]].first = IF m = p /\ l = Nil THEN g[c] ELSE s.doc.node[g[m]].first
            /\ e.node[g[m]].last = IF m = p THEN g[c] ELSE s.doc.node[g[m]].last
            /\ e.node[g[m]].next = IF m = c THEN Nil ELSE IF g[m] = l THEN g[c] ELSE s.doc.node[g[m]].next
  <2>1. \A m \in C : g[m] \in DOMAIN s.doc.node
    BY <1>1 DEF Copies
  <2>2. \A m \in C : (g[m] = g[p] <=> m = p) /\ (g[m] = g[c] <=> m = c)
    BY <1>1, <1>6 DEF Copies
  <2>3. \A f \in {"kind", "value", "attrs"} : f \in Members \ Pointing
    BY DEF Members, Pointing
  <2> HIDE DEF c, p
  <2>4. DOMAIN e.node = DOMAIN s.doc.node
        /\ \A m \in C : \A f \in {"kind", "value", "attrs"} : e.node[g[m]][f] = s.doc.node[g[m]][f]
    BY <1>7, <2>1, <2>3 DEF Appended, Alike
  <2>5. ASSUME NEW m \in C
        PROVE  /\ e.node[g[m]].first = IF m = p /\ l = Nil THEN g[c] ELSE s.doc.node[g[m]].first
               /\ e.node[g[m]].last = IF m = p THEN g[c] ELSE s.doc.node[g[m]].last
               /\ e.node[g[m]].next = IF m = c THEN Nil ELSE IF g[m] = l THEN g[c] ELSE s.doc.node[g[m]].next
    BY <1>7, <2>1, <2>2 DEF Appended
  <2> QED
    BY <2>1, <2>4, <2>5
<1>11. Nil \notin DOMAIN s.doc.node
  BY NilAssumption DEF Sane, Shaped
<1>12. l = Image(g, C, from.node[c].prev)
  <2>1. Newest(from, src, s.open, k - 1) = from.node[c].prev
    BY <1>2 DEF Newest
  <2> QED
    BY <1>1, <1>2, <1>3, <2>1
<1> HIDE DEF l
<1>13. Copies(from, n, e, C, g)
  BY <1>1, <1>10 DEF Copies
<1>14. Finished(from, n, C, F)
  <2>1. F \subseteq C \ {n}
    BY <1>5, <1>6
  <2>2. \A m \in C \ {n} : from.node[m].parent \in C /\ from.node[m].prev \in F \cup {Nil}
    BY <1>1 DEF Finished
  <2>3. ASSUME NEW m \in Nodes(from), from.node[m].parent = c PROVE m \in F
    <3>1. m \in C
      BY <1>4, <1>6, <2>3, AllCopied
    <3>2. \A i \in 1 .. k : src[i] # m
      BY <1>1, <1>2, <1>5, <2>3, <3>1, NotOpen
    <3> QED
      BY <1>2, <3>1, <3>2 DEF D, Settled
  <2>4. \A m \in Nodes(from) : from.node[m].parent \in D => m \in D
    BY <1>1 DEF Finished
  <2> HIDE DEF c
  <2> QED
    BY <2>1, <2>2, <2>3, <2>4 DEF Finished
<1>15. Hung(from, e, C, F, g)
  <2> HIDE DEF k, c, p
  <2>1. \A m : m # c => Image(g, F, m) = Image(g, D, m)
    BY DEF Image
  <2>2. Image(g, F, c) = g[c]
    BY DEF Image
  <2>3. ASSUME NEW m \in C PROVE e.node[g[m]].first = Image(g, F, from.node[m].first)
    <3>1. s.doc.node[g[m]].first = Image(g, D, from.node[m].first)
      BY <1>1 DEF Hung
    <3>2. from.node[m].first = c => m = p
      BY <1>5, <1>6 DEF Sane, Linked, Child
    <3>3. from.node[p].first = c <=> from.node[c].prev = Nil
      BY <1>5, <1>6 DEF Sane, Linked, Child
    <3>4. from.node[c].prev # Nil => l # Nil
      BY <1>5, <1>6, <1>10, <1>11, <1>12 DEF Image
    <3>5. from.node[c].prev = Nil => l = Nil
      BY <1>5, <1>12 DEF Image
    <3> QED
      BY <1>10, <2>1, <2>2, <3>1, <3>2, <3>3, <3>4, <3>5
  <2>4. ASSUME NEW m \in D PROVE e.node[g[m]].next = Image(g, F, from.node[m].next)
    <3>1. s.doc.node[g[m]].next = Image(g, D, from.node[m].next) /\ m \in C /\ m # c /\ m \in DOMAIN from.node
      BY <1>1, <1>5, <1>6 DEF Hung
    <3>2. from.node[m].next = c <=> m = from.node[c].prev
      BY <1>5, <1>6, <3>1 DEF Sane, Linked
    <3>3. g[m] = l <=> m = from.node[c].prev
      <4>1. CASE from.node[c].prev = Nil
        BY <1>5, <1>10, <1>11, <1>12, <3>1, <4>1 DEF Image
      <4>2. CASE from.node[c].prev \in C
        BY <1>1, <1>12, <3>1, <4>2 DEF Image, Copies
      <4> QED
        BY <1>5, <1>6, <4>1, <4>2
    <3> QED
      BY <1>10, <2>1, <2>2, <3>1, <3>2, <3>3
  <2>5. e.node[g[c]].next = Image(g, F, from.node[c].next)
    <3> DEFINE y == from.node[c].next
    <3>1. y # Nil => Child(from, y, p) /\ from.node[y].prev = c
      BY <1>6 DEF Sane, Linked
    <3>2. y \notin D
      <4> SUFFICES ASSUME y \in D PROVE FALSE
        OBVIOUS
      <4>1. from.node[y].prev \in D \cup {Nil} /\ from.node[y].prev = c
        BY <1>1, <1>5, <3>1 DEF Finished
      <4> QED
        BY <1>5, <1>6, <4>1
    <3>3. y # c
      BY <1>5, <1>6, <3>1
    <3> QED
      BY <1>6, <1>10, <3>2, <3>3 DEF Image
  <2> QED
    BY <2>3, <2>4, <2>5 DEF Hung
<1>16. Pending(from, n, C, g, path, o)
  <2>1. /\ \A i \in 1 .. k - 1 : i \in 1 .. k
        /\ \A i \in 2 .. k - 1 : i \in 2 .. k /\ i \in 1 .. k - 1 /\ i - 1 \in 1 .. k - 1
        /\ 1 \in 1 .. k - 1
    BY <1>2
  <2> HIDE DEF k
  <2>2. path[1] = n /\ \A i, j \in 1 .. k - 1 : path[i] = path[j] => i = j
    BY <1>2, <1>8, <2>1
  <2>3. ASSUME NEW i \in 2 .. k - 1
        PROVE  from.node[path[i]].parent = path[i - 1] /\ o[i - 1].child = from.node[path[i]].next
    <3>1. path[i] = src[i] /\ path[i - 1] = src[i - 1] /\ o[i - 1] = s.open[i - 1]
      BY <1>7, <1>8, <2>1
    <3> QED
      BY <1>2, <2>1, <3>1
  <2>4. ASSUME NEW i \in 1 .. k - 1
        PROVE  o[i].copy = g[path[i]] /\ Ahead(from, C, path[i], o[i].child)
    BY <1>2, <1>7, <1>8, <2>1
  <2> QED
    BY <1>7, <1>8, <2>2, <2>3, <2>4 DEF Pending
<1>17. ASSUME NEW i \in 1 .. k - 1
       PROVE  e.node[g[path[i]]].last = Image(g, C, Newest(from, path, o, i))
  <2>1. i \in 1 .. k /\ path[i] = src[i] /\ src[i] \in C
    BY <1>2, <1>8
  <2>2. CASE i = k - 1
    <3> DEFINE y == from.node[c].next
    <3>1. Newest(from, path, o, i) = IF y # Nil THEN from.node[y].prev ELSE from.node[p].last
      <4>1. Newest(from, path, o, i) = IF o[i].child # Nil THEN from.node[o[i].child].prev ELSE from.node[src[i]].last
        BY <1>8, <2>1, <2>2 DEF Newest
      <4>2. o[i].child = y
        BY <1>6, <1>7, <2>2
      <4> QED
        BY <2>2, <4>1, <4>2
    <3>2. Newest(from, path, o, i) = c
      BY <1>5, <1>6, <3>1 DEF Sane, Linked
    <3> QED
      BY <1>6, <1>10, <2>1, <2>2, <3>2 DEF Image
  <2>3. CASE i # k - 1
    <3>1. i < k - 1 /\ i + 1 \in 1 .. k - 1 /\ i < k
      BY <1>2, <2>3
    <3>2. Newest(from, path, o, i) = Newest(from, src, s.open, i)
      BY <1>2, <1>8, <3>1 DEF Newest
    <3>3. src[i] # p
      BY <1>2, <1>3, <2>1, <2>3
    <3> QED
      BY <1>1, <1>2, <1>10, <2>1, <3>2, <3>3
  <2> QED
    BY <2>2, <2>3
<1> HIDE DEF k, F
<1> QED
  BY <1>2, <1>8, <1>9, <1>13, <1>14, <1>15, <1>16, <1>17 DEF Mirroring, o, e, path

\* What hangs below a node of C hangs, the same and in the same order, below its copy.
Mirrors(from, n, e, C, g) ==
    /\ n \in C /\ C \subseteq DOMAIN from.node /\ g \in [C -> DOMAIN e.node]
    /\ \A m \in C : /\ from.node[m].first \in (C \ {n}) \cup {Nil}
                    /\ e.node[g[m]].first = Image(g, C, from.node[m].first)
    /\ \A m \in C \ {n} :
        /\ from.node[m].next \in (C \ {n}) \cup {Nil}
        /\ e.node[g[m]].next = Image(g, C, from.node[m].next)
        /\ \A f \in {"kind", "value", "attrs"} : e.node[g[m]][f] = from.node[m][f]

\* The turns are over.
AllReturned(s) == Len(s.open) = 1 /\ Last(s.open).child = Nil

LEMMA MirrorsAtEnd ==
    ASSUME NEW from, Sane(from), NEW n \in DOMAIN from.node, NEW s, AllReturned(s),
           NEW C, NEW g, NEW src, Mirroring(from, n, s, C, g, src)
    PROVE  Mirrors(from, n, s.doc, C, g) /\ g[n] = s.open[1].copy
<1> DEFINE D == Settled(C, src)
           e == s.doc
<1>1. /\ Copies(from, n, e, C, g) /\ Pending(from, n, C, g, src, s.open)
      /\ Finished(from, n, C, D) /\ Hung(from, e, C, D, g)
  BY DEF Mirroring
<1>2. src \in Seq(C) /\ Len(src) = 1 /\ src[1] = n /\ Ahead(from, C, n, Nil) /\ s.open[1].copy = g[n]
  <2>1. Len(src) = 1 /\ src \in Seq(C) /\ src[1] = n /\ 1 \in 1 .. Len(src)
    BY <1>1 DEF Pending, AllReturned
  <2>2. Last(s.open) = s.open[1]
    BY DEF Last, AllReturned
  <2> QED
    BY <1>1, <2>1, <2>2 DEF Pending, AllReturned
<1>3. D = C \ {n}
  BY <1>2 DEF Settled
<1> HIDE DEF D, e
<1>4. /\ C \subseteq {n} \cup Under(from, n) /\ Under(from, n) \subseteq DOMAIN from.node
      /\ C \subseteq DOMAIN from.node /\ Nil \notin DOMAIN from.node /\ n \in C /\ g \in [C -> DOMAIN e.node]
  BY <1>1, NilAssumption DEF Copies, Under, Sane, Shaped
<1>5. ASSUME NEW m \in C PROVE \A y \in Nodes(from) : from.node[y].parent = m => y \in C /\ y # n
  <2>1. ASSUME NEW y \in Nodes(from), from.node[y].parent = m PROVE y \in C /\ y # n
    <3>1. y # n
      BY <1>4, <2>1, ChildBelow DEF Nodes
    <3>2. m = n => y \in C
      BY <1>2, <2>1, AllCopied
    <3>3. m # n => y \in C
      BY <1>1, <1>3, <2>1 DEF Finished
    <3> QED
      BY <3>1, <3>2, <3>3
  <2> QED
    BY <2>1
<1>6. ASSUME NEW m \in C
      PROVE  /\ from.node[m].first \in (C \ {n}) \cup {Nil}
             /\ e.node[g[m]].first = Image(g, C, from.node[m].first)
  <2>1. from.node[m].first # Nil => Child(from, from.node[m].first, m)
    BY <1>4 DEF Sane, Linked
  <2>2. from.node[m].first # Nil => from.node[m].first \in C \ {n}
    BY <1>5, <2>1 DEF Child
  <2>3. e.node[g[m]].first = Image(g, D, from.node[m].first)
    BY <1>1 DEF Hung
  <2> QED
    BY <1>3, <1>4, <2>2, <2>3 DEF Image
<1>7. ASSUME NEW m \in C \ {n}
      PROVE  /\ from.node[m].next \in (C \ {n}) \cup {Nil} /\ e.node[g[m]].next = Image(g, C, from.node[m].next)
             /\ \A f \in {"kind", "value", "attrs"} : e.node[g[m]][f] = from.node[m][f]
  <2>1. from.node[m].next # Nil => Child(from, from.node[m].next, from.node[m].parent)
    BY <1>4 DEF Sane, Linked
  <2>2. from.node[m].parent \in C
    BY <1>1 DEF Finished
  <2>3. from.node[m].next # Nil => from.node[m].next \in C \ {n}
    BY <1>5, <2>1, <2>2 DEF Child
  <2>4. e.node[g[m]].next = Image(g, D, from.node[m].next)
    BY <1>1, <1>3 DEF Hung
  <2>5. \A f \in {"kind", "value", "attrs"} : e.node[g[m]][f] = from.node[m][f]
    BY <1>1 DEF Copies
  <2> QED
    BY <1>3, <1>4, <2>3, <2>4, <2>5 DEF Image
<1> QED
  BY <1>2, <1>4, <1>6, <1>7 DEF Mirrors, e

\* After i turns: they are over, or there were as many as nodes copied and copies
\* inserted.
CopyingTurns(from, n, d, root, s, i) ==
    /\ CopyUnderWay(from, d, root, s)
    /\ \E C, g, src :
        /\ Mirroring(from, n, s, C, g, src)
        /\ AllReturned(s) \/ 2 * Cardinality(C) - Len(src) = i + 1

LEMMA CopyTurnMirrors ==
    ASSUME NEW from, Sane(from), NEW n \in DOMAIN from.node,
           NEW d, Sane(d), NEW root \in DOMAIN d.node, d.node[root].last = Nil,
           NEW s, NEW i \in Nat, CopyingTurns(from, n, d, root, s, i)
    PROVE  CopyingTurns(from, n, d, root, CopyTurn(s), i + 1)
<1> DEFINE t == CopyTurn(s)
           m == Last(s.open)
<1>1. CopyUnderWay(from, d, root, s) /\ Sane(s.doc)
  BY DEF CopyingTurns, CopyUnderWay, Growing
<1>2. CopyUnderWay(from, d, root, t)
  BY <1>1, CopyTurnKeeps
<1>3. PICK C, g, src : /\ Mirroring(from, n, s, C, g, src)
                       /\ AllReturned(s) \/ 2 * Cardinality(C) - Len(src) = i + 1
  BY DEF CopyingTurns
<1>4. IsFiniteSet(C) /\ Cardinality(C) \in Nat /\ src \in Seq(C) /\ Len(src) \in Nat /\ Len(src) = Len(s.open)
      /\ Len(src) >= 1
  <2>1. C \subseteq DOMAIN from.node
    BY <1>3 DEF Mirroring, Copies, Under
  <2>2. src \in Seq(C) /\ Len(src) = Len(s.open) /\ src # <<>>
    BY <1>3 DEF Mirroring, Pending
  <2> QED
    BY <2>1, <2>2, FS_Subset, FS_CardinalityType DEF Sane, Shaped
<1>5. (Len(s.open) > 1 => Len(s.open) # 1) /\ (~(Len(s.open) > 1) => Len(s.open) = 1)
  <2>1. \A j \in Nat : j >= 1 => (j > 1 => j # 1) /\ (~(j > 1) => j = 1)
    OBVIOUS
  <2> QED
    BY <1>4, <2>1, Zenon
<1>6. CASE m.child # Nil
  <2> DEFINE c == m.child
             B == C \cup {c}
             h == WithCopy(C, g, c, Fresh(s.doc))
             path == Append(src, c)
  <2>1. t = CopyChild(s, c)
    BY <1>6 DEF CopyTurn, CopyTurnWith
  <2>2. c \notin C /\ Mirroring(from, n, t, B, h, path)
    <3>1. c = Last(s.open).child /\ c # Nil
      BY <1>6
    <3> HIDE DEF c, t
    <3>2. MirroredNext(from, n, d, root, s, C, g, src, c)
      BY <1>1, <1>3, <3>1 DEF MirroredNext
    <3>3. c \notin C /\ Mirroring(from, n, CopyChild(s, c), B, h, path)
      BY <3>2, MirrorChild
    <3> HIDE DEF B, h, path
    <3> QED
      BY <2>1, <3>3 DEF t
  <2>3. Cardinality(B) = Cardinality(C) + 1
    BY <1>4, <2>2, FS_AddElement
  <2>4. Len(path) = Len(src) + 1
    BY <1>4, <2>2
  <2>5. ~AllReturned(s)
    BY <1>6 DEF AllReturned
  <2> HIDE DEF t, B, h, path
  <2>6. 2 * Cardinality(B) - Len(path) = (i + 1) + 1
    BY <1>3, <1>4, <2>3, <2>4, <2>5
  <2>7. CopyingTurns(from, n, d, root, t, i + 1)
    BY <1>2, <2>2, <2>6 DEF CopyingTurns
  <2> QED
    BY <2>7 DEF t
<1>7. CASE m.child = Nil /\ Len(s.open) > 1
  <2>1. Returned(from, d, root, s, t)
    BY <1>1, <1>7, CopyReturns
  <2> DEFINE path == Front(src)
  <2> HIDE DEF t
  <2>2. Mirroring(from, n, t, C, g, path) /\ Len(path) = Len(src) - 1
    BY <1>1, <1>3, <1>7, <2>1, MirrorReturn
  <2>3. ~AllReturned(s)
    BY <1>5, <1>7, Zenon DEF AllReturned
  <2> HIDE DEF path
  <2>4. 2 * Cardinality(C) - Len(path) = (i + 1) + 1
    BY <1>3, <1>4, <2>2, <2>3
  <2>5. CopyingTurns(from, n, d, root, t, i + 1)
    BY <1>2, <2>2, <2>4 DEF CopyingTurns
  <2> QED
    BY <2>5 DEF t
<1>8. CASE m.child = Nil /\ ~(Len(s.open) > 1)
  <2>1. t = s
    BY <1>8 DEF CopyTurn, CopyTurnWith
  <2>2. AllReturned(s)
    <3>1. Len(s.open) = 1
      BY <1>5, <1>8, Zenon
    <3> QED
      BY <1>8, <3>1 DEF AllReturned
  <2> HIDE DEF t
  <2>3. CopyingTurns(from, n, d, root, t, i + 1)
    BY <1>2, <1>3, <2>1, <2>2 DEF CopyingTurns
  <2> QED
    BY <2>3 DEF t
<1> QED
  BY <1>6, <1>7, <1>8

\* The children of n are copied below a node without any: what hangs below n then
\* hangs below the copy as well (src/filter/lib/tinyxml/tinyxml.cpp:865).
THEOREM CopyChildrenMirrors ==
    ASSUME NEW from, Sane(from), NEW n \in DOMAIN from.node,
           NEW d, Sane(d), NEW root \in DOMAIN d.node, d.node[root].last = Nil
    PROVE  \E C, g : Mirrors(from, n, CopyChildren(from, n, d, root), C, g) /\ g[n] = root
<1> DEFINE f == from.node[n].first
           first == [copy |-> root, child |-> f]
           start == [from |-> from, doc |-> d, open |-> <<first>>]
           N == Cardinality(DOMAIN from.node)
           k == 2 * N
<1>1. N \in Nat /\ k \in Nat
  BY FS_CardinalityType DEF Sane, Shaped
<1>2. CopyingTurns(from, n, d, root, start, 0)
  <2> DEFINE C == {n}
             g == [m \in C |-> root]
             src == <<n>>
             open == <<first>>
  <2>1. src \in Seq(C) /\ Len(src) = 1 /\ src[1] = n /\ src # <<>> /\ Len(open) = 1 /\ open[1] = first
    OBVIOUS
  <2>2. Settled(C, src) = {}
    BY <2>1 DEF Settled
  <2>3. Nil \notin DOMAIN from.node /\ d.node[root].first = Nil
    BY NilAssumption DEF Sane, Shaped, Linked
  <2>4. g \in [C -> DOMAIN d.node] /\ g[n] = root /\ n \in C
    OBVIOUS
  <2> HIDE DEF g, src, open
  <2>5. Copies(from, n, d, C, g) /\ Finished(from, n, C, {}) /\ Hung(from, d, C, {}, g)
    BY <2>3, <2>4 DEF Copies, Finished, Hung, Image
  <2>6. Encloses(from, n, Under(from, n))
    BY UnderEncloses DEF Sane
  <2>7. ASSUME NEW m \in Nodes(from), from.node[m].parent = n PROVE m # n
    BY <2>6, <2>7 DEF Encloses, Nodes
  <2>8. Ahead(from, C, n, f)
    <3>1. f # Nil => Child(from, f, n) /\ from.node[f].prev = Nil
      BY DEF Sane, Linked
    <3>2. f # Nil => f \notin C
      BY <2>7, <3>1 DEF Child
    <3>3. ASSUME NEW m \in Nodes(from), from.node[m].parent = n, m # f PROVE from.node[m].prev \notin C \cup {Nil}
      <4> DEFINE q == from.node[m].prev
      <4>1. q # Nil
        BY <2>3, <3>3 DEF Sane, Linked, Nodes
      <4>2. Child(from, q, n)
        BY <3>3, <4>1 DEF Sane, Linked, Nodes
      <4> QED
        BY <2>7, <4>1, <4>2 DEF Child
    <3> HIDE DEF f
    <3> QED
      BY <3>1, <3>2, <3>3 DEF Ahead
  <2>9. Pending(from, n, C, g, src, open)
    <3>1. \A i, j \in 1 .. Len(src) : i = j
      BY <2>1
    <3>2. \A i \in 2 .. Len(src) : FALSE
      BY <2>1
    <3>3. \A i \in 1 .. Len(src) : i = 1
      BY <2>1
    <3>4. open[1].copy = root /\ open[1].child = f
      BY <2>1
    <3> HIDE DEF f, first, C
    <3> QED
      BY <2>1, <2>4, <2>8, <3>1, <3>2, <3>3, <3>4 DEF Pending
  <2>10. ASSUME NEW i \in 1 .. Len(src) PROVE d.node[g[src[i]]].last = Image(g, C, Newest(from, src, open, i))
    <3>1. i = 1 /\ ~(i < Len(src)) /\ open[1].child = f
      BY <2>1
    <3>2. Newest(from, src, open, i) = IF f # Nil THEN from.node[f].prev ELSE from.node[n].last
      BY <2>1, <3>1 DEF Newest
    <3>3. Newest(from, src, open, i) = Nil
      BY <3>2 DEF Sane, Linked
    <3>4. Nil \notin C
      BY <2>3
    <3> QED
      BY <2>1, <2>4, <3>1, <3>3, <3>4 DEF Image
  <2>11. Mirroring(from, n, start, C, g, src)
    <3>1. start.doc = d /\ start.open = open
      BY DEF open
    <3> HIDE DEF start, C
    <3> QED
      BY <2>2, <2>5, <2>9, <2>10, <3>1 DEF Mirroring
  <2>12. CopyUnderWay(from, d, root, start)
    BY CopyStarts
  <2>13. 2 * Cardinality(C) - Len(src) = 0 + 1
    <3>1. Cardinality(C) = 1
      BY FS_Singleton
    <3> HIDE DEF C
    <3> QED
      BY <2>1, <3>1
  <2> HIDE DEF start, C
  <2> QED
    BY <2>11, <2>12, <2>13 DEF CopyingTurns
<1> HIDE DEF start, k
<1>3. PICK turn : /\ turn[0] = start /\ turn[k] = Copying!Turns(start, k)
                  /\ \A i \in 1 .. k : turn[i] = CopyTurn(turn[i - 1])
  BY <1>1, Copying!TurnsFacts
<1> DEFINE T == {i \in 0 .. k : CopyingTurns(from, n, d, root, turn[i], i)}
<1>4. 0 \in T
  BY <1>1, <1>2, <1>3
<1>5. \A i \in 1 .. k : i - 1 \in T => i \in T
  <2> SUFFICES ASSUME NEW i \in 1 .. k, i - 1 \in T PROVE i \in T
    OBVIOUS
  <2>1. CopyingTurns(from, n, d, root, turn[i - 1], i - 1) /\ i - 1 \in Nat /\ (i - 1) + 1 = i /\ i \in 0 .. k
    BY <1>1
  <2> HIDE DEF T
  <2>2. CopyingTurns(from, n, d, root, turn[i], i)
    BY <1>3, <2>1, CopyTurnMirrors
  <2> QED
    BY <2>1, <2>2 DEF T
<1>6. k \in T
  <2> HIDE DEF T
  <2> QED
    BY <1>1, <1>4, <1>5, Copying!UpTo
<1> DEFINE s == turn[k]
<1>7. CopyUnderWay(from, d, root, s) /\ s.open[1].copy = root
  BY <1>6 DEF CopyingTurns, CopyUnderWay
<1>8. PICK C, g, src : /\ Mirroring(from, n, s, C, g, src)
                       /\ AllReturned(s) \/ 2 * Cardinality(C) - Len(src) = k + 1
  BY <1>6 DEF CopyingTurns
<1>9. AllReturned(s)
  <2>1. C \subseteq DOMAIN from.node /\ src \in Seq(C) /\ src # <<>>
    BY <1>8 DEF Mirroring, Copies, Under, Pending
  <2>2. Cardinality(C) \in Nat /\ Cardinality(C) <= N
    BY <2>1, FS_Subset, FS_CardinalityType DEF Sane, Shaped
  <2>3. Len(src) \in Nat /\ Len(src) > 0
    BY <2>1
  <2> HIDE DEF N
  <2> QED
    BY <1>1, <1>8, <2>2, <2>3 DEF k
<1>10. CopyChildren(from, n, d, root) = s.doc
  BY <1>3 DEF CopyChildren, start, k
<1> HIDE DEF s
<1> QED
  BY <1>7, <1>8, <1>9, <1>10, MirrorsAtEnd

(***************************************************************************)
(* Every node is reached.                                                  *)
(***************************************************************************)
ClosedBelow(d, S) == \A n \in S : {d.node[n].first, d.node[n].next} \subseteq S \cup {Nil}

LEMMA ClosedIsAll ==
    ASSUME NEW d, Sane(d), NEW S \in SUBSET DOMAIN d.node, {Doc} \cup Roots(d) \subseteq S, ClosedBelow(d, S)
    PROVE  S = DOMAIN d.node
<1> DEFINE R == DOMAIN d.node \ S
<1> SUFFICES ASSUME R # {} PROVE FALSE
  OBVIOUS
<1>1. PICK level, place \in [DOMAIN d.node -> Int] :
        \A m \in DOMAIN d.node :
            /\ d.node[m].parent # Nil => level[d.node[m].parent] < level[m]
            /\ d.node[m].next # Nil => place[m] < place[d.node[m].next]
  BY DEF Sane, Ordered
<1>2. IsFiniteSet(R)
  BY FS_Difference DEF Sane, Shaped
<1>3. PICK m \in R : \A n \in R : level[m] <= level[n]
  <2>1. R \in SUBSET DOMAIN d.node
    OBVIOUS
  <2> HIDE DEF R
  <2> QED
    BY <1>1, <1>2, <2>1, LeastOf
<1> DEFINE p == d.node[m].parent
<1>4. p \in S
  <2>1. m \in Nodes(d) /\ p # Nil
    BY DEF Roots, Nodes
  <2>2. p \in DOMAIN d.node /\ level[p] < level[m] /\ m \in DOMAIN d.node
    BY <1>1, <2>1, Pointers DEF Sane, Nodes
  <2>3. level[p] \in Int /\ level[m] \in Int
    BY <1>1, <2>2
  <2>4. ~(level[m] <= level[p])
    BY <2>2, <2>3
  <2> QED
    BY <1>3, <2>2, <2>4
<1> DEFINE C == {c \in R : d.node[c].parent = p}
<1>5. PICK c \in C : \A n \in C : place[c] <= place[n]
  <2>1. m \in C /\ C \in SUBSET DOMAIN d.node /\ C \subseteq R
    OBVIOUS
  <2>2. IsFiniteSet(C)
    BY <1>2, <2>1, FS_Subset
  <2> HIDE DEF C, R
  <2> QED
    BY <1>1, <2>1, <2>2, LeastOf
<1>6. c \in DOMAIN d.node /\ c \notin S /\ d.node[c].parent = p /\ p \in DOMAIN d.node /\ p # Nil
  BY <1>4, NilAssumption DEF Sane, Shaped
<1> DEFINE b == d.node[c].prev
<1>7. CASE b = Nil
  <2>1. d.node[p].first = c
    BY <1>6, <1>7 DEF Sane, Linked
  <2>2. c # Nil
    BY <1>6, NilAssumption DEF Sane, Shaped
  <2> QED
    BY <1>4, <1>6, <2>1, <2>2 DEF ClosedBelow
<1>8. CASE b # Nil
  <2>1. b \in DOMAIN d.node /\ d.node[b].parent = p /\ d.node[b].next = c
    BY <1>6, <1>8 DEF Sane, Linked, Child, Nodes
  <2>2. c # Nil
    BY <1>6, NilAssumption DEF Sane, Shaped
  <2>3. place[b] < place[c] /\ place[b] \in Int /\ place[c] \in Int
    BY <1>1, <1>6, <2>1, <2>2
  <2>4. b \notin C
    BY <1>5, <2>3
  <2>5. b \in S
    BY <2>1, <2>4
  <2> QED
    BY <1>6, <2>1, <2>2, <2>5 DEF ClosedBelow
<1> QED
  BY <1>7, <1>8

\* What was seen is closed, or there is more of it than there were turns.
Explored(d, i, s) ==
    /\ s.doc = d /\ s = [doc |-> d, seen |-> s.seen]
    /\ s.seen \in SUBSET DOMAIN d.node /\ {Doc} \cup Roots(d) \subseteq s.seen
    /\ ClosedBelow(d, s.seen) \/ Cardinality(s.seen) > i

LEMMA ExploreKeeps ==
    ASSUME NEW d, Sane(d), NEW i \in Nat, NEW s, Explored(d, i, s)
    PROVE  Explored(d, i + 1, Explore(s))
<1> DEFINE S == s.seen
           F == {d.node[n].first : n \in S} \cup {d.node[n].next : n \in S}
           N == (S \cup F) \ {Nil}
           t == Explore(s)
<1>1. /\ s = [doc |-> d, seen |-> S] /\ s.doc = d /\ S \in SUBSET DOMAIN d.node /\ {Doc} \cup Roots(d) \subseteq S
      /\ ClosedBelow(d, S) \/ Cardinality(S) > i
  BY DEF Explored
<1>2. t = [doc |-> d, seen |-> N]
  <2>1. t = [s EXCEPT !.seen = N]
    BY <1>1 DEF Explore
  <2> HIDE DEF N, S, t
  <2> QED
    BY <1>1, <2>1
<1>3. Nil \notin DOMAIN d.node /\ IsFiniteSet(DOMAIN d.node)
  BY NilAssumption DEF Sane, Shaped
<1>4. \A n \in DOMAIN d.node : {d.node[n].first, d.node[n].next} \subseteq DOMAIN d.node \cup {Nil}
  BY Pointers DEF Sane, Nodes
<1>5. S \subseteq N /\ N \in SUBSET DOMAIN d.node
  BY <1>1, <1>3, <1>4
<1>6. ClosedBelow(d, N) \/ Cardinality(N) > i + 1
  <2>1. CASE N = S
    BY <2>1 DEF ClosedBelow
  <2>2. CASE N # S
    <3>1. ~ClosedBelow(d, S)
      BY <1>3, <1>5, <2>2 DEF ClosedBelow
    <3> HIDE DEF N, S
    <3>2. IsFiniteSet(N) /\ IsFiniteSet(S)
      BY <1>3, <1>5, FS_Subset
    <3>3. Cardinality(S) \in Nat /\ Cardinality(N) \in Nat /\ Cardinality(S) < Cardinality(N)
      BY <1>5, <2>2, <3>2, FS_Subset, FS_CardinalityType
    <3> QED
      BY <1>1, <3>1, <3>3
  <2> QED
    BY <2>1, <2>2
<1> HIDE DEF N, t
<1> QED
  BY <1>1, <1>2, <1>5, <1>6 DEF Explored, t

\* From the document and the unlinked nodes every node is reached: none is lost.
THEOREM AllAreReached ==
    ASSUME NEW d, Sane(d)
    PROVE  Reachable(d) = DOMAIN d.node
<1> DEFINE k == Cardinality(DOMAIN d.node)
           start == [doc |-> d, seen |-> {Doc} \cup ToSet(d.unlinked)]
<1>1. k \in Nat
  BY FS_CardinalityType DEF Sane, Shaped
<1>2. Explored(d, 0, start)
  <2>1. ToSet(d.unlinked) = Roots(d)
    BY DEF Sane, Tallied
  <2> DEFINE S == {Doc} \cup ToSet(d.unlinked)
  <2>2. S \in SUBSET DOMAIN d.node /\ {Doc} \cup Roots(d) \subseteq S
    BY <2>1 DEF Sane, Linked, Roots, Nodes
  <2>3. IsFiniteSet(S)
    BY <2>2, FS_Subset DEF Sane, Shaped
  <2>4. Cardinality(S) > 0
    BY <2>3, FS_CardinalityType, FS_EmptySet
  <2> HIDE DEF S
  <2>5. start = [doc |-> d, seen |-> S]
    BY DEF S
  <2> HIDE DEF start
  <2> QED
    BY <2>2, <2>4, <2>5 DEF Explored
<1> HIDE DEF start, k
<1>3. PICK turn : /\ turn[0] = start /\ turn[k] = Exploring!Turns(start, k)
                  /\ \A i \in 1 .. k : turn[i] = Explore(turn[i - 1])
  BY <1>1, Exploring!TurnsFacts
<1> DEFINE T == {i \in 0 .. k : Explored(d, i, turn[i])}
<1>4. 0 \in T
  BY <1>1, <1>2, <1>3
<1>5. \A i \in 1 .. k : i - 1 \in T => i \in T
  <2> SUFFICES ASSUME NEW i \in 1 .. k, i - 1 \in T PROVE i \in T
    OBVIOUS
  <2>1. Explored(d, i - 1, turn[i - 1]) /\ i - 1 \in Nat /\ (i - 1) + 1 = i
    BY <1>1
  <2> HIDE DEF T
  <2>2. Explored(d, i, turn[i])
    BY <1>3, <2>1, ExploreKeeps
  <2>3. i \in 0 .. k
    BY <1>1
  <2> QED
    BY <2>2, <2>3 DEF T
<1>6. k \in T
  <2> HIDE DEF T
  <2> QED
    BY <1>1, <1>4, <1>5, Exploring!UpTo
<1>7. Explored(d, k, turn[k])
  BY <1>6
<1> DEFINE S == turn[k].seen
<1>8. Reachable(d) = S
  BY <1>3 DEF Reachable, start, k
<1>9. ~(Cardinality(S) > k)
  <2>1. S \in SUBSET DOMAIN d.node
    BY <1>7 DEF Explored
  <2> HIDE DEF S
  <2> QED
    BY <2>1, FS_Subset, FS_CardinalityType DEF Sane, Shaped, k
<1>10. S \in SUBSET DOMAIN d.node /\ {Doc} \cup Roots(d) \subseteq S /\ ClosedBelow(d, S)
  BY <1>7, <1>9 DEF Explored
<1> QED
  BY <1>8, <1>10, ClosedIsAll
=============================================================================
