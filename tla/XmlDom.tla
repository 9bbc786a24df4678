------------------------------- MODULE XmlDom -------------------------------
(***************************************************************************)
(* The document of tinyxml2: the calls of XmlLinks and those that delete,  *)
(* copy, look up and change what nodes hold.  Where the code calls itself  *)
(* for the children of a node, the calls under way are a sequence, the     *)
(* innermost last, and a turn is one pass of the innermost loop; the turns *)
(* are bounded by twice the number of nodes, of which each is reached and  *)
(* left once.                                                              *)
(***************************************************************************)
EXTENDS XmlLinks

Error(d) == d.error # "success"
SetError(d, e) == [d EXCEPT !.error = e]

-----------------------------------------------------------------------------
(***************************************************************************)
(* Deletion.                                                               *)
(***************************************************************************)
DeleteAttributes(d, n) ==
    [d EXCEPT !.node[n].attrs = <<>>, !.current["attribute"] = @ - Len(d.node[n].attrs)]

\* What DeleteNode does to a node before it deletes the children.
BeginDelete(d, n) == DeleteAttributes(MarkInUse(d, n), n)

\* open: the nodes whose children are being deleted.
DeleteTurn(s) ==
    LET n == Last(s.open)
        c == s.doc.node[n].first
    IN  IF c # Nil THEN [doc |-> BeginDelete(Unlink(s.doc, c), c), open |-> Append(s.open, c)]
        ELSE IF Len(s.open) > 1
        THEN [doc |-> Free(Set(s.doc, n, "last", Nil), n), open |-> Front(s.open)]
        ELSE s

Deleting == INSTANCE Loop WITH Step <- DeleteTurn

DeleteChildren(d, p) ==
    Set(Deleting!Turns([doc |-> d, open |-> <<p>>], 2 * Cardinality(DOMAIN d.node)).doc, p, "last", Nil)

\* The static XMLNode::DeleteNode, with the destructors.
DeleteNode(d, n) == Free(DeleteChildren(BeginDelete(d, n), n), n)

DeleteChild(d, n) == DeleteNode(Unlink(d, n), n)

\* XMLDocument::DeleteNode.
DeleteAnyNode(d, n) ==
    IF d.node[n].parent # Nil THEN DeleteChild(d, n) ELSE DeleteNode(SetTracked(d, n), n)

DeleteFirstUnlinked(d) == IF d.unlinked = <<>> THEN d ELSE DeleteAnyNode(d, Head(d.unlinked))

Sweeping == INSTANCE Loop WITH Step <- DeleteFirstUnlinked

DeleteUnlinked(d) == Sweeping!Turns(d, Len(d.unlinked))

Clear(d) ==
    [DeleteUnlinked(DeleteChildren(d, Doc)) EXCEPT !.error = "success", !.depth = 0]

\* The pools' Clear, after a text that could not be parsed.
ClearPools(d) == [d EXCEPT !.current = [p \in Pools |-> 0], !.untracked = [p \in Pools |-> 0]]

-----------------------------------------------------------------------------
(***************************************************************************)
(* Queries.                                                                *)
(***************************************************************************)
SiblingsFrom(d, n) ==
    LET from[m \in DOMAIN d.node \cup {Nil}] == IF m = Nil THEN <<>> ELSE <<m>> \o from[d.node[m].next]
    IN  from[n]

Children(d, p) == SiblingsFrom(d, d.node[p].first)

FindAttribute(d, e, name) == SelectInSeq(d.node[e].attrs, LAMBDA a : a.name = name)

\* A comment is skipped.
SkipComment(s) ==
    IF s.node # Nil /\ s.doc.node[s.node].kind = "comment" THEN [s EXCEPT !.node = s.doc.node[s.node].next] ELSE s

Skipping == INSTANCE Loop WITH Step <- SkipComment

\* The text of the first child that is not a comment, or Nil.
GetText(d, e) ==
    LET n == Skipping!Turns([doc |-> d, node |-> d.node[e].first], Cardinality(DOMAIN d.node)).node
    IN  IF n # Nil /\ d.node[n].kind \in {"text", "cdata"} THEN d.node[n].value ELSE Nil

\* The value of the attribute, or Nil.
Attribute(d, e, name) ==
    LET i == FindAttribute(d, e, name) IN IF i = 0 THEN Nil ELSE d.node[e].attrs[i].value

-----------------------------------------------------------------------------
(***************************************************************************)
(* Attributes, texts and copies.                                           *)
(***************************************************************************)
AddAttribute(d, e, name, value) ==
    [d EXCEPT !.node[e].attrs = Append(@, [name |-> name, value |-> value]),
              !.current["attribute"] = @ + 1]

\* FindOrCreateAttribute, then SetAttribute.
SetAttribute(d, e, name, value) ==
    LET i == FindAttribute(d, e, name)
    IN  IF i = 0 THEN AddAttribute(d, e, name, value)
        ELSE [d EXCEPT !.node[e].attrs[i].value = value]

DeleteAttribute(d, e, name) ==
    LET i == FindAttribute(d, e, name)
    IN  IF i = 0 THEN d
        ELSE [d EXCEPT !.node[e].attrs = RemoveAt(@, i), !.current["attribute"] = @ - 1]

\* Mutant: a text that is not the first child is looked for.
SetTextAppended(d, e, text) ==
    LET f == d.node[e].first
    IN  IF f # Nil /\ d.node[f].kind \in {"text", "cdata"} THEN Set(d, f, "value", text)
        ELSE InsertEndChild(CreateUnlinkedNode(d, "text", text), e, Fresh(d))

SetText(d, e, text) ==
    LET f == d.node[e].first
    IN  IF f # Nil /\ d.node[f].kind \in {"text", "cdata"} THEN Set(d, f, "value", text)
        ELSE InsertFirstChild(CreateUnlinkedNode(d, "text", text), e, Fresh(d))

\* attrs: the attributes that are still to be copied.
CopyAttribute(s) ==
    IF s.attrs = <<>> THEN s
    ELSE [doc |-> SetAttribute(s.doc, s.copy, Head(s.attrs).name, Head(s.attrs).value),
          copy |-> s.copy, attrs |-> Tail(s.attrs)]

CopyingAttributes == INSTANCE Loop WITH Step <- CopyAttribute

\* A copy in d of node n of document from: the node that Fresh(d) is.
ShallowClone(from, n, d) ==
    LET x == from.node[n]
        created == CreateUnlinkedNode(d, x.kind, x.value)
    IN  CopyingAttributes!Turns([doc |-> created, copy |-> Fresh(d), attrs |-> x.attrs], Len(x.attrs)).doc

\* open: the copies whose children are being copied, each with the next child.
CopyChild(s, c) ==
    LET x == s.from.node[c]
        moved == [s.open EXCEPT ![Len(s.open)] = [copy |-> Last(s.open).copy, child |-> x.next]]
    IN  [from |-> s.from, doc |-> ShallowClone(s.from, c, s.doc),
         open |-> Append(moved, [copy |-> Fresh(s.doc), child |-> x.first])]

\* The copy whose children are all there is inserted by Insert below the one that
\* was open before it.
CopyTurnWith(Insert(_, _, _), s) ==
    LET m == Last(s.open)
    IN  IF m.child # Nil THEN CopyChild(s, m.child)
        ELSE IF Len(s.open) > 1
        THEN [from |-> s.from, doc |-> Insert(s.doc, Last(Front(s.open)).copy, m.copy), open |-> Front(s.open)]
        ELSE s

\* Mutant: the children are inserted at the front.
CopyTurnReversed(s) == CopyTurnWith(InsertFirstChild, s)

CopyTurn(s) == CopyTurnWith(InsertEndChild, s)

Copying == INSTANCE Loop WITH Step <- CopyTurn

\* The children of node n of document from are copied into d, below copy.
CopyChildren(from, n, d, copy) ==
    Copying!Turns([from |-> from, doc |-> d, open |-> <<[copy |-> copy, child |-> from.node[n].first]>>],
                  2 * Cardinality(DOMAIN from.node)).doc

DeepClone(from, n, d) == CopyChildren(from, n, ShallowClone(from, n, d), Fresh(d))

\* XMLDocument::DeepCopy: the document from is copied into d.
DeepCopy(from, d) == CopyChildren(from, Doc, Clear(d), Doc)

-----------------------------------------------------------------------------
(***************************************************************************)
(* What the calls keep.                                                    *)
(***************************************************************************)
VARIABLE doc \* the document of a program

\* Whatever is inserted, moved, deleted, copied or read: the pointers of parents,
\* of siblings and of children say the same, no node is in two places and none
\* is lost (src/filter/lib/tinyxml/tinyxml.cpp:888).
WellLinked == Reachable(doc) = DOMAIN doc.node /\ Linked(doc)

\* _unlinked holds the nodes without a parent, each once; the pools have as many
\* items in use as there are nodes and attributes, and count as untracked those
\* that were never inserted or deleted.  With nothing unlinked this is what
\* Clear asserts, and here after errors too
\* (src/filter/lib/tinyxml/tinyxml.cpp:2248).
UnlinkedAreCounted == Listed(doc) /\ Counted(doc)
=============================================================================
