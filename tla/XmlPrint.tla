------------------------------ MODULE XmlPrint ------------------------------
(***************************************************************************)
(* XMLPrinter of tinyxml2: what it writes when it visits a document.       *)
(* A printer is a record of what was written and of the members that       *)
(* decide where a line begins.                                             *)
(***************************************************************************)
EXTENDS XmlDom, XmlText

NewPrinter(compact) ==
    [out |-> <<>>, stack |-> <<>>, depth |-> 0, textDepth |-> -1,
     opened |-> FALSE, first |-> TRUE, compact |-> compact]

Emit(w, x) == [w EXCEPT !.out = @ \o x]
Indent(depth) == [i \in 1 .. 4 * depth |-> " "]
NewLine(w) == Emit(w, <<LF>> \o Indent(w.depth))

SealElementIfJustOpened(w) ==
    IF w.opened THEN [Emit(w, <<">">>) EXCEPT !.opened = FALSE] ELSE w

\* Mutant: a line begins after a text too.
PrepareForNewNodeAlways(w) ==
    LET v == SealElementIfJustOpened(w)
    IN  IF w.compact THEN v
        ELSE [(IF v.first THEN Emit(v, Indent(v.depth)) ELSE NewLine(v)) EXCEPT !.first = FALSE]

\* Within an element that has a text no line begins.
PrepareForNewNode(w) ==
    LET v == SealElementIfJustOpened(w)
        begun == IF v.first THEN Emit(v, Indent(v.depth))
                 ELSE IF v.textDepth < 0 THEN NewLine(v) ELSE v
    IN  IF w.compact THEN v ELSE [begun EXCEPT !.first = FALSE]

PushAttribute(a) == <<" ">> \o a.name \o <<"=", "\"">> \o Escape(a.value, FALSE) \o <<"\"">>

OpenElement(w, node) ==
    LET v == Emit(PrepareForNewNode(w), <<"<">> \o node.value \o Join([i \in DOMAIN node.attrs |-> PushAttribute(node.attrs[i])]))
    IN  [v EXCEPT !.stack = Append(@, node.value), !.opened = TRUE, !.depth = @ + 1]

CloseElement(w) ==
    LET up == [w EXCEPT !.depth = @ - 1, !.stack = Front(@)]
        broken == IF up.textDepth < 0 /\ ~w.compact THEN NewLine(up) ELSE up
        closed == IF w.opened THEN Emit(up, <<"/", ">">>)
                  ELSE Emit(broken, <<"<", "/">> \o Last(w.stack) \o <<">">>)
        ended == IF up.depth = 0 /\ ~w.compact THEN Emit(closed, <<LF>>) ELSE closed
    IN  [ended EXCEPT !.opened = FALSE, !.textDepth = IF @ = up.depth THEN -1 ELSE @]

PushText(w, x) == Emit(SealElementIfJustOpened([w EXCEPT !.textDepth = w.depth - 1]), x)

PushMarkup(w, begin, value, end) == Emit(PrepareForNewNode(w), begin \o value \o end)
PushComment(w, value) == PushMarkup(w, <<"<", "!", "-", "-">>, value, <<"-", "-", ">">>)
PushDeclaration(w, value) == PushMarkup(w, <<"<", "?">>, value, <<"?", ">">>)
PushUnknown(w, value) == PushMarkup(w, <<"<", "!">>, value, <<">">>)
PushCData(w, value) ==
    PushText(w, <<"<", "!", "[", "C", "D", "A", "T", "A", "[">> \o value \o <<"]", "]", ">">>)

-----------------------------------------------------------------------------
(***************************************************************************)
(* Accept of a node calls itself for the children: open has the next node  *)
(* to visit, or Nil, of each list of children that is being visited.       *)
(***************************************************************************)
\* VisitEnter of an element, Visit of the others.
Visit(w, node) ==
    CASE node.kind = "element" -> OpenElement(w, node)
      [] node.kind = "text" -> PushText(w, Escape(node.value, TRUE))
      [] node.kind = "cdata" -> PushCData(w, node.value)
      [] node.kind = "comment" -> PushComment(w, node.value)
      [] node.kind = "declaration" -> PushDeclaration(w, node.value)
      [] OTHER -> PushUnknown(w, node.value)

AcceptTurn(s) ==
    LET c == Last(s.open)
        node == s.doc.node[c]
        inner == IF node.kind = "element" THEN <<node.first>> ELSE <<>>
    IN  IF c # Nil
        THEN [doc |-> s.doc, printer |-> Visit(s.printer, node), open |-> Front(s.open) \o <<node.next>> \o inner]
        ELSE IF Len(s.open) > 1
        THEN [doc |-> s.doc, printer |-> CloseElement(s.printer), open |-> Front(s.open)]
        ELSE s

Accepting == INSTANCE Loop WITH Step <- AcceptTurn

\* XMLDocument::Print, with the printer of SaveFile.
PrintDocument(d, compact) ==
    LET begun == IF d.bom THEN Emit(NewPrinter(compact), BOM) ELSE NewPrinter(compact)
    IN  Accepting!Turns([doc |-> d, printer |-> begun, open |-> <<d.node[Doc].first>>],
                        2 * Cardinality(DOMAIN d.node)).printer.out
=============================================================================
