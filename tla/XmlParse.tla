------------------------------ MODULE XmlParse ------------------------------
(***************************************************************************)
(* The parser of tinyxml2: ParseDeep of the document and of every kind of  *)
(* node, over a text x.  What a call returns is a record of the document   *)
(* and of the position p, 0 for a null pointer.  XMLNode::ParseDeep calls  *)
(* itself for an element: the calls under way are a sequence of the nodes  *)
(* they are for, the innermost last, and a turn reads a node up to its     *)
(* children or takes an element whose children were read.                  *)
(***************************************************************************)
EXTENDS XmlDom, XmlText

CONSTANT MaxElementDepth \* TINYXML2_MAX_ELEMENT_DEPTH

Result(d, p) == [doc |-> d, p |-> p]
Failed(d, error) == Result(SetError(d, error), 0)

-----------------------------------------------------------------------------
\* What the text at p begins, and where its content does.
Headers ==
    <<[mark |-> <<"<", "?">>, kind |-> "declaration"],
      [mark |-> <<"<", "!", "-", "-">>, kind |-> "comment"],
      [mark |-> <<"<", "!", "[", "C", "D", "A", "T", "A", "[">>, kind |-> "cdata"],
      [mark |-> <<"<", "!">>, kind |-> "unknown"],
      [mark |-> <<"<">>, kind |-> "element"]>>

\* Identify: the node Fresh(d) is created for what comes after the whitespace; a
\* text begins with that whitespace.  Without anything there p is 0.
Identify(d, x, p, mode, first) ==
    LET q == SkipWhiteSpace(x, p)
        h == SelectInSeq(Headers, LAMBDA r : HasAt(x, q, r.mark))
        pedantic == mode = "pedantic" /\ first /\ q # p /\ HasAt(x, q, <<"<", "/">>)
    IN  IF q > Len(x) THEN Result(d, 0)
        ELSE IF h = 0 \/ (Headers[h].kind = "element" /\ pedantic)
        THEN Result(CreateUnlinkedNode(d, "text", <<>>), p)
        ELSE Result(CreateUnlinkedNode(d, Headers[h].kind, <<>>), q + Len(Headers[h].mark))

\* The content up to the mark end is the value of n.
ParseValue(d, x, p, n, end, error) ==
    LET i == Find(x, p, end)
    IN  IF i = 0 THEN Failed(d, error)
        ELSE Result(Set(d, n, "value", GetStr(SubSeq(x, p, i - 1), FALSE)), i + Len(end))

ParseCData(d, x, p, n) == ParseValue(d, x, p, n, <<"]", "]", ">">>, "parsing cdata")
ParseComment(d, x, p, n) == ParseValue(d, x, p, n, <<"-", "-", ">">>, "parsing comment")
ParseDeclaration(d, x, p, n) == ParseValue(d, x, p, n, <<"?", ">">>, "parsing declaration")
ParseUnknown(d, x, p, n) == ParseValue(d, x, p, n, <<">">>, "parsing unknown")

Collapsed(str, mode) == IF mode = "collapse" THEN CollapseWhitespace(str) ELSE str

\* A text must be followed by a tag: nothing but a '<' at the end of x is a null
\* pointer without an error.
ParseText(d, x, p, n, mode) ==
    LET i == Find(x, p, <<"<">>)
        value == Collapsed(GetStr(SubSeq(x, p, i - 1), TRUE), mode)
    IN  IF i = 0 THEN Failed(d, "parsing text")
        ELSE Result(Set(d, n, "value", value), IF i = Len(x) THEN 0 ELSE i)

-----------------------------------------------------------------------------
\* XMLAttribute::ParseDeep: its name, its value and the position after it.
ReadAttribute(x, p) ==
    LET endOfName == ParseName(x, p)
        equals == SkipWhiteSpace(x, endOfName)
        quote == SkipWhiteSpace(x, equals + 1)
        close == Find(x, quote + 1, <<At(x, quote)>>)
    IN  IF endOfName > Len(x) \/ At(x, equals) # "=" \/ At(x, quote) \notin {"\"", "'"} \/ close = 0
        THEN [p |-> 0]
        ELSE [p |-> close + 1, name |-> SubSeq(x, p, endOfName - 1),
              value |-> GetStr(SubSeq(x, quote + 1, close - 1), TRUE)]

\* The tag of a node is read; it ends with the result r.
EndOfTag(s, r) == [x |-> s.x, node |-> s.node, doc |-> r.doc, p |-> r.p, more |-> FALSE]

\* The attribute that fails was created and is deleted; one whose name the element
\* has already fails too, whatever the comment below the code says of it.
TakeAttribute(s, a) ==
    IF a.p = 0 \/ FindAttribute(s.doc, s.node, a.name) # 0
    THEN EndOfTag(s, Failed(s.doc, "parsing attribute"))
    ELSE [x |-> s.x, node |-> s.node, doc |-> AddAttribute(s.doc, s.node, a.name, a.value), p |-> a.p, more |-> TRUE]

\* One turn of the loop of ParseAttributes.
AttributeTurn(s) ==
    LET p == SkipWhiteSpace(s.x, s.p)
    IN  IF ~s.more THEN s
        ELSE IF At(s.x, p) \in NameStart THEN TakeAttribute(s, ReadAttribute(s.x, p))
        ELSE IF At(s.x, p) = ">" THEN EndOfTag(s, Result(s.doc, p + 1))
        ELSE IF HasAt(s.x, p, <<"/", ">">>)
        THEN EndOfTag(s, Result(Set(s.doc, s.node, "closing", "closed"), p + 2))
        ELSE EndOfTag(s, Failed(s.doc, "parsing element"))

ReadingTag == INSTANCE Loop WITH Step <- AttributeTurn

\* Attributes, of four characters at least, up to the end of the tag.
ParseAttributes(d, x, p, n) ==
    ReadingTag!Turns([x |-> x, node |-> n, doc |-> d, p |-> p, more |-> TRUE], Len(x) \div 4 + 1)

\* XMLElement::ParseDeep up to the end of the tag: a closing tag is an element too.
ParseElement(d, x, p0, n) ==
    LET p == SkipWhiteSpace(x, p0)
        closing == At(x, p) = "/"
        begin == IF closing THEN p + 1 ELSE p
        end == ParseName(x, begin)
        named == Set(Set(d, n, "closing", IF closing THEN "closing" ELSE "open"),
                     n, "value", SubSeq(x, begin, end - 1))
    IN  IF end = 0 THEN Result(d, 0) ELSE ParseAttributes(named, x, end, n)

ParseNode(d, x, p, n, mode) ==
    CASE d.node[n].kind = "element" -> ParseElement(d, x, p, n)
      [] d.node[n].kind = "text" -> ParseText(d, x, p, n, mode)
      [] d.node[n].kind = "cdata" -> ParseCData(d, x, p, n)
      [] d.node[n].kind = "comment" -> ParseComment(d, x, p, n)
      [] d.node[n].kind = "declaration" -> ParseDeclaration(d, x, p, n)
      [] OTHER -> ParseUnknown(d, x, p, n)

-----------------------------------------------------------------------------
(***************************************************************************)
(* XMLNode::ParseDeep.  A reader is a record of the document doc, the text *)
(* x with the whitespace mode, the position p, the nodes open whose        *)
(* children are being read, whether the innermost of them has none yet     *)
(* (first), and the node that was read and not inserted yet, or Nil, with  *)
(* the name of the closing tag that its ParseDeep returned in end.         *)
(***************************************************************************)
\* PushDepth, when a node with children is entered.
PushDepth(d) ==
    [d EXCEPT !.depth = @ + 1, !.error = IF d.depth + 1 = MaxElementDepth THEN "depth exceeded" ELSE @]

Enter(s, d, p, n) ==
    [doc |-> PushDepth(d), x |-> s.x, mode |-> s.mode, p |-> p, open |-> Append(s.open, n),
     first |-> TRUE, node |-> Nil, end |-> <<>>]

\* PopDepth, when the innermost ParseDeep returns: the node it is for was read.
Leave(s, d, p, end) ==
    [doc |-> [d EXCEPT !.depth = @ - 1], x |-> s.x, mode |-> s.mode, p |-> p, open |-> Front(s.open),
     first |-> FALSE, node |-> Last(s.open), end |-> end]

\* The loop goes on: n is the node that was read, or Nil.
Stay(s, d, p, n) ==
    [doc |-> d, x |-> s.x, mode |-> s.mode, p |-> p, open |-> s.open,
     first |-> FALSE, node |-> n, end |-> <<>>]

\* The node that could not be read is deleted.
Reject(s, n, error) == Leave(s, SetError(DeleteAnyNode(s.doc, n), error), 0, <<>>)

\* Declarations come first, in the document.
WellLocated(d, parent) ==
    /\ parent = Doc
    /\ \/ d.node[Doc].first = Nil
       \/ /\ d.node[d.node[Doc].first].kind = "declaration"
          /\ d.node[d.node[Doc].last].kind = "declaration"

\* An element that was opened has its own end tag, another one has none.
Mismatch(d, n, end) ==
    IF d.node[n].closing = "open" THEN end # d.node[n].value ELSE end # <<>>

\* The node n was read: it is deleted, it ends the loop, or it is inserted.
Take(s, n) ==
    LET kind == s.doc.node[n].kind
        parent == Last(s.open)
    IN  IF s.p = 0 THEN Reject(s, n, IF Error(s.doc) THEN s.doc.error ELSE "parsing")
        ELSE IF kind = "declaration" /\ ~WellLocated(s.doc, parent)
        THEN Reject(s, n, "parsing declaration")
        ELSE IF kind = "element" /\ s.doc.node[n].closing = "closing"
        THEN Leave(s, DeleteNode(SetTracked(s.doc, n), n), s.p, s.doc.node[n].value)
        ELSE IF kind = "element" /\ Mismatch(s.doc, n, s.end)
        THEN Reject(s, n, "mismatched element")
        ELSE Stay(s, InsertEndChild(s.doc, parent, n), s.p, Nil)

\* The result r of what was identified as node n: an element whose begin tag was
\* read may have children.
Identified(s, r, n) ==
    IF r.doc.node[n].kind = "element" /\ r.p \in DOMAIN s.x /\ r.doc.node[n].closing = "open"
    THEN Enter(s, r.doc, r.p, n)
    ELSE Take(Stay(s, r.doc, r.p, n), n)

\* A ParseDeep that begins after an error, or is at the end, returns null.
ReadNext(s) ==
    LET id == Identify(s.doc, s.x, s.p, s.mode, s.first)
        n == Fresh(s.doc)
    IN  IF (s.first /\ Error(s.doc)) \/ s.p > Len(s.x) \/ id.p = 0
        THEN Leave(s, s.doc, 0, <<>>)
        ELSE Identified(s, ParseNode(id.doc, s.x, id.p, n, s.mode), n)

ReadTurn(s) ==
    IF s.open = <<>> THEN s ELSE IF s.node = Nil THEN ReadNext(s) ELSE Take(s, s.node)

Reading == INSTANCE Loop WITH Step <- ReadTurn

\* No character takes more than one turn, and the end two.
ParseDeep(d, x, p, mode) ==
    LET reader == [doc |-> d, x |-> x, mode |-> mode, p |-> 0, open |-> <<>>,
                   first |-> TRUE, node |-> Nil, end |-> <<>>]
    IN  Reading!Turns(Enter(reader, d, p, Doc), Len(x) + 2).doc

-----------------------------------------------------------------------------
\* The private Parse, on a document that was cleared.
ParseBuffer(d, x, mode) ==
    LET p == SkipWhiteSpace(x, 1)
        bom == HasAt(x, p, BOM)
        begin == IF bom THEN p + Len(BOM) ELSE p
        named == [d EXCEPT !.bom = bom]
    IN  IF begin > Len(x) THEN SetError(named, "empty document")
        ELSE ParseDeep(named, x, begin, mode)

\* Mutant: what was read before the error stays.
ParseKept(d, x, mode) ==
    IF x = <<>> THEN SetError(Clear(d), "empty document") ELSE ParseBuffer(Clear(d), x, mode)

Discard(d) == IF Error(d) THEN ClearPools(DeleteChildren(d, Doc)) ELSE d

\* Parse(xml): an error leaves no node.
Parse(d, x, mode) ==
    IF x = <<>> THEN SetError(Clear(d), "empty document")
    ELSE Discard(ParseBuffer(Clear(d), x, mode))

\* LoadFile, of a file that can be read: an error leaves what was read before it.
LoadFile(d, x, mode) ==
    IF x = <<>> THEN SetError(Clear(d), "empty document") ELSE ParseBuffer(Clear(d), x, mode)
=============================================================================
