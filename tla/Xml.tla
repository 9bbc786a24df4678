-------------------------------- MODULE Xml --------------------------------
(***************************************************************************)
(* A program that uses tinyxml2: it reads a text into a document (Parse,   *)
(* LoadFile), changes the document through the calls of the library and    *)
(* saves it.  The file it reads at first, how it reads whitespace and how  *)
(* many calls it makes are its plan.                                       *)
(*                                                                         *)
(* A call the library does not allow is not made: only the document and    *)
(* elements get children, and never a node that they lie under (the code   *)
(* does not look whether they do).                                         *)
(***************************************************************************)
EXTENDS XmlParse, XmlPrint

CONSTANTS
    Plans,         \* the programs: [file, mode, edits]
    Names, Texts,  \* of elements and attributes; of the rest
    MaxNodes       \* bound on the nodes that calls create

Characters == {Byte(b) : b \in 0 .. 255}

ASSUME ProgramsAssumption ==
    /\ \A p \in Plans : p.file \in Seq(Characters)
    /\ \A x \in Names \cup Texts : x \in Seq(Characters)

VARIABLES
    file,     \* the text it is read from and saved to
    plan,     \* how the program began
    loads, edits, \* calls that were made
    crashed   \* a null pointer was used

vars == <<doc, file, plan, loads, edits, crashed>>

Init ==
    /\ plan \in Plans
    /\ doc = EmptyDocument /\ file = plan.file
    /\ loads = 0 /\ edits = 0
    /\ crashed = FALSE

-----------------------------------------------------------------------------
Load(d) ==
    /\ ~crashed /\ loads < 2
    /\ doc' = d /\ loads' = loads + 1
    /\ UNCHANGED <<file, plan, edits, crashed>>

ParseFile == Load(Parse(doc, file, plan.mode))
LoadFromFile == Load(LoadFile(doc, file, plan.mode))

Edit(d) ==
    /\ ~crashed /\ edits < plan.edits
    /\ doc' = d /\ edits' = edits + 1
    /\ UNCHANGED <<file, plan, loads, crashed>>

Room == Cardinality(Nodes(doc)) < MaxNodes
OfKind(kinds) == {n \in Nodes(doc) : doc.node[n].kind \in kinds}
Parents == OfKind({"element"}) \cup {Doc}
ChildrenOf(p) == {c \in Nodes(doc) : doc.node[c].parent = p}
ValuesOf(kind) == IF kind = "element" THEN Names ELSE Texts

Ascend(s) ==
    [s EXCEPT !.seen = (@ \cup {s.doc.node[n].parent : n \in @}) \ {Nil}]

Ascending == INSTANCE Loop WITH Step <- Ascend

\* The node and what it lies under.
Lineage(d, n) == Ascending!Turns([doc |-> d, seen |-> {n}], Cardinality(DOMAIN d.node)).seen

Movable(p) == Nodes(doc) \ Lineage(doc, p)

\* NewElement, NewText, ...
NewUnlinked(kind, value) == Room /\ Edit(CreateUnlinkedNode(doc, kind, value))

\* InsertNewChildElement, InsertNewText, ...
InsertNew(p, kind, value) ==
    Room /\ Edit(InsertEndChild(CreateUnlinkedNode(doc, kind, value), p, Fresh(doc)))

InsertEnd(p, n) == n \in Movable(p) /\ Edit(InsertEndChild(doc, p, n))
InsertFirst(p, n) == n \in Movable(p) /\ Edit(InsertFirstChild(doc, p, n))

InsertAfter(p, a, n) ==
    /\ n \in Movable(p) /\ ~InsertAfterCrashes(doc, a, n)
    /\ Edit(InsertAfterChild(doc, p, a, n))

InsertAfterFails(a, n) ==
    /\ ~crashed /\ edits < plan.edits
    /\ InsertAfterCrashes(doc, a, n)
    /\ crashed' = TRUE
    /\ UNCHANGED <<doc, file, plan, loads, edits>>

Insert ==
    \E p \in Parents, n \in Nodes(doc) :
        \/ InsertEnd(p, n) \/ InsertFirst(p, n)
        \/ \E a \in ChildrenOf(p) : InsertAfter(p, a, n) \/ InsertAfterFails(a, n)

Delete ==
    \/ \E n \in Nodes(doc) : Edit(DeleteAnyNode(doc, n))
    \/ \E p \in Parents : doc.node[p].first # Nil /\ Edit(DeleteChildren(doc, p))

SetValue(n, value) == Edit(Set(doc, n, "value", value))
WriteText(e, text) == Room /\ Edit(SetText(doc, e, text))
WriteAttribute(e, name, value) == Edit(SetAttribute(doc, e, name, value))
RemoveAttribute(e, name) == Edit(DeleteAttribute(doc, e, name))

Change ==
    \/ \E n \in Nodes(doc) : \E v \in ValuesOf(doc.node[n].kind) : SetValue(n, v)
    \/ \E e \in OfKind({"element"}) :
        \/ \E v \in Texts : WriteText(e, v)
        \/ \E name \in Names : (\E v \in Texts : WriteAttribute(e, name, v)) \/ RemoveAttribute(e, name)

New ==
    \E kind \in Kinds \ {"cdata"} : \E v \in ValuesOf(kind) :
        NewUnlinked(kind, v) \/ \E p \in Parents : InsertNew(p, kind, v)

Clone(n) == Room /\ Edit(DeepClone(doc, n, doc))

\* The program goes on with a copy of its document.
Copy == Edit(DeepCopy(doc, EmptyDocument))

Save(compact) ==
    /\ ~crashed /\ edits < plan.edits
    /\ doc' = SetError(doc, "success")
    /\ file' = PrintDocument(doc, compact)
    /\ edits' = edits + 1
    /\ UNCHANGED <<plan, loads, crashed>>

Next ==
    \/ ParseFile \/ LoadFromFile
    \/ New \/ Insert \/ Delete \/ Change \/ Copy
    \/ \E n \in Nodes(doc) : Clone(n)
    \/ \E compact \in BOOLEAN : Save(compact)

Spec == Init /\ [][Next]_vars

-----------------------------------------------------------------------------
(***************************************************************************)
(* Properties.                                                             *)
(***************************************************************************)
\* Wherever reading stops, what was read but not inserted has been deleted, no
\* element has two attributes with one name, and after an error Parse, unlike
\* LoadFile, leaves a document without a node
\* (src/filter/lib/tinyxml/tinyxml.cpp:1110, 1980, 2464).  The comment at 1985
\* says that duplicated attributes are added; the code at 1980 refuses them.
LoadLeavesNoOrphans ==
    [][loads' # loads =>
        /\ doc'.unlinked = <<>> /\ doc'.depth = 0
        /\ \A n \in Nodes(doc') :
            \A i, j \in DOMAIN doc'.node[n].attrs :
                doc'.node[n].attrs[i].name = doc'.node[n].attrs[j].name => i = j
        /\ Error(doc') /\ Nodes(doc') # {} => ~ParseFile]_vars

\* What a program can see of a node.
Tree(d, n) ==
    LET tree[m \in DOMAIN d.node] ==
            LET children == Children(d, m)
            IN  [kind |-> d.node[m].kind, value |-> d.node[m].value, attrs |-> d.node[m].attrs,
                 children |-> [i \in DOMAIN children |-> tree[children[i]]]]
    IN  tree[n]

\* A clone is equal to its node and lies under nothing, and a copied document
\* is equal to the one it was copied from
\* (src/filter/lib/tinyxml/tinyxml.cpp:865, 2258).
CopiesAreEqual ==
    [][/\ Copy => Tree(doc', Doc) = Tree(doc, Doc)
       /\ \A n \in Nodes(doc) : Clone(n) =>
            /\ Tree(doc', Fresh(doc)) = Tree(doc, n)
            /\ doc'.node[Fresh(doc)].parent = Nil
            /\ Tree(doc', Doc) = Tree(doc, Doc)]_vars

Follow(s) ==
    [s EXCEPT !.seen = (@ \cup {s.doc.node[n].next : n \in @}) \ {Nil}]

Following == INSTANCE Loop WITH Step <- Follow

\* The node and the siblings that come after it.
From(d, n) == Following!Turns([doc |-> d, seen |-> {n}], Cardinality(DOMAIN d.node)).seen

\* All nodes of both, but one, have the parent and the order they had.
Unmoved(d, e, moved) ==
    LET others == (Nodes(d) \cap Nodes(e)) \ {moved}
    IN  \A n \in others :
            /\ e.node[n].parent = d.node[n].parent
            /\ From(e, n) \cap others = From(d, n) \cap others

Siblings(d, n) == {m \in Nodes(d) : d.node[m].parent = d.node[n].parent}

\* A call moves at most one node: all others that are still there keep their
\* parent and their order; and a node that is inserted is where it was asked for
\* (src/filter/lib/tinyxml/tinyxml.cpp:925-1019).
EditsAreLocal ==
    [][edits' # edits /\ ~Copy =>
        /\ \E moved \in Nodes(doc) \cup {Doc} : Unmoved(doc, doc', moved)
        /\ \A p \in Parents, n \in Nodes(doc) :
            /\ InsertEnd(p, n) => doc'.node[n].parent = p /\ \A m \in Siblings(doc', n) : n \in From(doc', m)
            /\ InsertFirst(p, n) => doc'.node[n].parent = p /\ Siblings(doc', n) \subseteq From(doc', n)
            /\ \A a \in ChildrenOf(p) \ {n} :
                InsertAfter(p, a, n) => doc'.node[n].parent = p /\ doc'.node[a].next = n]_vars

\* GetText gives what SetText set, whatever children the element had, and an
\* attribute that was set has its value, the others theirs
\* (src/filter/lib/tinyxml/tinyxml.cpp:1688, 1707, 1912).
ReadsWhatWasWritten ==
    [][\A e \in OfKind({"element"}) :
        /\ \A v \in Texts : WriteText(e, v) => GetText(doc', e) = v
        /\ \A name \in Names, v \in Texts : WriteAttribute(e, name, v) =>
            \A other \in Names :
                Attribute(doc', e, other) = IF other = name THEN v ELSE Attribute(doc, e, other)]_vars

-----------------------------------------------------------------------------
\* Nothing in the value would be read as something else.
Storable(d, n) ==
    LET x == d.node[n]
        plain == x.kind = "text"
        Lacks(mark) == Find(x.value, 1, Chars(mark)) = 0
        siblings == {m \in {x.prev, x.next} \ {Nil} : d.node[m].kind = "text"}
    IN  /\ CR \notin ToSet(x.value)
        /\ \A i \in DOMAIN x.attrs : CR \notin ToSet(x.attrs[i].value)
        /\ plain => x.parent # Doc /\ siblings = {} /\ ~(ToSet(x.value) \subseteq WhiteSpace)
        /\ x.kind = "cdata" => Lacks("]]>")
        /\ x.kind = "comment" => Lacks("-->")
        /\ x.kind = "unknown" => Lacks(">") /\ ~HasAt(x.value, 1, <<"-", "-">>) /\ ~HasAt(x.value, 1, Chars("[CDATA["))
        /\ x.kind = "declaration" =>
            /\ Lacks("?>") /\ x.parent = Doc
            /\ x.prev # Nil => d.node[x.prev].kind = "declaration"

\* The documents whose parts a text keeps apart: without carriage returns, texts
\* of white space, texts side by side or at the top, or a value with the mark in
\* it that ends its own kind of node.
WithinXml(d) ==
    /\ d.node[Doc].first # Nil
    /\ \A n \in Nodes(d) : Doc \in Lineage(d, n) => Storable(d, n) /\ Cardinality(Lineage(d, n)) < MaxElementDepth

\* Such a document that is saved and read again is the same, in both layouts: what the
\* printer adds is never a part of a text, and what it escapes is what the reader
\* replaces (src/filter/lib/tinyxml/tinyxml.cpp:2738, 2664).
SavedIsReadBack ==
    LET Same(again) == ~Error(again) /\ Tree(again, Doc) = Tree(doc, Doc) /\ again.bom = doc.bom
    IN  WithinXml(doc) =>
            \A compact \in BOOLEAN :
                Same(Parse(EmptyDocument, PrintDocument(doc, compact), "preserve"))

-----------------------------------------------------------------------------
ByteOf(c) == CHOOSE b \in 0 .. 255 : Byte(b) = c

\* The code point of a UTF-8 sequence.
CodeOf(chars) ==
    LET b == [i \in DOMAIN chars |-> ByteOf(chars[i])]
        lead == CASE Len(b) = 1 -> 0 [] Len(b) = 2 -> 192 [] Len(b) = 3 -> 224 [] OTHER -> 240
    IN  FoldLeft(LAMBDA n, i : n * 64 + b[i] - 128, b[1] - lead, [i \in 1 .. Len(b) - 1 |-> i + 1])

\* The number a reference at p names, or 0 where there is no proper one or it has
\* seven digits or more.
RefAt(x, p) ==
    LET hex == HasAt(x, p + 2, <<"x">>)
        from == IF hex THEN p + 3 ELSE p + 2
        end == Find(x, from, <<";">>)
        allowed == Digits \cup IF hex THEN ToSet(Chars("abcdefABCDEF")) ELSE {}
        digits == SubSeq(x, from, end - 1)
    IN  IF HasAt(x, p, <<"&", "#">>) /\ end > from /\ Len(digits) < 7 /\ ToSet(digits) \subseteq allowed
        THEN FoldLeft(LAMBDA n, c : n * (IF hex THEN 16 ELSE 10) + DigitValue(c), 0, digits)
        ELSE 0

Proper(x, p) == EntitiesAt(x, p) # {} \/ RefAt(x, p) \in 1 .. MaxCodePoint

\* What XML says a text means.
Meaning(x) ==
    LET from[p \in 1 .. Len(x) + 7] ==
            IF p > Len(x) THEN <<>>
            ELSE CASE x[p] \in {CR, LF} ->
                        <<LF>> \o from[IF At(x, p + 1) \in {CR, LF} \ {x[p]} THEN p + 2 ELSE p + 1]
                   [] x[p] = "&" ->
                        (IF EntitiesAt(x, p) # {} THEN <<(CHOOSE e \in EntitiesAt(x, p) : TRUE).value>>
                         ELSE ConvertUTF32ToUTF8(RefAt(x, p)))
                        \o from[Find(x, p, <<";">>) + 1]
                   [] OTHER -> <<x[p]>> \o from[p + 1]
    IN  from[1]

InPlace(x) ==
    \A k \in 0 .. Len(x) : LET s == After(x, TRUE, k) IN s.q <= s.p /\ s.p <= Len(x) + 1

\* Decoding never writes a byte that it has still to read ("q + len <= adjusted"),
\* and where every '&' begins an entity or a reference, the text becomes what it
\* means (src/filter/lib/tinyxml/tinyxml.cpp:335, 345, 513-545).
DecodesInPlace ==
    LET ands == {p \in DOMAIN file : file[p] = "&"}
    IN  loads = 0 /\ edits = 0 =>
        /\ InPlace(file)
        /\ (\A p \in ands : Proper(file, p)) => GetStr(file, TRUE) = Meaning(file)
        /\ \A p \in ands :
            RefAt(file, p) \in 1 .. MaxCodePoint => CodeOf(GetCharacterRef(file, p).chars) = RefAt(file, p)
=============================================================================
