------------------------------- MODULE MCXml -------------------------------
(* Xml on texts that reach every branch of the parser, on every text of a    *)
(* few pieces, and on every sequence of a few calls from small documents.    *)
EXTENDS Xml

Program(text, mode, n) == [file |-> text, mode |-> mode, edits |-> n]
Preserving(texts, n) == {Program(Chars(x), "preserve", n) : x \in texts}

MCNames == {<<"a">>, <<"b">>}
MCTexts == {<<"<", "\"">>}

\* Documents that calls change.
Small ==
    {"<a>t</a>", "<a><!--c-->x</a>", "<a b='1'/><b/>", "<a><b/><b/></a>", "<?d?><a><![CDATA[<]]></a>"}

\* Every sequence of up to n pieces.
Joined(pieces, n) == {FlattenSeq([i \in DOMAIN s |-> Chars(s[i])]) : s \in UNION {[1 .. k -> pieces] : k \in 0 .. n}}

Markup ==
    {"<a>", "</a>", "<b a=\"\r&lt;\">", "</b>", "<a/>", " t&gt;", "<!--x-->", "<![CDATA[&]]>",
     "<!d>", "<?d?>"}

Pieces == {"&", "#", "x", "65", "8364", "e9", ";", "&lt;", "\r", "\n", "&quot"}

Broken ==
    {"", " ", "<", "t", "<a", "<a ", "<a b", "<a b=", "<a b='", "<a b=c>", "<a b='1' b='2'/>", "<a,/>",
     "</a>", "< a></a>", "<a><a><a><a><a/></a></a></a></a>", "<!-- ", "<![CDATA[ ]]", "<? ", "<! ",
     "<a>t", "<a>t<", "<a/", "<a></b>", "<a><b></a>", "<a><?d?></a>", "<a/><?d?>", "<1>", "</1>",
     "&#1114111;", "&#x10FFFF;", "&#x7f;&#x80;", "&#x7ff;&#x800;", "&#xffff;&#x10000;"}

Wrapped(texts) == {Chars("<a>") \o x \o Chars("</a>") : x \in texts}

MCPlans ==
    Preserving(Small, 2) \cup Preserving({""}, 3) \cup Preserving(Broken, 0)
    \cup {Program(x, "preserve", 0) : x \in Joined(Markup, 2) \cup Wrapped(Joined(Markup, 3) \cup Joined(Pieces, 3))}
    \cup {Program(x, mode, 0) :
            x \in Wrapped(Joined({" ", "t", "&#32;", "<b/>"}, 4)), mode \in {"collapse", "pedantic"}}
    \cup {Program(BOM \o Chars("<a/>"), "preserve", 1)}
=============================================================================
