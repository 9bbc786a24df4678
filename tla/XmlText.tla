------------------------------ MODULE XmlText ------------------------------
(***************************************************************************)
(* The strings of tinyxml2 (src/filter/lib/tinyxml): scanning a text, what *)
(* StrPair::GetStr makes of the raw text of a node, in place, when it is   *)
(* first asked for, and what XMLPrinter::PrintString writes for it.        *)
(*                                                                         *)
(* A text is a sequence of characters, which are strings of length one; a  *)
(* byte that is not printable has the name Byte gives it.  Positions count *)
(* from 1, and 0 is a null pointer.                                        *)
(***************************************************************************)
EXTENDS Integers, Sequences, SequencesExt

Chars(str) == [i \in 1 .. Len(str) |-> SubSeq(str, i, i)]

Printable == " !\"#$%&'()*+,-./0123456789:;<=>?@ABCDEFGHIJKLMNOPQRSTUVWXYZ[\\]^_?abcdefghijklmnopqrstuvwxyz{|}~"

Byte(b) ==
    CASE b = 9 -> "\t" [] b = 10 -> "\n" [] b = 12 -> "\f" [] b = 13 -> "\r"
      [] b \in (32 .. 126) \ {96} -> SubSeq(Printable, b - 31, b - 31)
      [] OTHER -> "\\" \o ToString(b)

Nul == "\\0" \* Byte(0)
CR == "\r"
LF == "\n"
VT == "\\11" \* Byte(11)
WhiteSpace == {" ", "\t", LF, VT, "\f", CR}
Digits == ToSet(Chars("0123456789"))
NameStart ==
    ToSet(Chars("abcdefghijklmnopqrstuvwxyzABCDEFGHIJKLMNOPQRSTUVWXYZ:_"))
    \cup {Byte(b) : b \in 128 .. 255}
NameChars == NameStart \cup Digits \cup {".", "-"}

-----------------------------------------------------------------------------
\* A text ends with a NUL that is not part of it.
At(x, p) == IF p \in DOMAIN x THEN x[p] ELSE Nul

HasAt(x, p, t) == p + Len(t) - 1 <= Len(x) /\ SubSeq(x, p, p + Len(t) - 1) = t

\* Where t begins at or after p (strchr, and the loop of ParseText), or 0.
Find(x, p, t) ==
    LET found == {i \in p .. Len(x) : HasAt(x, i, t)}
    IN  IF found = {} THEN 0 ELSE Min(found)

SkipWhile(x, p, S) == Min({i \in p .. Len(x) : x[i] \notin S} \cup {Len(x) + 1})

SkipWhiteSpace(x, p) == SkipWhile(x, p, WhiteSpace)

\* The position after the name at p, or 0.
ParseName(x, p) == IF At(x, p) \in NameStart THEN SkipWhile(x, p, NameChars) ELSE 0

BOM == <<Byte(239), Byte(187), Byte(191)>>

-----------------------------------------------------------------------------
(***************************************************************************)
(* Decoding.                                                               *)
(***************************************************************************)
Entities ==
    {[pattern |-> <<"q", "u", "o", "t">>, value |-> "\""], [pattern |-> <<"a", "m", "p">>, value |-> "&"],
     [pattern |-> <<"a", "p", "o", "s">>, value |-> "'"], [pattern |-> <<"l", "t">>, value |-> "<"],
     [pattern |-> <<"g", "t">>, value |-> ">"]}

\* A byte of a code point that is not the first.
Continued(c, shift) == Byte(128 + ((c \div shift) % 64))

ConvertUTF32ToUTF8(c) ==
    IF c < 128 THEN <<Byte(c)>>
    ELSE IF c < 2048 THEN <<Byte(192 + c \div 64), Continued(c, 1)>>
    ELSE IF c < 65536 THEN <<Byte(224 + c \div 4096), Continued(c, 64), Continued(c, 1)>>
    ELSE <<Byte(240 + c \div 262144), Continued(c, 4096), Continued(c, 64), Continued(c, 1)>>

MaxCodePoint == 1114111

DigitValue(c) ==
    LET at(s) == SelectInSeq(Chars(s), LAMBDA d : d = c)
    IN  IF at("0123456789abcdef") > 0 THEN at("0123456789abcdef") - 1
        ELSE at("0123456789ABCDEF") - 1

\* One digit, from the last to the first; a scale beyond MaxCodePoint is cut to it.
AddDigit(s) ==
    IF s.digits = <<>> THEN s
    ELSE [value |-> s.value + s.scale * DigitValue(Last(s.digits)),
          scale |-> Min({s.scale * s.radix, MaxCodePoint}), radix |-> s.radix, digits |-> Front(s.digits)]

Adding == INSTANCE Loop WITH Step <- AddDigit

\* (Wraps at 2^32, which takes more than 250 digits.)
Value(digits, radix) ==
    Adding!Turns([value |-> 0, scale |-> 1, radix |-> radix, digits |-> digits], Len(digits)).value

NoRef == [next |-> 0, chars |-> <<>>]

\* Mutant: the terminator is taken for a part of what follows.
GetCharacterRefShort(x, p) ==
    LET semicolon == Find(x, p, <<";">>)
        hex == At(x, p + 2) = "x"
        from == IF hex THEN p + 3 ELSE p + 2
        digits == SubSeq(x, from, semicolon - 1)
    IN  IF semicolon = 0 \/ ~(ToSet(digits) \subseteq Digits) THEN NoRef
        ELSE [next |-> semicolon, chars |-> ConvertUTF32ToUTF8(Value(digits, IF hex THEN 16 ELSE 10))]

\* The reference that begins with the "&#" at p: what it stands for and where it
\* ends, or NoRef.  The digits are those after the last '#' or 'x' before the
\* semicolon; without any the code point is 0.
GetCharacterRef(x, p) ==
    LET hex == At(x, p + 2) = "x"
        from == IF hex THEN p + 3 ELSE p + 2
        semicolon == Find(x, from, <<";">>)
        begin == Max({i \in p + 1 .. semicolon - 1 : x[i] = IF hex THEN "x" ELSE "#"})
        digits == SubSeq(x, begin + 1, semicolon - 1)
        allowed == Digits \cup IF hex THEN ToSet(Chars("abcdefABCDEF")) ELSE {}
        code == Value(digits, IF hex THEN 16 ELSE 10)
    IN  CASE At(x, p + 2) = Nul -> [next |-> p + 1, chars |-> <<>>]
          [] At(x, p + 2) # Nul /\ semicolon = 0 -> NoRef
          [] OTHER -> IF ToSet(digits) \subseteq allowed /\ code <= MaxCodePoint
                      THEN [next |-> semicolon + 1, chars |-> ConvertUTF32ToUTF8(code)]
                      ELSE NoRef

\* A buffer that is read at p and written at q: characters are written and the
\* read pointer moves to next.
Put(s, chars, next) ==
    [buf |-> [i \in DOMAIN s.buf |-> IF i \in s.q .. s.q + Len(chars) - 1 THEN chars[i - s.q + 1] ELSE s.buf[i]],
     p |-> next, q |-> s.q + Len(chars)]

\* Without a reference its '&' is an ordinary character.
PutRef(s, ref) == IF ref.next = 0 THEN Put(s, <<"&">>, s.p + 1) ELSE Put(s, ref.chars, ref.next)

\* The entities that are spelled at p.
EntitiesAt(x, p) == {e \in Entities : HasAt(x, p + 1, e.pattern \o <<";">>)}

\* One turn of the loop of GetStr.  What is not an entity leaves the byte at the
\* write pointer as it is.
Turn(s, entities) ==
    LET c == s.buf[s.p]
        after == At(s.buf, s.p + 1)
        known == EntitiesAt(s.buf, s.p)
    IN  CASE c \in {CR, LF} ->
                Put(s, <<LF>>, IF after \in {CR, LF} \ {c} THEN s.p + 2 ELSE s.p + 1)
          [] c = "&" /\ entities /\ after = "#" ->
                PutRef(s, GetCharacterRef(s.buf, s.p))
          [] c = "&" /\ entities /\ after # "#" ->
                IF known = {} THEN [buf |-> s.buf, p |-> s.p + 1, q |-> s.q + 1]
                ELSE LET e == CHOOSE e \in known : TRUE
                     IN  Put(s, <<e.value>>, s.p + Len(e.pattern) + 2)
          [] OTHER -> Put(s, <<c>>, s.p + 1)

\* entities: whether they are replaced.
DecodeTurn(s) == IF s.at.p > Len(s.at.buf) THEN s ELSE [at |-> Turn(s.at, s.entities), entities |-> s.entities]

Decoding == INSTANCE Loop WITH Step <- DecodeTurn

\* The buffer after k turns; no character takes more than one.
After(raw, entities, k) ==
    Decoding!Turns([at |-> [buf |-> raw, p |-> 1, q |-> 1], entities |-> entities], k).at

\* A C string ends at its first NUL.
CString(x) == LET end == Find(x, 1, <<Nul>>) IN IF end = 0 THEN x ELSE SubSeq(x, 1, end - 1)

Written(s) == CString(SubSeq(s.buf, 1, s.q - 1))

GetStr(raw, entities) == Written(After(raw, entities, Len(raw)))

JoinTurn(s) ==
    IF s.rest = <<>> THEN s ELSE [joined |-> s.joined \o Head(s.rest), rest |-> Tail(s.rest)]

Joining == INSTANCE Loop WITH Step <- JoinTurn

\* The texts, one after the other.
Join(texts) == Joining!Turns([joined |-> <<>>, rest |-> texts], Len(texts)).joined

\* Whitespace is cut off at both ends and is one blank elsewhere.
CollapseWhitespace(x) ==
    LET Begins(i) == i > 1 /\ x[i - 1] \notin WhiteSpace /\ \E j \in i .. Len(x) : x[j] \notin WhiteSpace
        Kept(i) == IF x[i] \notin WhiteSpace THEN <<x[i]>> ELSE IF Begins(i) THEN <<" ">> ELSE <<>>
    IN  Join([i \in DOMAIN x |-> Kept(i)])

-----------------------------------------------------------------------------
\* PrintString: in a text (restricted) the quotes stay as they are.
Escape(x, restricted) ==
    LET escaped == {e \in Entities : ~restricted \/ e.value \notin {"\"", "'"}}
        Write(c) ==
            IF c \in {e.value : e \in escaped}
            THEN <<"&">> \o (CHOOSE e \in escaped : e.value = c).pattern \o <<";">>
            ELSE <<c>>
    IN  Join([i \in DOMAIN x |-> Write(x[i])])
=============================================================================
