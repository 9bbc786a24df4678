------------------------------ MODULE XmlProofs ------------------------------
(***************************************************************************)
(* Theorems about the parser, and about every document that a program      *)
(* makes with the calls of tinyxml2.                                       *)
(***************************************************************************)
EXTENDS Xml, XmlDomProofs

-----------------------------------------------------------------------------
(***************************************************************************)
(* Where the parser goes in a text.                                        *)
(***************************************************************************)
\* SkipWhile goes on to the first character that is not in W, or to the end.
LEMMA SkipFacts ==
    ASSUME NEW S, NEW x \in Seq(S), NEW p \in Nat \ {0}, NEW W
    PROVE  LET q == SkipWhile(x, p, W)
           IN  /\ q \in 1 .. Len(x) + 1
               /\ IF p <= Len(x) + 1 THEN p <= q ELSE q = Len(x) + 1
               /\ \A j \in p .. q - 1 : j \in 1 .. Len(x) /\ x[j] \in W
<1> DEFINE T == {i \in p .. Len(x) : x[i] \notin W} \cup {Len(x) + 1}
           q == SkipWhile(x, p, W)
<1>1. Len(x) \in Nat /\ T \in SUBSET Nat /\ T # {} /\ Len(x) + 1 \in T
  OBVIOUS
<1>2. q = Min(T)
  BY DEF SkipWhile
<1>3. q \in T /\ \A y \in T : q <= y
  <2> HIDE DEF T, q
  <2> QED
    BY <1>1, <1>2, LeastFresh
<1>4. q \in 1 .. Len(x) + 1 /\ IF p <= Len(x) + 1 THEN p <= q ELSE q = Len(x) + 1
  <2> HIDE DEF q
  <2> QED
    BY <1>1, <1>3
<1>5. ASSUME NEW j \in p .. q - 1 PROVE j \in 1 .. Len(x) /\ x[j] \in W
  <2> HIDE DEF q
  <2>1. j \in Nat /\ j < q /\ j \in 1 .. Len(x) /\ j \in p .. Len(x)
    BY <1>1, <1>4
  <2>2. j \notin T
    <3> HIDE DEF T
    <3> QED
      BY <1>3, <1>4, <2>1
  <2> QED
    BY <2>1, <2>2
<1> QED
  BY <1>4, <1>5

\* Find gives a place, at or after p, where t begins, or 0.
LEMMA FindFacts ==
    ASSUME NEW S, NEW x \in Seq(S), NEW p \in Nat \ {0}, NEW t
    PROVE  LET i == Find(x, p, t) IN i = 0 \/ (i \in p .. Len(x) /\ HasAt(x, i, t))
<1> DEFINE T == {i \in p .. Len(x) : HasAt(x, i, t)}
           i == Find(x, p, t)
<1>1. T \in SUBSET Nat
  OBVIOUS
<1>2. i = IF T = {} THEN 0 ELSE Min(T)
  BY DEF Find
<1>3. i = 0 \/ i \in T
  <2> HIDE DEF T, i
  <2> QED
    BY <1>1, <1>2, LeastFresh
<1> QED
  BY <1>3

\* What is found ends in the text.
LEMMA HasAtFacts ==
    ASSUME NEW S, NEW x \in Seq(S), NEW i \in Nat \ {0}, NEW t
    PROVE  HasAt(x, i, t) => i + Len(t) <= Len(x) + 1
BY DEF HasAt

\* One character is found where it stands.
LEMMA HasOneAt ==
    ASSUME NEW S, NEW x \in Seq(S), NEW i \in 1 .. Len(x), NEW c
    PROVE  HasAt(x, i, <<c>>) <=> x[i] = c
<1>1. Len(<<c>>) = 1 /\ i + 1 - 1 = i /\ i <= Len(x) /\ <<c>>[1] = c
  OBVIOUS
<1>2. Len(SubSeq(x, i, i)) = 1 /\ SubSeq(x, i, i)[1] = x[i] /\ SubSeq(x, i, i) \in Seq(S)
  OBVIOUS
<1>3. SubSeq(x, i, i) = <<x[i]>>
  <2> DEFINE u == SubSeq(x, i, i)
             v == <<x[i]>>
  <2>1. u \in Seq(S) /\ v \in Seq(S) /\ Len(u) = Len(v) /\ \A j \in 1 .. Len(u) : u[j] = v[j]
    BY <1>2
  <2> HIDE DEF u, v
  <2>2. u = v
    BY <2>1, SeqEqual
  <2> QED
    BY <2>2 DEF u, v
<1>4. HasAt(x, i, <<c>>) <=> SubSeq(x, i, i) = <<c>>
  BY <1>1 DEF HasAt
<1> QED
  BY <1>3, <1>4

\* ParseName gives the place after a name, which is not empty, or 0.
LEMMA ParseNameFacts ==
    ASSUME NEW S, NEW x \in Seq(S), NEW p \in Nat \ {0}
    PROVE  LET q == ParseName(x, p)
           IN  IF At(x, p) \in NameStart THEN q \in 1 .. Len(x) + 1 /\ IF p <= Len(x) THEN p + 1 <= q ELSE q = Len(x) + 1
               ELSE q = 0
<1> DEFINE q == SkipWhile(x, p, NameChars)
<1>1. q \in 1 .. Len(x) + 1 /\ IF p <= Len(x) + 1 THEN p <= q ELSE q = Len(x) + 1
  BY SkipFacts
<1>2. ASSUME p <= Len(x), At(x, p) \in NameStart PROVE p + 1 <= q
  <2>1. p \in DOMAIN x /\ p \in p .. Len(x)
    BY <1>2
  <2>2. x[p] \in NameChars
    BY <1>2, <2>1 DEF At, NameChars
  <2>3. q # p
    <3> DEFINE T == {i \in p .. Len(x) : x[i] \notin NameChars} \cup {Len(x) + 1}
    <3>1. T \in SUBSET Nat /\ T # {} /\ p \notin T
      BY <2>1, <2>2
    <3>2. q = Min(T)
      BY DEF SkipWhile
    <3> HIDE DEF T
    <3> QED
      BY <3>1, <3>2, LeastFresh
  <2> HIDE DEF q
  <2> QED
    BY <1>1, <1>2, <2>3
<1> HIDE DEF q
<1>3. ParseName(x, p) = IF At(x, p) \in NameStart THEN q ELSE 0
  BY DEF ParseName, q
<1> QED
  BY <1>1, <1>2, <1>3

-----------------------------------------------------------------------------
(***************************************************************************)
(* Texts: what is cut out of one, decoded, put together or escaped is one. *)
(***************************************************************************)
\* Of whatever elements, a function on 1 .. n is a sequence.
LEMMA TextOf ==
    ASSUME NEW n \in Nat, NEW f, f = [i \in 1 .. n |-> f[i]]
    PROVE  Text(f) /\ Len(f) = n /\ DOMAIN f = 1 .. n
<1> DEFINE S == {f[i] : i \in 1 .. n}
<1>1. f \in [1 .. n -> S]
  OBVIOUS
<1>2. f \in Seq(S)
  BY <1>1, SeqDef
<1>3. DOMAIN f = 1 .. n
  BY <1>1
<1>4. Len(f) \in Nat /\ DOMAIN f = 1 .. Len(f)
  BY <1>2, LenProperties
<1>5. Len(f) = n
  <2> HIDE DEF S
  <2> DEFINE k == Len(f)
  <2>1. k \in Nat /\ 1 .. k = 1 .. n
    BY <1>3, <1>4
  <2> HIDE DEF k
  <2>2. k = n
    BY <2>1
  <2> QED
    BY <2>2 DEF k
<1> QED
  BY <1>2, <1>3, <1>5 DEF Text

LEMMA TextHas ==
    ASSUME NEW x, Text(x)
    PROVE  Len(x) \in Nat /\ DOMAIN x = 1 .. Len(x) /\ x = [i \in 1 .. Len(x) |-> x[i]]
<1>1. PICK S : x \in Seq(S)
  BY DEF Text
<1>2. Len(x) \in Nat /\ DOMAIN x = 1 .. Len(x) /\ x \in [1 .. Len(x) -> S]
  BY <1>1, LenProperties
<1> HIDE <1>1
<1> QED
  BY <1>2

LEMMA TextPart ==
    ASSUME NEW x, NEW m \in Int, NEW n \in Int
    PROVE  Text(SubSeq(x, m, n)) /\ Len(SubSeq(x, m, n)) = IF m <= n THEN n - m + 1 ELSE 0
<1> DEFINE S == {x[i] : i \in m .. n}
<1>1. \A i \in m .. n : x[i] \in S
  OBVIOUS
<1> HIDE DEF S
<1> QED
  BY <1>1, SubSeqProperties DEF Text

LEMMA TextJoined ==
    ASSUME NEW u, Text(u), NEW v, Text(v)
    PROVE  Text(u \o v) /\ Len(u \o v) = Len(u) + Len(v)
<1>1. PICK S : u \in Seq(S)
  BY DEF Text
<1>2. PICK T : v \in Seq(T)
  BY DEF Text
<1>3. u \in Seq(S \cup T) /\ v \in Seq(S \cup T)
  BY <1>1, <1>2, SeqMonotonic
<1> DEFINE W == S \cup T
<1> HIDE DEF W
<1>4. u \in Seq(W) /\ v \in Seq(W)
  BY <1>3 DEF W
<1> QED
  BY <1>4, ConcatProperties DEF Text

LEMMA TextsAre ==
    /\ Text(<<>>)
    /\ \A a : Text(<<a>>)
    /\ \A a, b : Text(<<a, b>>)
    /\ \A a, b, c : Text(<<a, b, c>>)
    /\ \A a, b, c, e : Text(<<a, b, c, e>>)
<1>1. Text(<<>>)
  BY EmptySeq DEF Text
<1>2. ASSUME NEW a PROVE <<a>> \in Seq({a})
  OBVIOUS
<1>3. ASSUME NEW a, NEW b PROVE <<a, b>> \in Seq({a, b})
  OBVIOUS
<1>4. ASSUME NEW a, NEW b, NEW c PROVE <<a, b, c>> \in Seq({a, b, c})
  OBVIOUS
<1>5. ASSUME NEW a, NEW b, NEW c, NEW e PROVE <<a, b, c, e>> \in Seq({a, b, c, e})
  OBVIOUS
<1> QED
  BY <1>1, <1>2, <1>3, <1>4, <1>5 DEF Text

LEMMA JoinText ==
    ASSUME NEW texts, Text(texts), \A i \in DOMAIN texts : Text(texts[i])
    PROVE  Text(Join(texts))
<1> DEFINE k == Len(texts)
           start == [joined |-> <<>>, rest |-> texts]
           Good(s) == /\ Text(s.joined) /\ Text(s.rest)
                      /\ \A i \in DOMAIN s.rest : Text(s.rest[i])
<1>1. k \in Nat
  BY TextHas
<1>2. Good(start)
  BY TextsAre
<1>3. ASSUME NEW s, Good(s) PROVE Good(JoinTurn(s))
  <2>1. CASE s.rest = <<>>
    <3>1. JoinTurn(s) = s
      BY <2>1 DEF JoinTurn
    <3> HIDE DEF Good
    <3> QED
      BY <1>3, <3>1
  <2>2. CASE s.rest # <<>>
    <3> DEFINE t == JoinTurn(s)
    <3>1. t.joined = s.joined \o Head(s.rest) /\ t.rest = Tail(s.rest)
      BY <2>2 DEF JoinTurn
    <3>2. PICK S : s.rest \in Seq(S)
      BY <1>3 DEF Text
    <3>3. Head(s.rest) = s.rest[1] /\ 1 \in DOMAIN s.rest
      BY <2>2, <3>2
    <3>4. Text(t.joined)
      BY <1>3, <3>1, <3>3, TextJoined
    <3>5. /\ Tail(s.rest) \in Seq(S) /\ DOMAIN Tail(s.rest) = 1 .. Len(s.rest) - 1 /\ DOMAIN s.rest = 1 .. Len(s.rest)
          /\ \A i \in 1 .. Len(s.rest) - 1 : Tail(s.rest)[i] = s.rest[i + 1] /\ i + 1 \in 1 .. Len(s.rest)
      BY <2>2, <3>2, HeadTailProperties
    <3>6. Text(t.rest) /\ \A i \in DOMAIN t.rest : Text(t.rest[i])
      BY <1>3, <3>1, <3>5 DEF Text
    <3> QED
      BY <3>4, <3>6
  <2> QED
    BY <2>1, <2>2
<1> HIDE DEF start, k, Good
<1>4. PICK turn : /\ turn[0] = start /\ turn[k] = Joining!Turns(start, k)
                  /\ \A i \in 1 .. k : turn[i] = JoinTurn(turn[i - 1])
  BY <1>1, Joining!TurnsFacts
<1> DEFINE T == {i \in 0 .. k : Good(turn[i])}
<1>5. 0 \in T
  BY <1>1, <1>2, <1>4
<1>6. \A i \in 1 .. k : i - 1 \in T => i \in T
  BY <1>1, <1>3, <1>4
<1>7. k \in T
  <2> HIDE DEF T
  <2> QED
    BY <1>1, <1>5, <1>6, Joining!UpTo
<1>8. Join(texts) = turn[k].joined
  BY <1>4 DEF Join, start, k
<1> QED
  BY <1>7, <1>8 DEF Good

LEMMA JoinedText ==
    ASSUME NEW n \in Nat, NEW f, f = [i \in 1 .. n |-> f[i]], \A i \in 1 .. n : Text(f[i])
    PROVE  Text(Join(f))
BY JoinText, TextOf

LEMMA GreatestOf ==
    ASSUME NEW n \in Nat, NEW T \in SUBSET (0 .. n), T # {}
    PROVE  Max(T) \in T /\ \A y \in T : y <= Max(T)
<1> DEFINE U == {n - i : i \in T}
<1>1. U \in SUBSET Nat /\ U # {}
  <2>1. \A i \in T : n - i \in Nat
    OBVIOUS
  <2> QED
    BY <2>1
<1> HIDE DEF U
<1>2. Min(U) \in U /\ \A y \in U : Min(U) <= y
  BY <1>1, LeastFresh
<1>3. PICK x \in T : Min(U) = n - x
  BY <1>2 DEF U
<1>4. \A y \in T : n - y \in U
  BY DEF U
<1>5. \A y \in T : y <= x
  BY <1>2, <1>3, <1>4
<1>6. \E z \in T : \A y \in T : z >= y
  BY <1>5
<1>7. Max(T) \in T /\ \A y \in T : Max(T) >= y
  BY <1>6 DEF Max
<1> QED
  BY <1>7

LEMMA EntitiesFacts ==
    \A e \in Entities : Text(e.pattern) /\ Len(e.pattern) \in Nat
<1> DEFINE Good(e) == Text(e.pattern) /\ Len(e.pattern) \in Nat
<1>1. ASSUME NEW e \in Entities
      PROVE  \/ e.pattern = <<"q", "u", "o", "t">> \/ e.pattern = <<"a", "m", "p">>
             \/ e.pattern = <<"a", "p", "o", "s">> \/ e.pattern = <<"l", "t">> \/ e.pattern = <<"g", "t">>
  <2>1. \/ e = [pattern |-> <<"q", "u", "o", "t">>, value |-> "\""]
        \/ e = [pattern |-> <<"a", "m", "p">>, value |-> "&"]
        \/ e = [pattern |-> <<"a", "p", "o", "s">>, value |-> "'"]
        \/ e = [pattern |-> <<"l", "t">>, value |-> "<"]
        \/ e = [pattern |-> <<"g", "t">>, value |-> ">"]
    BY Zenon DEF Entities
  <2>2. \A p, v : [pattern |-> p, value |-> v].pattern = p
    OBVIOUS
  <2> QED
    BY <2>1, <2>2, Zenon
<1> QED
  <2> SUFFICES ASSUME NEW e \in Entities PROVE Good(e)
    OBVIOUS
  <2>1. Text(e.pattern)
    BY <1>1, TextsAre
  <2> QED
    BY <2>1, TextHas


\* One to four bytes; the code point 0 is one byte.
LEMMA ConvertFacts ==
    ASSUME NEW c
    PROVE  /\ Text(ConvertUTF32ToUTF8(c)) /\ Len(ConvertUTF32ToUTF8(c)) \in 0 .. 4
           /\ c = 0 => Len(ConvertUTF32ToUTF8(c)) = 1
<1> DEFINE one == <<Byte(c)>>
           two == <<Byte(192 + c \div 64), Continued(c, 1)>>
           three == <<Byte(224 + c \div 4096), Continued(c, 64), Continued(c, 1)>>
           four == <<Byte(240 + c \div 262144), Continued(c, 4096), Continued(c, 64), Continued(c, 1)>>
           y == ConvertUTF32ToUTF8(c)
<1>1. y = IF c < 128 THEN one ELSE IF c < 2048 THEN two ELSE IF c < 65536 THEN three ELSE four
  BY SMT DEF ConvertUTF32ToUTF8
<1>2. Text(one) /\ Text(two) /\ Text(three) /\ Text(four)
  <2>1. Text(one)
    BY TextsAre, SMT
  <2>2. Text(two)
    BY TextsAre, SMT
  <2>3. Text(three)
    BY TextsAre, SMT
  <2>4. Text(four)
    BY TextsAre, SMT
  <2> QED
    BY <2>1, <2>2, <2>3, <2>4, SMT
<1>3. Len(one) = 1 /\ Len(two) = 2 /\ Len(three) = 3 /\ Len(four) = 4
  BY SMT
<1> HIDE DEF one, two, three, four, y
<1>4. Text(y) /\ Len(y) \in 0 .. 4
  BY <1>1, <1>2, <1>3, SMT
<1>5. c = 0 => Len(y) = 1
  BY <1>1, <1>3, SMT
<1> QED
  BY <1>4, <1>5 DEF y

LEMMA NoDigits ==
    ASSUME NEW radix
    PROVE  Value(<<>>, radix) = 0
<1> DEFINE start == [value |-> 0, scale |-> 1, radix |-> radix, digits |-> <<>>]
<1>1. 0 \in Nat /\ Len(<<>>) = 0
  OBVIOUS
<1> HIDE DEF start
<1>2. PICK turn : /\ turn[0] = start /\ turn[0] = Adding!Turns(start, 0)
                  /\ \A i \in 1 .. 0 : turn[i] = AddDigit(turn[i - 1])
  BY <1>1, Adding!TurnsFacts
<1>3. Adding!Turns(start, 0) = start
  BY <1>2
<1>4. Value(<<>>, radix) = Adding!Turns(start, Len(<<>>)).value
  BY DEF Value, start
<1> QED
  BY <1>1, <1>3, <1>4 DEF start

\* What a reference takes of the text is not shorter than what it stands for.
LEMMA CharacterRefFacts ==
    ASSUME NEW x, Text(x), NEW p \in 1 .. Len(x), At(x, p + 1) = "#"
    PROVE  LET r == GetCharacterRef(x, p)
           IN  /\ Text(r.chars)
               /\ r.next = 0 \/ (r.next \in p + 1 .. Len(x) + 1 /\ Len(r.chars) \in 0 .. r.next - p)
<1> DEFINE k == Len(x)
           mark == IF At(x, p + 2) = "x" THEN "x" ELSE "#"
           hex == At(x, p + 2) = "x"
           radix == IF hex THEN 16 ELSE 10
           from == IF hex THEN p + 3 ELSE p + 2
           semicolon == Find(x, from, <<";">>)
           B == {i \in p + 1 .. semicolon - 1 : x[i] = IF hex THEN "x" ELSE "#"}
           begin == Max(B)
           digits == SubSeq(x, begin + 1, semicolon - 1)
           code == Value(digits, radix)
           chars == ConvertUTF32ToUTF8(code)
           r == GetCharacterRef(x, p)
<1>1. \/ r = [next |-> p + 1, chars |-> <<>>]
      \/ r = [next |-> 0, chars |-> <<>>]
      \/ semicolon # 0 /\ r = [next |-> semicolon + 1, chars |-> chars]
  <2> DEFINE allowed == Digits \cup IF hex THEN ToSet(Chars("abcdefABCDEF")) ELSE {}
             ref == IF ToSet(digits) \subseteq allowed /\ code <= MaxCodePoint
                    THEN [next |-> semicolon + 1, chars |-> chars] ELSE NoRef
  <2>1. CASE At(x, p + 2) = Nul
    BY <2>1 DEF GetCharacterRef
  <2>2. CASE At(x, p + 2) # Nul /\ semicolon = 0
    BY <2>2 DEF GetCharacterRef, NoRef
  <2>3. CASE At(x, p + 2) # Nul /\ semicolon # 0
    <3>1. r = ref
      BY <2>3 DEF GetCharacterRef
    <3> HIDE DEF r, chars, allowed, semicolon, digits, code
    <3> QED
      BY <2>3, <3>1 DEF NoRef
  <2> QED
    BY <2>1, <2>2, <2>3
<1>2. k \in Nat /\ DOMAIN x = 1 .. k /\ p \in 1 .. k
  BY TextHas
<1>3. p + 1 \in 1 .. k /\ x[p + 1] = "#"
  <2>1. Nul # "#"
    BY DEF Nul
  <2> HIDE DEF k
  <2> QED
    BY <1>2, <2>1 DEF At
<1>4. hex => p + 2 \in 1 .. k /\ x[p + 2] = "x"
  <2>1. Nul # "x"
    BY DEF Nul
  <2> HIDE DEF k
  <2> QED
    BY <1>2, <2>1 DEF At
<1>5. PICK S : x \in Seq(S)
  BY DEF Text
<1>6. semicolon = 0 \/ semicolon \in from .. k
  <2>1. from \in Nat \ {0}
    <3> HIDE DEF hex, k
    <3> QED
      BY <1>2
  <2> HIDE DEF from
  <2> QED
    BY <1>5, <2>1, FindFacts
<1> HIDE DEF r, chars, code, semicolon, k
<1>7. Text(chars) /\ Len(chars) \in 0 .. 4 /\ (code = 0 => Len(chars) = 1)
  BY ConvertFacts DEF chars
<1>8. ASSUME semicolon # 0 PROVE semicolon + 1 \in p + 1 .. k + 1 /\ Len(chars) \in 0 .. semicolon + 1 - p
  <2>1. semicolon \in from .. k /\ from \in Nat
    <3> HIDE DEF hex
    <3> QED
      BY <1>2, <1>6, <1>8
  <2>2. CASE semicolon >= p + 3
    <3> DEFINE l == Len(chars)
    <3>1. l \in 0 .. 4
      BY <1>7
    <3> HIDE DEF from, l
    <3>2. semicolon + 1 \in p + 1 .. k + 1 /\ l \in 0 .. semicolon + 1 - p
      BY <1>2, <2>1, <2>2, <3>1
    <3> QED
      BY <3>2 DEF l
  <2>3. CASE ~(semicolon >= p + 3)
    <3>1. ~hex /\ semicolon = p + 2
      <4> HIDE DEF hex
      <4> QED
        BY <1>2, <2>1, <2>3
    <3>2. B = {p + 1}
      <4>1. \A i : i \in p + 1 .. semicolon - 1 <=> i = p + 1
        BY <1>2, <3>1
      <4> HIDE DEF hex
      <4> QED
        BY <1>3, <3>1, <4>1
    <3>3. begin = p + 1
      <4>1. B \in SUBSET (0 .. k) /\ B # {} /\ \A i \in B : i = p + 1
        <5> HIDE DEF B
        <5> QED
          BY <1>2, <1>3, <3>2
      <4> HIDE DEF B
      <4>2. Max(B) \in B
        BY <1>2, <4>1, GreatestOf
      <4> QED
        BY <4>1, <4>2
    <3> HIDE DEF B, begin
    <3>4. digits = <<>>
      <4>1. begin + 1 \in Int /\ semicolon - 1 \in Int /\ semicolon - 1 < begin + 1
        BY <1>2, <3>1, <3>3
      <4> QED
        BY <4>1, SubSeqEmpty
    <3>5. code = 0
      BY <3>4, NoDigits DEF code
    <3> QED
      BY <1>2, <1>7, <2>1, <3>1, <3>5
  <2> QED
    BY <2>2, <2>3
<1>9. Len(<<>>) = 0
  OBVIOUS
<1>10. /\ Text(r.chars)
       /\ r.next = 0 \/ (r.next \in p + 1 .. k + 1 /\ Len(r.chars) \in 0 .. r.next - p)
  <2>1. CASE r = [next |-> p + 1, chars |-> <<>>]
    <3>1. r.next = p + 1 /\ r.chars = <<>>
      BY <2>1
    <3> QED
      BY <1>2, <1>9, <3>1, TextsAre
  <2>2. CASE r = [next |-> 0, chars |-> <<>>]
    BY <2>2, TextsAre
  <2>3. CASE semicolon # 0 /\ r = [next |-> semicolon + 1, chars |-> chars]
    <3>1. r.next = semicolon + 1 /\ r.chars = chars /\ semicolon # 0
      BY <2>3
    <3> DEFINE next == r.next
               l == Len(r.chars)
    <3>2. next = semicolon + 1 /\ l = Len(chars)
      BY <3>1
    <3> HIDE DEF semicolon, chars, next, l
    <3>3. semicolon \in Nat
      <4> HIDE DEF hex
      <4> QED
        BY <1>2, <1>6
    <3>4. semicolon + 1 \in p + 1 .. k + 1 /\ Len(chars) \in 0 .. semicolon + 1 - p
      BY <1>8, <3>1
    <3>5. next \in p + 1 .. k + 1 /\ l \in 0 .. next - p
      BY <1>2, <3>2, <3>3, <3>4
    <3>6. Text(r.chars)
      BY <1>7, <3>1
    <3> QED
      BY <3>5, <3>6 DEF next, l
  <2> HIDE DEF semicolon, chars
  <2> QED
    BY <1>1, <2>1, <2>2, <2>3
<1> QED
  BY <1>10 DEF r, k

\* While a text is decoded: it has the length it had, and the write pointer is not
\* beyond the read pointer.
Decodes(k, s) ==
    /\ Text(s.buf) /\ Len(s.buf) = k /\ s.p \in 1 .. k + 1 /\ s.q \in 1 .. s.p

LEMMA PutKeeps ==
    ASSUME NEW k \in Nat, NEW s, Decodes(k, s), NEW chars, Text(chars), NEW next \in s.p .. k + 1,
           Len(chars) \in 0 .. next - s.p
    PROVE  Decodes(k, Put(s, chars, next))
<1> DEFINE t == Put(s, chars, next)
           l == Len(chars)
<1>1. t.buf = [i \in 1 .. k |-> IF i \in s.q .. s.q + l - 1 THEN chars[i - s.q + 1] ELSE s.buf[i]]
      /\ t.p = next /\ t.q = s.q + l
  <2>1. DOMAIN s.buf = 1 .. k
    BY TextHas DEF Decodes
  <2> HIDE DEF l
  <2> QED
    BY <2>1 DEF Put, l
<1>2. Text(t.buf) /\ Len(t.buf) = k
  <2> HIDE DEF t
  <2>1. t.buf = [i \in 1 .. k |-> t.buf[i]]
    BY <1>1
  <2> QED
    BY <2>1, TextOf
<1> HIDE DEF t, l
<1>3. s.p \in 1 .. k + 1 /\ s.q \in 1 .. s.p /\ l \in 0 .. next - s.p
  BY DEF Decodes, l
<1>4. t.p \in 1 .. k + 1 /\ t.q \in 1 .. t.p
  BY <1>1, <1>3
<1> QED
  BY <1>2, <1>4 DEF Decodes, t

LEMMA TurnKeeps ==
    ASSUME NEW k \in Nat, NEW s, Decodes(k, s), s.p <= k, NEW entities \in BOOLEAN
    PROVE  Decodes(k, Turn(s, entities))
<1> DEFINE c == s.buf[s.p]
           after == At(s.buf, s.p + 1)
           known == EntitiesAt(s.buf, s.p)
           t == Turn(s, entities)
           newline == IF after \in {CR, LF} \ {c} THEN s.p + 2 ELSE s.p + 1
           ref == GetCharacterRef(s.buf, s.p)
<1>1. s.p \in 1 .. k /\ s.q \in 1 .. s.p /\ Text(s.buf) /\ Len(s.buf) = k /\ DOMAIN s.buf = 1 .. k
  BY TextHas DEF Decodes
<1>2. \A a : Text(<<a>>) /\ Len(<<a>>) = 1
  BY TextsAre
<1>3. ASSUME NEW a, NEW next \in s.p + 1 .. k + 1 PROVE Decodes(k, Put(s, <<a>>, next))
  <2>1. next \in s.p .. k + 1 /\ Len(<<a>>) \in 0 .. next - s.p
    BY <1>1, <1>2
  <2> QED
    BY <1>2, <2>1, PutKeeps
<1>4. s.p + 1 \in s.p + 1 .. k + 1
  BY <1>1
<1>5. CASE c \in {CR, LF}
  <2>1. t = Put(s, <<LF>>, newline)
    <3>1. c # "&"
      BY <1>5 DEF CR, LF
    <3> QED
      BY <1>5, <3>1 DEF Turn
  <2>2. newline \in s.p + 1 .. k + 1
    <3>1. Nul \notin {CR, LF}
      BY DEF Nul, CR, LF
    <3>2. after \in {CR, LF} \ {c} => s.p + 1 \in 1 .. k
      BY <1>1, <3>1 DEF At
    <3> HIDE DEF after, c
    <3> QED
      BY <1>1, <3>2
  <2> QED
    BY <1>3, <2>1, <2>2
<1>6. CASE c = "&" /\ entities /\ after = "#"
  <2>1. t = PutRef(s, ref)
    <3>1. c \notin {CR, LF}
      BY <1>6 DEF CR, LF
    <3> QED
      BY <1>6, <3>1 DEF Turn
  <2>2. Text(ref.chars) /\ (ref.next = 0 \/ (ref.next \in s.p + 1 .. k + 1 /\ Len(ref.chars) \in 0 .. ref.next - s.p))
    BY <1>1, <1>6, CharacterRefFacts
  <2> HIDE DEF ref, t
  <2>3. CASE ref.next = 0
    <3>1. t = Put(s, <<"&">>, s.p + 1)
      BY <2>1, <2>3 DEF PutRef
    <3> QED
      BY <1>3, <1>4, <3>1 DEF t
  <2>4. CASE ref.next # 0
    <3>1. t = Put(s, ref.chars, ref.next)
      BY <2>1, <2>4 DEF PutRef
    <3>2. ref.next \in s.p .. k + 1 /\ Len(ref.chars) \in 0 .. ref.next - s.p
      BY <1>1, <2>2, <2>4
    <3> QED
      BY <2>2, <3>1, <3>2, PutKeeps DEF t
  <2> QED
    BY <2>3, <2>4
<1>7. CASE c = "&" /\ entities /\ after # "#"
  <2> DEFINE e == CHOOSE e \in known : TRUE
             skipped == [buf |-> s.buf, p |-> s.p + 1, q |-> s.q + 1]
  <2>1. t = IF known = {} THEN skipped ELSE Put(s, <<e.value>>, s.p + Len(e.pattern) + 2)
    <3>1. c \notin {CR, LF}
      BY <1>7 DEF CR, LF
    <3> QED
      BY <1>7, <3>1 DEF Turn
  <2>2. ASSUME known = {} PROVE Decodes(k, t)
    <3>1. t.buf = s.buf /\ t.p = s.p + 1 /\ t.q = s.q + 1
      BY <2>1, <2>2
    <3> HIDE DEF t
    <3>2. t.p \in 1 .. k + 1 /\ t.q \in 1 .. t.p
      BY <1>1, <3>1
    <3> QED
      BY <1>1, <3>1, <3>2 DEF Decodes
  <2>3. ASSUME known # {} PROVE Decodes(k, t)
    <3>1. e \in Entities /\ HasAt(s.buf, s.p + 1, e.pattern \o <<";">>)
      BY <2>3 DEF EntitiesAt
    <3> HIDE DEF e
    <3>2. Text(e.pattern) /\ Len(e.pattern) \in Nat
      BY <3>1, EntitiesFacts
    <3>3. Len(e.pattern \o <<";">>) = Len(e.pattern) + 1
      BY <1>2, <3>2, TextJoined
    <3>4. s.p + 1 + (Len(e.pattern) + 1) - 1 <= k
      BY <1>1, <3>1, <3>3 DEF HasAt
    <3>5. s.p + Len(e.pattern) + 2 \in s.p + 1 .. k + 1
      BY <1>1, <3>2, <3>4
    <3>6. t = Put(s, <<e.value>>, s.p + Len(e.pattern) + 2)
      BY <2>1, <2>3
    <3> HIDE DEF t
    <3> QED
      BY <1>3, <3>5, <3>6
  <2> HIDE DEF known
  <2> QED
    BY <2>2, <2>3
<1>8. CASE c \notin {CR, LF} /\ ~(c = "&" /\ entities)
  <2>1. t = Put(s, <<c>>, s.p + 1)
    BY <1>8 DEF Turn
  <2> QED
    BY <1>3, <1>4, <2>1
<1> HIDE DEF t
<1>9. Decodes(k, t)
  BY <1>5, <1>6, <1>7, <1>8 DEF t
<1> QED
  BY <1>9 DEF t

LEMMA AfterFacts ==
    ASSUME NEW raw, Text(raw), NEW entities \in BOOLEAN, NEW n \in Nat
    PROVE  Decodes(Len(raw), After(raw, entities, n))
<1> DEFINE k == Len(raw)
           begin == [buf |-> raw, p |-> 1, q |-> 1]
           start == [at |-> begin, entities |-> entities]
           Good(s) == Decodes(k, s.at) /\ s.entities = entities
<1>1. k \in Nat
  BY TextHas
<1>2. Good(start)
  <2>1. begin.buf = raw /\ begin.p = 1 /\ begin.q = 1
    OBVIOUS
  <2>2. Decodes(k, begin)
    <3> HIDE DEF begin
    <3> QED
      BY <1>1, <2>1 DEF Decodes
  <2> QED
    BY <2>2
<1>3. ASSUME NEW s, Good(s) PROVE Good(DecodeTurn(s))
  <2>1. CASE s.at.p > Len(s.at.buf)
    BY <1>3, <2>1 DEF DecodeTurn
  <2>2. CASE ~(s.at.p > Len(s.at.buf))
    <3>1. DecodeTurn(s) = [at |-> Turn(s.at, entities), entities |-> entities]
      BY <1>3, <2>2 DEF DecodeTurn
    <3>2. Len(s.at.buf) = k /\ s.at.p \in Nat /\ Decodes(k, s.at)
      BY <1>1, <1>3 DEF Decodes
    <3> HIDE DEF k
    <3>3. s.at.p <= k
      BY <1>1, <2>2, <3>2
    <3>4. Decodes(k, Turn(s.at, entities))
      BY <1>1, <3>2, <3>3, TurnKeeps
    <3> QED
      BY <3>1, <3>4
  <2> QED
    BY <2>1, <2>2
<1> HIDE DEF start, k, Good
<1>4. PICK turn : /\ turn[0] = start /\ turn[n] = Decoding!Turns(start, n)
                  /\ \A i \in 1 .. n : turn[i] = DecodeTurn(turn[i - 1])
  BY Decoding!TurnsFacts
<1> DEFINE T == {i \in 0 .. n : Good(turn[i])}
<1>5. 0 \in T
  BY <1>2, <1>4
<1>6. \A i \in 1 .. n : i - 1 \in T => i \in T
  BY <1>3, <1>4
<1>7. n \in T
  <2> HIDE DEF T
  <2> QED
    BY <1>5, <1>6, Decoding!UpTo
<1>8. After(raw, entities, n) = turn[n].at
  BY <1>4 DEF After, start
<1> QED
  BY <1>7, <1>8 DEF Good, k

\* Whatever the text: what a reference or an entity stands for is written over what
\* has been read, and the read pointer stays within the text
\* (src/filter/lib/tinyxml/tinyxml.cpp:335).
THEOREM DecodingIsInPlace ==
    ASSUME NEW x, Text(x)
    PROVE  InPlace(x)
<1> SUFFICES ASSUME NEW k \in 0 .. Len(x)
             PROVE  After(x, TRUE, k).q <= After(x, TRUE, k).p /\ After(x, TRUE, k).p <= Len(x) + 1
  BY DEF InPlace
<1>1. k \in Nat /\ TRUE \in BOOLEAN /\ Len(x) \in Nat
  BY TextHas
<1> DEFINE s == After(x, TRUE, k)
           n == Len(x)
<1>2. Decodes(n, s)
  BY <1>1, AfterFacts
<1> HIDE DEF s, n
<1>3. s.q <= s.p /\ s.p <= n + 1
  BY <1>1, <1>2 DEF Decodes, n
<1> QED
  BY <1>3 DEF s, n

LEMMA GetStrText ==
    ASSUME NEW raw, Text(raw), NEW entities \in BOOLEAN
    PROVE  Text(GetStr(raw, entities))
<1> DEFINE s == After(raw, entities, Len(raw))
           y == SubSeq(s.buf, 1, s.q - 1)
           end == Find(y, 1, <<Nul>>)
<1>1. Len(raw) \in Nat
  BY TextHas
<1>2. Decodes(Len(raw), s)
  BY <1>1, AfterFacts
<1> HIDE DEF s
<1>3. s.q - 1 \in Int
  BY <1>1, <1>2 DEF Decodes
<1>4. Text(y)
  BY <1>3, TextPart
<1> HIDE DEF y
<1>5. PICK S : y \in Seq(S)
  BY <1>4 DEF Text
<1>6. end \in Nat
  <2>1. 1 \in Nat \ {0}
    OBVIOUS
  <2>2. end = 0 \/ end \in 1 .. Len(y)
    BY <1>5, <2>1, FindFacts
  <2> HIDE DEF end
  <2> QED
    BY <2>2
<1>7. GetStr(raw, entities) = IF end = 0 THEN y ELSE SubSeq(y, 1, end - 1)
  BY DEF GetStr, Written, CString, s, y
<1>8. Text(SubSeq(y, 1, end - 1))
  <2>1. 1 \in Int /\ end - 1 \in Int
    BY <1>6
  <2> QED
    BY <2>1, TextPart
<1> HIDE DEF end
<1> QED
  BY <1>4, <1>7, <1>8

LEMMA CollapsedText ==
    ASSUME NEW x, Text(x), NEW mode
    PROVE  Text(Collapsed(x, mode))
<1> DEFINE Begins(i) == i > 1 /\ x[i - 1] \notin WhiteSpace /\ \E j \in i .. Len(x) : x[j] \notin WhiteSpace
           Kept(i) == IF x[i] \notin WhiteSpace THEN <<x[i]>> ELSE IF Begins(i) THEN <<" ">> ELSE <<>>
           f == [i \in DOMAIN x |-> Kept(i)]
           n == Len(x)
<1>1. n \in Nat /\ DOMAIN x = 1 .. n
  BY TextHas
<1>2. \A i \in 1 .. n : Text(Kept(i))
  <2> HIDE DEF Begins
  <2> QED
    BY TextsAre
<1> HIDE DEF Kept, n
<1>3. f = [i \in 1 .. n |-> f[i]] /\ \A i \in 1 .. n : Text(f[i])
  BY <1>1, <1>2
<1>4. CollapseWhitespace(x) = Join(f)
  BY DEF CollapseWhitespace, Kept
<1> HIDE DEF f
<1>5. Text(Join(f))
  BY <1>1, <1>3, JoinedText
<1> QED
  BY <1>4, <1>5 DEF Collapsed

LEMMA EscapedText ==
    ASSUME NEW x, Text(x), NEW restricted
    PROVE  Text(Escape(x, restricted))
<1> DEFINE escaped == {e \in Entities : ~restricted \/ e.value \notin {"\"", "'"}}
           Found(c) == CHOOSE e \in escaped : e.value = c
           Write(c) ==
             IF c \in {e.value : e \in escaped} THEN <<"&">> \o Found(c).pattern \o <<";">> ELSE <<c>>
           f == [i \in DOMAIN x |-> Write(x[i])]
           n == Len(x)
<1>1. n \in Nat /\ DOMAIN x = 1 .. n
  BY TextHas
<1>2. ASSUME NEW c PROVE Text(Write(c))
  <2>1. CASE c \in {e.value : e \in escaped}
    <3>1. Found(c) \in escaped
      BY <2>1
    <3>2. Found(c) \in Entities
      BY <3>1
    <3> HIDE DEF Found
    <3>3. Text(Found(c).pattern)
      BY <3>2, EntitiesFacts
    <3>4. Text(<<"&">> \o Found(c).pattern)
      BY <3>3, TextsAre, TextJoined
    <3>5. Text(<<"&">> \o Found(c).pattern \o <<";">>)
      BY <3>4, TextsAre, TextJoined
    <3> HIDE DEF escaped
    <3> QED
      BY <2>1, <3>5
  <2>2. CASE c \notin {e.value : e \in escaped}
    <3> HIDE DEF escaped
    <3> QED
      BY <2>2, TextsAre
  <2> QED
    BY <2>1, <2>2
<1>3. Escape(x, restricted) = Join(f)
  BY DEF Escape
<1> HIDE DEF Write, n
<1>4. f = [i \in 1 .. n |-> f[i]] /\ \A i \in 1 .. n : Text(f[i])
  BY <1>1, <1>2
<1> HIDE DEF f
<1>5. Text(Join(f))
  BY <1>1, <1>4, JoinedText
<1> QED
  BY <1>3, <1>5

-----------------------------------------------------------------------------
(***************************************************************************)
(* What a node begins with.                                                *)
(***************************************************************************)
\* A mark of a header has at least one character.
LEMMA HeadersFacts ==
    /\ Len(Headers) = 5 /\ Headers[5].mark = <<"<">>
    /\ \A h \in 1 .. 5 : Len(Headers[h].mark) \in Nat \ {0} /\ Headers[h].kind # "text"
<1> DEFINE Sound(r) == Len(r.mark) \in Nat \ {0} /\ r.kind # "text"
<1>1. Len(Headers) = 5 /\ Headers[5].mark = <<"<">>
  BY DEF Headers
<1>2. Sound(Headers[1]) /\ Sound(Headers[2])
  BY DEF Headers
<1>3. Sound(Headers[3])
  BY DEF Headers
<1>4. Sound(Headers[4]) /\ Sound(Headers[5])
  BY DEF Headers
<1>5. \A h \in 1 .. 5 : Sound(Headers[h])
  <2> HIDE DEF Sound
  <2> QED
    BY <1>2, <1>3, <1>4
<1> QED
  BY <1>1, <1>5

\* What Identify makes of the place p: a text begins where it was, and not with a
\* tag; of everything else at least the first character is read.
LEMMA IdentifyFacts ==
    ASSUME NEW S, NEW x \in Seq(S), NEW p \in 1 .. Len(x), NEW mode, NEW first, NEW d
    PROVE  LET r == Identify(d, x, p, mode, first)
           IN  \/ r.p = 0
               \/ \E kind : /\ r.doc = CreateUnlinkedNode(d, kind, <<>>)
                            /\ IF kind = "text" THEN r.p = p /\ x[p] # "<" ELSE r.p \in p + 1 .. Len(x) + 1
<1> DEFINE q == SkipWhiteSpace(x, p)
           I == {i \in 1 .. Len(Headers) : HasAt(x, q, Headers[i].mark)}
           h == IF I # {} THEN Min(I) ELSE 0
           pedantic == mode = "pedantic" /\ first /\ q # p /\ HasAt(x, q, <<"<", "/">>)
           text == h = 0 \/ (Headers[h].kind = "element" /\ pedantic)
           r == Identify(d, x, p, mode, first)
           Sound(s) ==
             \/ s.p = 0
             \/ \E kind : /\ s.doc = CreateUnlinkedNode(d, kind, <<>>)
                          /\ IF kind = "text" THEN s.p = p /\ x[p] # "<" ELSE s.p \in p + 1 .. Len(x) + 1
<1>1. r = IF q > Len(x) THEN Result(d, 0)
          ELSE IF text THEN Result(CreateUnlinkedNode(d, "text", <<>>), p)
          ELSE Result(CreateUnlinkedNode(d, Headers[h].kind, <<>>), q + Len(Headers[h].mark))
  BY DEF Identify, SelectInSeq
<1>2. q \in p .. Len(x) + 1 /\ \A j \in p .. q - 1 : x[j] \in WhiteSpace
  <2>1. p \in Nat \ {0} /\ p <= Len(x) + 1
    OBVIOUS
  <2> QED
    BY <2>1, SkipFacts DEF SkipWhiteSpace
<1>3. h = 0 \/ (h \in 1 .. 5 /\ HasAt(x, q, Headers[h].mark))
  <2>1. I \in SUBSET Nat /\ I \subseteq 1 .. 5
    BY HeadersFacts
  <2>2. I # {} => Min(I) \in I
    <3> HIDE DEF I
    <3> QED
      BY <2>1, LeastFresh
  <2> HIDE DEF q
  <2> QED
    BY <2>1, <2>2
<1>4. ASSUME h = 0, q <= Len(x) PROVE x[q] # "<"
  <2>1. 5 \notin I
    <3>1. 5 \in I => h # 0
      <4>1. I \in SUBSET Nat
        OBVIOUS
      <4> HIDE DEF I
      <4>2. I # {} => Min(I) \in I
        BY <4>1, LeastFresh
      <4>3. 0 \notin I
        BY DEF I
      <4> QED
        BY <4>2, <4>3
    <3> QED
      BY <1>4, <3>1
  <2>2. ~HasAt(x, q, <<"<">>)
    <3>1. Len(Headers) = 5 /\ Headers[5].mark = <<"<">>
      BY HeadersFacts
    <3> HIDE DEF q, h, text, r, Sound
    <3>2. ~HasAt(x, q, Headers[5].mark)
      BY <2>1, <3>1
    <3> QED
      BY <3>1, <3>2
  <2> HIDE DEF q
  <2>3. q \in 1 .. Len(x)
    BY <1>2, <1>4
  <2> QED
    BY <2>2, <2>3, HasOneAt
<1>5. "<" \notin WhiteSpace
  BY DEF WhiteSpace, LF, VT, CR
<1> HIDE DEF q, h, r
<1>6. q > Len(x) => Sound(r)
  BY <1>1 DEF Result
<1>7. ASSUME q <= Len(x), text PROVE Sound(r)
  <2>1. x[p] # "<"
    <3>1. CASE q = p
      BY <1>4, <1>7, <3>1
    <3>2. CASE q # p
      <4>1. p \in p .. q - 1
        BY <1>2, <3>2
      <4> QED
        BY <1>2, <1>5, <4>1
    <3> QED
      BY <3>1, <3>2
  <2>2. r = Result(CreateUnlinkedNode(d, "text", <<>>), p)
    <3> HIDE DEF text
    <3> QED
      BY <1>1, <1>2, <1>7
  <2> QED
    BY <2>1, <2>2 DEF Result
<1>8. ASSUME q <= Len(x), ~text PROVE Sound(r)
  <2>1. h \in 1 .. 5 /\ HasAt(x, q, Headers[h].mark)
    BY <1>3, <1>8
  <2>2. q \in Nat \ {0}
    BY <1>2
  <2>3. q + Len(Headers[h].mark) <= Len(x) + 1
    BY <2>1, <2>2, HasAtFacts
  <2>4. Len(Headers[h].mark) \in Nat \ {0} /\ Headers[h].kind # "text"
    BY <2>1, HeadersFacts
  <2>5. r = Result(CreateUnlinkedNode(d, Headers[h].kind, <<>>), q + Len(Headers[h].mark))
    <3> HIDE DEF text
    <3> QED
      BY <1>1, <1>2, <1>8
  <2>6. q + Len(Headers[h].mark) \in p + 1 .. Len(x) + 1
    BY <1>2, <2>3, <2>4
  <2> QED
    BY <2>4, <2>5, <2>6 DEF Result
<1>9. q \in Nat /\ Len(x) \in Nat
  BY <1>2
<1>10. Sound(r)
  <2> HIDE DEF Sound, text
  <2> QED
    BY <1>6, <1>7, <1>8, <1>9
<1> QED
  BY <1>10 DEF r

-----------------------------------------------------------------------------
(***************************************************************************)
(* How deep the parser is: the calls on nodes do not count.                *)
(***************************************************************************)
Formed(d) ==
    d = [node |-> d.node, unlinked |-> d.unlinked, current |-> d.current,
         untracked |-> d.untracked, error |-> d.error, depth |-> d.depth, bom |-> d.bom]

AsDeep(d, e) == Formed(e) /\ e.depth = d.depth

LEMMA SetDepth ==
    ASSUME NEW d, Formed(d), NEW n, NEW member, NEW x
    PROVE  AsDeep(d, Set(d, n, member, x))
<1> DEFINE node == [d.node EXCEPT ![n][member] = x]
<1>1. CASE n = Nil
  BY <1>1 DEF Set, AsDeep
<1>2. CASE n # Nil
  <2>1. Set(d, n, member, x) = [d EXCEPT !.node = node]
    BY <1>2 DEF Set
  <2> HIDE DEF node
  <2> QED
    BY <2>1 DEF AsDeep, Formed
<1> QED
  BY <1>1, <1>2

LEMMA CountsDepth ==
    ASSUME NEW d, Formed(d), NEW n
    PROVE  /\ AsDeep(d, Free(d, n)) /\ AsDeep(d, SetTracked(d, n))
           /\ AsDeep(d, MarkInUse(d, n)) /\ AsDeep(d, DeleteAttributes(d, n))
<1> DEFINE node == [m \in DOMAIN d.node \ {n} |-> d.node[m]]
           unlinked == SwapRemove(d.unlinked, SelectInSeq(d.unlinked, LAMBDA m : m = n))
           bare == [d.node EXCEPT ![n].attrs = <<>>]
           less == [d.current EXCEPT ![PoolOf(d.node[n].kind)] = @ - 1]
           fewer == [d.current EXCEPT !["attribute"] = @ - Len(d.node[n].attrs)]
           tracked == [d.untracked EXCEPT ![PoolOf(d.node[n].kind)] = @ - 1]
<1>1. Free(d, n) = [d EXCEPT !.node = node, !.current = less]
  BY DEF Free, Formed
<1>2. SetTracked(d, n) = [d EXCEPT !.untracked = tracked]
  BY DEF SetTracked
<1>3. MarkInUse(d, n) = d \/ MarkInUse(d, n) = [d EXCEPT !.unlinked = unlinked]
  BY DEF MarkInUse
<1>4. DeleteAttributes(d, n) = [d EXCEPT !.node = bare, !.current = fewer]
  BY DEF DeleteAttributes, Formed
<1> HIDE DEF node, unlinked, bare, less, fewer, tracked
<1> QED
  BY <1>1, <1>2, <1>3, <1>4 DEF AsDeep, Formed

LEMMA CreateDepth ==
    ASSUME NEW d, Formed(d), NEW kind, NEW value
    PROVE  AsDeep(d, CreateUnlinkedNode(d, kind, value))
<1> DEFINE x == Fresh(d)
           node == [n \in DOMAIN d.node \cup {x} |-> IF n = x THEN NewNode(kind, value) ELSE d.node[n]]
           unlinked == Append(d.unlinked, x)
           current == [d.current EXCEPT ![PoolOf(kind)] = @ + 1]
           untracked == [d.untracked EXCEPT ![PoolOf(kind)] = @ + 1]
<1>1. CreateUnlinkedNode(d, kind, value) =
        [d EXCEPT !.node = node, !.unlinked = unlinked, !.current = current, !.untracked = untracked]
  BY DEF CreateUnlinkedNode, Formed
<1> HIDE DEF node, unlinked, current, untracked
<1> QED
  BY <1>1 DEF AsDeep, Formed

LEMMA PlaceDepth ==
    ASSUME NEW d, Formed(d), NEW n, NEW parent, NEW prev, NEW next
    PROVE  AsDeep(d, Place(d, n, parent, prev, next))
<1> DEFINE d1 == Set(d, n, "parent", parent)
           d2 == Set(d1, n, "prev", prev)
<1>1. AsDeep(d, d1)
  BY SetDepth
<1>2. AsDeep(d1, d2)
  BY <1>1, SetDepth DEF AsDeep
<1> HIDE DEF d1, d2
<1>3. AsDeep(d2, Set(d2, n, "next", next))
  BY <1>2, SetDepth DEF AsDeep
<1>4. Place(d, n, parent, prev, next) = Set(d2, n, "next", next)
  BY DEF Place, d1, d2
<1> QED
  BY <1>1, <1>2, <1>3, <1>4 DEF AsDeep

LEMMA UnlinkDepth ==
    ASSUME NEW d, Formed(d), NEW c
    PROVE  AsDeep(d, Unlink(d, c))
<1> DEFINE n == d.node[c]
           d1 == IF d.node[n.parent].first = c THEN Set(d, n.parent, "first", n.next) ELSE d
           d2 == IF d.node[n.parent].last = c THEN Set(d1, n.parent, "last", n.prev) ELSE d1
           d3 == Set(d2, n.prev, "next", n.next)
           d4 == Set(d3, n.next, "prev", n.prev)
<1>1. AsDeep(d, d1)
  BY SetDepth DEF AsDeep
<1> HIDE DEF d1
<1>2. AsDeep(d1, d2)
  BY <1>1, SetDepth DEF AsDeep
<1> HIDE DEF d2
<1>3. AsDeep(d2, d3)
  BY <1>2, SetDepth DEF AsDeep
<1> HIDE DEF d3
<1>4. AsDeep(d3, d4)
  BY <1>3, SetDepth DEF AsDeep
<1> HIDE DEF d4
<1>5. AsDeep(d4, Place(d4, c, Nil, Nil, Nil))
  BY <1>4, PlaceDepth DEF AsDeep
<1>6. Unlink(d, c) = Place(d4, c, Nil, Nil, Nil)
  BY DEF Unlink, d4, d3, d2, d1
<1> QED
  BY <1>1, <1>2, <1>3, <1>4, <1>5, <1>6 DEF AsDeep

LEMMA InsertDepth ==
    ASSUME NEW d, Formed(d), NEW p, NEW n
    PROVE  AsDeep(d, InsertEndChild(d, p, n))
<1> DEFINE d1 == InsertChildPreamble(d, n)
           l == d1.node[p].last
           d2 == IF l = Nil THEN Set(d1, p, "first", n) ELSE Set(d1, l, "next", n)
           d3 == Set(d2, p, "last", n)
<1>1. AsDeep(d, d1)
  <2>1. CASE d.node[n].parent # Nil
    BY <2>1, UnlinkDepth DEF InsertChildPreamble
  <2>2. CASE d.node[n].parent = Nil
    <3> DEFINE m == MarkInUse(d, n)
    <3>1. AsDeep(d, m)
      BY CountsDepth
    <3> HIDE DEF m
    <3>2. AsDeep(m, SetTracked(m, n))
      BY <3>1, CountsDepth DEF AsDeep
    <3> QED
      BY <2>2, <3>1, <3>2 DEF InsertChildPreamble, AsDeep, m
  <2> QED
    BY <2>1, <2>2
<1> HIDE DEF d1
<1>2. AsDeep(d1, d2)
  BY <1>1, SetDepth DEF AsDeep
<1> HIDE DEF d2
<1>3. AsDeep(d2, d3)
  BY <1>2, SetDepth DEF AsDeep
<1> HIDE DEF d3
<1>4. AsDeep(d3, Place(d3, n, p, l, Nil))
  BY <1>3, PlaceDepth DEF AsDeep
<1>5. InsertEndChild(d, p, n) = Place(d3, n, p, l, Nil)
  BY DEF InsertEndChild, d3, d2, d1
<1> HIDE DEF l
<1> QED
  BY <1>1, <1>2, <1>3, <1>4, <1>5 DEF AsDeep

LEMMA DeleteChildrenDepth ==
    ASSUME NEW d, Formed(d), IsFiniteSet(DOMAIN d.node), NEW p
    PROVE  AsDeep(d, DeleteChildren(d, p))
<1> DEFINE k == 2 * Cardinality(DOMAIN d.node)
           start == [doc |-> d, open |-> <<p>>]
<1>1. k \in Nat
  BY FS_CardinalityType
<1>2. AsDeep(d, start.doc)
  BY DEF AsDeep
<1>3. ASSUME NEW s, AsDeep(d, s.doc) PROVE AsDeep(d, DeleteTurn(s).doc)
  <2> DEFINE n == Last(s.open)
             c == s.doc.node[n].first
             t == DeleteTurn(s)
  <2>1. CASE c # Nil
    <3> DEFINE d1 == Unlink(s.doc, c)
               d2 == MarkInUse(d1, c)
    <3>1. AsDeep(s.doc, d1)
      BY <1>3, UnlinkDepth DEF AsDeep
    <3> HIDE DEF d1
    <3>2. AsDeep(d1, d2)
      BY <3>1, CountsDepth DEF AsDeep
    <3> HIDE DEF d2
    <3>3. AsDeep(d2, DeleteAttributes(d2, c))
      BY <3>2, CountsDepth DEF AsDeep
    <3>4. t.doc = DeleteAttributes(d2, c)
      BY <2>1 DEF DeleteTurn, BeginDelete, d1, d2
    <3> QED
      BY <1>3, <3>1, <3>2, <3>3, <3>4 DEF AsDeep
  <2>2. CASE c = Nil /\ Len(s.open) > 1
    <3> DEFINE d1 == Set(s.doc, n, "last", Nil)
    <3>1. AsDeep(s.doc, d1)
      BY <1>3, SetDepth DEF AsDeep
    <3> HIDE DEF d1
    <3>2. AsDeep(d1, Free(d1, n))
      BY <3>1, CountsDepth DEF AsDeep
    <3>3. t.doc = Free(d1, n)
      BY <2>2 DEF DeleteTurn, d1
    <3> QED
      BY <1>3, <3>1, <3>2, <3>3 DEF AsDeep
  <2>3. CASE c = Nil /\ ~(Len(s.open) > 1)
    <3>1. t = s
      BY <2>3 DEF DeleteTurn
    <3> QED
      BY <1>3, <3>1
  <2> QED
    BY <2>1, <2>2, <2>3
<1> HIDE DEF start, k
<1>4. PICK turn : /\ turn[0] = start /\ turn[k] = Deleting!Turns(start, k)
                  /\ \A i \in 1 .. k : turn[i] = DeleteTurn(turn[i - 1])
  BY <1>1, Deleting!TurnsFacts
<1> DEFINE T == {i \in 0 .. k : AsDeep(d, turn[i].doc)}
<1>5. 0 \in T
  BY <1>1, <1>2, <1>4
<1>6. \A i \in 1 .. k : i - 1 \in T => i \in T
  BY <1>1, <1>3, <1>4
<1>7. k \in T
  <2> HIDE DEF T
  <2> QED
    BY <1>1, <1>5, <1>6, Deleting!UpTo
<1> DEFINE e == turn[k].doc
<1>8. AsDeep(d, e)
  BY <1>7
<1>9. DeleteChildren(d, p) = Set(e, p, "last", Nil)
  BY <1>4 DEF DeleteChildren, start, k
<1> HIDE DEF e
<1>10. AsDeep(e, Set(e, p, "last", Nil))
  BY <1>8, SetDepth DEF AsDeep
<1> QED
  BY <1>8, <1>9, <1>10 DEF AsDeep

\* A node without a parent is deleted.
LEMMA DropDepth ==
    ASSUME NEW d, Formed(d), IsFiniteSet(DOMAIN d.node), NEW n, d.node[n].parent = Nil
    PROVE  AsDeep(d, DeleteAnyNode(d, n))
<1> DEFINE d1 == SetTracked(d, n)
           d2 == MarkInUse(d1, n)
           d3 == DeleteAttributes(d2, n)
           d4 == DeleteChildren(d3, n)
<1>1. AsDeep(d, d1) /\ d1.node = d.node
  BY CountsDepth DEF SetTracked, Formed
<1> HIDE DEF d1
<1>2. AsDeep(d1, d2) /\ d2.node = d1.node
  <2>1. AsDeep(d1, d2)
    BY <1>1, CountsDepth DEF AsDeep
  <2>2. d2.node = d1.node
    BY <1>1 DEF MarkInUse, AsDeep, Formed
  <2> QED
    BY <2>1, <2>2
<1> HIDE DEF d2
<1>3. AsDeep(d2, d3) /\ DOMAIN d3.node = DOMAIN d2.node
  <2>1. AsDeep(d2, d3)
    BY <1>2, CountsDepth DEF AsDeep
  <2>2. DOMAIN d3.node = DOMAIN d2.node
    BY <1>2 DEF DeleteAttributes, AsDeep, Formed
  <2> QED
    BY <2>1, <2>2
<1> HIDE DEF d3
<1>4. AsDeep(d3, d4)
  BY <1>1, <1>2, <1>3, DeleteChildrenDepth DEF AsDeep
<1> HIDE DEF d4
<1>5. AsDeep(d4, Free(d4, n))
  BY <1>4, CountsDepth DEF AsDeep
<1>6. DeleteAnyNode(d, n) = Free(d4, n)
  BY DEF DeleteAnyNode, DeleteNode, BeginDelete, d4, d3, d2, d1
<1> QED
  BY <1>1, <1>2, <1>3, <1>4, <1>5, <1>6 DEF AsDeep

-----------------------------------------------------------------------------
(***************************************************************************)
(* What is read of a node: the nodes stay where they are, and the parser   *)
(* goes on, stops, or is at the end.                                       *)
(***************************************************************************)
Steady(d, e) ==
    /\ Sane(e) /\ DOMAIN e.node = DOMAIN d.node /\ e.depth = d.depth
    /\ \A m \in DOMAIN d.node : e.node[m].parent = d.node[m].parent /\ e.node[m].kind = d.node[m].kind

\* At least k characters are read from p on.
Onward(x, p, k, q) == q \in Nat /\ (q # 0 => q > Len(x) \/ q >= p + k)

LEMMA HeldIsSteady ==
    ASSUME NEW d, Sane(d), NEW e, NEW n \in DOMAIN d.node, NEW f \in Members \ {"parent", "kind"}, Held(d, e, n, f)
    PROVE  Steady(d, e)
<1>1. {"parent", "kind"} \subseteq Members \ {f}
  BY DEF Members, Pointing
<1> QED
  BY <1>1 DEF Steady, Held

LEMMA SteadyTwice ==
    ASSUME NEW d, NEW e, NEW g, Steady(d, e), Steady(e, g)
    PROVE  Steady(d, g)
BY DEF Steady

LEMMA NotesAreSteady ==
    ASSUME NEW d, Sane(d), NEW e, e.depth = d.depth,
           e = [node |-> d.node, unlinked |-> d.unlinked, current |-> d.current,
                untracked |-> d.untracked, error |-> e.error, depth |-> e.depth, bom |-> e.bom]
    PROVE  Steady(d, e) /\ e.node = d.node
<1>1. Sane(e)
  BY NotesKeep
<1>2. e.node = d.node
  OBVIOUS
<1> QED
  BY <1>1, <1>2 DEF Steady

LEMMA ErrorIsSteady ==
    ASSUME NEW d, Sane(d), NEW error
    PROVE  Steady(d, SetError(d, error)) /\ SetError(d, error).node = d.node
<1> DEFINE e == SetError(d, error)
<1>1. d = [node |-> d.node, unlinked |-> d.unlinked, current |-> d.current,
           untracked |-> d.untracked, error |-> d.error, depth |-> d.depth, bom |-> d.bom]
  BY DEF Sane, Shaped
<1>2. e = [node |-> d.node, unlinked |-> d.unlinked, current |-> d.current,
           untracked |-> d.untracked, error |-> error, depth |-> d.depth, bom |-> d.bom]
  BY <1>1 DEF SetError
<1> HIDE DEF e
<1>3. e = [node |-> d.node, unlinked |-> d.unlinked, current |-> d.current,
           untracked |-> d.untracked, error |-> e.error, depth |-> e.depth, bom |-> e.bom]
  BY <1>2
<1>4. e.depth = d.depth
  BY <1>2
<1>5. Steady(d, e) /\ e.node = d.node
  BY <1>3, <1>4, NotesAreSteady
<1> QED
  BY <1>5 DEF e

\* The content of a node up to a mark.
LEMMA ParseValueFacts ==
    ASSUME NEW S, NEW x \in Seq(S), NEW p \in Nat \ {0}, NEW d, Sane(d), NEW n \in Nodes(d),
           NEW end, Len(end) \in Nat, NEW error
    PROVE  LET r == ParseValue(d, x, p, n, end, error)
           IN  Steady(d, r.doc) /\ Onward(x, p, 0, r.p)
<1> DEFINE i == Find(x, p, end)
           e == Set(d, n, "value", GetStr(SubSeq(x, p, i - 1), FALSE))
           r == ParseValue(d, x, p, n, end, error)
<1>1. i = 0 \/ i \in p .. Len(x)
  BY FindFacts
<1>2. Steady(d, e)
  <2>1. "value" \in Members \ {"parent", "kind"} /\ n \in DOMAIN d.node /\ n # Doc
    BY DEF Members, Pointing, Nodes, Doc
  <2> DEFINE raw == SubSeq(x, p, i - 1)
  <2>2. Text(raw)
    <3> HIDE DEF i
    <3>1. i - 1 \in Int /\ p \in Int
      BY <1>1
    <3> QED
      BY <3>1, TextPart
  <2> HIDE DEF i, raw
  <2>3. Text(GetStr(raw, FALSE))
    BY <2>2, GetStrText
  <2>4. Held(d, Set(d, n, "value", GetStr(raw, FALSE)), n, "value")
    BY <2>1, <2>3, ValueKeeps
  <2>5. Held(d, e, n, "value")
    BY <2>4 DEF raw
  <2> HIDE DEF e
  <2> QED
    BY <2>1, <2>5, HeldIsSteady
<1>3. r = IF i = 0 THEN [doc |-> SetError(d, error), p |-> 0] ELSE [doc |-> e, p |-> i + Len(end)]
  BY DEF ParseValue, Failed, Result
<1>4. Steady(d, SetError(d, error))
  BY ErrorIsSteady
<1> HIDE DEF i, e, r
<1>5. Steady(d, r.doc) /\ Onward(x, p, 0, r.p)
  BY <1>1, <1>2, <1>3, <1>4 DEF Onward
<1> QED
  BY <1>5 DEF r

\* A text has a character, and ends where a tag begins.
LEMMA ParseTextFacts ==
    ASSUME NEW S, NEW x \in Seq(S), NEW p \in 1 .. Len(x), x[p] # "<", NEW d, Sane(d), NEW n \in Nodes(d), NEW mode
    PROVE  LET r == ParseText(d, x, p, n, mode)
           IN  Steady(d, r.doc) /\ Onward(x, p, 1, r.p)
<1> DEFINE i == Find(x, p, <<"<">>)
           e == Set(d, n, "value", Collapsed(GetStr(SubSeq(x, p, i - 1), TRUE), mode))
           r == ParseText(d, x, p, n, mode)
<1>1. i = 0 \/ i \in p + 1 .. Len(x)
  <2>1. i = 0 \/ (i \in p .. Len(x) /\ HasAt(x, i, <<"<">>))
    BY FindFacts
  <2> HIDE DEF i
  <2>2. i = p => ~HasAt(x, i, <<"<">>)
    BY HasOneAt
  <2> QED
    BY <2>1, <2>2
<1>2. Steady(d, e)
  <2>1. "value" \in Members \ {"parent", "kind"} /\ n \in DOMAIN d.node /\ n # Doc
    BY DEF Members, Pointing, Nodes, Doc
  <2> DEFINE raw == SubSeq(x, p, i - 1)
             value == Collapsed(GetStr(raw, TRUE), mode)
  <2>2. Text(raw)
    <3> HIDE DEF i
    <3>1. i - 1 \in Int /\ p \in Int
      BY <1>1
    <3> QED
      BY <3>1, TextPart
  <2> HIDE DEF i, raw
  <2>3. Text(GetStr(raw, TRUE))
    BY <2>2, GetStrText
  <2>4. Text(value)
    BY <2>3, CollapsedText
  <2> HIDE DEF value
  <2>5. Held(d, Set(d, n, "value", value), n, "value")
    BY <2>1, <2>4, ValueKeeps
  <2>6. Held(d, e, n, "value")
    BY <2>5 DEF raw, value
  <2> HIDE DEF e
  <2> QED
    BY <2>1, <2>6, HeldIsSteady
<1>3. r = IF i = 0 THEN [doc |-> SetError(d, "parsing text"), p |-> 0]
          ELSE [doc |-> e, p |-> IF i = Len(x) THEN 0 ELSE i]
  BY DEF ParseText, Failed, Result
<1>4. Steady(d, SetError(d, "parsing text"))
  BY ErrorIsSteady
<1> HIDE DEF i, e, r
<1>5. Steady(d, r.doc)
  BY <1>2, <1>3, <1>4
<1>6. r.p = IF i = 0 THEN 0 ELSE IF i = Len(x) THEN 0 ELSE i
  BY <1>3
<1>7. Onward(x, p, 1, r.p)
  <2> DEFINE q == r.p
             k == Len(x)
  <2>1. k \in Nat /\ p \in Nat /\ (i = 0 \/ i \in p + 1 .. k) /\ q = IF i = 0 THEN 0 ELSE IF i = k THEN 0 ELSE i
    BY <1>1, <1>6
  <2> HIDE DEF q, k
  <2>2. q \in Nat /\ (q # 0 => q > k \/ q >= p + 1)
    BY <2>1
  <2> QED
    BY <2>2 DEF Onward, q, k
<1> QED
  BY <1>5, <1>7 DEF r

\* An attribute has a name, a '=' and two quotes.
LEMMA ReadAttributeFacts ==
    ASSUME NEW S, NEW x \in Seq(S), NEW p \in 1 .. Len(x) + 1, At(x, p) \in NameStart
    PROVE  LET a == ReadAttribute(x, p)
           IN  a.p = 0 \/ (a.p \in p + 4 .. Len(x) + 1 /\ Text(a.name) /\ Text(a.value))
<1> DEFINE k == Len(x)
           endOfName == ParseName(x, p)
           equals == SkipWhiteSpace(x, endOfName)
           quote == SkipWhiteSpace(x, equals + 1)
           close == Find(x, quote + 1, <<At(x, quote)>>)
           a == ReadAttribute(x, p)
           failed == endOfName > k \/ At(x, equals) # "=" \/ At(x, quote) \notin {"\"", "'"} \/ close = 0
           name == SubSeq(x, p, endOfName - 1)
           raw == SubSeq(x, quote + 1, close - 1)
<1>1. IF failed THEN a.p = 0 ELSE a.p = close + 1 /\ a.name = name /\ a.value = GetStr(raw, TRUE)
  BY DEF ReadAttribute
<1>2. k \in Nat /\ p \in Nat \ {0} /\ p <= k + 1
  OBVIOUS
<1>3. ASSUME ~failed PROVE close + 1 \in p + 4 .. k + 1 /\ Text(name) /\ Text(GetStr(raw, TRUE))
  <2>1. endOfName \in 1 .. k + 1 /\ IF p <= k THEN p + 1 <= endOfName ELSE endOfName = k + 1
    BY <1>2, ParseNameFacts
  <2>2. endOfName \in 1 .. k /\ p + 1 <= endOfName
    <3>1. ~(endOfName > k) /\ close # 0
      BY <1>3
    <3> HIDE DEF endOfName, close, k
    <3> QED
      BY <1>2, <2>1, <3>1
  <2>3. equals \in endOfName .. k + 1
    <3>1. endOfName \in Nat \ {0} /\ endOfName <= k + 1
      BY <2>2
    <3> HIDE DEF endOfName
    <3>2. equals \in 1 .. k + 1 /\ endOfName <= equals
      BY <3>1, SkipFacts DEF SkipWhiteSpace
    <3> QED
      BY <3>1, <3>2
  <2>4. quote \in 1 .. k + 1 /\ IF equals + 1 <= k + 1 THEN equals + 1 <= quote ELSE quote = k + 1
    <3>1. equals + 1 \in Nat \ {0}
      BY <2>2, <2>3
    <3> HIDE DEF equals
    <3> QED
      BY <3>1, SkipFacts DEF SkipWhiteSpace
  <2>5. close = 0 \/ close \in quote + 1 .. k
    <3>1. quote + 1 \in Nat \ {0}
      BY <2>4
    <3> HIDE DEF quote
    <3> QED
      BY <3>1, FindFacts
  <2>6. close # 0
    BY <1>3
  <2> HIDE DEF close, quote, equals, endOfName, k
  <2>7. Text(name)
    <3>1. p \in Int /\ endOfName - 1 \in Int
      BY <1>2, <2>2
    <3> QED
      BY <3>1, TextPart
  <2>8. Text(raw)
    <3>1. quote + 1 \in Int /\ close - 1 \in Int
      BY <2>4, <2>5, <2>6
    <3> QED
      BY <3>1, TextPart
  <2> HIDE DEF raw
  <2>9. Text(GetStr(raw, TRUE))
    BY <2>8, GetStrText
  <2>10. close + 1 \in p + 4 .. k + 1
    BY <1>2, <2>2, <2>3, <2>4, <2>5, <2>6
  <2> QED
    BY <2>7, <2>9, <2>10
<1> HIDE DEF failed, close, k, a, name, raw
<1>4. a.p = 0 \/ (a.p \in p + 4 .. k + 1 /\ Text(a.name) /\ Text(a.value))
  BY <1>1, <1>3
<1> QED
  BY <1>4 DEF k, a

\* The tag of node n: what was read of it before some turn of the loop.
InTag(x, d, n, p, i, s) ==
    /\ s = [x |-> x, node |-> n, doc |-> s.doc, p |-> s.p, more |-> s.more] /\ s.more \in BOOLEAN
    /\ Steady(d, s.doc) /\ s.p \in Nat
    /\ IF s.more THEN s.p \in p + 4 * i .. Len(x) + 1 ELSE s.p = 0 \/ s.p >= p + 1

LEMMA EndOfTagKeeps ==
    ASSUME NEW x, NEW d, NEW n, NEW p, NEW i, NEW s, InTag(x, d, n, p, i, s), NEW r,
           Steady(s.doc, r.doc), r.p \in Nat, r.p = 0 \/ r.p >= p + 1
    PROVE  InTag(x, d, n, p, i + 1, EndOfTag(s, r))
<1> DEFINE t == EndOfTag(s, r)
<1>1. t = [x |-> x, node |-> n, doc |-> r.doc, p |-> r.p, more |-> FALSE]
  <2>1. s.x = x /\ s.node = n
    BY DEF InTag
  <2> QED
    BY <2>1 DEF EndOfTag
<1>2. Steady(d, r.doc)
  BY SteadyTwice DEF InTag
<1> HIDE DEF t
<1>3. t.doc = r.doc /\ t.p = r.p /\ t.more = FALSE
  BY <1>1
<1>4. InTag(x, d, n, p, i + 1, t)
  BY <1>1, <1>2, <1>3 DEF InTag
<1> QED
  BY <1>4 DEF t

LEMMA TakeAttributeKeeps ==
    ASSUME NEW S, NEW x \in Seq(S), NEW d, Sane(d), NEW n \in Nodes(d), NEW p \in Nat \ {0}, NEW i \in Nat,
           NEW s, InTag(x, d, n, p, i, s), NEW a, s.more,
           a.p = 0 \/ (a.p \in s.p + 4 .. Len(x) + 1 /\ Text(a.name) /\ Text(a.value))
    PROVE  InTag(x, d, n, p, i + 1, TakeAttribute(s, a))
<1>1. s.x = x /\ s.node = n /\ Sane(s.doc) /\ n \in Nodes(s.doc) /\ s.p \in p + 4 * i .. Len(x) + 1
  BY DEF InTag, Steady, Nodes
<1>2. CASE a.p = 0 \/ FindAttribute(s.doc, s.node, a.name) # 0
  <2> DEFINE r == Failed(s.doc, "parsing attribute")
  <2>1. r.doc = SetError(s.doc, "parsing attribute") /\ r.p = 0
    BY DEF Failed, Result
  <2>2. Steady(s.doc, r.doc)
    BY <1>1, <2>1, ErrorIsSteady
  <2>3. TakeAttribute(s, a) = EndOfTag(s, r)
    BY <1>2 DEF TakeAttribute
  <2> HIDE DEF r
  <2>4. r.p = 0
    BY <2>1
  <2>5. InTag(x, d, n, p, i + 1, EndOfTag(s, r))
    BY <2>2, <2>4, EndOfTagKeeps
  <2> QED
    BY <2>3, <2>5
<1>3. CASE a.p # 0 /\ FindAttribute(s.doc, s.node, a.name) = 0
  <2> DEFINE e == AddAttribute(s.doc, n, a.name, a.value)
             t == TakeAttribute(s, a)
  <2>1. t = [x |-> x, node |-> n, doc |-> e, p |-> a.p, more |-> TRUE]
    BY <1>1, <1>3 DEF TakeAttribute
  <2>2. Held(s.doc, e, n, "attrs")
    BY <1>1, <1>3, AddAttributeKeeps DEF Added
  <2> HIDE DEF e
  <2>3. "attrs" \in Members \ {"parent", "kind"} /\ n \in DOMAIN s.doc.node
    BY <1>1 DEF Members, Pointing, Nodes
  <2>4. Steady(d, e)
    BY <1>1, <2>2, <2>3, HeldIsSteady, SteadyTwice DEF InTag
  <2>5. a.p \in p + 4 * (i + 1) .. Len(x) + 1 /\ a.p \in Nat
    BY <1>1, <1>3
  <2> HIDE DEF t
  <2>6. t.doc = e /\ t.p = a.p /\ t.more = TRUE
    BY <2>1
  <2>7. InTag(x, d, n, p, i + 1, t)
    BY <2>1, <2>4, <2>5, <2>6 DEF InTag
  <2> QED
    BY <2>7 DEF t
<1> QED
  BY <1>2, <1>3

LEMMA AttributeTurnKeeps ==
    ASSUME NEW S, NEW x \in Seq(S), NEW d, Sane(d), NEW n \in Nodes(d), NEW p \in Nat \ {0}, NEW i \in Nat,
           NEW s, InTag(x, d, n, p, i, s)
    PROVE  InTag(x, d, n, p, i + 1, AttributeTurn(s))
<1> DEFINE q == SkipWhiteSpace(x, s.p)
           closed == Set(s.doc, n, "closing", "closed")
           t == AttributeTurn(s)
<1>1. s.x = x /\ s.node = n /\ Sane(s.doc) /\ n \in Nodes(s.doc) /\ s.p \in Nat /\ s.more \in BOOLEAN
  BY DEF InTag, Steady, Nodes
<1>2. ASSUME s.more PROVE q \in s.p .. Len(x) + 1 /\ q >= p /\ q \in Nat /\ s.p \in p + 4 * i .. Len(x) + 1
  <2>1. s.p \in p + 4 * i .. Len(x) + 1
    BY <1>2 DEF InTag
  <2>2. s.p \in Nat \ {0} /\ s.p <= Len(x) + 1 /\ s.p >= p
    BY <2>1
  <2>3. q \in 1 .. Len(x) + 1 /\ s.p <= q
    BY <2>2, SkipFacts DEF SkipWhiteSpace
  <2> HIDE DEF q
  <2> QED
    BY <2>1, <2>2, <2>3
<1>3. CASE ~s.more
  <2>1. t = s
    BY <1>3 DEF AttributeTurn
  <2>2. InTag(x, d, n, p, i + 1, s)
    BY <1>3 DEF InTag
  <2> HIDE DEF t
  <2>3. InTag(x, d, n, p, i + 1, t)
    BY <2>1, <2>2
  <2> QED
    BY <2>3 DEF t
<1>4. CASE s.more /\ At(x, q) \in NameStart
  <2> DEFINE a == ReadAttribute(x, q)
  <2>1. t = TakeAttribute(s, a)
    BY <1>1, <1>4 DEF AttributeTurn
  <2>2. q \in 1 .. Len(x) + 1 /\ q >= s.p /\ s.p \in Nat
    <3> HIDE DEF q
    <3> QED
      BY <1>1, <1>2, <1>4
  <2>3. a.p = 0 \/ (a.p \in q + 4 .. Len(x) + 1 /\ Text(a.name) /\ Text(a.value))
    <3> HIDE DEF q
    <3> QED
      BY <1>4, <2>2, ReadAttributeFacts
  <2>4. a.p = 0 \/ (a.p \in s.p + 4 .. Len(x) + 1 /\ Text(a.name) /\ Text(a.value))
    <3> HIDE DEF q, a
    <3> QED
      BY <2>2, <2>3
  <2> HIDE DEF a, t
  <2>5. InTag(x, d, n, p, i + 1, t)
    BY <1>4, <2>1, <2>4, TakeAttributeKeeps
  <2> QED
    BY <2>5 DEF t
<1>5. ASSUME NEW r, t = EndOfTag(s, r), Steady(s.doc, r.doc), r.p \in Nat, r.p = 0 \/ r.p >= p + 1
      PROVE  InTag(x, d, n, p, i + 1, AttributeTurn(s))
  <2> HIDE DEF t
  <2>1. InTag(x, d, n, p, i + 1, t)
    BY <1>5, EndOfTagKeeps
  <2> QED
    BY <2>1 DEF t
<1>6. CASE s.more /\ At(x, q) \notin NameStart /\ At(x, q) = ">"
  <2> DEFINE r == Result(s.doc, q + 1)
  <2>1. t = EndOfTag(s, r)
    BY <1>1, <1>6 DEF AttributeTurn
  <2>2. r.doc = s.doc /\ r.p = q + 1
    BY DEF Result
  <2>3. Steady(s.doc, s.doc)
    BY <1>1 DEF Steady
  <2> HIDE DEF r, q, t
  <2>4. r.p \in Nat /\ r.p >= p + 1
    BY <1>2, <1>6, <2>2
  <2> QED
    BY <1>5, <2>1, <2>2, <2>3, <2>4
<1>7. CASE s.more /\ At(x, q) \notin NameStart /\ At(x, q) # ">" /\ HasAt(x, q, <<"/", ">">>)
  <2> DEFINE r == Result(closed, q + 2)
  <2>1. t = EndOfTag(s, r)
    BY <1>1, <1>7 DEF AttributeTurn
  <2>2. r.doc = closed /\ r.p = q + 2
    BY DEF Result
  <2>3. Steady(s.doc, closed)
    <3>1. "closing" \in Members \ {"parent", "kind"} /\ n \in DOMAIN s.doc.node
      BY <1>1 DEF Members, Pointing, Nodes
    <3>2. Held(s.doc, Set(s.doc, n, "closing", "closed"), n, "closing")
      <4>1. "closing" \in {"value", "closing"} /\ "closing" # "value"
        OBVIOUS
      <4> QED
        BY <1>1, <3>1, <4>1, ValueKeeps
    <3>3. Held(s.doc, closed, n, "closing")
      BY <3>2
    <3> HIDE DEF closed
    <3> QED
      BY <1>1, <3>1, <3>3, HeldIsSteady
  <2> HIDE DEF r, q, t, closed
  <2>4. r.p \in Nat /\ r.p >= p + 1
    BY <1>2, <1>7, <2>2
  <2> QED
    BY <1>5, <2>1, <2>2, <2>3, <2>4
<1>8. CASE s.more /\ At(x, q) \notin NameStart /\ At(x, q) # ">" /\ ~HasAt(x, q, <<"/", ">">>)
  <2> DEFINE r == Failed(s.doc, "parsing element")
  <2>1. t = EndOfTag(s, r)
    BY <1>1, <1>8 DEF AttributeTurn
  <2>2. r.doc = SetError(s.doc, "parsing element") /\ r.p = 0
    BY DEF Failed, Result
  <2>3. Steady(s.doc, r.doc)
    BY <1>1, <2>2, ErrorIsSteady
  <2>4. r.p = 0
    BY <2>2
  <2> HIDE DEF r, q, t
  <2> QED
    BY <1>5, <2>1, <2>3, <2>4
<1> QED
  BY <1>1, <1>3, <1>4, <1>6, <1>7, <1>8

\* The loop of ParseAttributes comes to its end, and the tag has one character more.
LEMMA ParseAttributesFacts ==
    ASSUME NEW S, NEW x \in Seq(S), NEW d, Sane(d), NEW n \in Nodes(d), NEW p \in 1 .. Len(x) + 1
    PROVE  LET r == ParseAttributes(d, x, p, n)
           IN  /\ Steady(d, r.doc) /\ ~r.more
               /\ r.p \in Nat /\ (r.p = 0 \/ r.p >= p + 1)
<1> DEFINE k == Len(x) \div 4 + 1
           start == [x |-> x, node |-> n, doc |-> d, p |-> p, more |-> TRUE]
           r == ParseAttributes(d, x, p, n)
<1>1. k \in Nat /\ k # 0 /\ 4 * k > Len(x) /\ Len(x) \in Nat /\ p \in Nat \ {0}
  OBVIOUS
<1>2. InTag(x, d, n, p, 0, start)
  <2>1. Steady(d, d)
    BY DEF Steady
  <2> QED
    BY <2>1 DEF InTag
<1> HIDE DEF start, k
<1>3. PICK turn : /\ turn[0] = start /\ turn[k] = ReadingTag!Turns(start, k)
                  /\ \A i \in 1 .. k : turn[i] = AttributeTurn(turn[i - 1])
  BY <1>1, ReadingTag!TurnsFacts
<1> DEFINE T == {i \in 0 .. k : InTag(x, d, n, p, i, turn[i])}
<1>4. 0 \in T
  BY <1>1, <1>2, <1>3
<1>5. \A i \in 1 .. k : i - 1 \in T => i \in T
  <2> SUFFICES ASSUME NEW i \in 1 .. k, i - 1 \in T PROVE i \in T
    OBVIOUS
  <2>1. InTag(x, d, n, p, i - 1, turn[i - 1])
    OBVIOUS
  <2>2. i - 1 \in Nat /\ (i - 1) + 1 = i
    OBVIOUS
  <2> HIDE DEF T
  <2>3. InTag(x, d, n, p, (i - 1) + 1, turn[i])
    BY <1>1, <1>3, <2>1, <2>2, AttributeTurnKeeps
  <2>4. i \in 0 .. k /\ InTag(x, d, n, p, i, turn[i])
    BY <1>1, <2>2, <2>3
  <2> QED
    BY <2>4 DEF T
<1>6. k \in T
  <2> HIDE DEF T
  <2>1. k \in Nat
    BY <1>1
  <2> QED
    BY <1>4, <1>5, <2>1, ReadingTag!UpTo
<1>7. r = turn[k]
  BY <1>3 DEF ParseAttributes, start, k
<1> HIDE DEF r
<1>8. InTag(x, d, n, p, k, r)
  BY <1>6, <1>7
<1>9. Steady(d, r.doc) /\ ~r.more /\ r.p \in Nat /\ (r.p = 0 \/ r.p >= p + 1)
  BY <1>1, <1>8 DEF InTag
<1> QED
  BY <1>9 DEF r

\* The tag of an element has at least two characters.
LEMMA ParseElementFacts ==
    ASSUME NEW S, NEW x \in Seq(S), NEW d, Sane(d), NEW n \in Nodes(d), NEW p \in 1 .. Len(x) + 1
    PROVE  LET r == ParseElement(d, x, p, n)
           IN  Steady(d, r.doc) /\ Onward(x, p, 2, r.p)
<1> DEFINE q == SkipWhiteSpace(x, p)
           closing == At(x, q) = "/"
           begin == IF closing THEN q + 1 ELSE q
           end == ParseName(x, begin)
           opened == Set(d, n, "closing", IF closing THEN "closing" ELSE "open")
           name == SubSeq(x, begin, end - 1)
           named == Set(opened, n, "value", name)
           k == Len(x)
           r == ParseElement(d, x, p, n)
<1>1. r = IF end = 0 THEN [doc |-> d, p |-> 0] ELSE ParseAttributes(named, x, end, n)
  BY DEF ParseElement, Result
<1>2. k \in Nat /\ p \in Nat \ {0} /\ p <= k + 1
  OBVIOUS
<1>3. begin \in Nat \ {0} /\ begin >= p
  <2>1. q \in 1 .. k + 1 /\ p <= q
    BY <1>2, SkipFacts DEF SkipWhiteSpace
  <2> HIDE DEF q
  <2> QED
    BY <1>2, <2>1
<1>4. end = 0 \/ (end \in 1 .. k + 1 /\ (end >= p + 1 \/ end = k + 1))
  <2> HIDE DEF begin
  <2>1. IF At(x, begin) \in NameStart
        THEN end \in 1 .. k + 1 /\ IF begin <= k THEN begin + 1 <= end ELSE end = k + 1
        ELSE end = 0
    BY <1>3, ParseNameFacts
  <2> HIDE DEF end, k
  <2> QED
    BY <1>2, <1>3, <2>1
<1>5. Steady(d, named) /\ Sane(named) /\ n \in Nodes(named)
  <2> HIDE DEF closing, begin, end
  <2>0. Text(name)
    <3>1. begin \in Int /\ end - 1 \in Int
      BY <1>3, <1>4
    <3> QED
      BY <3>1, TextPart
  <2> HIDE DEF name
  <2>1. {"closing", "value"} \subseteq Members \ {"parent", "kind"} /\ n \in DOMAIN d.node /\ n # Doc
    BY DEF Members, Pointing, Nodes, Doc
  <2>2. Held(d, opened, n, "closing")
    <3>1. "closing" \in {"value", "closing"} /\ "closing" # "value"
      OBVIOUS
    <3> QED
      BY <2>1, <3>1, ValueKeeps
  <2> HIDE DEF opened
  <2>3. Steady(d, opened)
    BY <2>1, <2>2, HeldIsSteady
  <2>4. Sane(opened) /\ n \in DOMAIN opened.node
    BY <2>1, <2>3 DEF Steady
  <2>5. Held(opened, named, n, "value")
    BY <2>0, <2>1, <2>4, ValueKeeps
  <2> HIDE DEF named
  <2>6. Steady(opened, named)
    BY <2>1, <2>4, <2>5, HeldIsSteady
  <2>7. Steady(d, named)
    BY <2>3, <2>6, SteadyTwice
  <2> QED
    BY <2>7 DEF Steady, Nodes
<1> HIDE DEF end, named, r
<1>6. ASSUME end = 0 PROVE Steady(d, r.doc) /\ r.p = 0
  <2>1. r.doc = d /\ r.p = 0
    BY <1>1, <1>6
  <2> QED
    BY <2>1 DEF Steady
<1>7. ASSUME end # 0 PROVE Steady(d, r.doc) /\ r.p \in Nat /\ (r.p = 0 \/ r.p >= end + 1) /\ end \in 1 .. k + 1
  <2>1. end \in 1 .. Len(x) + 1 /\ r = ParseAttributes(named, x, end, n)
    BY <1>1, <1>4, <1>7
  <2>2. Steady(named, r.doc) /\ r.p \in Nat /\ (r.p = 0 \/ r.p >= end + 1)
    BY <1>5, <2>1, ParseAttributesFacts
  <2>3. Steady(d, r.doc)
    BY <1>5, <2>2, SteadyTwice
  <2> QED
    BY <2>1, <2>2, <2>3
<1>8. Steady(d, r.doc)
  BY <1>6, <1>7
<1>9. Onward(x, p, 2, r.p)
  <2> DEFINE at == r.p
  <2>1. at \in Nat /\ (at # 0 => at > k \/ at >= p + 2)
    <3>1. end = 0 => at = 0
      BY <1>6
    <3>2. end # 0 => at \in Nat /\ (at = 0 \/ at >= end + 1)
      BY <1>7
    <3> HIDE DEF at, k
    <3> QED
      BY <1>2, <1>4, <3>1, <3>2
  <2> HIDE DEF at
  <2> QED
    BY <2>1 DEF Onward, at
<1> QED
  BY <1>8, <1>9 DEF r

\* What a node of some kind takes of the text.
LEMMA ParseNodeFacts ==
    ASSUME NEW S, NEW x \in Seq(S), NEW d, Sane(d), NEW n \in Nodes(d), NEW p \in 1 .. Len(x) + 1, NEW mode,
           d.node[n].kind = "text" => p \in 1 .. Len(x) /\ x[p] # "<"
    PROVE  LET r == ParseNode(d, x, p, n, mode)
               kind == d.node[n].kind
           IN  /\ Steady(d, r.doc)
               /\ Onward(x, p, IF kind = "element" THEN 2 ELSE IF kind = "text" THEN 1 ELSE 0, r.p)
<1> DEFINE kind == d.node[n].kind
           r == ParseNode(d, x, p, n, mode)
           k == IF kind = "element" THEN 2 ELSE IF kind = "text" THEN 1 ELSE 0
           Sound == Steady(d, r.doc) /\ Onward(x, p, k, r.p)
<1>0. p \in Nat \ {0}
  OBVIOUS
<1>1. ASSUME kind = "element" PROVE Sound
  <2>1. r = ParseElement(d, x, p, n) /\ k = 2
    BY <1>1 DEF ParseNode
  <2> HIDE DEF r, k
  <2> QED
    BY <2>1, ParseElementFacts
<1>2. ASSUME kind = "text" PROVE Sound
  <2>1. r = ParseText(d, x, p, n, mode) /\ k = 1
    BY <1>2 DEF ParseNode
  <2> HIDE DEF r, k
  <2> QED
    BY <1>2, <2>1, ParseTextFacts
<1>3. ASSUME kind \notin {"element", "text"} PROVE Sound
  <2>1. PICK end, error : r = ParseValue(d, x, p, n, end, error) /\ Len(end) \in Nat /\ k = 0
    <3> DEFINE Found == \E end, error : r = ParseValue(d, x, p, n, end, error) /\ Len(end) \in Nat
    <3>1. ASSUME kind = "cdata" PROVE Found
      <4>1. r = ParseValue(d, x, p, n, <<"]", "]", ">">>, "parsing cdata")
        BY <3>1 DEF ParseNode, ParseCData
      <4>2. Len(<<"]", "]", ">">>) \in Nat
        OBVIOUS
      <4> HIDE DEF r
      <4> QED
        BY <4>1, <4>2
    <3>2. ASSUME kind = "comment" PROVE Found
      <4>1. r = ParseValue(d, x, p, n, <<"-", "-", ">">>, "parsing comment")
        BY <3>2 DEF ParseNode, ParseComment
      <4>2. Len(<<"-", "-", ">">>) \in Nat
        OBVIOUS
      <4> HIDE DEF r
      <4> QED
        BY <4>1, <4>2
    <3>3. ASSUME kind = "declaration" PROVE Found
      <4>1. r = ParseValue(d, x, p, n, <<"?", ">">>, "parsing declaration")
        BY <3>3 DEF ParseNode, ParseDeclaration
      <4>2. Len(<<"?", ">">>) \in Nat
        OBVIOUS
      <4> HIDE DEF r
      <4> QED
        BY <4>1, <4>2
    <3>4. ASSUME kind \notin {"cdata", "comment", "declaration"} PROVE Found
      <4>1. r = ParseValue(d, x, p, n, <<">">>, "parsing unknown")
        BY <1>3, <3>4 DEF ParseNode, ParseUnknown
      <4>2. Len(<<">">>) \in Nat
        OBVIOUS
      <4> HIDE DEF r
      <4> QED
        BY <4>1, <4>2
    <3>5. k = 0
      BY <1>3
    <3> HIDE DEF r, k
    <3> QED
      BY <3>1, <3>2, <3>3, <3>4, <3>5
  <2> HIDE DEF r, k
  <2> QED
    BY <1>0, <2>1, ParseValueFacts
<1> HIDE DEF Sound
<1>4. Sound
  BY <1>1, <1>2, <1>3
<1> QED
  BY <1>4 DEF Sound

-----------------------------------------------------------------------------
(***************************************************************************)
(* The nodes that are read: at most one of them, and those whose children  *)
(* are being read, are not inserted yet.                                   *)
(***************************************************************************)
\* A node without a parent is deleted, and nothing else comes to be without one.
LEMMA DropKeeps ==
    ASSUME NEW d, Sane(d), NEW n \in Roots(d)
    PROVE  LET e == DeleteAnyNode(d, n)
           IN  Sane(e) /\ Roots(e) = Roots(d) \ {n} /\ e = DeleteNode(SetTracked(d, n), n)
<1> DEFINE e == DeleteAnyNode(d, n)
<1>1. n \in Nodes(d) /\ d.node[n].parent = Nil /\ Roots(d) \subseteq DOMAIN d.node /\ Doc \in DOMAIN d.node
      /\ d.node[Doc].parent = Nil /\ n # Doc
  BY DEF Roots, Nodes, Sane, Linked
<1>2. e = DeleteNode(SetTracked(d, n), n)
  BY <1>1 DEF DeleteAnyNode
<1>3. Sane(e) /\ DOMAIN e.node = {m \in DOMAIN d.node : Apart(d, n, m)}
      /\ \A m \in DOMAIN e.node : e.node[m].parent = d.node[m].parent
  BY <1>1, DeleteKeeps
<1> HIDE DEF e
<1>4. ASSUME NEW m \in DOMAIN d.node, d.node[m].parent = Nil PROVE Apart(d, n, m) <=> m # n
  <2>1. m # n => {m} \in SUBSET (DOMAIN d.node \ {n}) /\ m \in {m} /\ \A i \in {m} : d.node[i].parent \in {m} \cup {Nil}
    BY <1>4
  <2>2. Apart(d, n, m) => m # n
    BY DEF Apart
  <2> QED
    BY <2>1, <2>2 DEF Apart
<1>5. Roots(e) = Roots(d) \ {n}
  BY <1>1, <1>3, <1>4 DEF Roots, Nodes
<1> QED
  BY <1>2, <1>3, <1>5 DEF e

\* It is inserted at the end of the document or of another node without a parent.
LEMMA AdoptKeeps ==
    ASSUME NEW d, Sane(d), NEW n \in Roots(d), NEW p \in ({Doc} \cup Roots(d)) \ {n}
    PROVE  LET e == InsertEndChild(d, p, n)
           IN  Sane(e) /\ Roots(e) = Roots(d) \ {n}
<1> DEFINE e == InsertEndChild(d, p, n)
<1>1. p \in DOMAIN d.node /\ d.node[p].parent = Nil /\ p # n /\ p # Nil /\ n \in Nodes(d)
  BY NilAssumption DEF Roots, Nodes, Sane, Linked, Shaped
<1>2. Apart(d, n, p)
  <2>1. {p} \in SUBSET (DOMAIN d.node \ {n}) /\ p \in {p} /\ \A i \in {p} : d.node[i].parent \in {p} \cup {Nil}
    BY <1>1
  <2> QED
    BY <2>1 DEF Apart
<1>3. Sane(e) /\ Alike(d, e) /\ \A m \in DOMAIN d.node : e.node[m].parent = IF m = n THEN p ELSE d.node[m].parent
  BY <1>1, <1>2, AppendsRoot
<1> HIDE DEF e
<1>4. Roots(e) = Roots(d) \ {n}
  BY <1>1, <1>3 DEF Alike, Roots, Nodes
<1> QED
  BY <1>3, <1>4 DEF e

\* The nodes of X and those that are open are the ones without a parent, and the
\* depth counts those that are open.
Beneath(x, s, X) ==
    /\ s.x = x /\ Sane(s.doc) /\ s.p \in Nat /\ s.doc.depth = Len(s.open)
    /\ s.open \in Seq(Nat) /\ Len(s.open) >= 1 /\ s.open[1] = Doc /\ Distinct(s.open)
    /\ Roots(s.doc) = Inner(s.open) \cup X
    /\ \A n \in X : n \notin Inner(s.open) \cup {Doc}

Reads(x, s) ==
    IF s.open = <<>> THEN Sane(s.doc) /\ Roots(s.doc) = {} /\ s.doc.depth = 0
    ELSE IF s.node = Nil THEN Beneath(x, s, {}) /\ s.p # 0
    ELSE Beneath(x, s, {s.node})

LEMMA StayKeeps ==
    ASSUME NEW x, NEW s, Beneath(x, s, {}), NEW d, Sane(d), d.depth = Len(s.open), NEW X,
           Roots(d) = Inner(s.open) \cup X, \A m \in X : m \notin Inner(s.open) \cup {Doc},
           NEW p \in Nat, NEW n
    PROVE  Beneath(x, Stay(s, d, p, n), X)
BY DEF Beneath, Stay

LEMMA LeaveKeeps ==
    ASSUME NEW x, NEW s, s.x = x, s.open \in Seq(Nat), Len(s.open) >= 1, s.open[1] = Doc, Distinct(s.open),
           NEW d, Sane(d), Roots(d) = Inner(s.open), d.depth = Len(s.open), NEW p \in Nat, NEW end
    PROVE  LET t == Leave(s, d, p, end)
           IN  Reads(x, t) /\ (t.open = <<>> \/ (Len(t.open) = Len(s.open) - 1 /\ t.p = p))
<1> DEFINE t == Leave(s, d, p, end)
           e == [d EXCEPT !.depth = @ - 1]
           open == s.open
<1>1. Sane(e) /\ e.node = d.node /\ Roots(e) = Inner(open) /\ e.depth = Len(open) - 1
  <2>1. d = [node |-> d.node, unlinked |-> d.unlinked, current |-> d.current,
             untracked |-> d.untracked, error |-> d.error, depth |-> d.depth, bom |-> d.bom]
    BY DEF Sane, Shaped
  <2>2. e = [node |-> d.node, unlinked |-> d.unlinked, current |-> d.current,
             untracked |-> d.untracked, error |-> d.error, depth |-> d.depth - 1, bom |-> d.bom]
    BY <2>1
  <2> HIDE DEF e
  <2>3. e = [node |-> d.node, unlinked |-> d.unlinked, current |-> d.current,
             untracked |-> d.untracked, error |-> e.error, depth |-> e.depth, bom |-> e.bom]
    BY <2>2
  <2>4. Sane(e)
    BY <2>3, NotesKeep
  <2>5. e.node = d.node /\ e.depth = d.depth - 1
    BY <2>2
  <2> QED
    BY <2>4, <2>5 DEF Roots, Nodes
<1>2. t.doc = e /\ t.x = x /\ t.p = p /\ t.open = Front(open) /\ t.node = Last(open)
  BY DEF Leave
<1> HIDE DEF t, e
<1>3. ASSUME Len(open) = 1 PROVE t.open = <<>> /\ Reads(x, t)
  <2>1. Front(open) = <<>>
    BY <1>3 DEF Front
  <2>2. Inner(open) = {}
    BY <1>3 DEF Inner
  <2>3. e.depth = 0
    BY <1>1, <1>3
  <2> QED
    BY <1>1, <1>2, <2>1, <2>2, <2>3 DEF Reads
<1>4. ASSUME Len(open) # 1 PROVE Reads(x, t) /\ Len(t.open) = Len(open) - 1 /\ t.p = p
  <2>1. Len(open) > 1 /\ Len(open) \in Nat
    <3> DEFINE k == Len(open)
    <3>1. k \in Nat /\ k >= 1 /\ k # 1
      BY <1>4
    <3> HIDE DEF k
    <3>2. k > 1
      BY <3>1
    <3> QED
      BY <3>1, <3>2 DEF k
  <2>2. /\ Front(open) \in Seq(Nat) /\ Len(Front(open)) = Len(open) - 1
        /\ Front(open)[1] = open[1] /\ Last(open) \in Inner(open)
        /\ Distinct(Front(open)) /\ Inner(Front(open)) = Inner(open) \ {Last(open)}
    BY <2>1, InnerFacts
  <2>3. Last(open) \in Nat /\ Last(open) # Doc /\ Last(open) # Nil
    <3>1. Last(open) = open[Len(open)]
      BY InnerFacts
    <3>2. Len(open) \in DOMAIN open /\ 1 \in DOMAIN open /\ Len(open) # 1
      BY <2>1
    <3>3. open[Len(open)] \in Nat
      BY <3>2
    <3>4. open[Len(open)] # open[1]
      BY <3>2 DEF Distinct
    <3>5. open[Len(open)] # Doc
      BY <3>4
    <3>6. \A m \in Nat : m # Nil
      BY NilAssumption
    <3> HIDE DEF open
    <3> QED
      BY <3>1, <3>3, <3>5, <3>6
  <2>4. Len(t.open) >= 1 /\ t.open # <<>> /\ Len(t.open) = Len(open) - 1
    <3>1. Len(Front(open)) >= 1
      BY <2>1, <2>2
    <3>2. Front(open) # <<>>
      BY <3>1
    <3> QED
      BY <1>2, <2>2, <3>1, <3>2
  <2>5. Roots(e) = Inner(t.open) \cup {t.node} /\ t.node \notin Inner(t.open) \cup {Doc}
    BY <1>1, <1>2, <2>2, <2>3
  <2>6. t.doc.depth = Len(t.open)
    BY <1>1, <1>2, <2>4
  <2>7. Beneath(x, t, {t.node})
    BY <1>1, <1>2, <2>2, <2>4, <2>5, <2>6 DEF Beneath
  <2> QED
    BY <1>2, <2>3, <2>4, <2>7 DEF Reads
<1> QED
  BY <1>3, <1>4 DEF t

\* How far a reader has come: the characters that are left, two turns for each node
\* that is open and one for the node that was read.
Left(x, p) == IF p \in 1 .. Len(x) THEN Len(x) + 1 - p ELSE 0
Size(x, s) == Left(x, s.p) + 2 * Len(s.open) + (IF s.node = Nil THEN 0 ELSE 1)

\* t is what comes of s when the node that was read is inserted, or the innermost
\* ParseDeep returns.
Taken(x, s, t) ==
    /\ Reads(x, t)
    /\ \/ t.open = <<>>
       \/ Len(t.open) = Len(s.open) - 1 /\ t.p \in {0, s.p}
       \/ Len(t.open) = Len(s.open) /\ t.node = Nil /\ t.p = s.p /\ s.p # 0

LEMMA TakeKeeps ==
    ASSUME NEW x, NEW s, NEW n, Beneath(x, s, {n})
    PROVE  Taken(x, s, Take(s, n))
<1> DEFINE d == s.doc
           e == DeleteAnyNode(d, n)
           parent == Last(s.open)
           t == Take(s, n)
<1>1. n \in Roots(d) /\ Sane(d) /\ s.p \in Nat /\ s.open \in Seq(Nat) /\ Len(s.open) >= 1 /\ s.x = x
  BY DEF Beneath
<1>0. Formed(d) /\ IsFiniteSet(DOMAIN d.node) /\ d.depth = Len(s.open) /\ d.node[n].parent = Nil
  BY <1>1 DEF Beneath, Sane, Shaped, Formed, Roots
<1>2. Roots(d) \ {n} = Inner(s.open) /\ parent \in ({Doc} \cup Roots(d)) \ {n}
  <2>1. parent \in Inner(s.open) \cup {Doc}
    BY <1>1, InnerFacts DEF Beneath
  <2> HIDE DEF parent
  <2> QED
    BY <2>1 DEF Beneath
<1>3. /\ Sane(e) /\ Roots(e) = Inner(s.open) /\ e = DeleteNode(SetTracked(d, n), n)
      /\ e.depth = Len(s.open)
  <2>1. Sane(e) /\ Roots(e) = Inner(s.open) /\ e = DeleteNode(SetTracked(d, n), n)
    BY <1>1, <1>2, DropKeeps
  <2>2. AsDeep(d, e)
    BY <1>0, DropDepth
  <2> QED
    BY <1>0, <2>1, <2>2 DEF AsDeep
<1> HIDE DEF e
<1>4. ASSUME NEW g, Sane(g), Roots(g) = Inner(s.open), g.depth = Len(s.open), NEW p \in {0, s.p}, NEW end
      PROVE  Taken(x, s, Leave(s, g, p, end))
  <2>1. p \in Nat
    BY <1>1
  <2>2. s.open[1] = Doc /\ Distinct(s.open)
    BY DEF Beneath
  <2> DEFINE u == Leave(s, g, p, end)
  <2>3. Reads(x, u) /\ (u.open = <<>> \/ (Len(u.open) = Len(s.open) - 1 /\ u.p = p))
    BY <1>1, <1>4, <2>1, <2>2, LeaveKeeps
  <2> HIDE DEF u
  <2>4. Taken(x, s, u)
    BY <1>4, <2>3 DEF Taken
  <2> QED
    BY <2>4 DEF u
<1>5. ASSUME NEW error, t = Reject(s, n, error) PROVE Taken(x, s, t)
  <2> DEFINE g == SetError(e, error)
  <2>1. Steady(e, g) /\ g.node = e.node
    BY <1>3, ErrorIsSteady
  <2>2. t = Leave(s, g, 0, <<>>)
    BY <1>5 DEF Reject, e
  <2> HIDE DEF g, t
  <2>3. Sane(g) /\ Roots(g) = Inner(s.open) /\ g.depth = Len(s.open)
    BY <1>3, <2>1 DEF Steady, Roots, Nodes
  <2>4. Taken(x, s, Leave(s, g, 0, <<>>))
    BY <1>4, <2>3
  <2> QED
    BY <2>2, <2>4
<1>6. ASSUME t = Leave(s, DeleteNode(SetTracked(d, n), n), s.p, d.node[n].value) PROVE Taken(x, s, t)
  <2>1. t = Leave(s, e, s.p, d.node[n].value)
    BY <1>3, <1>6
  <2> HIDE DEF t
  <2>2. Taken(x, s, Leave(s, e, s.p, d.node[n].value))
    BY <1>3, <1>4
  <2> QED
    BY <2>1, <2>2
<1>7. ASSUME t = Stay(s, InsertEndChild(d, parent, n), s.p, Nil), s.p # 0 PROVE Taken(x, s, t)
  <2> DEFINE g == InsertEndChild(d, parent, n)
  <2>1. Sane(g) /\ Roots(g) = Inner(s.open) /\ g.depth = Len(s.open)
    <3> HIDE DEF parent
    <3>1. Sane(g) /\ Roots(g) = Inner(s.open)
      BY <1>1, <1>2, AdoptKeeps
    <3>2. AsDeep(d, g)
      BY <1>0, InsertDepth
    <3> QED
      BY <1>0, <3>1, <3>2 DEF AsDeep
  <2>2. t.open = s.open /\ t.node = Nil /\ t.p = s.p
    BY <1>7 DEF Stay
  <2> HIDE DEF g
  <2>3. Beneath(x, s, {n})
    OBVIOUS
  <2>4. t.doc = g /\ t.x = x
    BY <1>1, <1>7 DEF Stay, g
  <2> HIDE DEF t
  <2>5. Beneath(x, t, {})
    BY <2>1, <2>2, <2>3, <2>4 DEF Beneath
  <2>6. Reads(x, t)
    <3>1. s.open # <<>>
      BY <1>1
    <3> QED
      BY <1>7, <2>2, <2>5, <3>1 DEF Reads
  <2> QED
    BY <1>7, <2>2, <2>6 DEF Taken
<1>8. \/ \E error : t = Reject(s, n, error)
      \/ t = Leave(s, DeleteNode(SetTracked(d, n), n), s.p, d.node[n].value)
      \/ t = Stay(s, InsertEndChild(d, parent, n), s.p, Nil) /\ s.p # 0
  BY DEF Take
<1> HIDE DEF t
<1>9. Taken(x, s, t)
  BY <1>5, <1>6, <1>7, <1>8
<1> QED
  BY <1>9 DEF t

LEMMA DepthKeeps ==
    ASSUME NEW d, Sane(d)
    PROVE  Sane(PushDepth(d)) /\ PushDepth(d).node = d.node /\ PushDepth(d).depth = d.depth + 1
<1> DEFINE e == PushDepth(d)
<1>1. d = [node |-> d.node, unlinked |-> d.unlinked, current |-> d.current,
           untracked |-> d.untracked, error |-> d.error, depth |-> d.depth, bom |-> d.bom]
  BY DEF Sane, Shaped
<1> DEFINE error == IF d.depth + 1 = MaxElementDepth THEN "depth exceeded" ELSE d.error
<1>2. e = [d EXCEPT !.depth = d.depth + 1, !.error = error]
  BY DEF PushDepth
<1> HIDE DEF e, error
<1>3. e = [node |-> d.node, unlinked |-> d.unlinked, current |-> d.current,
           untracked |-> d.untracked, error |-> error, depth |-> d.depth + 1, bom |-> d.bom]
  BY <1>1, <1>2
<1>4. e = [node |-> d.node, unlinked |-> d.unlinked, current |-> d.current,
           untracked |-> d.untracked, error |-> e.error, depth |-> e.depth, bom |-> e.bom]
  BY <1>3
<1>5. Sane(e)
  BY <1>4, NotesKeep
<1>6. e.node = d.node /\ e.depth = d.depth + 1
  BY <1>3
<1> QED
  BY <1>5, <1>6 DEF e

LEMMA EnterKeeps ==
    ASSUME NEW x, NEW s, Beneath(x, s, {}), NEW d, Sane(d), d.depth = Len(s.open),
           NEW n, Roots(d) = Inner(s.open) \cup {n},
           n \notin Inner(s.open) \cup {Doc}, NEW p \in Nat \ {0}
    PROVE  LET t == Enter(s, d, p, n)
           IN  Reads(x, t) /\ Len(t.open) = Len(s.open) + 1 /\ t.node = Nil /\ t.p = p
<1> DEFINE t == Enter(s, d, p, n)
           e == PushDepth(d)
           open == s.open
<1>1. Sane(e) /\ e.node = d.node /\ e.depth = Len(open) + 1
  BY DepthKeeps
<1>2. t.doc = e /\ t.x = x /\ t.p = p /\ t.open = Append(open, n) /\ t.node = Nil
  BY DEF Enter, Beneath
<1>3. open \in Seq(Nat) /\ Len(open) >= 1 /\ open[1] = Doc /\ Distinct(open) /\ n \in Nat
  <2>1. n \in Roots(d) /\ DOMAIN d.node \subseteq Nat
    BY DEF Sane, Shaped
  <2> QED
    BY <2>1 DEF Beneath, Roots, Nodes
<1>4. /\ Append(open, n) \in Seq(Nat) /\ Len(Append(open, n)) = Len(open) + 1
      /\ Inner(Append(open, n)) = Inner(open) \cup {n} /\ Append(open, n)[1] = Doc /\ Distinct(Append(open, n))
  BY <1>3, InnerFacts
<1> HIDE DEF t, e, open
<1>5. Len(t.open) >= 1 /\ t.open # <<>> /\ Len(t.open) = Len(open) + 1
  <2>1. Len(open) \in Nat
    BY <1>3
  <2>2. Len(Append(open, n)) >= 1
    BY <1>3, <1>4, <2>1
  <2>3. Append(open, n) # <<>>
    BY <2>2
  <2> QED
    BY <1>2, <1>4, <2>2, <2>3
<1>6. Roots(e) = Inner(open) \cup {n}
  BY <1>1 DEF Roots, Nodes, open
<1>7. Beneath(x, t, {})
  <2>1. t.doc.depth = Len(t.open)
    BY <1>1, <1>2, <1>4
  <2> QED
    BY <1>1, <1>2, <1>4, <1>5, <1>6, <2>1 DEF Beneath
<1>8. Reads(x, t)
  BY <1>2, <1>5, <1>7 DEF Reads
<1> QED
  BY <1>2, <1>5, <1>8 DEF t, open

LEMMA LeftFacts ==
    ASSUME NEW S, NEW x \in Seq(S), NEW q \in Nat
    PROVE  /\ Left(x, q) \in Nat /\ Left(x, 0) = 0
           /\ \A p \in 1 .. Len(x), k \in Nat : q = 0 \/ q > Len(x) \/ q >= p + k =>
                Left(x, p) > 0 /\ (Left(x, q) = 0 \/ Left(x, q) + k <= Left(x, p))
           /\ q \in 1 .. Len(x) => Left(x, q) # 0
<1> DEFINE m == Len(x)
<1>1. m \in Nat
  OBVIOUS
<1>2. \A p : Left(x, p) = IF p \in 1 .. m THEN m + 1 - p ELSE 0
  BY DEF Left
<1> HIDE DEF m
<1>3. Left(x, q) \in Nat /\ Left(x, 0) = 0 /\ (q \in 1 .. m => Left(x, q) # 0)
  BY <1>1, <1>2
<1>4. ASSUME NEW p \in 1 .. m, NEW k \in Nat, q = 0 \/ q > m \/ q >= p + k
      PROVE  Left(x, p) > 0 /\ (Left(x, q) = 0 \/ Left(x, q) + k <= Left(x, p))
  BY <1>1, <1>2, <1>4
<1> QED
  BY <1>3, <1>4 DEF m

\* What ReadNext makes of a place in the text: the node it creates is without a
\* parent, and something of the text is read.
LEMMA NextFacts ==
    ASSUME NEW S, NEW x \in Seq(S), NEW d, Sane(d), NEW p \in 1 .. Len(x), NEW mode, NEW first,
           Identify(d, x, p, mode, first).p # 0
    PROVE  LET id == Identify(d, x, p, mode, first)
               n == Fresh(d)
               r == ParseNode(id.doc, x, id.p, n, mode)
           IN  /\ Sane(r.doc) /\ Roots(r.doc) = Roots(d) \cup {n} /\ n \notin Roots(d) \cup {Doc}
               /\ r.doc.depth = d.depth
               /\ Onward(x, p, IF r.doc.node[n].kind = "element" THEN 3 ELSE 1, r.p)
<1> DEFINE id == Identify(d, x, p, mode, first)
           n == Fresh(d)
           c == id.doc
           r == ParseNode(c, x, id.p, n, mode)
<1>1. PICK kind : /\ c = CreateUnlinkedNode(d, kind, <<>>)
                  /\ IF kind = "text" THEN id.p = p /\ x[p] # "<" ELSE id.p \in p + 1 .. Len(x) + 1
  BY IdentifyFacts
<1>2. /\ Sane(c) /\ Nodes(c) = Nodes(d) \cup {n} /\ n \notin DOMAIN d.node /\ n \in Roots(c)
      /\ c.node[n] = NewNode(kind, <<>>) /\ \A m \in DOMAIN d.node : c.node[m] = d.node[m]
      /\ c.depth = d.depth
  <2> DEFINE g == CreateUnlinkedNode(d, kind, <<>>)
  <2>1. /\ Sane(g) /\ Nodes(g) = Nodes(d) \cup {n} /\ n \notin DOMAIN d.node /\ n \in Roots(g)
        /\ g.node[n] = NewNode(kind, <<>>) /\ \A m \in DOMAIN d.node : g.node[m] = d.node[m]
    BY CreateKeeps, TextsAre
  <2>2. AsDeep(d, g)
    <3>1. Formed(d)
      BY DEF Sane, Shaped, Formed
    <3> QED
      BY <3>1, CreateDepth
  <2>3. c = g
    BY <1>1
  <2> HIDE DEF g, c, n
  <2> QED
    BY <2>1, <2>2, <2>3 DEF AsDeep
<1>3. c.node[n].kind = kind
  BY <1>2 DEF NewNode
<1>4. Roots(c) = Roots(d) \cup {n} /\ n \notin Roots(d) \cup {Doc} /\ n \in Nodes(c)
  BY <1>2 DEF Roots, Nodes
<1> HIDE DEF n, c, id
<1>5. id.p \in 1 .. Len(x) + 1 /\ (kind = "text" => id.p \in 1 .. Len(x) /\ x[id.p] # "<")
  BY <1>1
<1> DEFINE k == IF kind = "element" THEN 2 ELSE IF kind = "text" THEN 1 ELSE 0
<1>6. Steady(c, r.doc) /\ Onward(x, id.p, k, r.p)
  <2> HIDE DEF r
  <2>1. r = ParseNode(c, x, id.p, n, mode)
    BY DEF r
  <2> QED
    BY <1>2, <1>3, <1>4, <1>5, <2>1, ParseNodeFacts
<1> HIDE DEF r
<1>7. Roots(r.doc) = Roots(c) /\ Sane(r.doc) /\ r.doc.node[n].kind = kind /\ r.doc.depth = d.depth
  BY <1>2, <1>3, <1>4, <1>6 DEF Steady, Roots, Nodes
<1>8. Onward(x, p, IF kind = "element" THEN 3 ELSE 1, r.p)
  <2> DEFINE q == r.p
             m == Len(x)
             l == IF kind = "element" THEN 3 ELSE 1
             b == id.p
  <2>1. q \in Nat /\ (q # 0 => q > m \/ q >= b + k) /\ m \in Nat /\ p \in Nat
    BY <1>6 DEF Onward
  <2>2. b \in Nat /\ b + k >= p + l /\ l \in Nat /\ k \in Nat
    <3>1. b \in Nat /\ IF kind = "text" THEN b = p ELSE b >= p + 1
      BY <1>1, <2>1
    <3> HIDE DEF b, m
    <3> QED
      BY <2>1, <3>1
  <2> HIDE DEF q, m, l, b, k
  <2>3. q \in Nat /\ (q # 0 => q > m \/ q >= p + l)
    BY <2>1, <2>2
  <2> QED
    BY <2>3 DEF Onward, q, m, l
<1> QED
  BY <1>4, <1>7, <1>8 DEF r, c, id, n

Read(x, s, t) == Reads(x, t) /\ (t.open = <<>> \/ Size(x, t) < Size(x, s))

LEMMA ReadNextKeeps ==
    ASSUME NEW S, NEW x \in Seq(S), NEW s, Reads(x, s), s.open # <<>>, s.node = Nil
    PROVE  Read(x, s, ReadNext(s))
<1> DEFINE d == s.doc
           p == s.p
           id == Identify(d, x, p, s.mode, s.first)
           n == Fresh(d)
           r == ParseNode(id.doc, x, id.p, n, s.mode)
           t == ReadNext(s)
           o == Len(s.open)
           ended == (s.first /\ Error(d)) \/ p > Len(x) \/ id.p = 0
<1>1. Beneath(x, s, {}) /\ p # 0
  BY DEF Reads
<1>2. /\ s.x = x /\ Sane(d) /\ p \in Nat \ {0} /\ s.open \in Seq(Nat) /\ o >= 1 /\ o \in Nat
      /\ s.open[1] = Doc /\ Distinct(s.open) /\ Roots(d) = Inner(s.open) /\ d.depth = o
  BY <1>1 DEF Beneath
<1>3. Size(x, s) = Left(x, p) + 2 * o /\ Left(x, p) \in Nat /\ Left(x, 0) = 0
  <2>1. Left(x, p) \in Nat /\ Left(x, 0) = 0
    BY <1>2, LeftFacts
  <2> QED
    BY <1>2, <2>1 DEF Size
<1>4. t = IF ended THEN Leave(s, d, 0, <<>>) ELSE Identified(s, r, n)
  BY <1>2 DEF ReadNext
<1>5. ASSUME ended PROVE Read(x, s, t)
  <2>1. t = Leave(s, d, 0, <<>>)
    BY <1>4, <1>5
  <2> HIDE DEF t
  <2>2. Reads(x, t) /\ (t.open = <<>> \/ (Len(t.open) = o - 1 /\ t.p = 0))
    <3>1. 0 \in Nat /\ d.depth = Len(s.open) /\ Len(s.open) >= 1
      BY <1>2
    <3> HIDE DEF d
    <3> QED
      BY <1>2, <2>1, <3>1, LeaveKeeps
  <2>3. ASSUME Len(t.open) = o - 1, t.p = 0 PROVE Size(x, t) < Size(x, s)
    <3>1. Size(x, t) = Left(x, t.p) + 2 * (o - 1) + (IF t.node = Nil THEN 0 ELSE 1)
      BY <2>3 DEF Size
    <3>2. Left(x, t.p) = 0
      BY <1>3, <2>3
    <3> HIDE DEF o, p
    <3> QED
      BY <1>2, <1>3, <3>1, <3>2
  <2> QED
    BY <2>2, <2>3 DEF Read
<1>6. ASSUME ~ended PROVE Read(x, s, t)
  <2>1. p \in 1 .. Len(x) /\ id.p # 0
    BY <1>2, <1>6
  <2> HIDE DEF d, p
  <2>2. /\ Sane(r.doc) /\ Roots(r.doc) = Roots(d) \cup {n} /\ n \notin Roots(d) \cup {Doc}
        /\ r.doc.depth = d.depth
        /\ Onward(x, p, IF r.doc.node[n].kind = "element" THEN 3 ELSE 1, r.p)
    BY <1>2, <2>1, NextFacts
  <2>3. t = Identified(s, r, n)
    BY <1>4, <1>6
  <2> HIDE DEF r, n, id, t
  <2> DEFINE opened == r.doc.node[n].kind = "element" /\ r.p \in DOMAIN s.x /\ r.doc.node[n].closing = "open"
  <2>4. ASSUME opened PROVE Read(x, s, t)
    <3>1. t = Enter(s, r.doc, r.p, n)
      BY <2>3, <2>4 DEF Identified
    <3>2. r.p \in 1 .. Len(x) /\ r.p >= p + 3
      <4>1. r.p \in 1 .. Len(x)
        BY <1>2, <2>4
      <4>2. Onward(x, p, 3, r.p)
        BY <2>2, <2>4
      <4> QED
        BY <4>1, <4>2 DEF Onward
    <3>3. Reads(x, t) /\ Len(t.open) = o + 1 /\ t.node = Nil /\ t.p = r.p
      BY <1>1, <1>2, <2>2, <3>1, <3>2, EnterKeeps
    <3>4. Left(x, r.p) + 3 <= Left(x, p) /\ Left(x, r.p) \in Nat
      <4>1. r.p \in Nat /\ 3 \in Nat
        BY <3>2
      <4>2. Left(x, r.p) \in Nat /\ (Left(x, r.p) = 0 \/ Left(x, r.p) + 3 <= Left(x, p)) /\ Left(x, r.p) # 0
        BY <2>1, <3>2, <4>1, LeftFacts
      <4> QED
        BY <4>2
    <3>5. Size(x, t) = Left(x, r.p) + 2 * (o + 1)
      BY <1>2, <3>3, <3>4 DEF Size
    <3>6. Size(x, t) < Size(x, s)
      <4> HIDE DEF o
      <4> QED
        BY <1>2, <1>3, <3>4, <3>5
    <3> QED
      BY <3>3, <3>6 DEF Read
  <2>5. ASSUME ~opened PROVE Read(x, s, t)
    <3> DEFINE u == Stay(s, r.doc, r.p, n)
    <3>1. t = Take(u, n)
      BY <2>3, <2>5 DEF Identified
    <3>2. u.p = r.p /\ u.open = s.open
      BY DEF Stay
    <3>3. Onward(x, p, 1, r.p)
      BY <2>1, <2>2 DEF Onward
    <3>4. r.p \in Nat /\ (r.p = 0 \/ r.p > Len(x) \/ r.p >= p + 1)
      BY <3>3 DEF Onward
    <3>5. Beneath(x, u, {n})
      <4>1. \A m \in {n} : m \notin Inner(s.open) \cup {Doc}
        BY <1>2, <2>2
      <4> QED
        BY <1>1, <1>2, <2>2, <3>4, <4>1, StayKeeps
    <3> HIDE DEF u
    <3>6. Taken(x, u, t)
      BY <3>1, <3>5, TakeKeeps
    <3>7. /\ Left(x, r.p) \in Nat
          /\ Left(x, p) > 0 /\ (Left(x, r.p) = 0 \/ Left(x, r.p) + 1 <= Left(x, p))
      BY <2>1, <3>4, LeftFacts
    <3>8. ASSUME Len(t.open) = o - 1, t.p \in {0, r.p} PROVE Size(x, t) < Size(x, s)
      <4>1. Left(x, t.p) \in Nat /\ Left(x, t.p) <= Left(x, p)
        BY <1>3, <3>7, <3>8
      <4>2. Size(x, t) = Left(x, t.p) + 2 * (o - 1) + (IF t.node = Nil THEN 0 ELSE 1)
        BY <3>8 DEF Size
      <4> HIDE DEF o
      <4> QED
        BY <1>2, <1>3, <4>1, <4>2
    <3>9. ASSUME Len(t.open) = o, t.node = Nil, t.p = r.p PROVE Size(x, t) < Size(x, s)
      <4>1. Left(x, t.p) \in Nat /\ Left(x, t.p) < Left(x, p)
        BY <1>3, <3>7, <3>9
      <4>2. Size(x, t) = Left(x, t.p) + 2 * o
        BY <1>2, <3>9, <4>1 DEF Size
      <4> HIDE DEF o
      <4> QED
        BY <1>2, <1>3, <4>1, <4>2
    <3> QED
      BY <3>2, <3>6, <3>8, <3>9 DEF Taken, Read
  <2> QED
    BY <2>4, <2>5
<1> HIDE DEF t, ended
<1>7. Read(x, s, t)
  BY <1>5, <1>6
<1> QED
  BY <1>7 DEF t

LEMMA ReadTurnKeeps ==
    ASSUME NEW S, NEW x \in Seq(S), NEW s, Reads(x, s)
    PROVE  IF s.open = <<>> THEN ReadTurn(s) = s ELSE Read(x, s, ReadTurn(s))
<1>1. CASE s.open = <<>>
  BY <1>1 DEF ReadTurn
<1>2. CASE s.open # <<>> /\ s.node = Nil
  BY <1>2, ReadNextKeeps DEF ReadTurn
<1>3. CASE s.open # <<>> /\ s.node # Nil
  <2> DEFINE t == Take(s, s.node)
             o == Len(s.open)
  <2>1. ReadTurn(s) = t
    BY <1>3 DEF ReadTurn
  <2>2. Beneath(x, s, {s.node})
    BY <1>3 DEF Reads
  <2>3. Taken(x, s, t)
    BY <2>2, TakeKeeps
  <2>4. o \in Nat /\ s.p \in Nat /\ Left(x, s.p) \in Nat /\ Left(x, 0) = 0
    <3>1. o \in Nat /\ s.p \in Nat
      BY <2>2 DEF Beneath
    <3> QED
      BY <3>1, LeftFacts
  <2>5. Size(x, s) = Left(x, s.p) + 2 * o + 1
    BY <1>3, <2>4 DEF Size
  <2> HIDE DEF t
  <2>6. ASSUME Len(t.open) = o - 1, t.p \in {0, s.p} PROVE Size(x, t) < Size(x, s)
    <3>1. Left(x, t.p) \in Nat /\ Left(x, t.p) <= Left(x, s.p)
      BY <2>4, <2>6
    <3>2. Size(x, t) = Left(x, t.p) + 2 * (o - 1) + (IF t.node = Nil THEN 0 ELSE 1)
      BY <2>6 DEF Size
    <3> HIDE DEF o
    <3> QED
      BY <2>4, <2>5, <3>1, <3>2
  <2>7. ASSUME Len(t.open) = o, t.node = Nil, t.p = s.p PROVE Size(x, t) < Size(x, s)
    <3>1. Size(x, t) = Left(x, s.p) + 2 * o
      BY <2>4, <2>7 DEF Size
    <3> HIDE DEF o
    <3> QED
      BY <2>4, <2>5, <3>1
  <2>8. Read(x, s, t)
    BY <2>3, <2>6, <2>7 DEF Taken, Read
  <2> QED
    BY <1>3, <2>1, <2>8
<1> QED
  BY <1>1, <1>2, <1>3

-----------------------------------------------------------------------------
(***************************************************************************)
(* Parsing.                                                                *)
(***************************************************************************)
\* Every turn reads a part of the text or comes to the end of a node: there are
\* turns enough, and every node that was read is inserted or deleted then.
LEMMA ParseDeepKeeps ==
    ASSUME NEW S, NEW x \in Seq(S), NEW d, Sane(d), Roots(d) = {}, d.depth = 0, NEW p \in 1 .. Len(x), NEW mode
    PROVE  LET e == ParseDeep(d, x, p, mode) IN Sane(e) /\ Roots(e) = {} /\ e.depth = 0
<1> DEFINE reader == [doc |-> d, x |-> x, mode |-> mode, p |-> 0, open |-> <<>>,
                      first |-> TRUE, node |-> Nil, end |-> <<>>]
           start == Enter(reader, d, p, Doc)
           k == Len(x) + 2
<1>1. k \in Nat
  OBVIOUS
<1>2. Reads(x, start) /\ Size(x, start) <= k
  <2>1. start.doc = PushDepth(d) /\ start.x = x /\ start.p = p /\ start.open = Append(<<>>, Doc) /\ start.node = Nil
    BY DEF Enter
  <2>2. Append(<<>>, Doc) = <<Doc>>
    OBVIOUS
  <2>3. start.open \in Seq(Nat) /\ start.open[1] = Doc /\ Len(start.open) = 1 /\ start.open # <<>>
    <3> DEFINE one == <<Doc>>
    <3>1. one \in Seq(Nat) /\ one[1] = Doc /\ Len(one) = 1 /\ one # <<>>
      BY DEF Doc
    <3>2. start.open = one
      BY <2>1, <2>2
    <3> HIDE DEF one, start
    <3> QED
      BY <3>1, <3>2
  <2> HIDE DEF start
  <2>4. Distinct(start.open) /\ Inner(start.open) = {}
    BY <2>3 DEF Distinct, Inner
  <2>5. Sane(start.doc) /\ Roots(start.doc) = {} /\ start.doc.depth = 1
    BY <2>1, DepthKeeps DEF Roots, Nodes
  <2>6. start.p \in Nat /\ start.p # 0 /\ Len(start.open) >= 1 /\ start.doc.depth = Len(start.open)
    BY <2>1, <2>3, <2>5
  <2>7. Beneath(x, start, {})
    BY <2>1, <2>3, <2>4, <2>5, <2>6 DEF Beneath
  <2>8. Reads(x, start)
    BY <2>1, <2>3, <2>6, <2>7 DEF Reads
  <2>9. Size(x, start) <= k
    <3>1. Left(x, start.p) = Len(x) + 1 - p
      BY <2>1 DEF Left
    <3>2. Size(x, start) = Left(x, start.p) + 2
      BY <2>1, <2>3, <3>1 DEF Size
    <3> QED
      BY <3>1, <3>2
  <2> QED
    BY <2>8, <2>9
<1> HIDE DEF start, k
<1>3. PICK turn : /\ turn[0] = start /\ turn[k] = Reading!Turns(start, k)
                  /\ \A i \in 1 .. k : turn[i] = ReadTurn(turn[i - 1])
  <2> DEFINE Has(a, n) == \E turn : /\ turn[0] = a /\ turn[n] = Reading!Turns(a, n)
                                   /\ \A i \in 1 .. n : turn[i] = ReadTurn(turn[i - 1])
  <2>1. \A a : \A n \in Nat : Has(a, n)
    BY Reading!TurnsFacts
  <2> HIDE DEF Has
  <2>2. Has(start, k)
    BY <1>1, <2>1
  <2> QED
    BY <2>2 DEF Has
<1> DEFINE Good(i, s) == Reads(x, s) /\ (s.open = <<>> \/ Size(x, s) <= k - i)
           T == {i \in 0 .. k : Good(i, turn[i])}
<1>4. ASSUME NEW s, Reads(x, s), s.open # <<>> PROVE Size(x, s) \in Nat /\ Size(x, s) > 0
  <2>1. s.open \in Seq(Nat) /\ Len(s.open) >= 1 /\ s.p \in Nat
    BY <1>4 DEF Reads, Beneath
  <2> DEFINE o == Len(s.open)
  <2>2. o \in Nat /\ o >= 1 /\ Left(x, s.p) \in Nat
    <3>1. o \in Nat /\ o >= 1
      BY <2>1
    <3>2. Left(x, s.p) \in Nat
      BY <2>1, LeftFacts
    <3> QED
      BY <3>1, <3>2
  <2>3. Size(x, s) = Left(x, s.p) + 2 * o + (IF s.node = Nil THEN 0 ELSE 1)
    BY DEF Size
  <2> HIDE DEF o
  <2> QED
    BY <2>2, <2>3
<1>5. 0 \in T
  <2>1. Good(0, start)
    BY <1>1, <1>2
  <2> HIDE DEF Good
  <2> QED
    BY <1>1, <1>3, <2>1
<1>6. \A i \in 1 .. k : i - 1 \in T => i \in T
  <2> SUFFICES ASSUME NEW i \in 1 .. k, i - 1 \in T PROVE i \in T
    OBVIOUS
  <2> DEFINE s == turn[i - 1]
             t == turn[i]
  <2>1. Reads(x, s) /\ (s.open = <<>> \/ Size(x, s) <= k - (i - 1))
    OBVIOUS
  <2>2. t = ReadTurn(s)
    BY <1>3
  <2> HIDE DEF s, t
  <2>3. CASE s.open = <<>>
    <3>1. t = s
      BY <2>1, <2>2, <2>3, ReadTurnKeeps
    <3>2. Good(i, t)
      BY <2>1, <2>3, <3>1
    <3> HIDE DEF Good
    <3> QED
      BY <1>1, <3>2 DEF t
  <2>4. CASE s.open # <<>>
    <3>1. Reads(x, t) /\ (t.open = <<>> \/ Size(x, t) < Size(x, s))
      BY <2>1, <2>2, <2>4, ReadTurnKeeps DEF Read
    <3>2. t.open # <<>> => Size(x, t) <= k - i
      <4> SUFFICES ASSUME t.open # <<>> PROVE Size(x, t) <= k - i
        OBVIOUS
      <4>1. Size(x, t) \in Nat /\ Size(x, s) \in Nat /\ Size(x, t) < Size(x, s) /\ Size(x, s) <= k - (i - 1)
        BY <1>4, <2>1, <2>4, <3>1
      <4> QED
        BY <1>1, <4>1
    <3>3. Good(i, t)
      BY <3>1, <3>2
    <3> HIDE DEF Good
    <3> QED
      BY <1>1, <3>3 DEF t
  <2> QED
    BY <2>3, <2>4
<1>7. k \in T
  <2> HIDE DEF T
  <2> QED
    BY <1>1, <1>5, <1>6, Reading!UpTo
<1> DEFINE s == turn[k]
<1>8. Reads(x, s) /\ (s.open = <<>> \/ Size(x, s) <= k - k)
  BY <1>7
<1>9. ParseDeep(d, x, p, mode) = s.doc
  BY <1>3 DEF ParseDeep, start, k
<1> HIDE DEF s
<1>10. s.open = <<>>
  BY <1>1, <1>4, <1>8
<1> QED
  BY <1>8, <1>9, <1>10 DEF Reads

LEMMA NoRoots ==
    ASSUME NEW d, Sane(d)
    PROVE  Roots(d) = {} <=> d.unlinked = <<>>
<1>1. ToSet(d.unlinked) = Roots(d) /\ d.unlinked \in Seq(Nat)
  BY DEF Sane, Tallied, Shaped
<1>2. ASSUME d.unlinked # <<>> PROVE ToSet(d.unlinked) # {}
  <2>1. 1 \in DOMAIN d.unlinked
    BY <1>1, <1>2
  <2> QED
    BY <2>1 DEF ToSet
<1>3. ASSUME d.unlinked = <<>> PROVE ToSet(d.unlinked) = {}
  BY <1>3 DEF ToSet
<1> QED
  BY <1>1, <1>2, <1>3

LEMMA ParseBufferKeeps ==
    ASSUME NEW S, NEW x \in Seq(S), NEW d, Sane(d), Roots(d) = {}, d.depth = 0, NEW mode
    PROVE  LET e == ParseBuffer(d, x, mode) IN Sane(e) /\ Roots(e) = {} /\ e.depth = 0
<1> DEFINE p == SkipWhiteSpace(x, 1)
           bom == HasAt(x, p, BOM)
           begin == IF bom THEN p + Len(BOM) ELSE p
           named == [d EXCEPT !.bom = bom]
           e == ParseBuffer(d, x, mode)
<1>1. e = IF begin > Len(x) THEN SetError(named, "empty document") ELSE ParseDeep(named, x, begin, mode)
  BY DEF ParseBuffer
<1>2. begin \in Nat \ {0}
  <2>1. p \in 1 .. Len(x) + 1
    <3>1. 1 \in Nat \ {0}
      OBVIOUS
    <3> QED
      BY <3>1, SkipFacts DEF SkipWhiteSpace
  <2>2. Len(BOM) = 3
    BY DEF BOM
  <2> HIDE DEF p, bom
  <2> QED
    BY <2>1, <2>2
<1>3. Sane(named) /\ Roots(named) = {} /\ named.depth = 0
  <2> HIDE DEF bom
  <2>1. d = [node |-> d.node, unlinked |-> d.unlinked, current |-> d.current,
             untracked |-> d.untracked, error |-> d.error, depth |-> d.depth, bom |-> d.bom]
    BY DEF Sane, Shaped
  <2>2. named = [node |-> d.node, unlinked |-> d.unlinked, current |-> d.current,
                 untracked |-> d.untracked, error |-> d.error, depth |-> d.depth, bom |-> bom]
    BY <2>1
  <2> HIDE DEF named
  <2>3. named = [node |-> d.node, unlinked |-> d.unlinked, current |-> d.current,
                 untracked |-> d.untracked, error |-> named.error, depth |-> named.depth, bom |-> named.bom]
    BY <2>2
  <2>4. named.depth = d.depth
    BY <2>2
  <2>5. Steady(d, named) /\ named.node = d.node
    BY <2>3, <2>4, NotesAreSteady
  <2> QED
    BY <2>4, <2>5 DEF Steady, Roots, Nodes
<1> HIDE DEF begin, named, e
<1>4. ASSUME begin > Len(x) PROVE Sane(e) /\ Roots(e) = {} /\ e.depth = 0
  <2>1. e = SetError(named, "empty document")
    BY <1>1, <1>4
  <2>2. Steady(named, e) /\ e.node = named.node
    BY <1>3, <2>1, ErrorIsSteady
  <2> QED
    BY <1>3, <2>2 DEF Steady, Roots, Nodes
<1>5. ASSUME ~(begin > Len(x)) PROVE Sane(e) /\ Roots(e) = {} /\ e.depth = 0
  <2>1. e = ParseDeep(named, x, begin, mode) /\ begin \in 1 .. Len(x)
    BY <1>1, <1>2, <1>5
  <2> QED
    BY <1>3, <2>1, ParseDeepKeeps
<1>6. Sane(e) /\ Roots(e) = {} /\ e.depth = 0
  BY <1>4, <1>5
<1> QED
  BY <1>6 DEF e

LEMMA ClearedDepth ==
    ASSUME NEW d, Sane(d)
    PROVE  Clear(d).depth = 0
<1> DEFINE e == DeleteUnlinked(DeleteChildren(d, Doc))
           c == Clear(d)
<1>1. c = [e EXCEPT !.error = "success", !.depth = 0]
  BY DEF Clear
<1>2. Sane(c)
  BY ClearKeeps
<1> HIDE DEF e, c
<1>3. "depth" \in DOMAIN c
  <2>1. c = [node |-> c.node, unlinked |-> c.unlinked, current |-> c.current,
             untracked |-> c.untracked, error |-> c.error, depth |-> c.depth, bom |-> c.bom]
    BY <1>2 DEF Sane, Shaped
  <2> DEFINE form == [node |-> c.node, unlinked |-> c.unlinked, current |-> c.current,
                      untracked |-> c.untracked, error |-> c.error, depth |-> c.depth, bom |-> c.bom]
  <2>2. "depth" \in DOMAIN form
    OBVIOUS
  <2>3. c = form
    BY <2>1
  <2> HIDE DEF form
  <2> QED
    BY <2>2, <2>3
<1>4. "depth" \in DOMAIN e
  BY <1>1, <1>3
<1>5. c.depth = 0
  BY <1>1, <1>4
<1> QED
  BY <1>5 DEF c

\* Whatever a text holds, LoadFile leaves a sane document in which no node is
\* without a parent: what was read before an error too
\* (src/filter/lib/tinyxml/tinyxml.cpp:1072).
THEOREM LoadFileKeeps ==
    ASSUME NEW S, NEW x \in Seq(S), NEW d, Sane(d), NEW mode
    PROVE  LET e == LoadFile(d, x, mode) IN Sane(e) /\ e.unlinked = <<>> /\ e.depth = 0
<1> DEFINE c == Clear(d)
           e == LoadFile(d, x, mode)
<1>1. Sane(c) /\ Nodes(c) = {} /\ c.depth = 0
  BY ClearKeeps, ClearedDepth
<1> HIDE DEF c
<1>2. Roots(c) = {}
  BY <1>1 DEF Roots
<1>3. e = IF x = <<>> THEN SetError(c, "empty document") ELSE ParseBuffer(c, x, mode)
  BY DEF LoadFile, c
<1>4. Steady(c, SetError(c, "empty document")) /\ SetError(c, "empty document").node = c.node
  BY <1>1, ErrorIsSteady
<1>5. Sane(ParseBuffer(c, x, mode)) /\ Roots(ParseBuffer(c, x, mode)) = {} /\ ParseBuffer(c, x, mode).depth = 0
  BY <1>1, <1>2, ParseBufferKeeps
<1> HIDE DEF e
<1>6. Sane(e) /\ Roots(e) = {} /\ e.depth = 0
  <2>1. ASSUME x = <<>> PROVE Sane(e) /\ Roots(e) = {} /\ e.depth = 0
    BY <1>1, <1>2, <1>3, <1>4, <2>1 DEF Steady, Roots, Nodes
  <2>2. ASSUME x # <<>> PROVE Sane(e) /\ Roots(e) = {} /\ e.depth = 0
    BY <1>3, <1>5, <2>2
  <2> QED
    BY <2>1, <2>2
<1>7. Sane(e) /\ e.unlinked = <<>> /\ e.depth = 0
  BY <1>6, NoRoots
<1> QED
  BY <1>7 DEF e

\* Whatever a text holds, Parse leaves a sane document in which no node is without
\* a parent, and after an error no node at all: clearing the pools forgets none
\* (src/filter/lib/tinyxml/tinyxml.cpp:2455).
THEOREM ParseKeeps ==
    ASSUME NEW S, NEW x \in Seq(S), NEW d, Sane(d), NEW mode
    PROVE  LET e == Parse(d, x, mode)
           IN  Sane(e) /\ e.unlinked = <<>> /\ e.depth = 0 /\ (Error(e) => Nodes(e) = {})
<1> DEFINE l == LoadFile(d, x, mode)
           e == Parse(d, x, mode)
<1>1. Sane(l) /\ l.unlinked = <<>> /\ l.depth = 0
  BY LoadFileKeeps
<1>2. ASSUME x = <<>> PROVE e = l /\ Nodes(l) = {}
  <2> DEFINE c == Clear(d)
  <2>1. Sane(c) /\ Nodes(c) = {}
    BY ClearKeeps
  <2> HIDE DEF c
  <2>2. SetError(c, "empty document").node = c.node
    BY <2>1, ErrorIsSteady
  <2>3. l = SetError(c, "empty document") /\ e = l
    BY <1>2 DEF LoadFile, Parse, c
  <2> QED
    BY <2>1, <2>2, <2>3 DEF Nodes
<1>3. ASSUME x # <<>> PROVE e = Discard(l)
  BY <1>3 DEF LoadFile, Parse
<1> HIDE DEF l, e
<1>4. ASSUME e = Discard(l), Error(l) PROVE Sane(e) /\ e.unlinked = <<>> /\ Nodes(e) = {} /\ e.depth = 0
  <2> DEFINE g == DeleteChildren(l, Doc)
  <2>1. ClearPools(g) = g /\ Sane(g) /\ Nodes(g) = {}
    BY <1>1, DiscardKeeps
  <2>0. g.depth = 0
    <3>1. Formed(l) /\ IsFiniteSet(DOMAIN l.node)
      BY <1>1 DEF Sane, Shaped, Formed
    <3> QED
      BY <1>1, <3>1, DeleteChildrenDepth DEF AsDeep
  <2> HIDE DEF g
  <2>2. e = g
    BY <1>4, <2>1 DEF Discard, g
  <2>3. Roots(g) = {}
    BY <2>1 DEF Roots
  <2> QED
    BY <2>0, <2>1, <2>2, <2>3, NoRoots
<1>5. ASSUME e = Discard(l), ~Error(l) PROVE e = l
  BY <1>5 DEF Discard
<1>6. Sane(e) /\ e.unlinked = <<>> /\ e.depth = 0 /\ (Error(e) => Nodes(e) = {})
  BY <1>1, <1>2, <1>3, <1>4, <1>5
<1> QED
  BY <1>6 DEF e

-----------------------------------------------------------------------------
(***************************************************************************)
(* What is printed is a text.                                              *)
(***************************************************************************)
Prints(w) ==
    /\ w = [out |-> w.out, stack |-> w.stack, depth |-> w.depth, textDepth |-> w.textDepth,
            opened |-> w.opened, first |-> w.first, compact |-> w.compact]
    /\ Text(w.out) /\ w.depth \in Int

\* v is w, with something written.
Wrote(w, v) == Prints(v) /\ v.stack = w.stack /\ v.depth = w.depth

LEMMA EmitWrites ==
    ASSUME NEW w, Prints(w), NEW x, Text(x)
    PROVE  Wrote(w, Emit(w, x))
<1> DEFINE out == w.out \o x
<1>1. Text(out)
  BY TextJoined DEF Prints
<1>2. Emit(w, x) = [w EXCEPT !.out = out]
  BY DEF Emit
<1> HIDE DEF out
<1> QED
  BY <1>1, <1>2 DEF Wrote, Prints

LEMMA WroteTwice ==
    ASSUME NEW w, NEW v, Wrote(w, v), NEW u, Wrote(v, u)
    PROVE  Wrote(w, u)
BY DEF Wrote

LEMMA IndentText ==
    ASSUME NEW depth \in Int
    PROVE  Text(Indent(depth))
<1> DEFINE f == Indent(depth)
           n == IF depth >= 0 THEN 4 * depth ELSE 0
<1>1. n \in Nat /\ 1 .. 4 * depth = 1 .. n
  OBVIOUS
<1>2. f = [i \in 1 .. n |-> " "]
  BY <1>1 DEF Indent
<1> HIDE DEF f, n
<1>3. f = [i \in 1 .. n |-> f[i]]
  BY <1>2
<1> QED
  BY <1>1, <1>3, TextOf DEF f

LEMMA NewLineWrites ==
    ASSUME NEW w, Prints(w)
    PROVE  Wrote(w, NewLine(w))
<1> DEFINE x == <<LF>> \o Indent(w.depth)
<1>1. Text(x)
  <2>1. Text(<<LF>>) /\ Text(Indent(w.depth))
    BY TextsAre, IndentText DEF Prints
  <2> QED
    BY <2>1, TextJoined
<1>2. NewLine(w) = Emit(w, x)
  BY DEF NewLine
<1> HIDE DEF x
<1> QED
  BY <1>1, <1>2, EmitWrites

LEMMA SealWrites ==
    ASSUME NEW w, Prints(w)
    PROVE  Wrote(w, SealElementIfJustOpened(w))
<1> DEFINE v == Emit(w, <<">">>)
<1>1. Wrote(w, v)
  BY TextsAre, EmitWrites
<1>2. SealElementIfJustOpened(w) = IF w.opened THEN [v EXCEPT !.opened = FALSE] ELSE w
  BY DEF SealElementIfJustOpened
<1> HIDE DEF v
<1> QED
  BY <1>1, <1>2 DEF Wrote, Prints

LEMMA PrepareWrites ==
    ASSUME NEW w, Prints(w)
    PROVE  Wrote(w, PrepareForNewNode(w))
<1> DEFINE v == SealElementIfJustOpened(w)
           begun == IF v.first THEN Emit(v, Indent(v.depth))
                    ELSE IF v.textDepth < 0 THEN NewLine(v) ELSE v
<1>1. Wrote(w, v) /\ Prints(v)
  BY SealWrites DEF Wrote
<1>2. PrepareForNewNode(w) = IF w.compact THEN v ELSE [begun EXCEPT !.first = FALSE]
  BY DEF PrepareForNewNode
<1> HIDE DEF v
<1>3. Wrote(v, begun)
  <2>1. Text(Indent(v.depth))
    BY <1>1, IndentText DEF Prints
  <2>2. Wrote(v, Emit(v, Indent(v.depth))) /\ Wrote(v, NewLine(v)) /\ Wrote(v, v)
    BY <1>1, <2>1, EmitWrites, NewLineWrites DEF Wrote
  <2> QED
    BY <2>2
<1> HIDE DEF begun
<1> QED
  BY <1>1, <1>2, <1>3 DEF Wrote, Prints

LEMMA MarkupWrites ==
    ASSUME NEW w, Prints(w), NEW begin, Text(begin), NEW value, Text(value), NEW end, Text(end)
    PROVE  Wrote(w, PushMarkup(w, begin, value, end))
<1> DEFINE v == PrepareForNewNode(w)
           x == begin \o value \o end
<1>1. Wrote(w, v) /\ Prints(v)
  BY PrepareWrites DEF Wrote
<1>2. Text(x)
  <2>1. Text(begin \o value)
    BY TextJoined
  <2> QED
    BY <2>1, TextJoined
<1>3. PushMarkup(w, begin, value, end) = Emit(v, x)
  BY DEF PushMarkup
<1> HIDE DEF v, x
<1> QED
  BY <1>1, <1>2, <1>3, EmitWrites, WroteTwice

LEMMA PushTextWrites ==
    ASSUME NEW w, Prints(w), NEW x, Text(x)
    PROVE  Wrote(w, PushText(w, x))
<1> DEFINE u == [w EXCEPT !.textDepth = w.depth - 1]
           v == SealElementIfJustOpened(u)
<1>1. Wrote(w, u) /\ Prints(u)
  BY DEF Wrote, Prints
<1>2. PushText(w, x) = Emit(v, x)
  BY DEF PushText
<1> HIDE DEF u
<1>3. Wrote(u, v) /\ Prints(v)
  BY <1>1, SealWrites DEF Wrote
<1> HIDE DEF v
<1>4. Wrote(v, Emit(v, x))
  BY <1>3, EmitWrites
<1> QED
  BY <1>1, <1>2, <1>3, <1>4, WroteTwice

\* An element that is opened is on the stack.
LEMMA OpenWrites ==
    ASSUME NEW w, Prints(w), NEW node, Text(node.value), Named(node.attrs)
    PROVE  LET v == OpenElement(w, node) IN Prints(v) /\ v.stack = Append(w.stack, node.value)
<1> DEFINE attrs == [i \in DOMAIN node.attrs |-> PushAttribute(node.attrs[i])]
           x == <<"<">> \o node.value \o Join(attrs)
           u == PrepareForNewNode(w)
           v == Emit(u, x)
           r == OpenElement(w, node)
<1>1. Text(Join(attrs))
  <2>1. Text(node.attrs)
    BY DEF Named, Text
  <2> DEFINE n == Len(node.attrs)
  <2>2. n \in Nat /\ DOMAIN node.attrs = 1 .. n
    BY <2>1, TextHas
  <2>3. ASSUME NEW i \in 1 .. n PROVE Text(PushAttribute(node.attrs[i]))
    <3> DEFINE a == node.attrs[i]
               y == Escape(a.value, FALSE)
               u1 == <<" ">> \o a.name
               u2 == u1 \o <<"=", "\"">>
               u3 == u2 \o y
    <3>1. Text(a.name) /\ Text(a.value)
      BY <2>2, <2>3 DEF Named
    <3>2. PushAttribute(a) = u3 \o <<"\"">>
      BY DEF PushAttribute
    <3> HIDE DEF a
    <3>3. Text(y) /\ Text(<<" ">>) /\ Text(<<"=", "\"">>) /\ Text(<<"\"">>)
      BY <3>1, EscapedText, TextsAre
    <3> HIDE DEF y
    <3>4. Text(u1)
      BY <3>1, <3>3, TextJoined
    <3> HIDE DEF u1
    <3>5. Text(u2)
      BY <3>3, <3>4, TextJoined
    <3> HIDE DEF u2
    <3>6. Text(u3)
      BY <3>3, <3>5, TextJoined
    <3> HIDE DEF u3
    <3>7. Text(PushAttribute(a))
      BY <3>2, <3>3, <3>6, TextJoined
    <3> QED
      BY <3>7 DEF a
  <2> HIDE DEF n
  <2> DEFINE p(i) == PushAttribute(node.attrs[i])
  <2>4. \A i \in 1 .. n : Text(p(i))
    BY <2>3
  <2> HIDE DEF p
  <2>5. attrs = [i \in 1 .. n |-> p(i)]
    BY <2>2 DEF p
  <2> HIDE DEF attrs
  <2>6. attrs = [i \in 1 .. n |-> attrs[i]] /\ \A i \in 1 .. n : Text(attrs[i])
    BY <2>4, <2>5
  <2> QED
    BY <2>2, <2>6, JoinedText
<1>2. Text(x)
  <2> HIDE DEF attrs
  <2>1. Text(<<"<">>)
    BY TextsAre
  <2>2. Text(<<"<">> \o node.value)
    BY <2>1, TextJoined
  <2> QED
    BY <1>1, <2>2, TextJoined
<1>3. r = [v EXCEPT !.stack = Append(v.stack, node.value), !.opened = TRUE, !.depth = v.depth + 1]
  BY DEF OpenElement
<1> HIDE DEF x
<1>4. Wrote(w, u) /\ Prints(u)
  BY PrepareWrites DEF Wrote
<1> HIDE DEF u
<1>5. Wrote(u, v)
  BY <1>2, <1>4, EmitWrites
<1>6. Wrote(w, v)
  BY <1>4, <1>5, WroteTwice
<1> HIDE DEF v, r
<1> DEFINE stack == Append(w.stack, node.value)
<1>7. v.stack = w.stack
  BY <1>6 DEF Wrote
<1>8. r = [v EXCEPT !.stack = stack, !.opened = TRUE, !.depth = v.depth + 1]
  BY <1>3, <1>7
<1> HIDE DEF stack
<1>9. /\ v = [out |-> v.out, stack |-> v.stack, depth |-> v.depth, textDepth |-> v.textDepth,
              opened |-> v.opened, first |-> v.first, compact |-> v.compact]
      /\ Text(v.out) /\ v.depth \in Int
  BY <1>6 DEF Wrote, Prints
<1> DEFINE depth == v.depth + 1
<1>10. depth \in Int
  BY <1>9
<1> HIDE DEF depth
<1>11. r = [v EXCEPT !.stack = stack, !.opened = TRUE, !.depth = depth]
  BY <1>8 DEF depth
<1>12. r = [out |-> v.out, stack |-> stack, depth |-> depth, textDepth |-> v.textDepth,
            opened |-> TRUE, first |-> v.first, compact |-> v.compact]
  BY <1>9, <1>11
<1>13. Prints(r) /\ r.stack = stack
  BY <1>9, <1>10, <1>12 DEF Prints
<1> QED
  BY <1>13 DEF r, stack

LEMMA CloseWrites ==
    ASSUME NEW w, Prints(w), Text(Last(w.stack))
    PROVE  LET v == CloseElement(w) IN Prints(v) /\ v.stack = Front(w.stack)
<1> DEFINE stack == Front(w.stack)
           up == [w EXCEPT !.depth = @ - 1, !.stack = stack]
           broken == IF up.textDepth < 0 /\ ~w.compact THEN NewLine(up) ELSE up
           x == <<"<", "/">> \o Last(w.stack) \o <<">">>
           closed == IF w.opened THEN Emit(up, <<"/", ">">>) ELSE Emit(broken, x)
           ended == IF up.depth = 0 /\ ~w.compact THEN Emit(closed, <<LF>>) ELSE closed
           depth == IF ended.textDepth = up.depth THEN -1 ELSE ended.textDepth
           r == CloseElement(w)
<1>1. r = [ended EXCEPT !.opened = FALSE, !.textDepth = depth]
  BY DEF CloseElement
<1>2. Text(x)
  <2>1. Text(<<"<", "/">>) /\ Text(<<">">>)
    BY TextsAre
  <2>2. Text(<<"<", "/">> \o Last(w.stack))
    BY <2>1, TextJoined
  <2> QED
    BY <2>1, <2>2, TextJoined
<1> HIDE DEF stack, depth, r, x
<1>3. Prints(up) /\ up.stack = stack
  <2> DEFINE less == w.depth - 1
  <2>1. Text(w.out) /\ less \in Int
    BY DEF Prints
  <2>2. up = [w EXCEPT !.depth = less, !.stack = stack]
    OBVIOUS
  <2> HIDE DEF less, up
  <2>3. w = [out |-> w.out, stack |-> w.stack, depth |-> w.depth, textDepth |-> w.textDepth,
             opened |-> w.opened, first |-> w.first, compact |-> w.compact]
    BY DEF Prints
  <2>4. up = [out |-> w.out, stack |-> stack, depth |-> less, textDepth |-> w.textDepth,
              opened |-> w.opened, first |-> w.first, compact |-> w.compact]
    BY <2>2, <2>3
  <2> QED
    BY <2>1, <2>4 DEF Prints
<1> HIDE DEF up
<1>4. Wrote(up, broken)
  BY <1>3, NewLineWrites DEF Wrote
<1> HIDE DEF broken
<1>5. Wrote(up, closed)
  <2>1. Wrote(up, Emit(up, <<"/", ">">>))
    BY <1>3, EmitWrites, TextsAre
  <2>2. Wrote(broken, Emit(broken, x))
    BY <1>2, <1>4, EmitWrites DEF Wrote
  <2>3. Wrote(up, Emit(broken, x))
    BY <1>4, <2>2, WroteTwice
  <2> QED
    BY <2>1, <2>3
<1> HIDE DEF closed
<1>6. Wrote(up, ended)
  <2>1. Wrote(closed, Emit(closed, <<LF>>))
    BY <1>5, EmitWrites, TextsAre DEF Wrote
  <2>2. Wrote(up, Emit(closed, <<LF>>))
    BY <1>5, <2>1, WroteTwice
  <2> QED
    BY <1>5, <2>2
<1> HIDE DEF ended
<1>7. Prints(r) /\ r.stack = stack
  BY <1>1, <1>3, <1>6 DEF Wrote, Prints
<1> QED
  BY <1>7 DEF r, stack

\* What a node is printed as: an element stays on the stack.
LEMMA VisitWrites ==
    ASSUME NEW w, Prints(w), NEW node, Text(node.value), Named(node.attrs)
    PROVE  LET v == Visit(w, node)
           IN  Prints(v) /\ v.stack = IF node.kind = "element" THEN Append(w.stack, node.value) ELSE w.stack
<1> DEFINE v == Visit(w, node)
           value == node.value
           kind == node.kind
           Sound == Prints(v) /\ v.stack = IF kind = "element" THEN Append(w.stack, value) ELSE w.stack
<1>1. ASSUME kind = "element" PROVE Sound
  <2>1. v = OpenElement(w, node)
    BY <1>1 DEF Visit
  <2> HIDE DEF v
  <2> QED
    BY <1>1, <2>1, OpenWrites
<1>2. ASSUME kind # "element", Wrote(w, v) PROVE Sound
  BY <1>2 DEF Wrote
<1>3. ASSUME kind = "text" PROVE Sound
  <2>1. v = PushText(w, Escape(value, TRUE))
    BY <1>3 DEF Visit
  <2>2. Text(Escape(value, TRUE))
    BY EscapedText
  <2>3. Wrote(w, v)
    BY <2>1, <2>2, PushTextWrites
  <2> QED
    BY <1>2, <1>3, <2>3
<1>4. ASSUME kind = "cdata" PROVE Sound
  <2> DEFINE begin == <<"<", "!", "[", "C", "D", "A", "T", "A", "[">>
             end == <<"]", "]", ">">>
  <2>1. v = PushText(w, begin \o value \o end)
    BY <1>4 DEF Visit, PushCData
  <2>2. Text(begin) /\ Text(end)
    <3>1. DOMAIN begin = 1 .. 9 /\ begin = [i \in DOMAIN begin |-> begin[i]]
      OBVIOUS
    <3>2. Text(end)
      BY TextsAre
    <3> HIDE DEF begin, end
    <3>3. 9 \in Nat /\ begin = [i \in 1 .. 9 |-> begin[i]]
      BY <3>1
    <3> QED
      BY <3>2, <3>3, TextOf
  <2> HIDE DEF begin, end
  <2>3. Text(begin \o value)
    BY <2>2, TextJoined
  <2>4. Text(begin \o value \o end)
    BY <2>2, <2>3, TextJoined
  <2>5. Wrote(w, v)
    BY <2>1, <2>4, PushTextWrites
  <2> QED
    BY <1>2, <1>4, <2>5
<1>5. ASSUME NEW begin, NEW end, Text(begin), Text(end), v = PushMarkup(w, begin, value, end), kind # "element"
      PROVE  Sound
  <2>1. Wrote(w, v)
    BY <1>5, MarkupWrites
  <2> QED
    BY <1>2, <1>5, <2>1
<1>6. /\ Text(<<"<", "!", "-", "-">>) /\ Text(<<"-", "-", ">">>) /\ Text(<<"<", "?">>) /\ Text(<<"?", ">">>)
      /\ Text(<<"<", "!">>) /\ Text(<<">">>)
  BY TextsAre
<1>7. ASSUME kind = "comment" PROVE Sound
  <2>1. v = PushMarkup(w, <<"<", "!", "-", "-">>, value, <<"-", "-", ">">>)
    BY <1>7 DEF Visit, PushComment
  <2> HIDE DEF v, Sound
  <2> QED
    BY <1>5, <1>6, <1>7, <2>1
<1>8. ASSUME kind = "declaration" PROVE Sound
  <2>1. v = PushMarkup(w, <<"<", "?">>, value, <<"?", ">">>)
    BY <1>8 DEF Visit, PushDeclaration
  <2> HIDE DEF v, Sound
  <2> QED
    BY <1>5, <1>6, <1>8, <2>1
<1>9. ASSUME kind \notin {"element", "text", "cdata", "comment", "declaration"} PROVE Sound
  <2>1. v = PushMarkup(w, <<"<", "!">>, value, <<">">>)
    BY <1>9 DEF Visit, PushUnknown
  <2> HIDE DEF v, Sound
  <2> QED
    BY <1>5, <1>6, <1>9, <2>1
<1> HIDE DEF Sound
<1>10. Sound
  BY <1>1, <1>3, <1>4, <1>7, <1>8, <1>9
<1> QED
  BY <1>10 DEF Sound

\* While a document is printed: the stack has an element for each list of children
\* but the document's.
Visiting(d, s) ==
    /\ s.doc = d /\ Prints(s.printer)
    /\ Text(s.open) /\ Len(s.open) >= 1 /\ \A i \in DOMAIN s.open : s.open[i] \in Nodes(d) \cup {Nil}
    /\ Text(s.printer.stack) /\ Len(s.printer.stack) = Len(s.open) - 1
    /\ \A i \in DOMAIN s.printer.stack : Text(s.printer.stack[i])

LEMMA AllAppended ==
    ASSUME NEW s, Text(s), NEW x
    PROVE  /\ Text(Append(s, x)) /\ Len(Append(s, x)) = Len(s) + 1
           /\ \A i \in DOMAIN Append(s, x) : Append(s, x)[i] \in {x} \cup {s[j] : j \in DOMAIN s}
<1>1. PICK S : s \in Seq(S)
  BY DEF Text
<1>2. s \in Seq(S \cup {x})
  BY <1>1
<1>3. Append(s, x) \in Seq(S \cup {x}) /\ Len(Append(s, x)) = Len(s) + 1 /\ Len(s) \in Nat
  BY <1>2
<1>4. \A i \in 1 .. Len(s) + 1 : Append(s, x)[i] = IF i \in 1 .. Len(s) THEN s[i] ELSE x
  BY <1>2
<1>5. DOMAIN Append(s, x) = 1 .. Len(s) + 1 /\ DOMAIN s = 1 .. Len(s)
  BY <1>2, <1>3
<1> QED
  BY <1>3, <1>4, <1>5 DEF Text

LEMMA AllInFront ==
    ASSUME NEW s, Text(s), Len(s) >= 1
    PROVE  /\ Text(Front(s)) /\ Len(Front(s)) = Len(s) - 1
           /\ \A i \in DOMAIN Front(s) : Front(s)[i] \in {s[j] : j \in DOMAIN s}
           /\ Last(s) \in {s[j] : j \in DOMAIN s}
<1>1. PICK S : s \in Seq(S)
  BY DEF Text
<1>2. Len(s) \in Nat /\ DOMAIN s = 1 .. Len(s) /\ Len(s) \in 1 .. Len(s)
  BY <1>1
<1>3. Front(s) = SubSeq(s, 1, Len(s) - 1)
  BY DEF Front
<1>4. Front(s) = [i \in 1 .. Len(s) - 1 |-> s[i]]
  BY <1>1, <1>2, <1>3
<1> DEFINE n == Len(s) - 1
           f == Front(s)
<1>5. n \in Nat /\ f = [i \in 1 .. n |-> s[i]] /\ 1 .. n \subseteq DOMAIN s
  BY <1>2, <1>4
<1> HIDE DEF n, f
<1>6. f = [i \in 1 .. n |-> f[i]] /\ \A i \in 1 .. n : f[i] = s[i]
  BY <1>5
<1>7. Text(f) /\ Len(f) = n /\ DOMAIN f = 1 .. n
  BY <1>5, <1>6, TextOf
<1>8. Last(s) = s[Len(s)]
  BY DEF Last
<1> QED
  BY <1>2, <1>5, <1>6, <1>7, <1>8 DEF n, f

LEMMA AllJoined ==
    ASSUME NEW u, Text(u), NEW v, Text(v)
    PROVE  \A i \in DOMAIN (u \o v) : (u \o v)[i] \in {u[j] : j \in DOMAIN u} \cup {v[j] : j \in DOMAIN v}
<1>1. PICK S : u \in Seq(S)
  BY DEF Text
<1>2. PICK R : v \in Seq(R)
  BY DEF Text
<1>3. u \in Seq(S \cup R) /\ v \in Seq(S \cup R)
  BY <1>1, <1>2
<1> DEFINE m == Len(u)
           n == Len(v)
<1>4. m \in Nat /\ n \in Nat /\ DOMAIN u = 1 .. m /\ DOMAIN v = 1 .. n /\ DOMAIN (u \o v) = 1 .. m + n
  BY <1>3
<1>5. ASSUME NEW i \in 1 .. m + n PROVE (u \o v)[i] = IF i <= m THEN u[i] ELSE v[i - m]
  BY <1>3, <1>5
<1> HIDE DEF m, n
<1>6. ASSUME NEW i \in 1 .. m + n PROVE (u \o v)[i] \in {u[j] : j \in DOMAIN u} \cup {v[j] : j \in DOMAIN v}
  <2>1. CASE i <= m
    <3>1. i \in DOMAIN u
      BY <1>4, <2>1
    <3> QED
      BY <1>5, <2>1, <3>1
  <2>2. CASE ~(i <= m)
    <3>1. i - m \in DOMAIN v
      BY <1>4, <2>2
    <3> QED
      BY <1>5, <2>2, <3>1
  <2> QED
    BY <2>1, <2>2
<1> QED
  BY <1>4, <1>6

LEMMA AcceptTurnKeeps ==
    ASSUME NEW d, Sane(d), NEW s, Visiting(d, s)
    PROVE  Visiting(d, AcceptTurn(s))
<1> DEFINE w == s.printer
           up == Front(s.open)
           c == Last(s.open)
           node == d.node[c]
           t == AcceptTurn(s)
<1>1. /\ s.doc = d /\ Prints(w) /\ Text(s.open) /\ Len(s.open) \in Nat /\ Len(s.open) >= 1
      /\ Text(w.stack) /\ Len(w.stack) = Len(s.open) - 1 /\ \A i \in DOMAIN w.stack : Text(w.stack[i])
      /\ \A i \in DOMAIN s.open : s.open[i] \in Nodes(d) \cup {Nil}
  BY TextHas DEF Visiting
<1>2. /\ Text(up) /\ Len(up) = Len(s.open) - 1 /\ c \in Nodes(d) \cup {Nil}
      /\ \A i \in DOMAIN up : up[i] \in Nodes(d) \cup {Nil}
  <2>1. /\ Text(up) /\ Len(up) = Len(s.open) - 1 /\ c \in {s.open[j] : j \in DOMAIN s.open}
        /\ \A i \in DOMAIN up : up[i] \in {s.open[j] : j \in DOMAIN s.open}
    BY <1>1, AllInFront
  <2>2. {s.open[j] : j \in DOMAIN s.open} \subseteq Nodes(d) \cup {Nil}
    BY <1>1
  <2> HIDE DEF up, c
  <2> QED
    BY <2>1, <2>2
<1> HIDE DEF up
<1>3. CASE c # Nil
  <2> DEFINE v == Visit(w, node)
             inner == IF node.kind = "element" THEN <<node.first>> ELSE <<>>
             beside == up \o <<node.next>>
             open == beside \o inner
  <2>1. t = [doc |-> d, printer |-> v, open |-> open]
    BY <1>1, <1>3 DEF AcceptTurn, up
  <2>2. c \in Nodes(d) /\ Text(node.value) /\ Named(node.attrs)
    BY <1>2, <1>3 DEF Sane, Tallied, Attributed
  <2>3. node.next \in Nodes(d) \cup {Nil} /\ node.first \in Nodes(d) \cup {Nil}
    BY <2>2 DEF Sane, Linked, Child, Nodes
  <2> HIDE DEF c, node
  <2>4. Prints(v) /\ v.stack = IF node.kind = "element" THEN Append(w.stack, node.value) ELSE w.stack
    BY <1>1, <2>2, VisitWrites
  <2> HIDE DEF v
  <2>5. /\ Text(beside) /\ Len(beside) = Len(s.open)
        /\ \A i \in DOMAIN beside : beside[i] \in Nodes(d) \cup {Nil}
    <3> DEFINE one == <<node.next>>
    <3>1. Text(one) /\ Len(one) = 1 /\ {one[j] : j \in DOMAIN one} \subseteq Nodes(d) \cup {Nil}
      BY <2>3, TextsAre
    <3>2. beside = up \o one
      OBVIOUS
    <3> HIDE DEF one, beside
    <3>3. Text(beside) /\ Len(beside) = Len(s.open)
      <4>1. Text(beside) /\ Len(beside) = Len(up) + Len(one)
        BY <1>2, <3>1, <3>2, TextJoined
      <4> QED
        BY <1>1, <1>2, <3>1, <4>1
    <3>4. {up[j] : j \in DOMAIN up} \subseteq Nodes(d) \cup {Nil}
      BY <1>2
    <3>5. \A i \in DOMAIN beside : beside[i] \in {up[j] : j \in DOMAIN up} \cup {one[j] : j \in DOMAIN one}
      BY <1>2, <3>1, <3>2, AllJoined
    <3> QED
      BY <3>1, <3>3, <3>4, <3>5
  <2> HIDE DEF beside
  <2>6. /\ Text(open) /\ Len(open) = Len(s.open) + Len(inner)
        /\ \A i \in DOMAIN open : open[i] \in Nodes(d) \cup {Nil}
    <3>1. Text(inner) /\ {inner[j] : j \in DOMAIN inner} \subseteq Nodes(d) \cup {Nil}
      BY <2>3, TextsAre
    <3> HIDE DEF inner
    <3>2. Text(open) /\ Len(open) = Len(s.open) + Len(inner)
      BY <2>5, <3>1, TextJoined
    <3>3. {beside[j] : j \in DOMAIN beside} \subseteq Nodes(d) \cup {Nil}
      BY <2>5
    <3>4. \A i \in DOMAIN open : open[i] \in {beside[j] : j \in DOMAIN beside} \cup {inner[j] : j \in DOMAIN inner}
      BY <2>5, <3>1, AllJoined
    <3> HIDE DEF open
    <3> QED
      BY <3>1, <3>2, <3>3, <3>4
  <2>7. Len(inner) = IF node.kind = "element" THEN 1 ELSE 0
    BY DEF inner
  <2> HIDE DEF open, inner
  <2>8. /\ Text(v.stack) /\ Len(v.stack) = Len(open) - 1 /\ Len(open) >= 1
        /\ \A i \in DOMAIN v.stack : Text(v.stack[i])
    <3>1. CASE node.kind = "element"
      <4> DEFINE stack == Append(w.stack, node.value)
      <4>1. /\ Text(stack) /\ Len(stack) = Len(w.stack) + 1
            /\ \A i \in DOMAIN stack : stack[i] \in {node.value} \cup {w.stack[j] : j \in DOMAIN w.stack}
        BY <1>1, AllAppended
      <4>2. v.stack = stack
        BY <2>4, <3>1
      <4> HIDE DEF stack
      <4>3. \A i \in DOMAIN stack : Text(stack[i])
        BY <1>1, <2>2, <4>1
      <4>4. Len(open) = Len(s.open) + 1
        BY <2>6, <2>7, <3>1
      <4> QED
        BY <1>1, <4>1, <4>2, <4>3, <4>4
    <3>2. CASE node.kind # "element"
      <4>1. Len(open) = Len(s.open) /\ v.stack = w.stack
        BY <1>1, <2>4, <2>6, <2>7, <3>2
      <4> QED
        BY <1>1, <4>1
    <3> QED
      BY <3>1, <3>2
  <2> HIDE DEF t
  <2>9. t.doc = d /\ t.printer = v /\ t.open = open
    BY <2>1
  <2>10. Visiting(d, t)
    BY <2>4, <2>6, <2>8, <2>9 DEF Visiting
  <2> QED
    BY <2>10 DEF t
<1>4. CASE c = Nil /\ Len(s.open) > 1
  <2> DEFINE v == CloseElement(w)
             stack == Front(w.stack)
  <2>1. t = [doc |-> d, printer |-> v, open |-> up]
    BY <1>1, <1>4 DEF AcceptTurn, up
  <2>2. Len(w.stack) >= 1
    BY <1>1, <1>4
  <2>3. /\ Text(stack) /\ Len(stack) = Len(w.stack) - 1 /\ Last(w.stack) \in {w.stack[j] : j \in DOMAIN w.stack}
        /\ \A i \in DOMAIN stack : stack[i] \in {w.stack[j] : j \in DOMAIN w.stack}
    BY <1>1, <2>2, AllInFront
  <2>4. \A x \in {w.stack[j] : j \in DOMAIN w.stack} : Text(x)
    BY <1>1
  <2>5. Text(Last(w.stack))
    BY <2>3, <2>4
  <2>6. Prints(v) /\ v.stack = stack
    BY <1>1, <2>5, CloseWrites
  <2> HIDE DEF v, t, stack
  <2>7. t.doc = d /\ t.printer = v /\ t.open = up
    BY <2>1
  <2>8. \A i \in DOMAIN stack : Text(stack[i])
    BY <2>3, <2>4
  <2>9. Len(stack) = Len(up) - 1 /\ Len(up) >= 1
    BY <1>1, <1>2, <1>4, <2>3
  <2>10. Visiting(d, t)
    BY <1>2, <2>3, <2>6, <2>7, <2>8, <2>9 DEF Visiting
  <2> QED
    BY <2>10 DEF t
<1>5. CASE c = Nil /\ ~(Len(s.open) > 1)
  <2>1. t = s
    BY <1>5 DEF AcceptTurn
  <2> QED
    BY <2>1
<1> QED
  BY <1>3, <1>4, <1>5

\* What a document is saved as can be read again: it is a text, whatever the
\* document holds (src/filter/lib/tinyxml/tinyxml.cpp:2738).
THEOREM PrintedIsText ==
    ASSUME NEW d, Sane(d), NEW compact
    PROVE  Text(PrintDocument(d, compact))
<1> DEFINE begun == IF d.bom THEN Emit(NewPrinter(compact), BOM) ELSE NewPrinter(compact)
           open == <<d.node[Doc].first>>
           start == [doc |-> d, printer |-> begun, open |-> open]
           k == 2 * Cardinality(DOMAIN d.node)
<1>1. k \in Nat
  BY FS_CardinalityType DEF Sane, Shaped
<1>2. Visiting(d, start)
  <2> DEFINE new == NewPrinter(compact)
  <2>1. Prints(new) /\ new.stack = <<>>
    BY TextsAre DEF Prints, NewPrinter
  <2> HIDE DEF new
  <2>2. Text(BOM)
    BY TextsAre DEF BOM
  <2>3. Wrote(new, Emit(new, BOM))
    BY <2>1, <2>2, EmitWrites
  <2>4. Prints(begun) /\ begun.stack = <<>>
    BY <2>1, <2>3 DEF Wrote, new
  <2>5. Text(open) /\ Len(open) = 1 /\ DOMAIN open = {1} /\ open[1] = d.node[Doc].first
    BY TextsAre
  <2>6. d.node[Doc].first \in Nodes(d) \cup {Nil}
    BY DEF Sane, Linked, Child
  <2>7. Text(<<>>) /\ Len(<<>>) = 0 /\ DOMAIN <<>> = {}
    BY TextsAre
  <2>8. start.doc = d /\ start.printer = begun /\ start.open = open
    OBVIOUS
  <2> HIDE DEF begun, open, start
  <2>9. Text(start.open) /\ Len(start.open) >= 1 /\ \A i \in DOMAIN start.open : start.open[i] \in Nodes(d) \cup {Nil}
    <3>1. \A i \in DOMAIN open : open[i] \in Nodes(d) \cup {Nil}
      BY <2>5, <2>6
    <3>2. Len(open) >= 1
      BY <2>5
    <3> QED
      BY <2>5, <2>8, <3>1, <3>2
  <2>10. /\ Text(start.printer.stack) /\ Len(start.printer.stack) = Len(start.open) - 1
         /\ \A i \in DOMAIN start.printer.stack : Text(start.printer.stack[i])
    BY <2>4, <2>5, <2>7, <2>8
  <2> QED
    BY <2>4, <2>8, <2>9, <2>10 DEF Visiting
<1> HIDE DEF start, k
<1>3. PICK turn : /\ turn[0] = start /\ turn[k] = Accepting!Turns(start, k)
                  /\ \A i \in 1 .. k : turn[i] = AcceptTurn(turn[i - 1])
  BY <1>1, Accepting!TurnsFacts
<1> DEFINE T == {i \in 0 .. k : Visiting(d, turn[i])}
<1>4. 0 \in T
  BY <1>1, <1>2, <1>3
<1>5. \A i \in 1 .. k : i - 1 \in T => i \in T
  BY <1>1, <1>3, AcceptTurnKeeps
<1>6. k \in T
  <2> HIDE DEF T
  <2> QED
    BY <1>1, <1>4, <1>5, Accepting!UpTo
<1>7. Visiting(d, turn[k])
  BY <1>6
<1>8. PrintDocument(d, compact) = turn[k].printer.out
  BY <1>3 DEF PrintDocument, start, k
<1> QED
  BY <1>7, <1>8 DEF Visiting, Prints

-----------------------------------------------------------------------------
(***************************************************************************)
(* What a program may move below a node.                                   *)
(***************************************************************************)
ClosedAbove(d, S) == \A n \in S : d.node[n].parent \in S \cup {Nil}

\* What was seen is closed, or there is more of it than there were turns.
Ascended(d, p, i, s) ==
    /\ s = [doc |-> d, seen |-> s.seen]
    /\ s.seen \in SUBSET DOMAIN d.node /\ p \in s.seen
    /\ ClosedAbove(d, s.seen) \/ Cardinality(s.seen) > i

LEMMA AscendKeeps ==
    ASSUME NEW d, Sane(d), NEW p, NEW i \in Nat, NEW s, Ascended(d, p, i, s)
    PROVE  Ascended(d, p, i + 1, Ascend(s))
<1> DEFINE S == s.seen
           N == (S \cup {d.node[n].parent : n \in S}) \ {Nil}
           t == Ascend(s)
<1>1. /\ s = [doc |-> d, seen |-> S] /\ s.doc = d /\ S \in SUBSET DOMAIN d.node /\ p \in S
      /\ ClosedAbove(d, S) \/ Cardinality(S) > i
  BY DEF Ascended
<1>2. t = [doc |-> d, seen |-> N]
  <2>1. t = [s EXCEPT !.seen = N]
    BY <1>1 DEF Ascend
  <2> HIDE DEF N, S, t
  <2> QED
    BY <1>1, <2>1
<1>3. Nil \notin DOMAIN d.node /\ IsFiniteSet(DOMAIN d.node)
  BY NilAssumption DEF Sane, Shaped
<1>4. \A n \in DOMAIN d.node : d.node[n].parent \in DOMAIN d.node \cup {Nil}
  BY DEF Sane, Linked
<1>5. S \subseteq N /\ N \in SUBSET DOMAIN d.node
  BY <1>1, <1>3, <1>4
<1>6. ClosedAbove(d, N) \/ Cardinality(N) > i + 1
  <2>1. CASE N = S
    BY <2>1 DEF ClosedAbove
  <2>2. CASE N # S
    <3>1. ~ClosedAbove(d, S)
      BY <1>3, <1>5, <2>2 DEF ClosedAbove
    <3> HIDE DEF N, S
    <3>2. IsFiniteSet(N) /\ IsFiniteSet(S)
      BY <1>3, <1>5, FS_Subset
    <3>3. Cardinality(S) \in Nat /\ Cardinality(N) \in Nat /\ Cardinality(S) < Cardinality(N)
      BY <1>5, <2>2, <3>2, FS_Subset, FS_CardinalityType
    <3> QED
      BY <1>1, <3>1, <3>3
  <2> QED
    BY <2>1, <2>2
<1> HIDE DEF N, t
<1> QED
  BY <1>1, <1>2, <1>5, <1>6 DEF Ascended, t

\* A node that p does not lie under may be moved below p.
LEMMA OutsideIsApart ==
    ASSUME NEW d, Sane(d), NEW p \in DOMAIN d.node, NEW n, n \notin Lineage(d, p)
    PROVE  Apart(d, n, p)
<1> DEFINE k == Cardinality(DOMAIN d.node)
           start == [doc |-> d, seen |-> {p}]
<1>1. k \in Nat
  BY FS_CardinalityType DEF Sane, Shaped
<1>2. Ascended(d, p, 0, start)
  <2>1. Cardinality({p}) = 1
    BY FS_Singleton
  <2>2. start.seen = {p} /\ start = [doc |-> d, seen |-> {p}]
    OBVIOUS
  <2> HIDE DEF start
  <2> QED
    BY <2>1, <2>2 DEF Ascended
<1> HIDE DEF start, k
<1>3. PICK turn : /\ turn[0] = start /\ turn[k] = Ascending!Turns(start, k)
                  /\ \A i \in 1 .. k : turn[i] = Ascend(turn[i - 1])
  BY <1>1, Ascending!TurnsFacts
<1> DEFINE T == {i \in 0 .. k : Ascended(d, p, i, turn[i])}
<1>4. 0 \in T
  BY <1>1, <1>2, <1>3
<1>5. \A i \in 1 .. k : i - 1 \in T => i \in T
  <2> SUFFICES ASSUME NEW i \in 1 .. k, i - 1 \in T PROVE i \in T
    OBVIOUS
  <2>1. Ascended(d, p, i - 1, turn[i - 1]) /\ i - 1 \in Nat /\ (i - 1) + 1 = i
    BY <1>1
  <2> HIDE DEF T
  <2>2. Ascended(d, p, i, turn[i])
    BY <1>3, <2>1, AscendKeeps
  <2>3. i \in 0 .. k
    BY <1>1
  <2> QED
    BY <2>2, <2>3 DEF T
<1>6. k \in T
  <2> HIDE DEF T
  <2> QED
    BY <1>1, <1>4, <1>5, Ascending!UpTo
<1>7. Ascended(d, p, k, turn[k])
  BY <1>6
<1> DEFINE S == turn[k].seen
<1>8. Lineage(d, p) = S
  BY <1>3 DEF Lineage, start, k
<1>9. ~(Cardinality(S) > k)
  <2>1. S \in SUBSET DOMAIN d.node
    BY <1>7 DEF Ascended
  <2> HIDE DEF S
  <2> QED
    BY <2>1, FS_Subset, FS_CardinalityType DEF Sane, Shaped, k
<1>10. S \in SUBSET DOMAIN d.node /\ p \in S /\ ClosedAbove(d, S)
  BY <1>7, <1>9 DEF Ascended
<1> HIDE DEF S
<1>11. S \in SUBSET (DOMAIN d.node \ {n}) /\ p \in S /\ \A m \in S : d.node[m].parent \in S \cup {Nil}
  BY <1>8, <1>10 DEF ClosedAbove
<1> QED
  BY <1>11 DEF Apart

-----------------------------------------------------------------------------
(***************************************************************************)
(* What is written is read again.                                          *)
(***************************************************************************)
\* GetText of an element whose first child is a text.
LEMMA FirstText ==
    ASSUME NEW d, Sane(d), NEW e, NEW f, f = d.node[e].first, f # Nil, d.node[f].kind \in {"text", "cdata"}
    PROVE  GetText(d, e) = d.node[f].value
<1> DEFINE k == Cardinality(DOMAIN d.node)
           start == [doc |-> d, node |-> f]
<1>1. k \in Nat
  BY FS_CardinalityType DEF Sane, Shaped
<1>2. SkipComment(start) = start
  BY DEF SkipComment
<1> HIDE DEF start, k
<1>3. PICK turn : /\ turn[0] = start /\ turn[k] = Skipping!Turns(start, k)
                  /\ \A i \in 1 .. k : turn[i] = SkipComment(turn[i - 1])
  BY <1>1, Skipping!TurnsFacts
<1> DEFINE T == {i \in 0 .. k : turn[i] = start}
<1>4. 0 \in T
  BY <1>1, <1>3
<1>5. \A i \in 1 .. k : i - 1 \in T => i \in T
  BY <1>1, <1>2, <1>3
<1>6. k \in T
  <2> HIDE DEF T
  <2> QED
    BY <1>1, <1>4, <1>5, Skipping!UpTo
<1>7. Skipping!Turns(start, k).node = f
  BY <1>3, <1>6 DEF start
<1> QED
  BY <1>7 DEF GetText, start, k

\* GetText gives what SetText set, whatever children the element has.
THEOREM TextIsReadBack ==
    ASSUME NEW d, Sane(d), NEW e \in Nodes(d), NEW text, Text(text)
    PROVE  GetText(SetText(d, e, text), e) = text
<1> DEFINE f == d.node[e].first
           c == CreateUnlinkedNode(d, "text", text)
           x == Fresh(d)
           r == SetText(d, e, text)
<1>1. e \in DOMAIN d.node /\ {"first", "value", "kind"} \subseteq Members
  BY DEF Nodes, Members, Pointing
<1>2. CASE f # Nil /\ d.node[f].kind \in {"text", "cdata"}
  <2>1. f \in DOMAIN d.node
    BY <1>1, <1>2 DEF Sane, Linked, Child, Nodes
  <2>2. r = Set(d, f, "value", text)
    BY <1>2 DEF SetText
  <2>3. \A m \in DOMAIN d.node, g \in Members :
            Set(d, f, "value", text).node[m][g] = IF m = f /\ g = "value" THEN text ELSE d.node[m][g]
    BY <1>1, <2>1, SetFacts DEF Sane
  <2>4. Sane(r)
    BY SetTextKeeps
  <2> HIDE DEF r
  <2>5. r.node[e]["first"] = f /\ r.node[f]["kind"] = d.node[f]["kind"] /\ r.node[f]["value"] = text
    BY <1>1, <2>1, <2>2, <2>3
  <2> HIDE DEF f
  <2>6. GetText(r, e) = r.node[f].value
    BY <1>2, <2>4, <2>5, FirstText
  <2> QED
    BY <2>5, <2>6 DEF r
<1>3. CASE ~(f # Nil /\ d.node[f].kind \in {"text", "cdata"})
  <2>1. r = InsertFirstChild(c, e, x)
    BY <1>3 DEF SetText
  <2>2. Sane(c) /\ Nodes(c) = Nodes(d) \cup {x} /\ Apart(c, x, e) /\ c.node[x] = NewNode("text", text)
    BY <1>1, CreateKeeps
  <2>3. c.node[x]["kind"] = "text" /\ c.node[x]["value"] = text
    BY <2>2 DEF NewNode
  <2> HIDE DEF c, r, x
  <2>4. e \in DOMAIN c.node /\ x \in Nodes(c) /\ x \in DOMAIN c.node /\ x # Nil
    BY <1>1, <2>2, NilAssumption DEF Nodes, Sane, Shaped
  <2>5. Inserted(c, r, e, x) /\ r.node[x].prev = Nil
    BY <2>1, <2>2, <2>4, InsertFirstKeeps
  <2>6. "kind" \in Members \ Pointing /\ "value" \in Members \ Pointing
    BY DEF Members, Pointing
  <2>7. Sane(r) /\ r.node[x]["kind"] = "text" /\ r.node[x]["value"] = text
    BY <2>3, <2>4, <2>5, <2>6 DEF Inserted, Alike
  <2>8. r.node[e].first = x
    <3>1. x \in DOMAIN r.node /\ r.node[x].parent = e /\ e # Nil
      BY <1>1, <2>5, NilAssumption DEF Inserted, Child, Nodes, Sane, Shaped
    <3> QED
      BY <2>5, <2>7, <3>1 DEF Sane, Linked
  <2>9. GetText(r, e) = r.node[x].value
    BY <2>4, <2>7, <2>8, FirstText
  <2> QED
    BY <2>7, <2>9 DEF r
<1> QED
  BY <1>2, <1>3

\* The attribute of a name is the one that has it.
LEMMA AttributeIs ==
    ASSUME NEW d, NEW e, Named(d.node[e].attrs), NEW name
    PROVE  LET a == d.node[e].attrs
           IN  \/ \E i \in DOMAIN a : a[i].name = name /\ Attribute(d, e, name) = a[i].value
               \/ (\A i \in DOMAIN a : a[i].name # name) /\ Attribute(d, e, name) = Nil
<1> DEFINE a == d.node[e].attrs
           k == FindAttribute(d, e, name)
<1>1. IF k = 0 THEN \A j \in DOMAIN a : a[j].name # name ELSE k \in DOMAIN a /\ a[k].name = name
  BY FoundIsThere
<1>2. Attribute(d, e, name) = IF k = 0 THEN Nil ELSE a[k].value
  BY DEF Attribute
<1> HIDE DEF a, k
<1>3. \/ \E i \in DOMAIN a : a[i].name = name /\ Attribute(d, e, name) = a[i].value
      \/ (\A i \in DOMAIN a : a[i].name # name) /\ Attribute(d, e, name) = Nil
  BY <1>1, <1>2
<1> QED
  BY <1>3 DEF a

\* One attribute is set, whether it is there or not, and the others stay.
LEMMA AttributesAfter ==
    ASSUME NEW d, Sane(d), NEW e \in Nodes(d), NEW name, Text(name), NEW value, Text(value)
    PROVE  LET a == d.node[e].attrs
               b == SetAttribute(d, e, name, value).node[e].attrs
           IN  /\ \E i \in DOMAIN b : b[i].name = name /\ b[i].value = value
               /\ \A j \in DOMAIN b : b[j].name # name => j \in DOMAIN a /\ b[j] = a[j]
               /\ \A j \in DOMAIN a : a[j].name # name => j \in DOMAIN b /\ b[j] = a[j]
<1> DEFINE a == d.node[e].attrs
           k == FindAttribute(d, e, name)
           b == SetAttribute(d, e, name, value).node[e].attrs
           Sound == /\ \E i \in DOMAIN b : b[i].name = name /\ b[i].value = value
                    /\ \A j \in DOMAIN b : b[j].name # name => j \in DOMAIN a /\ b[j] = a[j]
                    /\ \A j \in DOMAIN a : a[j].name # name => j \in DOMAIN b /\ b[j] = a[j]
<1>1. Named(a) /\ e \in DOMAIN d.node
  BY DEF Sane, Tallied, Attributed, Nodes
<1>2. PICK S : a \in Seq(S)
  BY <1>1 DEF Named
<1>3. CASE k = 0
  <2> DEFINE y == [name |-> name, value |-> value]
             n == Len(a)
  <2>1. b = Append(a, y)
    <3>1. Added(d, AddAttribute(d, e, name, value), e, name, value)
      BY <1>3, AddAttributeKeeps
    <3> QED
      BY <1>3, <3>1 DEF SetAttribute, Added
  <2>2. y.name = name /\ y.value = value
    OBVIOUS
  <2>3. n \in Nat /\ DOMAIN a = 1 .. n
    BY <1>2
  <2> HIDE DEF a, b, y
  <2>4. DOMAIN b = 1 .. n + 1 /\ b[n + 1] = y /\ \A j \in 1 .. n : b[j] = a[j]
    <3>1. a \in Seq(S \cup {y})
      BY <1>2
    <3> QED
      BY <2>1, <3>1 DEF n
  <2> HIDE DEF n
  <2>5. n + 1 \in DOMAIN b /\ b[n + 1].name = name /\ b[n + 1].value = value
    BY <2>2, <2>3, <2>4
  <2>6. \A j \in DOMAIN b : b[j].name # name => j \in DOMAIN a /\ b[j] = a[j]
    <3> SUFFICES ASSUME NEW j \in 1 .. n + 1, b[j].name # name PROVE j \in DOMAIN a /\ b[j] = a[j]
      BY <2>4
    <3>1. j # n + 1
      BY <2>5
    <3> QED
      BY <2>3, <2>4, <3>1
  <2>7. \A j \in DOMAIN a : j \in DOMAIN b /\ b[j] = a[j]
    BY <2>3, <2>4
  <2> QED
    BY <2>5, <2>6, <2>7 DEF a, b
<1>4. CASE k # 0
  <2>1. k \in DOMAIN a /\ a[k].name = name
    BY <1>1, <1>4, FoundIsThere
  <2> DEFINE y == [a[k] EXCEPT !.value = value]
             g == [a EXCEPT ![k] = y]
  <2>2. b = g
    <3>1. SetAttribute(d, e, name, value) = [d EXCEPT !.node[e].attrs[k].value = value]
      BY <1>4 DEF SetAttribute
    <3>2. /\ d = [node |-> d.node, unlinked |-> d.unlinked, current |-> d.current,
                  untracked |-> d.untracked, error |-> d.error, depth |-> d.depth, bom |-> d.bom]
          /\ d.node = [m \in DOMAIN d.node |-> d.node[m]]
          /\ d.node[e] = [f \in Members |-> d.node[e][f]]
      BY <1>1 DEF Sane, Shaped
    <3> DEFINE x == [d.node[e] EXCEPT !.attrs = g]
               node == [d.node EXCEPT ![e] = x]
    <3>3. x.attrs = g
      <4>1. "attrs" \in Members
        BY DEF Members
      <4> HIDE DEF g
      <4> QED
        BY <3>2, <4>1
    <3>4. SetAttribute(d, e, name, value) = [d EXCEPT !.node = node]
      BY <3>1
    <3> HIDE DEF x
    <3>5. node[e] = x
      BY <1>1, <3>2
    <3> HIDE DEF node
    <3>6. [d EXCEPT !.node = node].node = node
      BY <3>2
    <3> QED
      BY <3>3, <3>4, <3>5, <3>6
  <2>3. y = [name |-> name, value |-> value]
    <3>1. a[k] = [name |-> a[k].name, value |-> a[k].value]
      BY <1>1, <2>1 DEF Named
    <3> QED
      BY <2>1, <3>1
  <2>4. y.name = name /\ y.value = value
    BY <2>3
  <2> HIDE DEF a, b, y, k
  <2>5. DOMAIN b = DOMAIN a /\ \A j \in DOMAIN a : b[j] = IF j = k THEN y ELSE a[j]
    BY <1>2, <2>1, <2>2
  <2>6. k \in DOMAIN b /\ b[k].name = name /\ b[k].value = value
    BY <2>1, <2>4, <2>5
  <2>7. ASSUME NEW j \in DOMAIN a, a[j].name # name \/ b[j].name # name PROVE b[j] = a[j]
    <3>1. j # k
      BY <2>1, <2>6, <2>7
    <3> QED
      BY <2>5, <3>1
  <2> QED
    BY <2>5, <2>6, <2>7 DEF a, b
<1> QED
  BY <1>3, <1>4

\* An attribute that is set has its value, and the others theirs.
THEOREM AttributeIsReadBack ==
    ASSUME NEW d, Sane(d), NEW e \in Nodes(d), NEW name, Text(name), NEW value, Text(value), NEW other
    PROVE  Attribute(SetAttribute(d, e, name, value), e, other)
               = IF other = name THEN value ELSE Attribute(d, e, other)
<1> DEFINE g == SetAttribute(d, e, name, value)
           a == d.node[e].attrs
           b == g.node[e].attrs
<1>1. Named(a)
  BY DEF Sane, Tallied, Attributed
<1>2. Named(b)
  <2>1. Sane(g) /\ e \in Nodes(g)
    BY SetAttributeKeeps DEF Held, Nodes
  <2> QED
    BY <2>1 DEF Sane, Tallied, Attributed
<1>3. /\ \E i \in DOMAIN b : b[i].name = name /\ b[i].value = value
      /\ \A j \in DOMAIN b : b[j].name # name => j \in DOMAIN a /\ b[j] = a[j]
      /\ \A j \in DOMAIN a : a[j].name # name => j \in DOMAIN b /\ b[j] = a[j]
  BY AttributesAfter
<1>4. \/ \E i \in DOMAIN b : b[i].name = other /\ Attribute(g, e, other) = b[i].value
      \/ (\A i \in DOMAIN b : b[i].name # other) /\ Attribute(g, e, other) = Nil
  BY <1>2, AttributeIs
<1>5. \/ \E i \in DOMAIN a : a[i].name = other /\ Attribute(d, e, other) = a[i].value
      \/ (\A i \in DOMAIN a : a[i].name # other) /\ Attribute(d, e, other) = Nil
  BY <1>1, AttributeIs
<1>6. /\ \A i, j \in DOMAIN a : a[i].name = a[j].name => i = j
      /\ \A i, j \in DOMAIN b : b[i].name = b[j].name => i = j
  BY <1>1, <1>2 DEF Named
<1> HIDE DEF a, b, g
<1>7. Attribute(g, e, other) = IF other = name THEN value ELSE Attribute(d, e, other)
  <2>1. CASE other = name
    BY <1>3, <1>4, <1>6, <2>1
  <2>2. CASE other # name
    BY <1>3, <1>4, <1>5, <1>6, <2>2
  <2> QED
    BY <2>1, <2>2
<1> QED
  BY <1>7 DEF g

-----------------------------------------------------------------------------
(***************************************************************************)
(* What a call leaves where it was.                                        *)
(***************************************************************************)
ClosedAfter(d, S) == \A n \in S : d.node[n].next \in S \cup {Nil}

\* What was seen is in each closed set; and it is closed itself, or there is more of
\* it than there were turns.
Followed(d, a, i, s) ==
    /\ s = [doc |-> d, seen |-> s.seen]
    /\ s.seen \in SUBSET DOMAIN d.node /\ a \in s.seen
    /\ ClosedAfter(d, s.seen) \/ Cardinality(s.seen) > i
    /\ \A S \in SUBSET DOMAIN d.node : a \in S /\ ClosedAfter(d, S) => s.seen \subseteq S

LEMMA FollowKeeps ==
    ASSUME NEW d, Sane(d), NEW a, NEW i \in Nat, NEW s, Followed(d, a, i, s)
    PROVE  Followed(d, a, i + 1, Follow(s))
<1> DEFINE S == s.seen
           N == (S \cup {d.node[n].next : n \in S}) \ {Nil}
           t == Follow(s)
<1>1. /\ s = [doc |-> d, seen |-> S] /\ s.doc = d /\ S \in SUBSET DOMAIN d.node /\ a \in S
      /\ ClosedAfter(d, S) \/ Cardinality(S) > i
      /\ \A X \in SUBSET DOMAIN d.node : a \in X /\ ClosedAfter(d, X) => S \subseteq X
  BY DEF Followed
<1>2. t = [doc |-> d, seen |-> N]
  <2>1. t = [s EXCEPT !.seen = N]
    BY <1>1 DEF Follow
  <2> HIDE DEF N, S, t
  <2> QED
    BY <1>1, <2>1
<1>3. Nil \notin DOMAIN d.node /\ IsFiniteSet(DOMAIN d.node)
  BY NilAssumption DEF Sane, Shaped
<1>4. \A n \in DOMAIN d.node : d.node[n].next \in DOMAIN d.node \cup {Nil}
  BY DEF Sane, Linked, Child, Nodes
<1>5. S \subseteq N /\ N \in SUBSET DOMAIN d.node
  BY <1>1, <1>3, <1>4
<1>6. ClosedAfter(d, N) \/ Cardinality(N) > i + 1
  <2>1. CASE N = S
    BY <2>1 DEF ClosedAfter
  <2>2. CASE N # S
    <3>1. ~ClosedAfter(d, S)
      BY <1>3, <1>5, <2>2 DEF ClosedAfter
    <3> HIDE DEF N, S
    <3>2. IsFiniteSet(N) /\ IsFiniteSet(S)
      BY <1>3, <1>5, FS_Subset
    <3>3. Cardinality(S) \in Nat /\ Cardinality(N) \in Nat /\ Cardinality(S) < Cardinality(N)
      BY <1>5, <2>2, <3>2, FS_Subset, FS_CardinalityType
    <3> QED
      BY <1>1, <3>1, <3>3
  <2> QED
    BY <2>1, <2>2
<1>7. \A X \in SUBSET DOMAIN d.node : a \in X /\ ClosedAfter(d, X) => N \subseteq X
  <2> SUFFICES ASSUME NEW X \in SUBSET DOMAIN d.node, a \in X, ClosedAfter(d, X) PROVE N \subseteq X
    OBVIOUS
  <2>1. S \subseteq X
    BY <1>1
  <2> QED
    BY <2>1 DEF ClosedAfter
<1> HIDE DEF N, t
<1> QED
  BY <1>1, <1>2, <1>5, <1>6, <1>7 DEF Followed, t

\* From gives the least closed set.
LEMMA FromFacts ==
    ASSUME NEW d, Sane(d), NEW a \in DOMAIN d.node
    PROVE  /\ From(d, a) \in SUBSET DOMAIN d.node /\ a \in From(d, a) /\ ClosedAfter(d, From(d, a))
           /\ \A S \in SUBSET DOMAIN d.node : a \in S /\ ClosedAfter(d, S) => From(d, a) \subseteq S
<1> DEFINE k == Cardinality(DOMAIN d.node)
           start == [doc |-> d, seen |-> {a}]
<1>1. k \in Nat
  BY FS_CardinalityType DEF Sane, Shaped
<1>2. Followed(d, a, 0, start)
  <2>1. Cardinality({a}) = 1
    BY FS_Singleton
  <2>2. start.seen = {a} /\ start = [doc |-> d, seen |-> {a}]
    OBVIOUS
  <2> HIDE DEF start
  <2> QED
    BY <2>1, <2>2 DEF Followed
<1> HIDE DEF start, k
<1>3. PICK turn : /\ turn[0] = start /\ turn[k] = Following!Turns(start, k)
                  /\ \A i \in 1 .. k : turn[i] = Follow(turn[i - 1])
  BY <1>1, Following!TurnsFacts
<1> DEFINE T == {i \in 0 .. k : Followed(d, a, i, turn[i])}
<1>4. 0 \in T
  BY <1>1, <1>2, <1>3
<1>5. \A i \in 1 .. k : i - 1 \in T => i \in T
  <2> SUFFICES ASSUME NEW i \in 1 .. k, i - 1 \in T PROVE i \in T
    OBVIOUS
  <2>1. Followed(d, a, i - 1, turn[i - 1]) /\ i - 1 \in Nat /\ (i - 1) + 1 = i
    BY <1>1
  <2> HIDE DEF T
  <2>2. Followed(d, a, i, turn[i])
    BY <1>3, <2>1, FollowKeeps
  <2>3. i \in 0 .. k
    BY <1>1
  <2> QED
    BY <2>2, <2>3 DEF T
<1>6. k \in T
  <2> HIDE DEF T
  <2> QED
    BY <1>1, <1>4, <1>5, Following!UpTo
<1>7. Followed(d, a, k, turn[k])
  BY <1>6
<1> DEFINE S == turn[k].seen
<1>8. From(d, a) = S
  BY <1>3 DEF From, start, k
<1>9. ~(Cardinality(S) > k)
  <2>1. S \in SUBSET DOMAIN d.node
    BY <1>7 DEF Followed
  <2> HIDE DEF S
  <2> QED
    BY <2>1, FS_Subset, FS_CardinalityType DEF Sane, Shaped, k
<1>10. S \in SUBSET DOMAIN d.node /\ a \in S /\ ClosedAfter(d, S)
  BY <1>7, <1>9 DEF Followed
<1>11. \A X \in SUBSET DOMAIN d.node : a \in X /\ ClosedAfter(d, X) => S \subseteq X
  BY <1>7 DEF Followed
<1> HIDE DEF S
<1> QED
  BY <1>8, <1>10, <1>11

\* The nodes that both have, but n.
Others(d, e, n) == (DOMAIN d.node \cap DOMAIN e.node) \ {n}

\* What comes after a in d comes after it in e, if both skip n the same way.
LEMMA FollowsStill ==
    ASSUME NEW d, Sane(d), NEW e, Sane(e), NEW n, n # Nil,
           \A a \in Others(d, e, n) : Skip(e, a, n) = Skip(d, a, n) /\ Skip(d, a, n) \in Others(d, e, n) \cup {Nil},
           NEW a \in Others(d, e, n)
    PROVE  From(d, a) \cap Others(d, e, n) \subseteq From(e, a)
<1> DEFINE C == Others(d, e, n)
           L == From(e, a)
           S == (L \cap C) \cup {m \in DOMAIN d.node : m = n /\ d.node[n].next \in (L \cap C) \cup {Nil}}
<1>1. C \subseteq DOMAIN d.node /\ C \subseteq DOMAIN e.node /\ n \notin C /\ a \in C
  BY DEF Others
<1>2. a \in L /\ L \in SUBSET DOMAIN e.node /\ \A m \in L : e.node[m].next \in L \cup {Nil}
  BY <1>1, FromFacts DEF ClosedAfter
<1>3. \A m \in C : Skip(e, m, n) = Skip(d, m, n) /\ Skip(d, m, n) \in C \cup {Nil}
  OBVIOUS
<1>4. Nil \notin DOMAIN d.node /\ Nil \notin DOMAIN e.node /\ \A m \in DOMAIN d.node : d.node[m].next \in DOMAIN d.node \cup {Nil}
  BY NilAssumption DEF Sane, Shaped, Linked, Child, Nodes
<1> HIDE DEF C, L
<1>5. \A m \in L \cap C : Skip(e, m, n) \in L \cup {Nil}
  BY <1>2 DEF Skip
<1>6. \A m \in L \cap C : Skip(d, m, n) \in (L \cap C) \cup {Nil}
  BY <1>3, <1>5
<1>7. \A m \in L \cap C : d.node[m].next \in S \cup {Nil}
  <2> SUFFICES ASSUME NEW m \in L \cap C PROVE d.node[m].next \in S \cup {Nil}
    OBVIOUS
  <2>1. CASE d.node[m].next # n
    BY <1>6, <2>1 DEF Skip
  <2>2. CASE d.node[m].next = n
    BY <1>1, <1>4, <1>6, <2>2 DEF Skip
  <2> QED
    BY <2>1, <2>2
<1>8. ClosedAfter(d, S) /\ a \in S /\ S \in SUBSET DOMAIN d.node
  BY <1>1, <1>2, <1>7 DEF ClosedAfter
<1> HIDE DEF S
<1>9. From(d, a) \subseteq S
  BY <1>1, <1>8, FromFacts
<1> QED
  BY <1>1, <1>9 DEF S, C, L

\* Where all but n have the parent they had and skip n the same way, none but n has
\* moved.
LEMMA NoneButOneMoved ==
    ASSUME NEW d, Sane(d), NEW e, Sane(e), NEW n, n # Nil, Elsewhere(d, e, n),
           \A a \in Others(d, e, n) : Skip(d, a, n) \in Others(d, e, n) \cup {Nil}
    PROVE  Unmoved(d, e, n)
<1> DEFINE C == Others(d, e, n)
           N == (Nodes(d) \cap Nodes(e)) \ {n}
<1>1. Others(e, d, n) = C /\ N \subseteq C
  BY DEF Others, Nodes
<1>2. \A a \in C : e.node[a].parent = d.node[a].parent /\ Skip(e, a, n) = Skip(d, a, n)
  BY DEF Elsewhere, Others
<1> HIDE DEF C
<1>3. ASSUME NEW a \in C PROVE From(d, a) \cap C \subseteq From(e, a) /\ From(e, a) \cap C \subseteq From(d, a)
  <2>1. From(d, a) \cap C \subseteq From(e, a)
    BY <1>2, <1>3, FollowsStill DEF C
  <2>2. From(e, a) \cap C \subseteq From(d, a)
    <3>1. \A m \in Others(e, d, n) : Skip(d, m, n) = Skip(e, m, n) /\ Skip(e, m, n) \in Others(e, d, n) \cup {Nil}
      BY <1>1, <1>2 DEF C
    <3> QED
      BY <1>1, <1>3, <3>1, FollowsStill
  <2> QED
    BY <2>1, <2>2
<1>4. \A a \in N : e.node[a].parent = d.node[a].parent /\ From(e, a) \cap N = From(d, a) \cap N
  BY <1>1, <1>2, <1>3
<1> QED
  BY <1>4 DEF Unmoved

\* The nodes of both are where they were, and no node comes after them that is not
\* there any more.
Kept(d, e) ==
    \A m \in DOMAIN d.node \cap DOMAIN e.node :
        /\ e.node[m].parent = d.node[m].parent /\ e.node[m].next = d.node[m].next
        /\ d.node[m].next \in DOMAIN e.node \cup {Nil}

LEMMA NoneMoved ==
    ASSUME NEW d, Sane(d), NEW e, Sane(e), Kept(d, e)
    PROVE  \A n : n \notin Nodes(d) \cap Nodes(e) => Unmoved(d, e, n)
<1> DEFINE C == Others(d, e, -1)
<1>1. -1 # Nil /\ Nil \notin DOMAIN d.node /\ -1 \notin DOMAIN d.node /\ -1 \notin DOMAIN e.node
  BY NilAssumption DEF Sane, Shaped
<1>2. \A m \in DOMAIN d.node : d.node[m].next \in DOMAIN d.node \cup {Nil}
  BY DEF Sane, Linked, Child, Nodes
<1>3. C = DOMAIN d.node \cap DOMAIN e.node
  BY <1>1 DEF Others
<1> HIDE DEF C
<1>4. \A m \in C : d.node[m].next # -1 /\ e.node[m].next # -1
  BY <1>1, <1>2, <1>3 DEF Kept
<1>5. \A m \in C : Skip(d, m, -1) = d.node[m].next /\ Skip(e, m, -1) = e.node[m].next
  BY <1>4 DEF Skip
<1>6. Elsewhere(d, e, -1)
  BY <1>1, <1>3, <1>5 DEF Elsewhere, Kept
<1>7. \A m \in Others(d, e, -1) : Skip(d, m, -1) \in Others(d, e, -1) \cup {Nil}
  BY <1>2, <1>3, <1>5 DEF Kept, C
<1>8. Unmoved(d, e, -1)
  BY <1>1, <1>6, <1>7, NoneButOneMoved
<1>9. ASSUME NEW n, n \notin Nodes(d) \cap Nodes(e)
      PROVE  (Nodes(d) \cap Nodes(e)) \ {n} = (Nodes(d) \cap Nodes(e)) \ {-1}
  BY <1>1, <1>9 DEF Nodes
<1> QED
  BY <1>8, <1>9 DEF Unmoved

\* No node is its own sibling.
LEMMA NotAfterItself ==
    ASSUME NEW d, Sane(d), NEW n \in DOMAIN d.node
    PROVE  d.node[n].next # n
<1>1. PICK place \in [DOMAIN d.node -> Int] :
        \A m \in DOMAIN d.node : d.node[m].next # Nil => place[m] < place[d.node[m].next]
  BY DEF Sane, Ordered
<1>2. n # Nil
  BY NilAssumption DEF Sane, Shaped
<1> QED
  BY <1>1, <1>2

LEMMA InsertedUnmoved ==
    ASSUME NEW d, Sane(d), NEW e, NEW p, NEW n \in Nodes(d), Inserted(d, e, p, n)
    PROVE  Unmoved(d, e, n)
<1>1. Sane(e) /\ DOMAIN e.node = DOMAIN d.node /\ Elsewhere(d, e, n)
  BY DEF Inserted, Alike
<1>2. \A m \in DOMAIN d.node : d.node[m].next \in DOMAIN d.node \cup {Nil}
  BY DEF Sane, Linked, Child, Nodes
<1>3. n # Nil /\ n \in DOMAIN d.node /\ d.node[n].next # n
  BY NilAssumption, NotAfterItself DEF Nodes, Sane, Shaped
<1>4. \A a \in Others(d, e, n) : Skip(d, a, n) \in Others(d, e, n) \cup {Nil}
  BY <1>1, <1>2, <1>3 DEF Others, Skip
<1> QED
  BY <1>1, <1>3, <1>4, NoneButOneMoved

\* A new node is inserted: no other has moved.
LEMMA AddedUnmoved ==
    ASSUME NEW d, Sane(d), NEW c, Sane(c), NEW f, f \notin DOMAIN d.node, Nodes(c) = Nodes(d) \cup {f},
           \A m \in DOMAIN d.node : c.node[m] = d.node[m],
           NEW e, NEW p, Inserted(c, e, p, f)
    PROVE  Unmoved(d, e, Doc)
<1>1. Sane(e) /\ DOMAIN e.node = DOMAIN c.node /\ Elsewhere(c, e, f)
  BY DEF Inserted, Alike
<1>2. Doc \in DOMAIN d.node /\ Doc \in DOMAIN c.node
  BY DEF Sane, Linked
<1>3. DOMAIN c.node = DOMAIN d.node \cup {f}
  BY <1>2 DEF Nodes
<1>4. f # Nil
  BY <1>3, NilAssumption DEF Sane, Shaped
<1>5. \A m \in DOMAIN d.node : d.node[m].next \in DOMAIN d.node \cup {Nil}
  BY DEF Sane, Linked, Child, Nodes
<1>6. Others(d, e, f) = DOMAIN d.node /\ Others(c, e, f) = DOMAIN d.node
  BY <1>1, <1>3 DEF Others
<1>7. \A m \in DOMAIN d.node : Skip(d, m, f) = d.node[m].next /\ Skip(c, m, f) = d.node[m].next
  BY <1>4, <1>5 DEF Skip
<1>8. Elsewhere(d, e, f)
  BY <1>1, <1>3, <1>7 DEF Elsewhere
<1>9. Unmoved(d, e, f)
  BY <1>1, <1>4, <1>5, <1>6, <1>7, <1>8, NoneButOneMoved
<1>10. (Nodes(d) \cap Nodes(e)) \ {f} = (Nodes(d) \cap Nodes(e)) \ {Doc}
  BY DEF Nodes
<1> QED
  BY <1>9, <1>10 DEF Unmoved

LEMMA SetTextUnmoved ==
    ASSUME NEW d, Sane(d), NEW n \in Nodes(d), NEW text, Text(text)
    PROVE  Unmoved(d, SetText(d, n, text), Doc)
<1> DEFINE f == d.node[n].first
           c == CreateUnlinkedNode(d, "text", text)
           e == SetText(d, n, text)
<1>1. n \in DOMAIN d.node
  BY DEF Nodes
<1>2. CASE f # Nil /\ d.node[f].kind \in {"text", "cdata"}
  <2>1. f \in DOMAIN d.node /\ f # Doc
    BY <1>1, <1>2 DEF Sane, Linked, Child, Nodes, Doc
  <2>2. Held(d, e, f, "value")
    BY <1>2, <2>1, ValueKeeps DEF SetText
  <2>3. Sane(e) /\ Kept(d, e)
    <3>1. {"parent", "next"} \subseteq Members \ {"value"}
      BY DEF Members, Pointing
    <3>2. \A m \in DOMAIN d.node : d.node[m].next \in DOMAIN d.node \cup {Nil}
      BY DEF Sane, Linked, Child, Nodes
    <3> HIDE DEF e, f
    <3> QED
      BY <2>2, <3>1, <3>2 DEF Held, Kept
  <2> QED
    BY <2>3, NoneMoved DEF Nodes
<1>3. CASE ~(f # Nil /\ d.node[f].kind \in {"text", "cdata"})
  <2>1. e = InsertFirstChild(c, n, Fresh(d))
    BY <1>3 DEF SetText
  <2>2. /\ Sane(c) /\ Nodes(c) = Nodes(d) \cup {Fresh(d)} /\ Apart(c, Fresh(d), n)
        /\ Fresh(d) \notin DOMAIN d.node /\ \A m \in DOMAIN d.node : c.node[m] = d.node[m]
    BY <1>1, CreateKeeps
  <2> HIDE DEF c, e
  <2>3. n \in DOMAIN c.node /\ Fresh(d) \in Nodes(c)
    BY <2>2 DEF Nodes
  <2>4. Inserted(c, e, n, Fresh(d))
    BY <2>1, <2>2, <2>3, InsertFirstKeeps
  <2> QED
    BY <2>2, <2>4, AddedUnmoved DEF e
<1> QED
  BY <1>2, <1>3

LEMMA SettersUnmoved ==
    ASSUME NEW d, Sane(d), NEW e, NEW n \in Nodes(d), NEW f \in {"value", "attrs"}, Held(d, e, n, f)
    PROVE  Unmoved(d, e, Doc)
<1>1. {"parent", "next"} \subseteq Members \ {f}
  BY DEF Members, Pointing
<1>2. \A m \in DOMAIN d.node : d.node[m].next \in DOMAIN d.node \cup {Nil}
  BY DEF Sane, Linked, Child, Nodes
<1>3. Sane(e) /\ Kept(d, e)
  BY <1>1, <1>2 DEF Held, Kept
<1> QED
  BY <1>3, NoneMoved DEF Nodes

LEMMA DeleteUnmoved ==
    ASSUME NEW d, Sane(d), NEW n \in Nodes(d)
    PROVE  Unmoved(d, DeleteAnyNode(d, n), n)
<1> DEFINE e == DeleteAnyNode(d, n)
<1>1. /\ Sane(e) /\ DOMAIN e.node = {m \in DOMAIN d.node : Apart(d, n, m)}
      /\ \A m \in DOMAIN e.node : e.node[m].parent = d.node[m].parent /\ e.node[m].next = Skip(d, m, n)
  BY DeleteKeeps DEF Skip
<1> HIDE DEF e
<1>2. n # Nil /\ n \notin DOMAIN e.node
  BY <1>1, NilAssumption DEF Apart, Nodes, Sane, Shaped
<1>3. \A m \in DOMAIN e.node : e.node[m].next \in DOMAIN e.node \cup {Nil}
  BY <1>1 DEF Sane, Linked, Child, Nodes
<1>4. Others(d, e, n) = DOMAIN e.node
  BY <1>1, <1>2 DEF Others
<1>5. \A m \in DOMAIN e.node : Skip(e, m, n) = e.node[m].next
  BY <1>2, <1>3 DEF Skip
<1>6. Elsewhere(d, e, n)
  BY <1>1, <1>5 DEF Elsewhere
<1> QED
  BY <1>1, <1>2, <1>3, <1>4, <1>6, NoneButOneMoved DEF e

LEMMA DeleteChildrenUnmoved ==
    ASSUME NEW d, Sane(d), NEW p \in DOMAIN d.node
    PROVE  Unmoved(d, DeleteChildren(d, p), p)
<1> DEFINE e == DeleteChildren(d, p)
           B == Under(d, p)
<1>1. /\ Sane(e) /\ DOMAIN e.node = DOMAIN d.node \ B /\ p \in DOMAIN e.node
      /\ \A m \in DOMAIN e.node \ {p} : e.node[m] = d.node[m]
  BY DeleteChildrenKeeps
<1>2. \A m \in DOMAIN d.node : d.node[m].parent \in B \cup {p} <=> m \in B
  BY UnderEncloses DEF Sane, Encloses
<1> HIDE DEF e, B
<1>3. p # Nil
  BY NilAssumption DEF Sane, Shaped
<1>4. \A m \in DOMAIN d.node :
        d.node[m].next # Nil =>
            /\ d.node[m].next \in DOMAIN d.node /\ d.node[d.node[m].next].parent = d.node[m].parent
            /\ d.node[d.node[m].next].prev = m
  BY DEF Sane, Linked, Child, Nodes
<1>5. \A m \in DOMAIN e.node : d.node[m].next \in DOMAIN e.node \cup {Nil}
  BY <1>1, <1>2, <1>4
<1>6. e.node[p].next = d.node[p].next
  <2>1. \A m \in DOMAIN e.node :
          /\ e.node[m].next # Nil => e.node[m].next \in DOMAIN e.node /\ e.node[e.node[m].next].prev = m
          /\ e.node[m].prev # Nil => e.node[e.node[m].prev].next = m
    BY <1>1 DEF Sane, Linked, Child, Nodes
  <2>2. \A m \in DOMAIN d.node : d.node[m].prev # Nil => d.node[d.node[m].prev].next = m
    BY DEF Sane, Linked
  <2>3. CASE d.node[p].next # Nil
    <3> DEFINE x == d.node[p].next
    <3>1. x \in DOMAIN e.node /\ x # p /\ d.node[x].prev = p
      BY <1>1, <1>4, <1>5, <2>3, NotAfterItself
    <3>2. e.node[x].prev = p
      BY <1>1, <3>1
    <3> QED
      BY <1>3, <2>1, <3>1, <3>2
  <2>4. CASE d.node[p].next = Nil
    <3> SUFFICES ASSUME e.node[p].next # Nil PROVE FALSE
      BY <2>4
    <3> DEFINE x == e.node[p].next
    <3>1. x \in DOMAIN e.node /\ x # p /\ e.node[x].prev = p
      BY <1>1, <2>1, NotAfterItself
    <3>2. x \in DOMAIN d.node /\ d.node[x].prev = p
      BY <1>1, <3>1
    <3> QED
      BY <1>3, <2>2, <2>4, <3>2
  <2> QED
    BY <2>3, <2>4
<1>7. \A m \in DOMAIN e.node : Skip(e, m, p) = Skip(d, m, p)
  BY <1>1, <1>6 DEF Skip
<1>8. Elsewhere(d, e, p) /\ Others(d, e, p) = DOMAIN e.node \ {p}
  BY <1>1, <1>7 DEF Elsewhere, Others
<1>9. \A m \in DOMAIN e.node \ {p} : Skip(d, m, p) \in (DOMAIN e.node \ {p}) \cup {Nil}
  BY <1>1, <1>5, NotAfterItself DEF Skip
<1> QED
  BY <1>1, <1>3, <1>8, <1>9, NoneButOneMoved DEF e

\* The node that no sibling follows comes after all of them.
LEMMA LastComesAfter ==
    ASSUME NEW d, Sane(d), NEW n \in Nodes(d), d.node[n].parent # Nil, d.node[n].next = Nil
    PROVE  \A m \in Siblings(d, n) : n \in From(d, m)
<1> SUFFICES ASSUME NEW m \in Siblings(d, n), n \notin From(d, m) PROVE FALSE
  OBVIOUS
<1> DEFINE L == From(d, m)
           X == L \cap Siblings(d, n)
<1>1. /\ L \in SUBSET DOMAIN d.node /\ m \in L /\ \A k \in L : d.node[k].next \in L \cup {Nil}
  BY FromFacts DEF ClosedAfter, Siblings, Nodes
<1> HIDE DEF L
<1>2. X # {} /\ IsFiniteSet(X) /\ X \in SUBSET DOMAIN d.node
  BY <1>1, FS_Subset DEF Sane, Shaped
<1>3. ASSUME NEW k \in X PROVE d.node[k].next \in X /\ d.node[k].next # Nil
  <2>1. k \in DOMAIN d.node /\ d.node[k].parent = d.node[n].parent /\ k # n
    BY <1>1, <1>3 DEF Siblings, Nodes, L
  <2>2. d.node[k].next # Nil
    BY <2>1 DEF Sane, Linked, Nodes
  <2>3. d.node[k].next \in Nodes(d) /\ d.node[d.node[k].next].parent = d.node[k].parent
    BY <2>1, <2>2 DEF Sane, Linked, Child
  <2> QED
    BY <1>1, <1>3, <2>1, <2>2, <2>3 DEF Siblings
<1> HIDE DEF X
<1>4. PICK place \in [DOMAIN d.node -> Int] :
        \A k \in DOMAIN d.node : d.node[k].next # Nil => place[k] < place[d.node[k].next]
  BY DEF Sane, Ordered
<1>5. \A k \in X : -place[k] \in Int
  BY <1>2, <1>4
<1> DEFINE value == [k \in X |-> -place[k]]
<1>6. PICK k \in X : \A l \in X : value[k] <= value[l]
  <2>1. \A l \in X : value[l] \in Int
    BY <1>5
  <2> HIDE DEF value
  <2> QED
    BY <1>2, <2>1, LeastOf
<1>7. d.node[k].next \in X /\ place[k] \in Int /\ place[d.node[k].next] \in Int /\ place[k] < place[d.node[k].next]
  BY <1>2, <1>3, <1>4
<1>8. -place[k] <= -place[d.node[k].next]
  BY <1>6, <1>7
<1> QED
  BY <1>7, <1>8

\* All siblings come after the node that no one is before.
LEMMA FirstComesBefore ==
    ASSUME NEW d, Sane(d), NEW n \in Nodes(d), d.node[n].parent # Nil, d.node[n].prev = Nil
    PROVE  Siblings(d, n) \subseteq From(d, n)
<1> DEFINE L == From(d, n)
           X == Siblings(d, n) \ L
<1> SUFFICES ASSUME X # {} PROVE FALSE
  OBVIOUS
<1>1. /\ L \in SUBSET DOMAIN d.node /\ n \in L /\ \A k \in L : d.node[k].next \in L \cup {Nil}
  BY FromFacts DEF ClosedAfter, Nodes
<1> HIDE DEF L
<1>2. IsFiniteSet(X) /\ X \in SUBSET DOMAIN d.node /\ Nil \notin DOMAIN d.node
  BY NilAssumption, FS_Subset DEF Sane, Shaped, Siblings, Nodes
<1>3. ASSUME NEW k \in X PROVE d.node[k].prev \in X /\ d.node[d.node[k].prev].next = k
  <2>1. k \in DOMAIN d.node /\ d.node[k].parent = d.node[n].parent /\ k # n /\ k \notin L
    BY <1>1, <1>3 DEF Siblings, Nodes
  <2>2. d.node[k].prev # Nil
    BY <2>1 DEF Sane, Linked, Nodes
  <2>3. /\ d.node[k].prev \in Nodes(d) /\ d.node[d.node[k].prev].parent = d.node[k].parent
        /\ d.node[d.node[k].prev].next = k
    BY <2>1, <2>2 DEF Sane, Linked, Child
  <2> QED
    BY <1>1, <1>2, <2>1, <2>3 DEF Siblings
<1> HIDE DEF X
<1>4. PICK place \in [DOMAIN d.node -> Int] :
        \A k \in DOMAIN d.node : d.node[k].next # Nil => place[k] < place[d.node[k].next]
  BY DEF Sane, Ordered
<1>5. PICK k \in X : \A l \in X : place[k] <= place[l]
  <2>1. \A l \in X : place[l] \in Int
    BY <1>2, <1>4
  <2> QED
    BY <1>2, <2>1, LeastOf
<1> DEFINE l == d.node[k].prev
<1>6. l \in X /\ d.node[l].next = k /\ k # Nil /\ place[l] \in Int /\ place[k] \in Int
  BY <1>2, <1>3, <1>4
<1>7. place[l] < place[k] /\ place[k] <= place[l]
  BY <1>2, <1>4, <1>5, <1>6
<1> QED
  BY <1>6, <1>7

-----------------------------------------------------------------------------
(***************************************************************************)
(* A document that is built with these calls, any number of them.          *)
(***************************************************************************)
\* e is what a call that creates or inserts a node makes of d.
Placed(d, e) ==
    \/ \E kind \in Kinds : \E value : Text(value) /\ e = CreateUnlinkedNode(d, kind, value)
    \/ \E p \in DOMAIN d.node, n \in Nodes(d) :
        /\ Apart(d, n, p)
        /\ \/ e = InsertEndChild(d, p, n) \/ e = InsertFirstChild(d, p, n)
           \/ \E a : Child(d, a, p) /\ ~InsertAfterCrashes(d, a, n) /\ e = InsertAfterChild(d, p, a, n)

\* The same of a call that deletes.
Deleted(d, e) ==
    \/ \E n \in Nodes(d) : e = DeleteAnyNode(d, n)
    \/ \E p \in DOMAIN d.node : e = DeleteChildren(d, p)
    \/ e = Clear(d)

\* The same of a call that changes what a node holds, or the error that is noted.
Changed(d, e) ==
    \/ \E n \in Nodes(d) : \E name, value :
        /\ Text(name) /\ Text(value)
        /\ \/ e = Set(d, n, "value", value) \/ e = SetText(d, n, value)
           \/ e = SetAttribute(d, n, name, value) \/ e = DeleteAttribute(d, n, name)
    \/ \E error : e = SetError(d, error)

\* The same of a call that reads a text, in which a character may be anything.
ReadInto(d, e) ==
    \E S : \E x \in Seq(S) : \E mode : e = Parse(d, x, mode) \/ e = LoadFile(d, x, mode)

\* The same of a call that copies from a document, this one or another.
CopiedInto(d, e) ==
    \E from : Sane(from) /\ (e = DeepCopy(from, d) \/ \E n \in Nodes(from) : e = DeepClone(from, n, d))

\* e is what a call the library allows makes of d.
Called(d, e) == Placed(d, e) \/ Deleted(d, e) \/ Changed(d, e) \/ CopiedInto(d, e) \/ ReadInto(d, e)

Building == doc = EmptyDocument /\ [][Called(doc, doc')]_doc

LEMMA CallsKeep ==
    ASSUME NEW d, Sane(d), NEW e, Called(d, e)
    PROVE  Sane(e)
<1>1. CASE Placed(d, e)
  <2>1. CASE \E kind \in Kinds : \E value : Text(value) /\ e = CreateUnlinkedNode(d, kind, value)
    BY <2>1, CreateKeeps
  <2>2. ASSUME NEW p \in DOMAIN d.node, NEW n \in Nodes(d), Apart(d, n, p), e = InsertEndChild(d, p, n)
        PROVE  Sane(e)
    BY <2>2, InsertEndKeeps DEF Inserted
  <2>3. ASSUME NEW p \in DOMAIN d.node, NEW n \in Nodes(d), Apart(d, n, p), e = InsertFirstChild(d, p, n)
        PROVE  Sane(e)
    BY <2>3, InsertFirstKeeps DEF Inserted
  <2>4. ASSUME NEW p \in DOMAIN d.node, NEW n \in Nodes(d), Apart(d, n, p), NEW a,
               Child(d, a, p), ~InsertAfterCrashes(d, a, n), e = InsertAfterChild(d, p, a, n)
        PROVE  Sane(e)
    BY <2>4, InsertAfterKeeps DEF Inserted
  <2> QED
    BY <1>1, <2>1, <2>2, <2>3, <2>4 DEF Placed
<1>2. CASE Deleted(d, e)
  BY <1>2, DeleteKeeps, DeleteChildrenKeeps, ClearKeeps DEF Deleted
<1>3. CASE Changed(d, e)
  <2>1. ASSUME NEW n \in Nodes(d), NEW name, NEW value, Text(name), Text(value),
               \/ e = Set(d, n, "value", value) \/ e = SetText(d, n, value)
               \/ e = SetAttribute(d, n, name, value) \/ e = DeleteAttribute(d, n, name)
        PROVE  Sane(e)
    BY <2>1, SettersKeep, SetTextKeeps DEF Held
  <2>2. ASSUME NEW error, e = SetError(d, error) PROVE Sane(e)
    <3>1. d = [node |-> d.node, unlinked |-> d.unlinked, current |-> d.current,
               untracked |-> d.untracked, error |-> d.error, depth |-> d.depth, bom |-> d.bom]
      BY DEF Sane, Shaped
    <3>2. e = [node |-> d.node, unlinked |-> d.unlinked, current |-> d.current,
               untracked |-> d.untracked, error |-> error, depth |-> d.depth, bom |-> d.bom]
      BY <2>2, <3>1 DEF SetError
    <3>3. e = [node |-> d.node, unlinked |-> d.unlinked, current |-> d.current,
               untracked |-> d.untracked, error |-> e.error, depth |-> e.depth, bom |-> d.bom]
      BY <3>2
    <3> QED
      BY <3>3, NotesKeep
  <2> QED
    BY <1>3, <2>1, <2>2 DEF Changed
<1>4. CASE CopiedInto(d, e)
  BY <1>4, DeepCloneKeeps, DeepCopyKeeps DEF CopiedInto
<1>5. CASE ReadInto(d, e)
  BY <1>5, ParseKeeps, LoadFileKeeps DEF ReadInto
<1> QED
  BY <1>1, <1>2, <1>3, <1>4, <1>5 DEF Called

\* However a document is built: parents, siblings and children agree about their
\* pointers, no node lies under itself or comes after itself, the attributes of a
\* node have different names, _unlinked holds exactly the nodes without a parent,
\* and the pools count what there is
\* (the assertions of src/filter/lib/tinyxml/tinyxml.cpp:888-1019 and 2248).
THEOREM BuildingIsSane == Building => []Sane(doc)
<1>1. doc = EmptyDocument => Sane(doc)
  BY EmptyIsSane
<1>2. Sane(doc) /\ [Called(doc, doc')]_doc => Sane(doc)'
  BY CallsKeep
<1> QED
  BY <1>1, <1>2, PTL DEF Building

-----------------------------------------------------------------------------
(***************************************************************************)
(* Programs: however long they are and whatever they read.  That every     *)
(* document is sane is inductive by itself; the file is always a text.     *)
(***************************************************************************)
Sound == Sane(doc) /\ Text(file)

\* What a program may write is a text.
LEMMA WrittenAreTexts ==
    /\ \A x \in Names \cup Texts : Text(x)
    /\ \A kind : \A x \in ValuesOf(kind) : Text(x)
    /\ \A p \in Plans : Text(p.file)
<1>1. (\A x \in Names \cup Texts : Text(x)) /\ \A p \in Plans : Text(p.file)
  BY ProgramsAssumption DEF Text
<1>2. ASSUME NEW kind PROVE ValuesOf(kind) \subseteq Names \cup Texts
  BY DEF ValuesOf
<1> QED
  BY <1>1, <1>2

LEMMA InitIsSound == Init => Sound
  BY EmptyIsSane, WrittenAreTexts DEF Init, Sound

LEMMA LoadIsSound ==
    ASSUME Sound, ParseFile \/ LoadFromFile
    PROVE  /\ Sound' /\ doc'.unlinked = <<>> /\ doc'.depth = 0
           /\ ParseFile /\ Error(doc') => Nodes(doc') = {}
<1>1. Sane(doc) /\ file' = file /\ Text(file)
  BY DEF Sound, ParseFile, LoadFromFile, Load
<1>2. PICK S : file \in Seq(S)
  BY <1>1 DEF Text
<1>3. ASSUME ParseFile
      PROVE  Sane(doc') /\ doc'.unlinked = <<>> /\ doc'.depth = 0 /\ (Error(doc') => Nodes(doc') = {})
  <2>1. doc' = Parse(doc, file, plan.mode)
    BY <1>3 DEF ParseFile, Load
  <2> QED
    BY <1>1, <1>2, <2>1, ParseKeeps
<1>4. ASSUME LoadFromFile PROVE Sane(doc') /\ doc'.unlinked = <<>> /\ doc'.depth = 0
  <2>1. doc' = LoadFile(doc, file, plan.mode)
    BY <1>4 DEF LoadFromFile, Load
  <2> QED
    BY <1>1, <1>2, <2>1, LoadFileKeeps
<1>5. Sound'
  <2>1. Sane(doc')
    BY <1>3, <1>4
  <2> QED
    BY <1>1, <2>1 DEF Sound
<1> QED
  BY <1>3, <1>4, <1>5

\* A node that a program may move is below a node that it is not above.
LEMMA MovableIsApart ==
    ASSUME Sound, NEW p \in Parents, NEW n \in Movable(p)
    PROVE  p \in DOMAIN doc.node /\ n \in Nodes(doc) /\ Apart(doc, n, p)
<1>1. Sane(doc) /\ Doc \in DOMAIN doc.node
  BY DEF Sound, Sane, Linked
<1>2. p \in DOMAIN doc.node
  BY <1>1 DEF Parents, OfKind, Nodes
<1> QED
  BY <1>1, <1>2, OutsideIsApart DEF Movable

LEMMA NewIsSound ==
    ASSUME Sound, New
    PROVE  Sound'
<1> DEFINE f == Fresh(doc)
<1>1. Sane(doc) /\ Doc \in DOMAIN doc.node /\ Text(file)
  BY DEF Sound, Sane, Linked
<1>2. PICK kind : \E v \in ValuesOf(kind) : NewUnlinked(kind, v) \/ \E p \in Parents : InsertNew(p, kind, v)
  BY DEF New
<1>3. PICK v \in ValuesOf(kind) : NewUnlinked(kind, v) \/ \E p \in Parents : InsertNew(p, kind, v)
  BY <1>2
<1> DEFINE e == CreateUnlinkedNode(doc, kind, v)
<1>4. /\ Sane(e) /\ Nodes(e) = Nodes(doc) \cup {f} /\ f \notin DOMAIN doc.node
      /\ \A m \in DOMAIN doc.node : Apart(e, f, m)
  BY <1>1, <1>3, WrittenAreTexts, CreateKeeps
<1>5. file' = file /\ (doc' = e \/ \E p \in Parents : doc' = InsertEndChild(e, p, f))
  BY <1>3 DEF NewUnlinked, InsertNew, Edit
<1> HIDE DEF e, f
<1>6. ASSUME NEW p \in Parents, doc' = InsertEndChild(e, p, f) PROVE Sane(doc')
  <2>1. p \in DOMAIN doc.node
    BY <1>1 DEF Parents, OfKind, Nodes
  <2>2. p \in DOMAIN e.node
    <3>1. Doc \in DOMAIN e.node
      BY <1>4 DEF Sane, Linked
    <3> QED
      BY <1>4, <2>1, <3>1 DEF Nodes
  <2>3. f \in Nodes(e) /\ Apart(e, f, p)
    BY <1>4, <2>1
  <2> QED
    BY <1>4, <1>6, <2>2, <2>3, InsertEndKeeps DEF Inserted
<1> QED
  BY <1>1, <1>4, <1>5, <1>6 DEF Sound

LEMMA InsertIsSound ==
    ASSUME Sound, Insert
    PROVE  Sound'
<1>1. Sane(doc) /\ Text(file)
  BY DEF Sound
<1>2. PICK p \in Parents, n \in Nodes(doc) :
          \/ InsertEnd(p, n) \/ InsertFirst(p, n)
          \/ \E a \in ChildrenOf(p) : InsertAfter(p, a, n) \/ InsertAfterFails(a, n)
  BY DEF Insert
<1>3. ASSUME InsertEnd(p, n) PROVE Sound'
  <2>1. n \in Movable(p) /\ doc' = InsertEndChild(doc, p, n) /\ file' = file
    BY <1>3 DEF InsertEnd, Edit
  <2> QED
    BY <1>1, <2>1, MovableIsApart, InsertEndKeeps DEF Inserted, Sound
<1>4. ASSUME InsertFirst(p, n) PROVE Sound'
  <2>1. n \in Movable(p) /\ doc' = InsertFirstChild(doc, p, n) /\ file' = file
    BY <1>4 DEF InsertFirst, Edit
  <2> QED
    BY <1>1, <2>1, MovableIsApart, InsertFirstKeeps DEF Inserted, Sound
<1>5. ASSUME NEW a \in ChildrenOf(p), InsertAfter(p, a, n) PROVE Sound'
  <2>1. n \in Movable(p) /\ ~InsertAfterCrashes(doc, a, n) /\ doc' = InsertAfterChild(doc, p, a, n) /\ file' = file
    BY <1>5 DEF InsertAfter, Edit
  <2>2. Child(doc, a, p)
    BY DEF ChildrenOf, Child
  <2> QED
    BY <1>1, <2>1, <2>2, MovableIsApart, InsertAfterKeeps DEF Inserted, Sound
<1>6. ASSUME NEW a, InsertAfterFails(a, n) PROVE Sound'
  BY <1>1, <1>6 DEF InsertAfterFails, Sound
<1> QED
  BY <1>2, <1>3, <1>4, <1>5, <1>6

LEMMA DeleteIsSound ==
    ASSUME Sound, Delete
    PROVE  Sound'
<1>1. Sane(doc) /\ Text(file) /\ Doc \in DOMAIN doc.node
  BY DEF Sound, Sane, Linked
<1>2. ASSUME NEW n \in Nodes(doc), Edit(DeleteAnyNode(doc, n)) PROVE Sound'
  BY <1>1, <1>2, DeleteKeeps DEF Edit, Sound
<1>3. ASSUME NEW p \in Parents, Edit(DeleteChildren(doc, p)) PROVE Sound'
  <2>1. p \in DOMAIN doc.node
    BY <1>1 DEF Parents, OfKind, Nodes
  <2> QED
    BY <1>1, <1>3, <2>1, DeleteChildrenKeeps DEF Edit, Sound
<1> QED
  BY <1>2, <1>3 DEF Delete

LEMMA ChangeIsSound ==
    ASSUME Sound, Change
    PROVE  Sound'
<1>1. Sane(doc) /\ Text(file)
  BY DEF Sound
<1>2. ASSUME NEW n \in Nodes(doc), NEW v \in ValuesOf(doc.node[n].kind), SetValue(n, v) PROVE Sound'
  <2>1. doc' = Set(doc, n, "value", v) /\ file' = file /\ Text(v)
    BY <1>2, WrittenAreTexts DEF SetValue, Edit
  <2> QED
    BY <1>1, <2>1, SettersKeep DEF Held, Sound
<1>3. ASSUME NEW e \in OfKind({"element"}), NEW v \in Texts, WriteText(e, v) PROVE Sound'
  <2>1. doc' = SetText(doc, e, v) /\ file' = file /\ Text(v) /\ e \in Nodes(doc)
    BY <1>3, WrittenAreTexts DEF WriteText, Edit, OfKind
  <2> QED
    BY <1>1, <2>1, SetTextKeeps DEF Sound
<1>4. ASSUME NEW e \in OfKind({"element"}), NEW name \in Names, NEW v \in Texts, WriteAttribute(e, name, v)
      PROVE  Sound'
  <2>1. doc' = SetAttribute(doc, e, name, v) /\ file' = file /\ Text(name) /\ Text(v) /\ e \in Nodes(doc)
    BY <1>4, WrittenAreTexts DEF WriteAttribute, Edit, OfKind
  <2> QED
    BY <1>1, <2>1, SettersKeep DEF Held, Sound
<1>5. ASSUME NEW e \in OfKind({"element"}), NEW name \in Names, RemoveAttribute(e, name) PROVE Sound'
  <2>1. doc' = DeleteAttribute(doc, e, name) /\ file' = file /\ Text(name) /\ e \in Nodes(doc)
    BY <1>5, WrittenAreTexts DEF RemoveAttribute, Edit, OfKind
  <2> QED
    BY <1>1, <2>1, SettersKeep DEF Held, Sound
<1> QED
  BY <1>2, <1>3, <1>4, <1>5 DEF Change

LEMMA CopyIsSound ==
    ASSUME Sound, Copy \/ \E n \in Nodes(doc) : Clone(n)
    PROVE  Sound'
<1>1. Sane(doc) /\ Text(file)
  BY DEF Sound
<1>2. ASSUME Copy PROVE Sound'
  BY <1>1, <1>2, EmptyIsSane, DeepCopyKeeps DEF Copy, Edit, Sound
<1>3. ASSUME NEW n \in Nodes(doc), Clone(n) PROVE Sound'
  BY <1>1, <1>3, DeepCloneKeeps DEF Clone, Edit, Sound
<1> QED
  BY <1>2, <1>3

LEMMA SaveIsSound ==
    ASSUME Sound, NEW compact, Save(compact)
    PROVE  Sound'
<1>1. Sane(doc) /\ doc' = SetError(doc, "success") /\ file' = PrintDocument(doc, compact)
  BY DEF Sound, Save
<1>2. Sane(SetError(doc, "success"))
  BY <1>1, ErrorIsSteady DEF Steady
<1>3. Text(PrintDocument(doc, compact))
  BY <1>1, PrintedIsText
<1> QED
  BY <1>1, <1>2, <1>3 DEF Sound

LEMMA NextIsSound == Sound /\ [Next]_vars => Sound'
<1> SUFFICES ASSUME Sound, [Next]_vars PROVE Sound'
  OBVIOUS
<1>1. CASE ParseFile \/ LoadFromFile
  BY <1>1, LoadIsSound
<1>2. CASE New
  BY <1>2, NewIsSound
<1>3. CASE Insert
  BY <1>3, InsertIsSound
<1>4. CASE Delete
  BY <1>4, DeleteIsSound
<1>5. CASE Change
  BY <1>5, ChangeIsSound
<1>6. CASE Copy \/ \E n \in Nodes(doc) : Clone(n)
  BY <1>6, CopyIsSound
<1>7. CASE \E compact \in BOOLEAN : Save(compact)
  BY <1>7, SaveIsSound
<1>8. CASE UNCHANGED vars
  BY <1>8 DEF vars, Sound
<1> QED
  BY <1>1, <1>2, <1>3, <1>4, <1>5, <1>6, <1>7, <1>8 DEF Next

\* Whatever a program does: its document is sane and what it saves is a text
\* (the assertions of src/filter/lib/tinyxml/tinyxml.cpp:888-1019 and 2248).
THEOREM ProgramsAreSound == Spec => []Sound
<1> QED
  BY InitIsSound, NextIsSound, PTL DEF Spec

\* Whatever a program does: the pointers of parents, of siblings and of children
\* say the same, no node is in two places and none is lost
\* (src/filter/lib/tinyxml/tinyxml.cpp:888).
THEOREM ProgramsAreWellLinked == Spec => []WellLinked
<1>1. Sound => WellLinked
  BY AllAreReached DEF Sound, Sane, WellLinked
<1> QED
  BY <1>1, ProgramsAreSound, PTL

\* Whatever a program does: the list of unlinked nodes and the counts of the pools
\* are right (src/filter/lib/tinyxml/tinyxml.cpp:2248).
THEOREM ProgramsAreCounted == Spec => []UnlinkedAreCounted
<1>1. Sound => UnlinkedAreCounted
  BY DEF Sound, Sane, Tallied, Attributed, Listed, Distinct, Counted, UnlinkedAreCounted
<1> QED
  BY <1>1, ProgramsAreSound, PTL

\* Whatever a program saves can be decoded in place
\* (src/filter/lib/tinyxml/tinyxml.cpp:335).
THEOREM FilesAreDecodedInPlace == Spec => []InPlace(file)
<1>1. Sound => InPlace(file)
  BY DecodingIsInPlace DEF Sound
<1> QED
  BY <1>1, ProgramsAreSound, PTL

LEMMA OnlyLoadsCount ==
    ASSUME [Next]_vars, loads' # loads
    PROVE  ParseFile \/ LoadFromFile
<1>1. ASSUME New \/ Insert \/ Delete \/ Change \/ Copy \/ \E n \in Nodes(doc) : Clone(n) PROVE FALSE
  BY <1>1 DEF New, NewUnlinked, InsertNew, Insert, InsertEnd, InsertFirst, InsertAfter, InsertAfterFails, Delete,
      Change, SetValue, WriteText, WriteAttribute, RemoveAttribute, Copy, Clone, Edit
<1>2. ASSUME NEW compact, Save(compact) PROVE FALSE
  BY <1>2 DEF Save
<1> QED
  BY <1>1, <1>2 DEF Next, vars

\* Whatever a program has done and whatever it reads: afterwards every node is
\* inserted, no element has two attributes with one name, and after an error Parse
\* leaves no node (src/filter/lib/tinyxml/tinyxml.cpp:1110, 1980, 2464).
THEOREM LoadsLeaveNoOrphans == Spec => LoadLeavesNoOrphans
<1> DEFINE Tidy ==
        /\ doc'.unlinked = <<>> /\ doc'.depth = 0
        /\ \A n \in Nodes(doc') :
            \A i, j \in DOMAIN doc'.node[n].attrs :
                doc'.node[n].attrs[i].name = doc'.node[n].attrs[j].name => i = j
        /\ Error(doc') /\ Nodes(doc') # {} => ~ParseFile
<1>1. ASSUME Sound, [Next]_vars, loads' # loads PROVE Tidy
  <2>1. ParseFile \/ LoadFromFile
    BY <1>1, OnlyLoadsCount
  <2>2. /\ Sound' /\ doc'.unlinked = <<>> /\ doc'.depth = 0
        /\ ParseFile /\ Error(doc') => Nodes(doc') = {}
    BY <1>1, <2>1, LoadIsSound
  <2>3. Sane(doc')
    BY <2>2 DEF Sound
  <2>4. \A n \in Nodes(doc') : Named(doc'.node[n].attrs)
    BY <2>3 DEF Sane, Tallied, Attributed
  <2> QED
    BY <2>2, <2>4 DEF Named
<1>2. Sound /\ [Next]_vars => [loads' # loads => Tidy]_vars
  BY <1>1
<1> QED
  BY <1>2, ProgramsAreSound, PTL DEF Spec, LoadLeavesNoOrphans

\* Whatever a program has done: GetText gives what SetText set, and an attribute
\* that was set has its value, the others theirs
\* (src/filter/lib/tinyxml/tinyxml.cpp:1688, 1707, 1912).
THEOREM ProgramsReadWhatWasWritten == Spec => ReadsWhatWasWritten
<1> DEFINE Same ==
        \A e \in OfKind({"element"}) :
            /\ \A v \in Texts : WriteText(e, v) => GetText(doc', e) = v
            /\ \A name \in Names, v \in Texts : WriteAttribute(e, name, v) =>
                \A other \in Names :
                    Attribute(doc', e, other) = IF other = name THEN v ELSE Attribute(doc, e, other)
<1>1. ASSUME Sound PROVE Same
  <2> SUFFICES ASSUME NEW e \in OfKind({"element"})
               PROVE  /\ \A v \in Texts : WriteText(e, v) => GetText(doc', e) = v
                      /\ \A name \in Names, v \in Texts : WriteAttribute(e, name, v) =>
                           \A other \in Names :
                               Attribute(doc', e, other) = IF other = name THEN v ELSE Attribute(doc, e, other)
    OBVIOUS
  <2>1. Sane(doc) /\ e \in Nodes(doc)
    BY <1>1 DEF Sound, OfKind
  <2>2. ASSUME NEW v \in Texts, WriteText(e, v) PROVE GetText(doc', e) = v
    <3>1. doc' = SetText(doc, e, v) /\ Text(v)
      BY <2>2, WrittenAreTexts DEF WriteText, Edit
    <3> QED
      BY <2>1, <3>1, TextIsReadBack
  <2>3. ASSUME NEW name \in Names, NEW v \in Texts, WriteAttribute(e, name, v), NEW other \in Names
        PROVE  Attribute(doc', e, other) = IF other = name THEN v ELSE Attribute(doc, e, other)
    <3>1. doc' = SetAttribute(doc, e, name, v) /\ Text(name) /\ Text(v)
      BY <2>3, WrittenAreTexts DEF WriteAttribute, Edit
    <3> QED
      BY <2>1, <3>1, AttributeIsReadBack
  <2> QED
    BY <2>2, <2>3
<1>2. Sound /\ [Next]_vars => [Same]_vars
  BY <1>1
<1> QED
  BY <1>2, ProgramsAreSound, PTL DEF Spec, ReadsWhatWasWritten

\* A node that is inserted is where it was asked for.
LEMMA InsertedWhere ==
    ASSUME Sound, NEW p \in Parents, NEW n \in Nodes(doc)
    PROVE  /\ InsertEnd(p, n) => doc'.node[n].parent = p /\ \A m \in Siblings(doc', n) : n \in From(doc', m)
           /\ InsertFirst(p, n) => doc'.node[n].parent = p /\ Siblings(doc', n) \subseteq From(doc', n)
           /\ \A a \in ChildrenOf(p) \ {n} :
                InsertAfter(p, a, n) => doc'.node[n].parent = p /\ doc'.node[a].next = n
<1>1. Sane(doc) /\ p # Nil
  BY NilAssumption DEF Sound, Sane, Shaped, Parents, OfKind, Nodes, Doc
<1>2. ASSUME InsertEnd(p, n)
      PROVE  doc'.node[n].parent = p /\ \A m \in Siblings(doc', n) : n \in From(doc', m)
  <2>1. n \in Movable(p) /\ doc' = InsertEndChild(doc, p, n)
    BY <1>2 DEF InsertEnd, Edit
  <2>2. Inserted(doc, doc', p, n) /\ doc'.node[n].next = Nil
    BY <1>1, <2>1, MovableIsApart, InsertEndKeeps
  <2>3. Sane(doc') /\ n \in Nodes(doc') /\ doc'.node[n].parent = p
    BY <2>2 DEF Inserted, Child
  <2> QED
    BY <1>1, <2>2, <2>3, LastComesAfter
<1>3. ASSUME InsertFirst(p, n) PROVE doc'.node[n].parent = p /\ Siblings(doc', n) \subseteq From(doc', n)
  <2>1. n \in Movable(p) /\ doc' = InsertFirstChild(doc, p, n)
    BY <1>3 DEF InsertFirst, Edit
  <2>2. Inserted(doc, doc', p, n) /\ doc'.node[n].prev = Nil
    BY <1>1, <2>1, MovableIsApart, InsertFirstKeeps
  <2>3. Sane(doc') /\ n \in Nodes(doc') /\ doc'.node[n].parent = p
    BY <2>2 DEF Inserted, Child
  <2> QED
    BY <1>1, <2>2, <2>3, FirstComesBefore
<1>4. ASSUME NEW a \in ChildrenOf(p) \ {n}, InsertAfter(p, a, n)
      PROVE  doc'.node[n].parent = p /\ doc'.node[a].next = n
  <2>1. n \in Movable(p) /\ ~InsertAfterCrashes(doc, a, n) /\ doc' = InsertAfterChild(doc, p, a, n)
    BY <1>4 DEF InsertAfter, Edit
  <2>2. Child(doc, a, p) /\ a # n
    BY DEF ChildrenOf, Child
  <2>3. Inserted(doc, doc', p, n) /\ doc'.node[n].prev = a
    BY <1>1, <2>1, <2>2, MovableIsApart, InsertAfterKeeps
  <2>4. a # Nil
    BY <1>1, <2>2, NilAssumption DEF Child, Nodes, Sane, Shaped
  <2> QED
    BY <2>3, <2>4 DEF Inserted, Child, Sane, Linked, Nodes
<1> QED
  BY <1>2, <1>3, <1>4

LEMMA InsertMovesOne ==
    ASSUME Sound, Insert, edits' # edits
    PROVE  \E moved \in Nodes(doc) : Unmoved(doc, doc', moved)
<1>1. Sane(doc)
  BY DEF Sound
<1>2. PICK p \in Parents, n \in Nodes(doc) :
          \/ InsertEnd(p, n) \/ InsertFirst(p, n)
          \/ \E a \in ChildrenOf(p) : InsertAfter(p, a, n) \/ InsertAfterFails(a, n)
  BY DEF Insert
<1>3. \A a : ~InsertAfterFails(a, n)
  BY DEF InsertAfterFails
<1>4. ASSUME InsertEnd(p, n) PROVE Inserted(doc, doc', p, n)
  BY <1>1, <1>4, MovableIsApart, InsertEndKeeps DEF InsertEnd, Edit
<1>5. ASSUME InsertFirst(p, n) PROVE Inserted(doc, doc', p, n)
  BY <1>1, <1>5, MovableIsApart, InsertFirstKeeps DEF InsertFirst, Edit
<1>6. ASSUME NEW a \in ChildrenOf(p), InsertAfter(p, a, n) PROVE Inserted(doc, doc', p, n)
  <2>1. Child(doc, a, p)
    BY DEF ChildrenOf, Child
  <2> QED
    BY <1>1, <1>6, <2>1, MovableIsApart, InsertAfterKeeps DEF InsertAfter, Edit
<1>7. Inserted(doc, doc', p, n)
  BY <1>2, <1>3, <1>4, <1>5, <1>6
<1> QED
  BY <1>1, <1>7, InsertedUnmoved

LEMMA NewMovesNone ==
    ASSUME Sound, New
    PROVE  Unmoved(doc, doc', Doc)
<1> DEFINE f == Fresh(doc)
<1>1. Sane(doc) /\ Doc \in DOMAIN doc.node
  BY DEF Sound, Sane, Linked
<1>2. PICK kind : \E v \in ValuesOf(kind) : NewUnlinked(kind, v) \/ \E p \in Parents : InsertNew(p, kind, v)
  BY DEF New
<1>3. PICK v \in ValuesOf(kind) : NewUnlinked(kind, v) \/ \E p \in Parents : InsertNew(p, kind, v)
  BY <1>2
<1> DEFINE e == CreateUnlinkedNode(doc, kind, v)
<1>4. /\ Sane(e) /\ Nodes(e) = Nodes(doc) \cup {f} /\ f \notin DOMAIN doc.node
      /\ \A m \in DOMAIN doc.node : e.node[m] = doc.node[m] /\ Apart(e, f, m)
  BY <1>1, <1>3, WrittenAreTexts, CreateKeeps
<1>5. doc' = e \/ \E p \in Parents : doc' = InsertEndChild(e, p, f)
  BY <1>3 DEF NewUnlinked, InsertNew, Edit
<1> HIDE DEF e, f
<1>6. DOMAIN e.node = DOMAIN doc.node \cup {f}
  BY <1>1, <1>4 DEF Nodes, Sane, Linked
<1>7. ASSUME doc' = e PROVE Unmoved(doc, doc', Doc)
  <2>1. Kept(doc, e)
    BY <1>1, <1>4, <1>6 DEF Kept, Sane, Linked, Child, Nodes
  <2> QED
    BY <1>1, <1>4, <1>7, <2>1, NoneMoved DEF Nodes
<1>8. ASSUME NEW p \in Parents, doc' = InsertEndChild(e, p, f) PROVE Unmoved(doc, doc', Doc)
  <2>1. p \in DOMAIN doc.node
    BY <1>1 DEF Parents, OfKind, Nodes
  <2>2. p \in DOMAIN e.node /\ f \in Nodes(e) /\ Apart(e, f, p)
    BY <1>4, <1>6, <2>1
  <2>3. Inserted(e, doc', p, f)
    BY <1>4, <1>8, <2>2, InsertEndKeeps
  <2> QED
    BY <1>1, <1>4, <2>3, AddedUnmoved
<1> QED
  BY <1>5, <1>7, <1>8

LEMMA DeleteMovesOne ==
    ASSUME Sound, Delete
    PROVE  \E moved \in Nodes(doc) \cup {Doc} : Unmoved(doc, doc', moved)
<1>1. Sane(doc) /\ Doc \in DOMAIN doc.node
  BY DEF Sound, Sane, Linked
<1>2. ASSUME NEW n \in Nodes(doc), Edit(DeleteAnyNode(doc, n)) PROVE Unmoved(doc, doc', n)
  BY <1>1, <1>2, DeleteUnmoved DEF Edit
<1>3. ASSUME NEW p \in Parents, Edit(DeleteChildren(doc, p))
      PROVE  p \in Nodes(doc) \cup {Doc} /\ Unmoved(doc, doc', p)
  <2>1. p \in DOMAIN doc.node /\ p \in Nodes(doc) \cup {Doc}
    BY <1>1 DEF Parents, OfKind, Nodes
  <2> QED
    BY <1>1, <1>3, <2>1, DeleteChildrenUnmoved DEF Edit
<1> QED
  BY <1>2, <1>3 DEF Delete

LEMMA ChangeMovesNone ==
    ASSUME Sound, Change
    PROVE  Unmoved(doc, doc', Doc)
<1>1. Sane(doc)
  BY DEF Sound
<1>2. ASSUME NEW n \in Nodes(doc), NEW v \in ValuesOf(doc.node[n].kind), SetValue(n, v) PROVE Unmoved(doc, doc', Doc)
  <2>1. doc' = Set(doc, n, "value", v) /\ Text(v)
    BY <1>2, WrittenAreTexts DEF SetValue, Edit
  <2>2. Held(doc, doc', n, "value")
    BY <1>1, <2>1, SettersKeep
  <2> QED
    BY <1>1, <2>2, SettersUnmoved
<1>3. ASSUME NEW e \in OfKind({"element"}), NEW v \in Texts, WriteText(e, v) PROVE Unmoved(doc, doc', Doc)
  <2>1. doc' = SetText(doc, e, v) /\ Text(v) /\ e \in Nodes(doc)
    BY <1>3, WrittenAreTexts DEF WriteText, Edit, OfKind
  <2> QED
    BY <1>1, <2>1, SetTextUnmoved
<1>4. ASSUME NEW e \in OfKind({"element"}), NEW name \in Names, NEW v \in Texts, WriteAttribute(e, name, v)
      PROVE  Unmoved(doc, doc', Doc)
  <2>1. doc' = SetAttribute(doc, e, name, v) /\ Text(name) /\ Text(v) /\ e \in Nodes(doc)
    BY <1>4, WrittenAreTexts DEF WriteAttribute, Edit, OfKind
  <2>2. Held(doc, doc', e, "attrs")
    BY <1>1, <2>1, SettersKeep
  <2> QED
    BY <1>1, <2>1, <2>2, SettersUnmoved
<1>5. ASSUME NEW e \in OfKind({"element"}), NEW name \in Names, RemoveAttribute(e, name) PROVE Unmoved(doc, doc', Doc)
  <2>1. doc' = DeleteAttribute(doc, e, name) /\ Text(name) /\ e \in Nodes(doc)
    BY <1>5, WrittenAreTexts DEF RemoveAttribute, Edit, OfKind
  <2>2. Held(doc, doc', e, "attrs")
    BY <1>1, <2>1, SettersKeep
  <2> QED
    BY <1>1, <2>1, <2>2, SettersUnmoved
<1> QED
  BY <1>2, <1>3, <1>4, <1>5 DEF Change

\* A clone and a text that is saved leave the nodes where they are.
LEMMA OthersMoveNone ==
    ASSUME Sound, (\E n \in Nodes(doc) : Clone(n)) \/ \E compact \in BOOLEAN : Save(compact)
    PROVE  Unmoved(doc, doc', Doc)
<1>1. Sane(doc) /\ \A m \in DOMAIN doc.node : doc.node[m].next \in DOMAIN doc.node \cup {Nil}
  BY DEF Sound, Sane, Linked, Child, Nodes
<1>2. ASSUME NEW n \in Nodes(doc), Clone(n) PROVE Sane(doc') /\ Kept(doc, doc')
  <2>1. doc' = DeepClone(doc, n, doc)
    BY <1>2 DEF Clone, Edit
  <2>2. Sane(doc') /\ DOMAIN doc.node \subseteq DOMAIN doc'.node /\ \A m \in DOMAIN doc.node : doc'.node[m] = doc.node[m]
    BY <1>1, <2>1, DeepCloneKeeps
  <2> QED
    BY <1>1, <2>2 DEF Kept
<1>3. ASSUME NEW compact, Save(compact) PROVE Sane(doc') /\ Kept(doc, doc')
  <2>1. doc' = SetError(doc, "success")
    BY <1>3 DEF Save
  <2>2. Sane(doc') /\ doc'.node = doc.node
    BY <1>1, <2>1, ErrorIsSteady DEF Steady
  <2> QED
    BY <1>1, <2>2 DEF Kept
<1> QED
  BY <1>1, <1>2, <1>3, NoneMoved DEF Nodes

\* Whatever a program has done: a call moves at most one node, all others that are
\* still there keep their parent and their order, and a node that is inserted is
\* where it was asked for (src/filter/lib/tinyxml/tinyxml.cpp:925-1019).
THEOREM ProgramsEditLocally == Spec => EditsAreLocal
<1> DEFINE Local ==
        /\ \E moved \in Nodes(doc) \cup {Doc} : Unmoved(doc, doc', moved)
        /\ \A p \in Parents, n \in Nodes(doc) :
            /\ InsertEnd(p, n) => doc'.node[n].parent = p /\ \A m \in Siblings(doc', n) : n \in From(doc', m)
            /\ InsertFirst(p, n) => doc'.node[n].parent = p /\ Siblings(doc', n) \subseteq From(doc', n)
            /\ \A a \in ChildrenOf(p) \ {n} :
                InsertAfter(p, a, n) => doc'.node[n].parent = p /\ doc'.node[a].next = n
<1>1. ASSUME Sound, [Next]_vars, edits' # edits, ~Copy PROVE Local
  <2>1. ~ParseFile /\ ~LoadFromFile /\ ~UNCHANGED vars
    BY <1>1 DEF ParseFile, LoadFromFile, Load, vars
  <2>2. \E moved \in Nodes(doc) \cup {Doc} : Unmoved(doc, doc', moved)
    BY <1>1, <2>1, NewMovesNone, InsertMovesOne, DeleteMovesOne, ChangeMovesNone, OthersMoveNone DEF Next
  <2> QED
    BY <1>1, <2>2, InsertedWhere
<1>2. Sound /\ [Next]_vars => [edits' # edits /\ ~Copy => Local]_vars
  BY <1>1
<1> QED
  BY <1>2, ProgramsAreSound, PTL DEF Spec, EditsAreLocal

-----------------------------------------------------------------------------
(***************************************************************************)
(* Copies are equal: the trees of nodes that mirror each other.            *)
(***************************************************************************)
\* What holds of a node when it holds of all that rank before it holds of all nodes.
LEMMA RankInduction ==
    ASSUME NEW D, IsFiniteSet(D), NEW rank \in [D -> Int], NEW P \in SUBSET D,
           \A m \in D : (\A k \in D : rank[k] < rank[m] => k \in P) => m \in P
    PROVE  P = D
<1>1. CASE D \ P # {}
  <2>1. IsFiniteSet(D \ P) /\ \A m \in D \ P : rank[m] \in Int
    BY FS_Subset
  <2>2. PICK m \in D \ P : \A k \in D \ P : rank[m] <= rank[k]
    BY <1>1, <2>1, LeastOf
  <2>3. ASSUME NEW k \in D, rank[k] < rank[m] PROVE k \in P
    BY <2>2, <2>3
  <2> QED
    BY <2>2, <2>3
<1> QED
  BY <1>1

\* A property of sets of nodes that each next node in rank extends holds of all nodes.
LEMMA RankExtension ==
    ASSUME NEW D, IsFiniteSet(D), NEW rank \in [D -> Int], NEW Good \in SUBSET SUBSET D, {} \in Good,
           \A G \in Good : \A m \in D \ G : (\A k \in D : rank[k] < rank[m] => k \in G) => G \cup {m} \in Good
    PROVE  D \in Good
<1> DEFINE value == [G \in Good |-> 0 - Cardinality(G)]
<1>1. \A G \in Good : IsFiniteSet(G) /\ Cardinality(G) \in Nat /\ value[G] \in Int
  BY FS_Subset, FS_CardinalityType
<1>2. IsFiniteSet(Good) /\ Good # {}
  BY FS_SUBSET, FS_Subset
<1>3. PICK G \in Good : \A H \in Good : value[G] <= value[H]
  <2> HIDE DEF value
  <2> QED
    BY <1>1, <1>2, LeastOf
<1>4. CASE D \ G # {}
  <2>1. IsFiniteSet(D \ G) /\ \A m \in D \ G : rank[m] \in Int
    BY FS_Subset
  <2>2. PICK m \in D \ G : \A k \in D \ G : rank[m] <= rank[k]
    BY <1>4, <2>1, LeastOf
  <2>3. ASSUME NEW k \in D, rank[k] < rank[m] PROVE k \in G
    BY <2>2, <2>3
  <2>4. G \cup {m} \in Good
    BY <1>3, <2>2, <2>3
  <2>5. Cardinality(G \cup {m}) = Cardinality(G) + 1
    BY <1>1, <1>3, <2>2, FS_AddElement
  <2>6. value[G] <= value[G \cup {m}]
    BY <1>3, <2>4
  <2> QED
    BY <1>1, <1>3, <2>4, <2>5, <2>6
<1> QED
  BY <1>3, <1>4

\* f gives each node of G the node and the siblings that come after it.
Lists(d, G, f) == f = [m \in G \cup {Nil} |-> IF m = Nil THEN <<>> ELSE <<m>> \o f[d.node[m].next]]

LEMMA ListsExist ==
    ASSUME NEW d, Shaped(d), Linked(d), Ordered(d)
    PROVE  \E f : Lists(d, DOMAIN d.node, f)
<1> DEFINE D == DOMAIN d.node
           Good == {G \in SUBSET D : /\ \A m \in G : d.node[m].next \in G \cup {Nil}
                                     /\ \E f : Lists(d, G, f)}
<1>1. Nil \notin D /\ IsFiniteSet(D) /\ \A m \in D : d.node[m].next \in D \cup {Nil}
  BY NilAssumption, Pointers DEF Shaped, Nodes
<1>2. PICK place \in [D -> Int] : \A m \in D : d.node[m].next # Nil => place[m] < place[d.node[m].next]
  BY DEF Ordered
<1> DEFINE rank == [m \in D |-> 0 - place[m]]
<1>3. rank \in [D -> Int] /\ \A m \in D : d.node[m].next # Nil => rank[d.node[m].next] < rank[m]
  BY <1>1, <1>2
<1>4. {} \in Good
  <2> DEFINE f == [m \in {} \cup {Nil} |-> <<>>]
  <2>1. f = [m \in {} \cup {Nil} |-> IF m = Nil THEN <<>> ELSE <<m>> \o f[d.node[m].next]]
    BY Zenon
  <2> QED
    BY <2>1 DEF Lists
<1>5. ASSUME NEW G \in Good, NEW m \in D \ G, \A k \in D : rank[k] < rank[m] => k \in G
      PROVE  G \cup {m} \in Good
  <2>1. d.node[m].next \in G \cup {Nil}
    BY <1>1, <1>3, <1>5
  <2>2. PICK f : Lists(d, G, f)
    OBVIOUS
  <2> DEFINE H == G \cup {m}
             h == [k \in H \cup {Nil} |-> IF k = m THEN <<m>> \o f[d.node[m].next] ELSE f[k]]
  <2>3. m # Nil /\ G \subseteq D /\ Nil \notin G
    BY <1>1
  <2>4. \A k \in G \cup {Nil} : h[k] = f[k]
    BY <2>3
  <2>5. f[Nil] = <<>> /\ \A k \in G : f[k] = <<k>> \o f[d.node[k].next]
    BY <2>2, <2>3 DEF Lists
  <2>6. \A k \in H : d.node[k].next \in G \cup {Nil}
    BY <2>1
  <2>7. h[Nil] = <<>> /\ \A k \in H : h[k] = <<k>> \o h[d.node[k].next]
    <3>1. h[m] = <<m>> \o f[d.node[m].next]
      OBVIOUS
    <3> HIDE DEF h
    <3> QED
      BY <2>4, <2>5, <2>6, <3>1
  <2>8. h = [k \in H \cup {Nil} |-> h[k]]
    OBVIOUS
  <2> HIDE DEF h
  <2>9. Lists(d, H, h)
    BY <2>3, <2>7, <2>8 DEF Lists
  <2> QED
    BY <2>3, <2>6, <2>9
<1> HIDE DEF rank
<1>6. D \in Good
  <2>1. Good \in SUBSET SUBSET D
    OBVIOUS
  <2> HIDE DEF Good, D
  <2>2. \A G \in Good : \A m \in D \ G :
          (\A k \in D : rank[k] < rank[m] => k \in G) => G \cup {m} \in Good
    BY <1>5
  <2>3. IsFiniteSet(D) /\ rank \in [D -> Int]
    BY <1>1, <1>3
  <2> QED
    BY <1>4, <2>1, <2>2, <2>3, RankExtension
<1> QED
  BY <1>6

\* The siblings from a node on are the node and the siblings from the next one on.
LEMMA SiblingsFacts ==
    ASSUME NEW d, Shaped(d), Linked(d), Ordered(d)
    PROVE  /\ SiblingsFrom(d, Nil) = <<>>
           /\ \A m \in DOMAIN d.node : SiblingsFrom(d, m) = <<m>> \o SiblingsFrom(d, d.node[m].next)
<1> DEFINE f == CHOOSE from : Lists(d, DOMAIN d.node, from)
<1>1. \A n : SiblingsFrom(d, n) = f[n]
  BY DEF SiblingsFrom, Lists
<1>2. Lists(d, DOMAIN d.node, f)
  BY ListsExist
<1>3. Nil \notin DOMAIN d.node
  BY NilAssumption DEF Shaped
<1> HIDE DEF f
<1>4. f[Nil] = <<>>
  BY <1>2 DEF Lists
<1>5. ASSUME NEW m \in DOMAIN d.node PROVE f[m] = <<m>> \o f[d.node[m].next]
  BY <1>2, <1>3 DEF Lists
<1> QED
  BY <1>1, <1>4, <1>5

\* The siblings from a node on are nodes under the same one.
LEMMA SiblingsAreNodes ==
    ASSUME NEW d, Shaped(d), Linked(d), Ordered(d), NEW m \in DOMAIN d.node
    PROVE  /\ SiblingsFrom(d, m) \in Seq(DOMAIN d.node)
           /\ \A i \in DOMAIN SiblingsFrom(d, m) :
                d.node[SiblingsFrom(d, m)[i]].parent = d.node[m].parent
<1> DEFINE D == DOMAIN d.node
           P == {k \in D : /\ SiblingsFrom(d, k) \in Seq(D)
                           /\ \A i \in DOMAIN SiblingsFrom(d, k) :
                                d.node[SiblingsFrom(d, k)[i]].parent = d.node[k].parent}
<1>1. /\ Nil \notin D /\ IsFiniteSet(D)
      /\ \A k \in D : /\ d.node[k].next \in D \cup {Nil}
                      /\ d.node[k].next # Nil => d.node[d.node[k].next].parent = d.node[k].parent
  BY NilAssumption, Pointers DEF Shaped, Nodes, Linked, Child
<1>2. PICK place \in [D -> Int] : \A k \in D : d.node[k].next # Nil => place[k] < place[d.node[k].next]
  BY DEF Ordered
<1> DEFINE rank == [k \in D |-> 0 - place[k]]
<1>3. rank \in [D -> Int] /\ \A k \in D : d.node[k].next # Nil => rank[d.node[k].next] < rank[k]
  BY <1>1, <1>2
<1>4. ASSUME NEW k \in D, \A j \in D : rank[j] < rank[k] => j \in P PROVE k \in P
  <2> DEFINE x == d.node[k].next
             s == SiblingsFrom(d, k)
             t == SiblingsFrom(d, x)
  <2>1. s = <<k>> \o t /\ SiblingsFrom(d, Nil) = <<>>
    BY SiblingsFacts
  <2>2. x = Nil \/ x \in P
    BY <1>1, <1>3, <1>4
  <2>3. t \in Seq(D) /\ \A i \in DOMAIN t : d.node[t[i]].parent = d.node[k].parent
    <3>1. CASE x = Nil
      <4>1. t = <<>>
        BY <2>1, <3>1
      <4> QED
        BY <4>1
    <3>2. CASE x \in P /\ x # Nil
      BY <1>1, <3>2
    <3> QED
      BY <2>2, <3>1, <3>2
  <2> HIDE DEF s, t
  <2>4. s \in Seq(D) /\ \A i \in DOMAIN s : s[i] = k \/ \E j \in DOMAIN t : s[i] = t[j]
    <3>1. Len(t) \in Nat /\ Len(s) = Len(t) + 1 /\ DOMAIN s = 1 .. Len(s) /\ DOMAIN t = 1 .. Len(t)
      BY <2>1, <2>3
    <3>2. \A i \in 1 .. Len(s) : s[i] = IF i = 1 THEN k ELSE t[i - 1]
      BY <2>1, <2>3
    <3>3. \A i \in 1 .. Len(s) : i = 1 \/ i - 1 \in 1 .. Len(t)
      BY <3>1
    <3>4. s \in Seq(D)
      <4>1. k \in D /\ t \in Seq(D) /\ s = <<k>> \o t
        BY <2>1, <2>3
      <4> HIDE DEF D
      <4> QED
        BY <4>1
    <3>5. \A i \in DOMAIN s : s[i] = k \/ \E j \in DOMAIN t : s[i] = t[j]
      BY <3>1, <3>2, <3>3
    <3> QED
      BY <3>4, <3>5
  <2>5. \A i \in DOMAIN s : d.node[s[i]].parent = d.node[k].parent
    BY <2>3, <2>4
  <2> QED
    BY <2>4, <2>5 DEF s
<1> HIDE DEF rank
<1>5. P = D
  <2>1. P \in SUBSET D
    OBVIOUS
  <2> HIDE DEF P, D
  <2> QED
    BY <1>1, <1>3, <1>4, <2>1, RankInduction
<1> QED
  BY <1>5

\* The children of a node are the nodes that lie under it.
LEMMA ChildrenAreNodes ==
    ASSUME NEW d, Shaped(d), Linked(d), Ordered(d), NEW m \in DOMAIN d.node
    PROVE  /\ Children(d, m) \in Seq(DOMAIN d.node)
           /\ \A i \in DOMAIN Children(d, m) : d.node[Children(d, m)[i]].parent = m
<1> DEFINE c == d.node[m].first
<1>1. c = Nil \/ (c \in DOMAIN d.node /\ d.node[c].parent = m)
  BY Pointers DEF Linked, Child, Nodes
<1>2. CASE c = Nil
  <2>1. Children(d, m) = <<>>
    BY <1>2, SiblingsFacts DEF Children
  <2> QED
    BY <2>1
<1>3. CASE c \in DOMAIN d.node /\ d.node[c].parent = m
  BY <1>3, SiblingsAreNodes DEF Children
<1> QED
  BY <1>1, <1>2, <1>3

\* f gives each node of G what a program can see of it.
Shows(d, G, f) ==
    f = [m \in G |-> LET children == Children(d, m)
                     IN  [kind |-> d.node[m].kind, value |-> d.node[m].value, attrs |-> d.node[m].attrs,
                          children |-> [i \in DOMAIN children |-> f[children[i]]]]]

\* What a program sees of a node, when it sees trees of its children.
Seen(d, m, trees) ==
    [kind |-> d.node[m].kind, value |-> d.node[m].value, attrs |-> d.node[m].attrs, children |-> trees]

LEMMA ShowsExist ==
    ASSUME NEW d, Shaped(d), Linked(d), Ordered(d)
    PROVE  \E f : Shows(d, DOMAIN d.node, f)
<1> DEFINE D == DOMAIN d.node
           Kids(m) == ToSet(Children(d, m))
           Good == {G \in SUBSET D : (\A m \in G : Kids(m) \subseteq G) /\ \E f : Shows(d, G, f)}
<1>1. Nil \notin D /\ IsFiniteSet(D)
  BY NilAssumption DEF Shaped
<1>2. PICK level \in [D -> Int] : \A m \in D : d.node[m].parent # Nil => level[d.node[m].parent] < level[m]
  BY DEF Ordered
<1> DEFINE rank == [m \in D |-> 0 - level[m]]
<1>3. rank \in [D -> Int] /\ \A m \in D : Kids(m) \subseteq D /\ \A k \in Kids(m) : rank[k] < rank[m]
  <2>1. rank \in [D -> Int]
    BY <1>2
  <2>2. ASSUME NEW m \in D, NEW k \in Kids(m) PROVE k \in D /\ rank[k] < rank[m]
    <3>1. k \in D /\ d.node[k].parent = m
      BY ChildrenAreNodes DEF ToSet
    <3>2. level[m] < level[k] /\ level[m] \in Int /\ level[k] \in Int
      BY <1>1, <1>2, <3>1
    <3> QED
      BY <3>1, <3>2
  <2> QED
    BY <2>1, <2>2
<1>4. {} \in Good
  <2> DEFINE f == [m \in {} |-> <<>>]
  <2>1. Shows(d, {}, f)
    BY DEF Shows
  <2> QED
    BY <2>1
<1>5. ASSUME NEW G \in Good, NEW m \in D \ G, \A k \in D : rank[k] < rank[m] => k \in G
      PROVE  G \cup {m} \in Good
  <2>1. Kids(m) \subseteq G
    BY <1>3, <1>5
  <2>2. PICK f : Shows(d, G, f)
    OBVIOUS
  <2> DEFINE H == G \cup {m}
             c(k) == Children(d, k)
             h == [k \in H |-> IF k = m THEN Seen(d, m, [i \in DOMAIN c(m) |-> f[c(m)[i]]]) ELSE f[k]]
  <2>3. \A k \in G : f[k] = Seen(d, k, [i \in DOMAIN c(k) |-> f[c(k)[i]]])
    BY <2>2 DEF Shows, Seen
  <2>4. \A k \in G : h[k] = f[k]
    OBVIOUS
  <2>5. \A k \in H : \A i \in DOMAIN c(k) : c(k)[i] \in G
    BY <2>1 DEF ToSet
  <2>6. \A k \in H : h[k] = Seen(d, k, [i \in DOMAIN c(k) |-> f[c(k)[i]]])
    BY <2>3
  <2>7. h = [k \in H |-> h[k]]
    OBVIOUS
  <2> HIDE DEF h
  <2>8. ASSUME NEW k \in H PROVE h[k] = Seen(d, k, [i \in DOMAIN c(k) |-> h[c(k)[i]]])
    <3>1. [i \in DOMAIN c(k) |-> h[c(k)[i]]] = [i \in DOMAIN c(k) |-> f[c(k)[i]]]
      BY <2>4, <2>5
    <3> QED
      BY <2>6, <3>1
  <2>9. Shows(d, H, h)
    BY <2>7, <2>8 DEF Shows, Seen
  <2>10. \A k \in H : Kids(k) \subseteq H
    BY <2>1
  <2> QED
    BY <2>9, <2>10
<1>7. rank \in [D -> Int]
  BY <1>3
<1> HIDE DEF rank
<1>6. D \in Good
  <2>1. Good \in SUBSET SUBSET D
    OBVIOUS
  <2> HIDE DEF Good, D
  <2>2. \A G \in Good : \A m \in D \ G :
          (\A k \in D : rank[k] < rank[m] => k \in G) => G \cup {m} \in Good
    BY <1>5
  <2>3. IsFiniteSet(D) /\ rank \in [D -> Int]
    BY <1>1, <1>7
  <2> QED
    BY <1>4, <2>1, <2>2, <2>3, RankExtension
<1> QED
  BY <1>6

\* What a program sees of a node is what it holds and what is seen of its children.
LEMMA TreeFacts ==
    ASSUME NEW d, Shaped(d), Linked(d), Ordered(d), NEW m \in DOMAIN d.node
    PROVE  Tree(d, m) = Seen(d, m, [i \in DOMAIN Children(d, m) |-> Tree(d, Children(d, m)[i])])
<1> DEFINE f == CHOOSE tree : Shows(d, DOMAIN d.node, tree)
<1>1. \A n : Tree(d, n) = f[n]
  BY DEF Tree, Shows
<1>2. Shows(d, DOMAIN d.node, f)
  BY ShowsExist
<1> HIDE DEF f
<1>3. f[m] = Seen(d, m, [i \in DOMAIN Children(d, m) |-> f[Children(d, m)[i]]])
  BY <1>2 DEF Shows, Seen
<1> QED
  BY <1>1, <1>3

\* In e each node of C has its image by g, which holds the same and has the images of
\* its children in the same order.
LEMMA MirroredSiblings ==
    ASSUME NEW d, Sane(d), NEW e, Sane(e), NEW n, NEW C, NEW g, Mirrors(d, n, e, C, g), NEW m \in C \ {n}
    PROVE  LET s == SiblingsFrom(d, m)
               t == SiblingsFrom(e, g[m])
           IN  DOMAIN t = DOMAIN s /\ \A i \in DOMAIN s : s[i] \in C /\ t[i] = g[s[i]]
<1> DEFINE D == DOMAIN d.node
           B == C \ {n}
           s(k) == SiblingsFrom(d, k)
           t(k) == SiblingsFrom(e, g[k])
           P == {k \in B : DOMAIN t(k) = DOMAIN s(k) /\ \A i \in DOMAIN s(k) : s(k)[i] \in C /\ t(k)[i] = g[s(k)[i]]}
<1>1. Nil \notin D /\ IsFiniteSet(B) /\ B \subseteq D
  <2>1. Nil \notin D /\ IsFiniteSet(D) /\ B \subseteq D
    BY NilAssumption DEF Mirrors, Sane, Shaped
  <2> QED
    BY <2>1, FS_Subset
<1>2. PICK place \in [D -> Int] : \A k \in D : d.node[k].next # Nil => place[k] < place[d.node[k].next]
  BY DEF Ordered, Sane
<1> DEFINE rank == [k \in B |-> 0 - place[k]]
<1>3. /\ \A k \in B : d.node[k].next \in B \cup {Nil}
      /\ \A k \in B : g[k] \in DOMAIN e.node /\ e.node[g[k]].next = Image(g, C, d.node[k].next)
  BY DEF Mirrors
<1>4. rank \in [B -> Int] /\ \A k \in B : d.node[k].next # Nil => rank[d.node[k].next] < rank[k]
  BY <1>1, <1>2, <1>3
<1>5. ASSUME NEW k \in B, \A j \in B : rank[j] < rank[k] => j \in P PROVE k \in P
  <2> DEFINE x == d.node[k].next
             y == e.node[g[k]].next
             u == SiblingsFrom(d, x)
             v == SiblingsFrom(e, y)
  <2>1. s(k) = <<k>> \o u
    BY <1>1, SiblingsFacts DEF Sane
  <2>2. t(k) = <<g[k]>> \o v
    BY <1>3, SiblingsFacts DEF Sane
  <2>3. CASE x = Nil
    <3>1. y = Nil
      BY <1>1, <1>3, <2>3, NilAssumption DEF Image, Mirrors
    <3>2. u = <<>> /\ v = <<>>
      BY <2>3, <3>1, SiblingsFacts DEF Sane
    <3> QED
      BY <2>1, <2>2, <3>2
  <2>4. CASE x # Nil
    <3>1. x \in B /\ x \in P
      BY <1>3, <1>4, <1>5, <2>4
    <3>2. y = g[x]
      BY <1>3, <3>1 DEF Image
    <3>3. DOMAIN v = DOMAIN u /\ \A i \in DOMAIN u : u[i] \in C /\ v[i] = g[u[i]]
      BY <3>1, <3>2
    <3>4. u \in Seq(D) /\ v \in Seq(DOMAIN e.node)
      <4>1. x \in D /\ y \in DOMAIN e.node
        BY <1>1, <1>3, <3>1, <3>2
      <4> QED
        BY <4>1, SiblingsAreNodes DEF Sane
    <3> HIDE DEF u, v
    <3> DEFINE a == <<k>> \o u
               b == <<g[k]>> \o v
    <3>5. Len(u) \in Nat /\ DOMAIN u = 1 .. Len(u) /\ Len(v) = Len(u)
      BY <3>3, <3>4
    <3>6. /\ DOMAIN a = 1 .. Len(u) + 1 /\ DOMAIN b = 1 .. Len(u) + 1
          /\ a[1] = k /\ b[1] = g[k]
          /\ \A i \in 1 .. Len(u) + 1 : i # 1 => a[i] = u[i - 1] /\ b[i] = v[i - 1] /\ i - 1 \in 1 .. Len(u)
      BY <3>4, <3>5
    <3> HIDE DEF a, b
    <3>7. \A i \in 1 .. Len(u) + 1 : a[i] \in C /\ b[i] = g[a[i]]
      BY <3>3, <3>5, <3>6
    <3>8. s(k) = a /\ t(k) = b
      BY <2>1, <2>2 DEF a, b
    <3> QED
      BY <3>6, <3>7, <3>8
  <2> QED
    BY <2>3, <2>4
<1>6. P = B
  <2>1. P \in SUBSET B /\ rank \in [B -> Int]
    BY <1>4
  <2>2. \A k \in B : (\A j \in B : rank[j] < rank[k] => j \in P) => k \in P
    BY <1>5
  <2> HIDE DEF P, B, rank
  <2> QED
    BY <1>1, <2>1, <2>2, RankInduction
<1> QED
  BY <1>6

LEMMA MirroredChildren ==
    ASSUME NEW d, Sane(d), NEW e, Sane(e), NEW n, NEW C, NEW g, Mirrors(d, n, e, C, g), NEW m \in C
    PROVE  LET s == Children(d, m)
               t == Children(e, g[m])
           IN  DOMAIN t = DOMAIN s /\ \A i \in DOMAIN s : s[i] \in C /\ t[i] = g[s[i]]
<1> DEFINE x == d.node[m].first
           y == e.node[g[m]].first
<1>1. x \in (C \ {n}) \cup {Nil} /\ y = Image(g, C, x) /\ Nil \notin C
  BY NilAssumption DEF Mirrors, Sane, Shaped
<1>2. CASE x = Nil
  <2>1. y = Nil
    BY <1>1, <1>2 DEF Image
  <2>2. Children(d, m) = <<>> /\ Children(e, g[m]) = <<>>
    BY <1>2, <2>1, SiblingsFacts DEF Sane, Children
  <2> QED
    BY <2>2
<1>3. CASE x # Nil
  <2>1. x \in C \ {n} /\ y = g[x]
    BY <1>1, <1>3 DEF Image
  <2> QED
    BY <2>1, MirroredSiblings DEF Children
<1> QED
  BY <1>2, <1>3

\* What a program sees of a node and of its image is the same.
LEMMA MirroredTrees ==
    ASSUME NEW d, Sane(d), NEW e, Sane(e), NEW n, NEW C, NEW g, Mirrors(d, n, e, C, g),
           \A f \in {"kind", "value", "attrs"} : e.node[g[n]][f] = d.node[n][f]
    PROVE  Tree(e, g[n]) = Tree(d, n)
<1> DEFINE D == DOMAIN d.node
           P == {m \in C : Tree(e, g[m]) = Tree(d, m)}
<1>1. /\ Nil \notin D /\ IsFiniteSet(C) /\ C \subseteq D /\ n \in C
      /\ \A m \in C : /\ g[m] \in DOMAIN e.node
                      /\ \A f \in {"kind", "value", "attrs"} : e.node[g[m]][f] = d.node[m][f]
  <2>1. Nil \notin D /\ IsFiniteSet(D) /\ C \subseteq D /\ n \in C
    BY NilAssumption DEF Mirrors, Sane, Shaped
  <2>2. IsFiniteSet(C)
    BY <2>1, FS_Subset
  <2> QED
    BY <2>1, <2>2 DEF Mirrors
<1>2. PICK level \in [D -> Int] : \A m \in D : d.node[m].parent # Nil => level[d.node[m].parent] < level[m]
  BY DEF Ordered, Sane
<1> DEFINE rank == [m \in C |-> 0 - level[m]]
<1>3. ASSUME NEW m \in C, \A k \in C : rank[k] < rank[m] => k \in P PROVE m \in P
  <2> DEFINE s == Children(d, m)
             t == Children(e, g[m])
  <2>1. DOMAIN t = DOMAIN s /\ \A i \in DOMAIN s : s[i] \in C /\ t[i] = g[s[i]]
    BY MirroredChildren
  <2>2. \A i \in DOMAIN s : s[i] \in D /\ d.node[s[i]].parent = m
    BY <1>1, ChildrenAreNodes DEF Sane
  <2>3. ASSUME NEW i \in DOMAIN s PROVE Tree(e, t[i]) = Tree(d, s[i])
    <3>1. level[m] < level[s[i]] /\ level[m] \in Int /\ level[s[i]] \in Int
      BY <1>1, <1>2, <2>2
    <3>2. s[i] \in P
      BY <1>3, <2>1, <3>1
    <3> QED
      BY <2>1, <3>2
  <2>4. Tree(d, m) = Seen(d, m, [i \in DOMAIN s |-> Tree(d, s[i])])
    BY <1>1, TreeFacts DEF Sane
  <2>5. Tree(e, g[m]) = Seen(e, g[m], [i \in DOMAIN t |-> Tree(e, t[i])])
    BY <1>1, TreeFacts DEF Sane
  <2> HIDE DEF s, t
  <2>6. [i \in DOMAIN t |-> Tree(e, t[i])] = [i \in DOMAIN s |-> Tree(d, s[i])]
    BY <2>1, <2>3
  <2> QED
    BY <1>1, <2>4, <2>5, <2>6 DEF Seen
<1>4. P = C
  <2>1. P \in SUBSET C /\ rank \in [C -> Int]
    BY <1>1, <1>2
  <2>2. \A m \in C : (\A k \in C : rank[k] < rank[m] => k \in P) => m \in P
    BY <1>3
  <2> HIDE DEF P, rank
  <2> QED
    BY <1>1, <2>1, <2>2, RankInduction
<1> QED
  BY <1>1, <1>4

\* A clone has the tree of its node (src/filter/lib/tinyxml/tinyxml.cpp:865).
LEMMA CloneTree ==
    ASSUME NEW from, Sane(from), NEW n \in Nodes(from), NEW d, Sane(d)
    PROVE  Tree(DeepClone(from, n, d), Fresh(d)) = Tree(from, n)
<1> DEFINE c == ShallowClone(from, n, d)
           x == Fresh(d)
           e == DeepClone(from, n, d)
<1>1. Extending(d, c, x) /\ Copied(from.node[n], c.node[x])
  BY ShallowCloneKeeps DEF Sane, Tallied, Attributed
<1>2. e = CopyChildren(from, n, c, x)
  BY DEF DeepClone
<1>3. Sane(e) /\ \A f \in {"kind", "value", "attrs"} : e.node[x][f] = from.node[n][f]
  BY DeepCloneKeeps
<1> HIDE DEF c, x, e
<1>4. Sane(c) /\ x \in DOMAIN c.node /\ c.node[x].last = Nil /\ n \in DOMAIN from.node
  BY <1>1 DEF Extending, Copied, Pointing, Nodes
<1>5. PICK C, g : Mirrors(from, n, e, C, g) /\ g[n] = x
  BY <1>2, <1>4, CopyChildrenMirrors
<1>6. Tree(e, g[n]) = Tree(from, n)
  BY <1>3, <1>5, MirroredTrees
<1> QED
  BY <1>5, <1>6 DEF e, x

\* A copied document has the tree of the one it was copied from
\* (src/filter/lib/tinyxml/tinyxml.cpp:2258).
LEMMA CopyTree ==
    ASSUME NEW from, Sane(from), NEW d, Sane(d)
    PROVE  Tree(DeepCopy(from, d), Doc) = Tree(from, Doc)
<1> DEFINE c == Clear(d)
           e == DeepCopy(from, d)
<1>1. Sane(c) /\ Nodes(c) = {}
  BY ClearKeeps
<1>2. e = CopyChildren(from, Doc, c, Doc)
  BY DEF DeepCopy
<1>3. Sane(e)
  BY DeepCopyKeeps
<1> HIDE DEF c, e
<1>4. Doc \in DOMAIN c.node /\ Doc \in DOMAIN from.node
  BY <1>1 DEF Sane, Linked
<1>5. c.node[Doc].last = Nil
  BY <1>1, <1>4, Pointers DEF Sane
<1>6. PICK C, g : Mirrors(from, Doc, e, C, g) /\ g[Doc] = Doc
  BY <1>1, <1>2, <1>4, <1>5, CopyChildrenMirrors
<1>7. \A f \in {"kind", "value", "attrs"} : e.node[g[Doc]][f] = from.node[Doc][f]
  BY <1>3, <1>6 DEF Sane, Tallied, Attributed
<1>8. Tree(e, g[Doc]) = Tree(from, Doc)
  BY <1>3, <1>6, <1>7, MirroredTrees
<1> QED
  BY <1>6, <1>8 DEF e

\* The tree of a document whose nodes stay as they are stays as it is.
LEMMA SameTree ==
    ASSUME NEW d, Sane(d), NEW e, Sane(e), DOMAIN d.node \subseteq DOMAIN e.node,
           \A m \in DOMAIN d.node : e.node[m] = d.node[m]
    PROVE  Tree(e, Doc) = Tree(d, Doc)
<1> DEFINE C == DOMAIN d.node
           g == [m \in C |-> m]
<1>1. Doc \in C /\ Nil \notin C /\ Nodes(d) = C \ {Doc}
  BY NilAssumption DEF Sane, Linked, Shaped, Nodes
<1>2. \A m \in C : /\ d.node[m].first \in (C \ {Doc}) \cup {Nil}
                   /\ d.node[m].next \in (C \ {Doc}) \cup {Nil}
  BY <1>1, Pointers DEF Sane
<1>3. g \in [C -> DOMAIN e.node] /\ \A m \in C : g[m] = m
  OBVIOUS
<1> HIDE DEF g
<1>4. \A m \in (C \ {Doc}) \cup {Nil} : Image(g, C, m) = m
  BY <1>1, <1>3 DEF Image
<1>5. Mirrors(d, Doc, e, C, g)
  BY <1>1, <1>2, <1>3, <1>4 DEF Mirrors
<1>6. Tree(e, g[Doc]) = Tree(d, Doc)
  BY <1>1, <1>3, <1>5, MirroredTrees
<1> QED
  BY <1>1, <1>3, <1>6

\* Whatever a program has done: a clone is equal to its node and lies under nothing,
\* and a copied document is equal to the one it was copied from, however deep
\* (src/filter/lib/tinyxml/tinyxml.cpp:865, 2258).
THEOREM ProgramsCopyEqually == Spec => CopiesAreEqual
<1> DEFINE Equal ==
        /\ Copy => Tree(doc', Doc) = Tree(doc, Doc)
        /\ \A n \in Nodes(doc) : Clone(n) =>
            /\ Tree(doc', Fresh(doc)) = Tree(doc, n)
            /\ doc'.node[Fresh(doc)].parent = Nil
            /\ Tree(doc', Doc) = Tree(doc, Doc)
<1>1. ASSUME Sound PROVE Equal
  <2>1. Sane(doc)
    BY <1>1 DEF Sound
  <2>2. ASSUME Copy PROVE Tree(doc', Doc) = Tree(doc, Doc)
    BY <2>1, <2>2, EmptyIsSane, CopyTree DEF Copy, Edit
  <2>3. ASSUME NEW n \in Nodes(doc), Clone(n)
        PROVE  /\ Tree(doc', Fresh(doc)) = Tree(doc, n)
               /\ doc'.node[Fresh(doc)].parent = Nil
               /\ Tree(doc', Doc) = Tree(doc, Doc)
    <3>1. doc' = DeepClone(doc, n, doc)
      BY <2>3 DEF Clone, Edit
    <3>2. /\ Sane(doc') /\ DOMAIN doc.node \subseteq DOMAIN doc'.node
          /\ \A m \in DOMAIN doc.node : doc'.node[m] = doc.node[m]
          /\ Fresh(doc) \in Roots(doc')
      BY <2>1, <2>3, <3>1, DeepCloneKeeps
    <3>3. Tree(doc', Fresh(doc)) = Tree(doc, n)
      BY <2>1, <2>3, <3>1, CloneTree
    <3>4. Tree(doc', Doc) = Tree(doc, Doc)
      BY <2>1, <3>2, SameTree
    <3> QED
      BY <3>2, <3>3, <3>4 DEF Roots
  <2> QED
    BY <2>2, <2>3
<1>2. Sound => [Equal]_vars
  BY <1>1
<1> QED
  BY <1>2, ProgramsAreSound, PTL DEF Spec, CopiesAreEqual
=============================================================================
