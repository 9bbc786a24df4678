-------------------------------- MODULE Loop --------------------------------
(***************************************************************************)
(* A loop of the code: Step is what one turn makes of the state, and makes *)
(* nothing of a state in which the loop has ended.                         *)
(***************************************************************************)
EXTENDS Integers, WellFoundedInduction, TLAPS

CONSTANT Step(_)

\* after[k] holds the state after k turns alone; a set, for its elements have been
\* evaluated when the next turn begins.
Turns(start, n) ==
    LET after[k \in 0 .. n] == IF k = 0 THEN {start} ELSE {Step(s) : s \in after[k - 1]}
    IN  CHOOSE s \in after[n] : TRUE

-----------------------------------------------------------------------------
\* What holds at first and after each turn if before it holds at the end.
LEMMA UpTo ==
    ASSUME NEW n \in Nat, NEW T, 0 \in T, \A k \in 1 .. n : k - 1 \in T => k \in T
    PROVE  n \in T
<1> DEFINE Rest == {k \in 0 .. n : k \notin T}
<1> SUFFICES ASSUME Rest # {} PROVE FALSE
  BY DEF Rest
<1>1. Rest \subseteq Nat
  OBVIOUS
<1> HIDE DEF Rest
<1>2. PICK k \in Rest : \A j \in Rest : <<j, k>> \notin OpToRel(<, Nat)
  BY <1>1, NatLessThanWellFounded, WFMin
<1> USE DEF Rest
<1>3. k \in 1 .. n /\ k - 1 \in Nat /\ k - 1 < k
  OBVIOUS
<1>4. <<k - 1, k>> \in Nat \X Nat /\ <<k - 1, k>>[1] < <<k - 1, k>>[2]
  BY <1>3
<1>5. k - 1 \notin Rest
  BY <1>2, <1>4 DEF OpToRel
<1> QED
  BY <1>3, <1>5

\* The states between the turns: a recursion on numbers has a function.
THEOREM TurnsFacts ==
    \A start : \A n \in Nat :
        \E turn : turn[0] = start /\ turn[n] = Turns(start, n) /\ \A k \in 1 .. n : turn[k] = Step(turn[k - 1])
<1> TAKE start
<1> TAKE n \in Nat
<1> DEFINE Body(m, g) == [k \in 0 .. m |-> IF k = 0 THEN {start} ELSE {Step(s) : s \in g[k - 1]}]
           T == {m \in 0 .. n : \E g : g = Body(m, g)}
<1>1. 0 \in T
  <2> DEFINE g == [k \in 0 .. 0 |-> {start}]
  <2>1. g = Body(0, g)
    OBVIOUS
  <2>2. \E f : f = Body(0, f)
    BY <2>1
  <2> HIDE DEF Body
  <2> QED
    BY <2>2
<1>2. ASSUME NEW m \in 1 .. n, m - 1 \in T PROVE m \in T
  <2>1. PICK g : g = Body(m - 1, g)
    BY <1>2
  <2> DEFINE h == [k \in 0 .. m |-> IF k = m THEN {Step(s) : s \in g[m - 1]} ELSE g[k]]
  <2>2. ASSUME NEW k \in 0 .. m PROVE h[k] = IF k = 0 THEN {start} ELSE {Step(s) : s \in h[k - 1]}
    <3>1. CASE k = m
      <4>1. h[m] = {Step(s) : s \in g[m - 1]} /\ h[m - 1] = g[m - 1] /\ m # 0
        OBVIOUS
      <4> HIDE DEF h
      <4> QED
        BY <3>1, <4>1
    <3>2. CASE k \in 0 .. m - 1
      <4>1. g[k] = IF k = 0 THEN {start} ELSE {Step(s) : s \in g[k - 1]}
        BY <2>1, <3>2
      <4>2. h[k] = g[k] /\ (k # 0 => h[k - 1] = g[k - 1])
        BY <3>2
      <4> QED
        BY <4>1, <4>2
    <3> QED
      BY <3>1, <3>2
  <2> HIDE DEF h
  <2>3. h = [k \in 0 .. m |-> h[k]]
    BY DEF h
  <2>4. h = Body(m, h)
    BY <2>2, <2>3
  <2> QED
    BY <2>4
<1>3. \E g : g = Body(n, g)
  <2> HIDE DEF T
  <2>1. n \in T
    BY <1>1, <1>2, UpTo
  <2> QED
    BY <2>1 DEF T
<1> DEFINE after == CHOOSE g : g = Body(n, g)
           last(k) == CHOOSE s \in after[k] : TRUE
           turn == [k \in 0 .. n |-> last(k)]
<1>4. after = Body(n, after)
  <2> HIDE DEF Body
  <2> QED
    BY <1>3
<1>5. turn[n] = Turns(start, n)
  <2>1. Turns(start, n) = last(n)
    BY DEF Turns
  <2> HIDE DEF last
  <2>2. turn[n] = last(n)
    OBVIOUS
  <2> QED
    BY <2>1, <2>2
<1> HIDE DEF after
<1>6. after[0] = {start} /\ \A k \in 1 .. n : after[k] = {Step(s) : s \in after[k - 1]}
  BY <1>4
<1> HIDE DEF Body
<1> DEFINE One == {k \in 0 .. n : \E s : after[k] = {s}}
<1>7. ASSUME NEW k \in One PROVE after[k] = {turn[k]} /\ k \in 0 .. n
  OBVIOUS
<1>8. 0 \in One
  <2>1. 0 \in 0 .. n /\ \E s : after[0] = {s}
    BY <1>6
  <2> QED
    BY <2>1
<1>9. ASSUME NEW k \in 1 .. n, k - 1 \in One PROVE k \in One /\ turn[k] = Step(turn[k - 1])
  <2>1. after[k] = {Step(s) : s \in after[k - 1]} /\ after[k - 1] = {turn[k - 1]}
    BY <1>6, <1>7, <1>9
  <2> HIDE DEF turn
  <2>2. after[k] = {Step(turn[k - 1])}
    BY <2>1
  <2>3. k \in One
    <3>1. k \in 0 .. n /\ \E s : after[k] = {s}
      BY <2>2
    <3> QED
      BY <3>1
  <2>4. after[k] = {turn[k]}
    BY <1>7, <2>3
  <2> QED
    BY <2>2, <2>3, <2>4
<1>10. \A m \in 0 .. n : m \in One
  <2> SUFFICES ASSUME NEW m \in 0 .. n PROVE m \in One
    OBVIOUS
  <2>1. m \in Nat /\ 1 .. m \subseteq 1 .. n
    OBVIOUS
  <2>2. \A k \in 1 .. m : k - 1 \in One => k \in One
    BY <1>9, <2>1
  <2> HIDE DEF One
  <2> QED
    BY <1>8, <2>1, <2>2, UpTo
<1>11. turn[0] = start
  BY <1>6, <1>7, <1>8
<1>12. \A k \in 1 .. n : turn[k] = Step(turn[k - 1])
  <2>1. \A k \in 1 .. n : k - 1 \in 0 .. n
    OBVIOUS
  <2> HIDE DEF One, turn
  <2> QED
    BY <1>9, <1>10, <2>1
<1> QED
  BY <1>5, <1>11, <1>12
=============================================================================
