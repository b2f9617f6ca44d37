---------------------------- MODULE DataInduction ----------------------------
(***************************************************************************)
(* Induction over data in a form the proofs of this project can cite: on   *)
(* sets of numbers rather than on predicates, and with the step of a       *)
(* recursive function given as a function; and what follows by it of texts *)
(* put together from parts, replaced element by element, or cut.           *)
(***************************************************************************)
EXTENDS Integers, SequencesExt, SequenceTheorems, WellFoundedInduction, TLAPS

(* Every set of natural numbers that has an element has a least one.       *)
LEMMA LeastNatural ==
  ASSUME NEW T \in SUBSET Nat, T # {}
  PROVE  \E m \in T : \A k \in T : m <= k
<1> DEFINE R == {ss \in Nat \X Nat : ss[1] < ss[2]}
<1>1. IsWellFoundedOn(R, Nat)
  BY NatLessThanWellFounded DEF OpToRel
<1> HIDE DEF R
<1>2. PICK m \in T : \A k \in T : <<k, m>> \notin R
  BY <1>1, WFMin
<1>3. ASSUME NEW k \in T PROVE m <= k
  <2>1. ~ (k < m) /\ k \in Nat /\ m \in Nat
    BY <1>2 DEF R
  <2>2. QED BY <2>1
<1>4. QED BY <1>3

(* What CHOOSE takes for the least element of a set is the least element.  *)
LEMMA LeastChosen ==
  ASSUME NEW T \in SUBSET Nat, T # {}
  PROVE  LET m == CHOOSE i \in T : \A j \in T : i <= j
         IN  m \in T /\ \A j \in T : m <= j
BY LeastNatural

(* Every set of numbers up to a bound that has an element has a greatest.  *)
LEMMA GreatestNatural ==
  ASSUME NEW n \in Nat, NEW T \in SUBSET (0 .. n), T # {}
  PROVE  \E m \in T : \A k \in T : k <= m
<1> DEFINE U == {n - k : k \in T}
<1>1. U \in SUBSET Nat /\ U # {}
  <2>1. \A k \in T : n - k \in Nat
    OBVIOUS
  <2>2. PICK k \in T : TRUE
    OBVIOUS
  <2>3. n - k \in U
    OBVIOUS
  <2>4. QED BY <2>1, <2>3
<1> HIDE DEF U
<1>2. PICK u \in U : \A v \in U : u <= v
  BY <1>1, LeastNatural
<1>3. PICK m \in T : u = n - m
  BY <1>2 DEF U
<1>4. ASSUME NEW k \in T PROVE k <= m
  <2>1. n - m <= n - k
    BY <1>2, <1>3 DEF U
  <2>2. n \in Int /\ m \in Int /\ k \in Int
    OBVIOUS
  <2>3. QED BY <2>1, <2>2
<1>5. QED BY <1>4

(* A set that holds 0 and, below n, the successor of each of its elements  *)
(* holds every number up to n.                                             *)
LEMMA Ascent ==
  ASSUME NEW n \in Nat, NEW T, 0 \in T,
         \A i \in 0 .. n - 1 : i \in T => i + 1 \in T
  PROVE  0 .. n \subseteq T
<1> DEFINE U == {i \in 0 .. n : i \notin T}
<1> SUFFICES ASSUME U # {} PROVE FALSE
  OBVIOUS
<1>1. U \in SUBSET Nat
  OBVIOUS
<1>2. PICK m \in U : \A k \in U : m <= k
  BY <1>1, LeastNatural
<1>3. m \in 1 .. n /\ m \notin T
  BY <1>2
<1>4. m - 1 \in 0 .. n - 1 /\ m - 1 \notin U /\ (m - 1) + 1 = m
  BY <1>2, <1>3
<1>5. m - 1 \in T
  BY <1>4
<1>6. QED BY <1>3, <1>4, <1>5

(* A recursion over 0 .. n in a set S: where it starts, and what its value *)
(* at i is in terms of i and its value at i - 1.                           *)
Recursion(n, S, base, step) == n \in Nat /\ base \in S /\ step \in [1 .. n -> [S -> S]]

Solves(f, n, S, base, step) ==
  f \in [0 .. n -> S] /\ f[0] = base /\ \A i \in 1 .. n : f[i] = step[i][f[i - 1]]

(* Every such recursion has a solution.                                    *)
LEMMA RecursionExists ==
  ASSUME NEW n, NEW S, NEW base, NEW step, Recursion(n, S, base, step)
  PROVE  \E f : Solves(f, n, S, base, step)
<1> USE DEF Recursion
<1> DEFINE Upto(m) == \E f \in [0 .. m -> S] : f[0] = base /\ \A i \in 1 .. m : f[i] = step[i][f[i - 1]]
           T == {m \in 0 .. n : Upto(m)}
<1>1. 0 \in T
  <2>1. [i \in 0 .. 0 |-> base] \in [0 .. 0 -> S] /\ [i \in 0 .. 0 |-> base][0] = base
    OBVIOUS
  <2>2. \A i \in 1 .. 0 : FALSE
    OBVIOUS
  <2>3. Upto(0)
    BY <2>1, <2>2
  <2> HIDE DEF Upto
  <2>4. QED BY <2>3
<1>2. ASSUME NEW m \in 0 .. n - 1, m \in T PROVE m + 1 \in T
  <2>1. PICK f \in [0 .. m -> S] : f[0] = base /\ \A i \in 1 .. m : f[i] = step[i][f[i - 1]]
    BY <1>2
  <2> DEFINE g == [i \in 0 .. m + 1 |-> IF i = m + 1 THEN step[m + 1][f[m]] ELSE f[i]]
  <2>2. m \in Nat /\ m + 1 \in 1 .. n /\ f[m] \in S
    OBVIOUS
  <2>3. step[m + 1][f[m]] \in S
    BY <2>2
  <2>4. g \in [0 .. m + 1 -> S]
    BY <2>3
  <2>5. g[0] = base
    BY <2>1, <2>2
  <2>6. ASSUME NEW i \in 1 .. m + 1 PROVE g[i] = step[i][g[i - 1]]
    <3>1. i - 1 \in 0 .. m /\ g[i - 1] = f[i - 1]
      BY <2>2
    <3>2. CASE i = m + 1
      BY <3>1, <3>2, <2>2
    <3>3. CASE i # m + 1
      <4>1. i \in 1 .. m /\ g[i] = f[i]
        BY <3>3, <2>2
      <4>2. QED BY <2>1, <3>1, <4>1
    <3>4. QED BY <3>2, <3>3
  <2>7. Upto(m + 1)
    <3> HIDE DEF g
    <3>1. QED BY <2>4, <2>5, <2>6
  <2> HIDE DEF Upto
  <2>8. QED BY <2>7, <2>2
<1> HIDE DEF T
<1>3. n \in T
  <2>1. 0 .. n \subseteq T
    BY <1>1, <1>2, Ascent
  <2>2. QED BY <2>1
<1>4. QED BY <1>3 DEF T, Solves

-----------------------------------------------------------------------------
(***************************************************************************)
(* Texts put together from parts.                                          *)
(***************************************************************************)
(* g holds what the first parts come to. *)
Grows(g, parts, S) ==
  /\ g \in [0 .. Len(parts) -> Seq(S)] /\ g[0] = <<>>
  /\ \A i \in 1 .. Len(parts) : g[i] = g[i - 1] \o parts[i]

(* There is such a growth, for any parts.                                  *)
LEMMA GrowthExists ==
  ASSUME NEW S, NEW parts \in Seq(Seq(S))
  PROVE  \E g : Grows(g, parts, S)
<1> DEFINE n    == Len(parts)
           step == [i \in 1 .. n |-> [text \in Seq(S) |-> text \o parts[i]]]
<1>1. n \in Nat /\ \A i \in 1 .. n : parts[i] \in Seq(S)
  OBVIOUS
<1>2. Recursion(n, Seq(S), <<>>, step)
  <2>1. step \in [1 .. n -> [Seq(S) -> Seq(S)]]
    BY <1>1
  <2> HIDE DEF step, n
  <2>2. QED BY <1>1, <2>1 DEF Recursion
<1>3. PICK g : Solves(g, n, Seq(S), <<>>, step)
  <2> HIDE DEF n, step
  <2>1. QED BY <1>2, RecursionExists
<1>4. /\ g \in [0 .. n -> Seq(S)] /\ g[0] = <<>> /\ \A i \in 1 .. n : g[i] = step[i][g[i - 1]]
  <2> HIDE DEF n, step
  <2>1. QED BY <1>3 DEF Solves
<1>5. ASSUME NEW i \in 1 .. n PROVE step[i][g[i - 1]] = g[i - 1] \o parts[i]
  <2>1. i - 1 \in 0 .. n
    BY <1>1
  <2>2. g[i - 1] \in Seq(S)
    <3> HIDE DEF n, step
    <3>1. QED BY <1>4, <2>1
  <2>3. QED BY <2>2
<1> HIDE DEF step
<1>6. QED BY <1>4, <1>5 DEF Grows

(* FlattenSeq is the last of them. *)
LEMMA FlattenGrows ==
  ASSUME NEW S, NEW parts \in Seq(Seq(S)), NEW g, Grows(g, parts, S)
  PROVE  FlattenSeq(parts) = g[Len(parts)] /\ FlattenSeq(parts) \in Seq(S)
<1> DEFINE n    == Len(parts)
           R(f) == f = [i \in 1 .. n |-> IF i = 1 THEN parts[i] ELSE f[i - 1] \o parts[i]]
<1>1. n \in Nat /\ \A i \in 1 .. n : parts[i] \in Seq(S)
  OBVIOUS
<1>2. g \in [0 .. n -> Seq(S)] /\ g[0] = <<>> /\ \A i \in 1 .. n : g[i] = g[i - 1] \o parts[i]
  BY DEF Grows
<1>3. g[n] \in Seq(S)
  <2> HIDE DEF n
  <2>1. QED BY <1>1, <1>2
<1>4. CASE n = 0
  <2>1. parts = <<>>
    BY <1>4
  <2>2. FlattenSeq(parts) = <<>>
    BY <1>4, <2>1 DEF FlattenSeq
  <2>3. QED BY <1>2, <1>3, <1>4, <2>2
<1>5. CASE n # 0
  <2> DEFINE h == [i \in 1 .. n |-> g[i]]
  <2>1. g[1] = parts[1]
    <3>1. 1 \in 1 .. n /\ 1 - 1 = 0
      BY <1>1, <1>5
    <3>2. g[1] = g[0] \o parts[1] /\ parts[1] \in Seq(S)
      <4> HIDE DEF n
      <4>1. QED BY <1>1, <1>2, <3>1
    <3>3. QED BY <1>2, <3>2
  <2>2. ASSUME NEW i \in 1 .. n PROVE h[i] = IF i = 1 THEN parts[i] ELSE h[i - 1] \o parts[i]
    <3>1. CASE i = 1
      BY <2>1, <3>1
    <3>2. CASE i # 1
      <4>1. i - 1 \in 1 .. n
        BY <1>1, <3>2
      <4>2. g[i] = g[i - 1] \o parts[i]
        <5> HIDE DEF n
        <5>1. QED BY <1>2
      <4>3. QED BY <3>2, <4>1, <4>2
    <3>3. QED BY <3>1, <3>2
  <2>3. R(h)
    <3>1. h = [i \in 1 .. n |-> h[i]]
      OBVIOUS
    <3> HIDE DEF h, n
    <3>2. QED BY <2>2, <3>1
  <2>4. PICK f : f = CHOOSE x : R(x)
    OBVIOUS
  <2>5. FlattenSeq(parts) = f[n]
    BY <1>5, <2>4 DEF FlattenSeq
  <2>6. R(f)
    <3> HIDE DEF R
    <3>1. QED BY <2>3, <2>4
  <2>7. \A i \in 1 .. n : f[i] = IF i = 1 THEN parts[i] ELSE f[i - 1] \o parts[i]
    <3> HIDE DEF n
    <3>1. QED BY <2>6
  <2> DEFINE T == {i \in 0 .. n : i = 0 \/ f[i] = g[i]}
  <2>8. 0 \in T
    BY <1>1
  <2>9. ASSUME NEW i \in 0 .. n - 1, i \in T PROVE i + 1 \in T
    <3>1. i + 1 \in 1 .. n /\ (i + 1) - 1 = i /\ (i # 0 => i + 1 # 1) /\ (i = 0 => i + 1 = 1)
      BY <1>1
    <3>2. f[i + 1] = g[i + 1]
      <4> HIDE DEF n
      <4>1. f[i + 1] = IF i + 1 = 1 THEN parts[i + 1] ELSE f[i] \o parts[i + 1]
        BY <2>7, <3>1
      <4>2. g[i + 1] = g[i] \o parts[i + 1]
        BY <1>2, <3>1
      <4>3. i # 0 => f[i] = g[i]
        BY <2>9
      <4>4. QED BY <2>1, <3>1, <4>1, <4>2, <4>3
    <3>3. QED BY <3>1, <3>2
  <2> HIDE DEF T
  <2>10. n \in T
    <3>1. 0 .. n \subseteq T
      <4> HIDE DEF n
      <4>1. QED BY <1>1, <2>8, <2>9, Ascent
    <3>2. QED BY <1>1, <3>1
  <2>11. QED BY <1>3, <1>5, <2>5, <2>10 DEF T
<1>6. QED BY <1>4, <1>5

(* Flattening texts gives a text.                                          *)
LEMMA FlattenTyped ==
  ASSUME NEW S, NEW parts \in Seq(Seq(S))
  PROVE  FlattenSeq(parts) \in Seq(S)
<1>1. PICK g : Grows(g, parts, S)
  BY GrowthExists
<1>2. QED BY <1>1, FlattenGrows

(* The first parts of parts grow the same way. *)
LEMMA FirstGrow ==
  ASSUME NEW S, NEW parts \in Seq(Seq(S)), NEW g, Grows(g, parts, S), NEW first \in Seq(Seq(S)),
         Len(first) <= Len(parts), \A i \in 1 .. Len(first) : first[i] = parts[i]
  PROVE  FlattenSeq(first) = g[Len(first)]
<1>1. PICK n, m : n = Len(parts) /\ m = Len(first)
  OBVIOUS
<1>2. n \in Nat /\ m \in Nat /\ m <= n
  BY <1>1
<1>3. g \in [0 .. n -> Seq(S)] /\ g[0] = <<>> /\ \A i \in 1 .. n : g[i] = g[i - 1] \o parts[i]
  BY <1>1 DEF Grows
<1> DEFINE h == [i \in 0 .. m |-> g[i]]
<1>4. h \in [0 .. m -> Seq(S)] /\ h[0] = <<>> /\ h[m] = g[m]
  BY <1>2, <1>3
<1>5. ASSUME NEW i \in 1 .. m PROVE h[i] = h[i - 1] \o first[i]
  <2>1. i \in 1 .. n /\ i \in 0 .. m /\ i - 1 \in 0 .. m /\ first[i] = parts[i]
    BY <1>1, <1>2
  <2>2. QED BY <1>3, <2>1
<1> HIDE DEF h
<1>6. Grows(h, first, S)
  BY <1>1, <1>4, <1>5 DEF Grows
<1>7. FlattenSeq(first) = h[Len(first)]
  BY <1>6, FlattenGrows
<1>8. QED BY <1>1, <1>4, <1>7

(* Flattening goes through concatenation.                                  *)
LEMMA FlattenConcat ==
  ASSUME NEW S, NEW a \in Seq(Seq(S)), NEW b \in Seq(Seq(S))
  PROVE  FlattenSeq(a \o b) = FlattenSeq(a) \o FlattenSeq(b)
<1>1. PICK c, n, m : c = a \o b /\ n = Len(a) /\ m = Len(b)
  OBVIOUS
<1>2. /\ c \in Seq(Seq(S)) /\ Len(c) = n + m /\ n \in Nat /\ m \in Nat
      /\ \A i \in 1 .. n + m : c[i] = IF i <= n THEN a[i] ELSE b[i - n]
  BY <1>1, ConcatProperties
<1>3. PICK g : Grows(g, c, S)
  BY <1>2, GrowthExists
<1>4. PICK h : Grows(h, b, S)
  BY GrowthExists
<1>5. g \in [0 .. n + m -> Seq(S)] /\ \A i \in 1 .. n + m : g[i] = g[i - 1] \o c[i]
  BY <1>2, <1>3 DEF Grows
<1>6. h \in [0 .. m -> Seq(S)] /\ h[0] = <<>> /\ \A i \in 1 .. m : h[i] = h[i - 1] \o b[i]
  BY <1>1, <1>4 DEF Grows
<1>7. FlattenSeq(a) = g[n]
  <2>1. ASSUME NEW i \in 1 .. n PROVE a[i] = c[i]
    <3>1. i \in 1 .. n + m /\ i <= n
      BY <1>2
    <3>2. QED BY <1>2, <3>1
  <2>2. Len(a) <= Len(c) /\ \A i \in 1 .. Len(a) : a[i] = c[i]
    <3>1. n <= n + m
      BY <1>2
    <3>2. QED BY <1>1, <1>2, <2>1, <3>1
  <2>3. FlattenSeq(a) = g[Len(a)]
    BY <1>2, <1>3, <2>2, FirstGrow
  <2>4. QED BY <1>1, <2>3
<1>8. g[n] \in Seq(S)
  BY <1>2, <1>5
<1> DEFINE T == {k \in 0 .. m : g[n + k] = g[n] \o h[k]}
<1>9. 0 \in T
  BY <1>2, <1>6, <1>8
<1>10. ASSUME NEW k \in 0 .. m - 1, k \in T PROVE k + 1 \in T
  <2>1. n + (k + 1) \in 1 .. n + m /\ k + 1 \in 1 .. m /\ k \in 0 .. m
    BY <1>2
  <2>2. ~ (n + (k + 1) <= n) /\ (n + (k + 1)) - n = k + 1 /\ (n + (k + 1)) - 1 = n + k /\ (k + 1) - 1 = k
    BY <1>2
  <2>3. c[n + (k + 1)] = b[k + 1]
    BY <1>2, <2>1, <2>2
  <2>4. g[n + (k + 1)] = g[n + k] \o b[k + 1]
    BY <1>5, <2>1, <2>2, <2>3
  <2>5. h[k + 1] = h[k] \o b[k + 1]
    BY <1>6, <2>1, <2>2
  <2>6. g[n + k] = g[n] \o h[k]
    BY <1>10
  <2>7. b[k + 1] \in Seq(S) /\ h[k] \in Seq(S)
    <3>1. \A i \in 1 .. m : b[i] \in Seq(S)
      BY <1>1
    <3>2. QED BY <1>6, <2>1, <3>1
  <2>8. PICK x, y, z : x = g[n] /\ y = h[k] /\ z = b[k + 1]
    OBVIOUS
  <2>9. x \in Seq(S) /\ y \in Seq(S) /\ z \in Seq(S)
    BY <1>8, <2>7, <2>8
  <2>10. (x \o y) \o z = x \o (y \o z)
    BY <2>9, ConcatAssociative
  <2>11. g[n + (k + 1)] = (x \o y) \o z /\ h[k + 1] = y \o z
    BY <2>4, <2>5, <2>6, <2>8
  <2>12. g[n + (k + 1)] = g[n] \o h[k + 1] /\ k + 1 \in 0 .. m
    BY <2>1, <2>8, <2>10, <2>11
  <2>13. QED BY <2>12
<1>11. m \in T
  <2> HIDE DEF T
  <2>1. 0 .. m \subseteq T
    BY <1>2, <1>9, <1>10, Ascent
  <2>2. QED BY <1>2, <2>1
<1>12. FlattenSeq(c) = g[n + m]
  BY <1>2, <1>3, FlattenGrows
<1>13. FlattenSeq(b) = h[m]
  BY <1>1, <1>4, FlattenGrows
<1>14. QED BY <1>1, <1>7, <1>11, <1>12, <1>13

(* ... and through a single part.                                          *)
LEMMA FlattenOne ==
  ASSUME NEW S, NEW t \in Seq(S)
  PROVE  FlattenSeq(<<t>>) = t
<1> DEFINE g == [i \in 0 .. 1 |-> IF i = 0 THEN <<>> ELSE t]
<1>1. g \in [0 .. 1 -> Seq(S)] /\ g[0] = <<>> /\ g[1] = t
  OBVIOUS
<1>2. <<t>> \in Seq(Seq(S)) /\ Len(<<t>>) = 1 /\ <<t>>[1] = t /\ <<>> \o t = t
  OBVIOUS
<1> HIDE DEF g
<1>3. Grows(g, <<t>>, S)
  BY <1>1, <1>2 DEF Grows
<1>4. QED BY <1>1, <1>2, <1>3, FlattenGrows

(* Where the parts lie: part k behind the first k - 1, and nothing else.   *)
InPlace(g, parts, m) ==
  /\ \A k \in 1 .. m : \A q \in 1 .. Len(parts[k]) :
       Len(g[k - 1]) + q \in 1 .. Len(g[m]) /\ g[m][Len(g[k - 1]) + q] = parts[k][q]
  /\ \A p \in 1 .. Len(g[m]) : \E k \in 1 .. m : \E q \in 1 .. Len(parts[k]) : p = Len(g[k - 1]) + q

(* One part more keeps the parts before it in place.                       *)
LEMMA PlacedStep ==
  ASSUME NEW S, NEW parts \in Seq(Seq(S)), NEW g, Grows(g, parts, S),
         NEW m \in 0 .. Len(parts) - 1, InPlace(g, parts, m)
  PROVE  InPlace(g, parts, m + 1)
<1>1. PICK n, x, y, z : n = Len(parts) /\ x = g[m] /\ y = parts[m + 1] /\ z = g[m + 1]
  OBVIOUS
<1>2. n \in Nat /\ m + 1 \in 1 .. n /\ m \in 0 .. n /\ m \in Nat /\ (m + 1) - 1 = m
  BY <1>1
<1>3. x \in Seq(S) /\ y \in Seq(S) /\ z = x \o y
  <2>1. g \in [0 .. n -> Seq(S)] /\ \A i \in 1 .. n : g[i] = g[i - 1] \o parts[i]
    BY <1>1 DEF Grows
  <2>2. z = x \o y
    BY <1>1, <1>2, <2>1
  <2>3. x \in Seq(S)
    BY <1>1, <1>2, <2>1
  <2>4. \A i \in 1 .. n : parts[i] \in Seq(S)
    BY <1>1
  <2>5. y \in Seq(S)
    BY <1>1, <1>2, <2>4
  <2>6. QED BY <2>2, <2>3, <2>5
<1>4. PICK a, b : a = Len(x) /\ b = Len(y)
  OBVIOUS
<1>5. /\ a \in Nat /\ b \in Nat /\ Len(z) = a + b
      /\ \A i \in 1 .. a + b : z[i] = IF i <= a THEN x[i] ELSE y[i - a]
  BY <1>3, <1>4, ConcatProperties
<1>6. ASSUME NEW k \in 1 .. m + 1, NEW q \in 1 .. Len(parts[k])
      PROVE  Len(g[k - 1]) + q \in 1 .. Len(z) /\ z[Len(g[k - 1]) + q] = parts[k][q]
  <2>1. CASE k = m + 1
    <3>1. Len(g[k - 1]) = a /\ parts[k] = y /\ q \in 1 .. b
      BY <1>1, <1>2, <1>4, <2>1
    <3>2. a + q \in 1 .. a + b /\ ~ (a + q <= a) /\ (a + q) - a = q
      BY <1>5, <3>1
    <3>3. z[a + q] = y[q]
      BY <1>5, <3>2
    <3>4. QED BY <1>5, <3>1, <3>2, <3>3
  <2>2. CASE k # m + 1
    <3>1. k \in 1 .. m
      BY <1>2, <2>2
    <3>2. PICK p : p = Len(g[k - 1]) + q
      OBVIOUS
    <3>3. p \in 1 .. a /\ x[p] = parts[k][q]
      BY <1>1, <1>4, <3>1, <3>2 DEF InPlace
    <3>4. p \in 1 .. a + b /\ p <= a
      BY <1>5, <3>3
    <3>5. z[p] = x[p]
      BY <1>5, <3>4
    <3>6. QED BY <1>5, <3>2, <3>3, <3>4, <3>5
  <2>3. QED BY <2>1, <2>2
<1>7. ASSUME NEW p \in 1 .. Len(z)
      PROVE  \E k \in 1 .. m + 1 : \E q \in 1 .. Len(parts[k]) : p = Len(g[k - 1]) + q
  <2>1. CASE p <= a
    <3>1. p \in 1 .. a
      BY <1>5, <2>1
    <3>2. PICK k \in 1 .. m : \E q \in 1 .. Len(parts[k]) : p = Len(g[k - 1]) + q
      BY <1>1, <1>4, <3>1 DEF InPlace
    <3>3. k \in 1 .. m + 1
      BY <1>2
    <3>4. QED BY <3>2, <3>3
  <2>2. CASE ~ (p <= a)
    <3>1. PICK q : q = p - a
      OBVIOUS
    <3>2. q \in 1 .. b /\ p = a + q
      BY <1>5, <2>2, <3>1
    <3>3. Len(g[(m + 1) - 1]) = a /\ Len(parts[m + 1]) = b
      BY <1>1, <1>2, <1>4
    <3>4. m + 1 \in 1 .. m + 1
      BY <1>2
    <3>5. QED BY <3>2, <3>3, <3>4
  <2>3. QED BY <2>1, <2>2
<1>8. QED BY <1>1, <1>6, <1>7 DEF InPlace

(* So every part lies in the flattened text, and nothing else does.        *)
LEMMA GrowthPlaced ==
  ASSUME NEW S, NEW parts \in Seq(Seq(S)), NEW g, Grows(g, parts, S)
  PROVE  InPlace(g, parts, Len(parts))
<1>1. PICK n : n = Len(parts)
  OBVIOUS
<1>2. n \in Nat
  BY <1>1
<1> DEFINE T == {m \in 0 .. n : InPlace(g, parts, m)}
<1>3. 0 \in T
  <2>1. Len(g[0]) = 0
    BY DEF Grows
  <2>2. (\A k \in 1 .. 0 : FALSE) /\ \A p \in 1 .. Len(g[0]) : FALSE
    BY <2>1
  <2>3. InPlace(g, parts, 0)
    BY <2>2 DEF InPlace
  <2>4. QED BY <1>2, <2>3
<1>4. ASSUME NEW m \in 0 .. n - 1, m \in T PROVE m + 1 \in T
  <2>1. InPlace(g, parts, m + 1)
    BY <1>1, <1>4, PlacedStep
  <2>2. m + 1 \in 0 .. n
    BY <1>2
  <2>3. QED BY <2>1, <2>2
<1>5. n \in T
  <2> HIDE DEF T
  <2>1. 0 .. n \subseteq T
    BY <1>2, <1>3, <1>4, Ascent
  <2>2. QED BY <1>2, <2>1
<1>6. QED BY <1>1, <1>5

(* Each element of r replaced by what g makes of it. *)
Rewrites(g, S) == g \in [S -> Seq(S)]
Replacements(g, r) == [k \in 1 .. Len(r) |-> g[r[k]]]
Spread(g, r)   == FlattenSeq(Replacements(g, r))

(* The replaced elements are texts, one for each element.                  *)
LEMMA ReplacedTyped ==
  ASSUME NEW S, NEW g, Rewrites(g, S), NEW r \in Seq(S)
  PROVE  /\ Replacements(g, r) \in Seq(Seq(S)) /\ Len(Replacements(g, r)) = Len(r) /\ Len(r) \in Nat
         /\ \A k \in 1 .. Len(r) : r[k] \in S /\ Replacements(g, r)[k] = g[r[k]]
<1>1. \A k \in 1 .. Len(r) : r[k] \in S /\ g[r[k]] \in Seq(S)
  BY DEF Rewrites
<1>2. Replacements(g, r) \in [1 .. Len(r) -> Seq(S)] /\ Len(r) \in Nat
  BY <1>1 DEF Replacements
<1>3. QED BY <1>1, <1>2 DEF Replacements

(* Spreading a text gives a text.                                          *)
LEMMA SpreadTyped ==
  ASSUME NEW S, NEW g, Rewrites(g, S), NEW r \in Seq(S)
  PROVE  Spread(g, r) \in Seq(S)
BY ReplacedTyped, FlattenTyped DEF Spread

(* Text c is a with b behind it, without a case. *)
Joins(c, a, b) ==
  /\ Len(c) = Len(a) + Len(b)
  /\ \A i \in 1 .. Len(a) : c[i] = a[i]
  /\ \A i \in 1 .. Len(b) : c[Len(a) + i] = b[i]

(* A concatenation is one text with the other behind it.                   *)
LEMMA Joined ==
  ASSUME NEW S, NEW a \in Seq(S), NEW b \in Seq(S)
  PROVE  a \o b \in Seq(S) /\ Joins(a \o b, a, b)
<1>1. PICK c, n, m : c = a \o b /\ n = Len(a) /\ m = Len(b)
  OBVIOUS
<1>2. /\ c \in Seq(S) /\ n \in Nat /\ m \in Nat /\ Len(c) = n + m
      /\ \A i \in 1 .. n + m : c[i] = IF i <= n THEN a[i] ELSE b[i - n]
  BY <1>1, ConcatProperties
<1>3. ASSUME NEW i \in 1 .. n PROVE c[i] = a[i]
  <2>1. i \in 1 .. n + m /\ i <= n
    BY <1>2
  <2>2. QED BY <1>2, <2>1
<1>4. ASSUME NEW i \in 1 .. m PROVE c[n + i] = b[i]
  <2>1. n + i \in 1 .. n + m /\ ~ (n + i <= n) /\ (n + i) - n = i
    BY <1>2
  <2>2. QED BY <1>2, <2>1
<1>5. QED BY <1>1, <1>2, <1>3, <1>4 DEF Joins

(* Nothing else is a concatenation. *)
LEMMA JoinedEqual ==
  ASSUME NEW S, NEW a \in Seq(S), NEW b \in Seq(S), NEW c \in Seq(S), Joins(c, a, b)
  PROVE  c = a \o b
<1>1. PICK d, n, m : d = a \o b /\ n = Len(a) /\ m = Len(b)
  OBVIOUS
<1>2. /\ d \in Seq(S) /\ Len(d) = n + m /\ n \in Nat /\ m \in Nat
      /\ \A i \in 1 .. n : d[i] = a[i]
      /\ \A i \in 1 .. m : d[n + i] = b[i]
  BY <1>1, Joined DEF Joins
<1>3. ASSUME NEW i \in 1 .. n + m PROVE c[i] = d[i]
  <2>1. CASE i <= n
    <3>1. i \in 1 .. n
      BY <1>2, <2>1
    <3>2. QED BY <1>1, <1>2, <3>1 DEF Joins
  <2>2. CASE ~ (i <= n)
    <3>1. PICK k : k = i - n
      OBVIOUS
    <3>2. k \in 1 .. m /\ n + k = i
      BY <1>2, <2>2, <3>1
    <3>3. c[n + k] = b[k] /\ d[n + k] = b[k]
      BY <1>1, <1>2, <3>2 DEF Joins
    <3>4. QED BY <3>2, <3>3
  <2>3. QED BY <2>1, <2>2
<1>4. c \in Seq(S) /\ Len(c) = Len(d)
  BY <1>1, <1>2 DEF Joins
<1>5. c = d
  BY <1>2, <1>3, <1>4, SeqEqual
<1>6. QED BY <1>1, <1>5

(* Replacing a concatenation replaces its parts. *)
Distributes(g, S) == \A a, b \in Seq(S) : Spread(g, a \o b) = Spread(g, a) \o Spread(g, b)

(* Spreading goes through concatenation.                                   *)
LEMMA SpreadConcat ==
  ASSUME NEW S, NEW g, Rewrites(g, S)
  PROVE  Distributes(g, S)
<1> SUFFICES ASSUME NEW a \in Seq(S), NEW b \in Seq(S)
             PROVE  Spread(g, a \o b) = Spread(g, a) \o Spread(g, b)
  BY DEF Distributes
<1>1. PICK Q, c, n, m : Q = Seq(S) /\ c = a \o b /\ n = Len(a) /\ m = Len(b)
  OBVIOUS
<1>2. /\ c \in Seq(S) /\ n \in Nat /\ m \in Nat /\ Len(c) = n + m
      /\ \A i \in 1 .. n : c[i] = a[i]
      /\ \A i \in 1 .. m : c[n + i] = b[i]
  BY <1>1, Joined DEF Joins
<1>3. PICK u, v, w : u = Replacements(g, a) /\ v = Replacements(g, b) /\ w = Replacements(g, c)
  OBVIOUS
<1>4. u \in Seq(Q) /\ Len(u) = n /\ \A k \in 1 .. n : u[k] = g[a[k]]
  BY <1>1, <1>3, ReplacedTyped
<1>5. v \in Seq(Q) /\ Len(v) = m /\ \A k \in 1 .. m : v[k] = g[b[k]]
  BY <1>1, <1>3, ReplacedTyped
<1>6. w \in Seq(Q) /\ Len(w) = Len(c) /\ \A k \in 1 .. Len(c) : w[k] = g[c[k]]
  <2>1. c \in Seq(S)
    BY <1>2
  <2>2. \A t \in Seq(S) : Replacements(g, t) \in Seq(Seq(S)) /\ Len(Replacements(g, t)) = Len(t) /\ \A k \in 1 .. Len(t) : Replacements(g, t)[k] = g[t[k]]
    BY ReplacedTyped
  <2>3. QED BY <1>1, <1>3, <2>1, <2>2
<1>7. w = u \o v
  <2>1. ASSUME NEW i \in 1 .. Len(u) PROVE w[i] = u[i]
    <3>1. i \in 1 .. n /\ i \in 1 .. Len(c)
      BY <1>2, <1>4
    <3>2. QED BY <1>2, <1>4, <1>6, <3>1
  <2>2. ASSUME NEW i \in 1 .. Len(v) PROVE w[Len(u) + i] = v[i]
    <3>1. i \in 1 .. m /\ n + i \in 1 .. Len(c)
      BY <1>2, <1>5
    <3>2. w[n + i] = g[b[i]] /\ v[i] = g[b[i]]
      BY <1>2, <1>5, <1>6, <3>1
    <3>3. QED BY <1>4, <3>2
  <2>3. Len(w) = Len(u) + Len(v)
    BY <1>2, <1>4, <1>5, <1>6
  <2>4. Joins(w, u, v)
    BY <2>1, <2>2, <2>3 DEF Joins
  <2>5. QED BY <1>4, <1>5, <1>6, <2>4, JoinedEqual
<1>8. FlattenSeq(u \o v) = FlattenSeq(u) \o FlattenSeq(v)
  BY <1>1, <1>4, <1>5, FlattenConcat
<1>9. QED BY <1>1, <1>3, <1>7, <1>8 DEF Spread

(* Nothing spreads to nothing.                                             *)
LEMMA SpreadEmpty ==
  ASSUME NEW g
  PROVE  Spread(g, <<>>) = <<>>
<1>1. PICK u : u = Replacements(g, <<>>)
  OBVIOUS
<1>2. u = <<>>
  BY <1>1 DEF Replacements
<1>3. FlattenSeq(u) = <<>>
  BY <1>2 DEF FlattenSeq
<1>4. QED BY <1>1, <1>3 DEF Spread

(* Replacing twice is replacing by what the second makes of the first.     *)
Composes(h, f, g, S) == \A x \in S : h[x] = Spread(f, g[x])

(* Two replacements one after the other are one.                           *)
LEMMA SpreadTwice ==
  ASSUME NEW S, NEW f, Rewrites(f, S), NEW g, Rewrites(g, S), NEW h, Rewrites(h, S),
         NEW r \in Seq(S), Composes(h, f, g, S)
  PROVE  Spread(f, Spread(g, r)) = Spread(h, r)
<1>0. Distributes(f, S)
  BY SpreadConcat
<1>1. PICK n, u, v : n = Len(r) /\ u = Replacements(g, r) /\ v = Replacements(h, r)
  OBVIOUS
<1>2. /\ u \in Seq(Seq(S)) /\ Len(u) = n /\ n \in Nat /\ \A k \in 1 .. n : r[k] \in S /\ u[k] = g[r[k]]
      /\ v \in Seq(Seq(S)) /\ Len(v) = n /\ \A k \in 1 .. n : v[k] = h[r[k]]
  <2>1. /\ Replacements(g, r) \in Seq(Seq(S)) /\ Len(Replacements(g, r)) = Len(r) /\ Len(r) \in Nat
        /\ \A k \in 1 .. Len(r) : r[k] \in S /\ Replacements(g, r)[k] = g[r[k]]
    BY ReplacedTyped
  <2>2. /\ Replacements(h, r) \in Seq(Seq(S)) /\ Len(Replacements(h, r)) = Len(r)
        /\ \A k \in 1 .. Len(r) : Replacements(h, r)[k] = h[r[k]]
    BY ReplacedTyped
  <2>3. QED BY <1>1, <2>1, <2>2
<1>3. PICK x : Grows(x, u, S)
  BY <1>2, GrowthExists
<1>4. PICK y : Grows(y, v, S)
  BY <1>2, GrowthExists
<1>5. /\ x \in [0 .. n -> Seq(S)] /\ x[0] = <<>> /\ \A i \in 1 .. n : x[i] = x[i - 1] \o u[i]
      /\ y \in [0 .. n -> Seq(S)] /\ y[0] = <<>> /\ \A i \in 1 .. n : y[i] = y[i - 1] \o v[i]
  BY <1>2, <1>3, <1>4 DEF Grows
<1> DEFINE T == {i \in 0 .. n : Spread(f, x[i]) = y[i]}
<1>6. 0 \in T
  BY <1>2, <1>5, SpreadEmpty
<1>7. ASSUME NEW i \in 0 .. n - 1, i \in T PROVE i + 1 \in T
  <2>1. i + 1 \in 1 .. n /\ (i + 1) - 1 = i /\ i \in 0 .. n /\ i + 1 \in 0 .. n
    BY <1>2
  <2>2. x[i + 1] = x[i] \o g[r[i + 1]] /\ y[i + 1] = y[i] \o h[r[i + 1]] /\ r[i + 1] \in S
    <3>1. PICK j : j = i + 1
      OBVIOUS
    <3>2. j \in 1 .. n /\ j - 1 = i
      BY <2>1, <3>1
    <3>3. x[j] = x[j - 1] \o u[j] /\ y[j] = y[j - 1] \o v[j]
      BY <1>5, <3>2
    <3>4. u[j] = g[r[j]] /\ v[j] = h[r[j]] /\ r[j] \in S
      BY <1>2, <3>2
    <3>5. QED BY <3>1, <3>2, <3>3, <3>4
  <2>3. PICK a, b : a = x[i] /\ b = g[r[i + 1]]
    OBVIOUS
  <2>4. a \in Seq(S) /\ b \in Seq(S)
    BY <1>5, <2>1, <2>2, <2>3 DEF Rewrites
  <2>5. Spread(f, a \o b) = Spread(f, a) \o Spread(f, b)
    BY <1>0, <2>4 DEF Distributes
  <2>6. Spread(f, a) = y[i]
    BY <1>7, <2>3
  <2>7. Spread(f, b) = h[r[i + 1]]
    BY <2>2, <2>3 DEF Composes
  <2>8. Spread(f, x[i + 1]) = y[i + 1]
    BY <2>2, <2>3, <2>5, <2>6, <2>7
  <2>9. QED BY <2>1, <2>8
<1>8. n \in T
  <2> HIDE DEF T
  <2>1. 0 .. n \subseteq T
    BY <1>2, <1>6, <1>7, Ascent
  <2>2. QED BY <1>2, <2>1
<1>9. Spread(g, r) = x[n] /\ Spread(h, r) = y[n]
  BY <1>1, <1>2, <1>3, <1>4, FlattenGrows DEF Spread
<1>10. QED BY <1>8, <1>9

(* A single element spreads to its replacement.                            *)
LEMMA SpreadOne ==
  ASSUME NEW S, NEW g, Rewrites(g, S), NEW x \in S
  PROVE  Spread(g, <<x>>) = g[x] /\ g[x] \in Seq(S)
<1>1. PICK t : t = g[x]
  OBVIOUS
<1>2. t \in Seq(S)
  BY <1>1 DEF Rewrites
<1>3. Replacements(g, <<x>>) = <<t>>
  <2>1. Len(<<x>>) = 1 /\ <<x>>[1] = x
    OBVIOUS
  <2>2. Replacements(g, <<x>>) = [k \in 1 .. 1 |-> t]
    BY <1>1, <2>1 DEF Replacements
  <2>3. QED BY <2>2
<1>4. FlattenSeq(<<t>>) = t
  BY <1>2, FlattenOne
<1>5. QED BY <1>1, <1>2, <1>3, <1>4 DEF Spread

(* Two elements as a concatenation.                                        *)
LEMMA PairJoined ==
  ASSUME NEW S, NEW x \in S, NEW y \in S
  PROVE  <<x>> \in Seq(S) /\ <<y>> \in Seq(S) /\ <<x>> \o <<y>> = <<x, y>>
<1>1. PICK a, b, c : a = <<x>> /\ b = <<y>> /\ c = <<x, y>>
  OBVIOUS
<1>2. c \in Seq(S) /\ Len(c) = 2 /\ c[1] = x /\ c[2] = y
  BY <1>1
<1>3. a \in Seq(S) /\ Len(a) = 1 /\ a[1] = x /\ b \in Seq(S) /\ Len(b) = 1 /\ b[1] = y
  BY <1>1
<1>4. Joins(c, a, b)
  BY <1>2, <1>3 DEF Joins
<1>5. c = a \o b
  BY <1>2, <1>3, <1>4, JoinedEqual
<1>6. QED BY <1>1, <1>3, <1>5

(* Two elements spread to their replacements.                              *)
LEMMA SpreadPair ==
  ASSUME NEW S, NEW g, Rewrites(g, S), NEW x \in S, NEW y \in S
  PROVE  Spread(g, <<x, y>>) = g[x] \o g[y]
<1>1. PICK a, b : a = <<x>> /\ b = <<y>>
  OBVIOUS
<1>2. a \in Seq(S) /\ b \in Seq(S) /\ a \o b = <<x, y>>
  BY <1>1, PairJoined
<1>3. Distributes(g, S)
  BY SpreadConcat
<1>4. Spread(g, <<x>>) = g[x]
  BY SpreadOne
<1>5. Spread(g, <<y>>) = g[y]
  BY SpreadOne
<1>6. QED BY <1>1, <1>2, <1>3, <1>4, <1>5 DEF Distributes

(* A text is put together from its elements. *)
Singles(parts, t) == Len(parts) = Len(t) /\ \A i \in 1 .. Len(t) : parts[i] = <<t[i]>>

(* Flattening the single elements of a text gives the text.                *)
LEMMA SinglesFlatten ==
  ASSUME NEW S, NEW t \in Seq(S), NEW parts \in Seq(Seq(S)), Singles(parts, t)
  PROVE  FlattenSeq(parts) = t
<1>1. PICK n : n = Len(t)
  OBVIOUS
<1>2. n \in Nat /\ Len(parts) = n /\ \A i \in 1 .. n : t[i] \in S /\ parts[i] = <<t[i]>>
  BY <1>1 DEF Singles
<1> DEFINE G == [i \in 0 .. n |-> SubSeq(t, 1, i)]
<1>3. ASSUME NEW i \in 0 .. n
      PROVE  G[i] \in Seq(S) /\ Len(G[i]) = i /\ \A k \in 1 .. i : G[i][k] = t[k]
  <2>1. \A k \in 1 .. i : t[k] \in S
    BY <1>2
  <2>2. PICK u : u = SubSeq(t, 1, i)
    OBVIOUS
  <2>3. u \in Seq(S) /\ Len(u) = i /\ \A k \in 1 .. i : u[k] = t[k]
    BY <2>1, <2>2
  <2>4. QED BY <2>2, <2>3
<1>4. G \in [0 .. n -> Seq(S)]
  BY <1>3
<1> HIDE DEF G
<1>5. 0 \in 0 .. n /\ n \in 0 .. n
  BY <1>2
<1>6. G[0] = <<>>
  <2>1. G[0] \in Seq(S) /\ Len(G[0]) = 0
    BY <1>3, <1>5
  <2>2. QED BY <2>1
<1>7. G[n] = t
  <2>1. G[n] \in Seq(S) /\ Len(G[n]) = n /\ \A k \in 1 .. n : G[n][k] = t[k]
    BY <1>3, <1>5
  <2>2. QED BY <1>1, <2>1, SeqEqual
<1>8. ASSUME NEW i \in 1 .. n PROVE G[i] = G[i - 1] \o parts[i]
  <2>1. PICK a, b, c, x : a = G[i - 1] /\ b = <<x>> /\ c = G[i] /\ x = t[i]
    OBVIOUS
  <2>2. i \in 0 .. n /\ i - 1 \in 0 .. n
    BY <1>2
  <2>3. /\ a \in Seq(S) /\ Len(a) = i - 1 /\ \A k \in 1 .. i - 1 : a[k] = t[k]
        /\ c \in Seq(S) /\ Len(c) = i /\ \A k \in 1 .. i : c[k] = t[k]
    BY <1>3, <2>1, <2>2
  <2>4. x \in S /\ b \in Seq(S) /\ Len(b) = 1 /\ b[1] = x
    BY <1>2, <2>1
  <2>5. Joins(c, a, b)
    <3>1. Len(c) = Len(a) + Len(b)
      BY <2>3, <2>4
    <3>2. ASSUME NEW k \in 1 .. Len(a) PROVE c[k] = a[k]
      <4>1. k \in 1 .. i - 1 /\ k \in 1 .. i
        BY <2>3
      <4>2. QED BY <2>3, <4>1
    <3>3. ASSUME NEW k \in 1 .. Len(b) PROVE c[Len(a) + k] = b[k]
      <4>1. k = 1 /\ Len(a) + k = i /\ i \in 1 .. i
        BY <2>3, <2>4
      <4>2. c[i] = x
        BY <2>1, <2>3, <4>1
      <4>3. QED BY <2>4, <4>1, <4>2
    <3>4. QED BY <3>1, <3>2, <3>3 DEF Joins
  <2>6. c = a \o b
    BY <2>3, <2>4, <2>5, JoinedEqual
  <2>7. parts[i] = b
    BY <1>2, <2>1
  <2>8. QED BY <2>1, <2>6, <2>7
<1>9. Grows(G, parts, S)
  BY <1>2, <1>4, <1>6, <1>8 DEF Grows
<1>10. FlattenSeq(parts) = G[Len(parts)]
  BY <1>9, FlattenGrows
<1>11. QED BY <1>2, <1>7, <1>10

(* Where what g makes of each element of r lies in the text. *)
Places(at_, g, r) ==
  /\ \A k \in 1 .. Len(r) :
       /\ at_[k] = Len(FlattenSeq(SubSeq(Replacements(g, r), 1, k - 1)))
       /\ at_[k] \in Nat
       /\ \A q \in 1 .. Len(g[r[k]]) :
            at_[k] + q \in 1 .. Len(Spread(g, r)) /\ Spread(g, r)[at_[k] + q] = g[r[k]][q]
  /\ \A p \in 1 .. Len(Spread(g, r)) :
       \E k \in 1 .. Len(r) : \E q \in 1 .. Len(g[r[k]]) : p = at_[k] + q
  /\ \A k \in 1 .. Len(r) - 1 : at_[k + 1] = at_[k] + Len(g[r[k]])

(* Such places exist for any text.                                         *)
LEMMA SpreadPlaces ==
  ASSUME NEW S, NEW g, Rewrites(g, S), NEW r \in Seq(S)
  PROVE  \E at_ : Places(at_, g, r)
<1>1. PICK n, u : n = Len(r) /\ u = Replacements(g, r)
  OBVIOUS
<1>2. u \in Seq(Seq(S)) /\ Len(u) = n /\ n \in Nat /\ \A k \in 1 .. n : r[k] \in S /\ u[k] = g[r[k]]
  BY <1>1, ReplacedTyped
<1>3. PICK x : Grows(x, u, S)
  BY <1>2, GrowthExists
<1>4. x \in [0 .. n -> Seq(S)] /\ \A i \in 1 .. n : x[i] = x[i - 1] \o u[i]
  BY <1>2, <1>3 DEF Grows
<1>5. Spread(g, r) = x[n] /\ InPlace(x, u, n)
  BY <1>1, <1>2, <1>3, FlattenGrows, GrowthPlaced DEF Spread
<1> DEFINE a == [k \in 1 .. n |-> Len(x[k - 1])]
<1>6. ASSUME NEW k \in 1 .. n PROVE x[k - 1] = FlattenSeq(SubSeq(u, 1, k - 1)) /\ x[k - 1] \in Seq(S)
  <2>1. PICK v : v = SubSeq(u, 1, k - 1)
    OBVIOUS
  <2>2. k - 1 \in 0 .. n /\ \A i \in 1 .. k - 1 : i \in 1 .. n
    BY <1>2
  <2>3. PICK Q : Q = Seq(S)
    OBVIOUS
  <2>4. v \in Seq(Q) /\ Len(v) = k - 1 /\ \A i \in 1 .. k - 1 : v[i] = u[i]
    <3>1. u \in Seq(Q)
      BY <1>2, <2>3
    <3>2. QED BY <1>2, <2>1, <2>2, <3>1
  <2>5. v \in Seq(Seq(S)) /\ Len(v) <= Len(u) /\ \A i \in 1 .. Len(v) : v[i] = u[i]
    BY <1>2, <2>3, <2>4
  <2>6. FlattenSeq(v) = x[Len(v)]
    BY <1>2, <1>3, <2>5, FirstGrow
  <2>7. QED BY <1>4, <2>1, <2>2, <2>4, <2>6
<1>7. ASSUME NEW k \in 1 .. n
      PROVE  /\ a[k] = Len(FlattenSeq(SubSeq(u, 1, k - 1))) /\ a[k] \in Nat
             /\ \A q \in 1 .. Len(g[r[k]]) : a[k] + q \in 1 .. Len(x[n]) /\ x[n][a[k] + q] = g[r[k]][q]
  <2>1. u[k] = g[r[k]]
    BY <1>2
  <2>2. \A q \in 1 .. Len(u[k]) : Len(x[k - 1]) + q \in 1 .. Len(x[n]) /\ x[n][Len(x[k - 1]) + q] = u[k][q]
    BY <1>5 DEF InPlace
  <2>3. a[k] = Len(x[k - 1]) /\ Len(x[k - 1]) \in Nat
    BY <1>6
  <2> HIDE DEF a
  <2>4. QED BY <1>6, <2>1, <2>2, <2>3
<1>8. ASSUME NEW p \in 1 .. Len(x[n])
      PROVE  \E k \in 1 .. n : \E q \in 1 .. Len(g[r[k]]) : p = a[k] + q
  <2>1. PICK k \in 1 .. n : \E q \in 1 .. Len(u[k]) : p = Len(x[k - 1]) + q
    BY <1>5 DEF InPlace
  <2>2. a[k] = Len(x[k - 1]) /\ u[k] = g[r[k]]
    BY <1>2
  <2> HIDE DEF a
  <2>3. QED BY <2>1, <2>2
<1>9. ASSUME NEW k \in 1 .. n - 1 PROVE a[k + 1] = a[k] + Len(g[r[k]])
  <2>1. k \in 1 .. n /\ k + 1 \in 1 .. n /\ (k + 1) - 1 = k /\ k - 1 \in 0 .. n
    BY <1>2
  <2>2. a[k + 1] = Len(x[k]) /\ a[k] = Len(x[k - 1])
    BY <2>1
  <2> HIDE DEF a
  <2>3. PICK y, z : y = x[k - 1] /\ z = u[k]
    OBVIOUS
  <2>4. y \in Seq(S) /\ z \in Seq(S)
    <3>1. \A i \in 1 .. n : u[i] \in Seq(S)
      BY <1>2
    <3>2. QED BY <1>4, <2>1, <2>3, <3>1
  <2>5. x[k] = y \o z /\ z = g[r[k]]
    BY <1>2, <1>4, <2>1, <2>3
  <2>6. Len(y \o z) = Len(y) + Len(z)
    BY <2>4, Joined DEF Joins
  <2>7. QED BY <2>2, <2>3, <2>5, <2>6
<1> HIDE DEF a
<1>10. Places(a, g, r)
  BY <1>1, <1>5, <1>7, <1>8, <1>9 DEF Places
<1>11. QED BY <1>10

(* Text c is cut at n and holds x there. *)
HeldAt(c, n, x) == n \in Nat /\ n + Len(x) <= Len(c) /\ \A i \in 1 .. Len(x) : c[n + i] = x[i]

(* Cutting a text out from where it is held.                               *)
LEMMA Cut ==
  ASSUME NEW S, NEW c \in Seq(S), NEW x \in Seq(S), NEW n, HeldAt(c, n, x)
  PROVE  SubSeq(c, n + 1, n + Len(x)) = x
<1>1. PICK m, k, u : m = Len(c) /\ k = Len(x) /\ u = SubSeq(c, n + 1, n + Len(x))
  OBVIOUS
<1>2. m \in Nat /\ k \in Nat /\ n \in Nat /\ n + k <= m /\ \A i \in 1 .. k : c[n + i] = x[i]
  <2>1. Len(c) \in Nat /\ Len(x) \in Nat
    OBVIOUS
  <2>2. n \in Nat /\ n + Len(x) <= Len(c) /\ \A i \in 1 .. Len(x) : c[n + i] = x[i]
    BY DEF HeldAt
  <2>3. m = Len(c) /\ k = Len(x)
    BY <1>1
  <2>4. QED BY <2>1, <2>2, <2>3
<1>3. \A i \in n + 1 .. n + k : c[i] \in S
  <2>1. ASSUME NEW i \in n + 1 .. n + k PROVE i \in 1 .. m
    BY <1>2
  <2>2. QED BY <1>1, <2>1
<1>4. n + 1 \in Int /\ n + k \in Int /\ (IF n + 1 <= n + k THEN (n + k) - (n + 1) + 1 ELSE 0) = k
      /\ (n + k) - (n + 1) + 1 = k
  BY <1>2
<1>5. PICK a, b : a = n + 1 /\ b = n + k
  OBVIOUS
<1>6. u = SubSeq(c, a, b) /\ a \in Int /\ b \in Int /\ \A i \in a .. b : c[i] \in S
  BY <1>1, <1>3, <1>4, <1>5
<1>7. /\ u \in Seq(S) /\ Len(u) = (IF a <= b THEN b - a + 1 ELSE 0)
      /\ \A i \in 1 .. b - a + 1 : u[i] = c[a + i - 1]
  BY <1>6, SubSeqProperties
<1>8. Len(u) = k
  BY <1>4, <1>5, <1>7
<1>9. ASSUME NEW i \in 1 .. k PROVE u[i] = x[i]
  <2>1. i \in 1 .. b - a + 1 /\ a + i - 1 = n + i
    BY <1>2, <1>5
  <2>2. QED BY <1>2, <1>7, <2>1
<1>10. u = x
  BY <1>1, <1>7, <1>8, <1>9, SeqEqual
<1>11. QED BY <1>1, <1>10

(* Four texts one behind the other. *)
Line4(t, a, b, c, d) ==
  /\ Len(t) = Len(a) + Len(b) + Len(c) + Len(d)
  /\ HeldAt(t, 0, a) /\ HeldAt(t, Len(a), b) /\ HeldAt(t, Len(a) + Len(b), c) /\ HeldAt(t, Len(a) + Len(b) + Len(c), d)

(* A text held in one part is held in the whole.                           *)
LEMMA JoinHolds ==
  ASSUME NEW S, NEW a \in Seq(S), NEW b \in Seq(S), NEW x, NEW n, HeldAt(a, n, x), Len(x) \in Nat
  PROVE  HeldAt(a \o b, n, x)
<1>1. PICK c, k, l, m : c = a \o b /\ k = Len(a) /\ l = Len(b) /\ m = Len(x)
  OBVIOUS
<1>2. k \in Nat /\ l \in Nat /\ m \in Nat /\ Len(c) = k + l /\ \A i \in 1 .. k : c[i] = a[i]
  BY <1>1, Joined DEF Joins
<1>3. n \in Nat /\ n + m <= k /\ \A i \in 1 .. m : a[n + i] = x[i]
  BY <1>1 DEF HeldAt
<1>4. ASSUME NEW i \in 1 .. m PROVE c[n + i] = x[i]
  <2>1. n + i \in 1 .. k
    BY <1>2, <1>3
  <2>2. QED BY <1>2, <1>3, <2>1
<1>5. n + m <= Len(c)
  BY <1>2, <1>3
<1>6. QED BY <1>1, <1>3, <1>4, <1>5 DEF HeldAt

(* Either part of a concatenation is held in it.                           *)
LEMMA JoinEnds ==
  ASSUME NEW S, NEW a \in Seq(S), NEW b \in Seq(S)
  PROVE  /\ a \o b \in Seq(S) /\ Len(a \o b) = Len(a) + Len(b)
         /\ HeldAt(a \o b, 0, a) /\ HeldAt(a \o b, Len(a), b)
<1>1. PICK c, k, l : c = a \o b /\ k = Len(a) /\ l = Len(b)
  OBVIOUS
<1>2. /\ c \in Seq(S) /\ k \in Nat /\ l \in Nat /\ Len(c) = k + l /\ (\A i \in 1 .. k : c[i] = a[i])
      /\ \A i \in 1 .. l : c[k + i] = b[i]
  BY <1>1, Joined DEF Joins
<1>3. \A i \in 1 .. k : 0 + i = i
  OBVIOUS
<1>4. 0 + k <= k + l /\ k + l <= k + l
  BY <1>2
<1>5. HeldAt(c, 0, a) /\ HeldAt(c, k, b)
  BY <1>1, <1>2, <1>3, <1>4 DEF HeldAt
<1>6. QED BY <1>1, <1>2, <1>5

(* Four texts in a row are held one behind the other.                      *)
LEMMA FourJoined ==
  ASSUME NEW S, NEW a \in Seq(S), NEW b \in Seq(S), NEW c \in Seq(S), NEW d \in Seq(S)
  PROVE  a \o b \o c \o d \in Seq(S) /\ Line4(a \o b \o c \o d, a, b, c, d)
<1>1. PICK x, y, z : x = a \o b /\ y = x \o c /\ z = y \o d
  OBVIOUS
<1>2. x \in Seq(S) /\ Len(x) = Len(a) + Len(b) /\ HeldAt(x, 0, a) /\ HeldAt(x, Len(a), b)
  BY <1>1, JoinEnds
<1>3. y \in Seq(S) /\ Len(y) = Len(x) + Len(c) /\ HeldAt(y, Len(x), c)
  BY <1>1, <1>2, JoinEnds
<1>4. z \in Seq(S) /\ Len(z) = Len(y) + Len(d) /\ HeldAt(z, Len(y), d)
  BY <1>1, <1>3, JoinEnds
<1>5. Len(a) \in Nat /\ Len(b) \in Nat /\ Len(c) \in Nat /\ Len(d) \in Nat
  OBVIOUS
<1>6. HeldAt(y, 0, a) /\ HeldAt(y, Len(a), b)
  BY <1>1, <1>2, <1>5, JoinHolds
<1>7. HeldAt(z, 0, a) /\ HeldAt(z, Len(a), b)
  BY <1>1, <1>3, <1>5, <1>6, JoinHolds
<1>8. HeldAt(z, Len(x), c)
  BY <1>1, <1>3, <1>5, JoinHolds
<1>9. QED BY <1>1, <1>2, <1>3, <1>4, <1>7, <1>8 DEF Line4

(* What becomes of lines i to j, when f says it of each line. *)
LinesAt(f, i, j) == [k \in 1 .. j - i + 1 |-> f[i + k - 1]]
Part(f, i, j)  == FlattenSeq(LinesAt(f, i, j))
Writes(f, n, S) == n \in Nat /\ f \in [1 .. n -> Seq(S)]
SpanIn(i, j, n) == i \in 1 .. n + 1 /\ j \in i - 1 .. n
LaidLines(f, i, j, S) ==
  /\ LinesAt(f, i, j) \in Seq(Seq(S)) /\ Len(LinesAt(f, i, j)) = j - i + 1 /\ j - i + 1 \in Nat
  /\ Part(f, i, j) \in Seq(S)

(* What f says of lines i to j is a text for each line.                    *)
LEMMA LinesTyped ==
  ASSUME NEW S, NEW n, NEW f, Writes(f, n, S), NEW i, NEW j, SpanIn(i, j, n)
  PROVE  LaidLines(f, i, j, S)
<1>1. PICK Q : Q = Seq(S)
  OBVIOUS
<1>2. n \in Nat /\ f \in [1 .. n -> Q] /\ j - i + 1 \in Nat /\ i \in Nat /\ j \in Int /\ i >= 1 /\ j <= n
  BY <1>1 DEF Writes, SpanIn
<1>3. \A k \in 1 .. j - i + 1 : i + k - 1 \in 1 .. n
  BY <1>2
<1>4. \A k \in 1 .. j - i + 1 : f[i + k - 1] \in Q
  BY <1>2, <1>3
<1>5. PICK m : m = j - i + 1
  OBVIOUS
<1>6. LinesAt(f, i, j) = [k \in 1 .. m |-> f[i + k - 1]] /\ m \in Nat /\ \A k \in 1 .. m : f[i + k - 1] \in Q
  BY <1>2, <1>4, <1>5 DEF LinesAt
<1>7. LinesAt(f, i, j) \in Seq(Q) /\ Len(LinesAt(f, i, j)) = m
  BY <1>6
<1>8. QED BY <1>1, <1>2, <1>5, <1>7, FlattenTyped DEF Part, LaidLines

(* A part falls apart behind any of its lines.                             *)
LEMMA PartJoin ==
  ASSUME NEW S, NEW n, NEW f, Writes(f, n, S), NEW i, NEW m, NEW j, SpanIn(i, m, n), SpanIn(m + 1, j, n)
  PROVE  Part(f, i, j) = Part(f, i, m) \o Part(f, m + 1, j)
<1>1. PICK Q, a, b, c : Q = Seq(S) /\ a = LinesAt(f, i, m) /\ b = LinesAt(f, m + 1, j) /\ c = LinesAt(f, i, j)
  OBVIOUS
<1>2. n \in Nat /\ i \in Nat /\ m \in Int /\ j \in Int /\ i >= 1 /\ i - 1 <= m /\ m <= j /\ j <= n
  BY DEF Writes, SpanIn
<1>3. SpanIn(i, j, n) /\ j - (m + 1) + 1 = j - m
  BY <1>2 DEF SpanIn
<1>4. a \in Seq(Q) /\ Len(a) = m - i + 1
  BY <1>1, LinesTyped DEF LaidLines
<1>5. b \in Seq(Q) /\ Len(b) = j - m
  <2>1. LaidLines(f, m + 1, j, S)
    BY LinesTyped
  <2>2. QED BY <1>1, <1>3, <2>1 DEF LaidLines
<1>6. c \in Seq(Q) /\ Len(c) = j - i + 1
  <2>1. LaidLines(f, i, j, S)
    BY <1>3, LinesTyped
  <2>2. QED BY <1>1, <2>1 DEF LaidLines
<1>7. Joins(c, a, b)
  <2>1. Len(c) = Len(a) + Len(b)
    BY <1>2, <1>4, <1>5, <1>6
  <2>2. ASSUME NEW k \in 1 .. Len(a) PROVE c[k] = a[k]
    <3>1. k \in 1 .. m - i + 1 /\ k \in 1 .. j - i + 1
      BY <1>2, <1>4
    <3>2. QED BY <1>1, <3>1 DEF LinesAt
  <2>3. ASSUME NEW k \in 1 .. Len(b) PROVE c[Len(a) + k] = b[k]
    <3>1. k \in 1 .. j - (m + 1) + 1 /\ Len(a) + k \in 1 .. j - i + 1 /\ i + (Len(a) + k) - 1 = (m + 1) + k - 1
      BY <1>2, <1>4, <1>5
    <3>2. QED BY <1>1, <3>1 DEF LinesAt
  <2>4. QED BY <2>1, <2>2, <2>3 DEF Joins
<1>8. c = a \o b
  BY <1>4, <1>5, <1>6, <1>7, JoinedEqual
<1>9. FlattenSeq(a \o b) = FlattenSeq(a) \o FlattenSeq(b)
  BY <1>1, <1>4, <1>5, FlattenConcat
<1>10. QED BY <1>1, <1>8, <1>9 DEF Part

(* f writes the lines from i on as those of t. *)
Copies(f, i, j, t) == Len(t) = j - i + 1 /\ \A k \in 1 .. j - i + 1 : f[i + k - 1] = <<t[k]>>

(* Lines copied are the text they are copied from.                         *)
LEMMA PartCopied ==
  ASSUME NEW S, NEW n, NEW f, Writes(f, n, S), NEW i, NEW j, SpanIn(i, j, n),
         NEW t \in Seq(S), Copies(f, i, j, t)
  PROVE  Part(f, i, j) = t
<1>1. PICK u : u = LinesAt(f, i, j)
  OBVIOUS
<1>2. u \in Seq(Seq(S)) /\ Len(u) = j - i + 1
  BY <1>1, LinesTyped DEF LaidLines
<1>3. \A k \in 1 .. j - i + 1 : u[k] = <<t[k]>>
  BY <1>1 DEF LinesAt, Copies
<1>4. Singles(u, t)
  BY <1>2, <1>3 DEF Singles, Copies
<1>5. FlattenSeq(u) = t
  BY <1>2, <1>4, SinglesFlatten
<1>6. QED BY <1>1, <1>5 DEF Part

(* Lines of which nothing is left.                                         *)
LEMMA PartNothing ==
  ASSUME NEW S, NEW n, NEW f, Writes(f, n, S), NEW i, NEW j, SpanIn(i, j, n),
         \A l \in i .. j : f[l] = <<>>
  PROVE  Part(f, i, j) = <<>>
<1>1. PICK u, m : u = LinesAt(f, i, j) /\ m = j - i + 1
  OBVIOUS
<1>2. u \in Seq(Seq(S)) /\ Len(u) = m /\ m \in Nat
  BY <1>1, LinesTyped DEF LaidLines
<1>3. n \in Nat /\ i \in Nat /\ j \in Int
  BY DEF Writes, SpanIn
<1>4. ASSUME NEW k \in 1 .. m PROVE u[k] = <<>>
  <2>1. i + k - 1 \in i .. j
    BY <1>1, <1>3
  <2>2. u[k] = f[i + k - 1]
    BY <1>1 DEF LinesAt
  <2>3. QED BY <2>1, <2>2
<1>5. PICK g : g = [k \in 0 .. m |-> <<>>]
  OBVIOUS
<1>6. <<>> \in Seq(S) /\ <<>> \o <<>> = <<>>
  OBVIOUS
<1>7. g \in [0 .. m -> Seq(S)] /\ g[0] = <<>> /\ g[m] = <<>>
  BY <1>2, <1>5, <1>6
<1>8. ASSUME NEW k \in 1 .. m PROVE g[k] = g[k - 1] \o u[k]
  <2>1. k \in 0 .. m /\ k - 1 \in 0 .. m
    BY <1>2
  <2>2. QED BY <1>4, <1>5, <1>6, <2>1
<1>9. Grows(g, u, S)
  BY <1>2, <1>7, <1>8 DEF Grows
<1>10. FlattenSeq(u) = <<>>
  BY <1>2, <1>7, <1>9, FlattenGrows
<1>11. QED BY <1>1, <1>10 DEF Part

(* Part (f, i, j) falls apart behind m; four texts joined either way. *)
Abuts(f, i, m, j)   == Part(f, i, j) = Part(f, i, m) \o Part(f, m + 1, j)
Chained(p, q, r, t) == p \o (q \o (r \o t)) = p \o q \o r \o t

(* The same, in a form to cite.                                            *)
LEMMA PartAbuts ==
  ASSUME NEW S, NEW n, NEW f, Writes(f, n, S), NEW i, NEW m, NEW j, SpanIn(i, m, n), SpanIn(m + 1, j, n)
  PROVE  Abuts(f, i, m, j)
<1>1. Part(f, i, j) = Part(f, i, m) \o Part(f, m + 1, j)
  BY PartJoin
<1>2. QED BY <1>1 DEF Abuts

(* Concatenation is associative over four texts.                           *)
LEMMA JoinAcross ==
  ASSUME NEW S, NEW p \in Seq(S), NEW q \in Seq(S), NEW r \in Seq(S), NEW t \in Seq(S)
  PROVE  Chained(p, q, r, t)
<1>1. ASSUME NEW x \in Seq(S), NEW y \in Seq(S), NEW w \in Seq(S) PROVE x \o (y \o w) = (x \o y) \o w
  OBVIOUS
<1>2. p \o q \in Seq(S) /\ r \o t \in Seq(S)
  OBVIOUS
<1>3. p \o (q \o (r \o t)) = (p \o q) \o (r \o t)
  BY <1>1, <1>2
<1>4. (p \o q) \o (r \o t) = ((p \o q) \o r) \o t
  BY <1>1, <1>2
<1>5. QED BY <1>3, <1>4 DEF Chained
=============================================================================
