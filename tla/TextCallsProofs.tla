-------------------------- MODULE TextCallsProofs --------------------------
(***************************************************************************)
(* What the reading of a text promises, for texts of every length.         *)
(*                                                                         *)
(* Coordinates: byte offsets climb by the lengths of the characters, line  *)
(* starts are gathered behind the line feeds, and both stay what they are  *)
(* when the carriage returns are taken out of a CRLF source and put back.  *)
(*                                                                         *)
(* Cut: the formatter's own lexer and PostgreSQL's grammar are read side   *)
(* by side; they agree on every token but five odd ones, so on where       *)
(* statements end and where a COPY payload starts and stops.               *)
(***************************************************************************)
EXTENDS CutCalls, DataInduction

(* f adds the weights of the characters up to each place. *)
Weighs(f, t, weight) ==
  /\ f \in [0 .. Len(t) -> Nat] /\ f[0] = 0
  /\ \A i \in 1 .. Len(t) : f[i] = f[i - 1] + weight[t[i]]

(* The sums of a text exist, and are what they should be. *)
LEMMA SumsWeigh ==
  ASSUME NEW t \in Seq(Char), NEW weight \in [Char -> Nat]
  PROVE  Weighs(Sums(t, weight), t, weight)
<1> DEFINE n    == Len(t)
           step == [i \in 1 .. n |-> [s \in Nat |-> s + weight[t[i]]]]
           R(f) == f = [i \in 0 .. Len(t) |-> IF i = 0 THEN 0 ELSE f[i - 1] + weight[t[i]]]
<1>0. n \in Nat /\ \A i \in 1 .. n : weight[t[i]] \in Nat
  <2>1. \A i \in 1 .. n : t[i] \in Char
    OBVIOUS
  <2>2. QED BY <2>1
<1>1. Recursion(n, Nat, 0, step)
  <2>1. ASSUME NEW i \in 1 .. n PROVE [s \in Nat |-> s + weight[t[i]]] \in [Nat -> Nat]
    <3>1. PICK w : w = weight[t[i]]
      OBVIOUS
    <3>2. w \in Nat
      BY <1>0, <3>1
    <3>3. [s \in Nat |-> s + w] \in [Nat -> Nat]
      BY <3>2
    <3>4. QED BY <3>1, <3>3
  <2> HIDE DEF n
  <2>2. QED BY <1>0, <2>1 DEF Recursion
<1>2. PICK f : Solves(f, n, Nat, 0, step)
  BY <1>1, RecursionExists
<1>3. f \in [0 .. n -> Nat] /\ f[0] = 0 /\ \A i \in 1 .. n : f[i] = f[i - 1] + weight[t[i]]
  <2>1. f \in [0 .. n -> Nat] /\ f[0] = 0 /\ \A i \in 1 .. n : f[i] = step[i][f[i - 1]]
    BY <1>2 DEF Solves
  <2>2. ASSUME NEW i \in 1 .. n PROVE f[i] = f[i - 1] + weight[t[i]]
    <3>1. i - 1 \in 0 .. n
      BY <1>0
    <3>2. f[i - 1] \in Nat
      BY <2>1, <3>1
    <3>3. QED BY <2>1, <3>2
  <2> HIDE DEF step
  <2>3. QED BY <2>1, <2>2
<1> HIDE DEF step
<1>4. R(f)
  <2>1. ASSUME NEW i \in 0 .. n
        PROVE  f[i] = IF i = 0 THEN 0 ELSE f[i - 1] + weight[t[i]]
    <3>1. CASE i = 0
      BY <1>3, <3>1
    <3>2. CASE i # 0
      <4>1. i \in 1 .. n /\ i > 0
        BY <1>0, <3>2
      <4>2. QED BY <1>3, <3>2, <4>1
    <3>3. QED BY <3>1, <3>2
  <2>2. f = [i \in 0 .. n |-> f[i]]
    BY <1>3
  <2>3. [i \in 0 .. n |-> f[i]] = [i \in 0 .. n |-> IF i = 0 THEN 0 ELSE f[i - 1] + weight[t[i]]]
    BY <2>1
  <2>4. QED BY <2>2, <2>3
<1>5. ASSUME NEW g, R(g) PROVE Weighs(g, t, weight)
  <2> DEFINE T == {i \in 0 .. n : g[i] \in Nat}
  <2>1. g[0] = 0 /\ \A i \in 1 .. n : g[i] = g[i - 1] + weight[t[i]]
    <3>1. 0 \in 0 .. n
      BY <1>0
    <3>2. g[0] = 0
      BY <1>5, <3>1
    <3>3. ASSUME NEW i \in 1 .. n PROVE g[i] = g[i - 1] + weight[t[i]]
      <4>1. i \in 0 .. n /\ i # 0
        BY <1>0
      <4>2. QED BY <1>5, <4>1
    <3>4. QED BY <3>2, <3>3
  <2>2. g = [i \in 0 .. n |-> g[i]]
    BY <1>5
  <2> HIDE DEF R
  <2>3. 0 \in T
    BY <1>0, <2>1
  <2>4. ASSUME NEW i \in 0 .. n - 1, i \in T PROVE i + 1 \in T
    <3>1. PICK k : k = i + 1
      OBVIOUS
    <3>2. k \in 1 .. n /\ k - 1 = i
      BY <1>0, <3>1
    <3>3. g[i] \in Nat /\ weight[t[k]] \in Nat
      BY <1>0, <2>4, <3>2
    <3>4. g[k] = g[i] + weight[t[k]]
      BY <2>1, <3>2
    <3>5. g[k] \in Nat
      BY <3>3, <3>4
    <3>6. QED BY <1>0, <3>1, <3>2, <3>5
  <2> HIDE DEF T
  <2>5. 0 .. n \subseteq T
    BY <1>0, <2>3, <2>4, Ascent
  <2>6. \A i \in 0 .. n : g[i] \in Nat
    BY <2>5 DEF T
  <2>7. g \in [0 .. n -> Nat]
    BY <2>2, <2>6
  <2>8. QED BY <2>1, <2>7 DEF Weighs
<1>6. Sums(t, weight) = CHOOSE g : R(g)
  BY DEF Sums
<1> HIDE DEF R
<1>7. R(CHOOSE g : R(g))
  BY <1>4
<1>8. QED BY <1>5, <1>6, <1>7

(* The greatest number of a set is the one that no other exceeds. *)
LEMMA MaxIs ==
  ASSUME NEW S \in SUBSET Nat, NEW m \in S, \A k \in S : k <= m
  PROVE  Max(S) = m
<1>1. \A k \in S : m >= k
  OBVIOUS
<1>2. PICK x : x = Max(S)
  OBVIOUS
<1>3. x \in S /\ \A k \in S : x >= k
  BY <1>1, <1>2 DEF Max
<1>4. x \in Nat /\ m \in Nat /\ x >= m /\ m >= x
  BY <1>1, <1>3
<1>5. x = m
  BY <1>4
<1>6. QED BY <1>2, <1>5

(* Offsets are numbers, and every character has a length. *)
Climb(off, n) == \A i \in 0 .. n, j \in 0 .. n : i < j => off[i] < off[j]

(* Offsets add the lengths of characters, none of which is 0.              *)
LEMMA OffsetsClimb ==
  ASSUME NEW t \in Seq(Char)
  PROVE  LET off == Sums(t, Bytes)
         IN  /\ Weighs(off, t, Bytes) /\ Climb(off, Len(t))
             /\ \A i \in 1 .. Len(t) : t[i] \in Char /\ Bytes[t[i]] \in Nat /\ Bytes[t[i]] >= 1
<1>1. PICK off, n : off = Sums(t, Bytes) /\ n = Len(t)
  OBVIOUS
<1>2. Bytes \in [Char -> Nat] /\ \A c \in Char : Bytes[c] >= 1
  BY DEF Bytes, Char, LF, CR
<1>3. Weighs(off, t, Bytes) /\ n \in Nat /\ \A i \in 1 .. n : t[i] \in Char
  BY <1>1, <1>2, SumsWeigh
<1>4. off \in [0 .. n -> Nat] /\ off[0] = 0 /\ \A i \in 1 .. n : off[i] = off[i - 1] + Bytes[t[i]]
  BY <1>1, <1>3 DEF Weighs
<1> DEFINE T == {j \in 0 .. n : \A i \in 0 .. n : i < j => off[i] < off[j]}
<1>5. 0 \in T
  BY <1>3
<1>6. ASSUME NEW j \in 0 .. n - 1, j \in T PROVE j + 1 \in T
  <2>1. PICK h, b : h = j + 1 /\ b = Bytes[t[h]]
    OBVIOUS
  <2>2. h \in 1 .. n /\ h - 1 = j /\ h \in 0 .. n /\ j \in 0 .. n
    BY <1>3, <2>1
  <2>3. b \in Nat /\ b >= 1 /\ off[j] \in Nat /\ off[h] \in Nat /\ off[h] = off[j] + b
    BY <1>2, <1>3, <1>4, <2>1, <2>2
  <2>4. ASSUME NEW i \in 0 .. n, i < h PROVE off[i] < off[h]
    <3>1. CASE i = j
      BY <2>3, <3>1
    <3>2. CASE i # j
      <4>1. i < j
        BY <1>3, <2>1, <2>2, <2>4, <3>2
      <4>2. off[i] < off[j] /\ off[i] \in Nat
        BY <1>4, <1>6, <4>1
      <4>3. QED BY <2>3, <4>2
    <3>3. QED BY <3>1, <3>2
  <2>5. QED BY <2>1, <2>2, <2>4
<1> HIDE DEF T
<1>7. 0 .. n \subseteq T
  BY <1>3, <1>5, <1>6, Ascent
<1>8. Climb(off, n)
  BY <1>7 DEF T, Climb
<1>9. QED BY <1>1, <1>2, <1>3, <1>8

(* An offset is reached by the characters it is the offset of. *)
LEMMA ReachOffset ==
  ASSUME NEW t \in Seq(Char), NEW i \in 0 .. Len(t)
  PROVE  Reach(t, Offset(t, i)) = i
<1>1. PICK off, n : off = Sums(t, Bytes) /\ n = Len(t)
  OBVIOUS
<1>2. n \in Nat /\ off \in [0 .. n -> Nat] /\ Climb(off, n)
  BY <1>1, OffsetsClimb DEF Weighs
<1> DEFINE S == {k \in 0 .. n : off[k] <= off[i]}
<1>3. S \in SUBSET Nat /\ i \in S
  BY <1>1, <1>2
<1>4. ASSUME NEW k \in S PROVE k <= i
  <2>1. k \in 0 .. n /\ i \in 0 .. n /\ off[k] <= off[i] /\ off[k] \in Nat /\ off[i] \in Nat
    BY <1>1, <1>2
  <2>2. ~ (i < k)
    BY <1>2, <2>1 DEF Climb
  <2>3. QED BY <1>2, <2>1, <2>2
<1>5. Reach(t, Offset(t, i)) = Max(S)
  BY <1>1 DEF Reach, Offset
<1> HIDE DEF S
<1>6. QED BY <1>3, <1>4, <1>5, MaxIs

(* f collects where lines start. *)
Collects(f, t, off) ==
  /\ f \in [0 .. Len(t) -> Seq(Nat)] /\ f[0] = <<0>>
  /\ \A i \in 1 .. Len(t) : f[i] = f[i - 1] \o IF t[i] = LF THEN <<off[i]>> ELSE <<>>

(* The starts of the lines are gathered from the characters in order.      *)
LEMMA StartsCollected ==
  ASSUME NEW t \in Seq(Char)
  PROVE  \E f : Collects(f, t, Sums(t, Bytes)) /\ LineStarts(t) = f[Len(t)]
<1>1. PICK off : off = Sums(t, Bytes)
  OBVIOUS
<1> DEFINE n    == Len(t)
           step == [i \in 1 .. n |-> [s \in Seq(Nat) |-> s \o IF t[i] = LF THEN <<off[i]>> ELSE <<>>]]
           R(f) == f = [i \in 0 .. Len(t) |->
                          IF i = 0 THEN <<0>> ELSE f[i - 1] \o IF t[i] = LF THEN <<Offset(t, i)>> ELSE <<>>]
<1>2. n \in Nat /\ off \in [0 .. n -> Nat]
  BY <1>1, OffsetsClimb DEF Weighs
<1>3. \A i \in 0 .. n : Offset(t, i) = off[i]
  BY <1>1 DEF Offset
<1>4. Recursion(n, Seq(Nat), <<0>>, step)
  <2>1. ASSUME NEW i \in 1 .. n
        PROVE  [s \in Seq(Nat) |-> s \o IF t[i] = LF THEN <<off[i]>> ELSE <<>>] \in [Seq(Nat) -> Seq(Nat)]
    <3>1. off[i] \in Nat
      BY <1>2
    <3>2. (IF t[i] = LF THEN <<off[i]>> ELSE <<>>) \in Seq(Nat)
      BY <3>1
    <3>3. QED BY <3>2
  <2>2. <<0>> \in Seq(Nat)
    OBVIOUS
  <2> HIDE DEF n
  <2>3. QED BY <1>2, <2>1, <2>2 DEF Recursion
<1>5. PICK f : Solves(f, n, Seq(Nat), <<0>>, step)
  BY <1>4, RecursionExists
<1>6. /\ f \in [0 .. n -> Seq(Nat)] /\ f[0] = <<0>>
      /\ \A i \in 1 .. n : f[i] = f[i - 1] \o IF t[i] = LF THEN <<off[i]>> ELSE <<>>
  <2>1. f \in [0 .. n -> Seq(Nat)] /\ f[0] = <<0>> /\ \A i \in 1 .. n : f[i] = step[i][f[i - 1]]
    BY <1>5 DEF Solves
  <2>2. ASSUME NEW i \in 1 .. n PROVE f[i] = f[i - 1] \o IF t[i] = LF THEN <<off[i]>> ELSE <<>>
    <3>1. i - 1 \in 0 .. n
      BY <1>2
    <3>2. f[i - 1] \in Seq(Nat)
      BY <2>1, <3>1
    <3>3. QED BY <2>1, <3>2
  <2> HIDE DEF step
  <2>3. QED BY <2>1, <2>2
<1> HIDE DEF step
<1>7. R(f)
  <2>1. ASSUME NEW i \in 0 .. n
        PROVE  f[i] = IF i = 0 THEN <<0>> ELSE f[i - 1] \o IF t[i] = LF THEN <<Offset(t, i)>> ELSE <<>>
    <3>1. CASE i = 0
      BY <1>6, <3>1
    <3>2. CASE i # 0
      <4>1. i \in 1 .. n /\ i > 0
        BY <1>2, <3>2
      <4>2. f[i] = f[i - 1] \o IF t[i] = LF THEN <<off[i]>> ELSE <<>>
        BY <1>6, <4>1
      <4>3. QED BY <1>3, <3>2, <4>1, <4>2
    <3>3. QED BY <3>1, <3>2
  <2>2. f = [i \in 0 .. n |-> f[i]]
    BY <1>6
  <2>3. [i \in 0 .. n |-> f[i]] =
          [i \in 0 .. n |-> IF i = 0 THEN <<0>> ELSE f[i - 1] \o IF t[i] = LF THEN <<Offset(t, i)>> ELSE <<>>]
    BY <2>1
  <2>4. QED BY <2>2, <2>3
<1>8. ASSUME NEW g, R(g) PROVE Collects(g, t, off)
  <2> DEFINE T == {i \in 0 .. n : g[i] \in Seq(Nat)}
  <2>1. g[0] = <<0>> /\ \A i \in 1 .. n : g[i] = g[i - 1] \o IF t[i] = LF THEN <<off[i]>> ELSE <<>>
    <3>1. 0 \in 0 .. n
      BY <1>2
    <3>2. g[0] = <<0>>
      BY <1>8, <3>1
    <3>3. ASSUME NEW i \in 1 .. n PROVE g[i] = g[i - 1] \o IF t[i] = LF THEN <<off[i]>> ELSE <<>>
      <4>1. i \in 0 .. n /\ i # 0
        BY <1>2
      <4>2. g[i] = g[i - 1] \o IF t[i] = LF THEN <<Offset(t, i)>> ELSE <<>>
        BY <1>8, <4>1
      <4>3. QED BY <1>3, <4>1, <4>2
    <3>4. QED BY <3>2, <3>3
  <2>2. g = [i \in 0 .. n |-> g[i]]
    BY <1>8
  <2> HIDE DEF R
  <2>3. 0 \in T
    <3>1. PICK e : e = g[0]
      OBVIOUS
    <3>2. e = <<0>>
      BY <2>1, <3>1
    <3>3. e \in Seq(Nat)
      BY <3>2
    <3>4. QED BY <1>2, <3>1, <3>3
  <2>4. ASSUME NEW i \in 0 .. n - 1, i \in T PROVE i + 1 \in T
    <3>1. PICK k, a : k = i + 1 /\ a = g[i]
      OBVIOUS
    <3>2. k \in 1 .. n /\ k - 1 = i
      BY <1>2, <3>1
    <3>3. a \in Seq(Nat) /\ off[k] \in Nat
      BY <1>2, <2>4, <3>1, <3>2
    <3>4. g[k] = a \o IF t[k] = LF THEN <<off[k]>> ELSE <<>>
      BY <2>1, <3>1, <3>2
    <3>5. g[k] \in Seq(Nat)
      BY <3>3, <3>4
    <3>6. QED BY <1>2, <3>1, <3>2, <3>5
  <2> HIDE DEF T
  <2>5. 0 .. n \subseteq T
    BY <1>2, <2>3, <2>4, Ascent
  <2>6. \A i \in 0 .. n : g[i] \in Seq(Nat)
    BY <2>5 DEF T
  <2>7. g \in [0 .. n -> Seq(Nat)]
    BY <2>2, <2>6
  <2>8. QED BY <2>1, <2>7 DEF Collects
<1>9. LineStarts(t) = (CHOOSE g : R(g))[n]
  BY DEF LineStarts
<1> HIDE DEF R
<1>10. R(CHOOSE g : R(g))
  BY <1>7
<1>11. PICK h : h = CHOOSE g : R(g)
  OBVIOUS
<1>12. Collects(h, t, off) /\ LineStarts(t) = h[n]
  BY <1>8, <1>9, <1>10, <1>11
<1>13. QED BY <1>1, <1>12

(* s are the starts of the lines that begin within the first m characters: *)
(* one more than line feeds, ascending, each behind the feed it is for.    *)
Starts(s, t, off, feeds, m) ==
  /\ s \in Seq(Nat) /\ Len(s) = 1 + feeds[m] /\ s[1] = 0
  /\ \A i \in 1 .. Len(s), k \in 1 .. Len(s) : i < k => s[i] < s[k]
  /\ \A k \in 1 .. Len(s) : s[k] <= off[m]
  /\ \A k \in 2 .. Len(s) : \E i \in 1 .. m : t[i] = LF /\ s[k] = off[i]

(* What is known of the sums and starts of a text. *)
Counted(t, off, feeds, f) ==
  /\ t \in Seq(Char)
  /\ Weighs(off, t, Bytes) /\ Weighs(feeds, t, Feed) /\ Collects(f, t, off) /\ Climb(off, Len(t))

(* One character more leaves the starts what they should be.               *)
LEMMA StartsStep ==
  ASSUME NEW t, NEW off, NEW feeds, NEW f, Counted(t, off, feeds, f),
         NEW j \in 0 .. Len(t) - 1, Starts(f[j], t, off, feeds, j)
  PROVE  Starts(f[j + 1], t, off, feeds, j + 1)
<1>1. PICK n, h, a, b, m, o : n = Len(t) /\ h = j + 1 /\ a = f[j] /\ b = f[h] /\ m = Len(a) /\ o = off[h]
  OBVIOUS
<1>2. /\ n \in Nat /\ j \in Nat /\ h \in Nat /\ h \in 1 .. n /\ h \in 0 .. n /\ j \in 0 .. n /\ h - 1 = j /\ j < h
      /\ t \in Seq(Char) /\ t[h] \in Char
  BY <1>1 DEF Counted
<1>3. /\ a \in Seq(Nat) /\ m \in Nat /\ m = 1 + feeds[j] /\ a[1] = 0 /\ m >= 1
      /\ \A i \in 1 .. m, k \in 1 .. m : i < k => a[i] < a[k]
      /\ \A k \in 1 .. m : a[k] <= off[j] /\ a[k] \in Nat
      /\ \A k \in 2 .. m : \E i \in 1 .. j : t[i] = LF /\ a[k] = off[i]
  <2>1. feeds[j] \in Nat
    BY <1>1, <1>2 DEF Counted, Weighs
  <2>2. /\ a \in Seq(Nat) /\ m = 1 + feeds[j] /\ a[1] = 0
        /\ \A i \in 1 .. m, k \in 1 .. m : i < k => a[i] < a[k]
        /\ \A k \in 1 .. m : a[k] <= off[j]
        /\ \A k \in 2 .. m : \E i \in 1 .. j : t[i] = LF /\ a[k] = off[i]
    BY <1>1 DEF Starts
  <2>3. m \in Nat /\ m >= 1
    BY <2>1, <2>2
  <2>4. \A k \in 1 .. m : a[k] \in Nat
    <3>1. m = Len(a) /\ a \in Seq(Nat)
      BY <1>1, <2>2
    <3>2. QED BY <3>1
  <2>5. QED BY <2>2, <2>3, <2>4
<1>4. off[j] \in Nat /\ o \in Nat /\ off[j] < o
  BY <1>1, <1>2 DEF Counted, Weighs, Climb
<1>5. feeds[h] = feeds[j] + Feed[t[h]] /\ feeds[j] \in Nat
  BY <1>1, <1>2 DEF Counted, Weighs
<1>6. b = a \o IF t[h] = LF THEN <<o>> ELSE <<>>
  BY <1>1, <1>2 DEF Counted, Collects
<1>7. CASE t[h] = LF
  <2>1. b = Append(a, o)
    BY <1>3, <1>4, <1>6, <1>7
  <2>2. b \in Seq(Nat) /\ Len(b) = m + 1 /\ b[m + 1] = o /\ \A k \in 1 .. m : b[k] = a[k]
    <3>1. m = Len(a) /\ a \in Seq(Nat) /\ o \in Nat
      BY <1>1, <1>3, <1>4
    <3>2. QED BY <2>1, <3>1, AppendProperties
  <2>3. feeds[h] = feeds[j] + 1
    BY <1>2, <1>5, <1>7 DEF Feed
  <2>4. Len(b) = 1 + feeds[h] /\ b[1] = 0
    <3>1. 1 \in 1 .. m
      BY <1>3
    <3>2. b[1] = 0
      BY <1>3, <2>2, <3>1
    <3>3. PICK z, y : z = feeds[j] /\ y = feeds[h]
      OBVIOUS
    <3>4. m = 1 + z /\ y = z + 1 /\ z \in Nat
      BY <1>3, <1>5, <2>3, <3>3
    <3>5. m + 1 = 1 + y
      BY <3>4
    <3>6. QED BY <2>2, <3>2, <3>3, <3>5
  <2>5. ASSUME NEW k \in 1 .. m + 1
        PROVE  b[k] <= o /\ (k \in 2 .. m + 1 => \E i \in 1 .. h : t[i] = LF /\ b[k] = off[i])
    <3>1. CASE k = m + 1
      BY <1>1, <1>2, <1>4, <1>7, <2>2, <3>1
    <3>2. CASE k # m + 1
      <4>1. k \in 1 .. m /\ (k \in 2 .. m + 1 => k \in 2 .. m)
        BY <1>3, <3>2
      <4>2. b[k] = a[k] /\ a[k] <= off[j] /\ a[k] \in Nat
        BY <1>3, <2>2, <4>1
      <4>3. b[k] <= o
        BY <1>4, <4>2
      <4>4. ASSUME k \in 2 .. m + 1 PROVE \E i \in 1 .. h : t[i] = LF /\ b[k] = off[i]
        <5>1. PICK i \in 1 .. j : t[i] = LF /\ a[k] = off[i]
          BY <1>3, <4>1, <4>4
        <5>2. i \in 1 .. h
          BY <1>2
        <5>3. QED BY <4>2, <5>1, <5>2
      <4>5. QED BY <4>3, <4>4
    <3>3. QED BY <3>1, <3>2
  <2>6. ASSUME NEW i \in 1 .. m + 1, NEW k \in 1 .. m + 1, i < k PROVE b[i] < b[k]
    <3>1. i \in 1 .. m /\ b[i] = a[i] /\ a[i] <= off[j] /\ a[i] \in Nat
      <4>1. i \in 1 .. m
        BY <1>3, <2>6
      <4>2. QED BY <1>3, <2>2, <4>1
    <3>2. CASE k = m + 1
      BY <1>4, <2>2, <3>1, <3>2
    <3>3. CASE k # m + 1
      <4>1. k \in 1 .. m
        BY <1>3, <3>3
      <4>2. QED BY <1>3, <2>2, <2>6, <3>1, <4>1
    <3>4. QED BY <3>2, <3>3
  <2>7. Starts(b, t, off, feeds, h)
    BY <1>1, <2>2, <2>4, <2>5, <2>6 DEF Starts
  <2>8. QED BY <1>1, <2>7
<1>8. CASE t[h] # LF
  <2>1. b = a
    BY <1>3, <1>6, <1>8
  <2>2. feeds[h] = feeds[j]
    BY <1>2, <1>5, <1>8 DEF Feed
  <2>3. ASSUME NEW k \in 1 .. m PROVE a[k] <= o
    BY <1>3, <1>4
  <2>4. ASSUME NEW k \in 2 .. m PROVE \E i \in 1 .. h : t[i] = LF /\ a[k] = off[i]
    <3>1. PICK i \in 1 .. j : t[i] = LF /\ a[k] = off[i]
      BY <1>3
    <3>2. i \in 1 .. h
      BY <1>2
    <3>3. QED BY <3>1, <3>2
  <2>5. Starts(b, t, off, feeds, h)
    BY <1>1, <1>3, <2>1, <2>2, <2>3, <2>4 DEF Starts
  <2>6. QED BY <1>1, <2>5
<1>9. QED BY <1>7, <1>8

(* At every place the starts so far are what they should be.               *)
LEMMA StartsAll ==
  ASSUME NEW t, NEW off, NEW feeds, NEW f, Counted(t, off, feeds, f)
  PROVE  \A m \in 0 .. Len(t) : Starts(f[m], t, off, feeds, m)
<1>1. PICK n, e : n = Len(t) /\ e = f[0]
  OBVIOUS
<1>2. n \in Nat /\ e = <<0>> /\ feeds[0] = 0 /\ off[0] = 0
  BY <1>1 DEF Counted, Collects, Weighs
<1> DEFINE T == {m \in 0 .. n : Starts(f[m], t, off, feeds, m)}
<1>3. 0 \in T
  <2>1. e \in Seq(Nat) /\ Len(e) = 1 /\ e[1] = 0
    BY <1>2
  <2>2. \A k \in 2 .. 1 : FALSE
    OBVIOUS
  <2>3. \A i \in 1 .. 1, k \in 1 .. 1 : ~ (i < k)
    OBVIOUS
  <2>4. \A k \in 1 .. 1 : e[k] <= 0
    BY <2>1
  <2>5. Starts(e, t, off, feeds, 0)
    BY <1>2, <2>1, <2>2, <2>3, <2>4 DEF Starts
  <2>6. 0 \in 0 .. n /\ Starts(f[0], t, off, feeds, 0)
    BY <1>1, <1>2, <2>5
  <2>7. QED BY <2>6
<1>4. ASSUME NEW j \in 0 .. n - 1, j \in T PROVE j + 1 \in T
  <2>1. j + 1 \in 0 .. n
    BY <1>2
  <2>2. Starts(f[j], t, off, feeds, j)
    BY <1>4
  <2>3. Starts(f[j + 1], t, off, feeds, j + 1)
    BY <1>1, <2>2, StartsStep
  <2>4. QED BY <2>1, <2>3
<1> HIDE DEF T
<1>5. 0 .. n \subseteq T
  BY <1>2, <1>3, <1>4, Ascent
<1>6. QED BY <1>1, <1>5 DEF T

(* s begins with r, and what follows lies behind o. *)
Extends(s, r, o) ==
  /\ Len(r) <= Len(s) /\ \A k \in 1 .. Len(r) : s[k] = r[k]
  /\ \A k \in Len(r) + 1 .. Len(s) : s[k] > o

(* The starts of lines begun early are the first of all. *)
LEMMA StartsExtend ==
  ASSUME NEW t, NEW off, NEW feeds, NEW f, Counted(t, off, feeds, f), NEW m \in 0 .. Len(t)
  PROVE  Extends(f[Len(t)], f[m], off[m])
<1>1. PICK n, r, o : n = Len(t) /\ r = f[m] /\ o = off[m]
  OBVIOUS
<1>2. n \in Nat /\ m \in 0 .. n /\ f \in [0 .. n -> Seq(Nat)] /\ r \in Seq(Nat) /\ o \in Nat
  <2>1. n \in Nat /\ f \in [0 .. n -> Seq(Nat)] /\ off \in [0 .. n -> Nat] /\ m \in 0 .. n
    BY <1>1 DEF Counted, Collects, Weighs
  <2>2. r \in Seq(Nat) /\ o \in Nat
    BY <1>1, <2>1
  <2>3. QED BY <2>1, <2>2
<1> DEFINE T == {j \in 0 .. n : m <= j => Extends(f[j], r, o)}
<1>3. ASSUME NEW j \in 0 .. n, j = m PROVE Extends(f[j], r, o)
  BY <1>1, <1>2, <1>3 DEF Extends
<1>4. 0 \in T
  <2>1. 0 \in 0 .. n /\ (m <= 0 => 0 = m)
    BY <1>2
  <2>2. QED BY <1>3, <2>1
<1>5. ASSUME NEW j \in 0 .. n - 1, j \in T PROVE j + 1 \in T
  <2>1. PICK h, a, b : h = j + 1 /\ a = f[j] /\ b = f[h]
    OBVIOUS
  <2>2. h \in 1 .. n /\ h - 1 = j /\ h \in 0 .. n /\ j \in 0 .. n /\ a \in Seq(Nat) /\ b \in Seq(Nat)
    BY <1>2, <2>1
  <2>3. CASE ~ (m <= h)
    BY <2>1, <2>2, <2>3
  <2>4. CASE h = m
    BY <1>3, <2>1, <2>2, <2>4
  <2>5. CASE m <= h /\ h # m
    <3>1. m <= j
      BY <1>2, <2>1, <2>2, <2>5
    <3>2. Extends(a, r, o)
      BY <1>5, <2>1, <3>1
    <3>3. b = a \o IF t[h] = LF THEN <<off[h]>> ELSE <<>>
      BY <1>1, <2>1, <2>2 DEF Counted, Collects
    <3>4. off[h] \in Nat /\ o < off[h]
      <4>1. off \in [0 .. n -> Nat] /\ Climb(off, n)
        BY <1>1 DEF Counted, Weighs
      <4>2. m < h
        BY <1>2, <2>2, <2>5
      <4>3. QED BY <1>1, <1>2, <2>2, <4>1, <4>2 DEF Climb
    <3>5. CASE t[h] = LF
      <4>1. PICK w, c, q : w = off[h] /\ c = Len(a) /\ q = Len(r)
        OBVIOUS
      <4>2. b = Append(a, w)
        BY <2>2, <3>3, <3>4, <3>5, <4>1
      <4>3. Len(b) = c + 1 /\ b[c + 1] = w /\ c \in Nat /\ \A k \in 1 .. c : b[k] = a[k]
        BY <2>2, <3>4, <4>1, <4>2, AppendProperties
      <4>4. q \in Nat /\ q <= c /\ (\A k \in 1 .. q : a[k] = r[k]) /\ \A k \in q + 1 .. c : a[k] > o
        BY <1>2, <3>2, <4>1 DEF Extends
      <4>5. ASSUME NEW k \in 1 .. q PROVE b[k] = r[k]
        <5>1. k \in 1 .. c
          BY <4>3, <4>4
        <5>2. QED BY <4>3, <4>4, <5>1
      <4>6. ASSUME NEW k \in q + 1 .. c + 1 PROVE b[k] > o
        <5>1. CASE k = c + 1
          BY <1>2, <3>4, <4>1, <4>3, <5>1
        <5>2. CASE k # c + 1
          <6>1. k \in q + 1 .. c /\ k \in 1 .. c
            BY <4>3, <4>4, <5>2
          <6>2. QED BY <4>3, <4>4, <6>1
        <5>3. QED BY <5>1, <5>2
      <4>7. q <= c + 1
        BY <4>3, <4>4
      <4>8. Extends(b, r, o)
        BY <4>1, <4>3, <4>5, <4>6, <4>7 DEF Extends
      <4>9. QED BY <2>1, <2>2, <4>8
    <3>6. CASE t[h] # LF
      <4>1. b = a
        BY <2>2, <3>3, <3>6
      <4>2. QED BY <2>1, <2>2, <3>2, <4>1
    <3>7. QED BY <3>5, <3>6
  <2>6. QED BY <2>3, <2>4, <2>5
<1> HIDE DEF T
<1>6. 0 .. n \subseteq T
  BY <1>2, <1>4, <1>5, Ascent
<1>7. n \in T /\ m <= n
  BY <1>2, <1>6
<1>8. QED BY <1>1, <1>7 DEF T

(* The sums and the starts of a text are known together.                   *)
LEMMA Counts ==
  ASSUME NEW t \in Seq(Char)
  PROVE  \E f : Counted(t, Sums(t, Bytes), Sums(t, Feed), f) /\ LineStarts(t) = f[Len(t)]
<1>1. Bytes \in [Char -> Nat] /\ Feed \in [Char -> Nat]
  BY DEF Bytes, Feed
<1>2. PICK f : Collects(f, t, Sums(t, Bytes)) /\ LineStarts(t) = f[Len(t)]
  BY StartsCollected
<1>3. Weighs(Sums(t, Bytes), t, Bytes) /\ Weighs(Sums(t, Feed), t, Feed)
  BY <1>1, SumsWeigh
<1>4. Climb(Sums(t, Bytes), Len(t))
  BY OffsetsClimb
<1>5. QED BY <1>2, <1>3, <1>4 DEF Counted

(* The line that holds the end of the first i characters begins behind q. *)
LineHead(t, i, q) ==
  /\ q \in 0 .. i /\ (q = 0 \/ t[q] = LF)
  /\ \A k \in q + 1 .. i : t[k] # LF

(* Every place has a head of its line.                                     *)
LEMMA HeadExists ==
  ASSUME NEW t \in Seq(Char), NEW i \in 0 .. Len(t)
  PROVE  \E q : LineHead(t, i, q)
<1> DEFINE S == {k \in 0 .. i : k = 0 \/ t[k] = LF}
<1>1. i \in Nat /\ S \in SUBSET (0 .. i) /\ S # {}
  <2>1. 0 \in S
    OBVIOUS
  <2>2. QED BY <2>1
<1>2. PICK q \in S : \A k \in S : k <= q
  <2> HIDE DEF S
  <2>1. QED BY <1>1, GreatestNatural
<1>3. ASSUME NEW k \in q + 1 .. i PROVE t[k] # LF
  <2>1. k \in 0 .. i /\ ~ (k <= q)
    BY <1>1
  <2>2. k \notin S
    BY <1>2, <2>1
  <2>3. QED BY <2>1, <2>2
<1>4. QED BY <1>2, <1>3 DEF LineHead

(* The last line begun starts behind its head. *)
LEMMA LastStart ==
  ASSUME NEW t, NEW off, NEW feeds, NEW f, Counted(t, off, feeds, f), NEW i \in 0 .. Len(t), NEW q, LineHead(t, i, q)
  PROVE  f[i][Len(f[i])] = off[q] /\ feeds[i] = feeds[q]
<1>1. PICK n, r, z : n = Len(t) /\ r = f[q] /\ z = feeds[q]
  OBVIOUS
<1>2. /\ n \in Nat /\ i \in 0 .. n /\ q \in 0 .. i /\ q \in 0 .. n /\ f \in [0 .. n -> Seq(Nat)] /\ feeds \in [0 .. n -> Nat]
      /\ off \in [0 .. n -> Nat] /\ t \in Seq(Char)
  BY <1>1 DEF Counted, Collects, Weighs, LineHead
<1>3. r \in Seq(Nat) /\ z \in Nat
  BY <1>1, <1>2
<1> DEFINE T == {j \in 0 .. n : q <= j /\ j <= i => f[j] = r /\ feeds[j] = z}
<1>4. 0 \in T
  <2>1. q <= 0 => q = 0
    BY <1>2
  <2>2. QED BY <1>1, <1>2, <2>1
<1>5. ASSUME NEW j \in 0 .. n - 1, j \in T PROVE j + 1 \in T
  <2>1. PICK h : h = j + 1
    OBVIOUS
  <2>2. h \in 1 .. n /\ h - 1 = j /\ h \in 0 .. n
    BY <1>2, <2>1
  <2>3. ASSUME q <= h, h <= i PROVE f[h] = r /\ feeds[h] = z
    <3>1. CASE h = q
      BY <1>1, <3>1
    <3>2. CASE h # q
      <4>1. q <= j /\ j <= i /\ h \in q + 1 .. i
        BY <1>2, <2>1, <2>2, <2>3, <3>2
      <4>2. f[j] = r /\ feeds[j] = z
        BY <1>5, <4>1
      <4>3. t[h] # LF
        BY <4>1 DEF LineHead
      <4>4. f[h] = f[j] \o IF t[h] = LF THEN <<off[h]>> ELSE <<>>
        BY <1>1, <2>2 DEF Counted, Collects
      <4>5. f[h] = r \o <<>>
        BY <4>2, <4>3, <4>4
      <4>6. f[h] = r
        BY <1>3, <4>5
      <4>7. feeds[h] = feeds[j] + Feed[t[h]]
        BY <1>1, <2>2 DEF Counted, Weighs
      <4>8. t[h] \in Char
        BY <1>1, <1>2, <2>2
      <4>9. Feed[t[h]] = 0
        BY <4>3, <4>8 DEF Feed
      <4>10. QED BY <1>3, <4>2, <4>6, <4>7, <4>9
    <3>3. QED BY <3>1, <3>2
  <2>4. QED BY <2>1, <2>2, <2>3
<1> HIDE DEF T
<1>6. 0 .. n \subseteq T
  BY <1>2, <1>4, <1>5, Ascent
<1>7. f[i] = r /\ feeds[i] = z
  <2>1. i \in T /\ q <= i /\ i <= i
    BY <1>2, <1>6
  <2>2. QED BY <2>1 DEF T
<1>8. r[Len(r)] = off[q]
  <2>1. CASE q = 0
    <3>1. r = <<0>> /\ off[0] = 0
      BY <1>1, <2>1 DEF Counted, Collects, Weighs
    <3>2. Len(r) = 1 /\ r[1] = 0
      BY <3>1
    <3>3. QED BY <2>1, <3>1, <3>2
  <2>2. CASE q # 0
    <3>1. t[q] = LF /\ q \in 1 .. n /\ q - 1 \in 0 .. n
      BY <1>2, <2>2 DEF LineHead
    <3>2. PICK a, o : a = f[q - 1] /\ o = off[q]
      OBVIOUS
    <3>3. a \in Seq(Nat) /\ o \in Nat
      BY <1>2, <3>1, <3>2
    <3>4. f[q] = f[q - 1] \o IF t[q] = LF THEN <<off[q]>> ELSE <<>>
      BY <1>1, <3>1 DEF Counted, Collects
    <3>5. r = a \o <<o>>
      BY <1>1, <3>1, <3>2, <3>4
    <3>6. r = Append(a, o)
      BY <3>3, <3>5
    <3>7. Len(r) = Len(a) + 1 /\ r[Len(a) + 1] = o
      BY <3>3, <3>6, AppendProperties
    <3>8. QED BY <3>2, <3>7
  <2>3. QED BY <2>1, <2>2
<1>9. QED BY <1>1, <1>7, <1>8

(* The line of a place is one more than the line feeds before it, its      *)
(* column is counted from the head of the line.                            *)
LEMMA Located ==
  ASSUME NEW t \in Seq(Char), NEW i \in 0 .. Len(t), NEW q, LineHead(t, i, q)
  PROVE  Location(t, Offset(t, i)) = [line |-> 1 + Sums(t, Feed)[i], column |-> i - q + 1]
<1>1. PICK f : Counted(t, Sums(t, Bytes), Sums(t, Feed), f) /\ LineStarts(t) = f[Len(t)]
  BY Counts
<1>2. PICK off, feeds, n, s, r, m : off = Sums(t, Bytes) /\ feeds = Sums(t, Feed) /\ n = Len(t) /\ s = f[n] /\ r = f[i] /\ m = Len(r)
  OBVIOUS
<1>3. Counted(t, off, feeds, f) /\ n \in Nat /\ i \in 0 .. n /\ n \in 0 .. n /\ LineStarts(t) = s
  BY <1>1, <1>2
<1>4. Starts(r, t, off, feeds, i) /\ Starts(s, t, off, feeds, n)
  BY <1>2, <1>3, StartsAll
<1>5. Extends(s, r, off[i])
  BY <1>2, <1>3, StartsExtend
<1>6. r[m] = off[q] /\ q \in 0 .. i
  BY <1>2, <1>3, LastStart DEF LineHead
<1>7. m = 1 + feeds[i] /\ feeds[i] \in Nat
  BY <1>2, <1>3, <1>4 DEF Starts, Counted, Weighs
<1>8. /\ s \in Seq(Nat) /\ m \in Nat /\ m >= 1 /\ m <= Len(s) /\ s[m] = r[m] /\ r[m] <= off[i]
      /\ \A k \in m + 1 .. Len(s) : s[k] > off[i]
  <2>1. m \in Nat /\ m >= 1
    BY <1>7
  <2>2. s \in Seq(Nat) /\ m <= Len(s) /\ (\A k \in 1 .. m : s[k] = r[k]) /\ \A k \in m + 1 .. Len(s) : s[k] > off[i]
    BY <1>2, <1>4, <1>5 DEF Extends, Starts
  <2>3. \A k \in 1 .. m : r[k] <= off[i]
    BY <1>2, <1>4 DEF Starts
  <2>4. m \in 1 .. m
    BY <2>1
  <2>5. QED BY <2>1, <2>2, <2>3, <2>4
<1>9. off \in [0 .. n -> Nat] /\ off[i] \in Nat
  BY <1>2, <1>3 DEF Counted, Weighs
<1>10. Reach(t, off[i]) = i /\ Offset(t, i) = off[i] /\ Reach(t, off[q]) = q
  <2>1. q \in 0 .. Len(t)
    BY <1>2, <1>3, <1>6
  <2>2. Offset(t, i) = off[i] /\ Offset(t, q) = off[q]
    BY <1>2 DEF Offset
  <2>3. QED BY <2>1, <2>2, ReachOffset
<1> DEFINE B == {k \in DOMAIN s : s[k] <= off[i]}
<1>11. Max(B) = m
  <2>1. PICK l, o : l = Len(s) /\ o = off[i]
    OBVIOUS
  <2>2. l \in Nat /\ DOMAIN s = 1 .. l /\ m \in 1 .. l /\ o \in Nat /\ \A k \in 1 .. l : s[k] \in Nat
    BY <1>8, <1>9, <2>1
  <2>3. B \in SUBSET Nat /\ m \in B
    BY <1>8, <2>1, <2>2
  <2>4. ASSUME NEW k \in B PROVE k <= m
    <3>1. k \in 1 .. l /\ s[k] <= o /\ s[k] \in Nat
      BY <2>1, <2>2
    <3>2. ~ (k \in m + 1 .. l)
      <4>1. k \in m + 1 .. l => s[k] > o
        BY <1>8, <2>1
      <4>2. QED BY <2>2, <3>1, <4>1
    <3>3. QED BY <1>8, <2>2, <3>1, <3>2
  <2> HIDE DEF B
  <2>5. QED BY <2>3, <2>4, MaxIs
<1>12. Location(t, off[i]) = [line |-> m, column |-> i - q + 1]
  <2>1. Location(t, off[i]) = [line |-> Max(B), column |-> i - Reach(t, s[Max(B)]) + 1]
    BY <1>3, <1>10 DEF Location
  <2> HIDE DEF B
  <2>2. QED BY <1>6, <1>8, <1>10, <1>11, <2>1
<1>13. QED BY <1>2, <1>7, <1>10, <1>12

Crlf == [c \in Char |-> IF c = LF THEN <<CR, LF>> ELSE <<c>>]

(* Restoring rewrites each character on its own.                           *)
LEMMA CrlfRewrites ==
  Rewrites(Crlf, Char) /\ LF \in Char /\ CR \in Char /\ LF # CR
<1>1. LF \in Char /\ CR \in Char /\ LF # CR
  BY DEF Char, LF, CR
<1>2. ASSUME NEW c \in Char PROVE (IF c = LF THEN <<CR, LF>> ELSE <<c>>) \in Seq(Char)
  BY <1>1
<1>3. Crlf \in [Char -> Seq(Char)]
  BY <1>2 DEF Crlf
<1>4. QED BY <1>1, <1>3 DEF Rewrites

(* The restored text is the rewritten characters one after the other.      *)
LEMMA RestoringSpreads ==
  ASSUME NEW t \in Seq(Char)
  PROVE  WithCR(t) = Spread(Crlf, t)
<1>1. PICK n : n = Len(t)
  OBVIOUS
<1>2. \A i \in 1 .. n : t[i] \in Char
  BY <1>1
<1>3. \A i \in 1 .. n : (IF t[i] = LF THEN <<CR, LF>> ELSE <<t[i]>>) = Crlf[t[i]]
  BY <1>2 DEF Crlf
<1>4. [i \in 1 .. n |-> IF t[i] = LF THEN <<CR, LF>> ELSE <<t[i]>>] = [i \in 1 .. n |-> Crlf[t[i]]]
  BY <1>3
<1>5. QED BY <1>1, <1>4 DEF WithCR, Spread, Replacements

(* x holds the first e characters of t. *)
Leads(x, t, e) == x \in Seq(Char) /\ Len(x) = e /\ \A k \in 1 .. e : x[k] = t[k]

(* A carriage return that is taken out. *)
Taken(t, m) == m < Len(t) /\ t[m] = CR /\ t[m + 1] = LF

(* A carriage return taken out of each pair comes back with the line feed. *)
LEMMA FrameRestored ==
  ASSUME NEW t \in Seq(Char), IsCrlf(t)
  PROVE  WithoutCR(t) \in Seq(Char) /\ WithCR(WithoutCR(t)) = t
<1>1. PICK n, parts : n = Len(t) /\ parts = [i \in 1 .. n |-> IF Taken(t, i) THEN <<>> ELSE <<t[i]>>]
  OBVIOUS
<1>2. /\ n \in Nat /\ \A i \in 1 .. n : t[i] \in Char
      /\ \A i \in 1 .. n : t[i] = LF => i > 1 /\ t[i - 1] = CR
  BY <1>1 DEF IsCrlf, Feeds, AfterCR
<1>3. parts \in Seq(Seq(Char)) /\ Len(parts) = n
  <2>1. ASSUME NEW i \in 1 .. n PROVE (IF Taken(t, i) THEN <<>> ELSE <<t[i]>>) \in Seq(Char)
    <3>1. t[i] \in Char
      BY <1>2
    <3>2. QED BY <3>1
  <2>2. parts \in [1 .. n -> Seq(Char)]
    BY <1>1, <2>1
  <2>3. QED BY <1>2, <2>2
<1>4. WithoutCR(t) = FlattenSeq(parts)
  BY <1>1 DEF WithoutCR, Taken
<1>5. PICK g : Grows(g, parts, Char)
  BY <1>3, GrowthExists
<1>6. WithoutCR(t) = g[n] /\ WithoutCR(t) \in Seq(Char)
  BY <1>3, <1>4, <1>5, FlattenGrows
<1>7. /\ g \in [0 .. n -> Seq(Char)] /\ g[0] = <<>>
      /\ \A i \in 1 .. n : g[i] = g[i - 1] \o IF Taken(t, i) THEN <<>> ELSE <<t[i]>>
  BY <1>1, <1>3, <1>5 DEF Grows
<1> DEFINE e(m) == IF m > 0 /\ Taken(t, m) THEN m - 1 ELSE m
           T == {m \in 0 .. n : Leads(Spread(Crlf, g[m]), t, e(m))}
<1>8. 0 \in T
  <2>1. Spread(Crlf, g[0]) = <<>>
    BY <1>7, SpreadEmpty
  <2>2. e(0) = 0 /\ 0 \in 0 .. n
    BY <1>2
  <2>3. Leads(<<>>, t, 0)
    BY DEF Leads
  <2> HIDE DEF e
  <2>4. QED BY <2>1, <2>2, <2>3
<1>9. ASSUME NEW m \in 0 .. n - 1, m \in T PROVE m + 1 \in T
  <2>1. PICK h, c, a, x, y, d : h = m + 1 /\ c = t[h] /\ a = g[m] /\ x = Spread(Crlf, a) /\ y = Spread(Crlf, g[h])
                                /\ d = IF Taken(t, h) THEN <<>> ELSE <<c>>
    OBVIOUS
  <2>2. h \in 1 .. n /\ h - 1 = m /\ m \in Nat /\ h \in Nat /\ m \in 0 .. n /\ h \in 0 .. n /\ h > 0
    BY <1>2, <2>1
  <2>3. c \in Char /\ d \in Seq(Char) /\ a \in Seq(Char)
    <3>1. c \in Char /\ a \in Seq(Char)
      BY <1>2, <1>7, <2>1, <2>2
    <3>2. QED BY <2>1, <3>1
  <2>4. y = x \o Spread(Crlf, d)
    <3>1. g[h] = a \o d
      BY <1>7, <2>1, <2>2
    <3>2. Distributes(Crlf, Char)
      BY CrlfRewrites, SpreadConcat
    <3>3. QED BY <2>1, <2>3, <3>1, <3>2 DEF Distributes
  <2>5. Leads(x, t, e(m))
    BY <1>9, <2>1
  <2>6. Leads(y, t, e(h))
    <3>1. CASE Taken(t, h)
      <4>1. c = CR /\ e(h) = m
        BY <2>1, <2>2, <3>1 DEF Taken
      <4>2. ~ Taken(t, m)
        BY <2>1, <4>1, CrlfRewrites DEF Taken
      <4>3. e(m) = m
        BY <4>2
      <4>4. d = <<>>
        BY <2>1, <3>1
      <4>5. Spread(Crlf, d) = <<>>
        BY <4>4, SpreadEmpty
      <4>6. x \in Seq(Char)
        BY <2>5 DEF Leads
      <4>7. y = x
        BY <2>4, <4>5, <4>6
      <4> HIDE DEF e
      <4>8. QED BY <2>5, <4>1, <4>3, <4>7
    <3>2. CASE c = LF
      <4>1. h > 1 /\ t[m] = CR /\ m > 0
        <5>1. t[h] = LF
          BY <2>1, <3>2
        <5>2. h > 1 /\ t[h - 1] = CR
          BY <1>2, <2>2, <5>1
        <5>3. t[m] = CR
          BY <2>2, <5>2
        <5>4. m > 0
          BY <2>2, <5>2
        <5>5. QED BY <5>2, <5>3, <5>4
      <4>2. Taken(t, m) /\ m < n
        BY <1>1, <2>1, <2>2, <3>2, <4>1 DEF Taken
      <4>3. ~ Taken(t, h)
        BY <2>1, <3>2, CrlfRewrites DEF Taken
      <4>4. e(m) = m - 1 /\ e(h) = h
        BY <4>1, <4>2, <4>3
      <4>5. d = <<c>>
        BY <2>1, <4>3
      <4>6. Spread(Crlf, d) = Crlf[c]
        BY <2>3, <4>5, CrlfRewrites, SpreadOne
      <4>7. Crlf[c] = <<CR, LF>>
        BY <2>3, <3>2 DEF Crlf
      <4> HIDE DEF e
      <4>8. PICK l, r : l = m - 1 /\ r = <<CR, LF>>
        OBVIOUS
      <4>9. x \in Seq(Char) /\ Len(x) = l /\ (\A k \in 1 .. l : x[k] = t[k]) /\ l \in Nat /\ y = x \o r
        BY <2>2, <2>4, <2>5, <4>1, <4>4, <4>6, <4>7, <4>8 DEF Leads
      <4>10. r \in Seq(Char) /\ Len(r) = 2 /\ r[1] = CR /\ r[2] = LF
        BY <4>8, CrlfRewrites
      <4>11. y \in Seq(Char) /\ Joins(y, x, r)
        BY <4>9, <4>10, Joined
      <4>12. Len(y) = l + 2 /\ (\A k \in 1 .. l : y[k] = x[k]) /\ y[l + 1] = CR /\ y[l + 2] = LF
        <5>1. Len(y) = l + 2 /\ (\A k \in 1 .. l : y[k] = x[k]) /\ \A k \in 1 .. 2 : y[l + k] = r[k]
          BY <4>9, <4>10, <4>11 DEF Joins
        <5>2. 1 \in 1 .. 2 /\ 2 \in 1 .. 2
          OBVIOUS
        <5>3. QED BY <4>10, <5>1, <5>2
      <4>13. l + 2 = h /\ l + 1 = m
        BY <2>1, <2>2, <4>8
      <4>14. ASSUME NEW k \in 1 .. h PROVE y[k] = t[k]
        <5>1. CASE k = h
          BY <2>1, <3>2, <4>12, <4>13, <5>1
        <5>2. CASE k = m
          BY <4>1, <4>12, <4>13, <5>2
        <5>3. CASE k # h /\ k # m
          <6>1. k \in 1 .. l
            BY <2>2, <4>9, <4>13, <5>3
          <6>2. QED BY <4>9, <4>12, <6>1
        <5>4. QED BY <5>1, <5>2, <5>3
      <4>15. Leads(y, t, h)
        BY <4>11, <4>12, <4>13, <4>14 DEF Leads
      <4>16. QED BY <4>4, <4>15
    <3>3. CASE ~ Taken(t, h) /\ c # LF
      <4>1. ~ Taken(t, m)
        BY <2>1, <3>3 DEF Taken
      <4>2. e(m) = m /\ e(h) = h
        BY <3>3, <4>1
      <4>3. d = <<c>>
        BY <2>1, <3>3
      <4>4. Spread(Crlf, d) = Crlf[c]
        BY <2>3, <4>3, CrlfRewrites, SpreadOne
      <4>5. Crlf[c] = <<c>>
        BY <2>3, <3>3 DEF Crlf
      <4> HIDE DEF e
      <4>6. x \in Seq(Char) /\ Len(x) = m /\ \A k \in 1 .. m : x[k] = t[k]
        BY <2>5, <4>2 DEF Leads
      <4>7. y = Append(x, c)
        BY <2>3, <2>4, <4>4, <4>5, <4>6
      <4>8. y \in Seq(Char) /\ Len(y) = m + 1 /\ y[m + 1] = c /\ \A k \in 1 .. m : y[k] = x[k]
        BY <2>3, <4>6, <4>7, AppendProperties
      <4>9. ASSUME NEW k \in 1 .. h PROVE y[k] = t[k]
        <5>1. CASE k = h
          BY <2>1, <4>8, <5>1
        <5>2. CASE k # h
          <6>1. k \in 1 .. m
            BY <2>1, <2>2, <5>2
          <6>2. QED BY <4>6, <4>8, <6>1
        <5>3. QED BY <5>1, <5>2
      <4>10. Leads(y, t, h)
        BY <2>1, <4>8, <4>9 DEF Leads
      <4>11. QED BY <4>2, <4>10
    <3>4. QED BY <3>1, <3>2, <3>3
  <2> HIDE DEF e
  <2>7. QED BY <2>1, <2>2, <2>6
<1> HIDE DEF T
<1>10. 0 .. n \subseteq T
  BY <1>2, <1>8, <1>9, Ascent
<1>11. Leads(Spread(Crlf, g[n]), t, n)
  <2>1. n \in T
    BY <1>2, <1>10
  <2>2. ~ Taken(t, n)
    BY <1>1, <1>2 DEF Taken
  <2>3. e(n) = n
    BY <2>2
  <2> HIDE DEF e
  <2>4. QED BY <2>1, <2>3 DEF T
<1>12. PICK x : x = Spread(Crlf, g[n])
  OBVIOUS
<1>13. x = t
  <2>1. x \in Seq(Char) /\ Len(x) = n /\ \A k \in 1 .. n : x[k] = t[k]
    BY <1>11, <1>12 DEF Leads
  <2>2. x \in [1 .. n -> Char] /\ t \in [1 .. n -> Char]
    BY <1>1, <2>1
  <2>3. QED BY <2>1, <2>2
<1>14. WithCR(g[n]) = Spread(Crlf, g[n])
  BY <1>6, RestoringSpreads
<1>15. QED BY <1>6, <1>12, <1>13, <1>14

(* x is the first m characters of u with its line feeds restored, v counts *)
(* the line feeds.                                                         *)
At(v, i) == i + v[i]

Stands(x, u, v, i) ==
  /\ At(v, i) \in 1 .. Len(x)
  /\ IF u[i] = LF
       THEN v[i] = v[i - 1] + 1 /\ x[At(v, i) - 1] = CR /\ x[At(v, i)] = LF
       ELSE v[i] = v[i - 1] /\ x[At(v, i)] = u[i]

Paired(x, u, v, m) == x \in Seq(Char) /\ Len(x) = m + v[m] /\ \A i \in 1 .. m : Stands(x, u, v, i)

(* One character more keeps the pairing of the two texts.                  *)
LEMMA PairedStep ==
  ASSUME NEW u \in Seq(Char), NEW v, Weighs(v, u, Feed), NEW m \in 0 .. Len(u) - 1,
         NEW x, Paired(x, u, v, m)
  PROVE  Paired(x \o Crlf[u[m + 1]], u, v, m + 1)
<1>1. PICK n, h, c, p, y : n = Len(u) /\ h = m + 1 /\ c = u[h] /\ p = Crlf[c] /\ y = x \o p
  OBVIOUS
<1>2. n \in Nat /\ h \in 1 .. n /\ h \in Nat /\ m \in Nat /\ h - 1 = m /\ h = m + 1 /\ c \in Char
  BY <1>1
<1>3. /\ v \in [0 .. n -> Nat] /\ v[m] \in Nat /\ v[h] \in Nat /\ v[h] = v[m] + Feed[c] /\ v[h - 1] = v[m]
  <2>1. v \in [0 .. n -> Nat] /\ v[h] = v[h - 1] + Feed[c]
    BY <1>1, <1>2 DEF Weighs
  <2>2. m \in 0 .. n /\ h \in 0 .. n
    BY <1>2
  <2>3. v[h - 1] = v[m]
    BY <1>2
  <2>4. QED BY <2>1, <2>2, <2>3
<1>4. p \in Seq(Char)
  BY <1>1, <1>2, CrlfRewrites DEF Rewrites
<1>5. x \in Seq(Char) /\ Len(x) = m + v[m] /\ \A i \in 1 .. m : Stands(x, u, v, i)
  BY DEF Paired
<1>6. y \in Seq(Char) /\ Joins(y, x, p)
  BY <1>1, <1>4, <1>5, Joined
<1>7. PICK l, z, w : l = Len(x) /\ z = v[m] /\ w = v[h]
  OBVIOUS
<1>8. l \in Nat /\ l = m + z /\ z \in Nat /\ w \in Nat /\ w = z + Feed[c]
  BY <1>2, <1>3, <1>5, <1>7
<1>9. Len(y) = l + Len(p) /\ (\A k \in 1 .. l : y[k] = x[k]) /\ \A k \in 1 .. Len(p) : y[l + k] = p[k]
  BY <1>6, <1>7 DEF Joins
<1>10. Len(y) = h + w /\ Stands(y, u, v, h)
  <2>1. CASE c = LF
    <3>1. Feed[c] = 1 /\ p = <<CR, LF>>
      BY <1>1, <1>2, <2>1 DEF Feed, Crlf
    <3>2. Len(p) = 2 /\ p[1] = CR /\ p[2] = LF
      BY <3>1
    <3>3. w = z + 1
      BY <1>8, <3>1
    <3>4. Len(y) = l + 2 /\ y[l + 1] = CR /\ y[l + 2] = LF
      <4>1. 1 \in 1 .. 2 /\ 2 \in 1 .. 2
        OBVIOUS
      <4>2. QED BY <1>9, <3>2, <4>1
    <3>5. h + w = l + 2 /\ h + w - 1 = l + 1 /\ h + w \in 1 .. l + 2
      BY <1>2, <1>8, <3>3
    <3>6. Len(y) = h + w
      BY <3>4, <3>5
    <3>7. At(v, h) = h + w
      BY <1>7 DEF At
    <3>8. v[h] = v[h - 1] + 1
      BY <1>3, <1>7, <3>3
    <3>9. y[At(v, h)] = LF /\ y[At(v, h) - 1] = CR /\ At(v, h) \in 1 .. Len(y)
      <4>1. PICK q : q = h + w
        OBVIOUS
      <4>2. q = l + 2 /\ q - 1 = l + 1 /\ q \in 1 .. l + 2 /\ At(v, h) = q
        BY <1>2, <1>8, <3>3, <3>7, <4>1
      <4>3. y[q] = LF /\ y[q - 1] = CR
        BY <3>4, <4>2
      <4>4. q \in 1 .. Len(y)
        BY <3>4, <4>2
      <4>5. QED BY <4>2, <4>3, <4>4
    <3>10. QED BY <1>1, <2>1, <3>6, <3>8, <3>9 DEF Stands
  <2>2. CASE c # LF
    <3>1. Feed[c] = 0 /\ p = <<c>>
      BY <1>1, <1>2, <2>2 DEF Feed, Crlf
    <3>2. Len(p) = 1 /\ p[1] = c
      BY <3>1
    <3>3. w = z
      BY <1>8, <3>1
    <3>4. Len(y) = l + 1 /\ y[l + 1] = c
      <4>1. 1 \in 1 .. 1
        OBVIOUS
      <4>2. QED BY <1>9, <3>2, <4>1
    <3>5. h + w = l + 1 /\ h + w \in 1 .. l + 1
      BY <1>2, <1>8, <3>3
    <3>6. Len(y) = h + w
      BY <3>4, <3>5
    <3>7. At(v, h) = h + w
      BY <1>7 DEF At
    <3>8. v[h] = v[h - 1]
      BY <1>3, <1>7, <3>3
    <3>9. y[At(v, h)] = c /\ At(v, h) \in 1 .. Len(y)
      BY <3>4, <3>5, <3>6, <3>7
    <3>10. QED BY <1>1, <2>2, <3>6, <3>8, <3>9 DEF Stands
  <2>3. QED BY <2>1, <2>2
<1>11. ASSUME NEW i \in 1 .. m PROVE Stands(y, u, v, i)
  <2>1. PICK a : a = At(v, i)
    OBVIOUS
  <2>2. Stands(x, u, v, i) /\ a \in 1 .. l
    BY <1>5, <1>7, <2>1 DEF Stands
  <2>3. y[a] = x[a] /\ a \in 1 .. Len(y)
    <3>1. Len(p) \in Nat
      BY <1>4
    <3>2. a \in 1 .. l + Len(p)
      BY <1>8, <2>2, <3>1
    <3>3. QED BY <1>9, <2>2, <3>2
  <2>4. CASE u[i] = LF
    <3>1. v[i] = v[i - 1] + 1 /\ x[a - 1] = CR /\ x[a] = LF
      BY <2>1, <2>2, <2>4 DEF Stands
    <3>2. a - 1 \in 1 .. l
      <4>1. v[i - 1] \in Nat /\ i \in Nat /\ i >= 1 /\ v[i] \in Nat
        <5>1. i - 1 \in 0 .. n /\ i \in 0 .. n /\ i \in Nat /\ i >= 1
          BY <1>1, <1>2
        <5>2. QED BY <1>3, <5>1
      <4>2. PICK b, d : b = v[i] /\ d = v[i - 1]
        OBVIOUS
      <4>3. b = d + 1 /\ d \in Nat /\ b \in Nat /\ i \in Nat /\ i >= 1 /\ a = i + b
        BY <2>1, <3>1, <4>1, <4>2 DEF At
      <4>4. a - 1 >= 1
        BY <4>3
      <4>5. QED BY <1>8, <2>2, <4>4
    <3>3. y[a - 1] = x[a - 1]
      BY <1>9, <3>2
    <3>4. QED BY <2>1, <2>3, <2>4, <3>1, <3>3 DEF Stands
  <2>5. CASE u[i] # LF
    BY <2>1, <2>2, <2>3, <2>5 DEF Stands
  <2>6. QED BY <2>4, <2>5
<1>12. \A i \in 1 .. h : Stands(y, u, v, i)
  <2>1. \A i \in 1 .. h : i = h \/ i \in 1 .. m
    BY <1>1, <1>2
  <2>2. QED BY <1>10, <1>11, <2>1
<1>13. Paired(y, u, v, h)
  BY <1>6, <1>7, <1>10, <1>12 DEF Paired
<1>14. QED BY <1>1, <1>13

(* Every character of a text has its place in the text with line feeds     *)
(* restored, as many places further as there are line feeds up to it.      *)
LEMMA RestoredPlaces ==
  ASSUME NEW u \in Seq(Char)
  PROVE  Paired(WithCR(u), u, Sums(u, Feed), Len(u))
<1>1. PICK n, v, parts : n = Len(u) /\ v = Sums(u, Feed) /\ parts = Replacements(Crlf, u)
  OBVIOUS
<1>2. n \in Nat /\ Weighs(v, u, Feed)
  <2>1. Feed \in [Char -> Nat]
    BY DEF Feed
  <2>2. QED BY <1>1, <2>1, SumsWeigh
<1>3. parts \in Seq(Seq(Char)) /\ Len(parts) = n /\ \A i \in 1 .. n : parts[i] = Crlf[u[i]]
  BY <1>1, CrlfRewrites, ReplacedTyped
<1>4. PICK g : Grows(g, parts, Char)
  BY <1>3, GrowthExists
<1>5. g[0] = <<>> /\ \A i \in 1 .. n : g[i] = g[i - 1] \o Crlf[u[i]]
  BY <1>3, <1>4 DEF Grows
<1>6. WithCR(u) = g[n]
  <2>1. WithCR(u) = FlattenSeq(parts)
    BY <1>1, RestoringSpreads DEF Spread
  <2>2. QED BY <1>3, <1>4, <2>1, FlattenGrows
<1> DEFINE T == {m \in 0 .. n : Paired(g[m], u, v, m)}
<1>7. 0 \in T
  <2>1. v[0] = 0
    BY <1>2 DEF Weighs
  <2>2. Paired(<<>>, u, v, 0)
    BY <2>1 DEF Paired
  <2>3. 0 \in 0 .. n /\ Paired(g[0], u, v, 0)
    BY <1>2, <1>5, <2>2
  <2>4. QED BY <2>3
<1>8. ASSUME NEW m \in 0 .. n - 1, m \in T PROVE m + 1 \in T
  <2>1. m + 1 \in 1 .. n /\ m + 1 \in 0 .. n /\ (m + 1) - 1 = m
    BY <1>2
  <2>2. Paired(g[m], u, v, m)
    BY <1>8
  <2>3. g[m + 1] = g[m] \o Crlf[u[m + 1]]
    BY <1>5, <2>1
  <2>4. Paired(g[m] \o Crlf[u[m + 1]], u, v, m + 1)
    BY <1>1, <1>2, <2>2, PairedStep
  <2>5. Paired(g[m + 1], u, v, m + 1)
    BY <2>3, <2>4
  <2>6. QED BY <2>1, <2>5
<1> HIDE DEF T
<1>9. 0 .. n \subseteq T
  BY <1>2, <1>7, <1>8, Ascent
<1>10. Paired(g[n], u, v, n)
  BY <1>2, <1>9 DEF T
<1>11. QED BY <1>1, <1>6, <1>10

(* What is counted in the text with line feeds restored, at the places of  *)
(* the characters of the text without: offsets are further by the line     *)
(* feeds, and these are the same.                                          *)
LEMMA SumsRestored ==
  ASSUME NEW u \in Seq(Char), NEW t, t = WithCR(u), NEW i \in 0 .. Len(u)
  PROVE  LET v == Sums(u, Feed)
         IN  /\ t \in Seq(Char) /\ At(v, i) \in 0 .. Len(t)
             /\ Offset(t, At(v, i)) = Offset(u, i) + v[i]
             /\ Sums(t, Feed)[At(v, i)] = v[i]
<1>1. PICK n, m, v, w, o, s : n = Len(u) /\ m = Len(t) /\ v = Sums(u, Feed) /\ w = Sums(t, Feed)
                              /\ o = Sums(u, Bytes) /\ s = Sums(t, Bytes)
  OBVIOUS
<1>2. Bytes \in [Char -> Nat] /\ Feed \in [Char -> Nat] /\ Bytes[LF] = 1 /\ Bytes[CR] = 1 /\ Feed[LF] = 1 /\ Feed[CR] = 0
      /\ \A c \in Char : c # LF => Feed[c] = 0
  <2>1. Bytes \in [Char -> Nat] /\ Feed \in [Char -> Nat]
    BY DEF Bytes, Feed
  <2>2. Bytes[LF] = 1 /\ Bytes[CR] = 1
    BY DEF Bytes, LF, CR, Char
  <2>3. \A c \in Char : Feed[c] = IF c = LF THEN 1 ELSE 0
    BY DEF Feed
  <2>4. QED BY <2>1, <2>2, <2>3, CrlfRewrites
<1>3. Paired(t, u, v, n) /\ t \in Seq(Char)
  BY <1>1, RestoredPlaces DEF Paired
<1>4. n \in Nat /\ m \in Nat /\ m = n + v[n] /\ Weighs(v, u, Feed) /\ Weighs(o, u, Bytes) /\ Weighs(w, t, Feed) /\ Weighs(s, t, Bytes)
  <2>1. n \in Nat /\ m \in Nat /\ m = n + v[n]
    BY <1>1, <1>3 DEF Paired
  <2>2. Weighs(v, u, Feed) /\ Weighs(o, u, Bytes) /\ Weighs(w, t, Feed) /\ Weighs(s, t, Bytes)
    BY <1>1, <1>2, <1>3, SumsWeigh
  <2>3. QED BY <2>1, <2>2
<1>5. /\ v \in [0 .. n -> Nat] /\ v[0] = 0 /\ \A j \in 1 .. n : v[j] = v[j - 1] + Feed[u[j]]
      /\ o \in [0 .. n -> Nat] /\ o[0] = 0 /\ \A j \in 1 .. n : o[j] = o[j - 1] + Bytes[u[j]]
      /\ w \in [0 .. m -> Nat] /\ w[0] = 0 /\ \A j \in 1 .. m : w[j] = w[j - 1] + Feed[t[j]]
      /\ s \in [0 .. m -> Nat] /\ s[0] = 0 /\ \A j \in 1 .. m : s[j] = s[j - 1] + Bytes[t[j]]
  BY <1>1, <1>4 DEF Weighs
<1> DEFINE Even(j) == At(v, j) \in 0 .. m /\ s[At(v, j)] = o[j] + v[j] /\ w[At(v, j)] = v[j]
           T == {j \in 0 .. n : Even(j)}
<1>6. 0 \in T
  <2>1. At(v, 0) = 0 /\ 0 \in 0 .. m /\ 0 \in 0 .. n
    BY <1>4, <1>5 DEF At
  <2>2. s[0] = o[0] + v[0] /\ w[0] = v[0]
    BY <1>5
  <2>3. QED BY <2>1, <2>2
<1>7. ASSUME NEW j \in 0 .. n - 1, j \in T PROVE j + 1 \in T
  <2>1. PICK h, c, a, b, vj, vh : h = j + 1 /\ c = u[h] /\ a = At(v, j) /\ b = At(v, h) /\ vj = v[j] /\ vh = v[h]
    OBVIOUS
  <2>2. h \in 1 .. n /\ h - 1 = j /\ h = j + 1 /\ j \in Nat /\ h \in 0 .. n /\ j \in 0 .. n /\ c \in Char
    BY <1>1, <1>4, <2>1
  <2>3. vj \in Nat /\ vh \in Nat /\ a = j + vj /\ b = h + vh
    BY <1>5, <2>1, <2>2 DEF At
  <2>4. a \in 0 .. m /\ s[a] = o[j] + vj /\ w[a] = vj
    BY <1>7, <2>1
  <2>5. Stands(t, u, v, h)
    BY <1>3, <2>2 DEF Paired
  <2>6. PICK oj, oh : oj = o[j] /\ oh = o[h]
    OBVIOUS
  <2>7. oj \in Nat /\ oh \in Nat /\ oh = oj + Bytes[c]
    <3>1. o[h] = o[h - 1] + Bytes[u[h]]
      BY <1>5, <2>2
    <3>2. o[h - 1] = o[j]
      BY <2>2
    <3>3. o[j] \in Nat /\ o[h] \in Nat
      BY <1>5, <2>2
    <3>4. QED BY <2>1, <2>6, <3>1, <3>2, <3>3
  <2>8. b \in 1 .. m /\ b \in 0 .. m
    BY <1>1, <1>4, <2>1, <2>5 DEF Stands
  <2>9. v[h - 1] = vj
    BY <2>1, <2>2
  <2>10. CASE c = LF
    <3>1. vh = vj + 1 /\ t[b - 1] = CR /\ t[b] = LF
      BY <2>1, <2>5, <2>9, <2>10 DEF Stands
    <3>2. b - 1 = a + 1 /\ a + 1 \in 1 .. m /\ a + 1 \in 0 .. m /\ (a + 1) - 1 = a /\ b = a + 2
      BY <1>4, <2>2, <2>3, <2>4, <2>8, <3>1
    <3>3. t[a + 1] = CR
      BY <3>1, <3>2
    <3>4. s[a + 1] = s[a] + 1 /\ w[a + 1] = w[a] + 0
      <4>1. s[a + 1] = s[(a + 1) - 1] + Bytes[t[a + 1]] /\ w[a + 1] = w[(a + 1) - 1] + Feed[t[a + 1]]
        BY <1>5, <3>2
      <4>2. QED BY <1>2, <3>2, <3>3, <4>1
    <3>5. s[b] = s[a + 1] + 1 /\ w[b] = w[a + 1] + 1
      <4>1. s[b] = s[b - 1] + Bytes[t[b]] /\ w[b] = w[b - 1] + Feed[t[b]]
        BY <1>5, <2>8
      <4>2. QED BY <1>2, <3>1, <3>2, <4>1
    <3>6. oh = oj + 1
      BY <1>2, <2>7, <2>10
    <3>7. PICK x, y, z : x = s[a + 1] /\ y = w[a + 1] /\ z = s[a]
      OBVIOUS
    <3>8. z = oj + vj /\ x = z + 1 /\ s[b] = x + 1 /\ y = vj + 0 /\ w[b] = y + 1
      BY <2>4, <2>6, <3>4, <3>5, <3>7
    <3>9. s[b] = oh + vh /\ w[b] = vh
      <4>1. PICK sb, wb : sb = s[b] /\ wb = w[b]
        OBVIOUS
      <4>2. vj \in Nat /\ oj \in Nat /\ vh = vj + 1 /\ oh = oj + 1 /\ z = oj + vj /\ x = z + 1 /\ sb = x + 1
            /\ y = vj + 0 /\ wb = y + 1
        BY <2>3, <2>7, <3>1, <3>6, <3>8, <4>1
      <4>3. sb = oh + vh /\ wb = vh
        BY <4>2
      <4>4. QED BY <4>1, <4>3
    <3>10. Even(h)
      BY <2>1, <2>6, <2>8, <3>9
    <3> HIDE DEF Even
    <3>11. QED BY <2>1, <2>2, <3>10
  <2>11. CASE c # LF
    <3>1. vh = vj /\ t[b] = c
      BY <2>1, <2>5, <2>9, <2>11 DEF Stands
    <3>2. b - 1 = a
      BY <2>2, <2>3, <3>1
    <3>3. s[b] = s[a] + Bytes[c] /\ w[b] = w[a] + Feed[c]
      <4>1. s[b] = s[b - 1] + Bytes[t[b]] /\ w[b] = w[b - 1] + Feed[t[b]]
        BY <1>5, <2>8
      <4>2. QED BY <3>1, <3>2, <4>1
    <3>4. PICK y, z : y = Bytes[c] /\ z = s[a]
      OBVIOUS
    <3>5. y \in Nat
      BY <1>2, <2>2, <3>4
    <3>6. Feed[c] = 0
      BY <1>2, <2>2, <2>11
    <3>7. z = oj + vj /\ s[b] = z + y /\ w[b] = vj + 0 /\ oh = oj + y
      BY <2>4, <2>6, <2>7, <3>3, <3>4, <3>6
    <3>8. s[b] = oh + vh /\ w[b] = vh
      BY <2>3, <2>7, <3>1, <3>5, <3>7
    <3>9. Even(h)
      BY <2>1, <2>6, <2>8, <3>8
    <3> HIDE DEF Even
    <3>10. QED BY <2>1, <2>2, <3>9
  <2>12. QED BY <2>10, <2>11
<1> HIDE DEF T
<1>8. 0 .. n \subseteq T
  BY <1>4, <1>6, <1>7, Ascent
<1>9. Even(i)
  <2> HIDE DEF Even
  <2>1. i \in T
    BY <1>1, <1>8
  <2>2. QED BY <2>1 DEF T
<1>10. QED BY <1>1, <1>3, <1>9 DEF Offset

(* A line of the one text is a line of the other. *)
LEMMA HeadRestored ==
  ASSUME NEW u \in Seq(Char), NEW t, t = WithCR(u), NEW i \in 0 .. Len(u), NEW q, LineHead(u, i, q)
  PROVE  LET v == Sums(u, Feed)
         IN  LineHead(t, At(v, i), At(v, q)) /\ At(v, i) - At(v, q) = i - q
<1>1. PICK n, v, z, a, b : n = Len(u) /\ v = Sums(u, Feed) /\ z = v[q] /\ a = At(v, i) /\ b = At(v, q)
  OBVIOUS
<1>2. PICK f : Counted(u, Sums(u, Bytes), v, f)
  BY <1>1, Counts
<1>3. n \in Nat /\ i \in 0 .. n /\ q \in 0 .. i /\ q \in 0 .. n /\ i \in Nat /\ q \in Nat
  BY <1>1 DEF LineHead
<1>4. Weighs(v, u, Feed) /\ v \in [0 .. n -> Nat] /\ v[0] = 0
  BY <1>1, <1>2 DEF Counted, Weighs
<1>5. Paired(t, u, v, n)
  BY <1>1, RestoredPlaces
<1>6. ASSUME NEW j \in q .. i PROVE v[j] = z /\ j \in 0 .. n
  <2>1. j \in 0 .. Len(u) /\ j \in 0 .. n
    BY <1>1, <1>3
  <2>2. LineHead(u, j, q)
    <3>1. q \in 0 .. j /\ \A k \in q + 1 .. j : k \in q + 1 .. i
      BY <1>3
    <3>2. QED BY <3>1 DEF LineHead
  <2>3. QED BY <1>1, <1>2, <2>1, <2>2, LastStart
<1>7. z \in Nat /\ a = i + z /\ b = q + z
  <2>1. i \in q .. i /\ q \in q .. i
    BY <1>3
  <2>2. v[i] = z
    BY <1>6, <2>1
  <2>3. z \in Nat
    BY <1>1, <1>3, <1>4
  <2>4. QED BY <1>1, <2>2, <2>3 DEF At
<1>8. a - b = i - q /\ b \in 0 .. a
  BY <1>3, <1>7
<1>9. b = 0 \/ t[b] = LF
  <2>1. CASE q = 0
    BY <1>1, <1>4, <1>7, <2>1
  <2>2. CASE q # 0
    <3>1. u[q] = LF /\ q \in 1 .. n
      BY <1>3, <2>2 DEF LineHead
    <3>2. Stands(t, u, v, q)
      BY <1>5, <3>1 DEF Paired
    <3>3. QED BY <1>1, <3>1, <3>2 DEF Stands
  <2>3. QED BY <2>1, <2>2
<1>10. ASSUME NEW k \in b + 1 .. a PROVE t[k] # LF
  <2>1. PICK j : j = k - z
    OBVIOUS
  <2>2. j \in q + 1 .. i /\ j \in q .. i /\ j + z = k /\ j \in 1 .. n
    BY <1>3, <1>7, <2>1
  <2>3. v[j] = z
    BY <1>6, <2>2
  <2>4. u[j] # LF
    BY <2>2 DEF LineHead
  <2>5. Stands(t, u, v, j)
    BY <1>5, <2>2 DEF Paired
  <2>6. t[At(v, j)] = u[j]
    BY <2>4, <2>5 DEF Stands
  <2>7. At(v, j) = k
    BY <2>2, <2>3 DEF At
  <2>8. QED BY <2>4, <2>6, <2>7
<1>11. LineHead(t, a, b)
  BY <1>8, <1>9, <1>10 DEF LineHead
<1>12. QED BY <1>1, <1>8, <1>11

(* Where an offset of the text without carriage returns lies in the other. *)
SamePlace(t, u, i, m) ==
  /\ m \in Boundaries(t)
  /\ Location(t, m) = Location(u, Offset(u, i))
  /\ i < Len(u) =>
       \E j \in 1 .. Len(t) :
         /\ Offset(t, j) - Bytes[t[j]] = m
         /\ t[j] = u[i + 1] \/ (u[i + 1] = LF /\ t[j] = CR)

(* An offset of the LF text is the same place of the CRLF text, when the   *)
(* line feeds before it are added.                                         *)
LEMMA OffsetRestored ==
  ASSUME NEW u \in Seq(Char), NEW t, t = WithCR(u), NEW i \in 0 .. Len(u)
  PROVE  SamePlace(t, u, i, OriginalOffset(u, Offset(u, i), TRUE))
<1>1. PICK n, v, p, m : n = Len(u) /\ v = Sums(u, Feed) /\ p = At(v, i) /\ m = OriginalOffset(u, Offset(u, i), TRUE)
  OBVIOUS
<1>2. t \in Seq(Char) /\ p \in 0 .. Len(t) /\ Offset(t, p) = Offset(u, i) + v[i] /\ Sums(t, Feed)[p] = v[i]
  BY <1>1, SumsRestored
<1>3. m = Offset(t, p)
  <2>1. Reach(u, Offset(u, i)) = i
    BY ReachOffset
  <2>2. FeedsBefore(u, Offset(u, i)) = v[i]
    BY <1>1, <2>1 DEF FeedsBefore
  <2>3. QED BY <1>1, <1>2, <2>2 DEF OriginalOffset
<1>4. m \in Boundaries(t)
  BY <1>2, <1>3 DEF Boundaries
<1>5. Location(t, m) = Location(u, Offset(u, i))
  <2>1. PICK q : LineHead(u, i, q)
    BY HeadExists
  <2>2. PICK b : b = At(v, q)
    OBVIOUS
  <2>3. LineHead(t, p, b) /\ p - b = i - q
    BY <1>1, <2>1, <2>2, HeadRestored
  <2>4. Location(u, Offset(u, i)) = [line |-> 1 + v[i], column |-> i - q + 1]
    BY <1>1, <2>1, Located
  <2>5. Location(t, Offset(t, p)) = [line |-> 1 + Sums(t, Feed)[p], column |-> p - b + 1]
    BY <1>2, <2>3, Located
  <2>6. QED BY <1>2, <1>3, <2>3, <2>4, <2>5
<1>6. ASSUME i < Len(u)
      PROVE  \E j \in 1 .. Len(t) :
               /\ Offset(t, j) - Bytes[t[j]] = m
               /\ t[j] = u[i + 1] \/ (u[i + 1] = LF /\ t[j] = CR)
  <2>1. PICK h, j, l, s : h = i + 1 /\ j = p + 1 /\ l = Len(t) /\ s = Sums(t, Bytes)
    OBVIOUS
  <2>2. n \in Nat /\ i \in Nat /\ h \in 1 .. n /\ h - 1 = i /\ l \in Nat /\ p \in 0 .. l
    BY <1>1, <1>2, <1>6, <2>1
  <2>3. Paired(t, u, v, n)
    BY <1>1, RestoredPlaces
  <2>4. Stands(t, u, v, h)
    BY <2>2, <2>3 DEF Paired
  <2>5. v[h - 1] = v[i] /\ v[i] \in Nat /\ v[h] \in Nat
    <3>1. Weighs(v, u, Feed)
      <4>1. Feed \in [Char -> Nat]
        BY DEF Feed
      <4>2. QED BY <1>1, <4>1, SumsWeigh
    <3>2. v \in [0 .. n -> Nat] /\ i \in 0 .. n /\ h \in 0 .. n
      BY <1>1, <2>2, <3>1 DEF Weighs
    <3>3. QED BY <2>2, <3>2
  <2>6. PICK x, y, e : x = v[i] /\ y = v[h] /\ e = At(v, h)
    OBVIOUS
  <2>7. x \in Nat /\ y \in Nat /\ p = i + x /\ e = h + y /\ e \in 1 .. l /\ h = i + 1 /\ j = p + 1
    BY <1>1, <2>1, <2>4, <2>5, <2>6 DEF At, Stands
  <2>8. j \in 1 .. l /\ (t[j] = u[h] \/ (u[h] = LF /\ t[j] = CR))
    <3>1. CASE u[h] = LF
      <4>1. y = x + 1 /\ t[e - 1] = CR
        BY <2>4, <2>5, <2>6, <3>1 DEF Stands
      <4>2. e - 1 = j /\ j \in 1 .. l
        BY <2>2, <2>7, <4>1
      <4>3. QED BY <3>1, <4>1, <4>2
    <3>2. CASE u[h] # LF
      <4>1. y = x /\ t[e] = u[h]
        BY <2>4, <2>5, <2>6, <3>2 DEF Stands
      <4>2. e = j /\ j \in 1 .. l
        BY <2>2, <2>7, <4>1
      <4>3. QED BY <4>1, <4>2
    <3>3. QED BY <3>1, <3>2
  <2>9. s[j] - Bytes[t[j]] = m
    <3>1. Weighs(s, t, Bytes) /\ Bytes[t[j]] \in Nat
      BY <1>2, <2>1, <2>8, OffsetsClimb
    <3>2. j - 1 = p /\ p \in 0 .. l
      BY <2>2, <2>7
    <3>3. s[j] = s[p] + Bytes[t[j]] /\ s[p] \in Nat
      BY <2>1, <2>8, <3>1, <3>2 DEF Weighs
    <3>4. s[p] = m
      BY <1>3, <2>1 DEF Offset
    <3>5. QED BY <3>1, <3>3, <3>4
  <2>10. Offset(t, j) = s[j]
    BY <2>1 DEF Offset
  <2>11. QED BY <2>1, <2>8, <2>9, <2>10
<1>7. QED BY <1>1, <1>4, <1>5, <1>6 DEF SamePlace

(* A text that is formatted as it is. *)
LEMMA OffsetKept ==
  ASSUME NEW t \in Seq(Char), NEW i \in 0 .. Len(t)
  PROVE  SamePlace(t, t, i, OriginalOffset(t, Offset(t, i), FALSE))
<1>1. PICK m, l, s : m = Offset(t, i) /\ l = Len(t) /\ s = Sums(t, Bytes)
  OBVIOUS
<1>2. OriginalOffset(t, Offset(t, i), FALSE) = m
  BY <1>1 DEF OriginalOffset
<1>3. m \in Boundaries(t)
  BY <1>1 DEF Boundaries
<1>4. ASSUME i < Len(t)
      PROVE  \E j \in 1 .. Len(t) : Offset(t, j) - Bytes[t[j]] = m /\ t[j] = t[i + 1]
  <2>1. PICK j : j = i + 1
    OBVIOUS
  <2>2. l \in Nat /\ j \in 1 .. l /\ j - 1 = i /\ i \in 0 .. l
    BY <1>1, <1>4, <2>1
  <2>3. Weighs(s, t, Bytes) /\ Bytes[t[j]] \in Nat
    BY <1>1, <2>2, OffsetsClimb
  <2>4. s[j] = s[i] + Bytes[t[j]] /\ s[i] \in Nat
    BY <1>1, <2>2, <2>3 DEF Weighs
  <2>5. s[j] - Bytes[t[j]] = s[i]
    BY <2>3, <2>4
  <2>6. QED BY <1>1, <2>1, <2>2, <2>5 DEF Offset
<1>5. QED BY <1>1, <1>2, <1>3, <1>4 DEF SamePlace

(* What is answered for a text. *)
PlacesOf(t) ==
  LET lf == NormalizeNewlines(t)
  IN  [text |-> lf.text, crlf |-> lf.crlf, back |-> RestoreNewlines(lf.text, lf.crlf),
       mapped |-> [i \in 0 .. Len(lf.text) |-> OriginalOffset(lf.text, Offset(lf.text, i), lf.crlf)]]

FramesOf(t, a) ==
  /\ a.back = t
  /\ \A i \in 0 .. Len(a.text) : SamePlace(t, a.text, i, a.mapped[i])

(* What is answered for a text comes back as that text, place by place.    *)
LEMMA FramesOfText ==
  ASSUME NEW t \in Seq(Char)
  PROVE  FramesOf(t, PlacesOf(t))
<1>1. CASE IsCrlf(t)
  <2>1. PICK u, m, a : u = WithoutCR(t) /\ a = PlacesOf(t)
                       /\ m = [i \in 0 .. Len(u) |-> OriginalOffset(u, Offset(u, i), TRUE)]
    OBVIOUS
  <2>2. NormalizeNewlines(t) = [text |-> u, crlf |-> TRUE]
    BY <1>1, <2>1 DEF NormalizeNewlines
  <2>3. RestoreNewlines(u, TRUE) = WithCR(u)
    BY DEF RestoreNewlines
  <2>4. a = [text |-> u, crlf |-> TRUE, back |-> WithCR(u), mapped |-> m]
    <3>1. PICK lf : lf = NormalizeNewlines(t)
      OBVIOUS
    <3>2. lf.text = u /\ lf.crlf = TRUE
      BY <2>2, <3>1
    <3>3. a = [text |-> lf.text, crlf |-> lf.crlf, back |-> RestoreNewlines(lf.text, lf.crlf),
               mapped |-> [i \in 0 .. Len(lf.text) |-> OriginalOffset(lf.text, Offset(lf.text, i), lf.crlf)]]
      BY <2>1, <3>1 DEF PlacesOf
    <3>4. [i \in 0 .. Len(lf.text) |-> OriginalOffset(lf.text, Offset(lf.text, i), lf.crlf)] = m
      BY <2>1, <3>2
    <3>5. QED BY <2>3, <3>2, <3>3, <3>4
  <2>5. u \in Seq(Char) /\ WithCR(u) = t
    BY <1>1, <2>1, FrameRestored
  <2>6. ASSUME NEW i \in 0 .. Len(u) PROVE SamePlace(t, u, i, m[i])
    <3>1. m[i] = OriginalOffset(u, Offset(u, i), TRUE)
      BY <2>1
    <3>2. QED BY <2>5, <3>1, OffsetRestored
  <2>7. a.back = t /\ a.text = u /\ a.mapped = m
    BY <2>4, <2>5
  <2>8. QED BY <2>1, <2>6, <2>7 DEF FramesOf
<1>2. CASE ~ IsCrlf(t)
  <2>1. PICK m, a : a = PlacesOf(t) /\ m = [i \in 0 .. Len(t) |-> OriginalOffset(t, Offset(t, i), FALSE)]
    OBVIOUS
  <2>2. NormalizeNewlines(t) = [text |-> t, crlf |-> FALSE]
    BY <1>2 DEF NormalizeNewlines
  <2>3. RestoreNewlines(t, FALSE) = t
    BY DEF RestoreNewlines
  <2>4. a = [text |-> t, crlf |-> FALSE, back |-> t, mapped |-> m]
    <3>1. PICK lf : lf = NormalizeNewlines(t)
      OBVIOUS
    <3>2. lf.text = t /\ lf.crlf = FALSE
      BY <2>2, <3>1
    <3>3. a = [text |-> lf.text, crlf |-> lf.crlf, back |-> RestoreNewlines(lf.text, lf.crlf),
               mapped |-> [i \in 0 .. Len(lf.text) |-> OriginalOffset(lf.text, Offset(lf.text, i), lf.crlf)]]
      BY <2>1, <3>1 DEF PlacesOf
    <3>4. [i \in 0 .. Len(lf.text) |-> OriginalOffset(lf.text, Offset(lf.text, i), lf.crlf)] = m
      BY <2>1, <3>2
    <3>5. QED BY <2>3, <3>2, <3>3, <3>4
  <2>5. ASSUME NEW i \in 0 .. Len(t) PROVE SamePlace(t, t, i, m[i])
    <3>1. m[i] = OriginalOffset(t, Offset(t, i), FALSE)
      BY <2>1
    <3>2. QED BY <3>1, OffsetKept
  <2>6. a.back = t /\ a.text = t /\ a.mapped = m
    BY <2>4
  <2>7. QED BY <2>1, <2>5, <2>6 DEF FramesOf
<1>3. QED BY <1>1, <1>2

(* The starts s of the lines of t, at the offsets off of its characters.   *)
Lined(t, off, s) ==
  /\ t \in Seq(Char) /\ off = Sums(t, Bytes) /\ s = LineStarts(t)
  /\ off \in [0 .. Len(t) -> Nat] /\ off[0] = 0 /\ Climb(off, Len(t))
  /\ s \in Seq(Nat) /\ Len(s) >= 1 /\ s[1] = 0
  /\ \A i \in 1 .. Len(s), k \in 1 .. Len(s) : i < k => s[i] < s[k]
  /\ \A k \in 1 .. Len(s) : s[k] <= off[Len(t)]
  /\ \A k \in 2 .. Len(s) : \E i \in 1 .. Len(t) : t[i] = LF /\ s[k] = off[i]

(* The starts of a text's lines, and what ends it begins a last line.      *)
LEMMA LinesOf ==
  ASSUME NEW t \in Seq(Char)
  PROVE  LET off == Sums(t, Bytes)
             s   == LineStarts(t)
         IN  /\ Lined(t, off, s)
             /\ t # <<>> /\ t[Len(t)] = LF => s[Len(s)] = off[Len(t)]
             /\ t = <<>> => Len(s) = 1
<1>1. PICK f : Counted(t, Sums(t, Bytes), Sums(t, Feed), f) /\ LineStarts(t) = f[Len(t)]
  BY Counts
<1>2. PICK off, feeds, n, s, m : off = Sums(t, Bytes) /\ feeds = Sums(t, Feed) /\ n = Len(t) /\ s = f[n] /\ m = Len(s)
  OBVIOUS
<1>3. Counted(t, off, feeds, f) /\ n \in Nat /\ n \in 0 .. n /\ LineStarts(t) = s
  BY <1>1, <1>2
<1>4. Starts(s, t, off, feeds, n)
  BY <1>2, <1>3, StartsAll
<1>5. off \in [0 .. n -> Nat] /\ off[0] = 0 /\ Climb(off, n) /\ feeds \in [0 .. n -> Nat] /\ feeds[0] = 0
  BY <1>2, <1>3 DEF Counted, Weighs
<1>6. feeds[n] \in Nat /\ m = 1 + feeds[n] /\ m >= 1
  BY <1>2, <1>3, <1>4, <1>5 DEF Starts
<1>7. Lined(t, off, s)
  BY <1>2, <1>3, <1>4, <1>5, <1>6 DEF Lined, Starts
<1>8. ASSUME t # <<>>, t[n] = LF PROVE s[m] = off[n]
  <2>1. LineHead(t, n, n)
    <3>1. \A k \in n + 1 .. n : FALSE
      BY <1>3
    <3>2. QED BY <1>3, <1>8, <3>1 DEF LineHead
  <2>2. n \in 0 .. Len(t)
    BY <1>2, <1>3
  <2>3. QED BY <1>2, <1>3, <2>1, <2>2, LastStart
<1>9. ASSUME t = <<>> PROVE m = 1
  <2>1. n = 0
    BY <1>2, <1>9
  <2>2. QED BY <1>5, <1>6, <2>1
<1>10. QED BY <1>2, <1>3, <1>7, <1>8, <1>9

(* A place behind the start of a line and before the next one is in it.    *)
LEMMA InLine ==
  ASSUME NEW t, NEW off, NEW s, Lined(t, off, s), NEW i \in 0 .. Len(t), NEW l \in 1 .. Len(s),
         s[l] <= off[i], l < Len(s) => off[i] < s[l + 1]
  PROVE  Location(t, off[i]) = [line |-> l, column |-> i - Reach(t, s[l]) + 1]
<1>1. PICK n, m, o : n = Len(t) /\ m = Len(s) /\ o = off[i]
  OBVIOUS
<1>2. n \in Nat /\ m \in Nat /\ i \in 0 .. n /\ l \in 1 .. m /\ o \in Nat /\ \A k \in 1 .. m : s[k] \in Nat
  BY <1>1 DEF Lined
<1>3. Reach(t, o) = i /\ Offset(t, i) = o /\ LineStarts(t) = s
  <2>1. Offset(t, i) = o
    BY <1>1 DEF Offset, Lined
  <2>2. QED BY <2>1, ReachOffset DEF Lined
<1> DEFINE B == {k \in DOMAIN s : s[k] <= o}
<1>4. Max(B) = l
  <2>1. DOMAIN s = 1 .. m
    BY <1>1 DEF Lined
  <2>2. B \in SUBSET Nat /\ l \in B
    BY <1>1, <1>2, <2>1
  <2>3. ASSUME NEW k \in B PROVE k <= l
    <3>1. k \in 1 .. m /\ s[k] <= o
      BY <2>1
    <3>2. SUFFICES ASSUME l < k PROVE FALSE
      BY <1>2, <3>1
    <3>3. PICK h : h = l + 1
      OBVIOUS
    <3>4. h \in 1 .. m /\ l < m /\ (h = k \/ h < k)
      BY <1>2, <3>1, <3>2, <3>3
    <3>5. o < s[h]
      BY <1>1, <3>3, <3>4
    <3>6. s[h] <= s[k]
      <4>1. h < k => s[h] < s[k]
        BY <1>1, <3>1, <3>4 DEF Lined
      <4>2. QED BY <1>2, <3>1, <3>4, <4>1
    <3>7. QED BY <1>2, <3>1, <3>4, <3>5, <3>6
  <2> HIDE DEF B
  <2>4. QED BY <2>2, <2>3, MaxIs
<1>5. Location(t, o) = [line |-> Max(B), column |-> i - Reach(t, s[Max(B)]) + 1]
  BY <1>3 DEF Location
<1> HIDE DEF B
<1>6. QED BY <1>1, <1>4, <1>5

(* The character that ends at a place is the one before it.                *)
LEMMA EndsHere ==
  ASSUME NEW t, NEW off, NEW s, Lined(t, off, s), NEW g \in 0 .. Len(t), NEW c
  PROVE  EndsWith(t, off[g], c) <=> (g \in 1 .. Len(t) /\ t[g] = c)
<1>1. PICK n : n = Len(t)
  OBVIOUS
<1>2. n \in Nat /\ off \in [0 .. n -> Nat] /\ Climb(off, n) /\ \A i \in 0 .. n : Offset(t, i) = off[i]
  BY <1>1 DEF Lined, Offset
<1>3. ASSUME NEW i \in 1 .. n, off[i] = off[g] PROVE i = g
  <2>1. i \in 0 .. n /\ g \in 0 .. n /\ off[i] \in Nat /\ off[g] \in Nat
    BY <1>1, <1>2
  <2>2. ~ (i < g) /\ ~ (g < i)
    <3>1. (i < g => off[i] < off[g]) /\ (g < i => off[g] < off[i])
      BY <1>2, <2>1 DEF Climb
    <3>2. QED BY <1>3, <2>1, <3>1
  <2>3. QED BY <2>1, <2>2
<1>4. \A i \in 1 .. n : Offset(t, i) = off[i]
  BY <1>2
<1>5. ASSUME EndsWith(t, off[g], c) PROVE g \in 1 .. n /\ t[g] = c
  <2>1. PICK i \in 1 .. n : Offset(t, i) = off[g] /\ t[i] = c
    BY <1>1, <1>5 DEF EndsWith
  <2>2. off[i] = off[g]
    BY <1>4, <2>1
  <2>3. QED BY <1>3, <2>1, <2>2
<1>6. ASSUME g \in 1 .. n, t[g] = c PROVE EndsWith(t, off[g], c)
  BY <1>1, <1>4, <1>6 DEF EndsWith
<1>7. QED BY <1>1, <1>5, <1>6

(* The line is not the empty one behind a last line feed.                  *)
Holds(t, off, s, l) ==
  /\ l \in 1 .. Len(s)
  /\ l = Len(s) => s[l] # off[Len(t)]
  /\ t # <<>> /\ t[Len(t)] = LF => s[Len(s)] = off[Len(t)]

(* e characters of t end in the line. *)
Within(off, s, l, e) == s[l] <= off[e] /\ (l < Len(s) => off[e] < s[l + 1])

(* A line without its terminator ends at a character, within the line.     *)
LEMMA RangeEnds ==
  ASSUME NEW t, NEW off, NEW s, Lined(t, off, s), NEW l, Holds(t, off, s, l)
  PROVE  /\ LineRange(t, l).start = s[l]
         /\ \E e \in 0 .. Len(t) : LineRange(t, l).end = off[e] /\ Within(off, s, l, e)
<1>1. PICK n, m, a, span, z : n = Len(t) /\ m = Len(s) /\ a = s[l] /\ span = LineSpan(t, l) /\ z = span.end
  OBVIOUS
<1>2. /\ n \in Nat /\ m \in Nat /\ l \in 1 .. m /\ a \in Nat /\ t \in Seq(Char)
      /\ off \in [0 .. n -> Nat] /\ off[0] = 0 /\ Climb(off, n) /\ \A k \in 1 .. m : s[k] \in Nat /\ s[k] <= off[n]
  BY <1>1 DEF Lined, Holds
<1>3. span = [start |-> a, end |-> IF l < m THEN s[l + 1] ELSE off[n]]
  <2>1. LineStarts(t) = s /\ ByteLen(t) = off[n]
    BY <1>1 DEF Lined, ByteLen, Offset
  <2>2. QED BY <1>1, <2>1 DEF LineSpan, Between
<1>4. span.start = a /\ z = IF l < m THEN s[l + 1] ELSE off[n]
  BY <1>1, <1>3
<1> DEFINE lf == IF EndsWith(t, z, LF) THEN 1 ELSE 0
           cr == IF lf = 1 /\ z - 1 > a /\ EndsWith(t, z - 1, CR) THEN 1 ELSE 0
<1>5. LineRange(t, l).start = a /\ LineRange(t, l).end = z - lf - cr
  <2>1. LineRange(t, l) = Between(span.start, span.end -
           (IF EndsWith(t, span.end, LF) THEN 1 ELSE 0) -
           (IF (IF EndsWith(t, span.end, LF) THEN 1 ELSE 0) = 1 /\ span.end - 1 > span.start /\ EndsWith(t, span.end - 1, CR) THEN 1 ELSE 0))
    BY <1>1 DEF LineRange
  <2>2. LineRange(t, l) = Between(a, z - lf - cr)
    BY <1>1, <1>4, <2>1
  <2> HIDE DEF lf, cr
  <2>3. QED BY <2>2 DEF Between
<1>6. CASE l < m
  <2>1. PICK h : h = l + 1
    OBVIOUS
  <2>2. h \in 2 .. m /\ h \in 1 .. m /\ l < h /\ z = s[h]
    BY <1>2, <1>4, <1>6, <2>1
  <2>3. PICK g \in 1 .. n : t[g] = LF /\ z = off[g]
    BY <1>1, <2>2 DEF Lined
  <2>4. a < z /\ z \in Nat
    BY <1>1, <1>2, <2>2 DEF Lined
  <2>5. EndsWith(t, z, LF)
    <3>1. g \in 0 .. Len(t)
      BY <1>1, <1>2
    <3>2. QED BY <1>1, <2>3, <3>1, EndsHere
  <2>6. lf = 1
    BY <2>5
  <2>7. PICK p : p = g - 1
    OBVIOUS
  <2>8. p \in 0 .. n /\ g \in 0 .. n /\ off[p] = z - 1 /\ off[p] \in Nat
    <3>1. Bytes[LF] = 1
      BY DEF Bytes, LF, CR, Char
    <3>2. p \in 0 .. n /\ g \in 0 .. n /\ off[p] \in Nat
      BY <1>2, <2>7
    <3>3. off[g] = off[g - 1] + Bytes[t[g]]
      BY <1>1, <2>3, OffsetsClimb DEF Lined, Weighs
    <3>4. z = off[p] + 1
      BY <2>3, <2>7, <3>1, <3>3
    <3>5. QED BY <2>4, <3>2, <3>4
  <2>9. CASE z - 1 > a /\ EndsWith(t, z - 1, CR)
    <3>1. p \in 1 .. n /\ t[p] = CR
      <4>1. p \in 0 .. Len(t) /\ EndsWith(t, off[p], CR)
        BY <1>1, <2>8, <2>9
      <4>2. QED BY <1>1, <4>1, EndsHere
    <3>2. PICK e : e = p - 1
      OBVIOUS
    <3>3. e \in 0 .. n /\ off[e] \in Nat /\ off[e] = off[p] - 1
      <4>1. Bytes[CR] = 1
        BY DEF Bytes, LF, CR, Char
      <4>2. e \in 0 .. n /\ off[e] \in Nat
        BY <1>2, <3>1, <3>2
      <4>3. off[p] = off[p - 1] + Bytes[t[p]]
        BY <1>1, <3>1, OffsetsClimb DEF Lined, Weighs
      <4>4. off[p] = off[e] + 1
        BY <3>1, <3>2, <4>1, <4>3
      <4>5. QED BY <2>8, <4>2, <4>4
    <3>4. cr = 1
      BY <2>6, <2>9
    <3> HIDE DEF lf, cr
    <3>5. z - lf - cr = off[e] /\ a <= off[e] /\ off[e] < z
      BY <1>2, <2>4, <2>6, <2>8, <2>9, <3>3, <3>4
    <3>6. QED BY <1>1, <1>5, <2>1, <2>2, <3>3, <3>5 DEF Within
  <2>10. CASE ~ (z - 1 > a /\ EndsWith(t, z - 1, CR))
    <3>1. cr = 0
      BY <2>10
    <3> HIDE DEF lf, cr
    <3>2. z - lf - cr = off[p] /\ a <= off[p] /\ off[p] < z
      BY <1>2, <2>4, <2>6, <2>8, <3>1
    <3>3. QED BY <1>1, <1>5, <2>1, <2>2, <2>8, <3>2 DEF Within
  <2> HIDE DEF lf, cr
  <2>11. QED BY <2>9, <2>10
<1>7. CASE ~ (l < m)
  <2>1. l = m /\ z = off[n] /\ a # off[n] /\ n \in 0 .. n
    BY <1>1, <1>2, <1>4, <1>7 DEF Holds
  <2>2. ~ EndsWith(t, z, LF)
    <3>1. SUFFICES ASSUME EndsWith(t, z, LF) PROVE FALSE
      OBVIOUS
    <3>2. n \in 1 .. n /\ t[n] = LF
      <4>1. n \in 0 .. Len(t) /\ EndsWith(t, off[n], LF)
        BY <1>1, <2>1, <3>1
      <4>2. QED BY <1>1, <4>1, EndsHere
    <3>3. t # <<>>
      BY <1>1, <3>2
    <3>4. QED BY <1>1, <2>1, <3>2, <3>3 DEF Holds
  <2>3. lf = 0 /\ cr = 0
    BY <2>2
  <2> HIDE DEF lf, cr
  <2>4. off[n] \in Nat /\ a <= off[n]
    BY <1>1, <1>2, <2>1
  <2>5. z - lf - cr = off[n]
    BY <2>1, <2>3, <2>4
  <2>6. QED BY <1>1, <1>5, <1>7, <2>1, <2>4, <2>5 DEF Within
<1> HIDE DEF lf, cr
<1>8. QED BY <1>1, <1>5, <1>6, <1>7

LineTiles(t, n, l) ==
  LET span == LineSpan(t, l)  range == LineRange(t, l)
  IN  /\ span.start = (IF l = 1 THEN 0 ELSE LineSpan(t, l - 1).end)
      /\ l = n => span.end = ByteLen(t)
      /\ \A b \in Boundaries(t) : span.start <= b /\ b < span.end => Location(t, b).line = l
      /\ Location(t, range.end) = [line |-> l, column |-> LineWidth(t, l) + 1]

TilesOf(t) ==
  LET n == LineCount(t)
  IN  /\ n = 0 <=> t = <<>>
      /\ \A l \in 1 .. n : LineTiles(t, n, l)

(* How many lines there are: the last start is one but at the end.         *)
LEMMA LinesCounted ==
  ASSUME NEW t \in Seq(Char)
  PROVE  LET off == Sums(t, Bytes)
             s   == LineStarts(t)
         IN  /\ LineCount(t) = Len(s) - (IF s[Len(s)] = off[Len(t)] THEN 1 ELSE 0)
             /\ LineCount(t) = 0 <=> t = <<>>
<1>1. PICK off, s, n, m : off = Sums(t, Bytes) /\ s = LineStarts(t) /\ n = Len(t) /\ m = Len(s)
  OBVIOUS
<1>2. Lined(t, off, s) /\ (t = <<>> => m = 1)
  BY <1>1, LinesOf
<1>3. n \in Nat /\ m \in Nat /\ m >= 1 /\ s[1] = 0 /\ off[0] = 0 /\ off \in [0 .. n -> Nat] /\ Climb(off, n)
  BY <1>1, <1>2 DEF Lined
<1>4. LineCount(t) = m - IF s[m] = off[n] THEN 1 ELSE 0
  BY <1>1 DEF LineCount, ByteLen, Offset
<1>5. ASSUME t = <<>> PROVE LineCount(t) = 0
  <2>1. n = 0 /\ m = 1
    BY <1>1, <1>2, <1>5
  <2>2. s[m] = off[n]
    BY <1>3, <2>1
  <2>3. QED BY <1>4, <2>1, <2>2
<1>6. ASSUME LineCount(t) = 0 PROVE t = <<>>
  <2>1. m = 1 /\ s[m] = off[n]
    BY <1>3, <1>4, <1>6
  <2>2. off[n] = 0
    BY <1>3, <2>1
  <2>3. ~ (0 < n)
    <3>1. 0 \in 0 .. n /\ n \in 0 .. n
      BY <1>3
    <3>2. 0 < n => off[0] < off[n]
      BY <1>3, <3>1 DEF Climb
    <3>3. QED BY <1>3, <2>2, <3>2
  <2>4. n = 0
    BY <1>3, <2>3
  <2>5. QED BY <1>1, <2>4, EmptySeq
<1>7. QED BY <1>1, <1>4, <1>5, <1>6

(* The lines of a text are its bytes once and in order.                    *)
LEMMA TilesOfText ==
  ASSUME NEW t \in Seq(Char)
  PROVE  TilesOf(t)
<1>1. PICK off, s, n, m, c : off = Sums(t, Bytes) /\ s = LineStarts(t) /\ n = Len(t) /\ m = Len(s) /\ c = LineCount(t)
  OBVIOUS
<1>2. Lined(t, off, s) /\ (t # <<>> /\ t[n] = LF => s[m] = off[n])
  BY <1>1, LinesOf
<1>3. /\ n \in Nat /\ m \in Nat /\ m >= 1 /\ s[1] = 0 /\ off \in [0 .. n -> Nat]
      /\ \A k \in 1 .. m : s[k] \in Nat /\ s[k] <= off[n]
      /\ \A i \in 1 .. m, k \in 1 .. m : i < k => s[i] < s[k]
  BY <1>1, <1>2 DEF Lined
<1>4. c = m - (IF s[m] = off[n] THEN 1 ELSE 0) /\ (c = 0 <=> t = <<>>)
  BY <1>1, LinesCounted
<1>5. ByteLen(t) = off[n] /\ \A i \in 0 .. n : Offset(t, i) = off[i]
  BY <1>1 DEF ByteLen, Offset
<1>6. \A k : LineSpan(t, k) = [start |-> s[k], end |-> IF k < m THEN s[k + 1] ELSE off[n]]
  BY <1>1, <1>5 DEF LineSpan, Between
<1>7. ASSUME NEW l \in 1 .. c PROVE LineTiles(t, c, l)
  <2>1. PICK span, a, z, range, h : span = LineSpan(t, l) /\ a = span.start /\ z = span.end /\ range = LineRange(t, l) /\ h = l + 1
    OBVIOUS
  <2>2. l \in 1 .. m /\ l \in Nat /\ c \in Nat
    <3>1. c = m \/ c = m - 1
      BY <1>3, <1>4
    <3>2. QED BY <1>3, <3>1
  <2>3. a = s[l] /\ z = IF l < m THEN s[h] ELSE off[n]
    BY <1>6, <2>1
  <2>4. l = m => s[l] # off[n]
    <3>1. SUFFICES ASSUME l = m, s[m] = off[n] PROVE FALSE
      OBVIOUS
    <3>2. c = m - 1
      BY <1>4, <3>1
    <3>3. QED BY <1>3, <2>2, <3>1, <3>2
  <2>5. a = IF l = 1 THEN 0 ELSE LineSpan(t, l - 1).end
    <3>1. CASE l = 1
      BY <1>3, <2>3, <3>1
    <3>2. CASE l # 1
      <4>1. PICK p : p = l - 1
        OBVIOUS
      <4>2. p < m /\ p + 1 = l
        BY <1>3, <2>2, <3>2, <4>1
      <4>3. LineSpan(t, p) = [start |-> s[p], end |-> s[l]]
        BY <1>6, <4>2
      <4>4. LineSpan(t, l - 1).end = s[l]
        BY <4>1, <4>3
      <4>5. QED BY <2>3, <3>2, <4>4
    <3>3. QED BY <3>1, <3>2
  <2>6. l = c => z = ByteLen(t)
    <3>1. SUFFICES ASSUME l = c, l < m PROVE z = ByteLen(t)
      BY <1>5, <2>3
    <3>2. s[m] = off[n] /\ c = m - 1
      BY <1>3, <1>4, <3>1
    <3>3. h = m
      BY <1>3, <2>1, <2>2, <3>1, <3>2
    <3>4. QED BY <1>5, <2>3, <3>1, <3>2, <3>3
  <2>7. ASSUME NEW b \in Boundaries(t), a <= b, b < z PROVE Location(t, b).line = l
    <3>1. PICK i \in 0 .. n : b = off[i]
      BY <1>1, <1>5 DEF Boundaries
    <3>2. s[l] <= off[i] /\ (l < m => off[i] < s[l + 1])
      BY <2>1, <2>3, <2>7, <3>1
    <3>3. i \in 0 .. Len(t) /\ l \in 1 .. Len(s)
      BY <1>1, <2>2
    <3>4. Location(t, off[i]) = [line |-> l, column |-> i - Reach(t, s[l]) + 1]
      BY <1>1, <1>2, <3>2, <3>3, InLine
    <3>5. QED BY <3>1, <3>4
  <2>8. Location(t, range.end) = [line |-> l, column |-> LineWidth(t, l) + 1]
    <3>1. Holds(t, off, s, l)
      BY <1>1, <1>2, <2>2, <2>4 DEF Holds
    <3>2. PICK e \in 0 .. n : range.end = off[e] /\ Within(off, s, l, e)
      BY <1>1, <1>2, <2>1, <3>1, RangeEnds
    <3>3. range.start = s[l]
      BY <1>2, <2>1, <3>1, RangeEnds
    <3>4. e \in 0 .. Len(t) /\ l \in 1 .. Len(s) /\ s[l] <= off[e] /\ (l < Len(s) => off[e] < s[l + 1])
      BY <1>1, <2>2, <3>2 DEF Within
    <3>5. Location(t, off[e]) = [line |-> l, column |-> e - Reach(t, s[l]) + 1]
      BY <1>2, <3>4, InLine
    <3>6. Reach(t, off[e]) = e
      <4>1. Offset(t, e) = off[e]
        BY <1>5
      <4>2. QED BY <3>4, <4>1, ReachOffset
    <3>7. LineWidth(t, l) = e - Reach(t, s[l])
      BY <2>1, <3>2, <3>3, <3>6 DEF LineWidth
    <3>8. QED BY <3>2, <3>5, <3>7
  <2>9. QED BY <2>1, <2>5, <2>6, <2>7, <2>8 DEF LineTiles
<1>8. QED BY <1>1, <1>4, <1>7 DEF TilesOf

(* What is answered stays what is answered for the text. *)
Called(c, a) ==
  /\ c.fn = "frames" /\ c.text \in Seq(Char)
  /\ a # Unanswered => a = PlacesOf(c.text)

(* The line, column and byte of a place agree, in either frame of a source *)
(* and between the coordinates, for every text: NormalizeNewlines,         *)
(* OriginalOffset, Location and LineRange of text.rs and source.rs.        *)
THEOREM PlacesAgree == FrameSpec => []CoordinatesAgree
<1> DEFINE Inv == Called(call, answer)
<1>1. ASSUME call \in [fn : {"frames"}, text : Seq(Char)], answer = Unanswered PROVE Inv
  BY <1>1 DEF Called
<1>2. ASSUME Inv, [Locate]_<<call, answer>> PROVE Inv'
  <2>1. CASE Locate
    <3>1. call' = call /\ answer' = PlacesOf(call.text)
      BY <2>1 DEF Locate, Fresh, PlacesOf
    <3>2. QED BY <1>2, <3>1 DEF Called
  <2>2. CASE UNCHANGED <<call, answer>>
    BY <1>2, <2>2 DEF Called
  <2>3. QED BY <1>2, <2>1, <2>2
<1>3. Inv => CoordinatesAgree
  <2>1. SUFFICES ASSUME Inv, answer # Unanswered PROVE CoordinatesAgree
    BY DEF CoordinatesAgree, FramesAgree, LinesTile, Answered
  <2>2. PICK t : t = call.text
    OBVIOUS
  <2>3. t \in Seq(Char) /\ answer = PlacesOf(t)
    BY <2>1, <2>2 DEF Called
  <2>4. FramesOf(t, answer) /\ TilesOf(t)
    BY <2>3, FramesOfText, TilesOfText
  <2>5. FramesAgree
    BY <2>2, <2>4 DEF FramesAgree, FramesOf, SamePlace
  <2>6. LinesTile
    BY <2>2, <2>4 DEF LinesTile, TilesOf, LineTiles
  <2>7. QED BY <2>5, <2>6 DEF CoordinatesAgree
<1> HIDE DEF Inv
<1>4. QED BY <1>1, <1>2, <1>3, PTL DEF FrameSpec

(***************************************************************************)
(* Where quotes and comments end.                                          *)
(***************************************************************************)
(* The least number of a set.                                              *)
LEMMA CutMin ==
  ASSUME NEW S \in SUBSET Nat, S # {}
  PROVE  /\ Min(S) \in S /\ \A k \in S : Min(S) <= k
         /\ L!Min(S) \in S /\ \A k \in S : L!Min(S) <= k
<1>1. \E m \in S : \A k \in S : m <= k
  BY LeastNatural
<1>2. Min(S) \in S /\ \A k \in S : Min(S) <= k
  BY <1>1 DEF Min
<1>3. L!Min(S) \in S /\ \A k \in S : L!Min(S) <= k
  BY <1>1 DEF L!Min
<1>4. QED BY <1>2, <1>3

(* What holds at a place whenever it holds at all later ones holds         *)
(* everywhere.                                                             *)
LEMMA Descent ==
  ASSUME NEW n \in Nat, NEW T, n + 1 \in T, n + 2 \in T,
         \A i \in 1 .. n : (i + 1 .. n + 2) \subseteq T => i \in T
  PROVE  1 .. n + 2 \subseteq T
<1> DEFINE U == {i \in 1 .. n : i \notin T}
<1> SUFFICES ASSUME U # {} PROVE FALSE
  <2>1. ASSUME NEW i \in 1 .. n + 2, i \notin T PROVE i \in U
    BY <2>1
  <2>2. QED BY <2>1
<1>1. PICK m \in U : \A k \in U : k <= m
  <2>1. U \in SUBSET (0 .. n)
    OBVIOUS
  <2> HIDE DEF U
  <2>2. QED BY <2>1, GreatestNatural
<1>2. m \in 1 .. n /\ m \notin T
  OBVIOUS
<1>3. ASSUME NEW k \in m + 1 .. n + 2 PROVE k \in T
  <2>1. (k \in 1 .. n /\ ~ (k <= m)) \/ k = n + 1 \/ k = n + 2
    BY <1>2
  <2>2. QED BY <1>1, <2>1
<1>4. QED BY <1>2, <1>3

(* Ends of what starts at each place: not before it, and not far behind    *)
(* the text.                                                               *)
EndsOf(n) == {f \in [1 .. n + 2 -> Nat] : f[n + 1] = n + 1 /\ f[n + 2] = n + 1 /\ \A k \in 1 .. n : f[k] \in k + 1 .. n + 1}

(* to[i][f] is the end of what starts at i when f has the later ends.      *)
LooksAhead(n, to) ==
  /\ n \in Nat /\ to \in [1 .. n -> [EndsOf(n) -> Nat]]
  /\ \A i \in 1 .. n : \A f \in EndsOf(n) : to[i][f] \in i + 1 .. n + 1
  /\ \A i \in 1 .. n : \A f, g \in EndsOf(n) : (\A k \in i + 1 .. n + 2 : f[k] = g[k]) => to[i][f] = to[i][g]

(* There are such ends.                                                    *)
LEMMA EndsExist ==
  ASSUME NEW n, NEW to, LooksAhead(n, to)
  PROVE  \E f \in EndsOf(n) : \A i \in 1 .. n : f[i] = to[i][f]
<1> DEFINE S     == EndsOf(n)
           Slot(m) == n + 1 - m
           base  == [k \in 1 .. n + 2 |-> n + 1]
           step  == [m \in 1 .. n |-> [f \in S |-> [f EXCEPT ![Slot(m)] = to[Slot(m)][f]]]]
<1>1. n \in Nat /\ \A m \in 1 .. n : Slot(m) \in 1 .. n /\ Slot(m) \in 1 .. n + 2
  BY DEF LooksAhead
<1>2. base \in S
  BY <1>1 DEF EndsOf
<1>3. ASSUME NEW m \in 1 .. n, NEW f \in S PROVE [f EXCEPT ![Slot(m)] = to[Slot(m)][f]] \in S
  <2>1. PICK a, x : a = Slot(m) /\ x = to[Slot(m)][f]
    OBVIOUS
  <2>2. a \in 1 .. n /\ x \in a + 1 .. n + 1 /\ x \in Nat
    BY <1>1, <2>1 DEF LooksAhead
  <2>3. f \in [1 .. n + 2 -> Nat] /\ f[n + 1] = n + 1 /\ f[n + 2] = n + 1 /\ \A k \in 1 .. n : f[k] \in k + 1 .. n + 1
    BY DEF EndsOf
  <2>4. PICK g : g = [f EXCEPT ![a] = x]
    OBVIOUS
  <2>5. g \in [1 .. n + 2 -> Nat] /\ g[a] = x /\ \A k \in 1 .. n + 2 : k # a => g[k] = f[k]
    BY <1>1, <2>2, <2>3, <2>4
  <2>6. g[n + 1] = n + 1 /\ g[n + 2] = n + 1
    BY <1>1, <2>2, <2>3, <2>5
  <2>7. ASSUME NEW k \in 1 .. n PROVE g[k] \in k + 1 .. n + 1
    <3>1. CASE k = a
      BY <2>2, <2>5, <3>1
    <3>2. CASE k # a
      <4>1. k \in 1 .. n + 2
        BY <1>1
      <4>2. g[k] = f[k]
        BY <2>5, <3>2, <4>1
      <4>3. QED BY <2>3, <4>2
    <3>3. QED BY <3>1, <3>2
  <2>8. QED BY <2>1, <2>4, <2>5, <2>6, <2>7 DEF EndsOf
<1>4. Recursion(n, S, base, step)
  <2>1. ASSUME NEW m \in 1 .. n PROVE [f \in S |-> [f EXCEPT ![Slot(m)] = to[Slot(m)][f]]] \in [S -> S]
    <3> HIDE DEF Slot, S
    <3>1. QED BY <1>3
  <2> HIDE DEF S, Slot, base
  <2>2. QED BY <1>1, <1>2, <2>1 DEF Recursion
<1> HIDE DEF S, base
<1>5. PICK g : Solves(g, n, S, base, step)
  <2> HIDE DEF step
  <2>1. QED BY <1>4, RecursionExists
<1>6. g \in [0 .. n -> S] /\ \A m \in 1 .. n : g[m] = step[m][g[m - 1]]
  <2> HIDE DEF step
  <2>1. QED BY <1>5 DEF Solves
<1>7. ASSUME NEW m \in 1 .. n PROVE g[m - 1] \in S /\ g[m] = [g[m - 1] EXCEPT ![Slot(m)] = to[Slot(m)][g[m - 1]]]
  <2>1. m - 1 \in 0 .. n
    BY <1>1
  <2>2. g[m - 1] \in S
    BY <1>6, <2>1
  <2> HIDE DEF Slot
  <2>3. step[m][g[m - 1]] = [g[m - 1] EXCEPT ![Slot(m)] = to[Slot(m)][g[m - 1]]]
    BY <2>2
  <2>4. QED BY <1>6, <2>2, <2>3
<1> HIDE DEF step
<1> DEFINE T == {m \in 0 .. n : \A i \in n + 1 - m .. n : g[m][i] = to[i][g[m]]}
<1>8. 0 \in T
  BY <1>1
<1>9. ASSUME NEW l \in 0 .. n - 1, l \in T PROVE l + 1 \in T
  <2>1. PICK m, a : m = l + 1 /\ a = n + 1 - m
    OBVIOUS
  <2>2. m \in 1 .. n /\ m - 1 = l /\ m \in 0 .. n /\ l \in Nat /\ a \in 1 .. n
    BY <1>1, <2>1
  <2>3. PICK u, v : u = g[l] /\ v = g[m]
    OBVIOUS
  <2>4. u \in S /\ v \in S /\ v = [u EXCEPT ![a] = to[a][u]]
    BY <1>6, <1>7, <2>1, <2>2, <2>3
  <2>5. u \in [1 .. n + 2 -> Nat]
    BY <2>4 DEF S, EndsOf
  <2>6. v[a] = to[a][u] /\ \A k \in 1 .. n + 2 : k # a => v[k] = u[k]
    BY <1>1, <2>2, <2>4, <2>5
  <2>7. ASSUME NEW i \in a .. n PROVE v[i] = to[i][v]
    <3>1. i \in 1 .. n /\ \A k \in i + 1 .. n + 2 : k \in 1 .. n + 2 /\ k # a
      BY <1>1, <2>2
    <3>2. \A k \in i + 1 .. n + 2 : v[k] = u[k]
      BY <2>6, <3>1
    <3>3. to[i][v] = to[i][u]
      BY <2>4, <3>1, <3>2 DEF LooksAhead, S
    <3>4. CASE i = a
      BY <2>6, <3>3, <3>4
    <3>5. CASE i # a
      <4>1. i \in n + 1 - l .. n /\ i \in 1 .. n + 2
        BY <1>1, <2>1, <2>2, <3>5
      <4>2. u[i] = to[i][u]
        BY <1>9, <2>3, <4>1
      <4>3. QED BY <2>6, <3>3, <3>5, <4>1, <4>2
    <3>6. QED BY <3>4, <3>5
  <2>8. m \in T
    BY <2>1, <2>2, <2>3, <2>7
  <2>9. QED BY <2>1, <2>8
<1>10. n \in T
  <2> HIDE DEF T
  <2>1. 0 .. n \subseteq T
    BY <1>1, <1>8, <1>9, Ascent
  <2>2. QED BY <1>1, <2>1
<1>11. PICK f : f = g[n]
  OBVIOUS
<1>12. f \in S
  BY <1>1, <1>6, <1>11
<1>13. \A i \in 1 .. n : f[i] = to[i][f]
  <2>1. n + 1 - n = 1
    BY <1>1
  <2>2. QED BY <1>10, <1>11, <2>1
<1>14. QED BY <1>12, <1>13 DEF S


(* A quoted text goes on at i and ends at e: with a quote that is not      *)
(* doubled, or with the text.                                              *)
StringEnds(t, f, quote) ==
  /\ f \in EndsOf(Len(t)) /\ \A i \in 1 .. Len(t) + 2 : StringEnd(t, i, quote) = f[i]
  /\ \A i \in 1 .. Len(t) : f[i] = IF Pair(t, i, quote, quote) THEN f[i + 2] ELSE IF t[i] = quote THEN i + 1 ELSE f[i + 1]

(* There are such ends of strings.                                         *)
LEMMA StringsEnd ==
  ASSUME NEW t \in Seq(STRING), NEW quote
  PROVE  \E f : StringEnds(t, f, quote)
<1> DEFINE n     == Len(t)
           S     == EndsOf(n)
           To(f, i) == IF Pair(t, i, quote, quote) THEN f[i + 2] ELSE IF t[i] = quote THEN i + 1 ELSE f[i + 1]
           to    == [i \in 1 .. n |-> [f \in S |-> To(f, i)]]
           R(f)  == f = [i \in 1 .. Len(t) + 2 |->
                      IF i > Len(t) THEN Len(t) + 1
                      ELSE IF Pair(t, i, quote, quote) THEN f[i + 2]
                      ELSE IF t[i] = quote THEN i + 1
                      ELSE f[i + 1]]
<1>1. n \in Nat
  OBVIOUS
<1>2. ASSUME NEW i \in 1 .. n, NEW f \in S PROVE To(f, i) \in i + 1 .. n + 1
  <2>1. f \in [1 .. n + 2 -> Nat] /\ f[n + 1] = n + 1 /\ f[n + 2] = n + 1 /\ \A k \in 1 .. n : f[k] \in k + 1 .. n + 1
    BY DEF EndsOf
  <2>2. ASSUME NEW k \in i + 1 .. n + 2 PROVE f[k] \in i + 1 .. n + 1
    <3>1. n + 1 \in i + 1 .. n + 1 /\ (k \in 1 .. n \/ k = n + 1 \/ k = n + 2)
      BY <1>1
    <3>2. CASE k \in 1 .. n
      <4>1. f[k] \in k + 1 .. n + 1
        BY <2>1, <3>2
      <4>2. QED BY <1>1, <4>1
    <3>3. QED BY <2>1, <3>1, <3>2
  <2>3. i + 1 \in i + 1 .. n + 2 /\ i + 2 \in i + 1 .. n + 2 /\ i + 1 \in i + 1 .. n + 1
    BY <1>1
  <2>4. QED BY <2>2, <2>3
<1>3. ASSUME NEW i \in 1 .. n, NEW f \in S, NEW g \in S, \A k \in i + 1 .. n + 2 : f[k] = g[k]
      PROVE  To(f, i) = To(g, i)
  <2>1. i + 1 \in i + 1 .. n + 2 /\ i + 2 \in i + 1 .. n + 2
    BY <1>1
  <2>2. QED BY <1>3, <2>1
<1> HIDE DEF To
<1>4. LooksAhead(n, to)
  <2>1. \A i \in 1 .. n : \A f \in S : To(f, i) \in Nat
    BY <1>1, <1>2
  <2> HIDE DEF S, n
  <2>2. to \in [1 .. n -> [S -> Nat]]
    BY <2>1
  <2>3. \A i \in 1 .. n : \A f \in S : to[i][f] = To(f, i)
    OBVIOUS
  <2> HIDE DEF to
  <2>4. QED BY <1>1, <1>2, <1>3, <2>2, <2>3 DEF LooksAhead, S
<1>5. PICK f \in S : \A i \in 1 .. n : f[i] = to[i][f]
  <2> HIDE DEF to
  <2>1. QED BY <1>4, EndsExist
<1>6. \A i \in 1 .. n : f[i] = To(f, i)
  <2> HIDE DEF S, n
  <2>1. QED BY <1>5
<1> HIDE DEF to
<1>7. R(f)
  <2>1. f \in [1 .. n + 2 -> Nat] /\ f[n + 1] = n + 1 /\ f[n + 2] = n + 1
    BY DEF EndsOf
  <2>2. ASSUME NEW i \in 1 .. n + 2
        PROVE  f[i] = IF i > n THEN n + 1 ELSE To(f, i)
    <3>1. i \in 1 .. n \/ i = n + 1 \/ i = n + 2
      BY <1>1
    <3>2. QED BY <1>1, <1>6, <2>1, <3>1
  <2>3. f = [i \in 1 .. n + 2 |-> IF i > n THEN n + 1 ELSE To(f, i)]
    <3>1. f = [i \in 1 .. n + 2 |-> f[i]]
      BY <2>1
    <3>2. [i \in 1 .. n + 2 |-> f[i]] = [i \in 1 .. n + 2 |-> IF i > n THEN n + 1 ELSE To(f, i)]
      BY <2>2
    <3>3. QED BY <3>1, <3>2
  <2>4. QED BY <2>3 DEF To
<1>8. PICK g : g = CHOOSE f1 : R(f1)
  OBVIOUS
<1>9. \A i \in 1 .. n + 2 : StringEnd(t, i, quote) = g[i]
  BY <1>8 DEF StringEnd
<1>10. R(g)
  BY <1>7, <1>8
<1>11. /\ \A i \in 1 .. n : g[i] = To(g, i)
       /\ g[n + 1] = n + 1 /\ g[n + 2] = n + 1
  <2>1. \A i \in 1 .. n + 2 : g[i] = IF i > n THEN n + 1 ELSE To(g, i)
    BY <1>10 DEF To
  <2>2. \A i \in 1 .. n : i \in 1 .. n + 2 /\ ~ (i > n)
    BY <1>1
  <2>3. n + 1 \in 1 .. n + 2 /\ n + 2 \in 1 .. n + 2 /\ n + 1 > n /\ n + 2 > n
    BY <1>1
  <2>4. QED BY <2>1, <2>2, <2>3
<1>12. g = [i \in 1 .. n + 2 |-> g[i]]
  BY <1>10
<1> HIDE DEF R
<1> DEFINE T == {i \in 1 .. n + 2 : g[i] \in Nat /\ g[i] <= n + 1 /\ (i <= n => g[i] >= i + 1)}
<1>13. n + 1 \in T /\ n + 2 \in T
  BY <1>1, <1>11
<1>14. ASSUME NEW i \in 1 .. n, (i + 1 .. n + 2) \subseteq T PROVE i \in T
  <2>1. ASSUME NEW k \in i + 1 .. n + 2 PROVE g[k] \in i + 1 .. n + 1
    <3>1. k \in T
      BY <1>14
    <3>2. k \in Nat /\ i \in Nat /\ i + 1 <= k
      BY <1>1
    <3>3. CASE k <= n
      BY <1>1, <3>1, <3>2, <3>3
    <3>4. CASE k = n + 1 \/ k = n + 2
      BY <1>1, <1>11, <3>4
    <3>5. QED BY <1>1, <3>2, <3>3, <3>4
  <2>2. i + 1 \in i + 1 .. n + 2 /\ i + 2 \in i + 1 .. n + 2 /\ i + 1 \in i + 1 .. n + 1
    BY <1>1
  <2>3. To(g, i) \in i + 1 .. n + 1
    BY <2>1, <2>2 DEF To
  <2>4. g[i] \in i + 1 .. n + 1
    BY <1>11, <2>3
  <2>5. QED BY <1>1, <2>4
<1>15. 1 .. n + 2 \subseteq T
  <2> HIDE DEF T, n
  <2>1. QED BY <1>1, <1>13, <1>14, Descent
<1>16. g \in S
  <2>1. ASSUME NEW i \in 1 .. n + 2 PROVE g[i] \in Nat
    BY <1>15
  <2>2. g \in [1 .. n + 2 -> Nat]
    BY <1>12, <2>1
  <2>3. ASSUME NEW i \in 1 .. n PROVE g[i] \in i + 1 .. n + 1
    <3>1. i \in T
      BY <1>1, <1>15
    <3>2. QED BY <1>1, <3>1
  <2>4. QED BY <1>11, <2>2, <2>3 DEF EndsOf
<1>17. QED BY <1>9, <1>11, <1>16 DEF StringEnds, To

(* A comment goes on at i and ends at e.                                   *)
CommentEnds(t, f) ==
  /\ f \in EndsOf(Len(t)) /\ \A i \in 1 .. Len(t) + 2 : CommentEnd(t, i) = f[i]
  /\ \A i \in 1 .. Len(t) : f[i] = IF Pair(t, i, "/", "*") THEN f[f[i + 2]] ELSE IF Pair(t, i, "*", "/") THEN i + 2 ELSE f[i + 1]

(* There are such ends of comments.                                        *)
LEMMA CommentsEnd ==
  ASSUME NEW t \in Seq(STRING)
  PROVE  \E f : CommentEnds(t, f)
<1> DEFINE n     == Len(t)
           S     == EndsOf(n)
           To(f, i) == IF Pair(t, i, "/", "*") THEN f[f[i + 2]] ELSE IF Pair(t, i, "*", "/") THEN i + 2 ELSE f[i + 1]
           to    == [i \in 1 .. n |-> [f \in S |-> To(f, i)]]
           R(f)  == f = [i \in 1 .. Len(t) + 2 |->
                      IF i > Len(t) THEN Len(t) + 1
                      ELSE IF Pair(t, i, "/", "*") THEN f[f[i + 2]]
                      ELSE IF Pair(t, i, "*", "/") THEN i + 2
                      ELSE f[i + 1]]
<1>1. n \in Nat
  OBVIOUS
<1>2. ASSUME NEW i \in 1 .. n, NEW f \in S PROVE To(f, i) \in i + 1 .. n + 1
  <2>1. f \in [1 .. n + 2 -> Nat] /\ f[n + 1] = n + 1 /\ f[n + 2] = n + 1 /\ \A k \in 1 .. n : f[k] \in k + 1 .. n + 1
    BY DEF EndsOf
  <2>2. ASSUME NEW k \in i + 1 .. n + 2 PROVE f[k] \in i + 1 .. n + 1
    <3>1. n + 1 \in i + 1 .. n + 1 /\ (k \in 1 .. n \/ k = n + 1 \/ k = n + 2)
      BY <1>1
    <3>2. CASE k \in 1 .. n
      <4>1. f[k] \in k + 1 .. n + 1
        BY <2>1, <3>2
      <4>2. QED BY <1>1, <4>1
    <3>3. QED BY <2>1, <3>1, <3>2
  <2>3. i + 1 \in i + 1 .. n + 2 /\ i + 2 \in i + 1 .. n + 2
    BY <1>1
  <2>4. f[i + 2] \in i + 1 .. n + 2
    BY <1>1, <2>2, <2>3
  <2>5. Pair(t, i, "*", "/") => i + 2 \in i + 1 .. n + 1
    BY <1>1 DEF Pair
  <2>6. QED BY <2>2, <2>3, <2>4, <2>5
<1>3. ASSUME NEW i \in 1 .. n, NEW f \in S, NEW g \in S, \A k \in i + 1 .. n + 2 : f[k] = g[k]
      PROVE  To(f, i) = To(g, i)
  <2>1. i + 1 \in i + 1 .. n + 2 /\ i + 2 \in i + 1 .. n + 2
    BY <1>1
  <2>2. \A k \in 1 .. n : f[k] \in k + 1 .. n + 1
    BY DEF EndsOf
  <2>3. f[n + 1] = n + 1 /\ f[n + 2] = n + 1
    BY DEF EndsOf
  <2>4. f[i + 2] \in i + 1 .. n + 2
    BY <1>1, <2>2, <2>3
  <2>5. QED BY <1>3, <2>1, <2>4
<1> HIDE DEF To
<1>4. LooksAhead(n, to)
  <2>1. \A i \in 1 .. n : \A f \in S : To(f, i) \in Nat
    BY <1>1, <1>2
  <2> HIDE DEF S, n
  <2>2. to \in [1 .. n -> [S -> Nat]]
    BY <2>1
  <2>3. \A i \in 1 .. n : \A f \in S : to[i][f] = To(f, i)
    OBVIOUS
  <2> HIDE DEF to
  <2>4. QED BY <1>1, <1>2, <1>3, <2>2, <2>3 DEF LooksAhead, S
<1>5. PICK f \in S : \A i \in 1 .. n : f[i] = to[i][f]
  <2> HIDE DEF to
  <2>1. QED BY <1>4, EndsExist
<1>6. \A i \in 1 .. n : f[i] = To(f, i)
  <2> HIDE DEF S, n
  <2>1. QED BY <1>5
<1> HIDE DEF to
<1>7. R(f)
  <2>1. f \in [1 .. n + 2 -> Nat] /\ f[n + 1] = n + 1 /\ f[n + 2] = n + 1
    BY DEF EndsOf
  <2>2. ASSUME NEW i \in 1 .. n + 2
        PROVE  f[i] = IF i > n THEN n + 1 ELSE To(f, i)
    <3>1. i \in 1 .. n \/ i = n + 1 \/ i = n + 2
      BY <1>1
    <3>2. QED BY <1>1, <1>6, <2>1, <3>1
  <2>3. f = [i \in 1 .. n + 2 |-> IF i > n THEN n + 1 ELSE To(f, i)]
    <3>1. f = [i \in 1 .. n + 2 |-> f[i]]
      BY <2>1
    <3>2. [i \in 1 .. n + 2 |-> f[i]] = [i \in 1 .. n + 2 |-> IF i > n THEN n + 1 ELSE To(f, i)]
      BY <2>2
    <3>3. QED BY <3>1, <3>2
  <2>4. QED BY <2>3 DEF To
<1>8. PICK g : g = CHOOSE f1 : R(f1)
  OBVIOUS
<1>9. \A i \in 1 .. n + 2 : CommentEnd(t, i) = g[i]
  BY <1>8 DEF CommentEnd
<1>10. R(g)
  BY <1>7, <1>8
<1>11. /\ \A i \in 1 .. n : g[i] = To(g, i)
       /\ g[n + 1] = n + 1 /\ g[n + 2] = n + 1
  <2>1. \A i \in 1 .. n + 2 : g[i] = IF i > n THEN n + 1 ELSE To(g, i)
    BY <1>10 DEF To
  <2>2. \A i \in 1 .. n : i \in 1 .. n + 2 /\ ~ (i > n)
    BY <1>1
  <2>3. n + 1 \in 1 .. n + 2 /\ n + 2 \in 1 .. n + 2 /\ n + 1 > n /\ n + 2 > n
    BY <1>1
  <2>4. QED BY <2>1, <2>2, <2>3
<1>12. g = [i \in 1 .. n + 2 |-> g[i]]
  BY <1>10
<1> HIDE DEF R
<1> DEFINE T == {i \in 1 .. n + 2 : g[i] \in Nat /\ g[i] <= n + 1 /\ (i <= n => g[i] >= i + 1)}
<1>13. n + 1 \in T /\ n + 2 \in T
  BY <1>1, <1>11
<1>14. ASSUME NEW i \in 1 .. n, (i + 1 .. n + 2) \subseteq T PROVE i \in T
  <2>1. ASSUME NEW k \in i + 1 .. n + 2 PROVE g[k] \in i + 1 .. n + 1
    <3>1. k \in T
      BY <1>14
    <3>2. k \in Nat /\ i \in Nat /\ i + 1 <= k
      BY <1>1
    <3>3. CASE k <= n
      BY <1>1, <3>1, <3>2, <3>3
    <3>4. CASE k = n + 1 \/ k = n + 2
      BY <1>1, <1>11, <3>4
    <3>5. QED BY <1>1, <3>2, <3>3, <3>4
  <2>2. i + 1 \in i + 1 .. n + 2 /\ i + 2 \in i + 1 .. n + 2
    BY <1>1
  <2>3. g[i + 2] \in i + 1 .. n + 2
    BY <1>1, <2>1, <2>2
  <2>4. Pair(t, i, "*", "/") => i + 2 \in i + 1 .. n + 1
    BY <1>1 DEF Pair
  <2>5. To(g, i) \in i + 1 .. n + 1
    BY <2>1, <2>2, <2>3, <2>4 DEF To
  <2>6. g[i] \in i + 1 .. n + 1
    BY <1>11, <2>5
  <2>7. QED BY <1>1, <2>6
<1>15. 1 .. n + 2 \subseteq T
  <2> HIDE DEF T, n
  <2>1. QED BY <1>1, <1>13, <1>14, Descent
<1>16. g \in S
  <2>1. ASSUME NEW i \in 1 .. n + 2 PROVE g[i] \in Nat
    BY <1>15
  <2>2. g \in [1 .. n + 2 -> Nat]
    BY <1>12, <2>1
  <2>3. ASSUME NEW i \in 1 .. n PROVE g[i] \in i + 1 .. n + 1
    <3>1. i \in T
      BY <1>1, <1>15
    <3>2. QED BY <1>1, <3>1
  <2>4. QED BY <1>11, <2>2, <2>3 DEF EndsOf
<1>17. QED BY <1>9, <1>11, <1>16 DEF CommentEnds, To

(***************************************************************************)
(* The loop of top_level_semicolons.                                       *)
(***************************************************************************)
Modes == {m \in [in : {"normal", "single", "double", "dollar", "line", "block"}, tag : Seq(STRING), depth : Nat] :
            /\ m.in = "dollar" => m.tag # <<>> /\ \A k \in 1 .. Len(m.tag) : m.tag[k] \in L!TagChar \cup {"$"}
            /\ m.in = "block" => m.depth # 0}

LoopState == [state : Modes, next : Nat, semicolons : Seq(Nat), code : SUBSET Nat]

Block(d) == IF d = 0 THEN L!Normal ELSE [L!In("block") EXCEPT !.depth = d]

(* The states of the loop.                                                 *)
LEMMA ModesAre ==
  /\ L!Normal \in Modes /\ \A w \in {"single", "double", "line"} : L!In(w) \in Modes
  /\ L!In("single").in = "single" /\ L!In("double").in = "double" /\ L!In("line").in = "line"
  /\ L!Normal.in = "normal" /\ \A d \in Nat : Block(d) \in Modes /\ (d # 0 => Block(d).in = "block" /\ Block(d).depth = d)
<1>1. \A w \in {"single", "double", "line", "block"} : L!In(w) = [in |-> w, tag |-> <<>>, depth |-> 0]
  BY DEF L!In, L!Normal
<1>2. ASSUME NEW w \in {"normal", "single", "double", "line", "block"}, NEW d \in Nat, w = "block" => d # 0
      PROVE  [in |-> w, tag |-> <<>>, depth |-> d] \in Modes
  <2>1. PICK e : e = <<>>
    OBVIOUS
  <2>2. e \in Seq(STRING)
    BY <2>1
  <2>3. [in |-> w, tag |-> e, depth |-> d] \in Modes
    BY <1>2, <2>2 DEF Modes
  <2>4. QED BY <2>1, <2>3
<1>3. ASSUME NEW d \in Nat PROVE Block(d) = IF d = 0 THEN L!Normal ELSE [in |-> "block", tag |-> <<>>, depth |-> d]
  BY <1>1 DEF Block
<1>4. L!Normal = [in |-> "normal", tag |-> <<>>, depth |-> 0] /\ 0 \in Nat
  BY DEF L!Normal
<1>5. \A d \in Nat : Block(d) \in Modes /\ (d # 0 => Block(d).in = "block" /\ Block(d).depth = d)
  BY <1>2, <1>3, <1>4
<1>6. L!Normal \in Modes /\ \A w \in {"single", "double", "line"} : L!In(w) \in Modes
  BY <1>1, <1>2, <1>4
<1>7. QED BY <1>1, <1>4, <1>5, <1>6

(* The end of a dollar tag, if one starts here.                            *)
TagEnd(t, i, e) ==
  /\ e \in i + 1 .. Len(t) /\ t[e] = "$" /\ \A k \in i + 1 .. e - 1 : t[k] \in L!TagChar

(* DollarTagAt finds it.                                                   *)
LEMMA TagFound ==
  ASSUME NEW t \in Seq(STRING), NEW i \in 1 .. Len(t)
  PROVE  /\ L!DollarTagAt(t, i) \in Nat
         /\ L!DollarTagAt(t, i) # 0 => TagEnd(t, i, L!DollarTagAt(t, i))
         /\ \A e \in i + 1 .. Len(t) : TagEnd(t, i, e) => L!DollarTagAt(t, i) = e
<1>1. PICK n, S, m : n = Len(t) /\ S = {j \in i + 1 .. Len(t) + 1 : L!At(t, j) \notin L!TagChar} /\ m = L!Min(S)
  OBVIOUS
<1>2. n \in Nat /\ n + 1 \in i + 1 .. n + 1 /\ ~ (n + 1 \in DOMAIN t)
  BY <1>1
<1>3. L!At(t, n + 1) = "none" /\ \A j \in 1 .. n : L!At(t, j) = t[j]
  BY <1>1, <1>2 DEF L!At
<1>4. n + 1 \in S
  BY <1>1, <1>2, <1>3 DEF L!TagChar
<1>5. S \in SUBSET Nat /\ S # {}
  BY <1>1, <1>2, <1>4
<1>6. m \in S /\ \A k \in S : m <= k
  BY <1>1, <1>5, CutMin
<1>7. m \in i + 1 .. n + 1 /\ L!At(t, m) \notin L!TagChar
  BY <1>1, <1>6
<1>8. \A k \in i + 1 .. m - 1 : L!At(t, k) \in L!TagChar
  BY <1>1, <1>2, <1>6, <1>7
<1>9. L!DollarTagAt(t, i) = IF L!At(t, m) = "$" THEN m ELSE 0
  BY <1>1 DEF L!DollarTagAt
<1>10. L!At(t, m) = "$" => TagEnd(t, i, m)
  <2>1. SUFFICES ASSUME L!At(t, m) = "$" PROVE TagEnd(t, i, m)
    OBVIOUS
  <2>2. m \in i + 1 .. n
    BY <1>2, <1>3, <1>7, <2>1
  <2>3. t[m] = "$" /\ \A k \in i + 1 .. m - 1 : t[k] = L!At(t, k)
    BY <1>2, <1>3, <2>1, <2>2
  <2>4. QED BY <1>1, <1>8, <2>2, <2>3 DEF TagEnd
<1>11. ASSUME NEW e \in i + 1 .. n, TagEnd(t, i, e) PROVE e = m /\ L!At(t, m) = "$"
  <2>1. t[e] = "$" /\ L!At(t, e) = "$" /\ e \in S
    BY <1>1, <1>2, <1>3, <1>11 DEF TagEnd, L!TagChar
  <2>2. m <= e
    BY <1>6, <2>1
  <2>3. ~ (m < e)
    <3>1. SUFFICES ASSUME m < e PROVE FALSE
      OBVIOUS
    <3>2. m \in i + 1 .. e - 1 /\ m \in 1 .. n
      BY <1>2, <1>7, <3>1
    <3>3. QED BY <1>3, <1>7, <1>11, <3>2 DEF TagEnd
  <2>4. e = m
    BY <1>2, <1>7, <2>2, <2>3
  <2>5. QED BY <2>1, <2>4
<1>12. L!DollarTagAt(t, i) \in Nat /\ (L!DollarTagAt(t, i) # 0 => TagEnd(t, i, L!DollarTagAt(t, i)))
  BY <1>2, <1>7, <1>9, <1>10
<1>13. \A e \in i + 1 .. n : TagEnd(t, i, e) => L!DollarTagAt(t, i) = e
  BY <1>9, <1>11
<1>14. QED BY <1>1, <1>12, <1>13

(* The tag itself.                                                         *)
LEMMA TagTyped ==
  ASSUME NEW t \in Seq(STRING), NEW i \in 1 .. Len(t), t[i] = "$", NEW e, TagEnd(t, i, e)
  PROVE  /\ SubSeq(t, i, e) \in Seq(STRING) /\ Len(SubSeq(t, i, e)) = e - i + 1 /\ SubSeq(t, i, e) # <<>>
         /\ \A k \in 1 .. Len(SubSeq(t, i, e)) : SubSeq(t, i, e)[k] \in L!TagChar \cup {"$"}
<1>1. PICK n, g : n = Len(t) /\ g = SubSeq(t, i, e)
  OBVIOUS
<1>2. n \in Nat /\ e \in i + 1 .. n /\ i \in 1 .. n
  BY <1>1 DEF TagEnd
<1>3. g \in Seq(STRING) /\ Len(g) = e - i + 1 /\ \A k \in 1 .. e - i + 1 : g[k] = t[i + k - 1]
  BY <1>1, <1>2
<1>4. \A k \in 1 .. e - i + 1 : i + k - 1 = i \/ i + k - 1 = e \/ i + k - 1 \in i + 1 .. e - 1
  BY <1>2
<1>5. \A k \in i .. e : t[k] \in L!TagChar \cup {"$"}
  BY <1>2 DEF TagEnd
<1>6. \A k \in 1 .. e - i + 1 : g[k] \in L!TagChar \cup {"$"}
  BY <1>2, <1>3, <1>5
<1>7. g # <<>>
  BY <1>2, <1>3
<1>8. QED BY <1>1, <1>3, <1>6, <1>7

(* One turn of the loop moves on within the text.                          *)
LEMMA LexedTyped ==
  ASSUME NEW t \in Seq(STRING), NEW i \in 1 .. Len(t), NEW s \in Modes
  PROVE  L!Lexed(t, i, s).state \in Modes /\ L!Lexed(t, i, s).by \in 1 .. Len(t) + 1 - i
<1>1. PICK n : n = Len(t)
  OBVIOUS
<1>2. n \in Nat /\ i \in 1 .. n /\ 1 \in 1 .. n + 1 - i
  BY <1>1
<1>3. ASSUME NEW c, L!At(t, i + 1) = c, c # "none" PROVE 2 \in 1 .. n + 1 - i
  <2>1. i + 1 \in DOMAIN t
    BY <1>3 DEF L!At
  <2>2. QED BY <1>1, <1>2, <2>1
<1>4. \A w \in Modes : \A b : L!Turn(w, b).state = w /\ L!Turn(w, b).by = b
  BY DEF L!Turn
<1>5. s.in \in {"normal", "single", "double", "dollar", "line", "block"} /\ s.tag \in Seq(STRING) /\ s.depth \in Nat
  BY DEF Modes
<1>6. CASE s.in = "normal"
  <2>1. L!Lexed(t, i, s) = L!Outside(t, i)
    BY <1>6 DEF L!Lexed
  <2>2. CASE L!At(t, i) = "$" /\ L!DollarTagAt(t, i) # 0
    <3>1. PICK e, g : e = L!DollarTagAt(t, i) /\ g = SubSeq(t, i, e)
      OBVIOUS
    <3>2. TagEnd(t, i, e)
      BY <2>2, <3>1, TagFound
    <3>3. t[i] = "$"
      BY <1>1, <1>2, <2>2 DEF L!At
    <3>4. g \in Seq(STRING) /\ g # <<>> /\ \A k \in 1 .. Len(g) : g[k] \in L!TagChar \cup {"$"}
      BY <3>1, <3>2, <3>3, TagTyped
    <3>5. PICK m : m = [L!In("dollar") EXCEPT !.tag = g]
      OBVIOUS
    <3>6. m = [in |-> "dollar", tag |-> g, depth |-> 0]
      BY <3>5 DEF L!In, L!Normal
    <3>7. m \in Modes
      BY <3>4, <3>6 DEF Modes
    <3>8. L!Outside(t, i) = L!Turn(m, e - i + 1)
      BY <2>2, <3>1, <3>5 DEF L!Outside
    <3>9. e - i + 1 \in 1 .. n + 1 - i
      BY <1>1, <1>2, <3>2 DEF TagEnd
    <3>10. QED BY <1>1, <1>4, <2>1, <3>7, <3>8, <3>9
  <2>3. CASE ~ (L!At(t, i) = "$" /\ L!DollarTagAt(t, i) # 0)
    <3>1. [L!In("block") EXCEPT !.depth = 1] \in Modes
      BY ModesAre DEF Block
    <3>2. CASE L!At(t, i) = "q"
      <4>1. L!Outside(t, i) = L!Turn(L!In("single"), 1)
        BY <3>2 DEF L!Outside
      <4>2. QED BY <1>1, <1>2, <1>4, <2>1, <4>1, ModesAre
    <3>3. CASE L!At(t, i) = "Q"
      <4>1. L!Outside(t, i) = L!Turn(L!In("double"), 1)
        BY <3>3 DEF L!Outside
      <4>2. QED BY <1>1, <1>2, <1>4, <2>1, <4>1, ModesAre
    <3>4. CASE L!At(t, i) = "-" /\ L!At(t, i + 1) = "-"
      <4>1. L!Outside(t, i) = L!Turn(L!In("line"), 2)
        BY <3>4 DEF L!Outside
      <4>2. QED BY <1>1, <1>3, <1>4, <2>1, <3>4, <4>1, ModesAre
    <3>5. CASE L!At(t, i) = "/" /\ L!At(t, i + 1) = "*"
      <4>1. L!Outside(t, i) = L!Turn([L!In("block") EXCEPT !.depth = 1], 2)
        BY <3>5 DEF L!Outside
      <4>2. QED BY <1>1, <1>3, <1>4, <2>1, <3>1, <3>5, <4>1
    <3>6. CASE /\ L!At(t, i) \notin {"q", "Q"} /\ ~ (L!At(t, i) = "-" /\ L!At(t, i + 1) = "-")
               /\ ~ (L!At(t, i) = "/" /\ L!At(t, i + 1) = "*")
      <4>1. L!Outside(t, i) = L!Turn(L!Normal, 1)
        BY <2>3, <3>6 DEF L!Outside
      <4>2. QED BY <1>1, <1>2, <1>4, <2>1, <4>1, ModesAre
    <3>7. QED BY <3>2, <3>3, <3>4, <3>5, <3>6
  <2>4. QED BY <2>2, <2>3
<1>7. CASE s.in \in {"single", "double"}
  <2>1. PICK q \in {"q", "Q"} : L!Lexed(t, i, s) = L!Quoted(t, i, s.in, q)
    BY <1>7 DEF L!Lexed
  <2>2. \/ L!Quoted(t, i, s.in, q) \in {L!Turn(L!In(s.in), 1), L!Turn(L!Normal, 1)}
        \/ L!Quoted(t, i, s.in, q) = L!Turn(L!In(s.in), 2) /\ L!At(t, i + 1) = q
    BY DEF L!Quoted
  <2>3. QED BY <1>1, <1>2, <1>3, <1>4, <1>7, <2>1, <2>2, ModesAre
<1>8. CASE s.in = "dollar"
  <2>1. L!Lexed(t, i, s) = L!Dollar(t, i, s)
    BY <1>8 DEF L!Lexed
  <2>2. PICK l : l = Len(s.tag)
    OBVIOUS
  <2>3. l \in Nat /\ l # 0
    BY <1>5, <1>8, <2>2 DEF Modes
  <2>4. CASE i + l - 1 <= n /\ SubSeq(t, i, i + l - 1) = s.tag
    <3>1. L!Dollar(t, i, s) = L!Turn(L!Normal, l)
      BY <1>1, <2>2, <2>4 DEF L!Dollar
    <3>2. l \in 1 .. n + 1 - i
      BY <1>2, <2>3, <2>4
    <3>3. QED BY <1>1, <1>4, <2>1, <3>1, <3>2, ModesAre
  <2>5. CASE ~ (i + l - 1 <= n /\ SubSeq(t, i, i + l - 1) = s.tag)
    <3>1. L!Dollar(t, i, s) = L!Turn(s, 1)
      BY <1>1, <2>2, <2>5 DEF L!Dollar
    <3>2. QED BY <1>1, <1>2, <1>4, <2>1, <3>1
  <2>6. QED BY <2>4, <2>5
<1>9. CASE s.in = "line"
  <2>1. L!Lexed(t, i, s) = L!Turn(IF L!At(t, i) = "n" THEN L!Normal ELSE s, 1)
    BY <1>9 DEF L!Lexed
  <2>2. QED BY <1>1, <1>2, <1>4, <2>1, ModesAre
<1>10. CASE s.in = "block"
  <2>1. L!Lexed(t, i, s) = L!Commented(t, i, s.depth)
    BY <1>10 DEF L!Lexed
  <2>2. ASSUME NEW d \in Nat, d # 0 PROVE [L!In("block") EXCEPT !.depth = d] \in Modes
    BY <2>2, ModesAre DEF Block
  <2>3. s.depth + 1 \in Nat /\ s.depth + 1 # 0 /\ s.depth # 0 /\ (s.depth # 1 => s.depth - 1 \in Nat /\ s.depth - 1 # 0)
    BY <1>5, <1>10 DEF Modes
  <2>4. CASE L!At(t, i) = "/" /\ L!At(t, i + 1) = "*"
    <3>1. L!Commented(t, i, s.depth) = L!Turn([L!In("block") EXCEPT !.depth = s.depth + 1], 2)
      BY <2>4 DEF L!Commented
    <3>2. QED BY <1>1, <1>3, <1>4, <2>1, <2>2, <2>3, <2>4, <3>1
  <2>5. CASE L!At(t, i) = "*" /\ L!At(t, i + 1) = "/"
    <3>1. L!Commented(t, i, s.depth) = L!Turn(IF s.depth = 1 THEN L!Normal ELSE [L!In("block") EXCEPT !.depth = s.depth - 1], 2)
      BY <2>5 DEF L!Commented
    <3>2. 2 \in 1 .. n + 1 - i
      BY <1>3, <2>5
    <3>3. CASE s.depth = 1
      BY <1>1, <1>4, <2>1, <3>1, <3>2, <3>3, ModesAre
    <3>4. CASE s.depth # 1
      <4>1. [L!In("block") EXCEPT !.depth = s.depth - 1] \in Modes
        BY <2>2, <2>3, <3>4
      <4>2. QED BY <1>1, <1>4, <2>1, <3>1, <3>2, <3>4, <4>1
    <3>5. QED BY <3>3, <3>4
  <2>6. CASE ~ (L!At(t, i) = "/" /\ L!At(t, i + 1) = "*") /\ ~ (L!At(t, i) = "*" /\ L!At(t, i + 1) = "/")
    <3>1. L!Commented(t, i, s.depth) = L!Turn([L!In("block") EXCEPT !.depth = s.depth], 1)
      BY <2>6 DEF L!Commented
    <3>2. QED BY <1>1, <1>2, <1>4, <1>5, <2>1, <2>2, <2>3, <3>1
  <2>7. QED BY <2>4, <2>5, <2>6
<1>11. QED BY <1>5, <1>6, <1>7, <1>8, <1>9, <1>10

(* A turn of the loop keeps what it keeps in order.                        *)
LEMMA PassedTyped ==
  ASSUME NEW t \in Seq(STRING), NEW i \in 1 .. Len(t), NEW l \in LoopState
  PROVE  L!Passed(l, t, i) \in LoopState
<1>1. CASE l.next # i
  BY <1>1 DEF L!Passed
<1>2. CASE l.next = i
  <2>1. PICK turn, n, r : turn = L!Lexed(t, i, l.state) /\ n = Len(t) /\ r = L!Passed(l, t, i)
    OBVIOUS
  <2>2. l.state \in Modes /\ l.semicolons \in Seq(Nat) /\ l.code \in SUBSET Nat
    BY DEF LoopState
  <2>3. turn.state \in Modes /\ turn.by \in 1 .. n + 1 - i
    BY <2>1, <2>2, LexedTyped
  <2>4. n \in Nat /\ i \in Nat
    BY <2>1
  <2>5. i + turn.by \in Nat
    BY <2>3, <2>4
  <2>6. PICK a, m, c :
          /\ a = (IF l.state = L!Normal /\ t[i] = "s" THEN Append(l.semicolons, i) ELSE l.semicolons)
          /\ c = (IF L!Seen(t[i], l.state, turn.state) THEN l.code \cup {i} ELSE l.code)
          /\ m = i + turn.by
    OBVIOUS
  <2>7. a \in Seq(Nat) /\ c \in SUBSET Nat /\ m \in Nat
    BY <2>2, <2>4, <2>5, <2>6
  <2>8. r = [state |-> turn.state, next |-> m, semicolons |-> a, code |-> c]
    BY <1>2, <2>1, <2>6 DEF L!Passed
  <2>9. QED BY <2>1, <2>3, <2>7, <2>8 DEF LoopState
<1>3. QED BY <1>1, <1>2

(* The loop over the first characters.                                     *)
Loops(g, t) ==
  /\ g \in [0 .. Len(t) -> LoopState] /\ g[0] = L!Start
  /\ \A i \in 1 .. Len(t) : g[i] = L!Passed(g[i - 1], t, i)

(* Lex is the end of such a run.                                           *)
LEMMA LexLoops ==
  ASSUME NEW t \in Seq(STRING)
  PROVE  \E g : Loops(g, t) /\ L!Lex(t) = g[Len(t)]
<1> DEFINE n    == Len(t)
           step == [i \in 1 .. n |-> [s \in LoopState |-> L!Passed(s, t, i)]]
           R(f) == f = [i \in 0 .. Len(t) |-> IF i = 0 THEN L!Start ELSE L!Passed(f[i - 1], t, i)]
<1>0. n \in Nat /\ L!Start \in LoopState
  BY ModesAre DEF L!Start, LoopState
<1>1. Recursion(n, LoopState, L!Start, step)
  <2>1. ASSUME NEW i \in 1 .. n PROVE [s \in LoopState |-> L!Passed(s, t, i)] \in [LoopState -> LoopState]
    BY PassedTyped
  <2> HIDE DEF n
  <2>2. QED BY <1>0, <2>1 DEF Recursion
<1>2. PICK f : Solves(f, n, LoopState, L!Start, step)
  BY <1>1, RecursionExists
<1>3. f \in [0 .. n -> LoopState] /\ f[0] = L!Start /\ \A i \in 1 .. n : f[i] = L!Passed(f[i - 1], t, i)
  <2>1. f \in [0 .. n -> LoopState] /\ f[0] = L!Start /\ \A i \in 1 .. n : f[i] = step[i][f[i - 1]]
    BY <1>2 DEF Solves
  <2>2. ASSUME NEW i \in 1 .. n PROVE f[i] = L!Passed(f[i - 1], t, i)
    <3>1. i - 1 \in 0 .. n
      BY <1>0
    <3>2. f[i - 1] \in LoopState
      BY <2>1, <3>1
    <3>3. QED BY <2>1, <3>2
  <2> HIDE DEF step
  <2>3. QED BY <2>1, <2>2
<1> HIDE DEF step
<1>4. R(f)
  <2>1. ASSUME NEW i \in 0 .. n
        PROVE  f[i] = IF i = 0 THEN L!Start ELSE L!Passed(f[i - 1], t, i)
    <3>1. CASE i = 0
      BY <1>3, <3>1
    <3>2. CASE i # 0
      <4>1. i \in 1 .. n
        BY <1>0, <3>2
      <4>2. QED BY <1>3, <3>2, <4>1
    <3>3. QED BY <3>1, <3>2
  <2>2. f = [i \in 0 .. n |-> f[i]]
    BY <1>3
  <2>3. [i \in 0 .. n |-> f[i]] = [i \in 0 .. n |-> IF i = 0 THEN L!Start ELSE L!Passed(f[i - 1], t, i)]
    BY <2>1
  <2>4. QED BY <2>2, <2>3
<1>5. ASSUME NEW g, R(g) PROVE Loops(g, t)
  <2> DEFINE T == {i \in 0 .. n : g[i] \in LoopState}
  <2>1. g[0] = L!Start /\ \A i \in 1 .. n : g[i] = L!Passed(g[i - 1], t, i)
    <3>1. 0 \in 0 .. n
      BY <1>0
    <3>2. g[0] = L!Start
      BY <1>5, <3>1
    <3>3. ASSUME NEW i \in 1 .. n PROVE g[i] = L!Passed(g[i - 1], t, i)
      <4>1. i \in 0 .. n /\ i # 0
        BY <1>0
      <4>2. QED BY <1>5, <4>1
    <3>4. QED BY <3>2, <3>3
  <2>2. g = [i \in 0 .. n |-> g[i]]
    BY <1>5
  <2> HIDE DEF R
  <2>3. 0 \in T
    BY <1>0, <2>1
  <2>4. ASSUME NEW i \in 0 .. n - 1, i \in T PROVE i + 1 \in T
    <3>1. PICK k : k = i + 1
      OBVIOUS
    <3>2. k \in 1 .. n /\ k - 1 = i /\ k \in 0 .. n
      BY <1>0, <3>1
    <3>3. g[i] \in LoopState
      BY <2>4
    <3>4. g[k] = L!Passed(g[i], t, k)
      BY <2>1, <3>2
    <3>5. g[k] \in LoopState
      BY <3>2, <3>3, <3>4, PassedTyped
    <3>6. QED BY <3>1, <3>2, <3>5
  <2> HIDE DEF T
  <2>5. 0 .. n \subseteq T
    BY <1>0, <2>3, <2>4, Ascent
  <2>6. \A i \in 0 .. n : g[i] \in LoopState
    BY <2>5 DEF T
  <2>7. g \in [0 .. n -> LoopState]
    BY <2>2, <2>6
  <2>8. QED BY <2>1, <2>7 DEF Loops
<1>6. PICK g : g = CHOOSE f1 : R(f1)
  OBVIOUS
<1>7. L!Lex(t) = g[n]
  BY <1>6 DEF L!Lex
<1> HIDE DEF R
<1>8. R(g)
  BY <1>4, <1>6
<1>9. QED BY <1>5, <1>7, <1>8

(* One turn at i goes on at e in state s.                                  *)
Turned(g, t, i, e, s) ==
  /\ e \in i + 1 .. Len(t) + 1 /\ g[e - 1].next = e /\ g[e - 1].state = s
  /\ g[e - 1].semicolons = (IF g[i - 1].state = L!Normal /\ t[i] = "s" THEN Append(g[i - 1].semicolons, i) ELSE g[i - 1].semicolons)
  /\ g[e - 1].code = (IF L!Seen(t[i], g[i - 1].state, s) THEN g[i - 1].code \cup {i} ELSE g[i - 1].code)

(* The characters a turn skips change nothing.                             *)
LEMMA TurnTaken ==
  ASSUME NEW t \in Seq(STRING), NEW g, Loops(g, t), NEW i \in 1 .. Len(t), g[i - 1].next = i,
         NEW s, NEW by, L!Lexed(t, i, g[i - 1].state) = L!Turn(s, by)
  PROVE  Turned(g, t, i, i + by, s)
<1>1. PICK n, l, e : n = Len(t) /\ l = g[i - 1] /\ e = i + by
  OBVIOUS
<1>2. n \in Nat /\ i - 1 \in 0 .. n /\ i \in 0 .. n
  BY <1>1
<1>3. l \in LoopState
  BY <1>1, <1>2 DEF Loops
<1>4. by \in 1 .. n + 1 - i
  <2>1. l.state \in Modes
    BY <1>3 DEF LoopState
  <2>2. L!Lexed(t, i, l.state).by = by
    BY <1>1 DEF L!Turn
  <2>3. QED BY <1>1, <2>1, <2>2, LexedTyped
<1>5. e \in i + 1 .. n + 1
  BY <1>1, <1>2, <1>4
<1>6. g[i] = L!Passed(l, t, i)
  BY <1>1 DEF Loops
<1>7. L!Lexed(t, i, l.state).state = s /\ L!Lexed(t, i, l.state).by = by
  BY <1>1 DEF L!Turn
<1>8. /\ g[i].next = e /\ g[i].state = s
      /\ g[i].semicolons = (IF l.state = L!Normal /\ t[i] = "s" THEN Append(l.semicolons, i) ELSE l.semicolons)
      /\ g[i].code = (IF L!Seen(t[i], l.state, s) THEN l.code \cup {i} ELSE l.code)
  BY <1>1, <1>6, <1>7 DEF L!Passed
<1> DEFINE T == {k \in 0 .. e - 1 - i : g[i + k] = g[i]}
<1>9. 0 \in T
  BY <1>2, <1>5
<1>10. ASSUME NEW k \in 0 .. e - 1 - i - 1, k \in T PROVE k + 1 \in T
  <2>1. PICK j : j = i + k + 1
    OBVIOUS
  <2>2. j \in 1 .. n /\ j - 1 = i + k /\ j < e /\ k + 1 \in 0 .. e - 1 - i
    BY <1>2, <1>5, <2>1
  <2>3. g[j] = L!Passed(g[j - 1], t, j)
    BY <1>1, <2>2 DEF Loops
  <2>4. g[j - 1] = g[i] /\ g[j - 1].next # j
    BY <1>5, <1>8, <1>10, <2>2
  <2>5. g[j] = g[i]
    BY <2>3, <2>4 DEF L!Passed
  <2>6. QED BY <2>1, <2>2, <2>5
<1>11. e - 1 - i \in T
  <2> HIDE DEF T
  <2>1. e - 1 - i \in Nat
    BY <1>2, <1>5
  <2>2. 0 .. e - 1 - i \subseteq T
    BY <1>9, <1>10, <2>1, Ascent
  <2>3. QED BY <2>1, <2>2
<1>12. g[e - 1] = g[i]
  <2>1. i + (e - 1 - i) = e - 1
    BY <1>2, <1>5
  <2>2. QED BY <1>11, <2>1
<1> HIDE DEF T
<1>13. QED BY <1>1, <1>5, <1>8, <1>12 DEF Turned

(* From i the loop comes to e, pushes nothing, and sees nothing elsewhere. *)
LeadsTo(g, n, i, e) ==
  /\ i \in 1 .. n + 1 /\ e \in i .. n + 1 /\ g[e - 1].next = e /\ g[e - 1].semicolons = g[i - 1].semicolons
  /\ g[i - 1].code \subseteq g[e - 1].code /\ g[e - 1].code \subseteq g[i - 1].code \cup (i .. e - 1)

(* It may go on from there.                                                *)
LEMMA LeadsOn ==
  ASSUME NEW n \in Nat, NEW g, NEW i, NEW e, NEW d, LeadsTo(g, n, i, e), LeadsTo(g, n, e, d)
  PROVE  LeadsTo(g, n, i, d)
<1>1. i \in 1 .. n + 1 /\ e \in i .. n + 1 /\ d \in e .. n + 1
  BY DEF LeadsTo
<1>2. d \in i .. n + 1 /\ i .. e - 1 \subseteq i .. d - 1 /\ e .. d - 1 \subseteq i .. d - 1
  BY <1>1
<1>3. PICK a, b, c : a = g[i - 1] /\ b = g[e - 1] /\ c = g[d - 1]
  OBVIOUS
<1>4. c.next = d /\ c.semicolons = a.semicolons /\ a.code \subseteq b.code /\ b.code \subseteq c.code
      /\ b.code \subseteq a.code \cup (i .. e - 1) /\ c.code \subseteq b.code \cup (e .. d - 1)
  BY <1>3 DEF LeadsTo
<1>5. a.code \subseteq c.code /\ c.code \subseteq a.code \cup (i .. d - 1)
  BY <1>2, <1>4
<1>6. QED BY <1>1, <1>2, <1>3, <1>4, <1>5 DEF LeadsTo

(* Where the loop stands it is.                                            *)
LEMMA LeadsHere ==
  ASSUME NEW n \in Nat, NEW g, NEW i \in 1 .. n + 1, g[i - 1].next = i
  PROVE  LeadsTo(g, n, i, i)
BY DEF LeadsTo

(* One turn that pushes nothing is such a way.                             *)
LEMMA TurnLeads ==
  ASSUME NEW t \in Seq(STRING), NEW g, NEW i \in 1 .. Len(t), NEW e, NEW s, Turned(g, t, i, e, s),
         ~ (g[i - 1].state = L!Normal /\ t[i] = "s")
  PROVE  LeadsTo(g, Len(t), i, e) /\ g[e - 1].state = s
<1>1. PICK n, a, b : n = Len(t) /\ a = g[i - 1] /\ b = g[e - 1]
  OBVIOUS
<1>2. n \in Nat /\ e \in i + 1 .. n + 1 /\ b.next = e /\ b.state = s /\ b.semicolons = a.semicolons
      /\ (b.code = a.code \cup {i} \/ b.code = a.code)
  BY <1>1 DEF Turned
<1>3. i \in 1 .. n + 1 /\ e \in i .. n + 1 /\ i \in i .. e - 1
  BY <1>1, <1>2
<1>4. a.code \subseteq b.code /\ b.code \subseteq a.code \cup (i .. e - 1)
  BY <1>2, <1>3
<1>5. QED BY <1>1, <1>2, <1>3, <1>4 DEF LeadsTo

(* The next character, if there is one.                                    *)
LEMMA NextIs ==
  ASSUME NEW t \in Seq(STRING), NEW i \in 1 .. Len(t), NEW a, NEW b, b # "none"
  PROVE  /\ L!At(t, i) = t[i]
         /\ Pair(t, i, a, b) <=> t[i] = a /\ L!At(t, i + 1) = b
         /\ Pair(t, i, a, b) => i + 2 \in 1 .. Len(t) + 1
<1>1. PICK n : n = Len(t)
  OBVIOUS
<1>2. n \in Nat /\ DOMAIN t = 1 .. n /\ i \in 1 .. n
  BY <1>1
<1>3. (i + 1 \in DOMAIN t) <=> i < n
  BY <1>2
<1>4. QED BY <1>1, <1>2, <1>3 DEF L!At, Pair

(***************************************************************************)
(* Through quotes and comments.                                            *)
(***************************************************************************)
(* Within a string the loop comes to its end.                              *)
LEMMA StringScan ==
  ASSUME NEW t \in Seq(STRING), NEW g, Loops(g, t), NEW what, NEW quote, NEW f,
         <<what, quote>> \in {<<"single", "q">>, <<"double", "Q">>}, StringEnds(t, f, quote),
         NEW i \in 1 .. Len(t) + 1, g[i - 1].next = i, g[i - 1].state = L!In(what)
  PROVE  LeadsTo(g, Len(t), i, f[i]) /\ (f[i] <= Len(t) => g[f[i] - 1].state = L!Normal)
<1> DEFINE n    == Len(t)
           P(k) == g[k - 1].next = k /\ g[k - 1].state = L!In(what) =>
                     LeadsTo(g, n, k, f[k]) /\ (f[k] <= n => g[f[k] - 1].state = L!Normal)
           T    == {k \in 1 .. n + 2 : k <= n + 1 => P(k)}
<1>1. n \in Nat /\ f[n + 1] = n + 1 /\ f[n + 2] = n + 1 /\ \A k \in 1 .. n : f[k] \in k + 1 .. n + 1
  BY DEF StringEnds, EndsOf
<1>2. L!In(what).in = what /\ L!In(what) # L!Normal /\ what \in {"single", "double"} /\ quote \in {"q", "Q"}
  BY ModesAre
<1>3. n + 2 \in T
  BY <1>1
<1>4. n + 1 \in T
  <2>1. P(n + 1)
    BY <1>1, LeadsHere
  <2> HIDE DEF P
  <2>2. QED BY <1>1, <2>1
<1>5. ASSUME NEW k \in 1 .. n, (k + 1 .. n + 2) \subseteq T PROVE k \in T
  <2>1. SUFFICES ASSUME g[k - 1].next = k, g[k - 1].state = L!In(what)
                 PROVE  LeadsTo(g, n, k, f[k]) /\ (f[k] <= n => g[f[k] - 1].state = L!Normal)
    BY <1>1
  <2>2. f[k] = IF Pair(t, k, quote, quote) THEN f[k + 2] ELSE IF t[k] = quote THEN k + 1 ELSE f[k + 1]
    BY DEF StringEnds
  <2>3. L!At(t, k) = t[k] /\ (Pair(t, k, quote, quote) <=> t[k] = quote /\ L!At(t, k + 1) = quote)
        /\ (Pair(t, k, quote, quote) => k + 2 \in 1 .. n + 1)
    BY <1>2, NextIs
  <2>4. L!Lexed(t, k, L!In(what)) = L!Quoted(t, k, what, quote)
    BY <1>2 DEF L!Lexed
  <2>5. ~ (g[k - 1].state = L!Normal /\ t[k] = "s")
    BY <1>2, <2>1
  <2>6. ASSUME NEW e, Turned(g, t, k, e, L!In(what)), e \in k + 1 .. n + 1, f[k] = f[e]
        PROVE  LeadsTo(g, n, k, f[k]) /\ (f[k] <= n => g[f[k] - 1].state = L!Normal)
    <3>1. LeadsTo(g, n, k, e) /\ g[e - 1].state = L!In(what)
      <4>1. PICK w : w = L!In(what)
        OBVIOUS
      <4>2. Turned(g, t, k, e, w)
        BY <2>6, <4>1
      <4>3. LeadsTo(g, n, k, e) /\ g[e - 1].state = w
        BY <2>5, <4>2, TurnLeads
      <4>4. QED BY <4>1, <4>3
    <3>2. g[e - 1].next = e
      BY <2>6 DEF Turned
    <3>3. e \in T /\ e <= n + 1
      BY <1>1, <1>5, <2>6
    <3>4. LeadsTo(g, n, e, f[e]) /\ (f[e] <= n => g[f[e] - 1].state = L!Normal)
      BY <3>1, <3>2, <3>3
    <3>5. QED BY <1>1, <2>6, <3>1, <3>4, LeadsOn
  <2>7. CASE Pair(t, k, quote, quote)
    <3>1. L!Quoted(t, k, what, quote) = L!Turn(L!In(what), 2)
      BY <2>3, <2>7 DEF L!Quoted
    <3>2. Turned(g, t, k, k + 2, L!In(what))
      BY <2>1, <2>4, <3>1, TurnTaken
    <3>3. k + 2 \in k + 1 .. n + 1
      BY <1>1, <2>3, <2>7
    <3>4. QED BY <2>2, <2>6, <2>7, <3>2, <3>3
  <2>8. CASE t[k] = quote /\ ~ Pair(t, k, quote, quote)
    <3>1. L!Quoted(t, k, what, quote) = L!Turn(L!Normal, 1)
      BY <2>3, <2>8 DEF L!Quoted
    <3>2. Turned(g, t, k, k + 1, L!Normal)
      BY <2>1, <2>4, <3>1, TurnTaken
    <3>3. LeadsTo(g, n, k, k + 1) /\ g[(k + 1) - 1].state = L!Normal
      BY <2>5, <3>2, TurnLeads
    <3>4. QED BY <2>2, <2>8, <3>3
  <2>9. CASE t[k] # quote
    <3>1. L!Quoted(t, k, what, quote) = L!Turn(L!In(what), 1)
      BY <2>3, <2>9 DEF L!Quoted
    <3>2. Turned(g, t, k, k + 1, L!In(what))
      BY <2>1, <2>4, <3>1, TurnTaken
    <3>3. k + 1 \in k + 1 .. n + 1 /\ f[k] = f[k + 1]
      BY <1>1, <2>2, <2>3, <2>9
    <3>4. QED BY <2>6, <3>2, <3>3
  <2>10. QED BY <2>7, <2>8, <2>9
<1> HIDE DEF T
<1>6. 1 .. n + 2 \subseteq T
  <2> HIDE DEF n
  <2>1. QED BY <1>1, <1>3, <1>4, <1>5, Descent
<1>7. i \in T /\ i <= n + 1
  BY <1>1, <1>6
<1>8. QED BY <1>7 DEF T

(* A turn that starts in a comment sees nothing.                           *)
LEMMA TurnSilent ==
  ASSUME NEW t, NEW g, NEW i, NEW e, NEW s, Turned(g, t, i, e, s),
         g[i - 1].state.in \in {"line", "block"} \/ s.in \in {"line", "block"}
  PROVE  g[e - 1].code = g[i - 1].code
BY DEF Turned, L!Seen

(* What a turn within a comment does.                                      *)
LEMMA CommentTurns ==
  ASSUME NEW t \in Seq(STRING), NEW k \in 1 .. Len(t), NEW d \in Nat, d # 0
  PROVE  L!Lexed(t, k, Block(d)) = IF Pair(t, k, "/", "*") THEN L!Turn(Block(d + 1), 2)
                                   ELSE IF Pair(t, k, "*", "/") THEN L!Turn(Block(d - 1), 2)
                                   ELSE L!Turn(Block(d), 1)
<1>1. L!Lexed(t, k, Block(d)) = L!Commented(t, k, d)
  BY ModesAre DEF L!Lexed
<1>2. /\ Pair(t, k, "/", "*") <=> L!At(t, k) = "/" /\ L!At(t, k + 1) = "*"
      /\ Pair(t, k, "*", "/") <=> L!At(t, k) = "*" /\ L!At(t, k + 1) = "/"
  BY NextIs
<1>3. CASE Pair(t, k, "/", "*")
  <2>1. L!Commented(t, k, d) = L!Turn([L!In("block") EXCEPT !.depth = d + 1], 2)
    BY <1>2, <1>3 DEF L!Commented
  <2>2. QED BY <1>1, <1>3, <2>1 DEF Block
<1>4. CASE Pair(t, k, "*", "/")
  <2>1. L!Commented(t, k, d) = L!Turn(IF d = 1 THEN L!Normal ELSE [L!In("block") EXCEPT !.depth = d - 1], 2)
    BY <1>2, <1>4 DEF L!Commented
  <2>2. (d = 1) = (d - 1 = 0)
    OBVIOUS
  <2>3. ~ Pair(t, k, "/", "*")
    BY <1>2, <1>4
  <2>4. QED BY <1>1, <1>4, <2>1, <2>2, <2>3 DEF Block
<1>5. CASE ~ Pair(t, k, "/", "*") /\ ~ Pair(t, k, "*", "/")
  <2>1. L!Commented(t, k, d) = L!Turn([L!In("block") EXCEPT !.depth = d], 1)
    BY <1>2, <1>5 DEF L!Commented
  <2>2. QED BY <1>1, <1>5, <2>1 DEF Block
<1>6. QED BY <1>3, <1>4, <1>5

(* Within a comment of some depth the loop comes to its end, one depth     *)
(* less.                                                                   *)
CommentRead(g, n, f, k) ==
  \A d \in Nat : d # 0 /\ g[k - 1].next = k /\ g[k - 1].state = Block(d) =>
    /\ LeadsTo(g, n, k, f[k]) /\ g[f[k] - 1].code = g[k - 1].code
    /\ f[k] <= n => g[f[k] - 1].state = Block(d - 1)

(* ... because it does so for those within it.                             *)
LEMMA CommentScan ==
  ASSUME NEW t \in Seq(STRING), NEW g, Loops(g, t), NEW f, CommentEnds(t, f), NEW i \in 1 .. Len(t) + 1
  PROVE  CommentRead(g, Len(t), f, i)
<1> DEFINE n == Len(t)
           T == {k \in 1 .. n + 2 : k <= n + 1 => CommentRead(g, n, f, k)}
<1>1. n \in Nat /\ f[n + 1] = n + 1 /\ f[n + 2] = n + 1 /\ \A k \in 1 .. n : f[k] \in k + 1 .. n + 1
  BY DEF CommentEnds, EndsOf
<1>2. n + 2 \in T
  BY <1>1
<1>3. n + 1 \in T
  <2>1. CommentRead(g, n, f, n + 1)
    BY <1>1, LeadsHere DEF CommentRead
  <2>2. QED BY <1>1, <2>1
<1>4. ASSUME NEW k \in 1 .. n, (k + 1 .. n + 2) \subseteq T PROVE k \in T
  <2>1. SUFFICES ASSUME NEW d \in Nat, d # 0, g[k - 1].next = k, g[k - 1].state = Block(d)
                 PROVE  /\ LeadsTo(g, n, k, f[k]) /\ g[f[k] - 1].code = g[k - 1].code
                        /\ f[k] <= n => g[f[k] - 1].state = Block(d - 1)
    BY <1>1 DEF CommentRead
  <2>2. f[k] = IF Pair(t, k, "/", "*") THEN f[f[k + 2]] ELSE IF Pair(t, k, "*", "/") THEN k + 2 ELSE f[k + 1]
    BY DEF CommentEnds
  <2>3. Pair(t, k, "/", "*") \/ Pair(t, k, "*", "/") => k + 2 \in 1 .. n + 1
    BY NextIs
  <2>4. ~ (g[k - 1].state = L!Normal /\ t[k] = "s") /\ Block(d).in = "block"
    BY <2>1, ModesAre
  <2>5. L!Lexed(t, k, Block(d)) = IF Pair(t, k, "/", "*") THEN L!Turn(Block(d + 1), 2)
                                  ELSE IF Pair(t, k, "*", "/") THEN L!Turn(Block(d - 1), 2)
                                  ELSE L!Turn(Block(d), 1)
    BY <2>1, CommentTurns
  <2>6. ASSUME NEW s, NEW by, L!Lexed(t, k, Block(d)) = L!Turn(s, by)
        PROVE  /\ LeadsTo(g, n, k, k + by) /\ g[(k + by) - 1].state = s /\ g[(k + by) - 1].next = k + by
               /\ g[(k + by) - 1].code = g[k - 1].code /\ k + by \in k + 1 .. n + 1
    <3>1. PICK e : e = k + by
      OBVIOUS
    <3>2. Turned(g, t, k, e, s)
      BY <2>1, <2>6, <3>1, TurnTaken
    <3>3. LeadsTo(g, n, k, e) /\ g[e - 1].state = s
      BY <2>4, <3>2, TurnLeads
    <3>4. g[e - 1].code = g[k - 1].code
      BY <2>1, <2>4, <3>2, TurnSilent
    <3>5. g[e - 1].next = e /\ e \in k + 1 .. n + 1
      BY <3>2 DEF Turned
    <3>6. QED BY <3>1, <3>3, <3>4, <3>5
  <2>7. ASSUME NEW e \in k + 1 .. n + 1 PROVE CommentRead(g, n, f, e)
    <3>1. e \in T /\ e <= n + 1
      BY <1>1, <1>4
    <3>2. QED BY <3>1
  <2>8. CASE Pair(t, k, "/", "*")
    <3>1. PICK e, c : e = k + 2 /\ c = f[e]
      OBVIOUS
    <3>2. /\ LeadsTo(g, n, k, e) /\ g[e - 1].state = Block(d + 1) /\ g[e - 1].next = e
          /\ g[e - 1].code = g[k - 1].code /\ e \in k + 1 .. n + 1
      BY <2>5, <2>6, <2>8, <3>1
    <3>3. d + 1 \in Nat /\ d + 1 # 0 /\ (d + 1) - 1 = d
      OBVIOUS
    <3>4. LeadsTo(g, n, e, c) /\ g[c - 1].code = g[e - 1].code /\ (c <= n => g[c - 1].state = Block(d))
      BY <2>7, <3>1, <3>2, <3>3 DEF CommentRead
    <3>5. LeadsTo(g, n, k, c) /\ g[c - 1].code = g[k - 1].code /\ g[c - 1].next = c /\ c \in e .. n + 1
      <4>1. LeadsTo(g, n, k, c)
        BY <1>1, <3>2, <3>4, LeadsOn
      <4>2. QED BY <3>2, <3>4, <4>1 DEF LeadsTo
    <3>6. f[k] = f[c] /\ c \in k + 1 .. n + 1
      BY <1>1, <2>2, <2>8, <3>1, <3>2, <3>5
    <3>7. CASE c <= n
      <4>1. /\ LeadsTo(g, n, c, f[c]) /\ g[f[c] - 1].code = g[c - 1].code
            /\ f[c] <= n => g[f[c] - 1].state = Block(d - 1)
        BY <2>1, <2>7, <3>4, <3>5, <3>6, <3>7 DEF CommentRead
      <4>2. LeadsTo(g, n, k, f[c])
        BY <1>1, <3>5, <4>1, LeadsOn
      <4>3. QED BY <3>5, <3>6, <4>1, <4>2
    <3>8. CASE c = n + 1
      <4>1. f[k] = c
        BY <1>1, <3>6, <3>8
      <4>2. ~ (f[k] <= n)
        BY <1>1, <3>8, <4>1
      <4>3. QED BY <3>5, <4>1, <4>2
    <3>9. c <= n \/ c = n + 1
      <4> HIDE DEF n
      <4>1. QED BY <1>1, <2>7, <3>6
    <3>10. QED BY <3>7, <3>8, <3>9
  <2>9. CASE Pair(t, k, "*", "/")
    <3>1. ~ Pair(t, k, "/", "*")
      BY <2>9 DEF Pair
    <3>2. L!Lexed(t, k, Block(d)) = L!Turn(Block(d - 1), 2)
      BY <2>5, <2>9, <3>1
    <3>3. f[k] = k + 2
      BY <2>2, <2>9, <3>1
    <3>4. QED BY <2>6, <3>2, <3>3
  <2>10. CASE ~ Pair(t, k, "/", "*") /\ ~ Pair(t, k, "*", "/")
    <3>1. PICK e : e = k + 1
      OBVIOUS
    <3>2. L!Lexed(t, k, Block(d)) = L!Turn(Block(d), 1)
      BY <2>5, <2>10
    <3>3. /\ LeadsTo(g, n, k, e) /\ g[e - 1].state = Block(d) /\ g[e - 1].next = e
          /\ g[e - 1].code = g[k - 1].code /\ e \in k + 1 .. n + 1
      BY <2>6, <3>1, <3>2
    <3>4. f[k] = f[e]
      BY <2>2, <2>10, <3>1
    <3>5. /\ LeadsTo(g, n, e, f[e]) /\ g[f[e] - 1].code = g[e - 1].code
          /\ f[e] <= n => g[f[e] - 1].state = Block(d - 1)
      BY <2>1, <2>7, <3>3 DEF CommentRead
    <3>6. LeadsTo(g, n, k, f[e])
      BY <1>1, <3>3, <3>5, LeadsOn
    <3>7. QED BY <3>3, <3>4, <3>5, <3>6
  <2>11. QED BY <2>8, <2>9, <2>10
<1> HIDE DEF T
<1>5. 1 .. n + 2 \subseteq T
  <2> HIDE DEF n
  <2>1. QED BY <1>1, <1>2, <1>3, <1>4, Descent
<1>6. i \in T /\ i <= n + 1
  BY <1>1, <1>5
<1>7. QED BY <1>6 DEF T

(***************************************************************************)
(* Through lines, dollar quotes and words.                                 *)
(***************************************************************************)
(* The end of a line is here or further on.                                *)
LEMMA LineEndIs ==
  ASSUME NEW t \in Seq(STRING), NEW i \in 1 .. Len(t)
  PROVE  /\ L!LineEnd(t, i) \in i .. Len(t) /\ \A j \in i .. L!LineEnd(t, i) - 1 : t[j] # "n"
         /\ L!LineEnd(t, i) = Len(t) \/ t[L!LineEnd(t, i)] = "n"
<1>1. PICK n, S, m : n = Len(t) /\ S = {j \in i .. Len(t) : t[j] = "n"} \cup {Len(t)} /\ m = L!Min(S)
  OBVIOUS
<1>2. n \in Nat /\ i \in 1 .. n
  BY <1>1
<1>3. S \in SUBSET Nat /\ S # {}
  BY <1>1, <1>2
<1>4. m \in S /\ \A k \in S : m <= k
  BY <1>1, <1>3, CutMin
<1>5. m \in i .. n /\ (m = n \/ t[m] = "n")
  BY <1>1, <1>2, <1>4
<1>6. ASSUME NEW j \in i .. m - 1 PROVE t[j] # "n"
  <2>1. j \in i .. n /\ ~ (m <= j)
    BY <1>2, <1>5
  <2>2. QED BY <1>1, <1>4, <2>1
<1>7. L!LineEnd(t, i) = m
  BY <1>1 DEF L!LineEnd
<1>8. QED BY <1>1, <1>5, <1>6, <1>7

(* The first character that is not in S is here or further on.             *)
LEMMA FirstAfterIs ==
  ASSUME NEW t \in Seq(STRING), NEW i \in 1 .. Len(t) + 1, NEW S
  PROVE  /\ FirstAfter(t, i, S) \in i .. Len(t) + 1 /\ \A j \in i .. FirstAfter(t, i, S) - 1 : t[j] \in S
         /\ FirstAfter(t, i, S) <= Len(t) => t[FirstAfter(t, i, S)] \notin S
<1>1. PICK n, U, m : n = Len(t) /\ U = {j \in i .. Len(t) : t[j] \notin S} \cup {Len(t) + 1} /\ m = Min(U)
  OBVIOUS
<1>2. n \in Nat /\ i \in 1 .. n + 1
  BY <1>1
<1>3. U \in SUBSET Nat /\ U # {}
  BY <1>1, <1>2
<1>4. m \in U /\ \A k \in U : m <= k
  BY <1>1, <1>3, CutMin
<1>5. m \in i .. n + 1 /\ (m = n + 1 \/ t[m] \notin S)
  BY <1>1, <1>2, <1>4
<1>6. ASSUME NEW j \in i .. m - 1 PROVE t[j] \in S
  <2>1. j \in i .. n /\ ~ (m <= j)
    BY <1>2, <1>5
  <2>2. QED BY <1>1, <1>4, <2>1
<1>7. FirstAfter(t, i, S) = m
  BY <1>1 DEF FirstAfter
<1>8. m <= n => t[m] \notin S
  BY <1>2, <1>5
<1>9. QED BY <1>1, <1>5, <1>6, <1>7, <1>8

(* Every turn before e is one of one character, in state s, and none       *)
(* pushes; every character is seen.                                        *)
Steady(t, s, i, e)  == \A j \in i .. e - 1 : L!Lexed(t, j, s) = L!Turn(s, 1) /\ ~ (s = L!Normal /\ t[j] = "s")
SeenAll(t, s, i, e) == \A j \in i .. e - 1 : L!Seen(t[j], s, s)

(* It comes to e in the same state, having seen all or, in a comment, none. *)
Stays(g, t, s, i, e) ==
  /\ LeadsTo(g, Len(t), i, e) /\ g[e - 1].state = s
  /\ s.in \in {"line", "block"} => g[e - 1].code = g[i - 1].code
  /\ SeenAll(t, s, i, e) => i .. e - 1 \subseteq g[e - 1].code

(* Turns of one character in one state, up to e.                           *)
LEMMA SameState ==
  ASSUME NEW t \in Seq(STRING), NEW g, Loops(g, t), NEW s, NEW i \in 1 .. Len(t) + 1, NEW e \in i .. Len(t) + 1,
         g[i - 1].next = i, g[i - 1].state = s,
         Steady(t, s, i, e)
  PROVE  Stays(g, t, s, i, e)
<1> DEFINE n == Len(t)
           P(d) == /\ LeadsTo(g, n, i, d) /\ g[d - 1].state = s
                   /\ s.in \in {"line", "block"} => g[d - 1].code = g[i - 1].code
                   /\ SeenAll(t, s, i, e) => i .. d - 1 \subseteq g[d - 1].code
           T    == {k \in 0 .. e - i : P(i + k)}
<1>1. n \in Nat /\ i \in Nat /\ e \in Nat /\ e - i \in Nat /\ i <= e /\ e <= n + 1
  OBVIOUS
<1>2. 0 \in T
  <2>1. P(i)
    BY <1>1, LeadsHere
  <2> HIDE DEF P
  <2>2. i + 0 = i /\ 0 \in 0 .. e - i
    BY <1>1
  <2>3. QED BY <2>1, <2>2
<1>3. ASSUME NEW k \in 0 .. e - i - 1, k \in T PROVE k + 1 \in T
  <2>1. PICK c, d : c = i + k /\ d = c + 1
    OBVIOUS
  <2>2. c \in i .. e - 1 /\ c \in 1 .. n /\ k + 1 \in 0 .. e - i /\ d = i + (k + 1) /\ (c - 1) + 1 = c
    BY <1>1, <2>1
  <2>3. P(c)
    BY <1>3, <2>1
  <2>4. g[c - 1].next = c
    BY <2>3 DEF LeadsTo
  <2>12. L!Lexed(t, c, g[c - 1].state) = L!Turn(s, 1) /\ ~ (g[c - 1].state = L!Normal /\ t[c] = "s")
    BY <2>2, <2>3 DEF Steady
  <2>5. Turned(g, t, c, d, s)
    BY <2>1, <2>2, <2>4, <2>12, TurnTaken
  <2>6. LeadsTo(g, n, c, d) /\ g[d - 1].state = s
    BY <2>2, <2>5, <2>12, TurnLeads
  <2>7. LeadsTo(g, n, i, d)
    BY <1>1, <2>3, <2>6, LeadsOn
  <2>8. s.in \in {"line", "block"} => g[d - 1].code = g[i - 1].code
    BY <2>3, <2>5, TurnSilent
  <2>9. ASSUME SeenAll(t, s, i, e) PROVE i .. d - 1 \subseteq g[d - 1].code
    <3>1. L!Seen(t[c], g[c - 1].state, s)
      BY <2>2, <2>3, <2>9 DEF SeenAll
    <3>2. g[d - 1].code = g[c - 1].code \cup {c}
      BY <2>5, <3>1 DEF Turned
    <3>3. i .. c - 1 \subseteq g[c - 1].code
      BY <2>3, <2>9
    <3>4. i .. d - 1 = (i .. c - 1) \cup {c}
      BY <1>1, <2>1, <2>2
    <3>5. QED BY <3>2, <3>3, <3>4
  <2>10. P(d)
    BY <2>6, <2>7, <2>8, <2>9
  <2> HIDE DEF P
  <2>11. QED BY <2>2, <2>10
<1> HIDE DEF T
<1>4. 0 .. e - i \subseteq T
  <2> HIDE DEF n
  <2>1. QED BY <1>1, <1>2, <1>3, Ascent
<1>5. e - i \in T /\ i + (e - i) = e
  BY <1>1, <1>4
<1>6. P(e)
  BY <1>5 DEF T
<1>7. QED BY <1>6 DEF Stays

(* The line that goes on at i ends before e.                               *)
LineTo(t, i, e) ==
  /\ e \in i .. Len(t) + 1 /\ \A j \in i .. e - 2 : t[j] # "n"
  /\ e = i \/ e = Len(t) + 1 \/ t[e - 1] = "n"
  /\ e = i => e = Len(t) + 1

(* A comment of a line ends with the line.                                 *)
LEMMA LineScan ==
  ASSUME NEW t \in Seq(STRING), NEW g, Loops(g, t), NEW i \in 1 .. Len(t) + 1, g[i - 1].next = i, g[i - 1].state = L!In("line"),
         NEW e, LineTo(t, i, e)
  PROVE  LeadsTo(g, Len(t), i, e) /\ g[e - 1].code = g[i - 1].code /\ (e <= Len(t) => g[e - 1].state = L!Normal)
<1>1. PICK n, s : n = Len(t) /\ s = L!In("line")
  OBVIOUS
<1>2. n \in Nat /\ i \in 1 .. n + 1 /\ e \in i .. n + 1 /\ s.in = "line" /\ s # L!Normal
  BY <1>1, ModesAre DEF LineTo
<1>3. \A j \in 1 .. n : L!At(t, j) = t[j] /\ L!Lexed(t, j, s) = L!Turn(IF t[j] = "n" THEN L!Normal ELSE s, 1)
  BY <1>1, <1>2, NextIs DEF L!Lexed, L!At
<1>4. CASE e = i
  <2>1. ~ (e <= n)
    BY <1>1, <1>2, <1>4 DEF LineTo
  <2>2. LeadsTo(g, n, i, e)
    BY <1>1, <1>2, <1>4, LeadsHere
  <2>3. QED BY <1>1, <1>4, <2>1, <2>2
<1>5. CASE e # i
  <2>1. PICK c : c = e - 1
    OBVIOUS
  <2>2. c \in i .. n /\ c \in i .. n + 1 /\ c - 1 = e - 2 /\ c + 1 = e /\ c \in 1 .. n
    BY <1>2, <1>5, <2>1
  <2>3. ASSUME NEW j \in i .. c - 1 PROVE L!Lexed(t, j, s) = L!Turn(s, 1)
    <3>1. j \in 1 .. n /\ j \in i .. e - 2
      BY <1>2, <2>2
    <3>2. t[j] # "n"
      BY <3>1 DEF LineTo
    <3>3. QED BY <1>3, <3>1, <3>2
  <2>4. LeadsTo(g, n, i, c) /\ g[c - 1].state = s /\ g[c - 1].code = g[i - 1].code
    <3>1. Steady(t, s, i, c)
      BY <1>2, <2>3 DEF Steady
    <3>2. QED BY <1>1, <1>2, <2>2, <3>1, SameState DEF Stays
  <2>5. g[c - 1].next = c
    BY <2>4 DEF LeadsTo
  <2>6. PICK s2 : s2 = IF t[c] = "n" THEN L!Normal ELSE s
    OBVIOUS
  <2>7. L!Lexed(t, c, g[c - 1].state) = L!Turn(s2, 1)
    BY <1>3, <2>2, <2>4, <2>6
  <2>8. Turned(g, t, c, e, s2)
    BY <1>1, <2>2, <2>5, <2>7, TurnTaken
  <2>9. LeadsTo(g, n, c, e) /\ g[e - 1].state = s2
    BY <1>1, <1>2, <2>2, <2>4, <2>8, TurnLeads
  <2>10. g[e - 1].code = g[c - 1].code
    BY <1>2, <2>4, <2>8, TurnSilent
  <2>11. LeadsTo(g, n, i, e)
    BY <1>2, <2>4, <2>9, LeadsOn
  <2>12. e <= n => s2 = L!Normal
    BY <1>1, <1>2, <1>5, <2>1, <2>6 DEF LineTo
  <2>13. QED BY <1>1, <2>4, <2>9, <2>10, <2>11, <2>12
<1>6. QED BY <1>4, <1>5

(* Within a dollar quote the loop comes to the first tag like its own.     *)
LEMMA DollarScan ==
  ASSUME NEW t \in Seq(STRING), NEW g, Loops(g, t), NEW s \in Modes, s.in = "dollar",
         NEW i \in 1 .. Len(t) + 1, g[i - 1].next = i, g[i - 1].state = s
  PROVE  /\ LeadsTo(g, Len(t), i, DollarEnd(t, i, s.tag))
         /\ DollarEnd(t, i, s.tag) <= Len(t) => g[DollarEnd(t, i, s.tag) - 1].state = L!Normal
<1> DEFINE Hit(j) == SubSeq(t, j, j + Len(s.tag) - 1) = s.tag
<1>1. PICK n, m, S : n = Len(t) /\ m = Len(s.tag) /\ S = {j \in i .. n - m + 1 : Hit(j)}
  OBVIOUS
<1>2. s.tag \in Seq(STRING) /\ s.tag # <<>> /\ s # L!Normal
  BY ModesAre DEF Modes
<1>3. n \in Nat /\ m \in Nat /\ m # 0 /\ i \in 1 .. n + 1
  BY <1>1, <1>2
<1>4. ASSUME NEW j \in i .. n PROVE L!Lexed(t, j, s) = IF j \in S THEN L!Turn(L!Normal, m) ELSE L!Turn(s, 1)
  <2>1. L!Lexed(t, j, s) = L!Dollar(t, j, s)
    BY DEF L!Lexed
  <2>2. (j + m - 1 <= n /\ Hit(j)) <=> j \in S
    BY <1>1, <1>3
  <2>3. QED BY <1>1, <2>1, <2>2 DEF L!Dollar
<1>5. DollarEnd(t, i, s.tag) = IF S = {} THEN n + 1 ELSE Min(S) + m
  BY <1>1 DEF DollarEnd
<1> HIDE DEF Hit
<1>6. S \in SUBSET Nat
  <2>1. S \subseteq i .. n - m + 1
    BY <1>1
  <2>2. \A j \in i .. n - m + 1 : j \in Nat
    BY <1>3
  <2>3. QED BY <2>1, <2>2
<1>7. CASE S = {}
  <2>1. PICK e : e = n + 1
    OBVIOUS
  <2>2. e \in i .. n + 1 /\ ~ (e <= n) /\ \A j \in i .. e - 1 : j \in i .. n
    BY <1>3, <2>1
  <2>3. \A j \in i .. e - 1 : L!Lexed(t, j, s) = L!Turn(s, 1)
    BY <1>4, <1>7, <2>2
  <2>4. LeadsTo(g, n, i, e)
    <3>1. Steady(t, s, i, e)
      BY <1>2, <2>3 DEF Steady
    <3>2. QED BY <1>1, <2>2, <3>1, SameState DEF Stays
  <2>5. QED BY <1>1, <1>5, <1>7, <2>1, <2>2, <2>4
<1>8. CASE S # {}
  <2>1. PICK k, e : k = Min(S) /\ e = k + m
    OBVIOUS
  <2>2. k \in S /\ \A j \in S : k <= j
    BY <1>6, <1>8, <2>1, CutMin
  <2>3. k \in i .. n - m + 1
    BY <1>1, <2>2
  <2>4. k \in i .. n /\ k \in i .. n + 1 /\ k \in 1 .. n /\ \A j \in i .. k - 1 : j \in i .. n /\ ~ (k <= j)
    BY <1>3, <2>3
  <2>5. \A j \in i .. k - 1 : L!Lexed(t, j, s) = L!Turn(s, 1) /\ ~ (s = L!Normal /\ t[j] = "s")
    BY <1>2, <1>4, <2>2, <2>4
  <2>6. LeadsTo(g, n, i, k) /\ g[k - 1].state = s
    <3>1. Steady(t, s, i, k)
      BY <2>5 DEF Steady
    <3>2. QED BY <1>1, <2>4, <3>1, SameState DEF Stays
  <2>7. g[k - 1].next = k
    BY <2>6 DEF LeadsTo
  <2>8. L!Lexed(t, k, g[k - 1].state) = L!Turn(L!Normal, m)
    BY <1>4, <2>2, <2>4, <2>6
  <2>9. Turned(g, t, k, e, L!Normal)
    BY <1>1, <2>1, <2>4, <2>7, <2>8, TurnTaken
  <2>10. LeadsTo(g, n, k, e) /\ g[e - 1].state = L!Normal
    BY <1>1, <1>2, <2>4, <2>6, <2>9, TurnLeads
  <2>11. LeadsTo(g, n, i, e)
    BY <1>3, <2>6, <2>10, LeadsOn
  <2>12. QED BY <1>1, <1>5, <1>8, <2>1, <2>10, <2>11
<1>9. QED BY <1>7, <1>8

(* Outside of everything, a character that starts nothing is passed.       *)
LEMMA PlainTurn ==
  ASSUME NEW t \in Seq(STRING), NEW i \in 1 .. Len(t), t[i] \notin {"q", "Q", "$"}, ~ Pair(t, i, "-", "-"), ~ Pair(t, i, "/", "*")
  PROVE  L!Lexed(t, i, L!Normal) = L!Turn(L!Normal, 1)
<1>1. L!At(t, i) = t[i] /\ (Pair(t, i, "-", "-") <=> t[i] = "-" /\ L!At(t, i + 1) = "-")
  BY NextIs
<1>2. Pair(t, i, "/", "*") <=> t[i] = "/" /\ L!At(t, i + 1) = "*"
  BY NextIs
<1>3. L!Lexed(t, i, L!Normal) = L!Outside(t, i)
  BY ModesAre DEF L!Lexed
<1>4. QED BY <1>1, <1>2, <1>3 DEF L!Outside

(* A row of such characters that are not blank is seen.                    *)
LEMMA PlainScan ==
  ASSUME NEW t \in Seq(STRING), NEW g, Loops(g, t), NEW i \in 1 .. Len(t) + 1, NEW e \in i .. Len(t) + 1,
         g[i - 1].next = i, g[i - 1].state = L!Normal,
         \A j \in i .. e - 1 : t[j] \in {"a", "u", "E", "C", "1"}
  PROVE  /\ LeadsTo(g, Len(t), i, e) /\ g[e - 1].state = L!Normal /\ i .. e - 1 \subseteq g[e - 1].code
<1>1. PICK n, s : n = Len(t) /\ s = L!Normal
  OBVIOUS
<1>2. n \in Nat /\ s.in = "normal"
  BY <1>1, ModesAre
<1>3. ASSUME NEW j \in i .. e - 1
      PROVE  (L!Lexed(t, j, s) = L!Turn(s, 1) /\ ~ (s = L!Normal /\ t[j] = "s")) /\ L!Seen(t[j], s, s)
  <2>1. j \in 1 .. n /\ t[j] \in {"a", "u", "E", "C", "1"}
    BY <1>1, <1>2
  <2>2. ~ Pair(t, j, "-", "-") /\ ~ Pair(t, j, "/", "*")
    BY <2>1 DEF Pair
  <2>3. L!Lexed(t, j, s) = L!Turn(s, 1)
    BY <1>1, <2>1, <2>2, PlainTurn
  <2>4. L!Seen(t[j], s, s)
    BY <1>2, <2>1 DEF L!Seen, L!IsBlank
  <2>5. QED BY <2>1, <2>3, <2>4
<1>4. Steady(t, s, i, e) /\ SeenAll(t, s, i, e)
  BY <1>3 DEF Steady, SeenAll
<1>5. g[i - 1].state = s /\ e \in i .. Len(t) + 1
  BY <1>1
<1>6. Stays(g, t, s, i, e)
  BY <1>4, <1>5, SameState
<1>7. QED BY <1>1, <1>4, <1>6 DEF Stays

(***************************************************************************)
(* Token by token.                                                         *)
(***************************************************************************)
(* Behind the token that starts at i the loop is outside of everything     *)
(* again: it pushed a semicolon that ends a statement, saw where a word    *)
(* begins, all of one that begins like COPY, and nothing of what           *)
(* PostgreSQL skips.                                                       *)
Fits(g, t, i, token) ==
  /\ token.kind \in {"word", "space", "end"} /\ token.to \in i + 1 .. Len(t) + 1 /\ token.odd \in BOOLEAN
  /\ g[token.to - 1].next = token.to /\ (token.to <= Len(t) => g[token.to - 1].state = L!Normal)
  /\ g[token.to - 1].semicolons = (IF token.kind = "end" THEN Append(g[i - 1].semicolons, i) ELSE g[i - 1].semicolons)
  /\ g[i - 1].code \subseteq g[token.to - 1].code
  /\ g[token.to - 1].code \subseteq g[i - 1].code \cup (IF token.kind = "space" THEN {} ELSE i .. token.to - 1)
  /\ token.kind # "space" => i \in g[token.to - 1].code
  /\ token.kind = "end" => token.to = i + 1 /\ t[i] = "s"
  /\ token.kind = "word" => t[i] # "s" /\ (t[i] = "C" => i .. token.to - 1 \subseteq g[token.to - 1].code)

(* A word fits when the loop comes to its end and saw its first character. *)
LEMMA WordFits ==
  ASSUME NEW t \in Seq(STRING), NEW g, NEW i \in 1 .. Len(t), NEW e \in i + 1 .. Len(t) + 1, NEW odd \in BOOLEAN,
         LeadsTo(g, Len(t), i, e), e <= Len(t) => g[e - 1].state = L!Normal, i \in g[e - 1].code,
         t[i] # "s", t[i] = "C" => i .. e - 1 \subseteq g[e - 1].code
  PROVE  Fits(g, t, i, Token("word", e, odd))
<1>1. PICK w : w = Token("word", e, odd)
  OBVIOUS
<1>2. w.kind = "word" /\ w.to = e /\ w.odd = odd
  BY <1>1 DEF Token
<1>3. QED BY <1>1, <1>2 DEF Fits, LeadsTo

(* What is skipped fits when the loop comes to its end without seeing any. *)
LEMMA SpaceFits ==
  ASSUME NEW t \in Seq(STRING), NEW g, NEW i \in 1 .. Len(t), NEW e \in i + 1 .. Len(t) + 1,
         LeadsTo(g, Len(t), i, e), e <= Len(t) => g[e - 1].state = L!Normal, g[e - 1].code = g[i - 1].code
  PROVE  Fits(g, t, i, Token("space", e, FALSE))
<1>1. PICK w : w = Token("space", e, FALSE)
  OBVIOUS
<1>2. w.kind = "space" /\ w.to = e /\ w.odd = FALSE
  BY <1>1 DEF Token
<1>3. QED BY <1>1, <1>2 DEF Fits, LeadsTo

(* A turn that sees its character begins a way on which it is seen.        *)
LEMMA WordBegins ==
  ASSUME NEW t \in Seq(STRING), NEW g, NEW i \in 1 .. Len(t), NEW d, NEW s, Turned(g, t, i, d, s),
         g[i - 1].state = L!Normal, t[i] # "s", ~ L!IsBlank(t[i]), s.in \notin {"line", "block"},
         NEW e, LeadsTo(g, Len(t), d, e)
  PROVE  LeadsTo(g, Len(t), i, e) /\ i \in g[e - 1].code /\ e \in i + 1 .. Len(t) + 1
<1>1. PICK n : n = Len(t)
  OBVIOUS
<1>2. n \in Nat /\ d \in i + 1 .. n + 1 /\ e \in d .. n + 1
  BY <1>1 DEF Turned, LeadsTo
<1>3. LeadsTo(g, n, i, d)
  BY <1>1, TurnLeads
<1>4. LeadsTo(g, n, i, e)
  BY <1>1, <1>2, <1>3, LeadsOn
<1>5. L!Seen(t[i], g[i - 1].state, s)
  BY ModesAre DEF L!Seen
<1>6. i \in g[d - 1].code
  BY <1>5 DEF Turned
<1>7. i \in g[e - 1].code
  BY <1>6 DEF LeadsTo
<1>8. QED BY <1>1, <1>2, <1>4, <1>7

(* What TokenAt takes a place for.                                         *)
WordTokens(t, i) ==
  /\ Pair(t, i, "E", "q") =>
       TokenAt(t, i) = Token("word", StringEnd(t, i + 2, "q"), \E j \in i .. StringEnd(t, i + 2, "q") - 1 : t[j] = "B")
  /\ t[i] \in WordStart /\ ~ Pair(t, i, "E", "q") =>
       TokenAt(t, i) = Token("word", FirstAfter(t, i, WordChar), \E j \in i .. FirstAfter(t, i, WordChar) - 1 : t[j] = "$")
  /\ t[i] = "q" => TokenAt(t, i) = Token("word", StringEnd(t, i + 1, "q"), FALSE)
  /\ t[i] = "Q" => TokenAt(t, i) = Token("word", StringEnd(t, i + 1, "Q"), FALSE)
Foreign(t, i, tag) == L!At(t, tag) = "$" /\ \E j \in i .. tag : t[j] = "u"
SignTokens(t, i) ==
  /\ Pair(t, i, "-", "-") => TokenAt(t, i) = Token("space", BehindLine(t, i), LoneReturn(t, Break(t, i)))
  /\ Pair(t, i, "/", "*") => TokenAt(t, i) = Token("space", CommentEnd(t, i + 2), FALSE)
  /\ Pair(t, i, "$", "1") =>
       TokenAt(t, i) = Token("word", FirstAfter(t, i + 1, {"1"}), L!At(t, FirstAfter(t, i + 1, TagChar)) = "$")
  /\ t[i] = "$" /\ ~ Pair(t, i, "$", "1") =>
       TokenAt(t, i) =
         Token("word",
               IF L!At(t, FirstAfter(t, i + 1, TagChar)) = "$"
                 THEN DollarEnd(t, FirstAfter(t, i + 1, TagChar) + 1, SubSeq(t, i, FirstAfter(t, i + 1, TagChar)))
                 ELSE i + 1,
               Foreign(t, i, FirstAfter(t, i + 1, TagChar)))
PlainAt(t, i) == t[i] \notin WordStart \cup {"q", "Q", "$"} /\ ~ Pair(t, i, "-", "-") /\ ~ Pair(t, i, "/", "*")
PlainTokens(t, i) ==
  /\ t[i] = "s" => TokenAt(t, i) = Token("end", i + 1, FALSE)
  /\ L!IsBlank(t[i]) => TokenAt(t, i) = Token("space", i + 1, FALSE)
  /\ PlainAt(t, i) /\ t[i] # "s" /\ ~ L!IsBlank(t[i]) => TokenAt(t, i) = Token("word", i + 1, FALSE)

(* Words, strings, comments and dollars.                                   *)
LEMMA TokenIs ==
  ASSUME NEW t, NEW i
  PROVE  WordTokens(t, i) /\ SignTokens(t, i) /\ PlainTokens(t, i)
<1>1. \A a, b : Pair(t, i, a, b) => t[i] = a
  BY DEF Pair
<1>2. PICK string, word, tag, tagged :
        /\ string = StringEnd(t, IF Pair(t, i, "E", "q") THEN i + 2 ELSE i + 1, IF t[i] = "Q" THEN "Q" ELSE "q")
        /\ word = FirstAfter(t, i, WordChar) /\ tag = FirstAfter(t, i + 1, TagChar) /\ tagged = (L!At(t, tag) = "$")
  OBVIOUS
<1>3. PICK escaped, dollars, digits, dollarEnd, line, comment, lone, foreign :
        /\ escaped = (\E j \in i .. string - 1 : t[j] = "B") /\ dollars = (\E j \in i .. word - 1 : t[j] = "$")
        /\ digits = FirstAfter(t, i + 1, {"1"}) /\ dollarEnd = DollarEnd(t, tag + 1, SubSeq(t, i, tag))
        /\ line = BehindLine(t, i) /\ comment = CommentEnd(t, i + 2)
        /\ lone = LoneReturn(t, Break(t, i)) /\ foreign = (tagged /\ \E j \in i .. tag : t[j] = "u")
  OBVIOUS
<1>4. PICK eq, dashes, slash, param :
        eq = Pair(t, i, "E", "q") /\ dashes = Pair(t, i, "-", "-") /\ slash = Pair(t, i, "/", "*") /\ param = Pair(t, i, "$", "1")
  OBVIOUS
<1>5. TokenAt(t, i) =
        CASE eq -> Token("word", string, escaped)
          [] t[i] \in WordStart /\ ~ eq -> Token("word", word, dollars)
          [] t[i] \in {"q", "Q"}  -> Token("word", string, FALSE)
          [] dashes -> Token("space", line, lone)
          [] slash -> Token("space", comment, FALSE)
          [] param -> Token("word", digits, tagged)
          [] t[i] = "$" /\ ~ param -> Token("word", IF tagged THEN dollarEnd ELSE i + 1, foreign)
          [] t[i] = "s"           -> Token("end", i + 1, FALSE)
          [] L!IsBlank(t[i])      -> Token("space", i + 1, FALSE)
          [] OTHER                -> Token("word", i + 1, FALSE)
  BY <1>2, <1>3, <1>4, Zenon DEF TokenAt
<1>6. (eq => t[i] = "E") /\ (dashes => t[i] = "-") /\ (slash => t[i] = "/") /\ (param => t[i] = "$")
  BY <1>1, <1>4
<1>7. WordTokens(t, i)
  <2>1. eq => string = StringEnd(t, i + 2, "q")
    BY <1>2, <1>4, <1>6
  <2>2. t[i] = "q" => string = StringEnd(t, i + 1, "q")
    BY <1>2, <1>4, <1>6
  <2>3. t[i] = "Q" => string = StringEnd(t, i + 1, "Q")
    BY <1>2, <1>4, <1>6
  <2>4. eq => TokenAt(t, i) = Token("word", string, escaped)
    BY <1>5, <1>6 DEF WordStart, L!IsBlank
  <2>5. t[i] \in WordStart /\ ~ eq => TokenAt(t, i) = Token("word", word, dollars)
    BY <1>5, <1>6 DEF WordStart, L!IsBlank
  <2>6. t[i] \in {"q", "Q"} => TokenAt(t, i) = Token("word", string, FALSE)
    BY <1>5, <1>6 DEF WordStart, L!IsBlank
  <2>7. QED BY <1>2, <1>3, <1>4, <2>1, <2>2, <2>3, <2>4, <2>5, <2>6 DEF WordTokens
<1>8. SignTokens(t, i)
  <2>1. dashes => TokenAt(t, i) = Token("space", line, lone)
    BY <1>5, <1>6 DEF WordStart, L!IsBlank
  <2>2. slash => TokenAt(t, i) = Token("space", comment, FALSE)
    BY <1>5, <1>6 DEF WordStart, L!IsBlank
  <2>3. param => TokenAt(t, i) = Token("word", digits, tagged)
    BY <1>5, <1>6 DEF WordStart, L!IsBlank
  <2>4. t[i] = "$" /\ ~ param => TokenAt(t, i) = Token("word", IF tagged THEN dollarEnd ELSE i + 1, foreign)
    BY <1>5, <1>6 DEF WordStart, L!IsBlank
  <2>5. foreign = Foreign(t, i, tag)
    BY <1>2, <1>3 DEF Foreign
  <2>6. QED BY <1>2, <1>3, <1>4, <2>1, <2>2, <2>3, <2>4, <2>5 DEF SignTokens
<1>9. PlainTokens(t, i)
  BY <1>4, <1>5, <1>6 DEF PlainTokens, PlainAt, WordStart, L!IsBlank
<1>10. QED BY <1>7, <1>8, <1>9

(* The loop is outside of everything at i, where a token is that is not odd. *)
StandsAt(t, g, i) ==
  /\ t \in Seq(STRING) /\ Loops(g, t) /\ i \in 1 .. Len(t) /\ g[i - 1].next = i /\ g[i - 1].state = L!Normal
  /\ ~ TokenAt(t, i).odd

(* What is done at such a place.                                           *)
LEMMA OutsideIs ==
  ASSUME NEW t, NEW g, NEW i, StandsAt(t, g, i)
  PROVE  /\ t[i] = "q" => Turned(g, t, i, i + 1, L!In("single"))
         /\ t[i] = "Q" => Turned(g, t, i, i + 1, L!In("double"))
         /\ Pair(t, i, "-", "-") => Turned(g, t, i, i + 2, L!In("line"))
         /\ Pair(t, i, "/", "*") => Turned(g, t, i, i + 2, Block(1))
         /\ t[i] \notin {"q", "Q", "$"} /\ ~ Pair(t, i, "-", "-") /\ ~ Pair(t, i, "/", "*") => Turned(g, t, i, i + 1, L!Normal)
         /\ t[i] = "$" /\ L!DollarTagAt(t, i) = 0 => Turned(g, t, i, i + 1, L!Normal)
         /\ \A e : t[i] = "$" /\ e # 0 /\ L!DollarTagAt(t, i) = e =>
              Turned(g, t, i, i + (e - i + 1), [L!In("dollar") EXCEPT !.tag = SubSeq(t, i, e)])
<1>1. /\ t \in Seq(STRING) /\ Loops(g, t) /\ i \in 1 .. Len(t) /\ g[i - 1].next = i /\ g[i - 1].state = L!Normal
  BY DEF StandsAt
<1>2. L!At(t, i) = t[i] /\ (Pair(t, i, "-", "-") <=> t[i] = "-" /\ L!At(t, i + 1) = "-")
  BY <1>1, NextIs
<1>3. Pair(t, i, "/", "*") <=> t[i] = "/" /\ L!At(t, i + 1) = "*"
  BY <1>1, NextIs
<1>4. L!Lexed(t, i, g[i - 1].state) = L!Outside(t, i)
  BY <1>1, ModesAre DEF L!Lexed
<1>5. ASSUME NEW s, NEW by, L!Outside(t, i) = L!Turn(s, by) PROVE Turned(g, t, i, i + by, s)
  BY <1>1, <1>4, <1>5, TurnTaken
<1>6. ASSUME t[i] = "q" PROVE Turned(g, t, i, i + 1, L!In("single"))
  <2>1. L!Outside(t, i) = L!Turn(L!In("single"), 1)
    BY <1>2, <1>6 DEF L!Outside
  <2>2. QED BY <1>5, <2>1
<1>7. ASSUME t[i] = "Q" PROVE Turned(g, t, i, i + 1, L!In("double"))
  <2>1. L!Outside(t, i) = L!Turn(L!In("double"), 1)
    BY <1>2, <1>7 DEF L!Outside
  <2>2. QED BY <1>5, <2>1
<1>8. ASSUME Pair(t, i, "-", "-") PROVE Turned(g, t, i, i + 2, L!In("line"))
  <2>1. L!Outside(t, i) = L!Turn(L!In("line"), 2)
    BY <1>2, <1>8 DEF L!Outside
  <2>2. QED BY <1>5, <2>1
<1>9. ASSUME Pair(t, i, "/", "*") PROVE Turned(g, t, i, i + 2, Block(1))
  <2>1. L!Outside(t, i) = L!Turn([L!In("block") EXCEPT !.depth = 1], 2)
    BY <1>2, <1>3, <1>9 DEF L!Outside
  <2>2. Block(1) = [L!In("block") EXCEPT !.depth = 1]
    BY DEF Block
  <2>3. QED BY <1>5, <2>1, <2>2
<1>10. ASSUME t[i] \notin {"q", "Q", "$"}, ~ Pair(t, i, "-", "-"), ~ Pair(t, i, "/", "*") PROVE Turned(g, t, i, i + 1, L!Normal)
  <2>1. L!Outside(t, i) = L!Turn(L!Normal, 1)
    BY <1>2, <1>3, <1>10 DEF L!Outside
  <2>2. QED BY <1>5, <2>1
<1>11. ASSUME t[i] = "$", L!DollarTagAt(t, i) = 0 PROVE Turned(g, t, i, i + 1, L!Normal)
  <2>1. L!Outside(t, i) = L!Turn(L!Normal, 1)
    BY <1>2, <1>11 DEF L!Outside
  <2>2. QED BY <1>5, <2>1
<1>12. ASSUME NEW e, t[i] = "$", e # 0, L!DollarTagAt(t, i) = e
       PROVE  Turned(g, t, i, i + (e - i + 1), [L!In("dollar") EXCEPT !.tag = SubSeq(t, i, e)])
  <2>1. L!Outside(t, i) = L!Turn([L!In("dollar") EXCEPT !.tag = SubSeq(t, i, e)], e - i + 1)
    BY <1>2, <1>12 DEF L!Outside
  <2>2. QED BY <1>5, <2>1
<1>13. QED BY <1>6, <1>7, <1>8, <1>9, <1>10, <1>11, <1>12

(* A quoted text ends where PostgreSQL ends it.                            *)
LEMMA QuoteStep ==
  ASSUME NEW t, NEW g, NEW i, StandsAt(t, g, i), t[i] \in {"q", "Q"}
  PROVE  Fits(g, t, i, TokenAt(t, i))
<1>1. PICK what, quote : <<what, quote>> \in {<<"single", "q">>, <<"double", "Q">>} /\ t[i] = quote
  OBVIOUS
<1>2. t \in Seq(STRING) /\ Loops(g, t) /\ i \in 1 .. Len(t) /\ g[i - 1].state = L!Normal
  BY DEF StandsAt
<1>3. PICK n, s, d : n = Len(t) /\ s = L!In(what) /\ d = i + 1
  OBVIOUS
<1>4. n \in Nat /\ d \in 1 .. n + 1
  BY <1>2, <1>3
<1>5. Turned(g, t, i, d, s)
  BY <1>1, <1>3, OutsideIs
<1>6. PICK f : StringEnds(t, f, quote)
  BY <1>2, StringsEnd
<1>7. PICK e : e = f[d]
  OBVIOUS
<1>8. g[d - 1].next = d /\ g[d - 1].state = s
  BY <1>5 DEF Turned
<1>9. LeadsTo(g, n, d, e) /\ (e <= n => g[e - 1].state = L!Normal)
  BY <1>1, <1>2, <1>3, <1>4, <1>6, <1>7, <1>8, StringScan
<1>10. s.in \notin {"line", "block"} /\ ~ L!IsBlank(t[i]) /\ t[i] \notin {"s", "C"}
  BY <1>1, <1>3, ModesAre DEF L!IsBlank
<1>11. LeadsTo(g, n, i, e) /\ i \in g[e - 1].code /\ e \in i + 1 .. n + 1
  BY <1>2, <1>3, <1>5, <1>9, <1>10, WordBegins
<1>12. Fits(g, t, i, Token("word", e, FALSE))
  BY <1>2, <1>3, <1>9, <1>10, <1>11, WordFits
<1>13. e = StringEnd(t, d, quote)
  <2>1. d \in 1 .. Len(t) + 2
    BY <1>3, <1>4
  <2>2. QED BY <1>6, <1>7, <2>1 DEF StringEnds
<1>14. TokenAt(t, i) = Token("word", e, FALSE)
  BY <1>1, <1>3, <1>13, TokenIs DEF WordTokens
<1>15. QED BY <1>12, <1>14

(* The line of a comment ends for PostgreSQL where the loop ends it, but   *)
(* at a lone carriage return.                                              *)
LEMMA LineBreaks ==
  ASSUME NEW t \in Seq(STRING), NEW i \in 1 .. Len(t)
  PROVE  /\ BehindLine(t, i) \in Nat
         /\ ~ LoneReturn(t, Break(t, i)) => BehindLine(t, i) = L!LineEnd(t, i) + 1
<1>1. PICK n, S, m, l : n = Len(t) /\ S = {j \in i .. Len(t) : t[j] \in {"n", "r"}} \cup {Len(t)} /\ m = Min(S) /\ l = L!LineEnd(t, i)
  OBVIOUS
<1>2. n \in Nat /\ i \in 1 .. n
  BY <1>1
<1>3. S \in SUBSET Nat /\ S # {}
  BY <1>1, <1>2
<1>4. m \in S /\ \A j \in S : m <= j
  BY <1>1, <1>3, CutMin
<1>5. m \in i .. n /\ (m = n \/ t[m] \in {"n", "r"})
  BY <1>1, <1>2, <1>4
<1>6. \A j \in i .. m - 1 : t[j] \notin {"n", "r"}
  <2>1. ASSUME NEW j \in i .. m - 1, t[j] \in {"n", "r"} PROVE FALSE
    <3>1. j \in S /\ j < m /\ j \in Nat /\ m \in Nat
      BY <1>1, <1>2, <1>5, <2>1
    <3>2. QED BY <1>4, <3>1
  <2>2. QED BY <2>1
<1>7. l \in i .. n /\ (\A j \in i .. l - 1 : t[j] # "n") /\ (l = n \/ t[l] = "n")
  BY <1>1, LineEndIs
<1>8. Break(t, i) = m
  BY <1>1 DEF Break
<1>9. BehindLine(t, i) = IF Pair(t, m, "r", "n") THEN m + 2 ELSE m + 1
  BY <1>8 DEF BehindLine
<1>10. m <= l
  <2>1. ASSUME l < m PROVE FALSE
    <3>1. l \in i .. m - 1 /\ l # n
      BY <1>2, <1>5, <1>7, <2>1
    <3>2. QED BY <1>6, <1>7, <3>1
  <2>2. QED BY <1>2, <1>5, <1>7, <2>1
<1>11. CASE Pair(t, m, "r", "n")
  <2>1. m < n /\ t[m] = "r" /\ t[m + 1] = "n"
    BY <1>1, <1>11 DEF Pair
  <2>2. l # m
    BY <1>7, <2>1
  <2>3. ~ (m + 1 < l)
    <3>1. ASSUME m + 1 < l PROVE m + 1 \in i .. l - 1
      BY <1>2, <1>5, <1>7, <3>1
    <3>2. QED BY <1>7, <2>1, <3>1
  <2>4. l = m + 1 /\ BehindLine(t, i) = m + 2
    BY <1>5, <1>7, <1>9, <1>10, <1>11, <2>2, <2>3
  <2>5. QED BY <1>1, <1>5, <2>4
<1>12. CASE ~ Pair(t, m, "r", "n")
  <2>1. BehindLine(t, i) = m + 1
    BY <1>9, <1>12
  <2>2. ~ LoneReturn(t, m) => t[m] # "r"
    BY <1>12 DEF LoneReturn
  <2>3. ASSUME t[m] # "r" PROVE l = m
    <3>1. CASE m = n
      BY <1>5, <1>7, <1>10, <3>1
    <3>2. CASE t[m] = "n"
      <4>1. ASSUME m < l PROVE m \in i .. l - 1
        BY <1>5, <1>7, <4>1
      <4>2. QED BY <1>5, <1>7, <1>10, <3>2, <4>1
    <3>3. QED BY <1>5, <2>3, <3>1, <3>2
  <2>4. QED BY <1>1, <1>5, <1>8, <2>1, <2>2, <2>3
<1>13. QED BY <1>11, <1>12

(* So does a comment.                                                      *)
LEMMA CommentStep ==
  ASSUME NEW t, NEW g, NEW i, StandsAt(t, g, i), Pair(t, i, "-", "-") \/ Pair(t, i, "/", "*")
  PROVE  Fits(g, t, i, TokenAt(t, i))
<1>1. t \in Seq(STRING) /\ Loops(g, t) /\ i \in 1 .. Len(t) /\ g[i - 1].state = L!Normal
  BY DEF StandsAt
<1>2. PICK n, d : n = Len(t) /\ d = i + 2
  OBVIOUS
<1>3. n \in Nat /\ d \in 1 .. n + 1 /\ i < n /\ i \in 1 .. n
  BY <1>1, <1>2 DEF Pair
<1>4. ASSUME NEW s, Turned(g, t, i, d, s), s.in \in {"line", "block"},
             NEW e, LeadsTo(g, n, d, e), g[e - 1].code = g[d - 1].code, e <= n => g[e - 1].state = L!Normal,
             t[i] # "s"
      PROVE  Fits(g, t, i, Token("space", e, FALSE))
  <2>1. g[d - 1].code = g[i - 1].code
    BY <1>4, TurnSilent
  <2>2. LeadsTo(g, n, i, d)
    BY <1>1, <1>2, <1>4, TurnLeads
  <2>3. LeadsTo(g, n, i, e)
    BY <1>3, <1>4, <2>2, LeadsOn
  <2>4. e \in i + 1 .. n + 1
    BY <1>2, <1>3, <1>4 DEF LeadsTo
  <2>5. QED BY <1>1, <1>2, <1>4, <2>1, <2>3, <2>4, SpaceFits
<1>5. CASE Pair(t, i, "-", "-")
  <2>1. PICK l, e, s : l = L!LineEnd(t, i) /\ e = l + 1 /\ s = L!In("line")
    OBVIOUS
  <2>2. t[i] = "-" /\ t[i + 1] = "-"
    BY <1>5 DEF Pair
  <2>3. l \in i .. n /\ (\A j \in i .. l - 1 : t[j] # "n") /\ (l = n \/ t[l] = "n")
    BY <1>1, <1>2, <2>1, LineEndIs
  <2>4. l # i /\ (l = i + 1 => l = n)
    BY <1>3, <2>2, <2>3
  <2>5. e \in d .. n + 1 /\ e - 1 = l /\ e - 2 = l - 1 /\ (e = d => e = n + 1)
    BY <1>2, <1>3, <2>1, <2>3, <2>4
  <2>6. \A j \in d .. e - 2 : t[j] # "n"
    BY <1>2, <1>3, <2>3, <2>5
  <2>7. e = n + 1 \/ t[e - 1] = "n"
    BY <2>1, <2>3, <2>5
  <2>8. Turned(g, t, i, d, s)
    BY <1>2, <1>5, <2>1, OutsideIs
  <2>9. g[d - 1].next = d /\ g[d - 1].state = s
    BY <2>8 DEF Turned
  <2>10. LeadsTo(g, n, d, e) /\ g[e - 1].code = g[d - 1].code /\ (e <= n => g[e - 1].state = L!Normal)
    <3>1. LineTo(t, d, e)
      BY <1>2, <2>5, <2>6, <2>7 DEF LineTo
    <3>2. QED BY <1>1, <1>2, <1>3, <2>1, <2>9, <3>1, LineScan
  <2>11. s.in = "line" /\ t[i] # "s"
    BY <2>1, <2>2, ModesAre
  <2>12. Fits(g, t, i, Token("space", e, FALSE))
    BY <1>4, <2>8, <2>10, <2>11
  <2>13. TokenAt(t, i) = Token("space", e, FALSE)
    <3>1. PICK to, lone : to = BehindLine(t, i) /\ lone = LoneReturn(t, Break(t, i))
      OBVIOUS
    <3>2. TokenAt(t, i) = Token("space", to, lone)
      BY <1>5, <3>1, TokenIs DEF SignTokens
    <3>3. ~ lone
      BY <3>2 DEF StandsAt, Token
    <3>4. lone \in BOOLEAN
      BY <3>1 DEF LoneReturn
    <3>5. to = e
      BY <1>1, <2>1, <3>1, <3>3, LineBreaks
    <3>6. QED BY <3>2, <3>3, <3>4, <3>5
  <2>14. QED BY <2>12, <2>13
<1>6. CASE Pair(t, i, "/", "*")
  <2>1. PICK f : CommentEnds(t, f)
    BY <1>1, CommentsEnd
  <2>2. PICK e, s : e = f[d] /\ s = Block(1)
    OBVIOUS
  <2>3. Turned(g, t, i, d, s)
    BY <1>2, <1>6, <2>2, OutsideIs
  <2>4. g[d - 1].next = d /\ g[d - 1].state = s
    BY <2>3 DEF Turned
  <2>5. CommentRead(g, n, f, d)
    BY <1>1, <1>2, <1>3, <2>1, CommentScan
  <2>6. 1 \in Nat /\ 1 # 0 /\ 1 - 1 = 0
    OBVIOUS
  <2>7. LeadsTo(g, n, d, e) /\ g[e - 1].code = g[d - 1].code /\ (e <= n => g[e - 1].state = Block(0))
    BY <2>2, <2>4, <2>5, <2>6 DEF CommentRead
  <2>8. s.in = "block" /\ Block(0) = L!Normal /\ t[i] # "s"
    <3>1. t[i] = "/"
      BY <1>6 DEF Pair
    <3>2. Block(0) = L!Normal
      BY DEF Block
    <3>3. s.in = "block"
      BY <2>2, <2>6, ModesAre
    <3>4. QED BY <3>1, <3>2, <3>3
  <2>9. Fits(g, t, i, Token("space", e, FALSE))
    BY <1>4, <2>3, <2>7, <2>8
  <2>10. e = CommentEnd(t, d)
    <3>1. d \in 1 .. Len(t) + 2
      BY <1>2, <1>3
    <3>2. QED BY <2>1, <2>2, <3>1 DEF CommentEnds
  <2>11. TokenAt(t, i) = Token("space", e, FALSE)
    BY <1>2, <1>6, <2>10, TokenIs DEF SignTokens
  <2>12. QED BY <2>9, <2>11
<1>7. QED BY <1>5, <1>6

(* The E before a string is passed, and then the string.                   *)
LEMMA EscapedStep ==
  ASSUME NEW t, NEW g, NEW i, StandsAt(t, g, i), Pair(t, i, "E", "q")
  PROVE  Fits(g, t, i, TokenAt(t, i))
<1>1. t \in Seq(STRING) /\ Loops(g, t) /\ i \in 1 .. Len(t) /\ g[i - 1].state = L!Normal
  BY DEF StandsAt
<1>2. PICK n, c, d, s : n = Len(t) /\ c = i + 1 /\ d = i + 2 /\ s = L!In("single")
  OBVIOUS
<1>3. t[i] = "E" /\ t[c] = "q" /\ i < n
  BY <1>2 DEF Pair
<1>4. n \in Nat /\ i \in 1 .. n /\ c \in 1 .. n /\ d \in 1 .. n + 1 /\ d = c + 1
  BY <1>1, <1>2, <1>3
<1>5. ~ Pair(t, i, "-", "-") /\ ~ Pair(t, i, "/", "*")
  BY <1>3 DEF Pair
<1>6. Turned(g, t, i, c, L!Normal)
  BY <1>2, <1>3, <1>5, OutsideIs
<1>7. g[c - 1].next = c /\ g[c - 1].state = L!Normal
  BY <1>6 DEF Turned
<1>8. L!Lexed(t, c, g[c - 1].state) = L!Turn(s, 1)
  <2>1. L!At(t, c) = "q"
    BY <1>1, <1>2, <1>3, <1>4 DEF L!At
  <2>2. L!Lexed(t, c, g[c - 1].state) = L!Outside(t, c)
    BY <1>7, ModesAre DEF L!Lexed
  <2>3. QED BY <1>2, <2>1, <2>2 DEF L!Outside
<1>9. Turned(g, t, c, d, s)
  BY <1>1, <1>2, <1>4, <1>7, <1>8, TurnTaken
<1>10. LeadsTo(g, n, c, d) /\ g[d - 1].state = s
  BY <1>1, <1>2, <1>3, <1>4, <1>9, TurnLeads
<1>11. g[d - 1].next = d
  BY <1>9 DEF Turned
<1>12. PICK f : StringEnds(t, f, "q")
  BY <1>1, StringsEnd
<1>13. PICK e : e = f[d]
  OBVIOUS
<1>14. LeadsTo(g, n, d, e) /\ (e <= n => g[e - 1].state = L!Normal)
  BY <1>1, <1>2, <1>4, <1>10, <1>11, <1>12, <1>13, StringScan
<1>15. LeadsTo(g, n, c, e)
  BY <1>4, <1>10, <1>14, LeadsOn
<1>16. L!Normal.in \notin {"line", "block"} /\ ~ L!IsBlank(t[i]) /\ t[i] \notin {"s", "C"}
  BY <1>3, ModesAre DEF L!IsBlank
<1>17. LeadsTo(g, n, i, e) /\ i \in g[e - 1].code /\ e \in i + 1 .. n + 1
  BY <1>1, <1>2, <1>6, <1>15, <1>16, WordBegins
<1>18. e = StringEnd(t, d, "q")
  <2>1. d \in 1 .. Len(t) + 2
    BY <1>2, <1>4
  <2>2. QED BY <1>12, <1>13, <2>1 DEF StringEnds
<1>19. PICK odd \in BOOLEAN : odd = (\E j \in i .. e - 1 : t[j] = "B")
  OBVIOUS
<1>20. TokenAt(t, i) = Token("word", e, odd)
  BY <1>2, <1>18, <1>19, TokenIs DEF WordTokens
<1>21. Fits(g, t, i, Token("word", e, odd))
  BY <1>1, <1>2, <1>14, <1>16, <1>17, WordFits
<1>22. QED BY <1>20, <1>21

(* A name without a dollar is passed and seen.                             *)
LEMMA NameStep ==
  ASSUME NEW t, NEW g, NEW i, StandsAt(t, g, i), t[i] \in WordStart, ~ Pair(t, i, "E", "q")
  PROVE  Fits(g, t, i, TokenAt(t, i))
<1>1. t \in Seq(STRING) /\ Loops(g, t) /\ i \in 1 .. Len(t) /\ g[i - 1].next = i /\ g[i - 1].state = L!Normal
  BY DEF StandsAt
<1>2. PICK n, e : n = Len(t) /\ e = FirstAfter(t, i, WordChar)
  OBVIOUS
<1>3. n \in Nat /\ i \in 1 .. n /\ i \in 1 .. n + 1
  BY <1>1, <1>2
<1>4. e \in i .. n + 1 /\ (\A j \in i .. e - 1 : t[j] \in WordChar) /\ (e <= n => t[e] \notin WordChar)
  BY <1>1, <1>2, <1>3, FirstAfterIs
<1>5. e # i
  BY <1>3, <1>4 DEF WordChar
<1>6. e \in i + 1 .. n + 1 /\ i \in i .. e - 1
  BY <1>3, <1>4, <1>5
<1>7. PICK odd \in BOOLEAN : odd = (\E j \in i .. e - 1 : t[j] = "$")
  OBVIOUS
<1>8. TokenAt(t, i) = Token("word", e, odd)
  BY <1>2, <1>7, TokenIs DEF WordTokens
<1>9. ~ odd
  BY <1>8 DEF StandsAt, Token
<1>10. \A j \in i .. e - 1 : t[j] \in {"a", "u", "E", "C", "1"}
  BY <1>4, <1>7, <1>9 DEF WordChar, WordStart
<1>11. LeadsTo(g, n, i, e) /\ g[e - 1].state = L!Normal /\ i .. e - 1 \subseteq g[e - 1].code
  BY <1>1, <1>2, <1>3, <1>4, <1>10, PlainScan
<1>12. i \in g[e - 1].code
  BY <1>6, <1>11
<1>13. t[i] # "s"
  BY DEF WordStart
<1>14. Fits(g, t, i, Token("word", e, odd))
  BY <1>1, <1>2, <1>6, <1>11, <1>12, <1>13, WordFits
<1>15. QED BY <1>8, <1>14

(* A character that begins nothing else is passed.                         *)
LEMMA PlainStep ==
  ASSUME NEW t, NEW g, NEW i, StandsAt(t, g, i), PlainAt(t, i)
  PROVE  Fits(g, t, i, TokenAt(t, i))
<1>1. t \in Seq(STRING) /\ Loops(g, t) /\ i \in 1 .. Len(t) /\ g[i - 1].state = L!Normal
  BY DEF StandsAt
<1>2. PICK n, e : n = Len(t) /\ e = i + 1
  OBVIOUS
<1>3. n \in Nat /\ i \in 1 .. n /\ e \in i + 1 .. n + 1 /\ e \in 1 .. n + 1
  BY <1>1, <1>2
<1>4. Turned(g, t, i, e, L!Normal)
  BY <1>2, OutsideIs DEF PlainAt
<1>5. g[e - 1].next = e /\ g[e - 1].state = L!Normal
  BY <1>4 DEF Turned
<1>6. LeadsTo(g, n, e, e)
  BY <1>3, <1>5, LeadsHere
<1>7. t[i] # "C"
  BY DEF PlainAt, WordStart
<1>8. L!Normal.in \notin {"line", "block"}
  BY ModesAre
<1>9. CASE t[i] = "s"
  <2>1. PICK w : w = Token("end", e, FALSE)
    OBVIOUS
  <2>2. TokenAt(t, i) = w
    BY <1>2, <1>9, <2>1, TokenIs DEF PlainTokens
  <2>3. w.kind = "end" /\ w.to = e /\ w.odd = FALSE
    BY <2>1 DEF Token
  <2>4. L!Seen(t[i], g[i - 1].state, L!Normal)
    BY <1>1, <1>8, <1>9 DEF L!Seen, L!IsBlank
  <2>5. g[e - 1].code = g[i - 1].code \cup {i} /\ g[e - 1].semicolons = Append(g[i - 1].semicolons, i)
    BY <1>1, <1>4, <1>9, <2>4 DEF Turned
  <2>6. i \in i .. e - 1
    BY <1>2, <1>3
  <2>9. g[i - 1].code \subseteq g[e - 1].code /\ g[e - 1].code \subseteq g[i - 1].code \cup (i .. e - 1) /\ i \in g[e - 1].code
    BY <2>5, <2>6
  <2>10. w.to \in i + 1 .. Len(t) + 1 /\ w.odd \in BOOLEAN /\ w.to = i + 1
    BY <1>2, <1>3, <2>3
  <2>7. Fits(g, t, i, w)
    BY <1>5, <1>9, <2>3, <2>5, <2>9, <2>10 DEF Fits
  <2>8. QED BY <2>2, <2>7
<1>10. CASE t[i] # "s" /\ L!IsBlank(t[i])
  <2>1. ~ L!Seen(t[i], g[i - 1].state, L!Normal)
    BY <1>10 DEF L!Seen
  <2>2. g[e - 1].code = g[i - 1].code
    BY <1>4, <2>1 DEF Turned
  <2>3. LeadsTo(g, n, i, e)
    BY <1>1, <1>2, <1>4, <1>10, TurnLeads
  <2>4. Fits(g, t, i, Token("space", e, FALSE))
    BY <1>1, <1>2, <1>3, <1>5, <2>2, <2>3, SpaceFits
  <2>5. QED BY <1>2, <1>10, <2>4, TokenIs DEF PlainTokens
<1>11. CASE t[i] # "s" /\ ~ L!IsBlank(t[i])
  <2>1. LeadsTo(g, n, i, e) /\ i \in g[e - 1].code
    BY <1>1, <1>2, <1>4, <1>6, <1>8, <1>11, WordBegins
  <2>2. Fits(g, t, i, Token("word", e, FALSE))
    BY <1>1, <1>2, <1>3, <1>5, <1>7, <1>11, <2>1, WordFits
  <2>3. QED BY <1>2, <1>11, <2>2, TokenIs DEF PlainTokens
<1>12. QED BY <1>9, <1>10, <1>11

(* The tag PostgreSQL reads is the one DollarTagAt finds, unless it has a  *)
(* character beyond ASCII.                                                 *)
LEMMA TagIs ==
  ASSUME NEW t \in Seq(STRING), NEW i \in 1 .. Len(t), NEW tag, tag = FirstAfter(t, i + 1, TagChar)
  PROVE  /\ tag \in i + 1 .. Len(t) + 1
         /\ L!At(t, tag) = "$" => tag # 0 /\ tag \in i + 1 .. Len(t)
         /\ L!At(t, tag) = "$" /\ ~ Foreign(t, i, tag) => L!DollarTagAt(t, i) = tag /\ TagEnd(t, i, tag)
         /\ L!At(t, tag) # "$" => L!DollarTagAt(t, i) = 0
<1>1. PICK n, d : n = Len(t) /\ d = L!DollarTagAt(t, i)
  OBVIOUS
<1>2. n \in Nat /\ i \in 1 .. n /\ i + 1 \in 1 .. n + 1 /\ DOMAIN t = 1 .. n
  BY <1>1
<1>3. tag \in i + 1 .. n + 1 /\ (\A j \in i + 1 .. tag - 1 : t[j] \in TagChar) /\ (tag <= n => t[tag] \notin TagChar)
  BY <1>1, <1>2, FirstAfterIs
<1>4. d \in Nat /\ (d # 0 => TagEnd(t, i, d)) /\ \A e \in i + 1 .. n : TagEnd(t, i, e) => d = e
  BY <1>1, TagFound
<1>5. ASSUME L!At(t, tag) = "$" PROVE tag # 0 /\ tag \in i + 1 .. n /\ t[tag] = "$"
  <2>1. tag \in 1 .. n /\ t[tag] = "$"
    BY <1>2, <1>3, <1>5 DEF L!At
  <2>2. QED BY <1>2, <1>3, <2>1
<1>6. ASSUME L!At(t, tag) = "$", ~ Foreign(t, i, tag) PROVE d = tag /\ TagEnd(t, i, tag)
  <2>1. tag \in i + 1 .. n /\ t[tag] = "$"
    BY <1>5, <1>6
  <2>2. \A j \in i .. tag : t[j] # "u"
    BY <1>6 DEF Foreign
  <2>3. \A j \in i + 1 .. tag - 1 : t[j] \in L!TagChar
    <3>1. \A j \in i + 1 .. tag - 1 : j \in i .. tag
      BY <1>2, <2>1
    <3>2. QED BY <1>3, <2>2, <3>1 DEF TagChar
  <2>4. TagEnd(t, i, tag)
    BY <1>1, <2>1, <2>3 DEF TagEnd
  <2>5. QED BY <1>4, <2>1, <2>4
<1>7. ASSUME L!At(t, tag) # "$", d # 0 PROVE FALSE
  <2>1. d \in i + 1 .. n /\ t[d] = "$" /\ \A k \in i + 1 .. d - 1 : t[k] \in L!TagChar
    BY <1>1, <1>4, <1>7 DEF TagEnd
  <2>2. "$" \notin TagChar /\ L!TagChar \subseteq TagChar
    BY DEF L!TagChar, TagChar
  <2>3. ~ (d < tag)
    <3>1. ASSUME d < tag PROVE d \in i + 1 .. tag - 1
      BY <1>2, <1>3, <2>1, <3>1
    <3>2. QED BY <1>3, <2>1, <2>2, <3>1
  <2>4. ~ (tag < d)
    <3>1. ASSUME tag < d PROVE tag \in i + 1 .. d - 1 /\ tag <= n
      BY <1>2, <1>3, <2>1, <3>1
    <3>2. QED BY <1>3, <2>1, <2>2, <3>1
  <2>5. tag = d
    BY <1>2, <1>3, <2>1, <2>3, <2>4
  <2>6. L!At(t, tag) = "$"
    BY <1>2, <2>1, <2>5 DEF L!At
  <2>7. QED BY <1>7, <2>6
<1>8. QED BY <1>1, <1>3, <1>5, <1>6, <1>7

(* A dollar begins a parameter, a dollar quote, or nothing.                *)
LEMMA DollarStep ==
  ASSUME NEW t, NEW g, NEW i, StandsAt(t, g, i), t[i] = "$"
  PROVE  Fits(g, t, i, TokenAt(t, i))
<1>1. t \in Seq(STRING) /\ Loops(g, t) /\ i \in 1 .. Len(t) /\ g[i - 1].state = L!Normal
  BY DEF StandsAt
<1>2. PICK n, c, tag : n = Len(t) /\ c = i + 1 /\ tag = FirstAfter(t, i + 1, TagChar)
  OBVIOUS
<1>3. n \in Nat /\ i \in 1 .. n /\ c \in i + 1 .. n + 1 /\ c \in 1 .. n + 1
  BY <1>1, <1>2
<1>4. /\ tag \in i + 1 .. n + 1
      /\ L!At(t, tag) = "$" => tag # 0 /\ tag \in i + 1 .. n
      /\ L!At(t, tag) = "$" /\ ~ Foreign(t, i, tag) => L!DollarTagAt(t, i) = tag /\ TagEnd(t, i, tag)
      /\ L!At(t, tag) # "$" => L!DollarTagAt(t, i) = 0
  BY <1>1, <1>2, TagIs
<1>5. L!Normal.in \notin {"line", "block"} /\ ~ L!IsBlank(t[i]) /\ t[i] \notin {"s", "C"}
  BY ModesAre DEF L!IsBlank
<1>6. CASE Pair(t, i, "$", "1")
  <2>12. PICK odd \in BOOLEAN : odd = (L!At(t, tag) = "$")
    OBVIOUS
  <2>1. PICK e : e = FirstAfter(t, c, {"1"}) /\ odd = (L!At(t, tag) = "$")
    BY <2>12
  <2>2. TokenAt(t, i) = Token("word", e, odd)
    <3>1. TokenAt(t, i) = Token("word", FirstAfter(t, i + 1, {"1"}), L!At(t, FirstAfter(t, i + 1, TagChar)) = "$")
      BY <1>6, TokenIs DEF SignTokens
    <3>2. QED BY <1>2, <2>1, <3>1
  <2>3. ~ odd
    BY <2>2 DEF StandsAt, Token
  <2>4. Turned(g, t, i, c, L!Normal)
    BY <1>2, <1>4, <2>1, <2>3, OutsideIs
  <2>5. g[c - 1].next = c /\ g[c - 1].state = L!Normal
    BY <2>4 DEF Turned
  <2>6. e \in c .. n + 1 /\ \A j \in c .. e - 1 : t[j] \in {"1"}
    BY <1>1, <1>2, <1>3, <2>1, FirstAfterIs
  <2>7. \A j \in c .. e - 1 : t[j] \in {"a", "u", "E", "C", "1"}
    BY <2>6
  <2>8. LeadsTo(g, n, c, e) /\ g[e - 1].state = L!Normal
    BY <1>1, <1>2, <1>3, <2>5, <2>6, <2>7, PlainScan
  <2>9. LeadsTo(g, n, i, e) /\ i \in g[e - 1].code /\ e \in i + 1 .. n + 1
    BY <1>1, <1>2, <1>5, <2>4, <2>8, WordBegins
  <2>10. Fits(g, t, i, Token("word", e, odd))
    BY <1>1, <1>2, <1>5, <2>8, <2>9, WordFits
  <2>11. QED BY <2>2, <2>10
<1>10. ASSUME NEW e, ~ Pair(t, i, "$", "1"),
              e = (IF L!At(t, tag) = "$" THEN DollarEnd(t, tag + 1, SubSeq(t, i, tag)) ELSE i + 1)
       PROVE  TokenAt(t, i) = Token("word", e, FALSE) /\ ~ Foreign(t, i, tag)
  <2>1. PICK odd : odd = Foreign(t, i, tag)
    OBVIOUS
  <2>2. TokenAt(t, i) = Token("word", e, odd)
    BY <1>2, <1>10, <2>1, TokenIs DEF SignTokens
  <2>3. ~ odd
    BY <2>2 DEF StandsAt, Token
  <2>4. odd \in BOOLEAN
    BY <2>1 DEF Foreign
  <2>5. QED BY <2>1, <2>2, <2>3, <2>4
<1>7. CASE ~ Pair(t, i, "$", "1") /\ L!At(t, tag) = "$"
  <2>1. PICK q, s, d, e : q = SubSeq(t, i, tag) /\ s = [L!In("dollar") EXCEPT !.tag = q] /\ d = tag + 1 /\ e = DollarEnd(t, d, q)
    OBVIOUS
  <2>2. TokenAt(t, i) = Token("word", e, FALSE) /\ ~ Foreign(t, i, tag)
    BY <1>7, <1>10, <2>1
  <2>3. tag # 0 /\ tag \in i + 1 .. n /\ L!DollarTagAt(t, i) = tag /\ TagEnd(t, i, tag)
    BY <1>4, <1>7, <2>2
  <2>4. d \in 1 .. n + 1 /\ i + (tag - i + 1) = d
    BY <1>3, <2>1, <2>3
  <2>5. Turned(g, t, i, d, s)
    <3>1. Turned(g, t, i, i + (tag - i + 1), s)
      BY <2>1, <2>3, OutsideIs
    <3>2. QED BY <2>4, <3>1
  <2>6. s \in Modes /\ s.in = "dollar" /\ s.tag = q
    <3>1. q \in Seq(STRING) /\ q # <<>> /\ \A k \in 1 .. Len(q) : q[k] \in L!TagChar \cup {"$"}
      BY <1>1, <2>1, <2>3, TagTyped
    <3>2. s = [in |-> "dollar", tag |-> q, depth |-> 0]
      BY <2>1 DEF L!In, L!Normal
    <3>3. QED BY <3>1, <3>2 DEF Modes
  <2>7. g[d - 1].next = d /\ g[d - 1].state = s
    BY <2>5 DEF Turned
  <2>8. LeadsTo(g, n, d, e) /\ (e <= n => g[e - 1].state = L!Normal)
    <3>1. d \in 1 .. Len(t) + 1
      BY <1>2, <2>4
    <3>2. /\ LeadsTo(g, Len(t), d, DollarEnd(t, d, s.tag))
          /\ DollarEnd(t, d, s.tag) <= Len(t) => g[DollarEnd(t, d, s.tag) - 1].state = L!Normal
      BY <1>1, <2>6, <2>7, <3>1, DollarScan
    <3>3. QED BY <1>2, <2>1, <2>6, <3>2
  <2>9. s.in \notin {"line", "block"}
    BY <2>6
  <2>10. LeadsTo(g, n, i, e) /\ i \in g[e - 1].code /\ e \in i + 1 .. n + 1
    BY <1>1, <1>2, <1>5, <2>5, <2>8, <2>9, WordBegins
  <2>11. Fits(g, t, i, Token("word", e, FALSE))
    BY <1>1, <1>2, <1>5, <2>8, <2>10, WordFits
  <2>12. QED BY <2>2, <2>11
<1>8. CASE ~ Pair(t, i, "$", "1") /\ L!At(t, tag) # "$"
  <2>1. TokenAt(t, i) = Token("word", c, FALSE)
    BY <1>2, <1>8, <1>10
  <2>2. Turned(g, t, i, c, L!Normal)
    BY <1>2, <1>4, <1>8, OutsideIs
  <2>3. g[c - 1].next = c /\ g[c - 1].state = L!Normal
    BY <2>2 DEF Turned
  <2>4. LeadsTo(g, n, c, c)
    BY <1>3, <2>3, LeadsHere
  <2>5. LeadsTo(g, n, i, c) /\ i \in g[c - 1].code
    BY <1>1, <1>2, <1>5, <2>2, <2>4, WordBegins
  <2>6. Fits(g, t, i, Token("word", c, FALSE))
    BY <1>1, <1>2, <1>3, <1>5, <2>3, <2>5, WordFits
  <2>7. QED BY <2>1, <2>6
<1>9. QED BY <1>6, <1>7, <1>8

(* Whatever begins at i, the loop comes to its end as PostgreSQL does.     *)
LEMMA TokenFits ==
  ASSUME NEW t, NEW g, NEW i, StandsAt(t, g, i)
  PROVE  Fits(g, t, i, TokenAt(t, i))
<1>1. CASE t[i] \in {"q", "Q"}
  BY <1>1, QuoteStep
<1>2. CASE Pair(t, i, "-", "-") \/ Pair(t, i, "/", "*")
  BY <1>2, CommentStep
<1>3. CASE Pair(t, i, "E", "q")
  BY <1>3, EscapedStep
<1>4. CASE t[i] \in WordStart /\ ~ Pair(t, i, "E", "q")
  BY <1>4, NameStep
<1>5. CASE t[i] = "$"
  BY <1>5, DollarStep
<1>6. CASE PlainAt(t, i)
  BY <1>6, PlainStep
<1>7. QED BY <1>1, <1>2, <1>3, <1>4, <1>5, <1>6 DEF PlainAt

(***************************************************************************)
(* PostgreSQL's tokens, one behind the other.                              *)
(***************************************************************************)
(* A token has an end, and is odd or not.                                  *)
LEMMA TokenTyped ==
  ASSUME NEW t \in Seq(STRING), NEW i \in 1 .. Len(t)
  PROVE  TokenAt(t, i).to \in Nat /\ TokenAt(t, i).odd \in BOOLEAN
<1>1. PICK n : n = Len(t)
  OBVIOUS
<1>2. n \in Nat /\ i \in 1 .. n /\ i + 1 \in 1 .. n + 1 /\ i \in 1 .. n + 1 /\ i + 1 \in Nat
  BY <1>1
<1>3. ASSUME NEW kind, NEW to \in Nat, NEW odd \in BOOLEAN, TokenAt(t, i) = Token(kind, to, odd)
      PROVE  TokenAt(t, i).to \in Nat /\ TokenAt(t, i).odd \in BOOLEAN
  BY <1>3 DEF Token
<1>4. ASSUME NEW quote, NEW k \in 1 .. n + 1 PROVE StringEnd(t, k, quote) \in Nat
  <2>1. PICK f : StringEnds(t, f, quote)
    BY StringsEnd
  <2>2. k \in 1 .. n + 2
    BY <1>2
  <2>3. QED BY <1>1, <2>1, <2>2 DEF StringEnds, EndsOf
<1>5. ASSUME NEW k \in 1 .. n + 1, NEW S PROVE FirstAfter(t, k, S) \in Nat
  <2>1. FirstAfter(t, k, S) \in k .. n + 1
    BY <1>1, FirstAfterIs
  <2>2. k \in Nat
    BY <1>2
  <2>3. QED BY <2>1, <2>2
<1>6. \A a, b : Pair(t, i, a, b) => i + 2 \in 1 .. n + 1
  BY <1>1, <1>2 DEF Pair
<1>7. CASE Pair(t, i, "E", "q")
  <2>1. PICK odd \in BOOLEAN : odd = (\E j \in i .. StringEnd(t, i + 2, "q") - 1 : t[j] = "B")
    OBVIOUS
  <2>2. TokenAt(t, i) = Token("word", StringEnd(t, i + 2, "q"), odd)
    BY <1>7, <2>1, TokenIs DEF WordTokens
  <2>3. QED BY <1>3, <1>4, <1>6, <1>7, <2>2
<1>8. CASE t[i] \in WordStart /\ ~ Pair(t, i, "E", "q")
  <2>1. PICK odd \in BOOLEAN : odd = (\E j \in i .. FirstAfter(t, i, WordChar) - 1 : t[j] = "$")
    OBVIOUS
  <2>2. TokenAt(t, i) = Token("word", FirstAfter(t, i, WordChar), odd)
    BY <1>8, <2>1, TokenIs DEF WordTokens
  <2>3. QED BY <1>2, <1>3, <1>5, <2>2
<1>9. CASE t[i] \in {"q", "Q"}
  BY <1>2, <1>3, <1>4, <1>9, TokenIs DEF WordTokens
<1>10. CASE Pair(t, i, "-", "-")
  <2>1. PICK to, lone : to = BehindLine(t, i) /\ lone = LoneReturn(t, Break(t, i))
    OBVIOUS
  <2>2. to \in Nat /\ lone \in BOOLEAN
    <3>1. to \in Nat
      BY <2>1, LineBreaks
    <3>2. QED BY <2>1, <3>1 DEF LoneReturn
  <2>3. TokenAt(t, i) = Token("space", to, lone)
    BY <1>10, <2>1, TokenIs DEF SignTokens
  <2>4. QED BY <1>3, <2>2, <2>3
<1>11. CASE Pair(t, i, "/", "*")
  <2>1. PICK f : CommentEnds(t, f)
    BY CommentsEnd
  <2>2. i + 2 \in 1 .. n + 2
    BY <1>2, <1>6, <1>11
  <2>3. CommentEnd(t, i + 2) \in Nat
    BY <1>1, <2>1, <2>2 DEF CommentEnds, EndsOf
  <2>4. QED BY <1>3, <1>11, <2>3, TokenIs DEF SignTokens
<1>12. CASE Pair(t, i, "$", "1")
  <2>1. PICK odd \in BOOLEAN : odd = (L!At(t, FirstAfter(t, i + 1, TagChar)) = "$")
    OBVIOUS
  <2>2. TokenAt(t, i) = Token("word", FirstAfter(t, i + 1, {"1"}), L!At(t, FirstAfter(t, i + 1, TagChar)) = "$")
    BY <1>12, TokenIs DEF SignTokens
  <2>3. TokenAt(t, i) = Token("word", FirstAfter(t, i + 1, {"1"}), odd)
    BY <2>1, <2>2
  <2>4. QED BY <1>2, <1>3, <1>5, <2>3
<1>13. CASE t[i] = "$" /\ ~ Pair(t, i, "$", "1")
  <2>1. PICK tag, odd : tag = FirstAfter(t, i + 1, TagChar) /\ odd = Foreign(t, i, tag)
    OBVIOUS
  <2>2. PICK q, m, S : q = SubSeq(t, i, tag) /\ m = Len(q) /\ S = {j \in tag + 1 .. n - m + 1 : SubSeq(t, j, j + m - 1) = q}
    OBVIOUS
  <2>3. PICK e : e = (IF L!At(t, tag) = "$" THEN DollarEnd(t, tag + 1, q) ELSE i + 1)
    OBVIOUS
  <2>4. TokenAt(t, i) = Token("word", e, odd)
    BY <1>13, <2>1, <2>2, <2>3, TokenIs DEF SignTokens
  <2>5. odd \in BOOLEAN
    BY <2>1 DEF Foreign
  <2>6. ASSUME L!At(t, tag) = "$" PROVE DollarEnd(t, tag + 1, q) \in Nat
    <3>1. tag \in i + 1 .. n
      BY <1>1, <2>1, <2>6, TagIs
    <3>2. q \in Seq(STRING)
      BY <1>1, <1>2, <2>2, <3>1
    <3>3. m \in Nat
      BY <2>2, <3>2
    <3>4. tag + 1 \in Nat
      BY <1>2, <3>1
    <3>5. \A j \in tag + 1 .. n - m + 1 : j \in Nat
      BY <3>4
    <3>6. S \in SUBSET Nat
      BY <2>2, <3>5
    <3>7. S # {} => Min(S) \in Nat
      BY <3>6, CutMin
    <3>8. DollarEnd(t, tag + 1, q) = IF S = {} THEN n + 1 ELSE Min(S) + m
      BY <1>1, <2>2 DEF DollarEnd
    <3>9. QED BY <1>2, <3>3, <3>7, <3>8
  <2>7. e \in Nat
    BY <1>2, <2>3, <2>6
  <2>8. QED BY <1>3, <2>4, <2>5, <2>7
<1>14. CASE PlainAt(t, i)
  BY <1>2, <1>3, <1>14, TokenIs DEF PlainTokens
<1>15. QED BY <1>7, <1>8, <1>9, <1>10, <1>11, <1>12, <1>13, <1>14 DEF PlainAt

ReadState == [next : Nat, semis : Seq(Nat), words : SUBSET (Nat \X Nat), escape : BOOLEAN, odd : BOOLEAN]

(* A token read keeps what is kept in order.                               *)
LEMMA ReadTyped ==
  ASSUME NEW t \in Seq(STRING), NEW i \in 1 .. Len(t), NEW r \in ReadState
  PROVE  ReadOn(r, t, i) \in ReadState
<1>1. CASE r.next # i
  BY <1>1 DEF ReadOn
<1>2. CASE r.next = i
  <2>1. PICK w, to, q : w = TokenAt(t, i) /\ to = w.to /\ q = ReadOn(r, t, i)
    OBVIOUS
  <2>2. r.semis \in Seq(Nat) /\ r.words \in SUBSET (Nat \X Nat)
    BY DEF ReadState
  <2>3. to \in Nat /\ w.odd \in BOOLEAN /\ i \in Nat
    BY <2>1, TokenTyped
  <2>4. PICK a, c, x, o :
          /\ a = (IF w.kind = "end" THEN Append(r.semis, i) ELSE r.semis)
          /\ c = (IF w.kind = "word" THEN r.words \cup {<<i, to>>} ELSE r.words)
          /\ x = Escapes(r, t, i)
          /\ o = (r.odd \/ w.odd \/ (r.escape /\ t[i] = "q" /\ \E j \in i .. w.to - 1 : t[j] = "B"))
    OBVIOUS
  <2>5. a \in Seq(Nat) /\ c \in SUBSET (Nat \X Nat) /\ o \in BOOLEAN
    BY <2>2, <2>3, <2>4
  <2>8. x \in BOOLEAN
    BY <2>4 DEF Escapes
  <2>6. q = [next |-> to, semis |-> a, words |-> c, escape |-> x, odd |-> o]
    BY <1>2, <2>1, <2>4 DEF ReadOn
  <2>7. QED BY <2>1, <2>3, <2>5, <2>6, <2>8 DEF ReadState
<1>3. QED BY <1>1, <1>2

(* The tokens that start up to a place.                                     *)
GrammarReading(g, t) ==
  /\ g \in [0 .. Len(t) -> ReadState] /\ g[0] = Unread
  /\ \A i \in 1 .. Len(t) : g[i] = ReadOn(g[i - 1], t, i)

(* Grammar is the end of such a reading.                                    *)
LEMMA GrammarReads ==
  ASSUME NEW t \in Seq(STRING)
  PROVE  \E g : GrammarReading(g, t) /\ Grammar(t) = g[Len(t)]
<1> DEFINE n    == Len(t)
           step == [i \in 1 .. n |-> [s \in ReadState |-> ReadOn(s, t, i)]]
           R(f) == f = [i \in 0 .. Len(t) |-> IF i = 0 THEN Unread ELSE ReadOn(f[i - 1], t, i)]
<1>0. n \in Nat /\ Unread \in ReadState
  BY DEF Unread, ReadState
<1>1. Recursion(n, ReadState, Unread, step)
  <2>1. ASSUME NEW i \in 1 .. n PROVE [s \in ReadState |-> ReadOn(s, t, i)] \in [ReadState -> ReadState]
    BY ReadTyped
  <2> HIDE DEF n
  <2>2. QED BY <1>0, <2>1 DEF Recursion
<1>2. PICK f : Solves(f, n, ReadState, Unread, step)
  BY <1>1, RecursionExists
<1>3. f \in [0 .. n -> ReadState] /\ f[0] = Unread /\ \A i \in 1 .. n : f[i] = ReadOn(f[i - 1], t, i)
  <2>1. f \in [0 .. n -> ReadState] /\ f[0] = Unread /\ \A i \in 1 .. n : f[i] = step[i][f[i - 1]]
    BY <1>2 DEF Solves
  <2>2. ASSUME NEW i \in 1 .. n PROVE f[i] = ReadOn(f[i - 1], t, i)
    <3>1. i - 1 \in 0 .. n
      BY <1>0
    <3>2. f[i - 1] \in ReadState
      BY <2>1, <3>1
    <3>3. QED BY <2>1, <3>2
  <2> HIDE DEF step
  <2>3. QED BY <2>1, <2>2
<1> HIDE DEF step
<1>4. R(f)
  <2>1. ASSUME NEW i \in 0 .. n
        PROVE  f[i] = IF i = 0 THEN Unread ELSE ReadOn(f[i - 1], t, i)
    <3>1. CASE i = 0
      BY <1>3, <3>1
    <3>2. CASE i # 0
      <4>1. i \in 1 .. n
        BY <1>0, <3>2
      <4>2. QED BY <1>3, <3>2, <4>1
    <3>3. QED BY <3>1, <3>2
  <2>2. f = [i \in 0 .. n |-> f[i]]
    BY <1>3
  <2>3. [i \in 0 .. n |-> f[i]] = [i \in 0 .. n |-> IF i = 0 THEN Unread ELSE ReadOn(f[i - 1], t, i)]
    BY <2>1
  <2>4. QED BY <2>2, <2>3
<1>5. ASSUME NEW g, R(g) PROVE GrammarReading(g, t)
  <2> DEFINE T == {i \in 0 .. n : g[i] \in ReadState}
  <2>1. g[0] = Unread /\ \A i \in 1 .. n : g[i] = ReadOn(g[i - 1], t, i)
    <3>1. 0 \in 0 .. n
      BY <1>0
    <3>2. g[0] = Unread
      BY <1>5, <3>1
    <3>3. ASSUME NEW i \in 1 .. n PROVE g[i] = ReadOn(g[i - 1], t, i)
      <4>1. i \in 0 .. n /\ i # 0
        BY <1>0
      <4>2. QED BY <1>5, <4>1
    <3>4. QED BY <3>2, <3>3
  <2>2. g = [i \in 0 .. n |-> g[i]]
    BY <1>5
  <2> HIDE DEF R
  <2>3. 0 \in T
    BY <1>0, <2>1
  <2>4. ASSUME NEW i \in 0 .. n - 1, i \in T PROVE i + 1 \in T
    <3>1. PICK k : k = i + 1
      OBVIOUS
    <3>2. k \in 1 .. n /\ k - 1 = i /\ k \in 0 .. n
      BY <1>0, <3>1
    <3>3. g[i] \in ReadState
      BY <2>4
    <3>4. g[k] = ReadOn(g[i], t, k)
      BY <2>1, <3>2
    <3>5. g[k] \in ReadState
      BY <3>2, <3>3, <3>4, ReadTyped
    <3>6. QED BY <3>1, <3>2, <3>5
  <2> HIDE DEF T
  <2>5. 0 .. n \subseteq T
    BY <1>0, <2>3, <2>4, Ascent
  <2>6. \A i \in 0 .. n : g[i] \in ReadState
    BY <2>5 DEF T
  <2>7. g \in [0 .. n -> ReadState]
    BY <2>2, <2>6
  <2>8. QED BY <2>1, <2>7 DEF GrammarReading
<1>6. PICK g : g = CHOOSE f1 : R(f1)
  OBVIOUS
<1>7. Grammar(t) = g[n]
  BY <1>6 DEF Grammar
<1> HIDE DEF R
<1>8. R(g)
  BY <1>4, <1>6
<1>9. QED BY <1>5, <1>7, <1>8

(***************************************************************************)
(* The loop and PostgreSQL side by side.                                   *)
(***************************************************************************)
InWord(w, c) == w[1] <= c /\ c < w[2]

(* What was seen lies in words or ends statements.                         *)
SeenIsToken(code, semis, words) ==
  \A c \in code : (\E w \in words : InWord(w, c)) \/ (\E k \in DOMAIN semis : semis[k] = c)
(* Words were seen where they begin, all of them if they begin like COPY.  *)
WordsSeen(t, code, words, next) ==
  \A w \in words : /\ w[1] \in code /\ w[1] < w[2] /\ w[2] <= next /\ t[w[1]] # "s"
                   /\ t[w[1]] = "C" => w[1] .. w[2] - 1 \subseteq code
(* Statements end outside of words, and where they end was seen.           *)
EndsSeen(t, code, semis, words, next) ==
  \A k \in DOMAIN semis : semis[k] \in code /\ semis[k] < next /\ t[semis[k]] = "s" /\ \A w \in words : ~ InWord(w, semis[k])
OneWordAt(words) == \A w, v \in words : w[1] = v[1] => w = v

Related(t, l, r) ==
  /\ l.semicolons = r.semis /\ SeenIsToken(l.code, r.semis, r.words) /\ WordsSeen(t, l.code, r.words, r.next)
  /\ EndsSeen(t, l.code, r.semis, r.words, r.next) /\ OneWordAt(r.words)

(* They stay side by side over a token.                                    *)
LEMMA RelatedOn ==
  ASSUME NEW t \in Seq(STRING), NEW g, NEW r \in ReadState, NEW i \in 1 .. Len(t), r.next = i, Related(t, g[i - 1], r),
         Fits(g, t, i, TokenAt(t, i))
  PROVE  Related(t, g[TokenAt(t, i).to - 1], ReadOn(r, t, i))
<1>1. PICK w, e, l, m, q : w = TokenAt(t, i) /\ e = w.to /\ l = g[i - 1] /\ m = g[e - 1] /\ q = ReadOn(r, t, i)
  OBVIOUS
<1>2. /\ q.next = e /\ q.semis = (IF w.kind = "end" THEN Append(r.semis, i) ELSE r.semis)
      /\ q.words = (IF w.kind = "word" THEN r.words \cup {<<i, e>>} ELSE r.words)
  BY <1>1 DEF ReadOn
<1>3. /\ w.kind \in {"word", "space", "end"} /\ e \in i + 1 .. Len(t) + 1
      /\ m.semicolons = (IF w.kind = "end" THEN Append(l.semicolons, i) ELSE l.semicolons)
      /\ l.code \subseteq m.code /\ m.code \subseteq l.code \cup (IF w.kind = "space" THEN {} ELSE i .. e - 1)
      /\ w.kind # "space" => i \in m.code
      /\ w.kind = "end" => e = i + 1 /\ t[i] = "s"
      /\ w.kind = "word" => t[i] # "s" /\ (t[i] = "C" => i .. e - 1 \subseteq m.code)
  BY <1>1 DEF Fits
<1>4. /\ l.semicolons = r.semis /\ SeenIsToken(l.code, r.semis, r.words) /\ WordsSeen(t, l.code, r.words, i)
      /\ EndsSeen(t, l.code, r.semis, r.words, i) /\ OneWordAt(r.words)
  BY <1>1 DEF Related
<1>5. r.semis \in Seq(Nat) /\ r.words \in SUBSET (Nat \X Nat) /\ i \in Nat /\ e \in Nat /\ i < e
  BY <1>3 DEF ReadState
<1>6. m.semicolons = q.semis
  BY <1>2, <1>3, <1>4
<1>7. WordsSeen(t, m.code, r.words, e)
  <2>1. ASSUME NEW v \in r.words
        PROVE  /\ v[1] \in m.code /\ v[1] < v[2] /\ v[2] <= e /\ t[v[1]] # "s"
               /\ t[v[1]] = "C" => v[1] .. v[2] - 1 \subseteq m.code
    <3>1. /\ v[1] \in l.code /\ v[1] < v[2] /\ v[2] <= i /\ t[v[1]] # "s"
          /\ t[v[1]] = "C" => v[1] .. v[2] - 1 \subseteq l.code
      BY <1>4 DEF WordsSeen
    <3>2. v[2] \in Nat
      BY <1>5
    <3>3. v[2] <= e
      BY <1>5, <3>1, <3>2
    <3>4. QED BY <1>3, <3>1, <3>3
  <2>2. QED BY <2>1 DEF WordsSeen
<1>8. EndsSeen(t, m.code, r.semis, r.words, e)
  <2>1. ASSUME NEW k \in DOMAIN r.semis
        PROVE  r.semis[k] \in m.code /\ r.semis[k] < e /\ t[r.semis[k]] = "s" /\ \A v \in r.words : ~ InWord(v, r.semis[k])
    <3>1. r.semis[k] \in l.code /\ r.semis[k] < i /\ t[r.semis[k]] = "s" /\ \A v \in r.words : ~ InWord(v, r.semis[k])
      BY <1>4 DEF EndsSeen
    <3>2. r.semis[k] \in Nat
      BY <1>5
    <3>3. r.semis[k] < e
      BY <1>5, <3>1, <3>2
    <3>4. QED BY <1>3, <3>1, <3>3
  <2>2. QED BY <2>1 DEF EndsSeen
<1>9. CASE w.kind = "space"
  <2>1. q.semis = r.semis /\ q.words = r.words /\ m.code = l.code
    BY <1>2, <1>3, <1>9
  <2>2. QED BY <1>1, <1>2, <1>4, <1>6, <1>7, <1>8, <2>1 DEF Related
<1>10. CASE w.kind = "end"
  <2>1. q.semis = Append(r.semis, i) /\ q.words = r.words /\ m.code = l.code \cup {i}
    <3>1. i .. e - 1 = {i}
      BY <1>3, <1>5, <1>10
    <3>2. QED BY <1>2, <1>3, <1>10, <3>1
  <2>2. PICK n, s : n = Len(r.semis) /\ s = q.semis
    OBVIOUS
  <2>3. n \in Nat /\ DOMAIN r.semis = 1 .. n /\ DOMAIN s = 1 .. n + 1 /\ s[n + 1] = i /\ \A k \in 1 .. n : s[k] = r.semis[k]
    BY <1>5, <2>1, <2>2
  <2>4. SeenIsToken(m.code, s, r.words)
    <3>1. ASSUME NEW c \in m.code PROVE (\E v \in r.words : InWord(v, c)) \/ (\E k \in DOMAIN s : s[k] = c)
      <4>1. CASE c \in l.code
        <5>1. (\E v \in r.words : InWord(v, c)) \/ (\E k \in 1 .. n : r.semis[k] = c)
          BY <1>4, <2>3, <4>1 DEF SeenIsToken
        <5>2. \A k \in 1 .. n : k \in 1 .. n + 1
          BY <2>3
        <5>3. QED BY <2>3, <5>1, <5>2
      <4>2. CASE c = i
        <5>1. n + 1 \in 1 .. n + 1
          BY <2>3
        <5>2. QED BY <2>3, <4>2, <5>1
      <4>3. QED BY <2>1, <4>1, <4>2
    <3>2. QED BY <3>1 DEF SeenIsToken
  <2>5. EndsSeen(t, m.code, s, r.words, e)
    <3>1. ASSUME NEW k \in 1 .. n + 1
          PROVE  s[k] \in m.code /\ s[k] < e /\ t[s[k]] = "s" /\ \A v \in r.words : ~ InWord(v, s[k])
      <4>1. CASE k \in 1 .. n
        BY <1>8, <2>3, <4>1 DEF EndsSeen
      <4>2. CASE k = n + 1
        <5>1. \A v \in r.words : ~ InWord(v, i)
          <6>1. ASSUME NEW v \in r.words PROVE ~ InWord(v, i)
            <7>1. v[2] <= i /\ v[2] \in Nat
              BY <1>4, <1>5 DEF WordsSeen
            <7>2. QED BY <1>5, <7>1 DEF InWord
          <6>2. QED BY <6>1
        <5>2. QED BY <1>3, <1>5, <1>10, <2>3, <4>2, <5>1
      <4>3. QED BY <2>3, <4>1, <4>2
    <3>2. QED BY <2>3, <3>1 DEF EndsSeen
  <2>6. QED BY <1>1, <1>2, <1>4, <1>6, <1>7, <2>1, <2>2, <2>4, <2>5 DEF Related
<1>11. CASE w.kind = "word"
  <2>1. PICK new : new = <<i, e>>
    OBVIOUS
  <2>2. q.semis = r.semis /\ q.words = r.words \cup {new} /\ new[1] = i /\ new[2] = e /\ m.code \subseteq l.code \cup (i .. e - 1)
    BY <1>2, <1>3, <1>11, <2>1
  <2>3. SeenIsToken(m.code, r.semis, q.words)
    <3>1. ASSUME NEW c \in m.code PROVE (\E v \in q.words : InWord(v, c)) \/ (\E k \in DOMAIN r.semis : r.semis[k] = c)
      <4>1. CASE c \in l.code
        BY <1>4, <2>2, <4>1 DEF SeenIsToken
      <4>2. CASE c \in i .. e - 1
        <5>1. InWord(new, c)
          BY <1>5, <2>2, <4>2 DEF InWord
        <5>2. QED BY <2>2, <5>1
      <4>3. QED BY <2>2, <4>1, <4>2
    <3>2. QED BY <3>1 DEF SeenIsToken
  <2>4. WordsSeen(t, m.code, q.words, e)
    <3>1. /\ new[1] \in m.code /\ new[1] < new[2] /\ new[2] <= e /\ t[new[1]] # "s"
          /\ t[new[1]] = "C" => new[1] .. new[2] - 1 \subseteq m.code
      BY <1>3, <1>5, <1>11, <2>2
    <3>2. QED BY <1>7, <2>2, <3>1 DEF WordsSeen
  <2>5. EndsSeen(t, m.code, r.semis, q.words, e)
    <3>1. ASSUME NEW k \in DOMAIN r.semis
          PROVE  r.semis[k] \in m.code /\ r.semis[k] < e /\ t[r.semis[k]] = "s" /\ \A v \in q.words : ~ InWord(v, r.semis[k])
      <4>1. r.semis[k] < i /\ r.semis[k] \in Nat
        BY <1>4, <1>5 DEF EndsSeen
      <4>2. ~ InWord(new, r.semis[k])
        BY <1>5, <2>2, <4>1 DEF InWord
      <4>3. QED BY <1>8, <2>2, <4>2 DEF EndsSeen
    <3>2. QED BY <3>1 DEF EndsSeen
  <2>6. OneWordAt(q.words)
    <3>1. ASSUME NEW v \in r.words PROVE v[1] # i
      <4>1. v[1] < v[2] /\ v[2] <= i /\ v[1] \in Nat /\ v[2] \in Nat
        BY <1>4, <1>5 DEF WordsSeen
      <4>2. QED BY <1>5, <4>1
    <3>2. QED BY <1>4, <2>2, <3>1 DEF OneWordAt
  <2>7. QED BY <1>1, <1>2, <1>6, <2>2, <2>3, <2>4, <2>5, <2>6 DEF Related
<1>12. QED BY <1>3, <1>9, <1>10, <1>11

(* The loop is where PostgreSQL's next token starts.                       *)
SideBySide(t, g, p, j) ==
  /\ p[j].next \in j + 1 .. Len(t) + 1 /\ g[p[j].next - 1].next = p[j].next
  /\ p[j].next <= Len(t) => g[p[j].next - 1].state = L!Normal
  /\ Related(t, g[p[j].next - 1], p[j])

(* Over a whole text without odd tokens they stay side by side.            *)
LEMMA BothRead ==
  ASSUME NEW t \in Seq(STRING), NEW g, Loops(g, t), NEW p, GrammarReading(p, t), ~ p[Len(t)].odd
  PROVE  Related(t, g[Len(t)], p[Len(t)])
<1> DEFINE T == {j \in 0 .. Len(t) : ~ p[j].odd => SideBySide(t, g, p, j)}
<1>1. PICK n : n = Len(t)
  OBVIOUS
<1>2. n \in Nat
  BY <1>1
<1>3. p \in [0 .. n -> ReadState] /\ p[0] = Unread /\ \A j \in 1 .. n : p[j] = ReadOn(p[j - 1], t, j)
  BY <1>1 DEF GrammarReading
<1>4. 0 \in T
  <2>1. g[0] = L!Start
    BY DEF Loops
  <2>2. p[0].next = 1 /\ p[0].semis = <<>> /\ p[0].words = {} /\ 1 - 1 = 0
    BY <1>3 DEF Unread
  <2>3. g[0].next = 1 /\ g[0].state = L!Normal /\ g[0].semicolons = <<>> /\ g[0].code = {}
    BY <2>1 DEF L!Start
  <2>4. Related(t, g[0], p[0])
    BY <2>2, <2>3 DEF Related, SeenIsToken, WordsSeen, EndsSeen, OneWordAt
  <2>5. 1 \in 0 + 1 .. Len(t) + 1 /\ 0 \in 0 .. Len(t)
    BY <1>1, <1>2
  <2>6. SideBySide(t, g, p, 0)
    BY <2>2, <2>3, <2>4, <2>5 DEF SideBySide
  <2>7. QED BY <2>5, <2>6
<1>5. ASSUME NEW h \in 0 .. n - 1, h \in T PROVE h + 1 \in T
  <2>1. PICK j : j = h + 1
    OBVIOUS
  <2>2. j \in 1 .. n /\ j - 1 = h /\ h \in 0 .. n /\ j \in 0 .. n
    BY <1>2, <2>1
  <2>3. PICK r : r = p[h]
    OBVIOUS
  <2>4. r \in ReadState /\ p[j] = ReadOn(r, t, j)
    BY <1>3, <2>2, <2>3
  <2>5. r.next \in Nat /\ r.odd \in BOOLEAN
    BY <2>4 DEF ReadState
  <2>6. ASSUME ~ p[j].odd PROVE SideBySide(t, g, p, j)
    <3>1. CASE r.next # j
      <4>1. p[j] = r
        BY <2>4, <3>1 DEF ReadOn
      <4>2. SideBySide(t, g, p, h)
        BY <1>5, <2>3, <2>6, <4>1
      <4>3. r.next \in h + 1 .. n + 1
        BY <1>1, <2>3, <4>2 DEF SideBySide
      <4>4. r.next \in j + 1 .. n + 1
        BY <1>2, <2>1, <2>2, <3>1, <4>3
      <4>5. QED BY <1>1, <2>3, <4>1, <4>2, <4>4 DEF SideBySide
    <3>2. CASE r.next = j
      <4>1. PICK w, e : w = TokenAt(t, j) /\ e = w.to
        OBVIOUS
      <4>2. p[j].next = e /\ (r.odd \/ w.odd => p[j].odd)
        BY <2>4, <3>2, <4>1 DEF ReadOn
      <4>3. ~ r.odd /\ ~ w.odd
        BY <2>6, <4>2
      <4>4. SideBySide(t, g, p, h)
        BY <1>5, <2>3, <4>3
      <4>5. g[j - 1].next = j /\ g[j - 1].state = L!Normal /\ Related(t, g[j - 1], r)
        BY <1>1, <1>2, <2>2, <2>3, <3>2, <4>4 DEF SideBySide
      <4>6. StandsAt(t, g, j)
        BY <1>1, <2>2, <4>1, <4>3, <4>5 DEF StandsAt
      <4>7. Fits(g, t, j, w)
        BY <4>1, <4>6, TokenFits
      <4>8. Related(t, g[e - 1], p[j])
        BY <1>1, <2>2, <2>4, <3>2, <4>1, <4>5, <4>7, RelatedOn
      <4>9. e \in j + 1 .. Len(t) + 1 /\ g[e - 1].next = e /\ (e <= Len(t) => g[e - 1].state = L!Normal)
        BY <4>1, <4>7 DEF Fits
      <4>10. QED BY <4>2, <4>8, <4>9 DEF SideBySide
    <3>3. QED BY <3>1, <3>2
  <2>7. QED BY <1>1, <2>1, <2>2, <2>6
<1> HIDE DEF T
<1>6. 0 .. n \subseteq T
  BY <1>2, <1>4, <1>5, Ascent
<1>7. n \in T
  BY <1>2, <1>6
<1>8. SideBySide(t, g, p, n)
  BY <1>1, <1>7 DEF T
<1>9. p[n].next = n + 1 /\ (n + 1) - 1 = n
  BY <1>1, <1>2, <1>8 DEF SideBySide
<1>10. QED BY <1>1, <1>8, <1>9 DEF SideBySide

(***************************************************************************)
(* One statement on its own.                                               *)
(***************************************************************************)
(* A turn at c is not skipped, and sees its character.                     *)
Sees(g, t, c) == g[c - 1].next = c /\ L!Seen(t[c], g[c - 1].state, L!Lexed(t, c, g[c - 1].state).state)
Ends(g, t, c) == g[c - 1].next = c /\ g[c - 1].state = L!Normal /\ t[c] = "s"

(* What the loop keeps is what turns saw, and, in order, where they ended  *)
(* statements.                                                             *)
Kept(g, t, j) ==
  /\ \A c \in 1 .. Len(t) : c \in g[j].code <=> c \in 1 .. j /\ Sees(g, t, c)
  /\ g[j].code \subseteq 1 .. j
  /\ \A k \in DOMAIN g[j].semicolons : g[j].semicolons[k] \in 1 .. j /\ Ends(g, t, g[j].semicolons[k])
  /\ \A k, l \in DOMAIN g[j].semicolons : k < l => g[j].semicolons[k] < g[j].semicolons[l]

(* At the end of the text it does.                                         *)
LEMMA KeptIs ==
  ASSUME NEW t \in Seq(STRING), NEW g, Loops(g, t)
  PROVE  Kept(g, t, Len(t))
<1> DEFINE T == {j \in 0 .. Len(t) : Kept(g, t, j)}
<1>1. PICK n : n = Len(t)
  OBVIOUS
<1>2. n \in Nat /\ g \in [0 .. n -> LoopState] /\ g[0] = L!Start /\ \A i \in 1 .. n : g[i] = L!Passed(g[i - 1], t, i)
  BY <1>1 DEF Loops
<1>3. 0 \in T
  <2>1. g[0].semicolons = <<>> /\ g[0].code = {}
    BY <1>2 DEF L!Start
  <2>2. Kept(g, t, 0)
    BY <2>1 DEF Kept
  <2>3. QED BY <1>1, <1>2, <2>2
<1>4. ASSUME NEW h \in 0 .. n - 1, h \in T PROVE h + 1 \in T
  <2>1. PICK j, l, m : j = h + 1 /\ l = g[h] /\ m = g[j]
    OBVIOUS
  <2>2. j \in 1 .. n /\ j - 1 = h /\ h \in 0 .. n /\ j \in 0 .. n /\ 1 .. j = (1 .. h) \cup {j} /\ j \notin 1 .. h
    BY <1>2, <2>1
  <2>3. l \in LoopState /\ m = L!Passed(l, t, j) /\ Kept(g, t, h)
    BY <1>2, <1>4, <2>1, <2>2
  <2>4. l.semicolons \in Seq(Nat)
    BY <2>3 DEF LoopState
  <2>5. /\ \A c \in 1 .. n : c \in l.code <=> c \in 1 .. h /\ Sees(g, t, c)
        /\ l.code \subseteq 1 .. h
        /\ \A k \in DOMAIN l.semicolons : l.semicolons[k] \in 1 .. h /\ Ends(g, t, l.semicolons[k])
        /\ \A k, i \in DOMAIN l.semicolons : k < i => l.semicolons[k] < l.semicolons[i]
    BY <1>1, <2>1, <2>3 DEF Kept
  <2>6. m.code = (IF Sees(g, t, j) THEN l.code \cup {j} ELSE l.code)
    BY <2>1, <2>2, <2>3 DEF L!Passed, Sees
  <2>7. m.semicolons = (IF Ends(g, t, j) THEN Append(l.semicolons, j) ELSE l.semicolons)
    BY <2>1, <2>2, <2>3 DEF L!Passed, Ends
  <2>8. \A c \in 1 .. n : c \in m.code <=> c \in 1 .. j /\ Sees(g, t, c)
    BY <2>2, <2>5, <2>6
  <2>9. m.code \subseteq 1 .. j
    BY <2>2, <2>5, <2>6
  <2>10. /\ \A k \in DOMAIN m.semicolons : m.semicolons[k] \in 1 .. j /\ Ends(g, t, m.semicolons[k])
         /\ \A k, i \in DOMAIN m.semicolons : k < i => m.semicolons[k] < m.semicolons[i]
    <3>1. CASE ~ Ends(g, t, j)
      BY <2>2, <2>5, <2>7, <3>1
    <3>2. CASE Ends(g, t, j)
      <4>1. PICK s, r, q : s = l.semicolons /\ r = m.semicolons /\ q = Len(s)
        OBVIOUS
      <4>2. q \in Nat /\ DOMAIN s = 1 .. q /\ DOMAIN r = 1 .. q + 1 /\ r[q + 1] = j /\ \A k \in 1 .. q : r[k] = s[k]
        BY <2>4, <2>7, <3>2, <4>1
      <4>3. \A k \in 1 .. q : r[k] \in 1 .. h /\ Ends(g, t, r[k])
        BY <2>5, <4>1, <4>2
      <4>4. ASSUME NEW k \in 1 .. q + 1 PROVE r[k] \in 1 .. j /\ Ends(g, t, r[k])
        <5>1. k \in 1 .. q \/ k = q + 1
          BY <4>2
        <5>2. QED BY <2>2, <3>2, <4>2, <4>3, <5>1
      <4>5. ASSUME NEW k \in 1 .. q + 1, NEW i \in 1 .. q + 1, k < i PROVE r[k] < r[i]
        <5>1. k \in 1 .. q
          BY <4>2, <4>5
        <5>2. CASE i \in 1 .. q
          BY <2>5, <4>1, <4>2, <4>5, <5>1, <5>2
        <5>3. CASE i = q + 1
          <6>1. r[k] \in 1 .. h
            BY <4>3, <5>1
          <6>2. QED BY <2>1, <2>2, <4>2, <5>3, <6>1
        <5>4. QED BY <4>2, <5>2, <5>3
      <4>6. QED BY <4>1, <4>2, <4>4, <4>5
    <3>3. QED BY <3>1, <3>2
  <2>11. Kept(g, t, j)
    BY <1>1, <2>1, <2>8, <2>9, <2>10 DEF Kept
  <2>12. QED BY <1>1, <2>1, <2>2, <2>11
<1> HIDE DEF T
<1>5. 0 .. n \subseteq T
  BY <1>2, <1>3, <1>4, Ascent
<1>6. n \in T
  BY <1>2, <1>5
<1>7. QED BY <1>1, <1>6 DEF T

(* c is the part of t behind a, and ends like a statement.                 *)
Statement(c, t, a) ==
  /\ t \in Seq(STRING) /\ c \in Seq(STRING) /\ a \in Nat /\ Len(c) # 0 /\ a + Len(c) <= Len(t)
  /\ \A j \in 1 .. Len(c) : c[j] = t[a + j]
  /\ t[a + Len(c)] = "s"

(* The characters of a part are those of the text.                         *)
LEMMA PartAt ==
  ASSUME NEW c, NEW t, NEW a, Statement(c, t, a), NEW j \in 1 .. Len(c)
  PROVE  L!At(c, j) = L!At(t, a + j) /\ a + j \in 1 .. Len(t)
<1>1. PICK m, n : m = Len(c) /\ n = Len(t)
  OBVIOUS
<1>2. m \in Nat /\ n \in Nat /\ a \in Nat /\ a + m <= n /\ j \in 1 .. m /\ DOMAIN c = 1 .. m /\ DOMAIN t = 1 .. n /\ c[j] = t[a + j]
  BY <1>1 DEF Statement
<1>3. a + j \in 1 .. n
  BY <1>2
<1>4. QED BY <1>1, <1>2, <1>3 DEF L!At

SamePart(c, t, a, x, y) == SubSeq(c, x, y) = SubSeq(t, a + x, a + y)

(* A part of a part.                                                       *)
LEMMA PartSub ==
  ASSUME NEW c, NEW t, NEW a, Statement(c, t, a), NEW x \in 1 .. Len(c), NEW y \in x .. Len(c)
  PROVE  SamePart(c, t, a, x, y)
<1>1. PICK m, n, p, q, u, v : m = Len(c) /\ n = Len(t) /\ u = SubSeq(c, x, y) /\ p = a + x /\ q = a + y /\ v = SubSeq(t, p, q)
  OBVIOUS
<1>2. m \in Nat /\ n \in Nat /\ a \in Nat /\ a + m <= n /\ x \in 1 .. m /\ y \in x .. m /\ t \in Seq(STRING) /\ c \in Seq(STRING)
  BY <1>1 DEF Statement
<1>3. p \in 1 .. n /\ q \in p .. n /\ q - p = y - x
  BY <1>1, <1>2
<1>4. u \in Seq(STRING) /\ Len(u) = y - x + 1 /\ \A k \in 1 .. y - x + 1 : u[k] = c[x + k - 1]
  BY <1>1, <1>2
<1>5. v \in Seq(STRING) /\ Len(v) = q - p + 1 /\ \A k \in 1 .. q - p + 1 : v[k] = t[p + k - 1]
  BY <1>1, <1>2, <1>3
<1>6. ASSUME NEW k \in 1 .. y - x + 1 PROVE u[k] = v[k]
  <2>1. x + k - 1 \in 1 .. m /\ a + (x + k - 1) = p + k - 1 /\ k \in 1 .. q - p + 1
    BY <1>1, <1>2, <1>3
  <2>2. c[x + k - 1] = t[a + (x + k - 1)]
    BY <1>1, <2>1 DEF Statement
  <2>3. QED BY <1>4, <1>5, <2>1, <2>2
<1>7. u = v
  BY <1>3, <1>4, <1>5, <1>6
<1>8. QED BY <1>1, <1>7 DEF SamePart

(* A dollar tag ends within the statement.                                 *)
LEMMA PartTag ==
  ASSUME NEW c, NEW t, NEW a, Statement(c, t, a), NEW j \in 1 .. Len(c) - 1
  PROVE  /\ L!DollarTagAt(c, j) = 0 <=> L!DollarTagAt(t, a + j) = 0
         /\ L!DollarTagAt(c, j) # 0 => L!DollarTagAt(c, j) \in j + 1 .. Len(c) /\ L!DollarTagAt(t, a + j) = a + L!DollarTagAt(c, j)
<1>1. PICK m, n, i, x, y : m = Len(c) /\ n = Len(t) /\ i = a + j /\ x = L!DollarTagAt(c, j) /\ y = L!DollarTagAt(t, i)
  OBVIOUS
<1>2. /\ m \in Nat /\ n \in Nat /\ a \in Nat /\ a + m <= n /\ j \in 1 .. m - 1 /\ j \in 1 .. m /\ t \in Seq(STRING) /\ c \in Seq(STRING)
      /\ (\A k \in 1 .. m : c[k] = t[a + k]) /\ t[a + m] = "s"
  BY <1>1 DEF Statement
<1>3. i \in 1 .. n
  BY <1>1, <1>2
<1>4. x \in Nat /\ (x # 0 => TagEnd(c, j, x)) /\ \A e \in j + 1 .. m : TagEnd(c, j, e) => x = e
  BY <1>1, <1>2, TagFound
<1>5. y \in Nat /\ (y # 0 => TagEnd(t, i, y)) /\ \A e \in i + 1 .. n : TagEnd(t, i, e) => y = e
  BY <1>1, <1>2, <1>3, TagFound
<1>6. ASSUME x # 0 PROVE x \in j + 1 .. m /\ y = a + x /\ y # 0
  <2>1. x \in j + 1 .. m /\ c[x] = "$" /\ \A k \in j + 1 .. x - 1 : c[k] \in L!TagChar
    BY <1>1, <1>4, <1>6 DEF TagEnd
  <2>2. a + x \in i + 1 .. n /\ t[a + x] = "$" /\ a + x # 0
    BY <1>1, <1>2, <2>1
  <2>3. ASSUME NEW k \in i + 1 .. (a + x) - 1 PROVE t[k] \in L!TagChar
    <3>1. k - a \in j + 1 .. x - 1 /\ k - a \in 1 .. m /\ a + (k - a) = k
      BY <1>1, <1>2, <2>1
    <3>2. QED BY <1>2, <2>1, <3>1
  <2>4. TagEnd(t, i, a + x)
    BY <1>1, <2>2, <2>3 DEF TagEnd
  <2>5. QED BY <1>5, <2>1, <2>2, <2>4
<1>7. ASSUME y # 0 PROVE x # 0
  <2>1. y \in i + 1 .. n /\ t[y] = "$" /\ \A k \in i + 1 .. y - 1 : t[k] \in L!TagChar
    BY <1>1, <1>5, <1>7 DEF TagEnd
  <2>2. "s" \notin L!TagChar
    BY DEF L!TagChar
  <2>3. y # a + m
    BY <1>2, <2>1
  <2>4. ~ (a + m < y)
    <3>1. ASSUME a + m < y PROVE a + m \in i + 1 .. y - 1
      BY <1>1, <1>2, <2>1, <3>1
    <3>2. QED BY <1>2, <2>1, <2>2, <3>1
  <2>5. PICK e : e = y - a
    OBVIOUS
  <2>6. e \in j + 1 .. m /\ a + e = y /\ e # 0
    BY <1>1, <1>2, <1>3, <2>1, <2>3, <2>4, <2>5
  <2>7. e \in 1 .. m /\ c[e] = "$"
    <3>1. e \in 1 .. m
      BY <1>2, <2>6
    <3>2. c[e] = t[a + e]
      BY <1>2, <3>1
    <3>3. QED BY <2>1, <2>6, <3>1, <3>2
  <2>8. ASSUME NEW k \in j + 1 .. e - 1 PROVE c[k] \in L!TagChar
    <3>1. k \in 1 .. m /\ a + k \in i + 1 .. y - 1
      BY <1>1, <1>2, <2>6
    <3>2. QED BY <1>2, <2>1, <3>1
  <2>9. TagEnd(c, j, e)
    BY <1>1, <2>6, <2>7, <2>8 DEF TagEnd
  <2>10. QED BY <1>4, <2>6, <2>9
<1>8. QED BY <1>1, <1>6, <1>7

(* A turn within a statement is the same as within the text.               *)
LEMMA TurnShifts ==
  ASSUME NEW c, NEW t, NEW a, Statement(c, t, a), NEW j \in 1 .. Len(c), NEW s \in Modes, j = Len(c) => s = L!Normal
  PROVE  L!Lexed(c, j, s) = L!Lexed(t, a + j, s)
<1>1. PICK m, n, i : m = Len(c) /\ n = Len(t) /\ i = a + j
  OBVIOUS
<1>2. /\ m \in Nat /\ n \in Nat /\ a \in Nat /\ a + m <= n /\ j \in 1 .. m /\ t \in Seq(STRING) /\ c \in Seq(STRING)
      /\ (\A k \in 1 .. m : c[k] = t[a + k]) /\ t[a + m] = "s"
  BY <1>1 DEF Statement
<1>3. i \in 1 .. n /\ L!At(c, j) = L!At(t, i) /\ L!At(t, i) = t[i]
  BY <1>1, <1>2, PartAt DEF L!At
<1>4. CASE j = m
  <2>1. L!At(t, i) = "s"
    BY <1>1, <1>2, <1>3, <1>4
  <2>2. L!Lexed(c, j, s) = L!Outside(c, j) /\ L!Lexed(t, i, s) = L!Outside(t, i)
    BY <1>1, <1>4, ModesAre DEF L!Lexed
  <2>3. L!Outside(c, j) = L!Turn(L!Normal, 1) /\ L!Outside(t, i) = L!Turn(L!Normal, 1)
    BY <1>3, <2>1 DEF L!Outside
  <2>4. QED BY <1>1, <2>2, <2>3
<1>5. CASE j # m
  <2>1. j \in 1 .. m - 1 /\ j + 1 \in 1 .. m /\ a + (j + 1) = i + 1
    BY <1>1, <1>2, <1>5
  <2>2. L!At(c, j + 1) = L!At(t, i + 1)
    BY <1>1, <2>1, PartAt
  <2>3. CASE s.in = "normal"
    <3>1. PICK x, y : x = L!DollarTagAt(c, j) /\ y = L!DollarTagAt(t, i)
      OBVIOUS
    <3>2. (x = 0 <=> y = 0) /\ (x # 0 => x \in j + 1 .. m /\ y = a + x)
      BY <1>1, <2>1, <3>1, PartTag
    <3>3. x # 0 => SubSeq(c, j, x) = SubSeq(t, i, y) /\ x - j + 1 = y - i + 1
      <4>1. ASSUME x # 0 PROVE SubSeq(c, j, x) = SubSeq(t, i, y) /\ x - j + 1 = y - i + 1
        <5>1. x \in j .. m
          BY <1>2, <3>2, <4>1
        <5>2. SubSeq(c, j, x) = SubSeq(t, i, y)
          <6>1. x \in j .. Len(c)
            BY <1>1, <5>1
          <6>2. SamePart(c, t, a, j, x)
            BY <6>1, PartSub
          <6>3. QED BY <1>1, <3>2, <4>1, <6>2 DEF SamePart
        <5>3. QED BY <1>1, <1>2, <3>2, <4>1, <5>1, <5>2
      <4>2. QED BY <4>1
    <3>4. L!Lexed(c, j, s) = L!Outside(c, j) /\ L!Lexed(t, i, s) = L!Outside(t, i)
      BY <2>3 DEF L!Lexed
    <3>5. L!Outside(c, j) = L!Outside(t, i)
      <4>1. PICK u, v, q, r, d, e : u = L!At(t, i) /\ v = L!At(t, i + 1) /\ q = SubSeq(c, j, x) /\ r = SubSeq(t, i, y)
                                    /\ d = x - j + 1 /\ e = y - i + 1
        OBVIOUS
      <4>2. L!Outside(c, j) =
              CASE u = "q"               -> L!Turn(L!In("single"), 1)
                [] u = "Q"               -> L!Turn(L!In("double"), 1)
                [] u = "-" /\ v = "-"    -> L!Turn(L!In("line"), 2)
                [] u = "/" /\ v = "*"    -> L!Turn([L!In("block") EXCEPT !.depth = 1], 2)
                [] u = "$" /\ x # 0      -> L!Turn([L!In("dollar") EXCEPT !.tag = q], d)
                [] OTHER                 -> L!Turn(L!Normal, 1)
        BY <1>3, <2>2, <3>1, <4>1 DEF L!Outside
      <4>3. L!Outside(t, i) =
              CASE u = "q"               -> L!Turn(L!In("single"), 1)
                [] u = "Q"               -> L!Turn(L!In("double"), 1)
                [] u = "-" /\ v = "-"    -> L!Turn(L!In("line"), 2)
                [] u = "/" /\ v = "*"    -> L!Turn([L!In("block") EXCEPT !.depth = 1], 2)
                [] u = "$" /\ y # 0      -> L!Turn([L!In("dollar") EXCEPT !.tag = r], e)
                [] OTHER                 -> L!Turn(L!Normal, 1)
        BY <3>1, <4>1 DEF L!Outside
      <4>4. CASE x = 0
        BY <3>2, <4>2, <4>3, <4>4
      <4>5. CASE x # 0
        <5>1. q = r /\ d = e /\ y # 0
          BY <3>2, <3>3, <4>1, <4>5
        <5>2. QED BY <4>2, <4>3, <4>5, <5>1
      <4>6. QED BY <4>4, <4>5
    <3>6. QED BY <1>1, <3>4, <3>5
  <2>4. CASE s.in \in {"single", "double"}
    <3>1. \A what, quote : L!Quoted(c, j, what, quote) = L!Quoted(t, i, what, quote)
      BY <1>3, <2>2 DEF L!Quoted
    <3>2. QED BY <1>1, <2>4, <3>1 DEF L!Lexed
  <2>5. CASE s.in = "line"
    BY <1>1, <1>3, <2>5 DEF L!Lexed
  <2>6. CASE s.in = "block"
    <3>1. L!Commented(c, j, s.depth) = L!Commented(t, i, s.depth)
      BY <1>3, <2>2 DEF L!Commented
    <3>2. QED BY <1>1, <2>6, <3>1 DEF L!Lexed
  <2>7. CASE s.in = "dollar"
    <3>1. PICK q, k : q = s.tag /\ k = Len(q)
      OBVIOUS
    <3>2. q \in Seq(STRING) /\ q # <<>> /\ \A x \in 1 .. k : q[x] \in L!TagChar \cup {"$"}
      BY <2>7, <3>1 DEF Modes
    <3>3. k \in Nat /\ k # 0
      BY <3>1, <3>2
    <3>4. PICK x, y, u, v : x = j + k - 1 /\ y = i + k - 1 /\ u = SubSeq(c, j, x) /\ v = SubSeq(t, i, y)
      OBVIOUS
    <3>5. y = a + x /\ x \in Int /\ x >= j
      BY <1>1, <1>2, <3>3, <3>4
    <3>6. x <= m => u = v /\ y <= n
      <4>1. ASSUME x <= m PROVE u = v /\ y <= n
        <5>1. x \in j .. m
          BY <1>2, <3>5, <4>1
        <5>2. u = v
          <6>1. x \in j .. Len(c)
            BY <1>1, <5>1
          <6>2. SamePart(c, t, a, j, x)
            BY <6>1, PartSub
          <6>3. QED BY <1>1, <3>4, <3>5, <6>2 DEF SamePart
        <5>3. QED BY <1>2, <3>5, <4>1, <5>2
      <4>2. QED BY <4>1
    <3>7. y <= n /\ v = q => x <= m
      <4>1. ASSUME y <= n, v = q, ~ (x <= m) PROVE FALSE
        <5>1. PICK z : z = m - j + 1
          OBVIOUS
        <5>2. z \in 1 .. k /\ i + z - 1 = a + m /\ y \in i .. n /\ z \in 1 .. y - i + 1
          BY <1>1, <1>2, <1>3, <3>3, <3>4, <3>5, <4>1, <5>1
        <5>3. v[z] = t[i + z - 1]
          BY <1>2, <1>3, <3>4, <5>2
        <5>4. q[z] = "s"
          BY <1>2, <4>1, <5>2, <5>3
        <5>5. QED BY <3>2, <5>2, <5>4 DEF L!TagChar
      <4>2. QED BY <4>1
    <3>8. (x <= m /\ u = q) <=> (y <= n /\ v = q)
      BY <3>6, <3>7
    <3>9. L!Dollar(c, j, s) = IF x <= m /\ u = q THEN L!Turn(L!Normal, k) ELSE L!Turn(s, 1)
      BY <1>1, <3>1, <3>4 DEF L!Dollar
    <3>10. L!Dollar(t, i, s) = IF y <= n /\ v = q THEN L!Turn(L!Normal, k) ELSE L!Turn(s, 1)
      BY <1>1, <3>1, <3>4 DEF L!Dollar
    <3>11. L!Dollar(c, j, s) = L!Dollar(t, i, s)
      BY <3>8, <3>9, <3>10
    <3>12. QED BY <1>1, <2>7, <3>11 DEF L!Lexed
  <2>8. QED BY <2>3, <2>4, <2>5, <2>6, <2>7 DEF Modes
<1>6. QED BY <1>4, <1>5

(* Numbers moved by the same.                                              *)
LEMMA MovedSame ==
  ASSUME NEW a \in Int, NEW j \in Int, NEW u \in Int, NEW v \in Int, u + a = v
  PROVE  u = j <=> v = a + j
OBVIOUS

(* The loop over a statement on its own sees what it sees of it in the     *)
(* text.                                                                   *)
LEMMA AloneSeen ==
  ASSUME NEW c, NEW t, NEW a, Statement(c, t, a), NEW g, Loops(g, t), NEW h, Loops(h, c),
         g[a].next = a + 1, g[a].state = L!Normal, Ends(g, t, a + Len(c)), NEW i \in 1 .. Len(c)
  PROVE  i \in h[Len(c)].code <=> a + i \in g[Len(t)].code
<1> DEFINE T == {j \in 0 .. Len(c) - 1 : h[j].state = g[a + j].state /\ h[j].next + a = g[a + j].next}
<1>1. PICK m, n : m = Len(c) /\ n = Len(t)
  OBVIOUS
<1>2. /\ m \in Nat /\ n \in Nat /\ a \in Nat /\ a + m <= n /\ m # 0 /\ i \in 1 .. m /\ t \in Seq(STRING) /\ c \in Seq(STRING)
      /\ \A k \in 1 .. m : c[k] = t[a + k]
  BY <1>1 DEF Statement
<1>3. /\ g \in [0 .. n -> LoopState] /\ \A k \in 1 .. n : g[k] = L!Passed(g[k - 1], t, k)
      /\ h \in [0 .. m -> LoopState] /\ h[0] = L!Start /\ \A k \in 1 .. m : h[k] = L!Passed(h[k - 1], c, k)
  BY <1>1 DEF Loops
<1>4. 0 \in T
  <2>1. h[0].next = 1 /\ h[0].state = L!Normal
    BY <1>3 DEF L!Start
  <2>2. a + 0 = a /\ 0 \in 0 .. m - 1 /\ 1 + a = a + 1
    BY <1>2
  <2>3. QED BY <1>1, <2>1, <2>2
<1>5. ASSUME NEW e \in 0 .. (m - 1) - 1, e \in T PROVE e + 1 \in T
  <2>1. PICK j, k, d : j = e + 1 /\ k = a + j /\ d = a + e
    OBVIOUS
  <2>2. /\ j \in 1 .. m - 1 /\ j \in 1 .. m /\ j \in 0 .. m - 1 /\ j - 1 = e /\ e \in 0 .. m
        /\ k \in 1 .. n /\ k - 1 = d /\ d \in 0 .. n /\ j # m
    BY <1>2, <2>1
  <2>3. PICK x, y : x = h[e] /\ y = g[d]
    OBVIOUS
  <2>4. x \in LoopState /\ y \in LoopState /\ x.state = y.state /\ x.next + a = y.next
    BY <1>1, <1>3, <1>5, <2>1, <2>2, <2>3
  <2>5. x.next \in Nat /\ y.next \in Nat /\ x.state \in Modes
    BY <2>4 DEF LoopState
  <2>6. h[j] = L!Passed(x, c, j) /\ g[k] = L!Passed(y, t, k)
    BY <1>3, <2>2, <2>3
  <2>7. x.next = j <=> y.next = k
    <3>1. a \in Int /\ j \in Int /\ x.next \in Int /\ y.next \in Int
      BY <1>2, <2>2, <2>5
    <3>2. PICK u, v : u = x.next /\ v = y.next
      OBVIOUS
    <3>3. u \in Int /\ v \in Int /\ u + a = v /\ k = a + j
      BY <2>1, <2>4, <3>1, <3>2
    <3>4. u = j <=> v = a + j
      BY <3>1, <3>3, MovedSame
    <3>5. QED BY <3>2, <3>3, <3>4
  <2>8. CASE x.next # j
    <3>1. h[j] = x /\ g[k] = y
      BY <2>6, <2>7, <2>8 DEF L!Passed
    <3>2. QED BY <1>1, <2>1, <2>2, <2>4, <3>1
  <2>9. CASE x.next = j
    <3>1. PICK turn : turn = L!Lexed(c, j, x.state)
      OBVIOUS
    <3>2. turn = L!Lexed(t, k, y.state)
      BY <1>1, <2>1, <2>2, <2>4, <2>5, <3>1, TurnShifts
    <3>3. turn.by \in 1 .. m + 1 - j
      BY <1>1, <1>2, <2>2, <2>5, <3>1, LexedTyped
    <3>4. turn.by \in Int
      BY <1>2, <2>2, <3>3
    <3>5. h[j].state = turn.state /\ h[j].next = j + turn.by
      BY <2>6, <2>9, <3>1 DEF L!Passed
    <3>6. g[k].state = turn.state /\ g[k].next = k + turn.by
      BY <2>6, <2>7, <2>9, <3>2 DEF L!Passed
    <3>7. (j + turn.by) + a = k + turn.by
      <4>1. a \in Int /\ j \in Int /\ x.next \in Int /\ y.next \in Int
        BY <1>2, <2>2, <2>5
      <4>2. PICK l \in Int : l = turn.by
        BY <3>4
      <4>3. (j + l) + a = (a + j) + l
        BY <4>1
      <4>4. QED BY <2>1, <4>2, <4>3
    <3>8. QED BY <1>1, <2>1, <2>2, <3>5, <3>6, <3>7
  <2>10. QED BY <2>8, <2>9
<1> HIDE DEF T
<1>6. 0 .. m - 1 \subseteq T
  <2>1. m - 1 \in Nat
    BY <1>2
  <2>2. QED BY <1>4, <1>5, <2>1, Ascent
<1>7. PICK k, d : k = a + i /\ d = i - 1
  OBVIOUS
<1>8. d \in 0 .. m - 1 /\ a + d = k - 1 /\ k \in 1 .. n /\ d \in 0 .. m /\ k - 1 \in 0 .. n
  BY <1>2, <1>7
<1>9. h[d].state = g[k - 1].state /\ h[d].next + a = g[k - 1].next
  BY <1>1, <1>6, <1>8 DEF T
<1>10. h[d].next \in Nat /\ g[k - 1].next \in Nat /\ h[d].state \in Modes
  BY <1>3, <1>8 DEF LoopState
<1>11. h[d].next = i <=> g[k - 1].next = k
  <2>1. a \in Int /\ i \in Int /\ h[d].next \in Int /\ g[k - 1].next \in Int
    BY <1>2, <1>10
  <2>2. QED BY <1>7, <1>9, <2>1, MovedSame
<1>12. i = m => h[d].state = L!Normal
  BY <1>1, <1>7, <1>9 DEF Ends
<1>13. L!Lexed(c, i, h[d].state) = L!Lexed(t, k, g[k - 1].state)
  BY <1>1, <1>7, <1>9, <1>10, <1>12, TurnShifts
<1>14. c[i] = t[k]
  BY <1>2, <1>7
<1>15. Sees(h, c, i) <=> Sees(g, t, k)
  BY <1>7, <1>9, <1>11, <1>13, <1>14 DEF Sees
<1>16. i \in h[m].code <=> Sees(h, c, i)
  BY <1>1, <1>2, KeptIs DEF Kept
<1>17. k \in g[n].code <=> Sees(g, t, k)
  BY <1>1, <1>2, <1>8, KeptIs DEF Kept
<1>18. QED BY <1>1, <1>7, <1>15, <1>16, <1>17

(* Behind the end of a statement the loop is outside of everything.        *)
LEMMA EndGoesOn ==
  ASSUME NEW t \in Seq(STRING), NEW g, Loops(g, t), NEW c \in 1 .. Len(t), Ends(g, t, c)
  PROVE  g[c].next = c + 1 /\ g[c].state = L!Normal
<1>1. g[c - 1].next = c /\ g[c - 1].state = L!Normal /\ t[c] = "s"
  BY DEF Ends
<1>2. ~ Pair(t, c, "-", "-") /\ ~ Pair(t, c, "/", "*")
  BY <1>1 DEF Pair
<1>3. L!Lexed(t, c, g[c - 1].state) = L!Turn(L!Normal, 1)
  BY <1>1, <1>2, PlainTurn
<1>4. PICK e : e = c + 1
  OBVIOUS
<1>5. Turned(g, t, c, e, L!Normal)
  BY <1>1, <1>3, <1>4, TurnTaken
<1>6. e - 1 = c
  BY <1>4
<1>7. QED BY <1>4, <1>5, <1>6 DEF Turned

(* The k-th statement and where it starts, in the loop and in the reading. *)
Stated(t, g, p, semis, k, a, b) ==
  /\ t \in Seq(STRING) /\ Loops(g, t) /\ GrammarReading(p, t) /\ Related(t, g[Len(t)], p[Len(t)])
  /\ semis = p[Len(t)].semis /\ k \in DOMAIN semis /\ b = semis[k] /\ a = From(semis, k) - 1

(* Its places are in order.                                                *)
StatedWell(t, g, semis, k, a, b) ==
  /\ semis \in Seq(Nat) /\ a \in Nat /\ b \in a + 1 .. Len(t) /\ Ends(g, t, b) /\ g[a].next = a + 1 /\ g[a].state = L!Normal
  /\ a = 0 \/ \E l \in DOMAIN semis : a = semis[l]
  /\ \A l \in DOMAIN semis : semis[l] \in a + 1 .. b => semis[l] = b

(* They are.                                                               *)
LEMMA StatedIs ==
  ASSUME NEW t, NEW g, NEW p, NEW semis, NEW k, NEW a, NEW b, Stated(t, g, p, semis, k, a, b)
  PROVE  StatedWell(t, g, semis, k, a, b)
<1>1. PICK n, q : n = Len(t) /\ q = Len(semis)
  OBVIOUS
<1>2. /\ t \in Seq(STRING) /\ Loops(g, t) /\ g[n].semicolons = semis /\ n \in Nat
      /\ k \in DOMAIN semis /\ b = semis[k] /\ a = From(semis, k) - 1
  BY <1>1 DEF Stated, Related
<1>3. g[n] \in LoopState /\ g[0] = L!Start
  BY <1>1, <1>2 DEF Loops
<1>4. semis \in Seq(Nat) /\ q \in Nat /\ DOMAIN semis = 1 .. q
  BY <1>1, <1>2, <1>3 DEF LoopState
<1>5. /\ \A l \in 1 .. q : semis[l] \in 1 .. n /\ Ends(g, t, semis[l])
      /\ \A l, i \in 1 .. q : l < i => semis[l] < semis[i]
  BY <1>1, <1>2, <1>4, KeptIs DEF Kept
<1>6. k \in 1 .. q /\ b \in 1 .. n /\ Ends(g, t, b)
  BY <1>2, <1>4, <1>5
<1>7. CASE k = 1
  <2>1. a = 0
    BY <1>2, <1>7 DEF From
  <2>2. g[a].next = a + 1 /\ g[a].state = L!Normal
    BY <1>3, <2>1 DEF L!Start
  <2>3. ASSUME NEW l \in 1 .. q, semis[l] \in a + 1 .. b PROVE semis[l] = b
    <3>1. l = k \/ k < l
      BY <1>4, <1>7
    <3>2. semis[l] \in 1 .. n
      BY <1>5
    <3>3. ~ (k < l)
      BY <1>2, <1>5, <1>6, <2>3, <3>2
    <3>4. QED BY <1>2, <3>1, <3>3
  <2>4. b \in a + 1 .. n
    BY <1>6, <2>1
  <2>5. QED BY <1>1, <1>4, <1>6, <2>1, <2>2, <2>3, <2>4 DEF StatedWell
<1>8. CASE k # 1
  <2>1. PICK d : d = k - 1
    OBVIOUS
  <2>2. d \in 1 .. q /\ d < k
    BY <1>4, <1>6, <1>8, <2>1
  <2>3. semis[d] \in 1 .. n /\ Ends(g, t, semis[d]) /\ semis[d] < b
    BY <1>2, <1>5, <1>6, <2>2
  <2>4. a = semis[d]
    BY <1>2, <1>8, <2>1, <2>3 DEF From
  <2>5. g[a].next = a + 1 /\ g[a].state = L!Normal
    BY <1>1, <1>2, <2>3, <2>4, EndGoesOn
  <2>6. ASSUME NEW l \in 1 .. q, semis[l] \in a + 1 .. b PROVE semis[l] = b
    <3>1. l = k \/ k < l \/ l = d \/ l < d
      BY <1>4, <1>6, <2>1
    <3>2. semis[l] \in 1 .. n
      BY <1>5
    <3>3. ~ (k < l)
      BY <1>2, <1>5, <1>6, <2>6, <3>2
    <3>4. l # d
      BY <2>3, <2>4, <2>6
    <3>5. ~ (l < d)
      BY <1>5, <2>2, <2>3, <2>4, <2>6, <3>2
    <3>6. QED BY <1>2, <3>1, <3>3, <3>4, <3>5
  <2>7. a \in Nat /\ b \in a + 1 .. n
    BY <1>6, <2>3, <2>4
  <2>8. QED BY <1>1, <1>4, <1>6, <2>2, <2>4, <2>5, <2>6, <2>7 DEF StatedWell
<1>9. QED BY <1>7, <1>8

(* The words of the statement behind a that ends at b.                     *)
WordsIn(words, a, b) == {w \in words : a + 1 <= w[1] /\ w[1] < b}

(* A word with a character of a statement begins in it.                    *)
LEMMA WordInside ==
  ASSUME NEW t, NEW g, NEW p, NEW semis, NEW k, NEW a, NEW b, Stated(t, g, p, semis, k, a, b),
         NEW w \in p[Len(t)].words, NEW y \in a + 1 .. b, InWord(w, y)
  PROVE  w \in WordsIn(p[Len(t)].words, a, b) /\ w[1] \in Nat /\ w[2] \in Nat /\ w = <<w[1], w[2]>> /\ w[1] \in a + 1 .. y /\ y < b
<1>1. PICK n, r, l : n = Len(t) /\ r = p[n] /\ l = g[n]
  OBVIOUS
<1>2. StatedWell(t, g, semis, k, a, b) /\ Related(t, l, r) /\ semis = r.semis /\ k \in DOMAIN semis /\ b = semis[k]
      /\ t \in Seq(STRING) /\ Loops(g, t) /\ GrammarReading(p, t)
  BY <1>1, StatedIs DEF Stated
<1>3. n \in Nat
  BY <1>1, <1>2
<1>4. semis \in Seq(Nat) /\ a \in Nat /\ b \in a + 1 .. n /\ (a = 0 \/ \E i \in DOMAIN semis : a = semis[i])
  BY <1>1, <1>2 DEF StatedWell
<1>5. r \in ReadState
  BY <1>1, <1>2, <1>3 DEF GrammarReading
<1>6. w \in Nat \X Nat
  BY <1>1, <1>5 DEF ReadState
<1>7. w[1] \in Nat /\ w[2] \in Nat /\ w = <<w[1], w[2]>>
  BY <1>6
<1>8. w[1] <= y /\ y < w[2]
  BY DEF InWord
<1>9. \A i \in DOMAIN semis : ~ InWord(w, semis[i])
  BY <1>1, <1>2 DEF Related, EndsSeen
<1>10. w[1] \in 1 .. n
  <2>1. w[1] \in l.code
    BY <1>1, <1>2 DEF Related, WordsSeen
  <2>2. l.code \subseteq 1 .. n
    BY <1>1, <1>2, KeptIs DEF Kept
  <2>3. QED BY <2>1, <2>2
<1>11. w[1] >= a + 1
  <2>1. CASE a = 0
    BY <1>3, <1>10, <2>1
  <2>2. CASE \E i \in DOMAIN semis : a = semis[i]
    <3>1. ~ InWord(w, a)
      BY <1>9, <2>2
    <3>2. a < w[2]
      BY <1>4, <1>7, <1>8
    <3>3. ~ (w[1] <= a)
      BY <3>1, <3>2 DEF InWord
    <3>4. QED BY <1>4, <1>7, <3>3
  <2>3. QED BY <1>4, <2>1, <2>2
<1>12. y < b
  <2>1. ~ InWord(w, b)
    BY <1>2, <1>9
  <2>2. y # b
    BY <2>1
  <2>3. QED BY <1>4, <2>2
<1>13. w[1] < b /\ w[1] \in a + 1 .. y
  BY <1>4, <1>7, <1>8, <1>11, <1>12
<1>14. QED BY <1>1, <1>7, <1>11, <1>12, <1>13 DEF WordsIn

(* The statement is a COPY and no more when the loop sees no more of it.   *)
CopyWords(t, words, a, b) == \E c \in DOMAIN t : t[c] = "C" /\ WordsIn(words, a, b) = {<<c, c + 1>>}
CopySeen(t, code, a, b)   == \E c \in a + 1 .. b : t[c] = "C" /\ \A y \in a + 1 .. b : y \in code <=> y \in {c, b}

(* What is seen of a COPY statement are its words.                         *)
LEMMA CopySeenIs ==
  ASSUME NEW t, NEW g, NEW p, NEW semis, NEW k, NEW a, NEW b, Stated(t, g, p, semis, k, a, b)
  PROVE  CopySeen(t, g[Len(t)].code, a, b) <=> CopyWords(t, p[Len(t)].words, a, b)
<1>1. PICK n, r, l, W : n = Len(t) /\ r = p[n] /\ l = g[n] /\ W = r.words
  OBVIOUS
<1>2. StatedWell(t, g, semis, k, a, b) /\ Related(t, l, r) /\ semis = r.semis /\ k \in DOMAIN semis /\ b = semis[k]
      /\ t \in Seq(STRING) /\ Loops(g, t) /\ GrammarReading(p, t)
  BY <1>1, StatedIs DEF Stated
<1>3. n \in Nat /\ DOMAIN t = 1 .. n
  BY <1>1, <1>2
<1>4. /\ semis \in Seq(Nat) /\ a \in Nat /\ b \in a + 1 .. n
      /\ \A i \in DOMAIN semis : semis[i] \in a + 1 .. b => semis[i] = b
  BY <1>1, <1>2 DEF StatedWell
<1>5. \A i \in DOMAIN semis : semis[i] \in l.code /\ t[semis[i]] = "s" /\ \A w \in W : ~ InWord(w, semis[i])
  BY <1>1, <1>2 DEF Related, EndsSeen
<1>6. b \in l.code /\ t[b] = "s" /\ \A w \in W : ~ InWord(w, b)
  BY <1>2, <1>5
<1>7. \A w \in W : /\ w[1] \in l.code /\ w[1] < w[2]
                   /\ t[w[1]] = "C" => w[1] .. w[2] - 1 \subseteq l.code
  BY <1>1, <1>2 DEF Related, WordsSeen
<1>8. \A y \in l.code : (\E w \in W : InWord(w, y)) \/ (\E i \in DOMAIN semis : semis[i] = y)
  BY <1>1, <1>2 DEF Related, SeenIsToken
<1>9. \A w, v \in W : w[1] = v[1] => w = v
  BY <1>1, <1>2 DEF Related, OneWordAt
<1>10. ASSUME NEW w \in W, NEW y \in a + 1 .. b, InWord(w, y)
       PROVE  w \in WordsIn(W, a, b) /\ w[1] \in Nat /\ w[2] \in Nat /\ w = <<w[1], w[2]>> /\ w[1] \in a + 1 .. y /\ y < b
  BY <1>1, <1>10, WordInside
<1>11. ASSUME NEW c \in a + 1 .. b, t[c] = "C", \A y \in a + 1 .. b : y \in l.code <=> y \in {c, b}
       PROVE  CopyWords(t, W, a, b)
  <2>1. c \in l.code /\ c # b /\ c \in 1 .. n /\ c \in Nat
    BY <1>3, <1>4, <1>6, <1>11
  <2>2. PICK w \in W : InWord(w, c)
    <3>1. ASSUME NEW i \in DOMAIN semis, semis[i] = c PROVE FALSE
      BY <1>5, <1>11, <3>1
    <3>2. QED BY <1>8, <2>1, <3>1
  <2>3. w \in WordsIn(W, a, b) /\ w[1] \in Nat /\ w[2] \in Nat /\ w = <<w[1], w[2]>> /\ w[1] \in a + 1 .. c /\ c < b
    BY <1>10, <2>2
  <2>4. \A v \in WordsIn(W, a, b) : v \in W /\ v[1] = c
    <3>1. ASSUME NEW v \in WordsIn(W, a, b) PROVE v \in W /\ v[1] = c
      <4>1. v \in W /\ a + 1 <= v[1] /\ v[1] < b
        BY DEF WordsIn
      <4>2. v[1] \in l.code /\ v[1] \in Nat
        <5>1. v[1] \in l.code
          BY <1>7, <4>1
        <5>2. l.code \subseteq 1 .. n
          BY <1>1, <1>2, KeptIs DEF Kept
        <5>3. QED BY <1>3, <5>1, <5>2
      <4>3. v[1] \in a + 1 .. b /\ v[1] # b
        BY <1>4, <4>1, <4>2
      <4>4. QED BY <1>11, <4>1, <4>2, <4>3
    <3>2. QED BY <3>1
  <2>5. w[1] = c
    BY <2>3, <2>4
  <2>6. WordsIn(W, a, b) = {w}
    BY <1>9, <2>3, <2>4, <2>5
  <2>7. w[2] = c + 1
    <3>1. w[1] < w[2] /\ w[1] .. w[2] - 1 \subseteq l.code
      BY <1>7, <1>11, <2>5
    <3>2. ASSUME w[2] # c + 1 PROVE FALSE
      <4>1. PICK d : d = c + 1
        OBVIOUS
      <4>2. d \in w[1] .. w[2] - 1 /\ d \in a + 1 .. b /\ d # c /\ w[1] <= d /\ d < w[2]
        BY <1>4, <2>1, <2>3, <2>5, <3>1, <3>2, <4>1
      <4>3. d = b
        BY <1>11, <3>1, <4>2
      <4>4. InWord(w, b)
        BY <4>2, <4>3 DEF InWord
      <4>5. QED BY <1>6, <4>4
    <3>3. QED BY <3>2
  <2>8. w = <<c, c + 1>>
    BY <2>3, <2>5, <2>7
  <2>9. QED BY <1>3, <1>11, <2>1, <2>6, <2>8 DEF CopyWords
<1>12. ASSUME NEW c \in 1 .. n, t[c] = "C", WordsIn(W, a, b) = {<<c, c + 1>>}
       PROVE  CopySeen(t, l.code, a, b)
  <2>1. PICK w : w = <<c, c + 1>>
    OBVIOUS
  <2>2. w[1] = c /\ w[2] = c + 1 /\ c \in Nat /\ WordsIn(W, a, b) = {w}
    BY <1>3, <1>12, <2>1
  <2>3. w \in W /\ a + 1 <= c /\ c < b
    BY <2>2 DEF WordsIn
  <2>4. c \in a + 1 .. b /\ c \in l.code
    BY <1>4, <1>7, <2>2, <2>3
  <2>5. ASSUME NEW y \in a + 1 .. b, y \in l.code PROVE y \in {c, b}
    <3>1. CASE \E i \in DOMAIN semis : semis[i] = y
      BY <1>4, <3>1
    <3>2. CASE \E v \in W : InWord(v, y)
      <4>1. PICK v \in W : InWord(v, y)
        BY <3>2
      <4>2. v \in WordsIn(W, a, b)
        BY <1>10, <4>1
      <4>3. InWord(w, y)
        BY <2>2, <4>1, <4>2
      <4>4. c <= y /\ y < c + 1 /\ y \in Int
        BY <1>4, <2>2, <4>3 DEF InWord
      <4>5. QED BY <2>2, <4>4
    <3>3. QED BY <1>8, <2>5, <3>1, <3>2
  <2>6. \A y \in a + 1 .. b : y \in l.code <=> y \in {c, b}
    BY <1>6, <2>4, <2>5
  <2>7. QED BY <1>12, <2>4, <2>6 DEF CopySeen
<1>13. CopySeen(t, l.code, a, b) => CopyWords(t, W, a, b)
  BY <1>11 DEF CopySeen
<1>14. CopyWords(t, W, a, b) => CopySeen(t, l.code, a, b)
  BY <1>3, <1>12 DEF CopyWords
<1>15. QED BY <1>1, <1>13, <1>14

(* The parser is given a COPY header when the loop sees no more than that. *)
LEMMA CopyHeaderIs ==
  ASSUME NEW t, NEW g, NEW p, NEW semis, NEW k, NEW a, NEW b, Stated(t, g, p, semis, k, a, b)
  PROVE  L!IsCopyHeader(SubSeq(t, a + 1, b)) <=> CopySeen(t, g[Len(t)].code, a, b)
<1>1. PICK n, c, m, D : n = Len(t) /\ c = SubSeq(t, a + 1, b) /\ m = b - a /\ D = g[n].code
  OBVIOUS
<1>2. t \in Seq(STRING) /\ Loops(g, t) /\ StatedWell(t, g, semis, k, a, b)
  BY StatedIs DEF Stated
<1>3. n \in Nat /\ a \in Nat /\ b \in a + 1 .. n /\ Ends(g, t, b) /\ g[a].next = a + 1 /\ g[a].state = L!Normal
  BY <1>1, <1>2 DEF StatedWell
<1>4. m \in Nat /\ m # 0 /\ a + m = b /\ a + 1 \in 1 .. n /\ b \in 1 .. n
  <2>1. b \in Int /\ a + 1 <= b /\ b <= n
    BY <1>3
  <2>2. m \in Int /\ m >= 1 /\ a + m = b
    BY <1>1, <1>3, <2>1
  <2>3. QED BY <1>3, <2>1, <2>2
<1>5. c \in Seq(STRING) /\ Len(c) = m /\ \A j \in 1 .. m : c[j] = t[a + j]
  <2>1. c \in Seq(STRING) /\ Len(c) = b - (a + 1) + 1 /\ \A j \in 1 .. b - (a + 1) + 1 : c[j] = t[(a + 1) + j - 1]
    BY <1>1, <1>2, <1>3, <1>4
  <2>2. b - (a + 1) + 1 = m /\ \A j \in 1 .. m : (a + 1) + j - 1 = a + j
    BY <1>1, <1>3, <1>4
  <2>3. QED BY <2>1, <2>2
<1>6. Statement(c, t, a)
  BY <1>1, <1>2, <1>3, <1>4, <1>5 DEF Statement, Ends
<1>7. PICK h : Loops(h, c) /\ L!Lex(c) = h[Len(c)]
  BY <1>5, LexLoops
<1>8. PICK E : E = h[m].code
  OBVIOUS
<1>9. L!Lex(c).code = E /\ DOMAIN c = 1 .. m
  BY <1>5, <1>7, <1>8
<1>10. E \subseteq 1 .. m
  BY <1>5, <1>7, <1>8, KeptIs DEF Kept
<1>11. ASSUME NEW j \in 1 .. m PROVE j \in E <=> a + j \in D
  <2>1. Ends(g, t, a + Len(c)) /\ j \in 1 .. Len(c)
    BY <1>3, <1>4, <1>5
  <2>2. j \in h[Len(c)].code <=> a + j \in g[Len(t)].code
    BY <1>2, <1>3, <1>6, <1>7, <2>1, AloneSeen
  <2>3. QED BY <1>1, <1>5, <1>8, <2>2
<1>12. ASSUME NEW d \in 1 .. m, c[d] = "C", E = {d, m} PROVE CopySeen(t, D, a, b)
  <2>1. a + d \in a + 1 .. b /\ t[a + d] = "C"
    BY <1>3, <1>4, <1>5, <1>12
  <2>2. ASSUME NEW y \in a + 1 .. b PROVE y \in D <=> y \in {a + d, b}
    <3>1. PICK j : j = y - a
      OBVIOUS
    <3>2. j \in 1 .. m /\ a + j = y /\ (j = d <=> y = a + d) /\ (j = m <=> y = b)
      BY <1>3, <1>4, <3>1
    <3>3. QED BY <1>11, <1>12, <3>2
  <2>3. QED BY <2>1, <2>2 DEF CopySeen
<1>13. ASSUME NEW x \in a + 1 .. b, t[x] = "C", \A y \in a + 1 .. b : y \in D <=> y \in {x, b}
       PROVE  \E d \in 1 .. m : c[d] = "C" /\ E = {d, m}
  <2>1. PICK d : d = x - a
    OBVIOUS
  <2>2. d \in 1 .. m /\ a + d = x
    BY <1>3, <1>4, <2>1
  <2>3. c[d] = "C"
    BY <1>5, <1>13, <2>2
  <2>4. ASSUME NEW j \in 1 .. m PROVE j \in E <=> j \in {d, m}
    <3>1. a + j \in a + 1 .. b /\ (a + j = x <=> j = d) /\ (a + j = b <=> j = m)
      BY <1>3, <1>4, <2>2
    <3>2. QED BY <1>11, <1>13, <3>1
  <2>5. m \in 1 .. m
    BY <1>4
  <2>6. E = {d, m}
    BY <1>10, <2>2, <2>4, <2>5
  <2>7. QED BY <2>2, <2>3, <2>6
<1>14. L!IsCopyHeader(c) <=> \E d \in 1 .. m : c[d] = "C" /\ E = {d, m}
  BY <1>5, <1>9 DEF L!IsCopyHeader
<1>15. CopySeen(t, D, a, b) <=> \E x \in a + 1 .. b : t[x] = "C" /\ \A y \in a + 1 .. b : y \in D <=> y \in {x, b}
  BY DEF CopySeen
<1>16. L!IsCopyHeader(c) => CopySeen(t, D, a, b)
  BY <1>12, <1>14
<1>17. CopySeen(t, D, a, b) => L!IsCopyHeader(c)
  BY <1>13, <1>14, <1>15
<1>18. QED BY <1>1, <1>16, <1>17

(***************************************************************************)
(* The payload.                                                            *)
(***************************************************************************)
(* An end line is one that has nothing but carriage returns besides.       *)
LEMMA EndLineIs ==
  ASSUME NEW t \in Seq(STRING), NEW u \in 1 .. Len(t)
  PROVE  EndLine(t, u) <=> t[u] = "P" /\ \A j \in u + 1 .. L!LineEnd(t, u) : t[j] \in {"r", "n"}
<1>1. PICK n, e : n = Len(t) /\ e = L!LineEnd(t, u)
  OBVIOUS
<1>2. n \in Nat /\ u \in 1 .. n
  BY <1>1
<1>3. e \in u .. n /\ (\A j \in u .. e - 1 : t[j] # "n") /\ (e = n \/ t[e] = "n")
  BY <1>1, LineEndIs
<1>4. ASSUME EndLine(t, u) PROVE t[u] = "P" /\ \A j \in u + 1 .. e : t[j] \in {"r", "n"}
  <2>1. t[u] = "P"
    BY <1>4 DEF EndLine
  <2>2. PICK j \in u .. n : (\A k \in u + 1 .. j : t[k] = "r") /\ (j = n \/ t[j + 1] = "n")
    BY <1>1, <1>4 DEF EndLine
  <2>3. ASSUME NEW k \in u + 1 .. e PROVE t[k] \in {"r", "n"}
    <3>1. CASE k <= j
      <4>1. k \in u + 1 .. j
        BY <1>2, <1>3, <2>2, <3>1
      <4>2. QED BY <2>2, <4>1
    <3>2. CASE k = j + 1
      <4>1. j # n
        BY <1>2, <1>3, <2>2, <3>2
      <4>2. QED BY <2>2, <3>2, <4>1
    <3>3. CASE j + 1 < k
      <4>1. j + 1 \in u .. e - 1 /\ j # n
        BY <1>2, <1>3, <2>2, <3>3
      <4>2. t[j + 1] # "n"
        BY <1>3, <4>1
      <4>3. QED BY <2>2, <4>1, <4>2
    <3>4. k <= j \/ k = j + 1 \/ j + 1 < k
      BY <1>2, <1>3, <2>2
    <3>5. QED BY <3>1, <3>2, <3>3, <3>4
  <2>4. QED BY <2>1, <2>3
<1>5. ASSUME t[u] = "P", \A j \in u + 1 .. e : t[j] \in {"r", "n"} PROVE EndLine(t, u)
  <2>1. ASSUME NEW j \in u .. n, \A k \in u + 1 .. j : t[k] = "r", j = n \/ t[j + 1] = "n" PROVE EndLine(t, u)
    BY <1>1, <1>5, <2>1 DEF EndLine
  <2>2. CASE t[e] = "n"
    <3>1. PICK j : j = e - 1
      OBVIOUS
    <3>2. e # u
      BY <1>5, <2>2
    <3>3. j \in u .. n /\ j + 1 = e /\ \A k \in u + 1 .. j : k \in u + 1 .. e /\ k \in u .. e - 1
      BY <1>2, <1>3, <3>1, <3>2
    <3>4. \A k \in u + 1 .. j : t[k] = "r"
      BY <1>3, <1>5, <3>3
    <3>5. QED BY <2>1, <2>2, <3>3, <3>4
  <2>3. CASE t[e] # "n"
    <3>1. e = n /\ e \in u .. n
      BY <1>3, <2>3
    <3>2. ASSUME NEW k \in u + 1 .. e PROVE t[k] = "r"
      <4>1. k = e \/ k \in u .. e - 1
        BY <1>2, <1>3
      <4>2. QED BY <1>3, <1>5, <2>3, <4>1
    <3>3. QED BY <2>1, <3>1, <3>2
  <2>4. QED BY <2>2, <2>3
<1>6. QED BY <1>1, <1>4, <1>5

(* A later place is in the same line or a later one.                       *)
LEMMA LineEndUp ==
  ASSUME NEW t \in Seq(STRING), NEW u \in 1 .. Len(t), NEW v \in u .. Len(t)
  PROVE  L!LineEnd(t, u) <= L!LineEnd(t, v)
<1>1. PICK n, d, e : n = Len(t) /\ d = L!LineEnd(t, u) /\ e = L!LineEnd(t, v)
  OBVIOUS
<1>2. n \in Nat /\ u \in 1 .. n /\ v \in u .. n /\ v \in 1 .. n
  BY <1>1
<1>3. d \in u .. n /\ \A j \in u .. d - 1 : t[j] # "n"
  BY <1>1, LineEndIs
<1>4. e \in v .. n /\ (e = n \/ t[e] = "n")
  BY <1>1, <1>2, LineEndIs
<1>5. ASSUME e < d PROVE FALSE
  <2>1. e \in u .. d - 1 /\ e # n
    BY <1>2, <1>3, <1>4, <1>5
  <2>2. QED BY <1>3, <1>4, <2>1
<1>6. d <= e
  BY <1>2, <1>3, <1>4, <1>5
<1>7. QED BY <1>1, <1>6

(* The payload ends with its first end line.                               *)
LEMMA PayloadEnds ==
  ASSUME NEW t \in Seq(STRING), NEW semi \in 1 .. Len(t)
  PROVE  L!PayloadEnd(t, semi + 1) = IF Payload(t, semi) = {} THEN 0 ELSE L!LineEnd(t, Min(Payload(t, semi)))
<1>1. PICK n, i, P, starts, U, ends :
        /\ n = Len(t) /\ i = semi + 1 /\ P = Payload(t, semi)
        /\ starts = {i} \cup {j \in i + 1 .. n : t[j - 1] = "n"}
        /\ U = {u \in starts \cap DOMAIN t : t[u] = "P" /\ \A j \in u + 1 .. L!LineEnd(t, u) : t[j] \in {"r", "n"}}
        /\ ends = {L!LineEnd(t, s) : s \in U}
  OBVIOUS
<1>2. n \in Nat /\ DOMAIN t = 1 .. n /\ semi \in 1 .. n /\ i \in Nat
  BY <1>1
<1>3. L!PayloadEnd(t, i) = IF ends = {} THEN 0 ELSE L!Min(ends)
  BY <1>1 DEF L!PayloadEnd
<1>4. U = P
  <2>1. ASSUME NEW u PROVE u \in starts \cap DOMAIN t <=> u \in semi + 1 .. n /\ (u = i \/ t[u - 1] = "n")
    <3>1. ASSUME u \in starts \cap DOMAIN t PROVE u \in semi + 1 .. n /\ (u = i \/ t[u - 1] = "n")
      <4>1. u \in 1 .. n /\ (u = i \/ (u \in i + 1 .. n /\ t[u - 1] = "n"))
        BY <1>1, <1>2, <3>1
      <4>2. u \in semi + 1 .. n
        BY <1>1, <1>2, <4>1
      <4>3. QED BY <4>1, <4>2
    <3>2. ASSUME u \in semi + 1 .. n, u = i \/ t[u - 1] = "n" PROVE u \in starts \cap DOMAIN t
      <4>1. u \in 1 .. n /\ (u = i \/ u \in i + 1 .. n)
        BY <1>1, <1>2, <3>2
      <4>2. QED BY <1>1, <1>2, <3>2, <4>1
    <3>3. QED BY <3>1, <3>2
  <2>2. \A u : u \in U <=> u \in starts \cap DOMAIN t /\ t[u] = "P" /\ \A j \in u + 1 .. L!LineEnd(t, u) : t[j] \in {"r", "n"}
    BY <1>1
  <2>3. \A u : u \in P <=> u \in semi + 1 .. n /\ EndLine(t, u) /\ (u = i \/ t[u - 1] = "n")
    BY <1>1 DEF Payload
  <2>4. ASSUME NEW u, u \in semi + 1 .. n
        PROVE  EndLine(t, u) <=> t[u] = "P" /\ \A j \in u + 1 .. L!LineEnd(t, u) : t[j] \in {"r", "n"}
    <3>1. u \in 1 .. n
      BY <1>2, <2>4
    <3>2. QED BY <1>1, <3>1, EndLineIs
  <2>5. ASSUME NEW u PROVE u \in U <=> u \in P
    BY <2>1, <2>2, <2>3, <2>4
  <2>6. QED BY <2>5
<1>5. CASE P = {}
  <2>1. ends = {}
    BY <1>1, <1>4, <1>5
  <2>2. QED BY <1>1, <1>3, <1>5, <2>1
<1>6. CASE P # {}
  <2>1. P \subseteq 1 .. n
    <3>1. \A u \in P : u \in semi + 1 .. n
      BY <1>1 DEF Payload
    <3>2. QED BY <1>2, <3>1
  <2>2. \A u \in P : L!LineEnd(t, u) \in Nat
    <3>1. ASSUME NEW u \in P PROVE L!LineEnd(t, u) \in Nat
      <4>1. u \in 1 .. n
        BY <2>1
      <4>2. L!LineEnd(t, u) \in u .. n
        BY <1>1, <4>1, LineEndIs
      <4>3. QED BY <1>2, <4>1, <4>2
    <3>2. QED BY <3>1
  <2>3. ends \in SUBSET Nat /\ ends # {}
    <3>1. ends = {L!LineEnd(t, v) : v \in P}
      BY <1>1, <1>4
    <3>2. ASSUME NEW d \in ends PROVE d \in Nat
      <4>1. PICK v \in P : d = L!LineEnd(t, v)
        BY <3>1
      <4>2. QED BY <2>2, <4>1
    <3>3. PICK v : v \in P
      BY <1>6
    <3>4. L!LineEnd(t, v) \in ends
      BY <3>1, <3>3
    <3>5. QED BY <3>2, <3>4
  <2>4. PICK e, u : e = L!Min(ends) /\ u = Min(P)
    OBVIOUS
  <2>5. P \in SUBSET Nat
    BY <1>2, <2>1
  <2>6. u \in P /\ \A v \in P : u <= v
    BY <1>6, <2>4, <2>5, CutMin
  <2>7. e \in ends /\ \A d \in ends : e <= d
    BY <2>3, <2>4, CutMin
  <2>8. PICK v \in P : e = L!LineEnd(t, v)
    BY <1>1, <1>4, <2>7
  <2>9. PICK d : d = L!LineEnd(t, u)
    OBVIOUS
  <2>10. d \in ends /\ e <= d
    BY <1>1, <1>4, <2>6, <2>7, <2>9
  <2>11. d <= e
    <3>1. u \in 1 .. n /\ v \in 1 .. n /\ u <= v
      BY <2>1, <2>6, <2>8
    <3>2. v \in u .. n
      BY <1>2, <3>1
    <3>3. L!LineEnd(t, u) <= L!LineEnd(t, v)
      BY <1>1, <3>1, <3>2, LineEndUp
    <3>4. QED BY <2>8, <2>9, <3>3
  <2>12. e = d
    BY <2>3, <2>7, <2>10, <2>11
  <2>13. QED BY <1>1, <1>3, <1>6, <2>3, <2>4, <2>9, <2>12
<1>7. QED BY <1>5, <1>6

(***************************************************************************)
(* The cut of a whole document.                                            *)
(***************************************************************************)
(* What the formatter answers, and what PostgreSQL says.                   *)
CutAt(t)    == [semicolons |-> L!TopLevelSemicolons(t), copy |-> L!CopyRegion(t)]
CutRight(t) ==
  ~ Grammar(t).odd =>
    LET semis  == Grammar(t).semis
        copies == {k \in DOMAIN semis : IsCopy(t, semis, Grammar(t).words, k)}
        semi   == semis[Min(copies)]
    IN  /\ CutAt(t).semicolons = semis
        /\ CutAt(t).copy = IF copies = {} THEN <<0, 0>> ELSE <<semi, L!LineEnd(t, Min(Payload(t, semi)))>>

(* They are the same, whatever the text.                                   *)
LEMMA CutIsRight ==
  ASSUME NEW t \in Seq(STRING)
  PROVE  CutRight(t)
<1> SUFFICES ASSUME ~ Grammar(t).odd PROVE CutRight(t)
  BY DEF CutRight
<1>1. PICK g : Loops(g, t) /\ L!Lex(t) = g[Len(t)]
  BY LexLoops
<1>2. PICK p : GrammarReading(p, t) /\ Grammar(t) = p[Len(t)]
  BY GrammarReads
<1>3. Related(t, g[Len(t)], p[Len(t)])
  BY <1>1, <1>2, BothRead
<1>4. PICK n, semis, words : n = Len(t) /\ semis = p[Len(t)].semis /\ words = p[Len(t)].words
  OBVIOUS
<1>5. L!TopLevelSemicolons(t) = semis /\ Grammar(t).semis = semis /\ Grammar(t).words = words
  BY <1>1, <1>2, <1>3, <1>4 DEF Related, L!TopLevelSemicolons
<1>6. p[Len(t)] \in ReadState
  BY <1>2 DEF GrammarReading
<1>7. semis \in Seq(Nat)
  BY <1>4, <1>6 DEF ReadState
<1>8. PICK H, copies :
        /\ H = {k \in DOMAIN semis : /\ L!IsCopyHeader(SubSeq(t, L!StatementStart(t, semis, k), semis[k]))
                                     /\ L!PayloadEnd(t, semis[k] + 1) # 0}
        /\ copies = {k \in DOMAIN semis : IsCopy(t, semis, words, k)}
  OBVIOUS
<1>9. ASSUME NEW k \in DOMAIN semis
      PROVE  /\ semis[k] \in 1 .. n
             /\ L!IsCopyHeader(SubSeq(t, L!StatementStart(t, semis, k), semis[k])) /\ L!PayloadEnd(t, semis[k] + 1) # 0
                  <=> IsCopy(t, semis, words, k)
             /\ Payload(t, semis[k]) # {} => L!PayloadEnd(t, semis[k] + 1) = L!LineEnd(t, Min(Payload(t, semis[k])))
  <2>1. PICK a, b : b = semis[k] /\ a = From(semis, k) - 1
    OBVIOUS
  <2>2. Stated(t, g, p, semis, k, a, b)
    BY <1>1, <1>2, <1>3, <1>4, <2>1 DEF Stated
  <2>3. a \in Nat /\ b \in a + 1 .. n /\ n \in Nat
    BY <1>4, <2>2, StatedIs DEF StatedWell
  <2>4. b \in 1 .. n
    BY <2>3
  <2>5. PICK f : f = From(semis, k)
    OBVIOUS
  <2>6. f = a + 1 /\ L!StatementStart(t, semis, k) = f
    <3>1. L!StatementStart(t, semis, k) = f
      BY <2>5 DEF L!StatementStart, From
    <3>2. f \in Int
      <4>1. CASE k = 1
        BY <2>5, <4>1 DEF From
      <4>2. CASE k # 1
        <5>1. k \in 1 .. Len(semis) /\ Len(semis) \in Nat
          BY <1>7
        <5>2. k - 1 \in 1 .. Len(semis)
          BY <4>2, <5>1
        <5>3. semis[k - 1] \in Nat
          BY <1>7, <5>2
        <5>4. QED BY <2>5, <4>2, <5>3 DEF From
      <4>3. QED BY <4>1, <4>2
    <3>3. QED BY <2>1, <2>5, <3>1, <3>2
  <2>7. L!IsCopyHeader(SubSeq(t, f, b)) <=> CopyWords(t, words, a, b)
    BY <1>4, <2>2, <2>6, CopyHeaderIs, CopySeenIs
  <2>8. L!PayloadEnd(t, b + 1) = IF Payload(t, b) = {} THEN 0 ELSE L!LineEnd(t, Min(Payload(t, b)))
    BY <1>4, <2>4, PayloadEnds
  <2>9. Payload(t, b) # {} => L!LineEnd(t, Min(Payload(t, b))) # 0
    <3>1. ASSUME Payload(t, b) # {} PROVE L!LineEnd(t, Min(Payload(t, b))) # 0
      <4>1. PICK P, u, e : P = Payload(t, b) /\ u = Min(P) /\ e = L!LineEnd(t, u)
        OBVIOUS
      <4>2. \A v \in P : v \in b + 1 .. n
        BY <1>4, <4>1 DEF Payload
      <4>3. P \in SUBSET Nat /\ P # {}
        BY <2>4, <3>1, <4>1, <4>2
      <4>4. u \in P
        BY <4>1, <4>3, CutMin
      <4>5. u \in 1 .. n
        BY <2>3, <2>4, <4>2, <4>4
      <4>6. e \in u .. n
        BY <1>4, <4>1, <4>5, LineEndIs
      <4>7. QED BY <4>1, <4>5, <4>6
    <3>2. QED BY <3>1
  <2>10. CopyWords(t, words, a, b) <=>
           \E c \in DOMAIN t : t[c] = "C" /\ {w \in words : f <= w[1] /\ w[1] < b} = {<<c, c + 1>>}
    BY <2>6 DEF CopyWords, WordsIn
  <2>11. IsCopy(t, semis, words, k) <=>
           /\ Payload(t, b) # {}
           /\ \E c \in DOMAIN t : t[c] = "C" /\ {w \in words : f <= w[1] /\ w[1] < b} = {<<c, c + 1>>}
    BY <2>1, <2>5 DEF IsCopy
  <2>12. PICK x, y : x = L!PayloadEnd(t, b + 1) /\ y = L!LineEnd(t, Min(Payload(t, b)))
    OBVIOUS
  <2>13. L!IsCopyHeader(SubSeq(t, f, b)) /\ x # 0 <=> IsCopy(t, semis, words, k)
    BY <2>7, <2>8, <2>9, <2>10, <2>11, <2>12
  <2>14. QED BY <2>1, <2>4, <2>6, <2>8, <2>12, <2>13
<1>10. H = copies
  BY <1>8, <1>9
<1>11. L!CopyRegion(t) = IF H = {} THEN <<0, 0>> ELSE <<semis[L!Min(H)], L!PayloadEnd(t, semis[L!Min(H)] + 1)>>
  BY <1>5, <1>8 DEF L!CopyRegion
<1>12. H # {} => L!Min(H) = Min(copies) /\ Min(copies) \in copies
  <2>1. H \in SUBSET Nat
    <3>1. DOMAIN semis \subseteq Nat
      BY <1>7
    <3>2. QED BY <1>8, <3>1
  <2>2. ASSUME H # {} PROVE L!Min(H) = Min(H) /\ Min(H) \in H
    <3>1. PICK x, y : x = L!Min(H) /\ y = Min(H)
      OBVIOUS
    <3>2. x \in H /\ y \in H /\ (\A k \in H : x <= k) /\ \A k \in H : y <= k
      BY <2>1, <2>2, <3>1, CutMin
    <3>3. x \in Nat /\ y \in Nat /\ x <= y /\ y <= x
      BY <2>1, <3>2
    <3>4. QED BY <3>1, <3>2, <3>3
  <2>3. QED BY <1>10, <2>2
<1>13. PICK k, semi : k = Min(copies) /\ semi = semis[k]
  OBVIOUS
<1>14. L!CopyRegion(t) = IF copies = {} THEN <<0, 0>> ELSE <<semi, L!LineEnd(t, Min(Payload(t, semi)))>>
  <2>1. CASE copies = {}
    BY <1>10, <1>11, <2>1
  <2>2. CASE copies # {}
    <3>1. k \in copies /\ L!Min(H) = k
      BY <1>10, <1>12, <1>13, <2>2
    <3>2. k \in DOMAIN semis /\ IsCopy(t, semis, words, k)
      BY <1>8, <3>1
    <3>3. Payload(t, semi) # {}
      BY <1>13, <3>2 DEF IsCopy
    <3>4. L!PayloadEnd(t, semi + 1) = L!LineEnd(t, Min(Payload(t, semi)))
      BY <1>9, <1>13, <3>2, <3>3
    <3>5. QED BY <1>10, <1>11, <1>13, <2>2, <3>1, <3>4
  <2>3. QED BY <2>1, <2>2
<1>15. CutAt(t).semicolons = semis /\ CutAt(t).copy = L!CopyRegion(t)
  BY <1>5 DEF CutAt
<1>16. QED BY <1>5, <1>8, <1>13, <1>14, <1>15 DEF CutRight

CutTyped == call.text \in Seq(STRING) /\ (answer = Unanswered \/ answer = CutAt(call.text))

(* Whatever the text of a document, unless it has one of the five odd      *)
(* constructs of CutCalls: the statements the formatter's own lexer splits *)
(* it into are the ones PostgreSQL reads, and the rows of a COPY it sets   *)
(* aside before anything is parsed are those behind a COPY statement of    *)
(* its own, up to the first end line.                                      *)
THEOREM CutsAgree == CutSpec => []DocumentIsCut
<1>1. ASSUME call \in [fn : {"split"}, text : Seq(STRING)], answer = Unanswered PROVE CutTyped
  BY <1>1 DEF CutTyped
<1>2. ASSUME CutTyped, [Split]_<<call, answer>> PROVE CutTyped'
  <2>1. CASE Split
    BY <1>2, <2>1 DEF Split, Fresh, CutTyped, CutAt
  <2>2. CASE UNCHANGED <<call, answer>>
    BY <1>2, <2>2 DEF CutTyped
  <2>3. QED BY <1>2, <2>1, <2>2
<1>3. ASSUME CutTyped PROVE DocumentIsCut
  <2>1. PICK t, x : t = call.text /\ x = answer
    OBVIOUS
  <2>2. t \in Seq(STRING) /\ (x = Unanswered \/ x = CutAt(t))
    BY <1>3, <2>1 DEF CutTyped
  <2>3. CutRight(t)
    BY <2>2, CutIsRight
  <2>4. x # Unanswered => x = CutAt(t)
    BY <2>2
  <2>5. SplitsLikePostgreSQL
    BY <2>1, <2>3, <2>4 DEF SplitsLikePostgreSQL, Answered, CutRight
  <2>6. CopyIsTopLevel
    BY <2>1, <2>3, <2>4 DEF CopyIsTopLevel, Answered, CutRight
  <2>7. QED BY <2>5, <2>6 DEF DocumentIsCut
<1>4. QED BY <1>1, <1>2, <1>3, PTL DEF CutSpec
=============================================================================
