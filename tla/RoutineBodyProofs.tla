------------------------- MODULE RoutineBodyProofs -------------------------
(***************************************************************************)
(* That format_single_routine writes every word and every comment of an    *)
(* accepted body once and in order, up to the preferred spellings - for    *)
(* bodies of every length, whatever PostgreSQL's parser reported and in    *)
(* whatever order its statements came.                                     *)
(***************************************************************************)
EXTENDS RoutineBody, DataInduction

(* First is the least element of a set of numbers, and 0 only of the empty set. *)
LEMMA FirstIsLeast ==
  ASSUME NEW S, S \in SUBSET (Nat \ {0})
  PROVE  /\ First(S) = 0 <=> S = {}
         /\ First(S) # 0 => First(S) \in S /\ \A j \in S : First(S) <= j
<1>1. CASE S = {}
  BY <1>1 DEF First
<1>2. CASE S # {}
  <2>1. PICK m : m = (CHOOSE i \in S : \A j \in S : i <= j)
    OBVIOUS
  <2>2. m \in S /\ \A j \in S : m <= j
    BY <1>2, <2>1, LeastChosen
  <2>3. First(S) = m
    BY <1>2, <2>1 DEF First
  <2>4. QED BY <1>2, <2>2, <2>3
<1>3. QED BY <1>1, <1>2

(* Places of K up to n: ascending numbers. *)
Climbs(ks, n, K) ==
  /\ ks \in Seq(Nat)
  /\ \A k \in 1 .. Len(ks) : ks[k] \in 1 .. n /\ ks[k] \in K
  /\ \A i, k \in 1 .. Len(ks) : i < k => ks[i] < ks[k]

(* Ascending lists numbers of K up to n in their order.                    *)
LEMMA AscendingClimbs ==
  ASSUME NEW n \in Nat, NEW K
  PROVE  Climbs(Ascending(n, K), n, K)
<1> DEFINE step == [i \in 1 .. n |-> [ks \in Seq(Nat) |-> ks \o IF i \in K THEN <<i>> ELSE <<>>]]
           R(f) == f = [k \in 0 .. n |-> IF k = 0 THEN <<>> ELSE f[k - 1] \o IF k \in K THEN <<k>> ELSE <<>>]
<1>1. Recursion(n, Seq(Nat), <<>>, step)
  <2>1. ASSUME NEW i \in 1 .. n PROVE [ks \in Seq(Nat) |-> ks \o IF i \in K THEN <<i>> ELSE <<>>] \in [Seq(Nat) -> Seq(Nat)]
    <3>1. i \in Nat
      OBVIOUS
    <3>2. (IF i \in K THEN <<i>> ELSE <<>>) \in Seq(Nat)
      BY <3>1
    <3>3. QED BY <3>2
  <2>2. <<>> \in Seq(Nat)
    OBVIOUS
  <2>3. QED BY <2>1, <2>2 DEF Recursion
<1>2. PICK f : Solves(f, n, Seq(Nat), <<>>, step)
  BY <1>1, RecursionExists
<1>3. /\ f \in [0 .. n -> Seq(Nat)] /\ f[0] = <<>>
      /\ \A i \in 1 .. n : f[i] = f[i - 1] \o IF i \in K THEN <<i>> ELSE <<>>
  <2>1. f \in [0 .. n -> Seq(Nat)] /\ f[0] = <<>> /\ \A i \in 1 .. n : f[i] = step[i][f[i - 1]]
    BY <1>2 DEF Solves
  <2>2. ASSUME NEW i \in 1 .. n PROVE f[i] = f[i - 1] \o IF i \in K THEN <<i>> ELSE <<>>
    <3>1. i - 1 \in 0 .. n
      OBVIOUS
    <3>2. f[i - 1] \in Seq(Nat)
      BY <2>1, <3>1
    <3>3. QED BY <2>1, <3>2
  <2> HIDE DEF step
  <2>3. QED BY <2>1, <2>2
<1> HIDE DEF step
<1>4. R(f)
  <2>1. ASSUME NEW k \in 0 .. n
        PROVE  f[k] = IF k = 0 THEN <<>> ELSE f[k - 1] \o IF k \in K THEN <<k>> ELSE <<>>
    <3>1. CASE k = 0
      BY <1>3, <3>1
    <3>2. CASE k # 0
      <4>1. k \in 1 .. n /\ k > 0
        BY <3>2
      <4>2. f[k] = f[k - 1] \o IF k \in K THEN <<k>> ELSE <<>>
        BY <1>3, <4>1
      <4>3. QED BY <3>2, <4>1, <4>2
    <3>3. QED BY <3>1, <3>2
  <2>2. f = [k \in 0 .. n |-> f[k]]
    BY <1>3
  <2>3. [k \in 0 .. n |-> f[k]] = [k \in 0 .. n |-> IF k = 0 THEN <<>> ELSE f[k - 1] \o IF k \in K THEN <<k>> ELSE <<>>]
    BY <2>1
  <2>4. QED BY <2>2, <2>3
<1>5. ASSUME NEW g, R(g) PROVE Climbs(g[n], n, K)
  <2> DEFINE T == {k \in 0 .. n : Climbs(g[k], k, K)}
  <2>1. /\ g[0] = <<>>
        /\ \A k \in 1 .. n : g[k] = g[k - 1] \o IF k \in K THEN <<k>> ELSE <<>>
    <3>1. g[0] = <<>>
      BY <1>5
    <3>2. ASSUME NEW k \in 1 .. n PROVE g[k] = g[k - 1] \o IF k \in K THEN <<k>> ELSE <<>>
      <4>1. k \in 0 .. n /\ k # 0 /\ k > 0
        OBVIOUS
      <4>2. g[k] = IF k = 0 THEN <<>> ELSE g[k - 1] \o IF k \in K THEN <<k>> ELSE <<>>
        BY <1>5, <4>1
      <4>3. QED BY <4>1, <4>2
    <3>3. QED BY <3>1, <3>2
  <2> HIDE DEF R
  <2>2. 0 \in T
    <3>1. PICK e : e = g[0]
      OBVIOUS
    <3>2. e = <<>> /\ e \in Seq(Nat) /\ Len(e) = 0
      BY <2>1, <3>1
    <3>3. Climbs(e, 0, K)
      BY <3>2 DEF Climbs
    <3>4. QED BY <3>1, <3>3
  <2>3. ASSUME NEW k \in 0 .. n - 1, k \in T PROVE k + 1 \in T
    <3>1. PICK j, a, b : j = k + 1 /\ a = g[k] /\ b = g[j]
      OBVIOUS
    <3>2. j \in 1 .. n /\ j - 1 = k /\ j \in Nat /\ k \in Nat /\ j = k + 1
      BY <3>1
    <3>3. b = a \o IF j \in K THEN <<j>> ELSE <<>>
      BY <2>1, <3>1, <3>2
    <3>4. Climbs(a, k, K)
      BY <2>3, <3>1
    <3>5. Climbs(b, j, K)
      <4>1. PICK m : m = Len(a)
        OBVIOUS
      <4>2. m \in Nat /\ a \in Seq(Nat) /\ \A i \in 1 .. m : a[i] \in 1 .. k /\ a[i] \in K
        BY <3>4, <4>1 DEF Climbs
      <4>3. CASE j \in K
        <5>1. b = Append(a, j)
          BY <3>2, <3>3, <4>2, <4>3
        <5>2. /\ b \in Seq(Nat) /\ Len(b) = m + 1 /\ b[m + 1] = j
              /\ \A i \in 1 .. m : b[i] = a[i]
          BY <3>2, <4>1, <4>2, <5>1, AppendProperties
        <5>3. ASSUME NEW i \in 1 .. m + 1 PROVE b[i] \in 1 .. j /\ b[i] \in K
          <6>1. CASE i = m + 1
            BY <3>2, <4>3, <5>2, <6>1
          <6>2. CASE i # m + 1
            <7>1. i \in 1 .. m
              BY <4>2, <6>2
            <7>2. b[i] \in 1 .. k /\ b[i] \in K
              BY <4>2, <5>2, <7>1
            <7>3. QED BY <3>2, <7>2
          <6>3. QED BY <6>1, <6>2
        <5>4. ASSUME NEW i \in 1 .. m + 1, NEW h \in 1 .. m + 1, i < h PROVE b[i] < b[h]
          <6>1. i \in 1 .. m /\ b[i] = a[i]
            BY <4>2, <5>2, <5>4
          <6>2. CASE h = m + 1
            <7>1. a[i] \in 1 .. k /\ b[h] = j
              BY <4>2, <5>2, <6>1, <6>2
            <7>2. QED BY <3>2, <6>1, <7>1
          <6>3. CASE h # m + 1
            <7>1. h \in 1 .. m /\ b[h] = a[h]
              BY <4>2, <5>2, <6>3
            <7>2. a[i] < a[h]
              BY <3>4, <4>1, <5>4, <6>1, <7>1 DEF Climbs
            <7>3. QED BY <6>1, <7>1, <7>2
          <6>4. QED BY <6>2, <6>3
        <5>5. QED BY <5>2, <5>3, <5>4 DEF Climbs
      <4>4. CASE j \notin K
        <5>1. b = a
          BY <3>3, <4>2, <4>4
        <5>2. \A i \in 1 .. m : a[i] \in 1 .. j /\ a[i] \in K
          BY <3>2, <4>2
        <5>3. QED BY <3>4, <4>1, <5>1, <5>2 DEF Climbs
      <4>5. QED BY <4>3, <4>4
    <3>6. QED BY <3>1, <3>2, <3>5
  <2> HIDE DEF T
  <2>4. 0 .. n \subseteq T
    BY <2>2, <2>3, Ascent
  <2>5. n \in T
    BY <2>4
  <2>6. QED BY <2>5 DEF T
<1>6. Ascending(n, K) = (CHOOSE g : R(g))[n]
  BY DEF Ascending
<1> HIDE DEF R
<1>7. R(CHOOSE g : R(g))
  BY <1>4
<1>8. QED BY <1>5, <1>6, <1>7

(* What is picked from a text is a text. *)
LEMMA PickedTyped ==
  ASSUME NEW S, NEW s \in Seq(S), NEW K
  PROVE  Picked(s, K) \in Seq(S) /\ Len(Picked(s, K)) = Len(Ascending(Len(s), K))
<1>1. PICK n, ks : n = Len(s) /\ ks = Ascending(n, K)
  OBVIOUS
<1>2. n \in Nat /\ Climbs(ks, n, K)
  BY <1>1, AscendingClimbs
<1>3. ks \in Seq(Nat) /\ \A k \in 1 .. Len(ks) : s[ks[k]] \in S
  <2>1. ks \in Seq(Nat) /\ \A k \in 1 .. Len(ks) : ks[k] \in 1 .. n
    BY <1>2 DEF Climbs
  <2>2. \A i \in 1 .. n : s[i] \in S
    BY <1>1
  <2>3. QED BY <2>1, <2>2
<1>4. Picked(s, K) = [k \in 1 .. Len(ks) |-> s[ks[k]]]
  BY <1>1 DEF Picked
<1>5. Len(ks) \in Nat
  BY <1>3
<1>6. QED BY <1>1, <1>3, <1>4, <1>5

(* Words but for some are words. *)
LEMMA WithoutTyped ==
  ASSUME NEW S, NEW ws \in Seq(S), NEW X
  PROVE  Without(ws, X) \in Seq(S) /\ Len(Without(ws, X)) = Len(Ascending(Len(ws), Spoken(ws, X)))
BY PickedTyped DEF Without

(* The longest common prefix of two texts is as long as a number. *)
LEMMA CommonCounts ==
  ASSUME NEW S, NEW s \in Seq(S), NEW t \in Seq(S)
  PROVE  Common(s, t) \in Nat
<1>1. PICK C : C = CommonPrefixes({s, t})
  OBVIOUS
<1>2. PICK n : n \in Nat /\ n >= Len(s) /\ n >= Len(t)
  <2>1. Len(s) + Len(t) \in Nat /\ Len(s) + Len(t) >= Len(s) /\ Len(s) + Len(t) >= Len(t)
    OBVIOUS
  <2>2. QED BY <2>1
<1>3. ASSUME NEW c \in C PROVE Len(c) \in 0 .. n
  <2>1. PICK q \in {s, t} : c \in Prefixes(q)
    BY <1>1 DEF CommonPrefixes
  <2>2. PICK l \in 0 .. Len(q) : c = SubSeq(q, 1, l)
    BY <2>1 DEF Prefixes
  <2>3. q \in Seq(S) /\ Len(q) \in Nat /\ Len(q) <= n
    BY <1>2
  <2>4. Len(c) = l
    BY <2>2, <2>3
  <2>5. QED BY <1>2, <2>3, <2>4
<1>4. <<>> \in C
  <2>1. <<>> \in Prefixes(s)
    BY DEF Prefixes
  <2>2. IsPrefix(<<>>, s) /\ IsPrefix(<<>>, t)
    BY DEF IsPrefix
  <2>3. QED BY <1>1, <2>1, <2>2 DEF CommonPrefixes
<1> DEFINE L == {Len(c) : c \in C}
<1>5. L \in SUBSET (0 .. n) /\ L # {}
  BY <1>3, <1>4
<1>6. PICK m \in L : \A k \in L : k <= m
  BY <1>2, <1>5, GreatestNatural
<1>7. PICK c \in C : \A o \in C : Len(o) <= Len(c)
  BY <1>6
<1>8. LongestCommonPrefix({s, t}) \in C
  BY <1>1, <1>7 DEF LongestCommonPrefix
<1>9. QED BY <1>2, <1>3, <1>8 DEF Common

(***************************************************************************)
(* The reader.                                                             *)
(***************************************************************************)
(* A node stands at token i: it and the comment behind it are in the text. *)
Stands(n) ==
  /\ n \in Node /\ n.first >= 1 /\ n.first <= n.last /\ n.last + n.trailing <= Len(text)
  /\ n.trailing = 1 => W(n.last + 1) = "note"

(* The token behind the nodes up to i. *)
Behind(i) == IF i = 0 THEN 1 ELSE nodes[i].last + nodes[i].trailing + 1

(* The nodes hold the tokens, each where the one before it ends. *)
Tiled == \A i \in 1 .. Len(nodes) : Stands(nodes[i]) /\ nodes[i].first = Behind(i - 1) /\ nodes[i].first >= i

(* Tokens and their words. *)
LEMMA TokenTyped ==
  ASSUME NEW i \in 1 .. Len(text), text \in Seq(Token)
  PROVE  text[i] \in Token /\ W(i) \in Word /\ text[i].breaks \in 0 .. 2 /\ text[i].margin \in Nat
<1>1. text[i] \in Token
  OBVIOUS
<1>2. QED BY <1>1 DEF Token, W

(* What find_keyword finds lies behind where it began, in the text.        *)
LEMMA KeywordFound ==
  ASSUME text \in Seq(Token), NEW i \in 1 .. Len(text), NEW w, FindKeyword(i, w) # 0
  PROVE  FindKeyword(i, w) \in i + 1 .. Len(text)
<1>1. PICK S : S = {j \in i + 1 .. Len(text) : Open(i + 1, j) = 0 /\ W(j) = w}
  OBVIOUS
<1>2. S \in SUBSET (Nat \ {0}) /\ S \subseteq i + 1 .. Len(text)
  BY <1>1
<1>3. FindKeyword(i, w) = First(S)
  BY <1>1 DEF FindKeyword
<1>4. First(S) \in S
  BY <1>2, <1>3, FirstIsLeast
<1>5. QED BY <1>2, <1>3, <1>4

(* ... and what find_semicolon finds, not before it.                       *)
LEMMA SemicolonFound ==
  ASSUME text \in Seq(Token), NEW i \in 1 .. Len(text), FindSemicolon(i) # 0
  PROVE  FindSemicolon(i) \in i .. Len(text)
<1>1. PICK S : S = {j \in i .. Len(text) : Open(i, j) = 0 /\ W(j) = ";"}
  OBVIOUS
<1>2. S \in SUBSET (Nat \ {0}) /\ S \subseteq i .. Len(text)
  <2>1. i \in Nat /\ i >= 1 /\ Len(text) \in Nat
    OBVIOUS
  <2>2. \A j \in i .. Len(text) : j \in Nat \ {0}
    BY <2>1
  <2>3. QED BY <1>1, <2>2
<1>3. FindSemicolon(i) = First(S)
  BY <1>1 DEF FindSemicolon
<1>4. First(S) \in S
  BY <1>2, <1>3, FirstIsLeast
<1>5. QED BY <1>2, <1>3, <1>4

(* Neither yields anything but a number. *)
LEMMA FoundNumber ==
  ASSUME text \in Seq(Token), NEW i \in 1 .. Len(text), NEW w
  PROVE  FindKeyword(i, w) \in Nat /\ FindSemicolon(i) \in Nat
<1>1. Len(text) \in Nat
  OBVIOUS
<1>2. FindKeyword(i, w) = 0 \/ FindKeyword(i, w) \in i + 1 .. Len(text)
  BY KeywordFound
<1>3. FindSemicolon(i) = 0 \/ FindSemicolon(i) \in i .. Len(text)
  BY SemicolonFound
<1>4. QED BY <1>1, <1>2, <1>3

(* A node ends where it begins or behind that, in the text.                *)
LEMMA EndFound ==
  ASSUME text \in Seq(Token), NEW i \in 1 .. Len(text)
  PROVE  EndOf(i) = 0 \/ EndOf(i) \in i .. Len(text)
<1>1. Len(text) \in Nat /\ i \in Nat /\ i >= 1 /\ i <= Len(text)
  OBVIOUS
<1>2. \A w : FindKeyword(i, w) = 0 \/ FindKeyword(i, w) \in i + 1 .. Len(text)
  BY KeywordFound
<1>3. FindSemicolon(i) = 0 \/ FindSemicolon(i) \in i .. Len(text)
  BY SemicolonFound
<1>4. CASE W(i) \in {"DECLARE", "BEGIN", "EXCEPTION", "ELSE", "LOOP", "label"}
  <2>1. EndOf(i) = i
    BY <1>4 DEF EndOf
  <2>2. QED BY <1>1, <2>1
<1>5. CASE W(i) \in {"IF", "ELSIF", "WHEN"}
  <2>1. EndOf(i) = FindKeyword(i, "THEN")
    BY <1>5 DEF EndOf
  <2>2. QED BY <1>1, <1>2, <2>1
<1>6. CASE W(i) \in {"WHILE", "FOR"}
  <2>1. EndOf(i) = FindKeyword(i, "LOOP")
    BY <1>6 DEF EndOf
  <2>2. QED BY <1>1, <1>2, <2>1
<1>7. CASE W(i) = "CASE"
  <2>1. PICK k : k = FindKeyword(i, "WHEN")
    OBVIOUS
  <2>2. EndOf(i) = IF k = 0 THEN 0 ELSE k - 1
    BY <1>7, <2>1 DEF EndOf
  <2>3. k = 0 \/ k \in i + 1 .. Len(text)
    BY <1>2, <2>1
  <2>4. QED BY <1>1, <2>2, <2>3
<1>8. CASE W(i) \notin {"DECLARE", "BEGIN", "EXCEPTION", "ELSE", "LOOP", "label", "IF", "ELSIF", "WHEN", "WHILE", "FOR", "CASE"}
  <2>1. CASE W(i) = "END" /\ \A j \in i + 1 .. Len(text) : W(j) = "note"
    <3>1. EndOf(i) = i
      BY <2>1 DEF EndOf
    <3>2. QED BY <1>1, <3>1
  <2>2. CASE ~ (W(i) = "END" /\ \A j \in i + 1 .. Len(text) : W(j) = "note")
    <3>1. EndOf(i) = FindSemicolon(i)
      BY <1>8, <2>2 DEF EndOf
    <3>2. QED BY <1>3, <3>1
  <2>3. QED BY <2>1, <2>2
<1>9. QED BY <1>4, <1>5, <1>6, <1>7, <1>8

(* Every token has a kind. *)
LEMMA KindKnown ==
  ASSUME NEW i
  PROVE  KindOf(i) \in Kind
<1>1. StatementKind(i) \in Kind
  BY DEF StatementKind, Kind
<1>2. QED BY <1>1 DEF KindOf, Kind

(* A comment behind a node is the token behind it. *)
LEMMA TrailingFound ==
  ASSUME text \in Seq(Token), NEW j \in 1 .. Len(text)
  PROVE  Trailing(j) \in {0, 1} /\ j + Trailing(j) <= Len(text) /\ (Trailing(j) = 1 => W(j + 1) = "note")
<1>1. Len(text) \in Nat /\ j \in Nat /\ j <= Len(text)
  OBVIOUS
<1>2. CASE Trailing(j) = 1
  <2>1. j < Len(text) /\ W(j + 1) = "note"
    BY <1>2 DEF Trailing
  <2>2. QED BY <1>1, <1>2, <2>1
<1>3. CASE Trailing(j) # 1
  <2>1. Trailing(j) = 0
    BY <1>3 DEF Trailing
  <2>2. QED BY <1>1, <1>3, <2>1
<1>4. QED BY <1>2, <1>3

(* A node read at i stands there. *)
LEMMA NodeStands ==
  ASSUME text \in Seq(Token), NEW i \in 1 .. Len(text), NEW j \in i .. Len(text), NEW kind \in Kind,
         NEW trailing \in {0, 1}, j + trailing <= Len(text), trailing = 1 => W(j + 1) = "note"
  PROVE  LET n == NodeAt(kind, i, j, trailing)
         IN  Stands(n) /\ n.first = i /\ n.last = j /\ n.trailing = trailing /\ n.into = 0 /\ n.past = 0
<1>1. PICK n : n = NodeAt(kind, i, j, trailing)
  OBVIOUS
<1>2. Len(text) \in Nat /\ i \in Nat /\ j \in Nat /\ i >= 1 /\ i <= j
  OBVIOUS
<1>3. text[i].breaks \in 0 .. 2
  BY TokenTyped
<1>4. /\ n = [kind |-> kind, first |-> i, last |-> j, trailing |-> trailing,
              blank |-> text[i].breaks >= 2, into |-> 0, past |-> 0]
  BY <1>1 DEF NodeAt
<1>5. (text[i].breaks >= 2) \in BOOLEAN
  OBVIOUS
<1>6. n \in Node
  BY <1>2, <1>4, <1>5 DEF Node
<1>7. n.first = i /\ n.last = j /\ n.trailing = trailing /\ n.into = 0 /\ n.past = 0
  BY <1>4
<1>8. QED BY <1>1, <1>2, <1>6, <1>7 DEF Stands

(***************************************************************************)
(* Preferred spellings.                                                    *)
(***************************************************************************)
Speller == [w \in Word |-> Spelled(w)]

(* Words are spelled in words. *)
LEMMA SpellerRewrites == Rewrites(Speller, Word)
<1>1. ASSUME NEW w \in Word PROVE Spelled(w) \in Seq(Word)
  <2>1. CASE w = "varchar"
    <3>1. "character" \in Word /\ "varying" \in Word
      BY DEF Word, Expression
    <3>2. <<"character", "varying">> \in Seq(Word)
      BY <3>1
    <3>3. QED BY <2>1, <3>2 DEF Spelled
  <2>2. CASE w # "varchar"
    <3>1. <<w>> \in Seq(Word)
      OBVIOUS
    <3>2. QED BY <2>2, <3>1 DEF Spelled
  <2>3. QED BY <2>1, <2>2
<1>2. QED BY <1>1 DEF Rewrites, Speller

(* Respelling is replacing word by word. *)
LEMMA RespelledSpreads ==
  ASSUME NEW ws \in Seq(Word)
  PROVE  Respelled(ws) = Spread(Speller, ws)
<1>1. \A i \in 1 .. Len(ws) : ws[i] \in Word
  OBVIOUS
<1>2. [i \in DOMAIN ws |-> Spelled(ws[i])] = [i \in 1 .. Len(ws) |-> Speller[ws[i]]]
  BY <1>1 DEF Speller
<1>3. QED BY <1>2 DEF Respelled, Spread, Replacements

(* Words respelled are words. *)
LEMMA RespelledTyped ==
  ASSUME NEW ws \in Seq(Word)
  PROVE  Respelled(ws) \in Seq(Word)
BY SpellerRewrites, RespelledSpreads, SpreadTyped

(* Respelling goes through concatenation. *)
LEMMA RespelledConcat ==
  ASSUME NEW a \in Seq(Word), NEW b \in Seq(Word)
  PROVE  a \o b \in Seq(Word) /\ Respelled(a \o b) = Respelled(a) \o Respelled(b)
<1>1. PICK c : c = a \o b
  OBVIOUS
<1>2. c \in Seq(Word)
  BY <1>1
<1>3. Distributes(Speller, Word)
  BY SpellerRewrites, SpreadConcat
<1>4. Spread(Speller, a \o b) = Spread(Speller, a) \o Spread(Speller, b)
  BY <1>3 DEF Distributes
<1>5. Respelled(c) = Spread(Speller, c) /\ Respelled(a) = Spread(Speller, a) /\ Respelled(b) = Spread(Speller, b)
  BY <1>2, RespelledSpreads
<1>6. QED BY <1>1, <1>2, <1>4, <1>5

(* What is respelled stays as it is. *)
LEMMA RespelledTwice ==
  ASSUME NEW ws \in Seq(Word)
  PROVE  Respelled(Respelled(ws)) = Respelled(ws)
<1>1. Composes(Speller, Speller, Speller, Word)
  <2>1. ASSUME NEW w \in Word PROVE Speller[w] = Spread(Speller, Speller[w])
    <3>1. CASE w = "varchar"
      <4>1. PICK c, v : c = "character" /\ v = "varying"
        OBVIOUS
      <4>2. c \in Word /\ v \in Word
        BY <4>1 DEF Word, Expression
      <4>3. Speller[w] = <<c, v>>
        BY <3>1, <4>1 DEF Speller, Spelled
      <4>4. Speller[c] = <<c>> /\ Speller[v] = <<v>>
        BY <4>1, <4>2 DEF Speller, Spelled
      <4>5. Spread(Speller, <<c, v>>) = Speller[c] \o Speller[v]
        BY <4>2, SpellerRewrites, SpreadPair
      <4>6. <<c>> \o <<v>> = <<c, v>>
        BY <4>2, PairJoined
      <4>7. QED BY <4>3, <4>4, <4>5, <4>6
    <3>2. CASE w # "varchar"
      <4>1. Speller[w] = <<w>>
        BY <3>2 DEF Speller, Spelled
      <4>2. Spread(Speller, <<w>>) = Speller[w]
        BY SpellerRewrites, SpreadOne
      <4>3. QED BY <4>1, <4>2
    <3>3. QED BY <3>1, <3>2
  <2>2. QED BY <2>1 DEF Composes
<1>2. Spread(Speller, Spread(Speller, ws)) = Spread(Speller, ws)
  BY <1>1, SpellerRewrites, SpreadTwice
<1>3. PICK r : r = Spread(Speller, ws)
  OBVIOUS
<1>4. r \in Seq(Word)
  BY <1>3, SpellerRewrites, SpreadTyped
<1>5. Respelled(ws) = r /\ Respelled(r) = Spread(Speller, r)
  BY <1>3, <1>4, RespelledSpreads
<1>6. QED BY <1>2, <1>3, <1>5

(***************************************************************************)
(* Stretches of words.                                                     *)
(***************************************************************************)
(* The words from one token to another are words, one for each token. *)
LEMMA WordsTyped ==
  ASSUME text \in Seq(Token), NEW i \in Nat, i >= 1, NEW j \in 0 .. Len(text)
  PROVE  /\ Words(i, j) \in Seq(Word)
         /\ i <= j + 1 => Len(Words(i, j)) = j - i + 1
         /\ \A k \in 1 .. j - i + 1 : Words(i, j)[k] = W(i + k - 1)
<1>1. Len(text) \in Nat /\ j \in Nat /\ j <= Len(text)
  OBVIOUS
<1>2. ASSUME NEW k \in 1 .. j - i + 1 PROVE W(i + k - 1) \in Word
  <2>1. i + k - 1 \in 1 .. Len(text)
    BY <1>1
  <2>2. QED BY <2>1, TokenTyped
<1>3. CASE i <= j + 1
  <2>1. j - i + 1 \in Nat
    BY <1>1, <1>3
  <2>2. PICK ws, m : ws = Words(i, j) /\ m = j - i + 1
    OBVIOUS
  <2>3. ws = [k \in 1 .. m |-> W(i + k - 1)] /\ m \in Nat
    BY <2>1, <2>2 DEF Words
  <2>4. ws \in Seq(Word) /\ Len(ws) = m /\ \A k \in 1 .. m : ws[k] = W(i + k - 1)
    BY <1>2, <2>2, <2>3
  <2>5. QED BY <2>2, <2>4
<1>4. CASE ~ (i <= j + 1)
  <2>1. 1 .. j - i + 1 = {} /\ 1 .. j - i + 1 = 1 .. 0
    BY <1>1, <1>4
  <2>2. Words(i, j) \in [1 .. 0 -> Word]
    BY <1>2, <2>1 DEF Words
  <2>3. Words(i, j) \in Seq(Word)
    BY <2>2
  <2>4. QED BY <1>4, <2>1, <2>3
<1>5. QED BY <1>3, <1>4

(* A stretch is its first part with the rest behind it. *)
LEMMA WordsJoin ==
  ASSUME text \in Seq(Token), NEW i \in Nat, i >= 1, NEW j \in 0 .. Len(text), NEW k \in 0 .. Len(text),
         i <= k + 1, k <= j
  PROVE  Words(i, j) = Words(i, k) \o Words(k + 1, j)
<1>1. Len(text) \in Nat /\ j \in Nat /\ k \in Nat /\ k + 1 \in Nat /\ k + 1 >= 1 /\ i <= j + 1 /\ k + 1 <= j + 1
  OBVIOUS
<1>2. PICK a, b, c : a = Words(i, k) /\ b = Words(k + 1, j) /\ c = Words(i, j)
  OBVIOUS
<1>3. a \in Seq(Word) /\ Len(a) = k - i + 1 /\ \A m \in 1 .. k - i + 1 : a[m] = W(i + m - 1)
  BY <1>1, <1>2, WordsTyped
<1>4. b \in Seq(Word) /\ Len(b) = j - (k + 1) + 1 /\ \A m \in 1 .. j - (k + 1) + 1 : b[m] = W(k + 1 + m - 1)
  BY <1>1, <1>2, WordsTyped
<1>5. c \in Seq(Word) /\ Len(c) = j - i + 1 /\ \A m \in 1 .. j - i + 1 : c[m] = W(i + m - 1)
  BY <1>1, <1>2, WordsTyped
<1>6. Joins(c, a, b)
  <2>1. Len(c) = Len(a) + Len(b)
    BY <1>1, <1>3, <1>4, <1>5
  <2>2. ASSUME NEW m \in 1 .. Len(a) PROVE c[m] = a[m]
    <3>1. m \in 1 .. k - i + 1 /\ m \in 1 .. j - i + 1
      BY <1>1, <1>3
    <3>2. QED BY <1>3, <1>5, <3>1
  <2>3. ASSUME NEW m \in 1 .. Len(b) PROVE c[Len(a) + m] = b[m]
    <3>1. PICK q : q = Len(a) + m
      OBVIOUS
    <3>2. m \in 1 .. j - (k + 1) + 1 /\ q \in 1 .. j - i + 1 /\ i + q - 1 = k + 1 + m - 1
      BY <1>1, <1>3, <1>4, <3>1
    <3>3. c[q] = W(i + q - 1) /\ b[m] = W(k + 1 + m - 1)
      BY <1>4, <1>5, <3>2
    <3>4. QED BY <3>1, <3>2, <3>3
  <2>4. QED BY <2>1, <2>2, <2>3 DEF Joins
<1>7. c = a \o b
  BY <1>3, <1>4, <1>5, <1>6, JoinedEqual
<1>8. QED BY <1>2, <1>7

(* The two parts of a text, cut where they meet. *)
LEMMA Halves ==
  ASSUME NEW S, NEW a \in Seq(S), NEW b \in Seq(S)
  PROVE  SubSeq(a \o b, 1, Len(a)) = a /\ SubSeq(a \o b, Len(a) + 1, Len(a \o b)) = b
<1>1. PICK c, n, m : c = a \o b /\ n = Len(a) /\ m = Len(b)
  OBVIOUS
<1>2. /\ c \in Seq(S) /\ n \in Nat /\ m \in Nat /\ Len(c) = n + m
      /\ \A i \in 1 .. n : c[i] = a[i]
      /\ \A i \in 1 .. m : c[n + i] = b[i]
  BY <1>1, Joined DEF Joins
<1>3. HeldAt(c, 0, a) /\ HeldAt(c, n, b)
  <2>1. 0 \in Nat /\ 0 + n <= n + m /\ \A i \in 1 .. n : c[0 + i] = a[i]
    BY <1>2
  <2>2. n + m <= n + m
    BY <1>2
  <2>3. QED BY <1>1, <1>2, <2>1, <2>2 DEF HeldAt
<1>4. SubSeq(c, 0 + 1, 0 + Len(a)) = a /\ SubSeq(c, n + 1, n + Len(b)) = b
  BY <1>2, <1>3, Cut
<1>5. 0 + 1 = 1 /\ 0 + Len(a) = n
  BY <1>1, <1>2
<1>6. QED BY <1>1, <1>2, <1>4, <1>5

(***************************************************************************)
(* Lines.                                                                  *)
(***************************************************************************)
(* The INTO clause of a node lies in the node. *)
Within(n) == n.into = 0 \/ (n.first <= n.into /\ n.into <= n.past /\ n.past <= n.last)

(* The places of a node are places of the text. *)
LEMMA NodePlaces ==
  ASSUME text \in Seq(Token), NEW n, Stands(n)
  PROVE  /\ n.first \in Nat /\ n.last \in Nat /\ n.into \in Nat /\ n.past \in Nat /\ n.trailing \in {0, 1} /\ Len(text) \in Nat
         /\ n.first >= 1 /\ n.first <= n.last /\ n.last <= Len(text) /\ n.last + n.trailing <= Len(text)
         /\ n.kind \in Kind /\ n.blank \in BOOLEAN
<1>1. n \in Node /\ n.first >= 1 /\ n.first <= n.last /\ n.last + n.trailing <= Len(text)
  BY DEF Stands
<1>2. /\ n.first \in Nat /\ n.last \in Nat /\ n.into \in Nat /\ n.past \in Nat /\ n.trailing \in {0, 1}
      /\ n.kind \in Kind /\ n.blank \in BOOLEAN
  BY <1>1 DEF Node
<1>3. Len(text) \in Nat
  OBVIOUS
<1>4. n.last <= Len(text)
  BY <1>1, <1>2, <1>3
<1>5. QED BY <1>1, <1>2, <1>3, <1>4

(* A clause put back: what was before it, the clause, what was behind it.  *)
LEMMA ClausePutBack ==
  ASSUME text \in Seq(Token), NEW n, Stands(n), Within(n), n.into # 0
  PROVE  Restored(n) \in Seq(Word) /\ Respelled(Restored(n)) = Respelled(Words(n.first, n.last))
<1>1. PICK f, l, i, p : f = n.first /\ l = n.last /\ i = n.into /\ p = n.past
  OBVIOUS
<1>2. /\ f \in Nat /\ l \in Nat /\ i \in Nat /\ p \in Nat /\ Len(text) \in Nat
      /\ f >= 1 /\ l <= Len(text) /\ f <= i /\ i <= p /\ p <= l
  BY <1>1, NodePlaces DEF Within
<1>3. PICK before, clause, after : before = Words(f, i - 1) /\ clause = Words(i, p - 1) /\ after = Words(p, l)
  OBVIOUS
<1>4. i - 1 \in 0 .. Len(text) /\ p - 1 \in 0 .. Len(text) /\ l \in 0 .. Len(text) /\ p >= 1 /\ i >= 1
  BY <1>2
<1>5. before \in Seq(Word) /\ clause \in Seq(Word) /\ after \in Seq(Word)
  BY <1>2, <1>3, <1>4, WordsTyped
<1>6. Words(f, l) = before \o (clause \o after)
  <2>1. (i - 1) + 1 = i /\ (p - 1) + 1 = p /\ f <= (i - 1) + 1 /\ i - 1 <= l /\ i <= (p - 1) + 1 /\ p - 1 <= l
    BY <1>2
  <2>2. Words(f, l) = Words(f, i - 1) \o Words((i - 1) + 1, l)
    BY <1>2, <1>4, <2>1, WordsJoin
  <2>3. Words(i, l) = Words(i, p - 1) \o Words((p - 1) + 1, l)
    BY <1>2, <1>4, <2>1, WordsJoin
  <2>4. QED BY <1>3, <2>1, <2>2, <2>3
<1>7. PICK a, b, c : a = Respelled(before) /\ b = Respelled(after) /\ c = Respelled(clause)
  OBVIOUS
<1>8. a \in Seq(Word) /\ b \in Seq(Word) /\ c \in Seq(Word)
  BY <1>5, <1>7, RespelledTyped
<1>9. Respelled(before \o after) = a \o b
  BY <1>5, <1>7, RespelledConcat
<1>10. Restored(n) = (a \o clause) \o b
  <2>1. PICK ws : ws = Respelled(before \o after)
    OBVIOUS
  <2>2. Restored(n) = SubSeq(ws, 1, Boundary(before)) \o clause \o From(ws, Boundary(before) + 1)
    BY <1>1, <1>3, <2>1 DEF Restored
  <2>3. Boundary(before) = Len(a)
    BY <1>7 DEF Boundary
  <2>4. SubSeq(ws, 1, Len(a)) = a /\ SubSeq(ws, Len(a) + 1, Len(ws)) = b
    BY <1>8, <1>9, <2>1, Halves
  <2>5. From(ws, Len(a) + 1) = b
    BY <2>4 DEF From
  <2>6. QED BY <2>2, <2>3, <2>4, <2>5
<1>11. PICK ac : ac = a \o clause
  OBVIOUS
<1>12. ac \in Seq(Word) /\ Respelled(ac) = Respelled(a) \o c
  BY <1>5, <1>7, <1>8, <1>11, RespelledConcat
<1>13. Respelled(a) = a /\ Respelled(b) = b
  BY <1>5, <1>7, RespelledTwice
<1>14. Restored(n) \in Seq(Word) /\ Respelled(Restored(n)) = (a \o c) \o b
  <2>1. ac \o b \in Seq(Word) /\ Respelled(ac \o b) = Respelled(ac) \o Respelled(b)
    BY <1>8, <1>12, RespelledConcat
  <2>2. QED BY <1>10, <1>11, <1>12, <1>13, <2>1
<1>15. Respelled(Words(f, l)) = a \o (c \o b)
  <2>1. PICK ca : ca = clause \o after
    OBVIOUS
  <2>2. ca \in Seq(Word) /\ Respelled(ca) = c \o b
    BY <1>5, <1>7, <2>1, RespelledConcat
  <2>3. Respelled(before \o ca) = a \o Respelled(ca)
    BY <1>5, <1>7, <2>2, RespelledConcat
  <2>4. QED BY <1>6, <2>1, <2>2, <2>3
<1>16. (a \o c) \o b = a \o (c \o b)
  BY <1>8, ConcatAssociative
<1>17. QED BY <1>1, <1>14, <1>15, <1>16

(* The words of a line are those of its node and the comment behind it.    *)
LEMMA LineHoldsNode ==
  ASSUME text \in Seq(Token), NEW n, Stands(n), Within(n), NEW indent
  PROVE  LET l == LineOf(n, indent)
         IN  /\ l.words \in Seq(Word)
             /\ Respelled(l.words) = Respelled(Words(n.first, n.last + n.trailing))
<1>1. PICK f, l, t, own : f = n.first /\ l = n.last /\ t = n.trailing /\ own = Words(f, l)
  OBVIOUS
<1>2. /\ f \in Nat /\ l \in Nat /\ t \in {0, 1} /\ Len(text) \in Nat
      /\ f >= 1 /\ f <= l /\ l <= Len(text) /\ l + t <= Len(text)
  BY <1>1, NodePlaces
<1>3. own \in Seq(Word)
  <2>1. l \in 0 .. Len(text)
    BY <1>2
  <2>2. QED BY <1>1, <1>2, <2>1, WordsTyped
<1>4. PICK x : x = (IF Preserved(n) THEN own ELSE Rendered(n))
  OBVIOUS
<1>5. x \in Seq(Word) /\ Respelled(x) = Respelled(own)
  <2>1. CASE Preserved(n)
    BY <1>3, <1>4, <2>1
  <2>2. CASE ~ Preserved(n) /\ n.into > 0
    <3>1. x = Restored(n)
      BY <1>4, <2>2 DEF Rendered
    <3>2. n.into \in Nat
      BY NodePlaces
    <3>3. n.into # 0
      BY <2>2, <3>2
    <3>4. QED BY <1>1, <3>1, <3>3, ClausePutBack
  <2>3. CASE ~ Preserved(n) /\ ~ (n.into > 0)
    <3>1. x = Respelled(own)
      BY <1>1, <1>4, <2>3 DEF Rendered
    <3>2. QED BY <1>3, <3>1, RespelledTyped, RespelledTwice
  <2>4. QED BY <2>1, <2>2, <2>3
<1>6. PICK ws : ws = LineOf(n, indent).words
  OBVIOUS
<1>7. ws = x \o Comment(n)
  BY <1>1, <1>4, <1>6 DEF LineOf
<1>8. CASE t = 1
  <2>1. Comment(n) = <<"note">> /\ W(l + 1) = "note"
    BY <1>1, <1>8 DEF Comment, Stands
  <2>2. PICK m : m = Words(l + 1, l + 1)
    OBVIOUS
  <2>3. l + 1 \in 0 .. Len(text) /\ l + 1 \in Nat /\ l + 1 >= 1 /\ f <= l + 1 /\ l <= l + 1 /\ l \in 0 .. Len(text)
    BY <1>2, <1>8
  <2>4. m \in Seq(Word)
    BY <2>2, <2>3, WordsTyped
  <2>5. m = <<"note">>
    <3>1. m = [k \in 1 .. (l + 1) - (l + 1) + 1 |-> W((l + 1) + k - 1)]
      BY <2>2 DEF Words
    <3>2. (l + 1) - (l + 1) + 1 = 1 /\ \A k \in 1 .. 1 : (l + 1) + k - 1 = l + 1
      BY <1>2
    <3>3. m = [k \in 1 .. 1 |-> W(l + 1)]
      BY <3>1, <3>2
    <3>4. QED BY <2>1, <3>3
  <2>6. Words(f, l + 1) = own \o m
    BY <1>1, <1>2, <2>2, <2>3, WordsJoin
  <2>7. Respelled(own \o m) = Respelled(own) \o Respelled(m)
    BY <1>3, <2>4, RespelledConcat
  <2>8. ws \in Seq(Word) /\ Respelled(ws) = Respelled(x) \o Respelled(m)
    BY <1>5, <1>7, <2>1, <2>4, <2>5, RespelledConcat
  <2>9. QED BY <1>1, <1>5, <1>6, <1>8, <2>6, <2>7, <2>8
<1>9. CASE t = 0
  <2>1. Comment(n) = <<>>
    BY <1>1, <1>9 DEF Comment
  <2>2. ws = x
    BY <1>5, <1>7, <2>1
  <2>3. l + t = l
    BY <1>2, <1>9
  <2>4. QED BY <1>1, <1>5, <1>6, <2>2, <2>3
<1>10. QED BY <1>2, <1>8, <1>9

(* A line has its type. *)
LEMMA LineTyped ==
  ASSUME text \in Seq(Token), NEW n, Stands(n), Within(n), NEW indent \in Nat
  PROVE  LineOf(n, indent) \in Line
<1>1. n.first \in 1 .. Len(text) /\ n.blank \in BOOLEAN
  BY NodePlaces
<1>2. PICK ws, at_, blank, verbatim : 
        /\ ws = LineOf(n, indent).words /\ at_ = (IF Preserved(n) THEN VerbatimIndent(n, indent) ELSE indent)
        /\ blank = (lines # <<>> /\ (n.blank \/ SeparateHandler(n))) /\ verbatim = Preserved(n)
  OBVIOUS
<1>3. ws \in Seq(Word)
  BY <1>2, LineHoldsNode
<1>4. at_ \in Nat
  <2>1. text[n.first].margin \in Nat
    BY <1>1, TokenTyped
  <2>2. QED BY <1>2, <2>1 DEF VerbatimIndent
<1>5. blank \in BOOLEAN /\ verbatim \in BOOLEAN
  <2>1. (lines # <<>> /\ (n.blank \/ SeparateHandler(n))) \in BOOLEAN
    OBVIOUS
  <2>2. Preserved(n) \in BOOLEAN
    BY DEF Preserved
  <2>3. QED BY <1>2, <2>1, <2>2
<1>6. LineOf(n, indent) = [words |-> ws, indent |-> at_, blank |-> blank, verbatim |-> verbatim]
  BY <1>2 DEF LineOf
<1>7. QED BY <1>3, <1>4, <1>5, <1>6 DEF Line

(***************************************************************************)
(* Frames.                                                                 *)
(***************************************************************************)
(* A frame on top is in a stack that has one below it. *)
LEMMA TopFrame ==
  ASSUME NEW fs \in Seq(Frame), Top(fs) \in Frame
  PROVE  Front(fs) \in Seq(Frame) /\ Len(fs) - 1 \in Nat /\ Len(fs) \in Nat
<1>1. fs # <<>>
  BY DEF Top, Frame
<1>2. QED BY <1>1 DEF Front

(* Popping leaves frames. *)
LEMMA PoppedTyped ==
  ASSUME NEW fs \in Seq(Frame), NEW f \in Frame
  PROVE  PopOptional(fs, f) \in Seq(Frame)
<1>1. CASE Top(fs) = f
  BY <1>1, TopFrame DEF PopOptional
<1>2. CASE Top(fs) # f
  BY <1>2 DEF PopOptional
<1>3. QED BY <1>1, <1>2

(* Whatever the node, its place is an indentation and a stack. *)
LEMMA NodePlaced ==
  ASSUME NEW kind \in Kind, NEW fs \in Seq(Frame), inDeclare \in BOOLEAN, LayoutNode(kind, fs).ok
  PROVE  LayoutNode(kind, fs).indent \in Nat /\ LayoutNode(kind, fs).frames \in Seq(Frame)
<1> USE DEF PlacedAt, Checked, Unbalanced
<1>1. Len(fs) \in Nat /\ Inner(fs) \in Nat
  BY DEF Inner
<1>2. PICK arm, handler, either :
        /\ arm = PopOptional(fs, "CaseBranch") /\ handler = PopOptional(fs, "ExceptionBranch")
        /\ either = PopOptional(arm, "ExceptionBranch")
  OBVIOUS
<1>3. arm \in Seq(Frame) /\ handler \in Seq(Frame) /\ either \in Seq(Frame)
  <2>1. "CaseBranch" \in Frame /\ "ExceptionBranch" \in Frame
    BY DEF Frame
  <2>2. arm \in Seq(Frame) /\ handler \in Seq(Frame)
    BY <1>2, <2>1, PoppedTyped
  <2>3. QED BY <1>2, <2>1, <2>2, PoppedTyped
<1>4. \A f \in Frame, gs \in Seq(Frame) : Append(gs, f) \in Seq(Frame)
  OBVIOUS
<1>5. \A gs \in Seq(Frame) : Top(gs) \in Frame => Front(gs) \in Seq(Frame) /\ Len(gs) - 1 \in Nat
  BY TopFrame
<1>6. {"Begin", "If", "Loop", "Case", "CaseBranch", "Exception", "ExceptionBranch"} = Frame
  BY DEF Frame
<1>0. DOMAIN Opened = {"EndIf", "EndLoop"}
  BY DEF Opened
<1>7. PICK p : p = LayoutNode(kind, fs)
  OBVIOUS
<1>8. CASE kind = "Begin"
  <2>1. p = PlacedAt(Len(fs), Append(fs, "Begin"))
    BY <1>0, <1>7, <1>8 DEF LayoutNode
  <2>2. QED BY <1>1, <1>4, <1>6, <1>7, <2>1
<1>9. CASE kind \in {"Declare", "Label"}
  <2>1. p = PlacedAt(Len(fs), fs)
    BY <1>0, <1>7, <1>9 DEF LayoutNode
  <2>2. QED BY <1>1, <1>7, <2>1
<1>10. CASE kind \in {"If", "Loop", "Case"}
  <2>1. p = PlacedAt(Inner(fs), Append(fs, kind))
    BY <1>0, <1>7, <1>10 DEF LayoutNode
  <2>2. kind \in Frame
    BY <1>10 DEF Frame
  <2>3. Append(fs, kind) \in Seq(Frame)
    BY <1>4, <2>2
  <2>4. QED BY <1>1, <1>7, <2>1, <2>3
<1>11. CASE kind = "Elsif"
  <2>1. p = Checked(Top(fs) = "If", PlacedAt(Len(fs) - 1, fs))
    BY <1>0, <1>7, <1>11 DEF LayoutNode
  <2>2. Top(fs) = "If"
    BY <1>7, <2>1
  <2>3. QED BY <1>5, <1>6, <1>7, <2>1, <2>2
<1>12. CASE kind = "Else"
  <2>1. p = Checked(Top(fs) \in {"If", "CaseBranch"}, PlacedAt(Len(fs) - 1, fs))
    BY <1>0, <1>7, <1>12 DEF LayoutNode
  <2>2. Top(fs) \in {"If", "CaseBranch"}
    BY <1>7, <2>1
  <2>3. QED BY <1>5, <1>6, <1>7, <2>1, <2>2
<1>13. CASE kind \in {"EndIf", "EndLoop"}
  <2>1. kind \in DOMAIN Opened /\ Opened[kind] \in Frame
    BY <1>13 DEF Opened, Frame
  <2>2. p = Checked(Top(fs) = Opened[kind], PlacedAt(Len(fs) - 1, Front(fs)))
    BY <1>7, <1>13, <2>1 DEF LayoutNode
  <2>3. Top(fs) = Opened[kind]
    BY <1>7, <2>2
  <2>4. QED BY <1>5, <1>7, <2>1, <2>2, <2>3
<1>14. CASE kind = "When"
  <2>1. kind \notin DOMAIN Opened
    BY <1>14 DEF Opened
  <2>2. p = Checked(Top(either) \in DOMAIN Branch, PlacedAt(Len(either), Append(either, Branch[Top(either)])))
    BY <1>2, <1>7, <1>14, <2>1 DEF LayoutNode
  <2>3. Top(either) \in DOMAIN Branch
    BY <1>7, <2>2
  <2>4. Branch[Top(either)] \in Frame
    BY <2>3 DEF Branch, Frame
  <2>5. Append(either, Branch[Top(either)]) \in Seq(Frame) /\ Len(either) \in Nat
    BY <1>3, <1>4, <2>4
  <2>6. QED BY <1>7, <2>2, <2>3, <2>5
<1>15. CASE kind = "EndCase"
  <2>1. kind \notin DOMAIN Opened
    BY <1>15 DEF Opened
  <2>2. p = Checked(Top(arm) = "Case", PlacedAt(Len(arm) - 1, Front(arm)))
    BY <1>2, <1>7, <1>15, <2>1 DEF LayoutNode
  <2>3. Top(arm) = "Case"
    BY <1>7, <2>2
  <2>4. QED BY <1>3, <1>5, <1>6, <1>7, <2>2, <2>3
<1>16. CASE kind = "Exception"
  <2>1. kind \notin DOMAIN Opened
    BY <1>16 DEF Opened
  <2>2. p = Checked(Top(handler) = "Begin", PlacedAt(Len(handler) - 1, Append(Front(handler), "Exception")))
    BY <1>2, <1>7, <1>16, <2>1 DEF LayoutNode
  <2>3. Top(handler) = "Begin"
    BY <1>7, <2>2
  <2>4. Front(handler) \in Seq(Frame) /\ Len(handler) - 1 \in Nat
    BY <1>3, <1>5, <1>6, <2>3
  <2>5. Append(Front(handler), "Exception") \in Seq(Frame)
    BY <1>4, <1>6, <2>4
  <2>6. QED BY <1>7, <2>2, <2>3, <2>4, <2>5
<1>17. CASE kind = "EndBlock"
  <2>1. kind \notin DOMAIN Opened
    BY <1>17 DEF Opened
  <2>2. p = Checked(Top(handler) \in {"Begin", "Exception"}, PlacedAt(Len(handler) - 1, Front(handler)))
    BY <1>2, <1>7, <1>17, <2>1 DEF LayoutNode
  <2>3. Top(handler) \in {"Begin", "Exception"}
    BY <1>7, <2>2
  <2>4. QED BY <1>3, <1>5, <1>6, <1>7, <2>2, <2>3
<1>18. CASE kind \notin {"Begin", "Declare", "Label", "If", "Loop", "Case", "Elsif", "Else", "EndIf", "EndLoop", "When",
                         "EndCase", "Exception", "EndBlock"}
  <2>1. kind \notin DOMAIN Opened
    BY <1>18 DEF Opened
  <2>2. p = PlacedAt(Inner(fs), fs)
    BY <1>7, <1>18, <2>1 DEF LayoutNode
  <2>3. QED BY <1>1, <1>7, <2>2
<1>19. QED
  BY <1>8, <1>9, <1>10, <1>11, <1>12, <1>13, <1>14, <1>15, <1>16, <1>17, <1>18

(***************************************************************************)
(* What the parser reported, and the leaves it is bound to.                *)
(***************************************************************************)
Reports == [query : Seq(Word), into : BOOLEAN, strict : BOOLEAN]

(* A report of a unit has its type. *)
LEMMA ReportedTyped ==
  ASSUME NEW u \in Unit
  PROVE  Reported(u) \in Reports
<1>1. u.before \in Seq(Word) /\ u.clause \in Seq(Word) /\ u.after \in Seq(Word)
  BY DEF Unit
<1>2. PICK ws : ws = IF pass = 1 THEN u.before \o u.after ELSE Respelled(u.before) \o Respelled(u.after)
  OBVIOUS
<1>3. ws \in Seq(Word)
  <2>1. Respelled(u.before) \in Seq(Word) /\ Respelled(u.after) \in Seq(Word)
    BY <1>1, RespelledTyped
  <2>2. \A a, b \in Seq(Word) : a \o b \in Seq(Word)
    OBVIOUS
  <2>3. QED BY <1>1, <1>2, <2>1, <2>2
<1>4. PICK q, i, s : q = Without(ws, {";"}) /\ i = (u.clause # <<>>) /\ s = (Len(u.clause) > 1 /\ u.clause[2] = "STRICT")
  OBVIOUS
<1>5. q \in Seq(Word)
  BY <1>3, <1>4, WithoutTyped
<1>6. (u.clause # <<>>) \in BOOLEAN /\ (Len(u.clause) > 1 /\ u.clause[2] = "STRICT") \in BOOLEAN
  OBVIOUS
<1>7. i \in BOOLEAN /\ s \in BOOLEAN
  BY <1>4, <1>6
<1>8. Reported(u) = [query |-> q, into |-> i, strict |-> s]
  BY <1>2, <1>4 DEF Reported
<1>9. QED BY <1>5, <1>7, <1>8 DEF Reports

(* Whatever the order of the reports, they are reports. *)
LEMMA PermutedTyped ==
  ASSUME units \in Seq(Unit), NEW specs \in Permuted
  PROVE  specs \in Seq(Reports)
<1>1. PICK r : r = [i \in DOMAIN units |-> Reported(units[i])]
  OBVIOUS
<1>2. r \in Seq(Reports)
  <2>1. \A i \in 1 .. Len(units) : Reported(units[i]) \in Reports
    BY ReportedTyped
  <2>2. QED BY <1>1, <2>1
<1>3. PICK S : S = Specs
  OBVIOUS
<1>4. S \in Seq(Reports)
  BY <1>1, <1>2, <1>3, PickedTyped DEF Specs
<1>5. PICK p \in Bijection(DOMAIN S, DOMAIN S) : specs = [i \in DOMAIN S |-> S[p[i]]]
  BY <1>3 DEF Permuted
<1>6. p \in [DOMAIN S -> DOMAIN S]
  BY <1>5 DEF Bijection, Injection
<1>7. \A i \in DOMAIN S : S[p[i]] \in Reports
  BY <1>4, <1>6
<1>8. DOMAIN S = 1 .. Len(S) /\ Len(S) \in Nat
  BY <1>4
<1>9. specs \in [1 .. Len(S) -> Reports]
  BY <1>5, <1>7, <1>8
<1>10. QED BY <1>8, <1>9

(* The end of a text, turned round, is a text. *)
LEMMA TailTyped ==
  ASSUME NEW S, NEW s \in Seq(S), NEW i \in Nat, i >= 1
  PROVE  Reverse(From(s, i)) \in Seq(S)
<1>1. PICK t : t = From(s, i)
  OBVIOUS
<1>2. t \in Seq(S)
  BY <1>1 DEF From
<1>3. PICK n : n = Len(t)
  OBVIOUS
<1>4. n \in Nat /\ \A k \in 1 .. n : t[k] \in S
  BY <1>2, <1>3
<1>5. Reverse(t) = [k \in 1 .. n |-> t[(n - k) + 1]]
  BY <1>3 DEF Reverse
<1>6. \A k \in 1 .. n : (n - k) + 1 \in 1 .. n
  BY <1>4
<1>7. Reverse(t) \in [1 .. n -> S]
  BY <1>4, <1>5, <1>6
<1>8. QED BY <1>1, <1>4, <1>7

(* Where in its leaf a bound clause begins, and that what follows it in    *)
(* the query is further on.                                                *)
LEMMA ClausePlace ==
  ASSUME NEW ws \in Seq(Word), NEW spec \in Reports, Binds(ws, spec), spec.into
  PROVE  LET p == IntoAt(ws, spec)
         IN  p + 1 \in 1 .. Len(ws) /\ p + 1 + Len(ws) - Len(spec.query) > p + 1
             /\ p + 1 + Len(ws) - Len(spec.query) \in Nat
<1>1. PICK q, p, k : q = spec.query /\ p = IntoAt(ws, spec) /\ k = Kept(ws, spec)
  OBVIOUS
<1>2. q \in Seq(Word)
  BY <1>1 DEF Reports
<1>3. p \in Nat
  BY <1>1, <1>2, CommonCounts DEF IntoAt
<1>4. k \in Nat
  <2>1. PICK a, b : a = Reverse(From(ws, p + 1)) /\ b = Reverse(From(q, p + 1))
    OBVIOUS
  <2>2. p + 1 \in Nat /\ p + 1 >= 1
    BY <1>3
  <2>3. a \in Seq(Word) /\ b \in Seq(Word)
    BY <1>2, <2>1, <2>2, TailTyped
  <2>4. k = Common(a, b)
    BY <1>1, <2>1 DEF Kept
  <2>5. QED BY <2>3, <2>4, CommonCounts
<1>5. p + k = Len(q) /\ Len(ws) > Len(q)
  BY <1>1 DEF Binds
<1>6. PICK m, n : m = Len(ws) /\ n = Len(q)
  OBVIOUS
<1>7. m \in Nat /\ n \in Nat /\ p + k = n /\ m > n
  BY <1>2, <1>5, <1>6
<1>8. p + 1 \in 1 .. m /\ p + 1 + m - n > p + 1 /\ p + 1 + m - n \in Nat
  BY <1>3, <1>4, <1>7
<1>9. QED BY <1>1, <1>6, <1>8

(* A node with what was bound to it. *)
Bears(m, n) == /\ Stands(m) /\ Within(m)
               /\ m.first = n.first /\ m.last = n.last /\ m.trailing = n.trailing

(* A clause bound to a leaf lies in the leaf. *)
LEMMA ClauseWithin ==
  ASSUME text \in Seq(Token), NEW n, Stands(n), n.into = 0,
         NEW spec \in Reports, Binds(Significant(n), spec)
  PROVE  Bears(WithClause(n, spec), n)
<1>1. CASE ~ spec.into
  <2>1. WithClause(n, spec) = n
    BY <1>1 DEF WithClause
  <2>2. QED BY <2>1 DEF Bears, Within
<1>2. CASE spec.into
  <2>1. PICK f, l, ws, spoken, p, m, next :
          /\ f = n.first /\ l = n.last /\ ws = Words(f, l) /\ spoken = Ascending(Len(ws), Spoken(ws, Silent))
          /\ p = IntoAt(Significant(n), spec) /\ m = Len(spoken) /\ next = p + 1 + m - Len(spec.query)
    OBVIOUS
  <2>2. f \in Nat /\ l \in Nat /\ Len(text) \in Nat /\ f >= 1 /\ f <= l /\ l <= Len(text)
    BY <2>1, NodePlaces
  <2>3. ws \in Seq(Word) /\ Len(ws) = l - f + 1
    <3>1. l \in 0 .. Len(text) /\ f <= l + 1
      BY <2>2
    <3>2. QED BY <2>1, <2>2, <3>1, WordsTyped
  <2>4. Significant(n) \in Seq(Word) /\ Len(Significant(n)) = m
    <3>1. Significant(n) = Without(ws, Silent)
      BY <2>1 DEF Significant
    <3>2. QED BY <2>1, <2>3, <3>1, WithoutTyped
  <2>5. p + 1 \in 1 .. m /\ next > p + 1 /\ next \in Nat
    BY <1>2, <2>1, <2>4, ClausePlace
  <2>6. /\ \A k \in 1 .. m : spoken[k] \in 1 .. l - f + 1
        /\ \A i, k \in 1 .. m : i < k => spoken[i] < spoken[k]
        /\ m \in Nat
    <3>1. l - f + 1 \in Nat
      BY <2>2
    <3>2. Climbs(spoken, l - f + 1, Spoken(ws, Silent))
      BY <2>1, <2>3, <3>1, AscendingClimbs
    <3>3. QED BY <2>1, <3>2 DEF Climbs
  <2>7. PICK i, q : /\ i = f + spoken[p + 1] - 1
                    /\ q = IF next > m THEN l ELSE f + spoken[next] - 1
    OBVIOUS
  <2>8. i \in Nat /\ q \in Nat /\ f <= i /\ i <= q /\ q <= l
    <3>1. spoken[p + 1] \in 1 .. l - f + 1
      BY <2>5, <2>6
    <3>2. i \in Nat /\ f <= i /\ i <= l
      BY <2>2, <2>7, <3>1
    <3>3. CASE next > m
      BY <2>2, <2>7, <3>2, <3>3
    <3>4. CASE ~ (next > m)
      <4>1. next \in 1 .. m /\ p + 1 \in 1 .. m /\ p + 1 < next
        BY <2>5, <2>6, <3>4
      <4>2. spoken[next] \in 1 .. l - f + 1 /\ spoken[p + 1] < spoken[next]
        BY <2>6, <4>1
      <4>3. q = f + spoken[next] - 1
        BY <2>7, <3>4
      <4>4. PICK x, y : x = spoken[p + 1] /\ y = spoken[next]
        OBVIOUS
      <4>5. x \in Nat /\ y \in Nat /\ x < y /\ y <= l - f + 1 /\ i = f + x - 1 /\ q = f + y - 1
        BY <2>2, <2>7, <3>1, <4>2, <4>3, <4>4
      <4>6. q \in Nat /\ i <= q /\ q <= l
        BY <2>2, <3>2, <4>5
      <4>7. QED BY <3>2, <4>6
    <3>5. QED BY <3>3, <3>4
  <2>9. WithClause(n, spec) = [n EXCEPT !.into = i, !.past = q]
    BY <1>2, <2>1, <2>7 DEF WithClause
  <2>10. PICK w : w = [n EXCEPT !.into = i, !.past = q]
    OBVIOUS
  <2>11. n \in Node /\ n.first >= 1 /\ n.first <= n.last /\ n.last + n.trailing <= Len(text)
         /\ (n.trailing = 1 => W(n.last + 1) = "note")
    BY DEF Stands
  <2>12. w \in Node /\ w.first = n.first /\ w.last = n.last /\ w.trailing = n.trailing /\ w.into = i /\ w.past = q
    BY <2>8, <2>10, <2>11 DEF Node
  <2>13. Stands(w) /\ Within(w)
    BY <2>1, <2>8, <2>11, <2>12 DEF Stands, Within
  <2>14. QED BY <2>9, <2>10, <2>12, <2>13 DEF Bears
<1>3. spec.into \in BOOLEAN
  BY DEF Reports
<1>4. QED BY <1>1, <1>2, <1>3

(* The leaves bound so far, with the reports not taken yet. *)
Takings == [ok : BOOLEAN, specs : Seq(Reports), nodes : Seq(Node)]

(* The first i nodes are bound. *)
BoundUpTo(taken, i) ==
  /\ taken \in Takings
  /\ taken.ok => Len(taken.nodes) = i /\ \A k \in 1 .. i : Bears(taken.nodes[k], nodes[k])

(* What the reader left before a statement is bound to it. *)
Unbound(n) == Stands(n) /\ n.into = 0

(* A leaf taken keeps what was bound, and is bound itself where that succeeds. *)
LEMMA TakeBinds ==
  ASSUME text \in Seq(Token), NEW taken \in Takings, NEW n, Unbound(n)
  PROVE  LET next == TakeSpec(taken, n)
         IN  /\ next \in Takings
             /\ next.ok => taken.ok /\ \E m \in Node : Bears(m, n) /\ next.nodes = Append(taken.nodes, m)
<1>0. Stands(n) /\ n.into = 0 /\ n \in Node
  BY DEF Unbound, Stands
<1>1. PICK specs, ns, next : specs = taken.specs /\ ns = taken.nodes /\ next = TakeSpec(taken, n)
  OBVIOUS
<1>2. specs \in Seq(Reports) /\ ns \in Seq(Node) /\ taken.ok \in BOOLEAN
      /\ taken = [ok |-> taken.ok, specs |-> specs, nodes |-> ns]
  BY <1>1 DEF Takings
<1>3. PICK S : S = {j \in DOMAIN specs : Binds(Significant(n), specs[j])}
  OBVIOUS
<1>4. PICK i : i = First(S)
  OBVIOUS
<1>5. S \in SUBSET (Nat \ {0}) /\ S \subseteq 1 .. Len(specs) /\ Len(specs) \in Nat
  <2>1. DOMAIN specs = 1 .. Len(specs) /\ Len(specs) \in Nat
    BY <1>2
  <2>2. QED BY <1>3, <2>1
<1>6. CASE n.kind \notin Bindable
  <2>1. next = [taken EXCEPT !.nodes = Append(@, n)]
    BY <1>1, <1>6 DEF TakeSpec
  <2>2. next = [ok |-> taken.ok, specs |-> specs, nodes |-> Append(ns, n)]
    BY <1>1, <1>2, <2>1
  <2>3. Append(ns, n) \in Seq(Node)
    BY <1>0, <1>2
  <2>4. next \in Takings
    BY <1>2, <2>2, <2>3 DEF Takings
  <2>5. Bears(n, n)
    BY <1>0 DEF Bears, Within
  <2>6. next.nodes = Append(taken.nodes, n) /\ next.ok = taken.ok
    BY <1>1, <2>2
  <2>7. QED BY <1>0, <1>1, <2>4, <2>5, <2>6
<1>7. CASE n.kind \in Bindable /\ i = 0
  <2>1. next = [taken EXCEPT !.ok = FALSE]
    BY <1>1, <1>3, <1>4, <1>7 DEF TakeSpec
  <2>2. next = [ok |-> FALSE, specs |-> specs, nodes |-> ns]
    BY <1>1, <1>2, <2>1
  <2>3. next \in Takings /\ next.ok = FALSE
    BY <1>2, <2>2 DEF Takings
  <2>4. QED BY <1>1, <2>3
<1>8. CASE n.kind \in Bindable /\ i # 0
  <2>1. PICK spec, m : spec = specs[i] /\ m = WithClause(n, specs[i])
    OBVIOUS
  <2>2. i \in S
    BY <1>4, <1>5, <1>8, FirstIsLeast
  <2>3. i \in 1 .. Len(specs) /\ Binds(Significant(n), spec)
    BY <1>3, <1>5, <2>1, <2>2
  <2>4. spec \in Reports
    BY <1>2, <2>1, <2>3
  <2>5. Bears(m, n)
    BY <1>0, <2>1, <2>3, <2>4, ClauseWithin
  <2>6. m \in Node
    BY <2>5 DEF Bears, Stands
  <2>7. next = [taken EXCEPT !.specs = RemoveAt(@, i), !.nodes = Append(@, m)]
    BY <1>1, <1>3, <1>4, <1>8, <2>1 DEF TakeSpec
  <2>8. PICK rest, more : rest = RemoveAt(specs, i) /\ more = Append(ns, m)
    OBVIOUS
  <2>9. rest \in Seq(Reports)
    <3>1. PICK a, b : a = SubSeq(specs, 1, i - 1) /\ b = SubSeq(specs, i + 1, Len(specs))
      OBVIOUS
    <3>2. a \in Seq(Reports) /\ b \in Seq(Reports)
      BY <1>2, <2>3, <3>1
    <3>3. rest = a \o b
      BY <2>8, <3>1 DEF RemoveAt
    <3>4. QED BY <3>2, <3>3
  <2>10. more \in Seq(Node)
    BY <1>2, <2>6, <2>8
  <2>11. next = [ok |-> taken.ok, specs |-> rest, nodes |-> more]
    BY <1>1, <1>2, <2>7, <2>8
  <2>12. next \in Takings
    BY <1>2, <2>9, <2>10, <2>11 DEF Takings
  <2>13. next.nodes = Append(taken.nodes, m) /\ next.ok = taken.ok
    BY <1>1, <2>8, <2>11
  <2>14. QED BY <1>1, <2>5, <2>6, <2>12, <2>13
<1>9. QED BY <1>6, <1>7, <1>8

(* Where every leaf finds its statement, every node is bound, in its place. *)
LEMMA AllBound ==
  ASSUME text \in Seq(Token), nodes \in Seq(Node), \A i \in 1 .. Len(nodes) : Unbound(nodes[i]),
         NEW specs \in Seq(Reports)
  PROVE  BoundUpTo(Bound(specs), Len(nodes))
<1> DEFINE n    == Len(nodes)
           base == [ok |-> TRUE, specs |-> specs, nodes |-> <<>>]
           step == [i \in 1 .. n |-> [taken \in Takings |-> TakeSpec(taken, nodes[i])]]
           R(f) == f = [i \in 0 .. n |-> IF i = 0 THEN [ok |-> TRUE, specs |-> specs, nodes |-> <<>>]
                                                  ELSE TakeSpec(f[i - 1], nodes[i])]
<1>1. n \in Nat
  OBVIOUS
<1>2. base \in Takings
  BY DEF Takings
<1>3. \A i \in 1 .. n : \A taken \in Takings : TakeSpec(taken, nodes[i]) \in Takings
  BY TakeBinds
<1>4. Recursion(n, Takings, base, step)
  BY <1>1, <1>2, <1>3 DEF Recursion
<1>5. PICK f : Solves(f, n, Takings, base, step)
  <2> HIDE DEF n, base, step
  <2>1. QED BY <1>4, RecursionExists
<1>6. R(f)
  <2>1. f \in [0 .. n -> Takings] /\ f[0] = base /\ \A i \in 1 .. n : f[i] = step[i][f[i - 1]]
    BY <1>5 DEF Solves
  <2>2. ASSUME NEW i \in 0 .. n PROVE f[i] = IF i = 0 THEN base ELSE TakeSpec(f[i - 1], nodes[i])
    <3>1. CASE i = 0
      BY <2>1, <3>1
    <3>2. CASE i # 0
      <4>1. i \in 1 .. n /\ i - 1 \in 0 .. n
        BY <1>1, <3>2
      <4>2. PICK t : t = f[i - 1]
        OBVIOUS
      <4>3. t \in Takings
        BY <2>1, <4>1, <4>2
      <4>4. step[i][t] = TakeSpec(t, nodes[i])
        BY <4>1, <4>3
      <4>5. f[i] = step[i][t]
        BY <2>1, <4>1, <4>2
      <4>6. QED BY <3>2, <4>2, <4>4, <4>5
    <3>3. QED BY <3>1, <3>2
  <2>3. f = [i \in 0 .. n |-> f[i]]
    BY <2>1
  <2>4. [i \in 0 .. n |-> f[i]] = [i \in 0 .. n |-> IF i = 0 THEN base ELSE TakeSpec(f[i - 1], nodes[i])]
    BY <2>2
  <2>5. QED BY <2>3, <2>4
<1>7. Bound(specs) = (CHOOSE g : R(g))[n]
  BY DEF Bound
<1>8. PICK g : g = (CHOOSE h : R(h))
  OBVIOUS
<1>9. R(g)
  <2> HIDE DEF R
  <2>1. QED BY <1>6, <1>8
<1>10. g[0] = base /\ \A i \in 1 .. n : g[i] = TakeSpec(g[i - 1], nodes[i])
  <2>1. g[0] = base
    BY <1>1, <1>9
  <2>2. ASSUME NEW i \in 1 .. n PROVE g[i] = TakeSpec(g[i - 1], nodes[i])
    <3>1. i \in 0 .. n /\ i # 0
      BY <1>1
    <3>2. QED BY <1>9, <3>1
  <2>3. QED BY <2>1, <2>2
<1> DEFINE T == {i \in 0 .. n : BoundUpTo(g[i], i)}
<1>11. 0 \in T
  <2>1. PICK b : b = base
    OBVIOUS
  <2>2. b \in Takings /\ b.nodes = <<>>
    BY <1>2, <2>1
  <2>3. BoundUpTo(b, 0)
    BY <2>2 DEF BoundUpTo
  <2>4. QED BY <1>1, <1>10, <2>1, <2>3
<1>12. ASSUME NEW i \in 0 .. n - 1, i \in T PROVE i + 1 \in T
  <2>1. PICK j, t, u, nd : j = i + 1 /\ t = g[i] /\ u = g[j] /\ nd = nodes[j]
    OBVIOUS
  <2>2. j \in 1 .. n /\ j - 1 = i /\ j \in 0 .. n /\ i \in Nat
    BY <1>1, <2>1
  <2>3. u = TakeSpec(t, nd)
    BY <1>10, <2>1, <2>2
  <2>4. BoundUpTo(t, i)
    BY <1>12, <2>1
  <2>5. Unbound(nd)
    BY <2>1, <2>2
  <2>6. t \in Takings
    BY <2>4 DEF BoundUpTo
  <2>7. u \in Takings /\ (u.ok => t.ok /\ \E m \in Node : Bears(m, nd) /\ u.nodes = Append(t.nodes, m))
    BY <2>3, <2>5, <2>6, TakeBinds
  <2>8. ASSUME u.ok PROVE Len(u.nodes) = j /\ \A k \in 1 .. j : Bears(u.nodes[k], nodes[k])
    <3>1. PICK m \in Node : Bears(m, nd) /\ u.nodes = Append(t.nodes, m)
      BY <2>7, <2>8
    <3>2. PICK a, b : a = t.nodes /\ b = u.nodes
      OBVIOUS
    <3>3. a \in Seq(Node) /\ Len(a) = i /\ \A k \in 1 .. i : Bears(a[k], nodes[k])
      BY <2>4, <2>6, <2>7, <2>8, <3>2 DEF BoundUpTo, Takings
    <3>4. b = Append(a, m)
      BY <3>1, <3>2
    <3>5. Len(b) = i + 1 /\ b[i + 1] = m /\ \A k \in 1 .. i : b[k] = a[k]
      BY <3>3, <3>4, AppendProperties
    <3>6. ASSUME NEW k \in 1 .. j PROVE Bears(b[k], nodes[k])
      <4>1. CASE k = j
        BY <2>1, <3>1, <3>5, <4>1
      <4>2. CASE k # j
        <5>1. k \in 1 .. i
          BY <2>1, <2>2, <4>2
        <5>2. QED BY <3>3, <3>5, <5>1
      <4>3. QED BY <4>1, <4>2
    <3>7. QED BY <2>1, <3>2, <3>5, <3>6
  <2>9. BoundUpTo(u, j)
    BY <2>7, <2>8 DEF BoundUpTo
  <2>10. QED BY <2>1, <2>2, <2>9
<1>13. n \in T
  <2> HIDE DEF T, n
  <2>1. 0 .. n \subseteq T
    BY <1>1, <1>11, <1>12, Ascent
  <2>2. QED BY <1>1, <2>1
<1>14. BoundUpTo(g[n], n)
  BY <1>13
<1>15. QED BY <1>7, <1>8, <1>14

(***************************************************************************)
(* The invariant.                                                          *)
(***************************************************************************)
Wrote(ls) == FlattenSeq([i \in DOMAIN ls |-> ls[i].words])

Read == /\ Tiled /\ \A i \in 1 .. Len(nodes) : Unbound(nodes[i])
        /\ at = Behind(Len(nodes)) /\ lines = <<>>

Laid == /\ Tiled /\ \A i \in 1 .. Len(nodes) : Within(nodes[i])
        /\ at \in 1 .. Len(nodes) + 1 /\ Behind(Len(nodes)) = Len(text) + 1
        /\ Respelled(Wrote(lines)) = Respelled(Words(1, Behind(at - 1) - 1))

BodyInv ==
  /\ TypeOK
  /\ state # "done" => result = "running"
  /\ result = "ok" => pass = 2
  /\ pass = 1 => text = source
  /\ pass = 2 => Respelled(Wrote(written)) = Respelled(SourceWords)
  /\ state = "read" => Read
  /\ state = "lay" => Laid

(* What is behind a node is further than the node. *)
LEMMA BehindNode ==
  ASSUME text \in Seq(Token), Tiled, NEW i \in 0 .. Len(nodes), nodes \in Seq(Node)
  PROVE  Behind(i) \in Nat /\ Behind(i) >= i + 1 /\ Behind(i) <= Len(text) + 1
<1>1. Len(text) \in Nat /\ Len(nodes) \in Nat /\ i \in Nat
  OBVIOUS
<1>2. CASE i = 0
  <2>1. Behind(i) = 1
    BY <1>2 DEF Behind
  <2>2. QED BY <1>1, <1>2, <2>1
<1>3. CASE i # 0
  <2>1. PICK n : n = nodes[i]
    OBVIOUS
  <2>2. i \in 1 .. Len(nodes)
    BY <1>1, <1>3
  <2>3. Stands(n) /\ n.first >= i
    BY <2>1, <2>2 DEF Tiled
  <2>4. n.first \in Nat /\ n.last \in Nat /\ n.trailing \in {0, 1} /\ n.first <= n.last /\ n.last + n.trailing <= Len(text)
    BY <2>3, NodePlaces
  <2>5. Behind(i) = n.last + n.trailing + 1
    BY <1>3, <2>1 DEF Behind
  <2>6. QED BY <1>1, <2>3, <2>4, <2>5
<1>4. QED BY <1>2, <1>3

(* Reading a node keeps the tiling. *)
LEMMA NodeAdded ==
  ASSUME text \in Seq(Token), nodes \in Seq(Node), Read, NEW n, Unbound(n), n.first = at,
         text' = text, lines' = lines, nodes' = Append(nodes, n), at' = n.last + n.trailing + 1
  PROVE  nodes' \in Seq(Node) /\ at' \in 1 .. Len(text') + 1 /\ Read'
<1>1. PICK m : m = Len(nodes)
  OBVIOUS
<1>2. m \in Nat /\ n \in Node /\ Stands(n)
  BY <1>1 DEF Unbound, Stands
<1>3. nodes' \in Seq(Node) /\ Len(nodes') = m + 1 /\ nodes'[m + 1] = n /\ \A i \in 1 .. m : nodes'[i] = nodes[i]
  BY <1>1, <1>2, AppendProperties
<1>4. n.first = Behind(m) /\ n.first >= m + 1
  <2>1. at = Behind(m) /\ Tiled
    BY <1>1 DEF Read
  <2>2. m \in 0 .. Len(nodes)
    BY <1>1, <1>2
  <2>3. Behind(m) >= m + 1
    BY <2>1, <2>2, BehindNode
  <2>4. QED BY <2>1, <2>3
<1>5. /\ n.first \in Nat /\ n.last \in Nat /\ n.trailing \in {0, 1} /\ n.first <= n.last
      /\ n.last + n.trailing <= Len(text) /\ n.first >= 1 /\ Len(text) \in Nat
  BY <1>2, NodePlaces
<1>6. at' \in 1 .. Len(text') + 1
  BY <1>5
<1>7. \A i \in 0 .. m : Behind(i)' = Behind(i)
  <2>1. ASSUME NEW i \in 0 .. m PROVE (IF i = 0 THEN 1 ELSE nodes'[i].last + nodes'[i].trailing + 1) = Behind(i)
    <3>1. i = 0 \/ i \in 1 .. m
      BY <1>2
    <3>2. QED BY <1>3, <3>1 DEF Behind
  <2>2. QED BY <2>1 DEF Behind
<1>8. Behind(m + 1)' = at'
  <2>1. m + 1 # 0
    BY <1>2
  <2>2. QED BY <1>3, <2>1 DEF Behind
<1>9. \A x : Stands(x) => Stands(x)'
  BY DEF Stands, W
<1>10. ASSUME NEW i \in 1 .. m + 1
       PROVE  Stands(nodes[i])' /\ (nodes'[i]).first = Behind(i - 1)' /\ (nodes'[i]).first >= i /\ Unbound(nodes[i])'
  <2>1. CASE i = m + 1
    <3>1. i - 1 = m /\ m \in 0 .. m
      BY <1>2, <2>1
    <3>2. nodes'[i] = n
      BY <1>3, <2>1
    <3>3. Behind(i - 1)' = Behind(m)
      BY <1>7, <3>1
    <3>4. Stands(n)' /\ n.into = 0
      BY <1>2, <1>9 DEF Unbound
    <3>5. Stands(nodes[i])' /\ Unbound(nodes[i])'
      BY <3>2, <3>4 DEF Stands, Unbound
    <3>6. QED BY <1>4, <2>1, <3>2, <3>3, <3>5
  <2>2. CASE i # m + 1
    <3>1. i \in 1 .. m /\ i - 1 \in 0 .. m
      BY <1>2, <2>2
    <3>2. nodes'[i] = nodes[i] /\ Behind(i - 1)' = Behind(i - 1)
      BY <1>3, <1>7, <3>1
    <3>3. Stands(nodes[i]) /\ nodes[i].first = Behind(i - 1) /\ nodes[i].first >= i /\ Unbound(nodes[i])
      BY <1>1, <3>1 DEF Read, Tiled
    <3>4. PICK x : x = nodes[i]
      OBVIOUS
    <3>5. Stands(x)' /\ x.into = 0
      BY <1>9, <3>3, <3>4 DEF Unbound
    <3>6. Stands(nodes[i])' /\ Unbound(nodes[i])'
      BY <3>2, <3>4, <3>5 DEF Stands, Unbound
    <3>7. QED BY <3>2, <3>3, <3>6
  <2>3. QED BY <2>1, <2>2
<1>11. Tiled'
  BY <1>3, <1>10 DEF Tiled
<1>12. \A i \in 1 .. Len(nodes)' : Unbound(nodes[i])'
  BY <1>3, <1>10
<1>13. lines' = <<>>
  BY DEF Read
<1>14. QED BY <1>3, <1>6, <1>8, <1>11, <1>12, <1>13 DEF Read

(* Lines more are words more. *)
LEMMA WroteMore ==
  ASSUME NEW ls \in Seq(Line), NEW l \in Line
  PROVE  Wrote(ls) \in Seq(Word) /\ l.words \in Seq(Word) /\ Wrote(Append(ls, l)) = Wrote(ls) \o l.words
<1>1. PICK ps, t, n : ps = [i \in DOMAIN ls |-> ls[i].words] /\ t = l.words /\ n = Len(ls)
  OBVIOUS
<1>2. t \in Seq(Word)
  BY <1>1 DEF Line
<1>0. \A x \in Line : x.words \in Seq(Word)
  BY DEF Line
<1>3. n \in Nat /\ \A i \in 1 .. n : ls[i].words \in Seq(Word)
  BY <1>0, <1>1
<1>4. ps \in Seq(Seq(Word)) /\ Len(ps) = n /\ \A i \in 1 .. n : ps[i] = ls[i].words
  <2>1. DOMAIN ls = 1 .. n
    BY <1>1
  <2>2. ps = [i \in 1 .. n |-> ls[i].words]
    BY <1>1, <2>1
  <2>3. QED BY <1>3, <2>2
<1>5. PICK more, qs : more = Append(ls, l) /\ qs = [i \in DOMAIN more |-> more[i].words]
  OBVIOUS
<1>6. more \in Seq(Line) /\ Len(more) = n + 1 /\ more[n + 1] = l /\ \A i \in 1 .. n : more[i] = ls[i]
  BY <1>1, <1>5, AppendProperties
<1>7. qs = ps \o <<t>>
  <2>1. qs = [i \in 1 .. n + 1 |-> more[i].words]
    BY <1>5, <1>6
  <2>2. <<t>> \in Seq(Seq(Word)) /\ Len(<<t>>) = 1 /\ <<t>>[1] = t
    BY <1>2
  <2>3. PICK u : u = <<t>>
    OBVIOUS
  <2>4. qs \in Seq(Seq(Word)) /\ Len(qs) = n + 1 /\ \A i \in 1 .. n + 1 : qs[i] = more[i].words
    <3>1. \A i \in 1 .. n + 1 : more[i].words \in Seq(Word)
      BY <1>0, <1>6
    <3>2. n + 1 \in Nat
      BY <1>3
    <3>3. QED BY <2>1, <3>1, <3>2
  <2>5. Joins(qs, ps, u)
    <3>1. Len(qs) = Len(ps) + Len(u)
      BY <1>4, <2>2, <2>3, <2>4
    <3>2. \A i \in 1 .. Len(ps) : qs[i] = ps[i]
      <4>1. \A i \in 1 .. n : i \in 1 .. n + 1
        BY <1>3
      <4>2. QED BY <1>4, <1>6, <2>4, <4>1
    <3>3. \A i \in 1 .. Len(u) : qs[Len(ps) + i] = u[i]
      <4>1. n + 1 \in 1 .. n + 1
        BY <1>3
      <4>2. qs[n + 1] = t
        BY <1>1, <1>6, <2>4, <4>1
      <4>3. QED BY <1>4, <2>2, <2>3, <4>2
    <3>4. QED BY <3>1, <3>2, <3>3 DEF Joins
  <2>6. QED BY <1>4, <2>2, <2>3, <2>4, <2>5, JoinedEqual
<1>8. FlattenSeq(<<t>>) = t
  BY <1>2, FlattenOne
<1>9. FlattenSeq(ps) \in Seq(Word)
  BY <1>4, FlattenTyped
<1>10. FlattenSeq(qs) = FlattenSeq(ps) \o FlattenSeq(<<t>>)
  <2>1. <<t>> \in Seq(Seq(Word))
    BY <1>2
  <2>2. QED BY <1>4, <1>7, <2>1, FlattenConcat
<1>11. QED BY <1>1, <1>2, <1>5, <1>8, <1>9, <1>10 DEF Wrote

(***************************************************************************)
(* The steps.                                                              *)
(***************************************************************************)
(* A body begins to be read with the invariant. *)
LEMMA InvInit == Init => BodyInv
<1> SUFFICES ASSUME Init PROVE BodyInv
  OBVIOUS
<1>1. PICK b \in Bodies : source = b.text /\ units = b.units /\ text = b.text
  BY DEF Init
<1>2. units \in Seq(Unit) /\ text \in Seq(Token) /\ source \in Seq(Token)
  BY <1>1, BodyAssumption
<1>3. /\ pass = 1 /\ written = <<>> /\ result = "running" /\ state = "read" /\ at = 1 /\ inDeclare = FALSE
      /\ nodes = <<>> /\ frames = <<>> /\ lines = <<>>
  BY DEF Init, Begin
<1>4. nodes \in Seq(Node) /\ frames \in Seq(Frame) /\ lines \in Seq(Line) /\ written \in Seq(Line) /\ Len(nodes) = 0
  BY <1>3
<1>5. at \in 1 .. Len(text) + 1
  BY <1>2, <1>3
<1>6. TypeOK
  BY <1>2, <1>3, <1>4, <1>5 DEF TypeOK
<1>7. Read
  BY <1>3, <1>4 DEF Read, Tiled, Behind
<1>8. QED BY <1>1, <1>3, <1>6, <1>7 DEF BodyInv

(* Reading a comment keeps the invariant. *)
LEMMA CommentRead == BodyInv /\ ReadComment => BodyInv'
<1> SUFFICES ASSUME BodyInv, ReadComment PROVE BodyInv'
  OBVIOUS
<1>1. /\ state = "read" /\ at <= Len(text) /\ Read /\ TypeOK /\ result = "running"
      /\ (pass = 1 => text = source)
      /\ (pass = 2 => Respelled(Wrote(written)) = Respelled(SourceWords))
  BY DEF BodyInv, ReadComment, Reading
<1>2. text \in Seq(Token) /\ nodes \in Seq(Node) /\ at \in 1 .. Len(text) /\ Len(text) \in Nat
  BY <1>1 DEF TypeOK
<1>3. PICK n : n = NodeAt("Comment", at, at, 0)
  OBVIOUS
<1>4. Unbound(n) /\ n.first = at /\ n.last = at /\ n.trailing = 0
  <2>1. "Comment" \in Kind /\ at \in at .. Len(text) /\ at + 0 <= Len(text) /\ 0 # 1
    BY <1>2 DEF Kind
  <2>2. QED BY <1>2, <1>3, <2>1, NodeStands DEF Unbound
<1>5. /\ nodes' = Append(nodes, n) /\ at' = at + 1
      /\ UNCHANGED <<source, units, text, pass, written, state, inDeclare, frames, lines, result>>
  BY <1>3 DEF ReadComment, body
<1>6. at' = n.last + n.trailing + 1
  BY <1>2, <1>4, <1>5
<1>7. nodes' \in Seq(Node) /\ at' \in 1 .. Len(text') + 1 /\ Read'
  BY <1>1, <1>2, <1>4, <1>5, <1>6, NodeAdded
<1>8. TypeOK'
  BY <1>1, <1>5, <1>7 DEF TypeOK
<1>9. SourceWords' = SourceWords /\ Wrote(written)' = Wrote(written)
  BY <1>5 DEF SourceWords, Wrote
<1>10. QED BY <1>1, <1>5, <1>7, <1>8, <1>9 DEF BodyInv

(* Reading a node keeps it, and so does giving up where none ends. *)
LEMMA NodeRead == BodyInv /\ ReadNode => BodyInv'
<1> SUFFICES ASSUME BodyInv, ReadNode PROVE BodyInv'
  OBVIOUS
<1>1. /\ state = "read" /\ at <= Len(text) /\ Read /\ TypeOK /\ result = "running"
      /\ (pass = 1 => text = source)
      /\ (pass = 2 => Respelled(Wrote(written)) = Respelled(SourceWords))
  BY DEF BodyInv, ReadNode, Reading
<1>2. text \in Seq(Token) /\ nodes \in Seq(Node) /\ at \in 1 .. Len(text) /\ Len(text) \in Nat /\ inDeclare \in BOOLEAN
  BY <1>1 DEF TypeOK
<1>3. UNCHANGED <<source, units, text, pass, written, frames, lines>>
  BY DEF ReadNode, body
<1>4. SourceWords' = SourceWords /\ Wrote(written)' = Wrote(written)
  BY <1>3 DEF SourceWords, Wrote
<1>5. CASE EndOf(at) = 0 /\ Stop("boundary") /\ UNCHANGED <<at, inDeclare, nodes>>
  <2>1. state' = "done" /\ result' = "boundary" /\ UNCHANGED <<at, inDeclare, nodes>>
    BY <1>5 DEF Stop
  <2>2. TypeOK'
    BY <1>1, <1>3, <2>1 DEF TypeOK
  <2>3. QED BY <1>1, <1>3, <1>4, <2>1, <2>2 DEF BodyInv
<1>6. CASE /\ EndOf(at) > 0
           /\ nodes' = Append(nodes, NodeAt(KindOf(at), at, EndOf(at), Trailing(EndOf(at))))
           /\ at' = EndOf(at) + 1 + Trailing(EndOf(at))
           /\ inDeclare' = (W(at) = "DECLARE" \/ (inDeclare /\ W(at) # "BEGIN"))
           /\ UNCHANGED <<state, result>>
  <2>1. PICK j, t, n : j = EndOf(at) /\ t = Trailing(j) /\ n = NodeAt(KindOf(at), at, j, t)
    OBVIOUS
  <2>2. j \in at .. Len(text)
    <3>1. j # 0
      BY <1>6, <2>1
    <3>2. QED BY <1>2, <2>1, <3>1, EndFound
  <2>3. j \in 1 .. Len(text)
    BY <1>2, <2>2
  <2>4. t \in {0, 1} /\ j + t <= Len(text) /\ (t = 1 => W(j + 1) = "note")
    BY <1>2, <2>1, <2>3, TrailingFound
  <2>5. Unbound(n) /\ n.first = at /\ n.last = j /\ n.trailing = t
    BY <1>2, <2>1, <2>2, <2>4, KindKnown, NodeStands DEF Unbound
  <2>6. nodes' = Append(nodes, n) /\ at' = n.last + n.trailing + 1
    BY <1>6, <2>1, <2>3, <2>4, <2>5
  <2>7. nodes' \in Seq(Node) /\ at' \in 1 .. Len(text') + 1 /\ Read'
    BY <1>1, <1>2, <1>3, <2>5, <2>6, NodeAdded
  <2>8. inDeclare' \in BOOLEAN
    <3>1. (W(at) = "DECLARE" \/ (inDeclare /\ W(at) # "BEGIN")) \in BOOLEAN
      OBVIOUS
    <3>2. QED BY <1>6, <3>1
  <2>9. TypeOK'
    BY <1>1, <1>3, <1>6, <2>7, <2>8 DEF TypeOK
  <2>10. QED BY <1>1, <1>3, <1>4, <1>6, <2>7, <2>9 DEF BodyInv
<1>7. QED BY <1>5, <1>6 DEF ReadNode

(* Binding keeps it: every node keeps its place, and a clause lies in its node. *)
LEMMA LeavesBound == BodyInv /\ Bind => BodyInv'
<1> SUFFICES ASSUME BodyInv, Bind PROVE BodyInv'
  OBVIOUS
<1>1. /\ state = "read" /\ at = Len(text) + 1 /\ Read /\ TypeOK /\ result = "running"
      /\ (pass = 1 => text = source)
      /\ (pass = 2 => Respelled(Wrote(written)) = Respelled(SourceWords))
  BY DEF BodyInv, Bind
<1>2. text \in Seq(Token) /\ nodes \in Seq(Node) /\ units \in Seq(Unit) /\ Len(text) \in Nat
  BY <1>1 DEF TypeOK
<1>3. UNCHANGED <<source, units, text, pass, written, frames, lines>> /\ inDeclare' = FALSE
  BY DEF Bind, body
<1>4. SourceWords' = SourceWords /\ Wrote(written)' = Wrote(written)
  BY <1>3 DEF SourceWords, Wrote
<1>5. PICK specs \in Permuted :
        LET bound == Bound(specs)
            good  == Aligned /\ bound.ok /\ bound.specs = <<>>
        IN  \/ ~ good /\ Stop("disagree") /\ UNCHANGED <<at, nodes>>
            \/ good /\ state' = "lay" /\ at' = 1 /\ nodes' = bound.nodes /\ UNCHANGED result
  BY DEF Bind
<1>6. PICK bound : bound = Bound(specs)
  OBVIOUS
<1>7. CASE Stop("disagree") /\ UNCHANGED <<at, nodes>>
  <2>1. state' = "done" /\ result' = "disagree" /\ UNCHANGED <<at, nodes>>
    BY <1>7 DEF Stop
  <2>2. TypeOK'
    BY <1>1, <1>3, <2>1 DEF TypeOK
  <2>3. QED BY <1>1, <1>3, <1>4, <2>1, <2>2 DEF BodyInv
<1>8. CASE bound.ok /\ state' = "lay" /\ at' = 1 /\ nodes' = bound.nodes /\ UNCHANGED result
  <2>1. PICK m : m = Len(nodes)
    OBVIOUS
  <2>2. m \in Nat
    BY <1>2, <2>1
  <2>3. BoundUpTo(bound, m)
    <3>1. \A i \in 1 .. Len(nodes) : Unbound(nodes[i])
      BY <1>1 DEF Read
    <3>2. specs \in Seq(Reports)
      BY <1>2, PermutedTyped
    <3>3. QED BY <1>2, <1>6, <2>1, <3>1, <3>2, AllBound
  <2>4. PICK ns : ns = bound.nodes
    OBVIOUS
  <2>5. ns \in Seq(Node) /\ Len(ns) = m /\ \A k \in 1 .. m : Bears(ns[k], nodes[k])
    BY <1>8, <2>3, <2>4 DEF BoundUpTo, Takings
  <2>6. nodes' = ns
    BY <1>8, <2>4
  <2>7. \A i \in 0 .. m : Behind(i)' = Behind(i)
    <3>1. ASSUME NEW i \in 0 .. m PROVE (IF i = 0 THEN 1 ELSE nodes'[i].last + nodes'[i].trailing + 1) = Behind(i)
      <4>1. i = 0 \/ i \in 1 .. m
        BY <2>2
      <4>2. CASE i = 0
        BY <4>2 DEF Behind
      <4>3. CASE i # 0
        <5>1. nodes'[i].last = nodes[i].last /\ nodes'[i].trailing = nodes[i].trailing
          BY <2>5, <2>6, <4>1, <4>3 DEF Bears
        <5>2. QED BY <4>3, <5>1 DEF Behind
      <4>4. QED BY <4>2, <4>3
    <3>2. QED BY <3>1 DEF Behind
  <2>8. ASSUME NEW i \in 1 .. m
        PROVE  Stands(nodes[i])' /\ Within(nodes[i])' /\ (nodes'[i]).first = Behind(i - 1)' /\ (nodes'[i]).first >= i
    <3>1. PICK x, y : x = ns[i] /\ y = nodes[i]
      OBVIOUS
    <3>2. Stands(x) /\ Within(x) /\ x.first = y.first
      BY <2>5, <3>1 DEF Bears
    <3>3. y.first = Behind(i - 1) /\ y.first >= i
      BY <1>1, <2>1, <3>1 DEF Read, Tiled
    <3>4. i - 1 \in 0 .. m
      BY <2>2
    <3>5. Stands(x)' /\ Within(x)'
      BY <1>3, <3>2 DEF Stands, Within, W
    <3>6. Stands(nodes[i])' /\ Within(nodes[i])'
      BY <2>6, <3>1, <3>5 DEF Stands, Within
    <3>7. QED BY <2>6, <2>7, <3>1, <3>2, <3>3, <3>4, <3>6
  <2>9. Tiled' /\ \A i \in 1 .. Len(nodes)' : Within(nodes[i])'
    BY <2>5, <2>6, <2>8 DEF Tiled
  <2>10. at' \in 1 .. Len(nodes') + 1 /\ at' = 1
    BY <1>8, <2>2, <2>5, <2>6
  <2>11. Behind(Len(nodes))' = Len(text') + 1
    <3>1. Behind(m)' = Behind(m)
      BY <2>2, <2>7
    <3>2. Behind(Len(nodes))' = Behind(m)'
      BY <2>5, <2>6 DEF Behind
    <3>3. Behind(m) = Len(text) + 1
      BY <1>1, <2>1 DEF Read
    <3>4. QED BY <1>3, <3>1, <3>2, <3>3
  <2>12. Respelled(Wrote(lines))' = Respelled(Words(1, Behind(at - 1) - 1))'
    <3>1. lines' = <<>>
      BY <1>1, <1>3 DEF Read
    <3>2. Wrote(lines)' = <<>>
      BY <3>1 DEF Wrote, FlattenSeq
    <3>3. Behind(at - 1)' = 1
      BY <2>10 DEF Behind
    <3>4. Words(1, Behind(at - 1) - 1)' = <<>>
      BY <3>3 DEF Words
    <3>5. QED BY <3>2, <3>4 DEF Respelled
  <2>13. TypeOK'
    <3>1. at' \in 1 .. Len(text') + 1
      BY <1>2, <1>3, <2>10
    <3>2. QED BY <1>1, <1>3, <1>8, <2>5, <2>6, <3>1 DEF TypeOK
  <2>14. Laid'
    BY <2>9, <2>10, <2>11, <2>12 DEF Laid
  <2>15. QED BY <1>1, <1>3, <1>4, <1>8, <2>13, <2>14 DEF BodyInv
<1>9. QED BY <1>5, <1>6, <1>7, <1>8

(* Laying a node out adds its words to those of the nodes before it. *)
LEMMA NodeLaid == BodyInv /\ Lay => BodyInv'
<1> SUFFICES ASSUME BodyInv, Lay PROVE BodyInv'
  OBVIOUS
<1>1. /\ state = "lay" /\ at <= Len(nodes) /\ Laid /\ TypeOK /\ result = "running"
      /\ (pass = 1 => text = source)
      /\ (pass = 2 => Respelled(Wrote(written)) = Respelled(SourceWords))
  BY DEF BodyInv, Lay
<1>2. /\ text \in Seq(Token) /\ nodes \in Seq(Node) /\ frames \in Seq(Frame) /\ lines \in Seq(Line)
      /\ inDeclare \in BOOLEAN /\ Len(text) \in Nat /\ Len(nodes) \in Nat
  BY <1>1 DEF TypeOK
<1>3. at \in 1 .. Len(nodes) /\ at \in 0 .. Len(nodes) /\ at - 1 \in 0 .. Len(nodes) /\ (at + 1) - 1 = at
      /\ at + 1 \in 1 .. Len(nodes) + 1
  <2>1. at \in 1 .. Len(nodes) + 1
    BY <1>1 DEF Laid
  <2>2. QED BY <1>1, <1>2, <2>1
<1>4. UNCHANGED <<source, units, text, pass, written, nodes>>
  BY DEF Lay, body
<1>5. SourceWords' = SourceWords /\ Wrote(written)' = Wrote(written)
  BY <1>4 DEF SourceWords, Wrote
<1>6. PICK n, placed : n = nodes[at] /\ placed = LayoutNode(n.kind, frames)
  OBVIOUS
<1>7. \/ Stop("unbalanced") /\ UNCHANGED <<at, inDeclare, frames, lines>>
      \/ Stop("leaf") /\ UNCHANGED <<at, inDeclare, frames, lines>>
      \/ /\ placed.ok /\ frames' = placed.frames
         /\ inDeclare' = (n.kind = "Declare" \/ (inDeclare /\ n.kind # "Begin"))
         /\ lines' = Append(lines, LineOf(n, placed.indent))
         /\ at' = at + 1 /\ UNCHANGED <<state, result>>
  BY <1>6 DEF Lay
<1>8. ASSUME NEW r \in {"unbalanced", "leaf"}, Stop(r), UNCHANGED <<at, inDeclare, frames, lines>>
      PROVE  BodyInv'
  <2>1. state' = "done" /\ result' = r
    BY <1>8 DEF Stop
  <2>2. TypeOK'
    BY <1>1, <1>4, <1>8, <2>1 DEF TypeOK
  <2>3. QED BY <1>1, <1>4, <1>5, <1>8, <2>1, <2>2 DEF BodyInv
<1>9. CASE /\ placed.ok /\ frames' = placed.frames
           /\ inDeclare' = (n.kind = "Declare" \/ (inDeclare /\ n.kind # "Begin"))
           /\ lines' = Append(lines, LineOf(n, placed.indent))
           /\ at' = at + 1 /\ UNCHANGED <<state, result>>
  <2>1. Stands(n) /\ Within(n) /\ n.first = Behind(at - 1)
    BY <1>1, <1>3, <1>6 DEF Laid, Tiled
  <2>2. /\ n.first \in Nat /\ n.last \in Nat /\ n.trailing \in {0, 1} /\ n.first >= 1 /\ n.first <= n.last
        /\ n.last + n.trailing <= Len(text) /\ n.kind \in Kind
    BY <1>2, <2>1, NodePlaces
  <2>3. placed.indent \in Nat /\ placed.frames \in Seq(Frame)
    BY <1>2, <1>6, <1>9, <2>2, NodePlaced
  <2>4. PICK l : l = LineOf(n, placed.indent)
    OBVIOUS
  <2>5. l \in Line
    BY <1>2, <2>1, <2>3, <2>4, LineTyped
  <2>6. l.words \in Seq(Word) /\ Respelled(l.words) = Respelled(Words(n.first, n.last + n.trailing))
    BY <1>2, <2>1, <2>4, LineHoldsNode
  <2>7. lines' = Append(lines, l) /\ lines' \in Seq(Line)
    <3>1. lines' = Append(lines, l)
      BY <1>9, <2>4
    <3>2. QED BY <1>2, <2>5, <3>1
  <2>8. Behind(at) = n.last + n.trailing + 1
    <3>1. at # 0
      BY <1>3
    <3>2. QED BY <1>6, <3>1 DEF Behind
  <2>9. \A i \in 0 .. Len(nodes) : Behind(i)' = Behind(i)
    BY <1>4 DEF Behind
  <2>10. PICK f, e, before, own : f = n.first /\ e = n.last + n.trailing /\ before = Words(1, f - 1) /\ own = Words(f, e)
    OBVIOUS
  <2>11. /\ f - 1 \in 0 .. Len(text) /\ e \in 0 .. Len(text) /\ f - 1 <= e /\ 1 <= (f - 1) + 1 /\ (f - 1) + 1 = f
         /\ Behind(at) - 1 = e /\ Behind(at - 1) - 1 = f - 1 /\ f \in Nat /\ f >= 1
    <3>1. PICK last, t, m, b : last = n.last /\ t = n.trailing /\ m = Len(text) /\ b = Behind(at)
      OBVIOUS
    <3>2. /\ f \in Nat /\ last \in Nat /\ t \in {0, 1} /\ m \in Nat /\ f >= 1 /\ f <= last /\ last + t <= m
          /\ e = last + t /\ b = last + t + 1
      BY <1>2, <2>2, <2>8, <2>10, <3>1
    <3>3. f - 1 \in 0 .. m /\ e \in 0 .. m /\ f - 1 <= e /\ 1 <= (f - 1) + 1 /\ (f - 1) + 1 = f /\ b - 1 = e
      BY <3>2
    <3>4. Behind(at - 1) - 1 = f - 1
      BY <2>1, <2>10
    <3>5. QED BY <3>1, <3>2, <3>3, <3>4
  <2>12. before \in Seq(Word) /\ own \in Seq(Word) /\ Words(1, e) = before \o own
    <3>1. PICK o, k : o = 1 /\ k = f - 1
      OBVIOUS
    <3>2. o \in Nat /\ o >= 1 /\ k \in 0 .. Len(text) /\ e \in 0 .. Len(text) /\ o <= k + 1 /\ k <= e
      BY <2>11, <3>1
    <3>3. Words(o, e) = Words(o, k) \o Words(k + 1, e)
      BY <1>2, <3>2, WordsJoin
    <3>4. Words(o, k) \in Seq(Word) /\ Words(f, e) \in Seq(Word)
      BY <1>2, <2>11, <3>2, WordsTyped
    <3>5. QED BY <2>10, <2>11, <3>1, <3>3, <3>4
  <2>13. Respelled(Wrote(lines)) = Respelled(before)
    BY <1>1, <2>10, <2>11 DEF Laid
  <2>14. Wrote(lines') = Wrote(lines) \o l.words /\ Wrote(lines) \in Seq(Word)
    BY <1>2, <2>5, <2>7, WroteMore
  <2>15. Respelled(Wrote(lines')) = Respelled(Words(1, e))
    <3>1. PICK w, v : w = Wrote(lines) /\ v = l.words
      OBVIOUS
    <3>2. Respelled(w \o v) = Respelled(w) \o Respelled(v)
      BY <2>6, <2>14, <3>1, RespelledConcat
    <3>3. Respelled(before \o own) = Respelled(before) \o Respelled(own)
      BY <2>12, RespelledConcat
    <3>4. QED BY <2>6, <2>10, <2>12, <2>13, <2>14, <3>1, <3>2, <3>3
  <2>16. Respelled(Wrote(lines))' = Respelled(Words(1, Behind(at - 1) - 1))'
    <3>1. Behind(at - 1)' = Behind(at)
      <4>1. at' - 1 = at
        BY <1>3, <1>9
      <4>2. Behind(at - 1)' = Behind(at)
        BY <1>4, <4>1 DEF Behind
      <4>3. QED BY <4>2
    <3>2. Words(1, Behind(at - 1) - 1)' = Words(1, e)
      BY <1>4, <2>11, <3>1 DEF Words, W
    <3>3. Respelled(Words(1, Behind(at - 1) - 1))' = Respelled(Words(1, e))
      BY <3>2 DEF Respelled
    <3>4. Respelled(Wrote(lines))' = Respelled(Wrote(lines'))
      BY DEF Respelled, Wrote
    <3>5. QED BY <2>15, <3>3, <3>4
  <2>17. Tiled' /\ \A i \in 1 .. Len(nodes)' : Within(nodes[i])'
    <3>1. Tiled /\ \A i \in 1 .. Len(nodes) : Within(nodes[i])
      BY <1>1 DEF Laid
    <3>2. QED BY <1>4, <3>1 DEF Tiled, Within, Stands, Behind, W
  <2>18. at' \in 1 .. Len(nodes') + 1 /\ Behind(Len(nodes))' = Len(text') + 1
    <3>1. Behind(Len(nodes)) = Len(text) + 1
      BY <1>1 DEF Laid
    <3>2. Behind(Len(nodes))' = Behind(Len(nodes))
      BY <1>4 DEF Behind
    <3>3. QED BY <1>3, <1>4, <1>9, <3>1, <3>2
  <2>19. at' \in 1 .. Len(text') + 1
    <3>1. Tiled
      BY <1>1 DEF Laid
    <3>2. Behind(at - 1) >= (at - 1) + 1
      BY <1>2, <1>3, <3>1, BehindNode
    <3>3. f >= at
      BY <1>3, <2>1, <2>10, <3>2
    <3>4. at <= Len(text)
      BY <1>2, <1>3, <2>2, <2>10, <3>3
    <3>5. QED BY <1>2, <1>3, <1>4, <1>9, <3>4
  <2>20. inDeclare' \in BOOLEAN
    <3>1. (n.kind = "Declare" \/ (inDeclare /\ n.kind # "Begin")) \in BOOLEAN
      OBVIOUS
    <3>2. QED BY <1>9, <3>1
  <2>21. TypeOK'
    BY <1>1, <1>4, <1>9, <2>3, <2>7, <2>19, <2>20 DEF TypeOK
  <2>22. Laid'
    BY <2>16, <2>17, <2>18 DEF Laid
  <2>23. QED BY <1>1, <1>4, <1>5, <1>9, <2>21, <2>22 DEF BodyInv
<1>10. QED BY <1>7, <1>8, <1>9

(* The whole text is laid out when the last node is. *)
LEMMA AllLaid ==
  ASSUME BodyInv, Finished
  PROVE  Respelled(Wrote(lines)) = Respelled(Words(1, Len(text)))
<1>1. Laid /\ TypeOK /\ at = Len(nodes) + 1
  BY DEF BodyInv, Finished
<1>2. Len(nodes) \in Nat /\ Len(text) \in Nat
  BY <1>1 DEF TypeOK
<1>3. at - 1 = Len(nodes) /\ (Len(text) + 1) - 1 = Len(text)
  BY <1>1, <1>2
<1>4. Behind(at - 1) - 1 = Len(text)
  BY <1>1, <1>3 DEF Laid
<1>5. QED BY <1>1, <1>4 DEF Laid

(* What is written is scanned to tokens. *)
LEMMA ScannedTyped ==
  ASSUME NEW ls \in Seq(Line)
  PROVE  FlattenSeq([i \in DOMAIN ls |-> Scanned(ls[i])]) \in Seq(Token)
<1>1. ASSUME NEW l \in Line PROVE Scanned(l) \in Seq(Token)
  <2>1. PICK ws, indent : ws = l.words /\ indent = l.indent
    OBVIOUS
  <2>2. ws \in Seq(Word) /\ indent \in Nat
    BY <2>1 DEF Line
  <2>3. ASSUME NEW i \in 1 .. Len(ws)
        PROVE  [word |-> ws[i], breaks |-> IF i > 1 THEN 0 ELSE IF l.blank THEN 2 ELSE 1,
                margin |-> IF i > 1 THEN 0 ELSE indent] \in Token
    <3>1. ws[i] \in Word
      BY <2>2
    <3>2. PICK b, m : /\ b = (IF i > 1 THEN 0 ELSE IF l.blank THEN 2 ELSE 1)
                      /\ m = (IF i > 1 THEN 0 ELSE indent)
      OBVIOUS
    <3>3. b \in 0 .. 2 /\ m \in Nat
      BY <2>2, <3>2
    <3>4. [word |-> ws[i], breaks |-> b, margin |-> m] \in Token
      BY <3>1, <3>3 DEF Token
    <3>5. QED BY <3>2, <3>4
  <2>4. DOMAIN ws = 1 .. Len(ws) /\ Len(ws) \in Nat
    BY <2>2
  <2>5. Scanned(l) = [i \in 1 .. Len(ws) |->
                        [word |-> ws[i], breaks |-> IF i > 1 THEN 0 ELSE IF l.blank THEN 2 ELSE 1,
                         margin |-> IF i > 1 THEN 0 ELSE indent]]
    BY <2>1, <2>4 DEF Scanned
  <2>6. Scanned(l) \in [1 .. Len(ws) -> Token]
    BY <2>3, <2>5
  <2>7. QED BY <2>4, <2>6
<1>2. PICK ps, n : ps = [i \in DOMAIN ls |-> Scanned(ls[i])] /\ n = Len(ls)
  OBVIOUS
<1>3. n \in Nat /\ DOMAIN ls = 1 .. n /\ \A i \in 1 .. n : ls[i] \in Line
  BY <1>2
<1>4. \A i \in 1 .. n : Scanned(ls[i]) \in Seq(Token)
  BY <1>1, <1>3
<1>5. PICK Q : Q = Seq(Token)
  OBVIOUS
<1>6. ps \in [1 .. n -> Q]
  BY <1>2, <1>3, <1>4, <1>5
<1>7. ps \in Seq(Q)
  BY <1>3, <1>6
<1>8. QED BY <1>2, <1>5, <1>7, FlattenTyped

(* What the first pass wrote holds the words of the source. *)
LEMMA SecondReading == BodyInv /\ SecondPass => BodyInv'
<1> SUFFICES ASSUME BodyInv, SecondPass PROVE BodyInv'
  OBVIOUS
<1>1. TypeOK /\ Finished /\ pass = 1 /\ text = source /\ result = "running"
  BY DEF BodyInv, SecondPass, Finished
<1>2. /\ written' = lines /\ text' = FlattenSeq([i \in DOMAIN lines |-> Scanned(lines[i])]) /\ pass' = 2
      /\ state' = "read" /\ at' = 1 /\ inDeclare' = FALSE
      /\ nodes' = <<>> /\ frames' = <<>> /\ lines' = <<>>
      /\ UNCHANGED <<source, units, result>>
  BY DEF SecondPass
<1>3. source \in Seq(Token) /\ lines \in Seq(Line)
  BY <1>1 DEF TypeOK
<1>4. text' \in Seq(Token)
  BY <1>2, <1>3, ScannedTyped
<1>5. TypeOK'
  <2>1. at' \in 1 .. Len(text') + 1
    BY <1>2, <1>4
  <2>2. nodes' \in Seq(Node) /\ frames' \in Seq(Frame) /\ lines' \in Seq(Line)
    BY <1>2
  <2>3. QED BY <1>1, <1>2, <1>4, <2>1, <2>2 DEF TypeOK
<1>6. Respelled(Wrote(written))' = Respelled(SourceWords)'
  <2>1. Words(1, Len(text)) = SourceWords
    <3>1. DOMAIN source = 1 .. Len(source) /\ Len(source) \in Nat
      BY <1>3
    <3>2. (Len(source) - 1) + 1 = Len(source) /\ \A k \in 1 .. Len(source) : 1 + k - 1 = k
      BY <3>1
    <3>3. Words(1, Len(text)) = [k \in 1 .. Len(source) |-> source[k].word]
      BY <1>1, <3>1, <3>2 DEF Words, W
    <3>4. QED BY <3>1, <3>3 DEF SourceWords
  <2>2. Respelled(Wrote(lines)) = Respelled(SourceWords)
    BY <1>1, <2>1, AllLaid
  <2>3. Respelled(Wrote(written))' = Respelled(Wrote(lines))
    BY <1>2 DEF Respelled, Wrote
  <2>4. Respelled(SourceWords)' = Respelled(SourceWords)
    BY <1>2 DEF Respelled, SourceWords
  <2>5. QED BY <2>2, <2>3, <2>4
<1>7. Read'
  <2>1. Len(nodes)' = 0
    BY <1>2
  <2>2. QED BY <1>2, <2>1 DEF Read, Tiled, Behind
<1>8. QED BY <1>1, <1>2, <1>5, <1>6, <1>7 DEF BodyInv

(* A body is accepted by its second pass only. *)
LEMMA BodyEnds == BodyInv /\ End => BodyInv'
<1> SUFFICES ASSUME BodyInv, End PROVE BodyInv'
  OBVIOUS
<1>1. /\ TypeOK /\ state = "lay" /\ result = "running" /\ (pass = 1 => text = source)
      /\ (pass = 2 => Respelled(Wrote(written)) = Respelled(SourceWords))
  BY DEF BodyInv, End, Finished
<1>2. UNCHANGED <<source, units, text, pass, written, at, inDeclare, nodes, frames, lines>>
  BY DEF End, body
<1>3. state' = "done" /\ (result' = "unbalanced" \/ (pass = 2 /\ result' \in {"unstable", "ok"}))
  BY DEF End, Stop
<1>4. TypeOK'
  BY <1>1, <1>2, <1>3 DEF TypeOK
<1>5. SourceWords' = SourceWords /\ Wrote(written)' = Wrote(written)
  BY <1>2 DEF SourceWords, Wrote
<1>6. QED BY <1>1, <1>2, <1>3, <1>4, <1>5 DEF BodyInv

(* Where nothing happens nothing changes. *)
LEMMA BodyStutters == BodyInv /\ UNCHANGED vars => BodyInv'
<1> SUFFICES ASSUME BodyInv, UNCHANGED vars PROVE BodyInv'
  OBVIOUS
<1>1. UNCHANGED <<source, units, text, pass, state, at, inDeclare, nodes, frames, lines, written, result>>
  BY DEF vars
<1>2. TypeOK'
  BY <1>1 DEF TypeOK, BodyInv
<1>3. SourceWords' = SourceWords /\ Wrote(written)' = Wrote(written)
  BY <1>1 DEF SourceWords, Wrote
<1>4. Read => Read'
  BY <1>1 DEF Read, Tiled, Unbound, Stands, Behind, W
<1>5. Laid => Laid'
  <2>1. Tiled => Tiled'
    BY <1>1 DEF Tiled, Stands, Behind, W
  <2>2. Respelled(Wrote(lines))' = Respelled(Wrote(lines))
    BY <1>1 DEF Respelled, Wrote
  <2>3. Respelled(Words(1, Behind(at - 1) - 1))' = Respelled(Words(1, Behind(at - 1) - 1))
    BY <1>1 DEF Respelled, Words, Behind, W
  <2>4. Behind(Len(nodes))' = Behind(Len(nodes)) /\ \A i : Within(nodes[i])' <=> Within(nodes[i])
    BY <1>1 DEF Behind, Within
  <2>5. QED BY <1>1, <2>1, <2>2, <2>3, <2>4 DEF Laid
<1>6. QED BY <1>1, <1>2, <1>3, <1>4, <1>5 DEF BodyInv

(* The inductive invariant of formatting a body: the nodes hold its tokens *)
(* one after the other, the INTO clause bound to a leaf lies in it, and    *)
(* what is laid out holds the words of the nodes laid out.                 *)
THEOREM BodyInvariant == Spec => []BodyInv
<1>1. BodyInv /\ [Next]_vars => BodyInv'
  BY CommentRead, NodeRead, LeavesBound, NodeLaid, SecondReading, BodyEnds, BodyStutters DEF Next
<1>2. QED BY <1>1, InvInit, PTL DEF Spec

(* Every variable keeps its type and no word or comment of an accepted     *)
(* body is lost, doubled or moved - not by the removal and return of INTO  *)
(* clauses, not where the reader takes the structure wrongly.              *)
THEOREM WordsAndTypesKept == Spec => []TriviaKept
<1>1. BodyInv => TriviaKept
  <2> SUFFICES ASSUME BodyInv PROVE TriviaKept
    OBVIOUS
  <2>1. TypeOK
    BY DEF BodyInv
  <2>2. WordsKept
    <3>1. SUFFICES ASSUME Accepted PROVE Respelled(Wrote(written)) = Respelled(SourceWords)
      BY DEF WordsKept, Wrote
    <3>2. pass = 2
      BY <3>1 DEF Accepted, BodyInv
    <3>3. QED BY <3>2 DEF BodyInv
  <2>3. QED BY <2>1, <2>2 DEF TriviaKept
<1>2. QED BY <1>1, BodyInvariant, PTL
=============================================================================
