---------------------------- MODULE TokenProofs ----------------------------
(***************************************************************************)
(* What is promised of a statement's tokens, for any number of them.       *)
(*                                                                         *)
(* Structure: the one pass that pairs parentheses keeps on its stack       *)
(* exactly the openings that nothing has closed, so depths, partners and   *)
(* ancestors are those of the nesting; clause and join starts are the      *)
(* words of the clause's own level.                                        *)
(*                                                                         *)
(* Rendering: whatever the planners plan, a layout keeps every token and   *)
(* leaves every comment on the line of what precedes it or on a line of    *)
(* its own, as its author put it (render_plan of semantic_block.rs): for   *)
(* every statement, any options and any plan of line breaks.               *)
(***************************************************************************)
EXTENDS TokenCalls, StatementPasses, DataInduction, FiniteSetTheorems

(***************************************************************************)
(* Counting tokens.                                                        *)
(***************************************************************************)
Kinds(t, S, i, j) == {k \in i .. j : t[k] \in S}

(* Few tokens are counted.                                                 *)
LEMMA KindsFinite ==
  ASSUME NEW t, NEW S, NEW i \in Int, NEW j \in Int
  PROVE  IsFiniteSet(Kinds(t, S, i, j)) /\ Count(t, S, i, j) = Cardinality(Kinds(t, S, i, j)) /\ Count(t, S, i, j) \in Nat
<1>1. PICK T : T = Kinds(t, S, i, j)
  OBVIOUS
<1>2. IsFiniteSet(i .. j) /\ T \in SUBSET (i .. j)
  BY <1>1, FS_Interval DEF Kinds
<1>3. IsFiniteSet(T)
  BY <1>2, FS_Subset
<1>4. Cardinality(T) \in Nat
  BY <1>3, FS_CardinalityType
<1>5. Count(t, S, i, j) = Cardinality(T)
  BY <1>1 DEF Count, Kinds
<1>6. QED BY <1>1, <1>3, <1>4, <1>5

(* Of no tokens none is counted.                                           *)
LEMMA CountNone ==
  ASSUME NEW t, NEW S, NEW i \in Int, NEW j \in Int, j < i
  PROVE  Count(t, S, i, j) = 0
<1>1. Kinds(t, S, i, j) = {}
  BY DEF Kinds
<1>2. QED BY <1>1, KindsFinite, FS_EmptySet

(* One token more.                                                         *)
LEMMA CountNext ==
  ASSUME NEW t, NEW S, NEW i \in Int, NEW j \in Int, i <= j
  PROVE  Count(t, S, i, j) = Count(t, S, i, j - 1) + IF t[j] \in S THEN 1 ELSE 0
<1>0. PICK l : l = j - 1
  OBVIOUS
<1>00. l \in Int /\ l < j
  BY <1>0
<1>1. PICK T, U : T = Kinds(t, S, i, j) /\ U = Kinds(t, S, i, l)
  OBVIOUS
<1>2. j \notin U
  BY <1>00, <1>1 DEF Kinds
<1>3. IsFiniteSet(U) /\ Count(t, S, i, l) = Cardinality(U) /\ Cardinality(U) \in Nat
  <2>1. IsFiniteSet(Kinds(t, S, i, l)) /\ Count(t, S, i, l) = Cardinality(Kinds(t, S, i, l)) /\ Count(t, S, i, l) \in Nat
    BY <1>00, KindsFinite
  <2>2. QED BY <1>1, <2>1
<1>4. Count(t, S, i, j) = Cardinality(T)
  <2>1. Count(t, S, i, j) = Cardinality(Kinds(t, S, i, j))
    BY KindsFinite
  <2>2. QED BY <1>1, <2>1
<1>5. CASE t[j] \in S
  <2>1. T = U \cup {j}
    BY <1>0, <1>1, <1>5 DEF Kinds
  <2>2. Cardinality(U \cup {j}) = Cardinality(U) + 1
    BY <1>2, <1>3, FS_AddElement
  <2>3. QED BY <1>0, <1>3, <1>4, <1>5, <2>1, <2>2
<1>6. CASE t[j] \notin S
  <2>1. T = U
    BY <1>0, <1>1, <1>6 DEF Kinds
  <2>2. QED BY <1>0, <1>3, <1>4, <1>6, <2>1
<1>7. QED BY <1>5, <1>6

(* The tokens up to j are those before i and those from i on.              *)
LEMMA CountParts ==
  ASSUME NEW t, NEW S, NEW i \in Nat \ {0}, NEW n \in Nat, i <= n
  PROVE  \A j \in i - 1 .. n : Count(t, S, i, j) = Count(t, S, 1, j) - Count(t, S, 1, i - 1)
<1> DEFINE T == {k \in 0 .. n - i + 1 : Count(t, S, i, i - 1 + k) = Count(t, S, 1, i - 1 + k) - Count(t, S, 1, i - 1)}
<1>1. 0 \in T
  <2>1. Count(t, S, i, i - 1) = 0
    BY CountNone
  <2>2. Count(t, S, 1, i - 1) \in Nat
    BY KindsFinite
  <2>3. i - 1 + 0 = i - 1 /\ 0 \in 0 .. n - i + 1
    OBVIOUS
  <2>4. QED BY <2>1, <2>2, <2>3
<1>2. ASSUME NEW k \in 0 .. n - i + 1 - 1, k \in T PROVE k + 1 \in T
  <2>1. PICK j : j = i + k
    OBVIOUS
  <2>2. j \in Int /\ i <= j /\ 1 <= j /\ j - 1 = i - 1 + k /\ j = i - 1 + (k + 1) /\ k + 1 \in 0 .. n - i + 1
    BY <2>1
  <2>3. PICK a, b, c, d, e : /\ a = Count(t, S, i, j) /\ b = Count(t, S, i, j - 1) /\ c = Count(t, S, 1, j)
                             /\ d = Count(t, S, 1, j - 1) /\ e = Count(t, S, 1, i - 1)
    OBVIOUS
  <2>4. a \in Nat /\ b \in Nat /\ c \in Nat /\ d \in Nat /\ e \in Nat
    BY <2>2, <2>3, KindsFinite
  <2>5. b = d - e
    BY <1>2, <2>2, <2>3
  <2>6. a = b + IF t[j] \in S THEN 1 ELSE 0
    BY <2>2, <2>3, CountNext
  <2>7. c = d + IF t[j] \in S THEN 1 ELSE 0
    BY <2>2, <2>3, CountNext
  <2>8. a = c - e
    BY <2>4, <2>5, <2>6, <2>7
  <2>9. QED BY <2>2, <2>3, <2>8
<1> HIDE DEF T
<1>3. 0 .. n - i + 1 \subseteq T
  <2>1. n - i + 1 \in Nat
    OBVIOUS
  <2>2. QED BY <1>1, <1>2, <2>1, Ascent
<1>4. ASSUME NEW j \in i - 1 .. n PROVE Count(t, S, i, j) = Count(t, S, 1, j) - Count(t, S, 1, i - 1)
  <2>1. j - i + 1 \in 0 .. n - i + 1 /\ i - 1 + (j - i + 1) = j
    OBVIOUS
  <2>2. j - i + 1 \in T
    BY <1>3, <2>1
  <2>3. QED BY <2>1, <2>2 DEF T
<1>5. QED BY <1>4

(* Tokens of two kinds are those of the one and those of the other.        *)
CountsAdd(t, S, R, n) == \A j \in 0 .. n : Count(t, S \cup R, 1, j) = Count(t, S, 1, j) + Count(t, R, 1, j)

(* ... for kinds that have nothing in common.                              *)
LEMMA CountBoth ==
  ASSUME NEW t, NEW S, NEW R, S \cap R = {}, NEW n \in Nat
  PROVE  CountsAdd(t, S, R, n)
<1> DEFINE T == {j \in 0 .. n : Count(t, S \cup R, 1, j) = Count(t, S, 1, j) + Count(t, R, 1, j)}
<1>1. 0 \in T
  BY CountNone
<1>2. ASSUME NEW i \in 0 .. n - 1, i \in T PROVE i + 1 \in T
  <2>1. PICK j : j = i + 1
    OBVIOUS
  <2>2. j \in Int /\ 1 <= j /\ j - 1 = i /\ j \in 0 .. n
    BY <2>1
  <2>3. PICK a, b, c : a = Count(t, S \cup R, 1, i) /\ b = Count(t, S, 1, i) /\ c = Count(t, R, 1, i)
    OBVIOUS
  <2>4. a \in Nat /\ b \in Nat /\ c \in Nat /\ a = b + c
    BY <1>2, <2>3, KindsFinite
  <2>5. /\ Count(t, S \cup R, 1, j) = a + IF t[j] \in S \cup R THEN 1 ELSE 0
        /\ Count(t, S, 1, j) = b + IF t[j] \in S THEN 1 ELSE 0
        /\ Count(t, R, 1, j) = c + IF t[j] \in R THEN 1 ELSE 0
    BY <2>2, <2>3, CountNext
  <2>6. Count(t, S \cup R, 1, j) = Count(t, S, 1, j) + Count(t, R, 1, j)
    BY <2>4, <2>5
  <2>7. QED BY <2>1, <2>2, <2>6
<1> HIDE DEF T
<1>3. 0 .. n \subseteq T
  BY <1>1, <1>2, Ascent
<1>4. QED BY <1>3 DEF T, CountsAdd

(***************************************************************************)
(* How many are open.                                                      *)
(***************************************************************************)
(* h[i] are open behind token i, and partners close as many as they open.  *)
Heights(t, n, h) ==
  /\ n = Len(t) /\ n \in Nat /\ h \in [0 .. n -> Nat] /\ h[0] = 0 /\ h[n] = 0
  /\ \A i \in 1 .. n : h[i] = h[i - 1] + (IF t[i] \in Opens THEN 1 ELSE IF t[i] \in Closes THEN -1 ELSE 0)
  /\ \A o \in 1 .. n : Partner(t, o) = Min({j \in o .. n : h[j] = h[o - 1]})

(* A balanced text has such heights.                                       *)
LEMMA HeightsExist ==
  ASSUME NEW t \in Seq(STRING), Balanced(t)
  PROVE  \E h : Heights(t, Len(t), h)
<1>1. PICK n, up, dn : n = Len(t) /\ up = [i \in 0 .. n |-> Count(t, Opens, 1, i)] /\ dn = [i \in 0 .. n |-> Count(t, Closes, 1, i)]
  OBVIOUS
<1>2. n \in Nat /\ \A i \in 0 .. n : up[i] \in Nat /\ dn[i] \in Nat
  BY <1>1, KindsFinite
<1>3. PICK h : h = [i \in 0 .. n |-> up[i] - dn[i]]
  OBVIOUS
<1>4. \A i \in 0 .. n : h[i] \in Nat
  <2>1. ASSUME NEW i \in 0 .. n PROVE up[i] >= dn[i]
    <3>1. PICK a, b, c, d : /\ a = Count(t, {"("}, 1, i) /\ b = Count(t, {"["}, 1, i)
                            /\ c = Count(t, {")"}, 1, i) /\ d = Count(t, {"]"}, 1, i)
      OBVIOUS
    <3>2. a >= c /\ b >= d
      BY <1>1, <3>1 DEF Balanced
    <3>3. Opens = {"("} \cup {"["} /\ {"("} \cap {"["} = {} /\ Closes = {")"} \cup {"]"} /\ {")"} \cap {"]"} = {}
      BY DEF Opens, Closes
    <3>4. up[i] = a + b
      <4>1. PICK S, R : S = {"("} /\ R = {"["}
        OBVIOUS
      <4>2. \A j \in 0 .. n : Count(t, S \cup R, 1, j) = Count(t, S, 1, j) + Count(t, R, 1, j)
        <5>1. S \cap R = {} /\ n \in Nat
          BY <1>2, <4>1
        <5>2. CountsAdd(t, S, R, n)
          BY <5>1, CountBoth
        <5>3. QED BY <5>2 DEF CountsAdd
      <4>3. QED BY <1>1, <3>1, <3>3, <4>1, <4>2
    <3>5. dn[i] = c + d
      <4>1. PICK S, R : S = {")"} /\ R = {"]"}
        OBVIOUS
      <4>2. \A j \in 0 .. n : Count(t, S \cup R, 1, j) = Count(t, S, 1, j) + Count(t, R, 1, j)
        <5>1. S \cap R = {} /\ n \in Nat
          BY <1>2, <4>1
        <5>2. CountsAdd(t, S, R, n)
          BY <5>1, CountBoth
        <5>3. QED BY <5>2 DEF CountsAdd
      <4>3. QED BY <1>1, <3>1, <3>3, <4>1, <4>2
    <3>6. a \in Nat /\ b \in Nat /\ c \in Nat /\ d \in Nat
      BY <3>1, KindsFinite
    <3>7. QED BY <3>2, <3>4, <3>5, <3>6
  <2>2. QED BY <1>2, <1>3, <2>1
<1>5. h[0] = 0 /\ h[n] = 0
  <2>1. up[0] = 0 /\ dn[0] = 0
    BY <1>1, <1>2, CountNone
  <2>2. up[n] = dn[n]
    BY <1>1, <1>2 DEF Balanced
  <2>3. QED BY <1>2, <1>3, <2>1, <2>2
<1>6. ASSUME NEW i \in 1 .. n
      PROVE  h[i] = h[i - 1] + (IF t[i] \in Opens THEN 1 ELSE IF t[i] \in Closes THEN -1 ELSE 0)
  <2>1. i \in Int /\ 1 <= i /\ i - 1 \in 0 .. n /\ i \in 0 .. n
    BY <1>2
  <2>2. up[i] = up[i - 1] + IF t[i] \in Opens THEN 1 ELSE 0
    BY <1>1, <2>1, CountNext
  <2>3. dn[i] = dn[i - 1] + IF t[i] \in Closes THEN 1 ELSE 0
    BY <1>1, <2>1, CountNext
  <2>4. ~ (t[i] \in Opens /\ t[i] \in Closes)
    BY DEF Opens, Closes
  <2>5. h[i] = up[i] - dn[i] /\ h[i - 1] = up[i - 1] - dn[i - 1]
    BY <1>3, <2>1
  <2>6. up[i - 1] \in Nat /\ dn[i - 1] \in Nat
    BY <1>2, <2>1
  <2>7. QED BY <2>2, <2>3, <2>4, <2>5, <2>6
<1>7. ASSUME NEW o \in 1 .. n
      PROVE  Partner(t, o) = Min({j \in o .. n : h[j] = h[o - 1]})
  <2>1. ASSUME NEW j \in o .. n
        PROVE  (Count(t, Opens, o, j) = Count(t, Closes, o, j)) = (h[j] = h[o - 1])
    <3>1. o \in Nat \ {0} /\ o <= n /\ j \in o - 1 .. n /\ j \in 0 .. n /\ o - 1 \in 0 .. n
      BY <1>2
    <3>2. Count(t, Opens, o, j) = up[j] - up[o - 1]
      <4>1. Count(t, Opens, o, j) = Count(t, Opens, 1, j) - Count(t, Opens, 1, o - 1)
        BY <1>2, <3>1, CountParts
      <4>2. QED BY <1>1, <3>1, <4>1
    <3>3. Count(t, Closes, o, j) = dn[j] - dn[o - 1]
      <4>1. Count(t, Closes, o, j) = Count(t, Closes, 1, j) - Count(t, Closes, 1, o - 1)
        BY <1>2, <3>1, CountParts
      <4>2. QED BY <1>1, <3>1, <4>1
    <3>4. h[j] = up[j] - dn[j] /\ h[o - 1] = up[o - 1] - dn[o - 1]
      BY <1>3, <3>1
    <3>5. up[j] \in Nat /\ dn[j] \in Nat /\ up[o - 1] \in Nat /\ dn[o - 1] \in Nat
      BY <1>2, <3>1
    <3>6. (up[j] - up[o - 1] = dn[j] - dn[o - 1]) = (up[j] - dn[j] = up[o - 1] - dn[o - 1])
      BY <3>5
    <3>7. QED BY <3>2, <3>3, <3>4, <3>6
  <2>2. {j \in o .. n : Count(t, Opens, o, j) = Count(t, Closes, o, j)} = {j \in o .. n : h[j] = h[o - 1]}
    BY <2>1
  <2>3. QED BY <1>1, <2>2 DEF Partner
<1>8. h \in [0 .. n -> Nat]
  BY <1>3, <1>4
<1>9. Heights(t, n, h)
  BY <1>1, <1>2, <1>5, <1>6, <1>7, <1>8 DEF Heights
<1>10. QED BY <1>1, <1>9

(***************************************************************************)
(* Pairs.                                                                  *)
(***************************************************************************)
(* p closes what o opens, and what lies between them is deeper.            *)
Matched(t, n, h, o, p) ==
  /\ p \in o + 1 .. n /\ t[p] \in Closes /\ h[p] = h[o - 1] /\ h[o] = h[o - 1] + 1
  /\ \A k \in o .. p - 1 : h[k] >= h[o]

(* The partner of an opening token is the first token as low as the one    *)
(* before it.                                                              *)
LEMMA PartnerMatches ==
  ASSUME NEW t, NEW n, NEW h, Heights(t, n, h), NEW o \in 1 .. n, t[o] \in Opens
  PROVE  Matched(t, n, h, o, Partner(t, o))
<1>1. /\ n \in Nat /\ h \in [0 .. n -> Nat] /\ h[n] = 0
      /\ \A i \in 1 .. n : h[i] = h[i - 1] + (IF t[i] \in Opens THEN 1 ELSE IF t[i] \in Closes THEN -1 ELSE 0)
      /\ Partner(t, o) = Min({j \in o .. n : h[j] = h[o - 1]})
  BY DEF Heights
<1>2. PICK T : T = {j \in o .. n : h[j] <= h[o - 1]}
  OBVIOUS
<1>3. T \in SUBSET Nat /\ n \in T
  <2>1. o - 1 \in 0 .. n
    BY <1>1
  <2>2. h[o - 1] \in Nat
    BY <1>1, <2>1
  <2>3. QED BY <1>1, <1>2, <2>2
<1>4. PICK p \in T : \A k \in T : p <= k
  BY <1>3, LeastNatural
<1>5. h[o] = h[o - 1] + 1
  BY <1>1
<1>6. p \in o + 1 .. n /\ o - 1 \in 0 .. n /\ o \in 0 .. n /\ p \in 0 .. n /\ p - 1 \in o .. n /\ p - 1 \in 0 .. n
  <2>1. p \in o .. n /\ h[p] <= h[o - 1]
    BY <1>2, <1>4
  <2>2. o - 1 \in 0 .. n /\ h[o - 1] \in Nat
    BY <1>1
  <2>3. p # o
    BY <1>5, <2>1, <2>2
  <2>4. QED BY <1>1, <2>1, <2>2, <2>3
<1>7. ASSUME NEW k \in o .. p - 1 PROVE h[k] >= h[o]
  <2>1. k \in o .. n /\ k < p /\ k \in 0 .. n
    BY <1>1, <1>6
  <2>2. ~ (h[k] <= h[o - 1])
    BY <1>2, <1>4, <1>6, <2>1
  <2>3. h[k] \in Nat /\ h[o - 1] \in Nat
    BY <1>1, <1>6, <2>1
  <2>4. QED BY <1>5, <2>2, <2>3
<1>8. h[p] = h[o - 1] /\ t[p] \in Closes
  <2>1. h[p - 1] >= h[o] /\ h[p] <= h[o - 1]
    BY <1>2, <1>4, <1>6, <1>7
  <2>2. p \in 1 .. n
    BY <1>6
  <2>3. h[p] = h[p - 1] + (IF t[p] \in Opens THEN 1 ELSE IF t[p] \in Closes THEN -1 ELSE 0)
    BY <1>1, <2>2
  <2>4. h[p] \in Nat /\ h[p - 1] \in Nat /\ h[o - 1] \in Nat
    BY <1>1, <1>6
  <2>5. QED BY <1>5, <2>1, <2>3, <2>4
<1>9. Partner(t, o) = p
  <2>1. PICK V : V = {j \in o .. n : h[j] = h[o - 1]}
    OBVIOUS
  <2>2. p \in V /\ V \in SUBSET T
    <3>1. h[o - 1] \in Nat
      BY <1>1, <1>6
    <3>2. QED BY <1>2, <1>6, <1>8, <2>1, <3>1
  <2>3. \A k \in V : p <= k
    BY <1>4, <2>2
  <2>4. V \in SUBSET Nat /\ V # {}
    BY <1>3, <2>2
  <2>5. PICK m : m = CHOOSE i \in V : \A j \in V : i <= j
    OBVIOUS
  <2>6. m \in V /\ \A j \in V : m <= j
    BY <2>4, <2>5, LeastChosen
  <2>7. m = p
    <3>1. m \in Nat /\ p \in Nat /\ m <= p /\ p <= m
      BY <2>2, <2>3, <2>4, <2>6
    <3>2. QED BY <3>1
  <2>8. QED BY <1>1, <2>1, <2>5, <2>7 DEF Min
<1>10. QED BY <1>5, <1>6, <1>7, <1>8, <1>9 DEF Matched

(* Pairs lie within each other or apart.                                   *)
LEMMA PairsNest ==
  ASSUME NEW t, NEW n, NEW h, Heights(t, n, h), NEW o \in 1 .. n, NEW u \in 1 .. n,
         t[o] \in Opens, t[u] \in Opens, o < u, u < Partner(t, o)
  PROVE  Partner(t, u) < Partner(t, o)
<1>1. PICK p, q : p = Partner(t, o) /\ q = Partner(t, u)
  OBVIOUS
<1>2. /\ p \in o + 1 .. n /\ h[p] = h[o - 1] /\ h[o] = h[o - 1] + 1
      /\ \A k \in o .. p - 1 : h[k] >= h[o]
  <2>1. Matched(t, n, h, o, p)
    BY <1>1, PartnerMatches
  <2>2. QED BY <2>1 DEF Matched
<1>3. /\ q \in u + 1 .. n /\ h[q] = h[u - 1] /\ h[u] = h[u - 1] + 1
      /\ \A k \in u .. q - 1 : h[k] >= h[u]
  <2>1. Matched(t, n, h, u, q)
    BY <1>1, PartnerMatches
  <2>2. QED BY <2>1 DEF Matched
<1>4. n \in Nat /\ h \in [0 .. n -> Nat]
  BY DEF Heights
<1>5. /\ u - 1 \in o .. p - 1 /\ o - 1 \in 0 .. n /\ u - 1 \in 0 .. n
      /\ o \in Nat /\ u \in Nat /\ p \in Nat /\ q \in Nat /\ p \in 0 .. n
  <2>1. u < p
    BY <1>1
  <2>2. o \in Nat /\ u \in Nat /\ p \in Nat
    BY <1>2, <1>4
  <2>3. QED BY <1>2, <1>3, <1>4, <2>1, <2>2
<1>6. h[u - 1] > h[o - 1] /\ h[o - 1] \in Nat /\ h[u - 1] \in Nat
  BY <1>2, <1>4, <1>5
<1>7. q # p
  BY <1>2, <1>3, <1>6
<1>8. ~ (p < q)
  <2>1. SUFFICES ASSUME p < q PROVE FALSE
    OBVIOUS
  <2>2. p \in u .. q - 1
    BY <1>1, <1>5, <2>1
  <2>3. h[p] >= h[u]
    BY <1>3, <2>2
  <2>4. QED BY <1>2, <1>3, <1>6, <2>3
<1>9. QED BY <1>1, <1>5, <1>7, <1>8

(* ... so that no two have their partner in common.                        *)
LEMMA PairsApart ==
  ASSUME NEW t, NEW n, NEW h, Heights(t, n, h), NEW o \in 1 .. n, NEW u \in 1 .. n,
         t[o] \in Opens, t[u] \in Opens, Partner(t, o) = Partner(t, u)
  PROVE  o = u
<1>1. PICK p, q : p = Partner(t, o) /\ q = Partner(t, u)
  OBVIOUS
<1>2. p \in o + 1 .. n /\ q \in u + 1 .. n
  BY <1>1, PartnerMatches DEF Matched
<1>3. n \in Nat
  BY DEF Heights
<1>4. p \in Nat /\ q = p /\ o < p /\ u < p /\ o \in Nat /\ u \in Nat
  BY <1>1, <1>2, <1>3
<1>5. o < u => q < p
  BY <1>1, <1>4, PairsNest
<1>6. u < o => p < q
  BY <1>1, <1>4, PairsNest
<1>7. QED BY <1>4, <1>5, <1>6

(* Every closing token is the partner of one before it.                    *)
LEMMA PartnerOfSome ==
  ASSUME NEW t, NEW n, NEW h, Heights(t, n, h), NEW c \in 1 .. n, t[c] \in Closes
  PROVE  \E o \in 1 .. c - 1 : t[o] \in Opens /\ Partner(t, o) = c
<1>1. /\ n \in Nat /\ h \in [0 .. n -> Nat] /\ h[0] = 0
      /\ \A i \in 1 .. n : h[i] = h[i - 1] + (IF t[i] \in Opens THEN 1 ELSE IF t[i] \in Closes THEN -1 ELSE 0)
  BY DEF Heights
<1>2. PICK T : T = {j \in 0 .. c - 1 : h[j] <= h[c]}
  OBVIOUS
<1>3. c - 1 \in Nat /\ c \in 0 .. n /\ c - 1 \in 0 .. n
  BY <1>1
<1>4. h[c] \in Nat /\ h[c - 1] \in Nat /\ h[c - 1] = h[c] + 1
  <2>1. ~ (t[c] \in Opens)
    BY DEF Opens, Closes
  <2>2. h[c] \in Nat /\ h[c - 1] \in Nat
    BY <1>1, <1>3
  <2>3. QED BY <1>1, <2>1, <2>2
<1>5. 0 \in T /\ T \in SUBSET (0 .. c - 1)
  BY <1>1, <1>2, <1>3, <1>4
<1>6. PICK m \in T : \A k \in T : k <= m
  BY <1>3, <1>5, GreatestNatural
<1>7. m \in 0 .. c - 1 /\ h[m] <= h[c] /\ m # c - 1
  BY <1>2, <1>4, <1>6
<1>8. PICK o : o = m + 1
  OBVIOUS
<1>9. o \in 1 .. c - 1 /\ o \in 1 .. n /\ o - 1 = m /\ o \in 0 .. n /\ m \in 0 .. n /\ o \in 0 .. c - 1
  BY <1>1, <1>3, <1>7, <1>8
<1>10. h[o] \in Nat /\ h[m] \in Nat /\ h[o] > h[c]
  <2>1. h[o] \in Nat /\ h[m] \in Nat
    BY <1>1, <1>9
  <2>2. o \notin T
    BY <1>6, <1>8, <1>9
  <2>3. QED BY <1>2, <1>4, <1>9, <2>1, <2>2
<1>11. t[o] \in Opens /\ h[m] = h[c]
  <2>1. h[o] = h[m] + (IF t[o] \in Opens THEN 1 ELSE IF t[o] \in Closes THEN -1 ELSE 0)
    BY <1>1, <1>9
  <2>2. QED BY <1>4, <1>7, <1>10, <2>1
<1>12. PICK p : p = Partner(t, o)
  OBVIOUS
<1>13. /\ p \in o + 1 .. n /\ h[p] = h[m] /\ h[o] = h[m] + 1
       /\ \A k \in o .. p - 1 : h[k] >= h[o]
  <2>1. Matched(t, n, h, o, p)
    BY <1>9, <1>11, <1>12, PartnerMatches
  <2>2. QED BY <1>9, <2>1 DEF Matched
<1>14. ~ (c < p)
  <2>1. SUFFICES ASSUME c < p PROVE FALSE
    OBVIOUS
  <2>2. c \in o .. p - 1
    BY <1>9, <1>13, <2>1
  <2>3. h[c] >= h[o]
    BY <1>13, <2>2
  <2>4. QED BY <1>4, <1>10, <2>3
<1>15. ~ (p < c)
  <2>1. SUFFICES ASSUME p < c PROVE FALSE
    OBVIOUS
  <2>2. p \in 0 .. c - 1 /\ h[p] <= h[c] /\ p > m
    BY <1>4, <1>9, <1>11, <1>13, <2>1
  <2>3. p \in T
    BY <1>2, <2>2
  <2>4. QED BY <1>6, <1>7, <2>2, <2>3
<1>16. p = c
  BY <1>9, <1>13, <1>14, <1>15
<1>17. QED BY <1>9, <1>11, <1>12, <1>16

(***************************************************************************)
(* What is open.                                                           *)
(***************************************************************************)
(* The tokens that have opened up to token i and have not closed.          *)
OpenAt(t, i) == {o \in 1 .. i : t[o] \in Opens /\ Partner(t, o) > i}

(* An opening token is open behind itself.                                 *)
LEMMA OpenedNext ==
  ASSUME NEW t, NEW n, NEW h, Heights(t, n, h), NEW i \in 1 .. n, t[i] \in Opens
  PROVE  OpenAt(t, i) = OpenAt(t, i - 1) \cup {i}
<1>1. ASSUME NEW o \in 1 .. i, t[o] \in Opens
      PROVE  (Partner(t, o) > i) = (o = i \/ Partner(t, o) > i - 1) /\ (o # i => o \in 1 .. i - 1)
  <2>1. PICK p : p = Partner(t, o)
    OBVIOUS
  <2>2. n \in Nat /\ o \in 1 .. n
    BY DEF Heights
  <2>3. p \in o + 1 .. n /\ t[p] \in Closes
    BY <1>1, <2>1, <2>2, PartnerMatches DEF Matched
  <2>4. p # i
    BY <2>3 DEF Opens, Closes
  <2>5. (p > i) = (o = i \/ p > i - 1)
    BY <2>2, <2>3, <2>4
  <2>6. QED BY <2>1, <2>5
<1>2. \A o \in OpenAt(t, i - 1) : o \in 1 .. i /\ t[o] \in Opens /\ Partner(t, o) > i - 1
  BY DEF OpenAt
<1>3. OpenAt(t, i) \subseteq OpenAt(t, i - 1) \cup {i}
  BY <1>1 DEF OpenAt
<1>4. OpenAt(t, i - 1) \cup {i} \subseteq OpenAt(t, i)
  BY <1>1, <1>2 DEF OpenAt
<1>5. QED BY <1>3, <1>4

(* Others change nothing.                                                  *)
LEMMA OpenedKept ==
  ASSUME NEW t, NEW n, NEW h, Heights(t, n, h), NEW i \in 1 .. n, t[i] \notin Opens, t[i] \notin Closes
  PROVE  OpenAt(t, i) = OpenAt(t, i - 1)
<1>1. ASSUME NEW o \in 1 .. i, t[o] \in Opens
      PROVE  (Partner(t, o) > i) = (Partner(t, o) > i - 1) /\ o \in 1 .. i - 1
  <2>1. PICK p : p = Partner(t, o)
    OBVIOUS
  <2>2. n \in Nat /\ o \in 1 .. n /\ o # i
    BY <1>1 DEF Heights
  <2>3. p \in o + 1 .. n /\ t[p] \in Closes
    BY <1>1, <2>1, <2>2, PartnerMatches DEF Matched
  <2>4. p # i
    BY <2>3
  <2>5. (p > i) = (p > i - 1)
    BY <2>2, <2>3, <2>4
  <2>6. QED BY <2>1, <2>2, <2>5
<1>2. \A o \in OpenAt(t, i - 1) : o \in 1 .. i /\ t[o] \in Opens /\ Partner(t, o) > i - 1
  BY DEF OpenAt
<1>3. OpenAt(t, i) \subseteq OpenAt(t, i - 1)
  BY <1>1 DEF OpenAt
<1>4. OpenAt(t, i - 1) \subseteq OpenAt(t, i)
  BY <1>1, <1>2 DEF OpenAt
<1>5. QED BY <1>3, <1>4

(* A closing token takes the innermost open one away, and no other.        *)
ClosesOnly(t, i, o) ==
  /\ o \in OpenAt(t, i - 1) /\ Partner(t, o) = i
  /\ OpenAt(t, i) = OpenAt(t, i - 1) \ {o}
  /\ \A u \in OpenAt(t, i) : u < o

(* Every closing token does.                                               *)
LEMMA ClosedNext ==
  ASSUME NEW t, NEW n, NEW h, Heights(t, n, h), NEW i \in 1 .. n, t[i] \in Closes
  PROVE  \E o : ClosesOnly(t, i, o)
<1>1. PICK o \in 1 .. i - 1 : t[o] \in Opens /\ Partner(t, o) = i
  BY PartnerOfSome
<1>2. n \in Nat /\ o \in 1 .. n /\ t[i] \notin Opens
  BY DEF Heights, Opens, Closes
<1>3. ASSUME NEW u \in 1 .. i, t[u] \in Opens
      PROVE  u \in 1 .. i - 1 /\ (Partner(t, u) > i) = (Partner(t, u) > i - 1 /\ u # o)
  <2>1. PICK p : p = Partner(t, u)
    OBVIOUS
  <2>2. u \in 1 .. n /\ u # i
    BY <1>2, <1>3
  <2>3. p \in u + 1 .. n
    BY <1>3, <2>1, <2>2, PartnerMatches DEF Matched
  <2>4. p = i => u = o
    BY <1>1, <1>2, <1>3, <2>1, <2>2, PairsApart
  <2>5. u = o => p = i
    BY <1>1, <2>1
  <2>6. (p > i) = (p > i - 1 /\ u # o)
    BY <1>2, <2>2, <2>3, <2>4, <2>5
  <2>7. QED BY <2>1, <2>2, <2>6
<1>4. \A u \in OpenAt(t, i - 1) : u \in 1 .. i /\ t[u] \in Opens /\ Partner(t, u) > i - 1
  BY DEF OpenAt
<1>5. OpenAt(t, i) \subseteq OpenAt(t, i - 1) \ {o}
  BY <1>3 DEF OpenAt
<1>6. OpenAt(t, i - 1) \ {o} \subseteq OpenAt(t, i)
  BY <1>3, <1>4 DEF OpenAt
<1>7. o \in OpenAt(t, i - 1)
  BY <1>1, <1>2 DEF OpenAt
<1>8. ASSUME NEW u \in OpenAt(t, i) PROVE u < o
  <2>1. u \in 1 .. i /\ t[u] \in Opens /\ Partner(t, u) > i
    BY DEF OpenAt
  <2>2. u \in 1 .. i - 1 /\ u # o /\ u \in 1 .. n
    BY <1>2, <1>3, <1>6, <1>5, <2>1
  <2>3. ~ (o < u)
    <3>1. SUFFICES ASSUME o < u PROVE FALSE
      OBVIOUS
    <3>2. u < Partner(t, o)
      BY <1>1, <2>2
    <3>3. Partner(t, u) < Partner(t, o)
      BY <1>1, <1>2, <2>1, <2>2, <3>1, <3>2, PairsNest
    <3>4. PICK p : p = Partner(t, u)
      OBVIOUS
    <3>5. p \in u + 1 .. n
      BY <2>1, <2>2, <3>4, PartnerMatches DEF Matched
    <3>6. QED BY <1>1, <1>2, <2>1, <3>3, <3>4, <3>5
  <2>4. QED BY <2>2, <2>3
<1>9. QED BY <1>1, <1>5, <1>6, <1>7, <1>8 DEF ClosesOnly

(* As many are open as the height says.                                    *)
LEMMA OpenCount ==
  ASSUME NEW t, NEW n, NEW h, Heights(t, n, h)
  PROVE  \A i \in 0 .. n : Cardinality(OpenAt(t, i)) = h[i]
<1>1. /\ n \in Nat /\ h \in [0 .. n -> Nat] /\ h[0] = 0
      /\ \A i \in 1 .. n : h[i] = h[i - 1] + (IF t[i] \in Opens THEN 1 ELSE IF t[i] \in Closes THEN -1 ELSE 0)
  BY DEF Heights
<1>2. ASSUME NEW i \in 0 .. n PROVE IsFiniteSet(OpenAt(t, i))
  <2>1. IsFiniteSet(1 .. i) /\ OpenAt(t, i) \in SUBSET (1 .. i)
    BY FS_Interval DEF OpenAt
  <2>2. QED BY <2>1, FS_Subset
<1> DEFINE T == {i \in 0 .. n : Cardinality(OpenAt(t, i)) = h[i]}
<1>3. 0 \in T
  <2>1. OpenAt(t, 0) = {}
    BY DEF OpenAt
  <2>2. Cardinality(OpenAt(t, 0)) = 0
    BY <2>1, FS_EmptySet
  <2>3. QED BY <1>1, <2>2
<1>4. ASSUME NEW l \in 0 .. n - 1, l \in T PROVE l + 1 \in T
  <2>1. PICK i : i = l + 1
    OBVIOUS
  <2>2. i \in 1 .. n /\ i - 1 = l /\ l \in 0 .. n /\ i \in 0 .. n
    BY <1>1, <2>1
  <2>3. PICK U, V : U = OpenAt(t, l) /\ V = OpenAt(t, i)
    OBVIOUS
  <2>4. IsFiniteSet(U) /\ Cardinality(U) = h[l] /\ h[l] \in Nat
    BY <1>1, <1>2, <1>4, <2>2, <2>3
  <2>5. h[i] = h[l] + (IF t[i] \in Opens THEN 1 ELSE IF t[i] \in Closes THEN -1 ELSE 0)
    BY <1>1, <2>2
  <2>6. CASE t[i] \in Opens
    <3>1. V = U \cup {i}
      BY <2>2, <2>3, <2>6, OpenedNext
    <3>2. i \notin U
      BY <2>2, <2>3 DEF OpenAt
    <3>3. Cardinality(U \cup {i}) = Cardinality(U) + 1
      BY <2>4, <3>2, FS_AddElement
    <3>4. QED BY <2>1, <2>2, <2>3, <2>4, <2>5, <2>6, <3>1, <3>3
  <2>7. CASE t[i] \in Closes
    <3>1. PICK o : ClosesOnly(t, i, o)
      BY <2>2, <2>7, ClosedNext
    <3>2. o \in U /\ V = U \ {o}
      BY <2>2, <2>3, <3>1 DEF ClosesOnly
    <3>3. Cardinality(U \ {o}) = Cardinality(U) - 1
      BY <2>4, <3>2, FS_RemoveElement
    <3>4. t[i] \notin Opens
      BY <2>7 DEF Opens, Closes
    <3>5. QED BY <2>1, <2>2, <2>3, <2>4, <2>5, <2>7, <3>2, <3>3, <3>4
  <2>8. CASE t[i] \notin Opens /\ t[i] \notin Closes
    <3>1. V = U
      BY <2>2, <2>3, <2>8, OpenedKept
    <3>2. QED BY <2>1, <2>2, <2>3, <2>4, <2>5, <2>8, <3>1
  <2>9. QED BY <2>6, <2>7, <2>8
<1> HIDE DEF T
<1>5. 0 .. n \subseteq T
  BY <1>1, <1>3, <1>4, Ascent
<1>6. QED BY <1>5 DEF T

(* What is around a token is open behind it, or before it.                 *)
LEMMA AroundIsOpen ==
  ASSUME NEW t, NEW n, NEW h, Heights(t, n, h), NEW i \in 1 .. n
  PROVE  Around(t, i) = IF t[i] \in Closes THEN OpenAt(t, i) ELSE OpenAt(t, i - 1)
<1>1. n \in Nat
  BY DEF Heights
<1>2. CASE t[i] \in Closes
  <2>1. t[i] \notin Opens
    BY <1>2 DEF Opens, Closes
  <2>2. Around(t, i) = OpenAt(t, i)
    BY <2>1 DEF Around, OpenAt
  <2>3. QED BY <1>2, <2>2
<1>3. CASE t[i] \notin Closes
  <2>1. ASSUME NEW o \in 1 .. i - 1, t[o] \in Opens PROVE (Partner(t, o) > i) = (Partner(t, o) > i - 1)
    <3>1. PICK p : p = Partner(t, o)
      OBVIOUS
    <3>2. o \in 1 .. n
      BY <1>1
    <3>3. p \in o + 1 .. n /\ p # i
      BY <1>3, <2>1, <3>1, <3>2, PartnerMatches DEF Matched
    <3>4. (p > i) = (p > i - 1)
      BY <1>1, <3>3
    <3>5. QED BY <3>1, <3>4
  <2>2. Around(t, i) = OpenAt(t, i - 1)
    BY <2>1 DEF Around, OpenAt
  <2>3. QED BY <1>3, <2>2
<1>4. QED BY <1>2, <1>3

(***************************************************************************)
(* One pass over the tokens.                                               *)
(***************************************************************************)
(* What Structure keeps.                                                   *)
TokenState == [depth : Nat, stack : Seq(Nat), depths : Seq(Nat), parents : Seq(Nat), pairs : SUBSET (Nat \X Nat)]

(* One level less is still a level.                                        *)
LEMMA Shallow ==
  ASSUME NEW d \in Nat
  PROVE  K!Shallower(d) = IF d = 0 THEN 0 ELSE d - 1
<1>1. PICK x, S : S = {0, d - 1} /\ x = K!Max(S)
  OBVIOUS
<1>2. S \in SUBSET Int /\ \E y \in S : \A z \in S : y >= z
  <2>1. CASE d = 0
    BY <1>1, <2>1
  <2>2. CASE d # 0
    BY <1>1, <2>2
  <2>3. QED BY <2>1, <2>2
<1>3. x \in S /\ \A y \in S : x >= y
  BY <1>1, <1>2 DEF K!Max
<1>4. QED BY <1>1, <1>3 DEF K!Shallower

(* How deep a token lies and which parentheses are open behind those that  *)
(* it closes; and what is kept behind it.                                  *)
Reads(s, kind, depth, popped) ==
  /\ depth = (IF kind \in Closes THEN IF s.depth = 0 THEN 0 ELSE s.depth - 1 ELSE s.depth)
  /\ popped = (IF kind = ")" /\ s.stack # <<>> THEN Front(s.stack) ELSE s.stack)

Keeps(r, s, kind, i, depth, popped) ==
  /\ r.depth = (IF kind \in Opens THEN depth + 1 ELSE depth)
  /\ r.stack = (IF kind = "(" THEN Append(popped, i) ELSE popped)
  /\ r.depths = Append(s.depths, depth)
  /\ r.parents = Append(s.parents, IF popped = <<>> THEN 0 ELSE Last(popped))
  /\ r.pairs = (IF kind = ")" /\ s.stack # <<>> THEN s.pairs \cup {<<Last(s.stack), i>>} ELSE s.pairs)

(* That is what Indexed does.                                              *)
LEMMA IndexedParts ==
  ASSUME NEW s \in TokenState, NEW kind, NEW depth, NEW popped, Reads(s, kind, depth, popped)
  PROVE  Keeps(K!Indexed(s, kind), s, kind, Len(s.depths) + 1, depth, popped)
<1> USE DEF Reads
<1>0. PICK i : i = Len(s.depths) + 1
  OBVIOUS
<1>1. kind \in Closes <=> K!Closes(kind)
  BY DEF Closes, K!Closes
<1>2. kind \in Opens <=> kind \in {"(", "["}
  BY DEF Opens
<1>3. depth = (IF K!Closes(kind) THEN K!Shallower(s.depth) ELSE s.depth)
  <2>1. s.depth \in Nat
    BY DEF TokenState
  <2>2. QED BY <1>1, <2>1, Shallow
<1>4. K!Front(s.stack) = Front(s.stack) /\ K!Last(s.stack) = Last(s.stack) /\ K!Last(popped) = Last(popped)
  BY DEF K!Front, Front, K!Last, Last
<1>5. K!Indexed(s, kind) =
        [depth   |-> IF kind \in {"(", "["} THEN depth + 1 ELSE depth,
         stack   |-> IF kind = "(" THEN Append(popped, i) ELSE popped,
         depths  |-> Append(s.depths, depth),
         parents |-> Append(s.parents, IF popped = <<>> THEN 0 ELSE Last(popped)),
         pairs   |-> IF kind = ")" /\ s.stack # <<>> THEN s.pairs \cup {<<Last(s.stack), i>>} ELSE s.pairs]
  BY <1>0, <1>3, <1>4 DEF K!Indexed
<1>6. QED BY <1>0, <1>2, <1>5 DEF Keeps

(* The last of some numbers is a number, and the others are numbers.       *)
LEMMA LastFront ==
  ASSUME NEW S, NEW s \in Seq(S), s # <<>>
  PROVE  /\ Last(s) \in S /\ Last(s) = s[Len(s)] /\ Len(s) \in Nat \ {0}
         /\ Front(s) \in Seq(S) /\ Len(Front(s)) = Len(s) - 1
         /\ \A i \in 1 .. Len(s) - 1 : Front(s)[i] = s[i]
<1>1. Len(s) \in Nat \ {0} /\ \A i \in 1 .. Len(s) : s[i] \in S
  BY EmptySeq
<1>2. Front(s) = [i \in 1 .. Len(s) - 1 |-> s[i]]
  BY DEF Front
<1>3. Len(s) - 1 \in Nat
  BY <1>1
<1>4. Front(s) \in [1 .. Len(s) - 1 -> S]
  BY <1>1, <1>2
<1>5. Front(s) \in Seq(S) /\ Len(Front(s)) = Len(s) - 1
  BY <1>3, <1>4
<1>6. QED BY <1>1, <1>2, <1>5 DEF Last

(* Whatever token comes, what is kept stays of its type.                   *)
LEMMA IndexedTyped ==
  ASSUME NEW s \in TokenState, NEW kind
  PROVE  K!Indexed(s, kind) \in TokenState
<1>1. PICK depth, popped, i : Reads(s, kind, depth, popped) /\ i = Len(s.depths) + 1
  BY DEF Reads
<1>2. s.depth \in Nat /\ s.stack \in Seq(Nat) /\ s.depths \in Seq(Nat) /\ s.parents \in Seq(Nat) /\ s.pairs \in SUBSET (Nat \X Nat)
  BY DEF TokenState
<1>3. depth \in Nat
  BY <1>1, <1>2 DEF Reads
<1>4. popped \in Seq(Nat)
  BY <1>1, <1>2, LastFront DEF Reads
<1>5. i \in Nat
  BY <1>1, <1>2
<1>6. s.stack # <<>> => Last(s.stack) \in Nat
  BY <1>2, LastFront
<1>7. PICK p : p = IF popped = <<>> THEN 0 ELSE Last(popped)
  OBVIOUS
<1>8. p \in Nat
  BY <1>4, <1>7, LastFront
<1>9. PICK r : r = K!Indexed(s, kind)
  OBVIOUS
<1>10. /\ r.depth = (IF kind \in Opens THEN depth + 1 ELSE depth)
       /\ r.stack = (IF kind = "(" THEN Append(popped, i) ELSE popped)
       /\ r.depths = Append(s.depths, depth)
       /\ r.parents = Append(s.parents, p)
       /\ r.pairs = (IF kind = ")" /\ s.stack # <<>> THEN s.pairs \cup {<<Last(s.stack), i>>} ELSE s.pairs)
  <2>1. Keeps(r, s, kind, i, depth, popped)
    BY <1>1, <1>9, IndexedParts
  <2>2. QED BY <1>7, <2>1 DEF Keeps
<1>11. r.depth \in Nat
  BY <1>3, <1>10
<1>12. r.stack \in Seq(Nat)
  BY <1>4, <1>5, <1>10, AppendProperties
<1>13. r.depths \in Seq(Nat) /\ r.parents \in Seq(Nat)
  BY <1>2, <1>3, <1>8, <1>10, AppendProperties
<1>14. r.pairs \in SUBSET (Nat \X Nat)
  BY <1>2, <1>5, <1>6, <1>10
<1>15. r = [depth |-> r.depth, stack |-> r.stack, depths |-> r.depths, parents |-> r.parents, pairs |-> r.pairs]
  BY <1>9 DEF K!Indexed
<1>16. QED BY <1>9, <1>11, <1>12, <1>13, <1>14, <1>15 DEF TokenState

(* The pass over the first tokens.                                         *)
Passes(g, t) ==
  /\ g \in [0 .. Len(t) -> TokenState] /\ g[0] = K!Opened
  /\ \A i \in 1 .. Len(t) : g[i] = K!Indexed(g[i - 1], t[i])

(* Structure is the end of such a pass.                                    *)
LEMMA StructurePasses ==
  ASSUME NEW t \in Seq(STRING)
  PROVE  \E g : Passes(g, t) /\ K!Structure(t) = g[Len(t)]
<1> DEFINE n    == Len(t)
           step == [i \in 1 .. n |-> [s \in TokenState |-> K!Indexed(s, t[i])]]
           R(f) == f = [i \in 0 .. Len(t) |-> IF i = 0 THEN K!Opened ELSE K!Indexed(f[i - 1], t[i])]
<1>0. n \in Nat /\ K!Opened \in TokenState
  BY DEF K!Opened, TokenState
<1>1. Recursion(n, TokenState, K!Opened, step)
  <2>1. ASSUME NEW i \in 1 .. n PROVE [s \in TokenState |-> K!Indexed(s, t[i])] \in [TokenState -> TokenState]
    BY IndexedTyped
  <2> HIDE DEF n
  <2>2. QED BY <1>0, <2>1 DEF Recursion
<1>2. PICK f : Solves(f, n, TokenState, K!Opened, step)
  BY <1>1, RecursionExists
<1>3. f \in [0 .. n -> TokenState] /\ f[0] = K!Opened /\ \A i \in 1 .. n : f[i] = K!Indexed(f[i - 1], t[i])
  <2>1. f \in [0 .. n -> TokenState] /\ f[0] = K!Opened /\ \A i \in 1 .. n : f[i] = step[i][f[i - 1]]
    BY <1>2 DEF Solves
  <2>2. ASSUME NEW i \in 1 .. n PROVE f[i] = K!Indexed(f[i - 1], t[i])
    <3>1. i - 1 \in 0 .. n
      BY <1>0
    <3>2. f[i - 1] \in TokenState
      BY <2>1, <3>1
    <3>3. QED BY <2>1, <3>2
  <2> HIDE DEF step
  <2>3. QED BY <2>1, <2>2
<1> HIDE DEF step
<1>4. R(f)
  <2>1. ASSUME NEW i \in 0 .. n
        PROVE  f[i] = IF i = 0 THEN K!Opened ELSE K!Indexed(f[i - 1], t[i])
    <3>1. CASE i = 0
      BY <1>3, <3>1
    <3>2. CASE i # 0
      <4>1. i \in 1 .. n
        BY <1>0, <3>2
      <4>2. QED BY <1>3, <3>2, <4>1
    <3>3. QED BY <3>1, <3>2
  <2>2. f = [i \in 0 .. n |-> f[i]]
    BY <1>3
  <2>3. [i \in 0 .. n |-> f[i]] = [i \in 0 .. n |-> IF i = 0 THEN K!Opened ELSE K!Indexed(f[i - 1], t[i])]
    BY <2>1
  <2>4. QED BY <2>2, <2>3
<1>5. ASSUME NEW g, R(g) PROVE Passes(g, t)
  <2> DEFINE T == {i \in 0 .. n : g[i] \in TokenState}
  <2>1. g[0] = K!Opened /\ \A i \in 1 .. n : g[i] = K!Indexed(g[i - 1], t[i])
    <3>1. 0 \in 0 .. n
      BY <1>0
    <3>2. g[0] = K!Opened
      BY <1>5, <3>1
    <3>3. ASSUME NEW i \in 1 .. n PROVE g[i] = K!Indexed(g[i - 1], t[i])
      <4>1. i \in 0 .. n /\ i # 0
        BY <1>0
      <4>2. QED BY <1>5, <4>1
    <3>4. QED BY <3>2, <3>3
  <2>2. g = [i \in 0 .. n |-> g[i]]
    BY <1>5
  <2> HIDE DEF R
  <2>3. 0 \in T
    BY <1>0, <2>1
  <2>4. ASSUME NEW i \in 0 .. n - 1, i \in T PROVE i + 1 \in T
    <3>1. PICK k : k = i + 1
      OBVIOUS
    <3>2. k \in 1 .. n /\ k - 1 = i /\ k \in 0 .. n
      BY <1>0, <3>1
    <3>3. g[i] \in TokenState
      BY <2>4
    <3>4. g[k] = K!Indexed(g[i], t[k])
      BY <2>1, <3>2
    <3>5. g[k] \in TokenState
      BY <3>3, <3>4, IndexedTyped
    <3>6. QED BY <3>1, <3>2, <3>5
  <2> HIDE DEF T
  <2>5. 0 .. n \subseteq T
    BY <1>0, <2>3, <2>4, Ascent
  <2>6. \A i \in 0 .. n : g[i] \in TokenState
    BY <2>5 DEF T
  <2>7. g \in [0 .. n -> TokenState]
    BY <2>2, <2>6
  <2>8. QED BY <2>1, <2>7 DEF Passes
<1>6. PICK g : g = CHOOSE f1 : R(f1)
  OBVIOUS
<1>7. K!Structure(t) = g[n]
  BY <1>6 DEF K!Structure
<1> HIDE DEF R
<1>8. R(g)
  BY <1>4, <1>6
<1>9. QED BY <1>5, <1>7, <1>8

(* The numbers S in order.                                                 *)
Lists(seq, S) ==
  /\ seq \in Seq(Nat) /\ S = {seq[a] : a \in 1 .. Len(seq)}
  /\ \A a \in 1 .. Len(seq), b \in 1 .. Len(seq) : a < b => seq[a] < seq[b]

(* One greater than all of them comes behind them.                         *)
LEMMA ListsAppend ==
  ASSUME NEW seq, NEW S, Lists(seq, S), NEW x \in Nat, \A y \in S : y < x
  PROVE  Lists(Append(seq, x), S \cup {x})
<1>1. seq \in Seq(Nat) /\ Len(seq) \in Nat /\ S = {seq[a] : a \in 1 .. Len(seq)}
  BY DEF Lists
<1>2. PICK r, n : r = Append(seq, x) /\ n = Len(seq)
  OBVIOUS
<1>3. r \in Seq(Nat) /\ Len(r) = n + 1 /\ r[n + 1] = x /\ \A a \in 1 .. n : r[a] = seq[a]
  BY <1>1, <1>2, AppendProperties
<1>4. ASSUME NEW a \in 1 .. n + 1, NEW b \in 1 .. n + 1, a < b PROVE r[a] < r[b]
  <2>1. a \in 1 .. n /\ seq[a] \in S
    BY <1>1, <1>2, <1>4
  <2>2. CASE b = n + 1
    BY <1>3, <2>1, <2>2
  <2>3. CASE b # n + 1
    <3>1. b \in 1 .. n
      BY <1>1, <1>2, <2>3
    <3>2. QED BY <1>2, <1>3, <1>4, <2>1, <3>1 DEF Lists
  <2>4. QED BY <2>2, <2>3
<1>5. S \cup {x} = {r[a] : a \in 1 .. n + 1}
  <2>1. ASSUME NEW y \in S PROVE y \in {r[a] : a \in 1 .. n + 1}
    <3>1. PICK a \in 1 .. n : y = seq[a]
      BY <1>1, <1>2
    <3>2. y = r[a] /\ a \in 1 .. n + 1
      BY <1>1, <1>2, <1>3, <3>1
    <3>3. QED BY <3>2
  <2>2. ASSUME NEW a \in 1 .. n + 1 PROVE r[a] \in S \cup {x}
    <3>1. CASE a = n + 1
      BY <1>3, <3>1
    <3>2. CASE a # n + 1
      <4>1. a \in 1 .. n
        BY <1>1, <1>2, <3>2
      <4>2. QED BY <1>1, <1>2, <1>3, <4>1
    <3>3. QED BY <3>1, <3>2
  <2>3. x \in {r[a] : a \in 1 .. n + 1}
    <3>1. n + 1 \in 1 .. n + 1
      BY <1>1, <1>2
    <3>2. QED BY <1>3, <3>1
  <2>4. QED BY <2>1, <2>2, <2>3
<1>6. QED BY <1>2, <1>3, <1>4, <1>5 DEF Lists

(* The greatest comes last, and the others before it.                      *)
LEMMA ListsFront ==
  ASSUME NEW seq, NEW S, Lists(seq, S), S # {}
  PROVE  /\ seq # <<>> /\ Last(seq) \in S /\ Lists(Front(seq), S \ {Last(seq)})
         /\ \A y \in S : y <= Last(seq)
<1>1. seq \in Seq(Nat) /\ S = {seq[a] : a \in 1 .. Len(seq)}
      /\ \A a \in 1 .. Len(seq), b \in 1 .. Len(seq) : a < b => seq[a] < seq[b]
  BY DEF Lists
<1>2. PICK n : n = Len(seq)
  OBVIOUS
<1>3. n \in Nat \ {0} /\ seq # <<>>
  BY <1>1, <1>2
<1>4. PICK r, x : r = Front(seq) /\ x = Last(seq)
  OBVIOUS
<1>5. x = seq[n] /\ x \in Nat /\ r \in Seq(Nat) /\ Len(r) = n - 1 /\ \A i \in 1 .. n - 1 : r[i] = seq[i]
  BY <1>1, <1>2, <1>3, <1>4, LastFront
<1>6. n \in 1 .. n /\ x \in S
  BY <1>1, <1>2, <1>3, <1>5
<1>7. ASSUME NEW a \in 1 .. n - 1 PROVE seq[a] < x /\ a \in 1 .. n /\ seq[a] \in Nat
  <2>1. a \in 1 .. n /\ a < n
    BY <1>3
  <2>2. seq[a] < seq[n]
    BY <1>1, <1>2, <1>6, <2>1
  <2>3. seq[a] \in Nat
    BY <1>1, <1>2, <2>1
  <2>4. QED BY <1>5, <2>1, <2>2, <2>3
<1>8. ASSUME NEW y \in S PROVE y <= x /\ (y # x => \E a \in 1 .. n - 1 : y = r[a])
  <2>1. PICK a \in 1 .. n : y = seq[a]
    BY <1>1, <1>2
  <2>2. CASE a = n
    BY <1>5, <2>1, <2>2
  <2>3. CASE a # n
    <3>1. a \in 1 .. n - 1
      BY <1>3, <2>3
    <3>2. QED BY <1>5, <1>7, <2>1, <3>1
  <2>4. QED BY <2>2, <2>3
<1>9. S \ {x} = {r[a] : a \in 1 .. n - 1}
  <2>1. ASSUME NEW a \in 1 .. n - 1 PROVE r[a] \in S \ {x}
    <3>1. r[a] = seq[a] /\ seq[a] \in S /\ seq[a] < x /\ seq[a] \in Nat
      BY <1>1, <1>2, <1>5, <1>7
    <3>2. QED BY <1>5, <3>1
  <2>2. QED BY <1>8, <2>1
<1>10. ASSUME NEW a \in 1 .. n - 1, NEW b \in 1 .. n - 1, a < b PROVE r[a] < r[b]
  BY <1>1, <1>2, <1>5, <1>7, <1>10
<1>11. Lists(r, S \ {x})
  BY <1>5, <1>9, <1>10 DEF Lists
<1>12. QED BY <1>3, <1>4, <1>6, <1>8, <1>11

(* Nothing is listed by nothing.                                           *)
LEMMA ListsNone ==
  ASSUME NEW seq, NEW S, Lists(seq, S), S = {}
  PROVE  seq = <<>>
<1>1. seq \in Seq(Nat) /\ S = {seq[a] : a \in 1 .. Len(seq)}
  BY DEF Lists
<1>2. Len(seq) = 0
  <2>1. PICK n : n = Len(seq)
    OBVIOUS
  <2>2. n \in Nat
    BY <1>1, <2>1
  <2>3. n # 0 => seq[1] \in S
    <3>1. n # 0 => 1 \in 1 .. n
      BY <2>2
    <3>2. QED BY <1>1, <2>1, <3>1
  <2>4. QED BY <2>1, <2>3
<1>3. QED BY <1>1, <1>2

(***************************************************************************)
(* The pass keeps what is open.                                            *)
(***************************************************************************)
(* Each bracket is closed by its kind, and the parentheses among S.        *)
KindsAgree(t, n) == \A o \in 1 .. n :
  /\ t[o] = "(" => t[Partner(t, o)] = ")"
  /\ t[o] = "[" => t[Partner(t, o)] = "]"

Parens(t, S) == {o \in S : t[o] = "("}

(* What ")" closes is the last parenthesis that is open.                   *)
LEMMA ParenClosed ==
  ASSUME NEW t, NEW n, NEW h, Heights(t, n, h), KindsAgree(t, n), NEW i \in 1 .. n, t[i] = ")",
         NEW stack, Lists(stack, Parens(t, OpenAt(t, i - 1)))
  PROVE  /\ stack # <<>> /\ Last(stack) \in 1 .. n /\ t[Last(stack)] = "(" /\ Partner(t, Last(stack)) = i
         /\ Lists(Front(stack), Parens(t, OpenAt(t, i)))
<1>1. n \in Nat /\ t[i] \in Closes
  BY DEF Heights, Closes
<1>2. PICK o : ClosesOnly(t, i, o)
  BY <1>1, ClosedNext
<1>3. PICK U, V : U = OpenAt(t, i - 1) /\ V = OpenAt(t, i)
  OBVIOUS
<1>4. o \in U /\ Partner(t, o) = i /\ V = U \ {o} /\ \A u \in V : u < o
  BY <1>2, <1>3 DEF ClosesOnly
<1>5. o \in 1 .. n /\ o \in Nat /\ t[o] = "("
  <2>1. o \in 1 .. i - 1 /\ t[o] \in Opens
    BY <1>3, <1>4 DEF OpenAt
  <2>2. o \in 1 .. n
    BY <1>1, <2>1
  <2>3. t[o] # "["
    BY <1>4, <2>2 DEF KindsAgree
  <2>4. QED BY <2>1, <2>2, <2>3 DEF Opens
<1>6. PICK A, B : A = Parens(t, U) /\ B = Parens(t, V)
  OBVIOUS
<1>7. o \in A /\ B = A \ {o} /\ \A u \in B : u < o
  BY <1>4, <1>5, <1>6 DEF Parens
<1>8. /\ stack # <<>> /\ Last(stack) \in A /\ Lists(Front(stack), A \ {Last(stack)})
      /\ \A y \in A : y <= Last(stack)
  <2>1. Lists(stack, A) /\ A # {}
    BY <1>3, <1>6, <1>7
  <2>2. QED BY <2>1, ListsFront
<1>9. PICK x : x = Last(stack)
  OBVIOUS
<1>10. x = o
  <2>1. x \in A /\ o <= x /\ (x # o => x < o)
    BY <1>7, <1>8, <1>9
  <2>2. A \in SUBSET Nat
    BY <1>3, <1>6 DEF Parens, OpenAt
  <2>3. QED BY <1>5, <2>1, <2>2
<1>11. QED BY <1>3, <1>4, <1>5, <1>6, <1>7, <1>8, <1>9, <1>10

(* The parentheses left open by what a token closes are those around it.   *)
LEMMA LeftAround ==
  ASSUME NEW t, NEW n, NEW h, Heights(t, n, h), KindsAgree(t, n), NEW i \in 1 .. n,
         NEW s, NEW depth, NEW popped, Reads(s, t[i], depth, popped),
         Lists(s.stack, Parens(t, OpenAt(t, i - 1)))
  PROVE  Lists(popped, Parens(t, Around(t, i)))
<1>1. n \in Nat
  BY DEF Heights
<1>2. CASE t[i] = ")"
  <2>1. s.stack # <<>> /\ Lists(Front(s.stack), Parens(t, OpenAt(t, i)))
    BY <1>2, ParenClosed
  <2>2. t[i] \in Closes
    BY <1>2 DEF Closes
  <2>3. Around(t, i) = OpenAt(t, i)
    BY <2>2, AroundIsOpen
  <2>4. QED BY <1>2, <2>1, <2>3 DEF Reads
<1>3. CASE t[i] = "]"
  <2>1. t[i] \in Closes /\ t[i] # ")"
    BY <1>3 DEF Closes
  <2>2. PICK o : ClosesOnly(t, i, o)
    BY <2>1, ClosedNext
  <2>3. o \in OpenAt(t, i - 1) /\ Partner(t, o) = i /\ OpenAt(t, i) = OpenAt(t, i - 1) \ {o}
    BY <2>2 DEF ClosesOnly
  <2>4. o \in 1 .. n
    BY <1>1, <2>3 DEF OpenAt
  <2>5. t[o] # "("
    BY <1>3, <2>3, <2>4 DEF KindsAgree
  <2>6. Parens(t, OpenAt(t, i)) = Parens(t, OpenAt(t, i - 1))
    BY <2>3, <2>5 DEF Parens
  <2>7. Around(t, i) = OpenAt(t, i)
    BY <2>1, AroundIsOpen
  <2>8. popped = s.stack
    BY <2>1 DEF Reads
  <2>9. QED BY <2>6, <2>7, <2>8
<1>4. CASE t[i] # ")" /\ t[i] # "]"
  <2>1. t[i] \notin Closes
    BY <1>4 DEF Closes
  <2>2. Around(t, i) = OpenAt(t, i - 1)
    BY <2>1, AroundIsOpen
  <2>3. popped = s.stack
    BY <1>4 DEF Reads
  <2>4. QED BY <2>2, <2>3
<1>5. QED BY <1>2, <1>3, <1>4

(* ... and with the token itself those open behind it.                     *)
LEMMA OpenBehind ==
  ASSUME NEW t, NEW n, NEW h, Heights(t, n, h), NEW i \in 1 .. n,
         NEW popped, Lists(popped, Parens(t, Around(t, i)))
  PROVE  Lists(IF t[i] = "(" THEN Append(popped, i) ELSE popped, Parens(t, OpenAt(t, i)))
<1>1. n \in Nat
  BY DEF Heights
<1>2. CASE t[i] \in Opens
  <2>1. t[i] \notin Closes
    BY <1>2 DEF Opens, Closes
  <2>2. Around(t, i) = OpenAt(t, i - 1) /\ OpenAt(t, i) = OpenAt(t, i - 1) \cup {i}
    BY <1>2, <2>1, AroundIsOpen, OpenedNext
  <2>3. PICK A : A = Parens(t, Around(t, i))
    OBVIOUS
  <2>4. Parens(t, OpenAt(t, i)) = IF t[i] = "(" THEN A \cup {i} ELSE A
    BY <2>2, <2>3 DEF Parens
  <2>5. \A y \in A : y < i
    BY <1>1, <2>2, <2>3 DEF Parens, OpenAt
  <2>6. i \in Nat /\ Lists(popped, A)
    BY <1>1, <2>3
  <2>7. Lists(Append(popped, i), A \cup {i})
    BY <2>5, <2>6, ListsAppend
  <2>8. QED BY <2>4, <2>6, <2>7
<1>3. CASE t[i] \in Closes
  <2>1. t[i] # "("
    BY <1>3 DEF Closes
  <2>2. Around(t, i) = OpenAt(t, i)
    BY <1>3, AroundIsOpen
  <2>3. QED BY <2>1, <2>2
<1>4. CASE t[i] \notin Opens /\ t[i] \notin Closes
  <2>1. t[i] # "("
    BY <1>4 DEF Opens
  <2>2. Around(t, i) = OpenAt(t, i - 1) /\ OpenAt(t, i) = OpenAt(t, i - 1)
    BY <1>4, AroundIsOpen, OpenedKept
  <2>3. QED BY <2>1, <2>2
<1>5. QED BY <1>2, <1>3, <1>4

(* The pairs of parentheses closed up to a token.                          *)
PairsTo(t, n, i) == {<<o, Partner(t, o)>> : o \in {k \in 1 .. n : t[k] = "(" /\ Partner(t, k) <= i}}

(* One more is closed by ")", and none by another token.                   *)
LEMMA PairsNext ==
  ASSUME NEW t, NEW n, NEW h, Heights(t, n, h), KindsAgree(t, n), NEW i \in 1 .. n,
         NEW stack, Lists(stack, Parens(t, OpenAt(t, i - 1)))
  PROVE  PairsTo(t, n, i) =
           IF t[i] = ")" /\ stack # <<>> THEN PairsTo(t, n, i - 1) \cup {<<Last(stack), i>>} ELSE PairsTo(t, n, i - 1)
<1>1. n \in Nat
  BY DEF Heights
<1>2. \A k \in 1 .. n : t[k] \in Opens => Partner(t, k) \in k + 1 .. n
  BY PartnerMatches DEF Matched
<1>3. ASSUME NEW k \in 1 .. n, t[k] = "("
      PROVE  (Partner(t, k) <= i) = (Partner(t, k) <= i - 1 \/ Partner(t, k) = i)
  <2>1. PICK p : p = Partner(t, k)
    OBVIOUS
  <2>2. p \in k + 1 .. n
    BY <1>2, <1>3, <2>1 DEF Opens
  <2>3. (p <= i) = (p <= i - 1 \/ p = i)
    BY <1>1, <2>2
  <2>4. QED BY <2>1, <2>3
<1>4. CASE t[i] = ")"
  <2>1. PICK x : x = Last(stack)
    OBVIOUS
  <2>2. stack # <<>> /\ x \in 1 .. n /\ t[x] = "(" /\ Partner(t, x) = i
    BY <1>4, <2>1, ParenClosed
  <2>3. ASSUME NEW k \in 1 .. n, t[k] = "(", Partner(t, k) = i PROVE k = x
    BY <2>2, <2>3, PairsApart DEF Opens
  <2>4. {k \in 1 .. n : t[k] = "(" /\ Partner(t, k) <= i} = {k \in 1 .. n : t[k] = "(" /\ Partner(t, k) <= i - 1} \cup {x}
    BY <1>3, <2>2, <2>3
  <2>5. PairsTo(t, n, i) = PairsTo(t, n, i - 1) \cup {<<x, i>>}
    BY <2>2, <2>4 DEF PairsTo
  <2>6. QED BY <1>4, <2>1, <2>2, <2>5
<1>5. CASE t[i] # ")"
  <2>1. ASSUME NEW k \in 1 .. n, t[k] = "(" PROVE Partner(t, k) # i
    BY <1>5, <2>1 DEF KindsAgree
  <2>2. {k \in 1 .. n : t[k] = "(" /\ Partner(t, k) <= i} = {k \in 1 .. n : t[k] = "(" /\ Partner(t, k) <= i - 1}
    BY <1>3, <2>1
  <2>3. QED BY <1>5, <2>2 DEF PairsTo
<1>6. QED BY <1>4, <1>5

(* What is kept behind token i says what is open there, and of each token  *)
(* before it how deep it lies and which parenthesis is around it.          *)
Deep(t, h, i)  == IF t[i] \in Closes THEN h[i] ELSE h[i - 1]
Greatest(p, S) == IF S = {} THEN p = 0 ELSE p \in S /\ \A o \in S : o <= p

Stacked(t, n, h, s, i) ==
  /\ s \in TokenState /\ s.depth = h[i] /\ Lists(s.stack, Parens(t, OpenAt(t, i)))
  /\ Len(s.depths) = i /\ \A j \in 1 .. i : s.depths[j] = Deep(t, h, j)
  /\ Len(s.parents) = i /\ \A j \in 1 .. i : Greatest(s.parents[j], Parens(t, Around(t, j)))
  /\ s.pairs = PairsTo(t, n, i)

(* One token more.                                                         *)
LEMMA StackedNext ==
  ASSUME NEW t, NEW n, NEW h, Heights(t, n, h), KindsAgree(t, n), NEW i \in 1 .. n,
         NEW s, Stacked(t, n, h, s, i - 1)
  PROVE  Stacked(t, n, h, K!Indexed(s, t[i]), i)
<1>1. /\ n \in Nat /\ h \in [0 .. n -> Nat]
      /\ h[i] = h[i - 1] + (IF t[i] \in Opens THEN 1 ELSE IF t[i] \in Closes THEN -1 ELSE 0)
  BY DEF Heights
<1>2. i \in Nat /\ i - 1 \in Nat /\ i - 1 \in 0 .. n /\ i \in 0 .. n
  BY <1>1
<1>3. /\ s \in TokenState /\ s.depth = h[i - 1] /\ Lists(s.stack, Parens(t, OpenAt(t, i - 1)))
      /\ Len(s.depths) = i - 1 /\ \A j \in 1 .. i - 1 : s.depths[j] = Deep(t, h, j)
      /\ Len(s.parents) = i - 1 /\ \A j \in 1 .. i - 1 : Greatest(s.parents[j], Parens(t, Around(t, j)))
      /\ s.pairs = PairsTo(t, n, i - 1)
  BY DEF Stacked
<1>4. s.stack \in Seq(Nat) /\ s.depths \in Seq(Nat) /\ s.parents \in Seq(Nat)
  BY <1>3 DEF TokenState
<1>5. PICK r, depth, popped, p :
        /\ r = K!Indexed(s, t[i]) /\ Reads(s, t[i], depth, popped)
        /\ p = IF popped = <<>> THEN 0 ELSE Last(popped)
  BY DEF Reads
<1>6. r \in TokenState
  BY <1>3, <1>5, IndexedTyped
<1>7. /\ r.depth = (IF t[i] \in Opens THEN depth + 1 ELSE depth)
      /\ r.stack = (IF t[i] = "(" THEN Append(popped, i) ELSE popped)
      /\ r.depths = Append(s.depths, depth)
      /\ r.parents = Append(s.parents, p)
      /\ r.pairs = (IF t[i] = ")" /\ s.stack # <<>> THEN s.pairs \cup {<<Last(s.stack), i>>} ELSE s.pairs)
  <2>1. Keeps(r, s, t[i], Len(s.depths) + 1, depth, popped)
    BY <1>3, <1>5, IndexedParts
  <2>2. Len(s.depths) + 1 = i
    BY <1>2, <1>3
  <2>3. Keeps(r, s, t[i], i, depth, popped)
    BY <2>1, <2>2
  <2>4. QED BY <1>5, <2>3 DEF Keeps
<1>8. h[i] \in Nat /\ h[i - 1] \in Nat
  BY <1>1, <1>2
<1>9. depth = Deep(t, h, i) /\ depth \in Nat /\ r.depth = h[i]
  <2>1. CASE t[i] \in Closes
    <3>1. t[i] \notin Opens
      BY <2>1 DEF Opens, Closes
    <3>2. QED BY <1>1, <1>3, <1>5, <1>7, <1>8, <2>1, <3>1 DEF Reads, Deep
  <2>2. CASE t[i] \notin Closes
    BY <1>1, <1>3, <1>5, <1>7, <1>8, <2>2 DEF Reads, Deep
  <2>3. QED BY <2>1, <2>2
<1>10. Lists(popped, Parens(t, Around(t, i)))
  BY <1>3, <1>5, LeftAround
<1>11. Lists(r.stack, Parens(t, OpenAt(t, i)))
  BY <1>7, <1>10, OpenBehind
<1>12. p \in Nat /\ Greatest(p, Parens(t, Around(t, i)))
  <2>1. PICK A : A = Parens(t, Around(t, i))
    OBVIOUS
  <2>2. A \in SUBSET Nat
    BY <1>2, <2>1 DEF Parens, Around
  <2>3. CASE A = {}
    <3>1. popped = <<>>
      BY <1>10, <2>1, <2>3, ListsNone
    <3>2. QED BY <1>5, <2>1, <2>3, <3>1 DEF Greatest
  <2>4. CASE A # {}
    <3>1. popped # <<>> /\ Last(popped) \in A /\ \A y \in A : y <= Last(popped)
      BY <1>10, <2>1, <2>4, ListsFront
    <3>2. QED BY <1>5, <2>1, <2>2, <2>4, <3>1 DEF Greatest
  <2>5. QED BY <2>3, <2>4
<1>13. Len(r.depths) = i /\ \A j \in 1 .. i : r.depths[j] = Deep(t, h, j)
  <2>1. PICK a, b : a = s.depths /\ b = r.depths
    OBVIOUS
  <2>2. a \in Seq(Nat) /\ Len(a) = i - 1 /\ b = Append(a, depth)
    BY <1>3, <1>4, <1>7, <2>1
  <2>3. Len(b) = Len(a) + 1 /\ b[Len(a) + 1] = depth /\ \A j \in 1 .. Len(a) : b[j] = a[j]
    BY <1>9, <2>2, AppendProperties
  <2>4. Len(b) = i /\ b[i] = depth /\ \A j \in 1 .. i - 1 : b[j] = Deep(t, h, j)
    <3>1. Len(a) + 1 = i
      BY <1>2, <2>2
    <3>2. \A j \in 1 .. i - 1 : a[j] = Deep(t, h, j)
      BY <1>3, <2>1
    <3>3. \A j \in 1 .. i - 1 : b[j] = a[j]
      BY <2>2, <2>3
    <3>4. QED BY <2>3, <3>1, <3>2, <3>3
  <2>5. ASSUME NEW j \in 1 .. i PROVE b[j] = Deep(t, h, j)
    <3>1. j = i \/ j \in 1 .. i - 1
      BY <1>2
    <3>2. QED BY <1>9, <2>4, <3>1
  <2>6. QED BY <2>1, <2>4, <2>5
<1>14. Len(r.parents) = i /\ \A j \in 1 .. i : Greatest(r.parents[j], Parens(t, Around(t, j)))
  <2>1. PICK a, b : a = s.parents /\ b = r.parents
    OBVIOUS
  <2>2. a \in Seq(Nat) /\ Len(a) = i - 1 /\ b = Append(a, p)
    BY <1>3, <1>4, <1>7, <2>1
  <2>3. Len(b) = Len(a) + 1 /\ b[Len(a) + 1] = p /\ \A j \in 1 .. Len(a) : b[j] = a[j]
    BY <1>12, <2>2, AppendProperties
  <2>4. Len(b) = i /\ b[i] = p /\ \A j \in 1 .. i - 1 : Greatest(b[j], Parens(t, Around(t, j)))
    <3>1. Len(a) + 1 = i
      BY <1>2, <2>2
    <3>2. \A j \in 1 .. i - 1 : Greatest(a[j], Parens(t, Around(t, j)))
      BY <1>3, <2>1
    <3>3. \A j \in 1 .. i - 1 : b[j] = a[j]
      BY <2>2, <2>3
    <3>4. QED BY <2>3, <3>1, <3>2, <3>3
  <2>5. ASSUME NEW j \in 1 .. i PROVE Greatest(b[j], Parens(t, Around(t, j)))
    <3>1. j = i \/ j \in 1 .. i - 1
      BY <1>2
    <3>2. QED BY <1>12, <2>4, <3>1
  <2>6. QED BY <2>1, <2>4, <2>5
<1>15. r.pairs = PairsTo(t, n, i)
  <2>1. PICK stack : stack = s.stack
    OBVIOUS
  <2>2. Lists(stack, Parens(t, OpenAt(t, i - 1)))
    BY <1>3, <2>1
  <2>3. PairsTo(t, n, i) =
          IF t[i] = ")" /\ stack # <<>> THEN PairsTo(t, n, i - 1) \cup {<<Last(stack), i>>} ELSE PairsTo(t, n, i - 1)
    BY <2>2, PairsNext
  <2>4. QED BY <1>3, <1>7, <2>1, <2>3
<1>16. QED BY <1>5, <1>6, <1>9, <1>11, <1>13, <1>14, <1>15 DEF Stacked

(* Structure says of every token how deep it lies, and which parenthesis   *)
(* is around it.                                                           *)
LEMMA StructureStacked ==
  ASSUME NEW t \in Seq(STRING), NEW h, Heights(t, Len(t), h), KindsAgree(t, Len(t))
  PROVE  Stacked(t, Len(t), h, K!Structure(t), Len(t))
<1>1. PICK n, g : n = Len(t) /\ Passes(g, t) /\ K!Structure(t) = g[Len(t)]
  BY StructurePasses
<1>2. n \in Nat /\ Heights(t, n, h) /\ KindsAgree(t, n) /\ h[0] = 0
  BY <1>1 DEF Heights
<1>3. g \in [0 .. n -> TokenState] /\ g[0] = K!Opened /\ \A i \in 1 .. n : g[i] = K!Indexed(g[i - 1], t[i])
  BY <1>1 DEF Passes
<1> DEFINE T == {i \in 0 .. n : Stacked(t, n, h, g[i], i)}
<1>4. 0 \in T
  <2>1. PICK s : s = g[0]
    OBVIOUS
  <2>2. /\ s \in TokenState /\ s.depth = 0 /\ s.stack = <<>> /\ s.depths = <<>>
        /\ s.parents = <<>> /\ s.pairs = {} /\ 0 \in 0 .. n
    <3>1. 0 \in 0 .. n
      BY <1>2
    <3>2. s = K!Opened /\ s \in TokenState
      BY <1>3, <2>1, <3>1
    <3>3. QED BY <3>1, <3>2 DEF K!Opened
  <2>3. Lists(s.stack, Parens(t, OpenAt(t, 0)))
    <3>1. Parens(t, OpenAt(t, 0)) = {}
      BY DEF Parens, OpenAt
    <3>2. QED BY <2>2, <3>1 DEF Lists
  <2>4. PairsTo(t, n, 0) = {}
    <3>1. ASSUME NEW k \in 1 .. n, t[k] = "(" PROVE ~ (Partner(t, k) <= 0)
      <4>1. PICK p : p = Partner(t, k)
        OBVIOUS
      <4>2. p \in k + 1 .. n
        BY <1>2, <3>1, <4>1, PartnerMatches DEF Matched, Opens
      <4>3. QED BY <1>2, <4>1, <4>2
    <3>2. QED BY <3>1 DEF PairsTo
  <2>5. Stacked(t, n, h, s, 0)
    BY <1>2, <2>2, <2>3, <2>4 DEF Stacked
  <2>6. QED BY <2>1, <2>2, <2>5
<1>5. ASSUME NEW l \in 0 .. n - 1, l \in T PROVE l + 1 \in T
  <2>1. PICK i : i = l + 1
    OBVIOUS
  <2>2. i \in 1 .. n /\ i - 1 = l /\ i \in 0 .. n
    BY <1>2, <2>1
  <2>3. PICK s : s = g[l]
    OBVIOUS
  <2>4. Stacked(t, n, h, s, i - 1)
    BY <1>5, <2>2, <2>3
  <2>5. g[i] = K!Indexed(s, t[i])
    BY <1>3, <2>2, <2>3
  <2>6. Stacked(t, n, h, g[i], i)
    BY <1>2, <2>2, <2>4, <2>5, StackedNext
  <2>7. QED BY <2>1, <2>2, <2>6
<1> HIDE DEF T
<1>6. 0 .. n \subseteq T
  BY <1>2, <1>4, <1>5, Ascent
<1>7. n \in T
  BY <1>2, <1>6
<1>8. QED BY <1>1, <1>7 DEF T

(***************************************************************************)
(* The parentheses around a token.                                         *)
(***************************************************************************)
(* The parenthesis next around a token, and those around that one, are the *)
(* ones around the token.                                                  *)
LEMMA AroundParent ==
  ASSUME NEW t, NEW n, NEW h, Heights(t, n, h), NEW i \in 1 .. n,
         NEW p \in Parens(t, Around(t, i)), \A o \in Parens(t, Around(t, i)) : o <= p
  PROVE  Parens(t, Around(t, i)) = Parens(t, Around(t, p)) \cup {p}
<1>1. n \in Nat
  BY DEF Heights
<1>2. p \in 1 .. i - 1 /\ p \in 1 .. n /\ t[p] = "(" /\ t[p] \in Opens /\ Partner(t, p) > i
  <2>1. p \in 1 .. i - 1 /\ t[p] = "(" /\ t[p] \in Opens /\ Partner(t, p) > i
    BY DEF Parens, Around
  <2>2. QED BY <1>1, <2>1
<1>3. ASSUME NEW o \in Parens(t, Around(t, i)), o # p PROVE o \in Parens(t, Around(t, p))
  <2>1. o \in 1 .. i - 1 /\ t[o] = "(" /\ t[o] \in Opens /\ Partner(t, o) > i /\ o <= p
    BY DEF Parens, Around
  <2>2. PICK q : q = Partner(t, o)
    OBVIOUS
  <2>3. o \in 1 .. n
    BY <1>1, <2>1
  <2>4. q \in o + 1 .. n
    BY <2>1, <2>2, <2>3, PartnerMatches DEF Matched
  <2>5. o \in 1 .. p - 1 /\ q > p
    BY <1>1, <1>2, <1>3, <2>1, <2>2, <2>4
  <2>6. QED BY <2>1, <2>2, <2>5 DEF Parens, Around
<1>4. ASSUME NEW o \in Parens(t, Around(t, p)) PROVE o \in Parens(t, Around(t, i))
  <2>1. o \in 1 .. p - 1 /\ t[o] = "(" /\ t[o] \in Opens /\ Partner(t, o) > p
    BY DEF Parens, Around
  <2>2. o \in 1 .. n /\ o < p /\ p < Partner(t, o) /\ o \in 1 .. i - 1
    <3>1. PICK q : q = Partner(t, o)
      OBVIOUS
    <3>2. o \in 1 .. n
      BY <1>1, <1>2, <2>1
    <3>3. q \in o + 1 .. n
      BY <2>1, <3>1, <3>2, PartnerMatches DEF Matched
    <3>4. p < q
      BY <1>1, <1>2, <2>1, <3>1, <3>3
    <3>5. QED BY <1>1, <1>2, <2>1, <3>1, <3>2, <3>4
  <2>3. Partner(t, p) < Partner(t, o)
    BY <1>2, <2>1, <2>2, PairsNest
  <2>4. PICK q, r : q = Partner(t, o) /\ r = Partner(t, p)
    OBVIOUS
  <2>5. q \in o + 1 .. n /\ r \in p + 1 .. n
    BY <1>2, <2>1, <2>2, <2>4, PartnerMatches DEF Matched
  <2>6. q > i
    BY <1>1, <1>2, <2>3, <2>4, <2>5
  <2>7. QED BY <2>1, <2>2, <2>4, <2>6 DEF Parens, Around
<1>5. QED BY <1>3, <1>4

(* From each number on by its parent, down to 0.                           *)
Chains(f, parents) ==
  /\ f \in [0 .. Len(parents) -> Seq(Nat)] /\ f[0] = <<>>
  /\ \A j \in 1 .. Len(parents) : f[j] = IF parents[j] = 0 THEN <<>> ELSE <<parents[j]>> \o f[parents[j]]

(* Where every parent is smaller there are such chains.                    *)
LEMMA ChainsExist ==
  ASSUME NEW parents \in Seq(Nat), \A j \in 1 .. Len(parents) : parents[j] < j
  PROVE  \E f : Chains(f, parents)
<1> DEFINE n    == Len(parents)
           S    == [0 .. n -> Seq(Nat)]
           To(f, m) == IF parents[m] = 0 THEN <<>> ELSE <<parents[m]>> \o f[parents[m]]
           base == [j \in 0 .. n |-> <<>>]
           step == [m \in 1 .. n |-> [f \in S |-> [f EXCEPT ![m] = To(f, m)]]]
<1>1. n \in Nat /\ \A j \in 1 .. n : parents[j] \in Nat /\ parents[j] \in 0 .. j - 1 /\ parents[j] \in 0 .. n
  OBVIOUS
<1>2. ASSUME NEW m \in 1 .. n, NEW f \in S PROVE To(f, m) \in Seq(Nat)
  <2>1. CASE parents[m] = 0
    BY <2>1
  <2>2. CASE parents[m] # 0
    <3>1. PICK p, q : p = <<parents[m]>> /\ q = f[parents[m]]
      OBVIOUS
    <3>2. p \in Seq(Nat) /\ q \in Seq(Nat)
      BY <1>1, <3>1
    <3>3. p \o q \in Seq(Nat)
      BY <3>2, ConcatProperties
    <3>4. QED BY <2>2, <3>1, <3>3
  <2>3. QED BY <2>1, <2>2
<1> HIDE DEF To
<1>3. Recursion(n, S, base, step)
  <2>1. base \in S
    OBVIOUS
  <2>2. ASSUME NEW m \in 1 .. n PROVE [f \in S |-> [f EXCEPT ![m] = To(f, m)]] \in [S -> S]
    <3>1. ASSUME NEW f \in S PROVE [f EXCEPT ![m] = To(f, m)] \in S
      BY <1>2
    <3> HIDE DEF S
    <3>2. QED BY <3>1
  <2> HIDE DEF n, S, base
  <2>3. QED BY <1>1, <2>1, <2>2 DEF Recursion
<1>4. PICK g : Solves(g, n, S, base, step)
  <2> HIDE DEF n, S, base, step
  <2>1. QED BY <1>3, RecursionExists
<1>5. g \in [0 .. n -> S] /\ g[0] = base /\ \A m \in 1 .. n : g[m] = step[m][g[m - 1]]
  <2> HIDE DEF n, S, base, step
  <2>1. QED BY <1>4 DEF Solves
<1>6. ASSUME NEW m \in 1 .. n PROVE g[m - 1] \in S /\ g[m] = [g[m - 1] EXCEPT ![m] = To(g[m - 1], m)]
  <2>1. m - 1 \in 0 .. n
    BY <1>1
  <2>2. g[m - 1] \in S
    <3> HIDE DEF n, S, base, step
    <3>1. QED BY <1>5, <2>1
  <2>3. step[m][g[m - 1]] = [g[m - 1] EXCEPT ![m] = To(g[m - 1], m)]
    <3> HIDE DEF n, S, base
    <3>1. QED BY <2>2
  <2>4. QED BY <1>5, <2>2, <2>3
<1> DEFINE Right(m) == g[m][0] = <<>> /\ \A j \in 1 .. m : g[m][j] = To(g[m], j)
           T == {m \in 0 .. n : Right(m)}
<1>7. 0 \in T
  BY <1>1, <1>5
<1> HIDE DEF step, base
<1>8. ASSUME NEW l \in 0 .. n - 1, l \in T PROVE l + 1 \in T
  <2>1. PICK m : m = l + 1
    OBVIOUS
  <2>2. m \in 1 .. n /\ m - 1 = l /\ m \in 0 .. n /\ l \in Nat
    BY <1>1, <2>1
  <2>3. PICK u, v : u = g[l] /\ v = g[m]
    OBVIOUS
  <2>4. u \in S /\ v = [u EXCEPT ![m] = To(u, m)]
    BY <1>6, <2>2, <2>3
  <2>5. u[0] = <<>> /\ \A j \in 1 .. l : u[j] = To(u, j)
    BY <1>8, <2>3
  <2>6. v[m] = To(u, m) /\ \A j \in 0 .. l : v[j] = u[j]
    BY <1>1, <2>2, <2>4
  <2>7. ASSUME NEW j \in 1 .. m PROVE To(v, j) = To(u, j)
    <3>1. parents[j] \in 0 .. l
      BY <1>1, <2>2
    <3>2. QED BY <2>6, <3>1 DEF To
  <2>8. ASSUME NEW j \in 1 .. m PROVE v[j] = To(v, j)
    <3>1. CASE j = m
      BY <2>6, <2>7, <3>1
    <3>2. CASE j # m
      <4>1. j \in 1 .. l /\ j \in 0 .. l
        BY <2>2, <3>2
      <4>2. QED BY <2>5, <2>6, <2>7, <4>1
    <3>3. QED BY <3>1, <3>2
  <2>9. v[0] = <<>>
    BY <2>2, <2>5, <2>6
  <2>10. QED BY <2>1, <2>2, <2>3, <2>8, <2>9
<1> HIDE DEF T
<1>9. 0 .. n \subseteq T
  <2> HIDE DEF n
  <2>1. QED BY <1>1, <1>7, <1>8, Ascent
<1>10. PICK f : f = g[n]
  OBVIOUS
<1>11. f[0] = <<>> /\ \A j \in 1 .. n : f[j] = To(f, j)
  <2>1. n \in T
    BY <1>1, <1>9
  <2>2. QED BY <1>10, <2>1 DEF T
<1>12. f \in S
  BY <1>1, <1>5, <1>10
<1>13. QED BY <1>11, <1>12 DEF Chains, To

(* Ancestors follows one.                                                  *)
LEMMA AncestorsChain ==
  ASSUME NEW s, s.parents \in Seq(Nat), \A j \in 1 .. Len(s.parents) : s.parents[j] < j
  PROVE  \E f : /\ f[0] = <<>> /\ \A i \in 0 .. Len(s.parents) : K!Ancestors(s, i) = f[i]
                /\ \A j \in 1 .. Len(s.parents) :
                     f[j] = IF s.parents[j] = 0 THEN <<>> ELSE <<s.parents[j]>> \o f[s.parents[j]]
<1> DEFINE parents == s.parents
           n    == Len(parents)
           R(f) == f = [j \in 0 .. Len(parents) |->
                          IF j = 0 \/ parents[j] = 0 THEN <<>> ELSE <<parents[j]>> \o f[parents[j]]]
<1>1. PICK f : Chains(f, parents)
  BY ChainsExist
<1>2. n \in Nat
  OBVIOUS
<1>3. R(f)
  <2>1. f = [j \in 0 .. n |-> f[j]]
    BY <1>1 DEF Chains
  <2>2. ASSUME NEW j \in 0 .. n
        PROVE  f[j] = IF j = 0 \/ parents[j] = 0 THEN <<>> ELSE <<parents[j]>> \o f[parents[j]]
    <3>1. CASE j = 0
      BY <1>1, <3>1 DEF Chains
    <3>2. CASE j # 0
      <4>1. j \in 1 .. n
        BY <1>2, <3>2
      <4>2. QED BY <1>1, <3>2, <4>1 DEF Chains
    <3>3. QED BY <3>1, <3>2
  <2>3. [j \in 0 .. n |-> f[j]] =
          [j \in 0 .. n |-> IF j = 0 \/ parents[j] = 0 THEN <<>> ELSE <<parents[j]>> \o f[parents[j]]]
    BY <2>2
  <2>4. QED BY <2>1, <2>3
<1>4. PICK g : g = CHOOSE x : R(x)
  OBVIOUS
<1>5. \A i : K!Ancestors(s, i) = g[i]
  BY <1>4 DEF K!Ancestors
<1>6. R(g)
  <2> HIDE DEF R
  <2>1. QED BY <1>3, <1>4
<1>7. g[0] = <<>>
  <2>1. 0 \in 0 .. n
    BY <1>2
  <2>2. QED BY <1>6, <2>1
<1>8. ASSUME NEW j \in 1 .. n PROVE g[j] = IF parents[j] = 0 THEN <<>> ELSE <<parents[j]>> \o g[parents[j]]
  <2>1. j \in 0 .. n /\ j # 0
    BY <1>2
  <2>2. QED BY <1>6, <2>1
<1> HIDE DEF R
<1>9. QED BY <1>5, <1>7, <1>8

(* The numbers S, the greatest first.                                      *)
Falls(seq, S) ==
  /\ seq \in Seq(Nat) /\ S = {seq[a] : a \in 1 .. Len(seq)}
  /\ \A a \in 1 .. Len(seq), b \in 1 .. Len(seq) : a < b => seq[a] > seq[b]

(* A greater one comes before them.                                        *)
LEMMA FallsFrom ==
  ASSUME NEW seq, NEW S, Falls(seq, S), NEW x \in Nat, \A y \in S : y < x
  PROVE  Falls(<<x>> \o seq, S \cup {x})
<1>1. PICK r, n : r = <<x>> \o seq /\ n = Len(seq)
  OBVIOUS
<1>2. seq \in Seq(Nat) /\ n \in Nat /\ S = {seq[a] : a \in 1 .. n} /\ \A a \in 1 .. n, b \in 1 .. n : a < b => seq[a] > seq[b]
  <2>1. /\ seq \in Seq(Nat) /\ S = {seq[a] : a \in 1 .. Len(seq)}
        /\ \A a \in 1 .. Len(seq), b \in 1 .. Len(seq) : a < b => seq[a] > seq[b]
    BY DEF Falls
  <2>2. n \in Nat
    BY <1>1, <2>1
  <2>3. QED BY <1>1, <2>1, <2>2
<1>3. r \in Seq(Nat) /\ Len(r) = n + 1 /\ r[1] = x /\ \A a \in 2 .. n + 1 : r[a] = seq[a - 1]
  <2>1. PICK p : p = <<x>>
    OBVIOUS
  <2>2. p \in Seq(Nat) /\ Len(p) = 1 /\ p[1] = x
    BY <2>1
  <2>3. /\ p \o seq \in Seq(Nat) /\ Len(p \o seq) = Len(p) + Len(seq)
        /\ \A i \in 1 .. Len(p) + Len(seq) : (p \o seq)[i] = IF i <= Len(p) THEN p[i] ELSE seq[i - Len(p)]
    BY <1>2, <2>2, ConcatProperties
  <2>4. r \in Seq(Nat) /\ Len(r) = 1 + n /\ \A i \in 1 .. 1 + n : r[i] = IF i <= 1 THEN p[i] ELSE seq[i - 1]
    BY <1>1, <2>1, <2>2, <2>3
  <2>5. QED BY <1>2, <2>2, <2>4
<1>4. ASSUME NEW a \in 1 .. n + 1, NEW b \in 1 .. n + 1, a < b PROVE r[a] > r[b]
  <2>1. b \in 2 .. n + 1 /\ b - 1 \in 1 .. n /\ r[b] = seq[b - 1]
    BY <1>2, <1>3, <1>4
  <2>2. CASE a = 1
    <3>1. seq[b - 1] \in S /\ seq[b - 1] \in Nat
      BY <1>1, <1>2, <2>1
    <3>2. QED BY <1>3, <2>1, <2>2, <3>1
  <2>3. CASE a # 1
    <3>1. a \in 2 .. n + 1 /\ a - 1 \in 1 .. n /\ a - 1 < b - 1
      BY <1>2, <1>4, <2>3
    <3>2. QED BY <1>2, <1>3, <2>1, <3>1
  <2>4. QED BY <2>2, <2>3
<1>5. S \cup {x} = {r[a] : a \in 1 .. n + 1}
  <2>1. ASSUME NEW y \in S PROVE y \in {r[a] : a \in 1 .. n + 1}
    <3>1. PICK a \in 1 .. n : y = seq[a]
      BY <1>2
    <3>2. PICK b : b = a + 1
      OBVIOUS
    <3>3. b \in 2 .. n + 1 /\ b \in 1 .. n + 1 /\ b - 1 = a
      BY <1>2, <3>2
    <3>4. y = r[b]
      BY <1>3, <3>1, <3>3
    <3>5. QED BY <3>3, <3>4
  <2>2. ASSUME NEW a \in 1 .. n + 1 PROVE r[a] \in S \cup {x}
    <3>1. CASE a = 1
      BY <1>3, <3>1
    <3>2. CASE a # 1
      <4>1. a \in 2 .. n + 1 /\ a - 1 \in 1 .. n
        BY <1>2, <3>2
      <4>2. QED BY <1>2, <1>3, <4>1
    <3>3. QED BY <3>1, <3>2
  <2>3. x \in {r[a] : a \in 1 .. n + 1}
    <3>1. 1 \in 1 .. n + 1
      BY <1>2
    <3>2. QED BY <1>3, <3>1
  <2>4. QED BY <2>1, <2>2, <2>3
<1>6. QED BY <1>1, <1>3, <1>4, <1>5 DEF Falls

(* Ancestors gives the parentheses around a token, the nearest first.      *)
LEMMA AncestorsFall ==
  ASSUME NEW t, NEW n, NEW h, Heights(t, n, h), NEW s, Stacked(t, n, h, s, n)
  PROVE  \A i \in 1 .. n : Falls(K!Ancestors(s, i), Parens(t, Around(t, i)))
<1>1. PICK parents : parents = s.parents
  OBVIOUS
<1>2. /\ n \in Nat /\ parents \in Seq(Nat) /\ Len(parents) = n
      /\ \A j \in 1 .. n : Greatest(parents[j], Parens(t, Around(t, j)))
  BY <1>1 DEF Heights, Stacked, TokenState
<1>3. \A j \in 1 .. n : Parens(t, Around(t, j)) \in SUBSET (1 .. j - 1)
  BY DEF Parens, Around
<1>4. ASSUME NEW j \in 1 .. n PROVE parents[j] < j /\ parents[j] \in Nat
  <2>1. PICK A, p : A = Parens(t, Around(t, j)) /\ p = parents[j]
    OBVIOUS
  <2>2. Greatest(p, A) /\ A \in SUBSET (1 .. j - 1) /\ j \in Nat /\ j > 0
    BY <1>2, <1>3, <2>1
  <2>3. p < j
    <3>1. CASE A = {}
      BY <2>2, <3>1 DEF Greatest
    <3>2. CASE A # {}
      <4>1. p \in 1 .. j - 1
        BY <2>2, <3>2 DEF Greatest
      <4>2. QED BY <2>2, <4>1
    <3>3. QED BY <3>1, <3>2
  <2>4. QED BY <1>2, <2>1, <2>3
<1>5. PICK f : /\ f[0] = <<>> /\ \A i \in 0 .. n : K!Ancestors(s, i) = f[i]
               /\ \A j \in 1 .. n : f[j] = IF parents[j] = 0 THEN <<>> ELSE <<parents[j]>> \o f[parents[j]]
  <2>1. s.parents \in Seq(Nat) /\ Len(s.parents) = n /\ \A j \in 1 .. Len(s.parents) : s.parents[j] < j
    BY <1>1, <1>2, <1>4
  <2>2. PICK f : /\ f[0] = <<>> /\ \A i \in 0 .. Len(s.parents) : K!Ancestors(s, i) = f[i]
                 /\ \A j \in 1 .. Len(s.parents) :
                      f[j] = IF s.parents[j] = 0 THEN <<>> ELSE <<s.parents[j]>> \o f[s.parents[j]]
    BY <2>1, AncestorsChain
  <2>3. QED BY <1>1, <2>1, <2>2
<1> DEFINE T == {i \in 1 .. n : ~ Falls(f[i], Parens(t, Around(t, i)))}
<1>6. T = {}
  <2>1. SUFFICES ASSUME T # {} PROVE FALSE
    OBVIOUS
  <2>2. T \in SUBSET Nat
    BY <1>2
  <2>3. PICK i \in T : \A k \in T : i <= k
    BY <2>1, <2>2, LeastNatural
  <2>4. PICK A, p : A = Parens(t, Around(t, i)) /\ p = parents[i]
    OBVIOUS
  <2>5. i \in 1 .. n /\ ~ Falls(f[i], A) /\ Greatest(p, A) /\ A \in SUBSET (1 .. i - 1)
    BY <1>2, <1>3, <2>4
  <2>6. CASE A = {}
    <3>1. f[i] = <<>>
      BY <1>5, <2>4, <2>5, <2>6 DEF Greatest
    <3>2. Falls(<<>>, {})
      BY DEF Falls
    <3>3. QED BY <2>5, <2>6, <3>1, <3>2
  <2>7. CASE A # {}
    <3>1. p \in A /\ (\A o \in A : o <= p) /\ p \in 1 .. i - 1 /\ p \in 1 .. n /\ p # 0 /\ p \in Nat /\ p < i
      <4>1. p \in A /\ \A o \in A : o <= p
        BY <2>5, <2>7 DEF Greatest
      <4>2. p \in 1 .. i - 1 /\ i \in 1 .. n
        BY <2>5, <4>1
      <4>3. QED BY <1>2, <4>1, <4>2
    <3>2. f[i] = <<p>> \o f[p]
      BY <1>5, <2>4, <2>5, <3>1
    <3>3. p \notin T
      BY <2>3, <2>5, <3>1
    <3>4. PICK B : B = Parens(t, Around(t, p))
      OBVIOUS
    <3>5. Falls(f[p], B) /\ B \in SUBSET (1 .. p - 1)
      BY <1>3, <3>1, <3>3, <3>4
    <3>6. \A y \in B : y < p
      BY <3>1, <3>5
    <3>7. Falls(<<p>> \o f[p], B \cup {p})
      BY <3>1, <3>5, <3>6, FallsFrom
    <3>8. A = B \cup {p}
      BY <2>4, <2>5, <3>1, <3>4, AroundParent
    <3>9. QED BY <2>5, <3>2, <3>7, <3>8
  <2>8. QED BY <2>6, <2>7
<1>7. ASSUME NEW i \in 1 .. n PROVE Falls(K!Ancestors(s, i), Parens(t, Around(t, i)))
  <2>1. Falls(f[i], Parens(t, Around(t, i))) /\ i \in 0 .. n
    BY <1>2, <1>6
  <2>2. QED BY <1>5, <2>1
<1>8. QED BY <1>7

(* As many parentheses and brackets are around a token as it is deep.      *)
LEMMA AroundCount ==
  ASSUME NEW t, NEW n, NEW h, Heights(t, n, h), NEW i \in 1 .. n
  PROVE  Cardinality(Around(t, i)) = Deep(t, h, i)
<1>1. n \in Nat /\ i \in 0 .. n /\ i - 1 \in 0 .. n
  BY DEF Heights
<1>2. \A j \in 0 .. n : Cardinality(OpenAt(t, j)) = h[j]
  BY OpenCount
<1>3. Cardinality(OpenAt(t, i)) = h[i] /\ Cardinality(OpenAt(t, i - 1)) = h[i - 1]
  BY <1>1, <1>2
<1>4. CASE t[i] \in Closes
  <2>1. Around(t, i) = OpenAt(t, i)
    BY <1>4, AroundIsOpen
  <2>2. QED BY <1>3, <1>4, <2>1 DEF Deep
<1>5. CASE t[i] \notin Closes
  <2>1. Around(t, i) = OpenAt(t, i - 1)
    BY <1>5, AroundIsOpen
  <2>2. QED BY <1>3, <1>5, <2>1 DEF Deep
<1>6. QED BY <1>4, <1>5

(* What Index answers, and what it promises.                               *)
ShapeOf(t) ==
  LET s == K!Structure(t)
  IN  [depths |-> s.depths, pairs |-> s.pairs, ancestors |-> [i \in DOMAIN t |-> K!Ancestors(s, i)]]

DepthsTyped(a) == Range(a.depths) \subseteq Nat

ShapeNests(t, a) ==
  /\ a.pairs = {<<o, Partner(t, o)>> : o \in {i \in DOMAIN t : t[i] = "("}}
  /\ \A i \in DOMAIN t :
       /\ a.depths[i] = Cardinality(Around(t, i))
       /\ Descends(a.ancestors[i], {o \in Around(t, i) : t[o] = "("})

(* A depth is never below zero.                                            *)
LEMMA ShapeTyped ==
  ASSUME NEW t \in Seq(STRING)
  PROVE  DepthsTyped(ShapeOf(t))
<1>1. PICK n, g, s : n = Len(t) /\ Passes(g, t) /\ s = K!Structure(t) /\ s = g[n]
  BY StructurePasses
<1>2. s \in TokenState
  <2>1. n \in 0 .. n
    BY <1>1
  <2>2. QED BY <1>1, <2>1 DEF Passes
<1>3. s.depths \in Seq(Nat)
  BY <1>2 DEF TokenState
<1>4. PICK d : d = s.depths
  OBVIOUS
<1>5. d \in Seq(Nat) /\ ShapeOf(t).depths = d
  BY <1>1, <1>3, <1>4 DEF ShapeOf
<1>6. \A i \in DOMAIN d : d[i] \in Nat
  BY <1>5
<1>7. QED BY <1>5, <1>6 DEF DepthsTyped, Range

(* In properly nested tokens the shape is their nesting.                   *)
LEMMA ShapeOfText ==
  ASSUME NEW t \in Seq(STRING), Nested(t)
  PROVE  ShapeNests(t, ShapeOf(t))
<1>1. PICK n, h : n = Len(t) /\ Heights(t, n, h)
  BY HeightsExist DEF Nested
<1>2. n \in Nat /\ DOMAIN t = 1 .. n
  BY <1>1
<1>3. KindsAgree(t, n)
  BY <1>2 DEF Nested, KindsAgree
<1>4. PICK s : s = K!Structure(t)
  OBVIOUS
<1>5. Stacked(t, n, h, s, n)
  BY <1>1, <1>3, <1>4, StructureStacked
<1>6. PICK a : a = ShapeOf(t)
  OBVIOUS
<1>7. a.depths = s.depths /\ a.pairs = s.pairs /\ \A i \in 1 .. n : a.ancestors[i] = K!Ancestors(s, i)
  BY <1>2, <1>4, <1>6 DEF ShapeOf
<1>8. a.pairs = {<<o, Partner(t, o)>> : o \in {i \in 1 .. n : t[i] = "("}}
  <2>1. s.pairs = PairsTo(t, n, n)
    BY <1>5 DEF Stacked
  <2>2. ASSUME NEW o \in 1 .. n, t[o] = "(" PROVE Partner(t, o) <= n
    <3>1. PICK p : p = Partner(t, o)
      OBVIOUS
    <3>2. p \in o + 1 .. n
      BY <1>1, <2>2, <3>1, PartnerMatches DEF Matched, Opens
    <3>3. QED BY <1>2, <3>1, <3>2
  <2>3. {i \in 1 .. n : t[i] = "("} = {k \in 1 .. n : t[k] = "(" /\ Partner(t, k) <= n}
    BY <2>2
  <2>4. QED BY <1>7, <2>1, <2>3 DEF PairsTo
<1>9. ASSUME NEW i \in 1 .. n
      PROVE  /\ a.depths[i] = Cardinality(Around(t, i))
             /\ Descends(a.ancestors[i], {o \in Around(t, i) : t[o] = "("})
  <2>1. s.depths[i] = Deep(t, h, i)
    BY <1>5 DEF Stacked
  <2>2. Cardinality(Around(t, i)) = Deep(t, h, i)
    BY <1>1, AroundCount
  <2>3. PICK c, S : c = K!Ancestors(s, i) /\ S = Parens(t, Around(t, i))
    OBVIOUS
  <2>4. Falls(c, S)
    BY <1>1, <1>5, <2>3, AncestorsFall
  <2>5. c \in Seq(Nat) /\ S = {c[k] : k \in 1 .. Len(c)} /\ \A k \in 1 .. Len(c), l \in 1 .. Len(c) : k < l => c[k] > c[l]
    BY <2>4 DEF Falls
  <2>6. DOMAIN c = 1 .. Len(c) /\ Len(c) \in Nat
    BY <2>5
  <2>7. Range(c) = S
    BY <2>5, <2>6 DEF Range
  <2>8. ASSUME NEW k \in DOMAIN c, NEW l \in k + 1 .. Len(c) PROVE c[k] > c[l]
    <3>1. k \in 1 .. Len(c) /\ l \in 1 .. Len(c) /\ k < l
      BY <2>6
    <3>2. QED BY <2>5, <3>1
  <2>9. Descends(c, S)
    BY <2>7, <2>8 DEF Descends
  <2>10. QED BY <1>7, <2>1, <2>2, <2>3, <2>9 DEF Parens
<1>10. QED BY <1>2, <1>6, <1>8, <1>9 DEF ShapeNests

(***************************************************************************)
(* The places of the tokens that are no comments.                          *)
(***************************************************************************)
(* p gives the places up to i in order.                                    *)
Spaced(t, p, i) ==
  /\ p \in Seq(Nat) /\ {p[k] : k \in 1 .. Len(p)} = {j \in 1 .. i : t[j] # "comment"}
  /\ \A k \in 1 .. Len(p), l \in 1 .. Len(p) : k < l => p[k] < p[l]

(* One token more.                                                         *)
LEMMA SpacedNext ==
  ASSUME NEW t, NEW i \in Nat \ {0}, NEW p, Spaced(t, p, i - 1)
  PROVE  Spaced(t, p \o (IF t[i] = "comment" THEN <<>> ELSE <<i>>), i)
<1>1. PICK A, B : A = {j \in 1 .. i - 1 : t[j] # "comment"} /\ B = {j \in 1 .. i : t[j] # "comment"}
  OBVIOUS
<1>2. /\ p \in Seq(Nat) /\ A = {p[k] : k \in 1 .. Len(p)}
      /\ \A k \in 1 .. Len(p), l \in 1 .. Len(p) : k < l => p[k] < p[l]
  BY <1>1 DEF Spaced
<1>3. Lists(p, A)
  BY <1>2 DEF Lists
<1>4. CASE t[i] = "comment"
  <2>1. B = A
    BY <1>1, <1>4
  <2>2. p \o <<>> = p
    BY <1>2
  <2>3. QED BY <1>1, <1>2, <1>4, <2>1, <2>2 DEF Spaced
<1>5. CASE t[i] # "comment"
  <2>1. B = A \cup {i}
    BY <1>1, <1>5
  <2>2. \A y \in A : y < i
    BY <1>1
  <2>3. Lists(Append(p, i), A \cup {i})
    BY <1>3, <2>2, ListsAppend
  <2>4. PICK q : q = Append(p, i)
    OBVIOUS
  <2>5. p \o <<i>> = q
    BY <1>2, <2>4, AppendIsConcat
  <2>6. /\ q \in Seq(Nat) /\ B = {q[k] : k \in 1 .. Len(q)}
        /\ \A k \in 1 .. Len(q), l \in 1 .. Len(q) : k < l => q[k] < q[l]
    BY <2>1, <2>3, <2>4 DEF Lists
  <2>7. Spaced(t, q, i)
    BY <1>1, <2>6 DEF Spaced
  <2>8. QED BY <1>5, <2>5, <2>7
<1>6. QED BY <1>4, <1>5

(* Places gives the places of all of them in order.                        *)
LEMMA PlacesSpaced ==
  ASSUME NEW t \in Seq(STRING)
  PROVE  Spaced(t, WordPlaces(t), Len(t))
<1> DEFINE n    == Len(t)
           More(i) == IF t[i] = "comment" THEN <<>> ELSE <<i>>
           step == [i \in 1 .. n |-> [p \in Seq(Nat) |-> p \o More(i)]]
           R(f) == f = [i \in 0 .. Len(t) |-> IF i = 0 THEN <<>> ELSE f[i - 1] \o (IF t[i] = "comment" THEN <<>> ELSE <<i>>)]
<1>0. n \in Nat /\ \A i \in 1 .. n : More(i) \in Seq(Nat)
  OBVIOUS
<1>1. Recursion(n, Seq(Nat), <<>>, step)
  <2> HIDE DEF More
  <2>1. ASSUME NEW i \in 1 .. n PROVE [p \in Seq(Nat) |-> p \o More(i)] \in [Seq(Nat) -> Seq(Nat)]
    <3>1. More(i) \in Seq(Nat)
      BY <1>0
    <3>2. ASSUME NEW p \in Seq(Nat) PROVE p \o More(i) \in Seq(Nat)
      BY <3>1, ConcatProperties
    <3>3. QED BY <3>2
  <2> HIDE DEF n
  <2>2. QED BY <1>0, <2>1 DEF Recursion
<1>2. PICK f : Solves(f, n, Seq(Nat), <<>>, step)
  BY <1>1, RecursionExists
<1>3. f \in [0 .. n -> Seq(Nat)] /\ f[0] = <<>> /\ \A i \in 1 .. n : f[i] = f[i - 1] \o More(i)
  <2> HIDE DEF More
  <2>1. f \in [0 .. n -> Seq(Nat)] /\ f[0] = <<>> /\ \A i \in 1 .. n : f[i] = step[i][f[i - 1]]
    BY <1>2 DEF Solves
  <2>2. ASSUME NEW i \in 1 .. n PROVE f[i] = f[i - 1] \o More(i)
    <3>1. i - 1 \in 0 .. n
      BY <1>0
    <3>2. f[i - 1] \in Seq(Nat)
      BY <2>1, <3>1
    <3>3. QED BY <2>1, <3>2
  <2> HIDE DEF step
  <2>3. QED BY <2>1, <2>2
<1> HIDE DEF step
<1>4. R(f)
  <2>1. ASSUME NEW i \in 0 .. n PROVE f[i] = IF i = 0 THEN <<>> ELSE f[i - 1] \o More(i)
    <3> HIDE DEF More
    <3>1. CASE i = 0
      BY <1>3, <3>1
    <3>2. CASE i # 0
      <4>1. i \in 1 .. n
        BY <1>0, <3>2
      <4>2. QED BY <1>3, <3>2, <4>1
    <3>3. QED BY <3>1, <3>2
  <2>2. f = [i \in 0 .. n |-> f[i]]
    BY <1>3
  <2>3. [i \in 0 .. n |-> f[i]] = [i \in 0 .. n |-> IF i = 0 THEN <<>> ELSE f[i - 1] \o More(i)]
    <3> HIDE DEF More
    <3>1. QED BY <2>1
  <2>4. QED BY <2>2, <2>3
<1>5. PICK g : g = CHOOSE x : R(x)
  OBVIOUS
<1>6. WordPlaces(t) = g[n]
  BY <1>5 DEF WordPlaces
<1>7. R(g)
  <2> HIDE DEF R
  <2>1. QED BY <1>4, <1>5
<1>8. g[0] = <<>> /\ \A i \in 1 .. n : g[i] = g[i - 1] \o More(i)
  <2>1. 0 \in 0 .. n
    BY <1>0
  <2>2. g[0] = <<>>
    BY <1>7, <2>1
  <2>3. ASSUME NEW i \in 1 .. n PROVE g[i] = g[i - 1] \o More(i)
    <3>1. i \in 0 .. n /\ i # 0
      BY <1>0
    <3>2. QED BY <1>7, <3>1
  <2>4. QED BY <2>2, <2>3
<1> HIDE DEF R
<1> DEFINE T == {i \in 0 .. n : Spaced(t, g[i], i)}
<1>9. 0 \in T
  <2>1. Spaced(t, <<>>, 0)
    BY DEF Spaced
  <2>2. QED BY <1>0, <1>8, <2>1
<1>10. ASSUME NEW l \in 0 .. n - 1, l \in T PROVE l + 1 \in T
  <2>1. PICK i : i = l + 1
    OBVIOUS
  <2>2. i \in 1 .. n /\ i - 1 = l /\ i \in Nat \ {0} /\ i \in 0 .. n
    BY <1>0, <2>1
  <2>3. PICK p : p = g[l]
    OBVIOUS
  <2>4. Spaced(t, p, i - 1)
    BY <1>10, <2>2, <2>3
  <2>5. Spaced(t, p \o More(i), i)
    BY <2>2, <2>4, SpacedNext
  <2> HIDE DEF More
  <2>6. g[i] = p \o More(i)
    BY <1>8, <2>2, <2>3
  <2>7. QED BY <2>1, <2>2, <2>5, <2>6
<1> HIDE DEF T, More
<1>11. 0 .. n \subseteq T
  BY <1>0, <1>9, <1>10, Ascent
<1>12. n \in T
  BY <1>0, <1>11
<1>13. QED BY <1>6, <1>12 DEF T

(***************************************************************************)
(* Words and their neighbours.                                             *)
(***************************************************************************)
(* w gives the words at the places p, and none elsewhere.                  *)
Reading(t, p, m, w) ==
  /\ m \in Nat /\ p \in [1 .. m -> Nat \ {0}] /\ {p[k] : k \in 1 .. m} = {j \in DOMAIN t : t[j] # "comment"}
  /\ \A k \in 1 .. m, l \in 1 .. m : k < l => p[k] < p[l]
  /\ \A k \in 1 .. m : w[k] = t[p[k]]
  /\ \A k \in {0, m + 1, m + 2, m + 3} : w[k] = "none"

(* The words of a text are read at their places.                           *)
LEMMA TextReading ==
  ASSUME NEW t \in Seq(STRING)
  PROVE  \E p, m, w : /\ Reading(t, p, m, w) /\ p = WordPlaces(t) /\ DOMAIN Spoken(t) = 1 .. m
                      /\ Len(Spoken(t)) = m /\ \A k \in 1 .. m : Spoken(t)[k] = w[k]
<1>1. PICK p, m, n, s, w :
        /\ p = WordPlaces(t) /\ m = Len(p) /\ n = Len(t) /\ s = Spoken(t)
        /\ w = [k \in Nat |-> IF k \in 1 .. m THEN t[p[k]] ELSE "none"]
  OBVIOUS
<1>2. /\ p \in Seq(Nat) /\ {p[k] : k \in 1 .. m} = {j \in 1 .. n : t[j] # "comment"}
      /\ \A k \in 1 .. m, l \in 1 .. m : k < l => p[k] < p[l]
  <2>1. Spaced(t, p, n)
    BY <1>1, PlacesSpaced
  <2>2. QED BY <1>1, <2>1 DEF Spaced
<1>3. m \in Nat /\ n \in Nat /\ DOMAIN p = 1 .. m /\ DOMAIN t = 1 .. n
  BY <1>1, <1>2
<1>4. p \in [1 .. m -> Nat \ {0}]
  <2>1. p \in [1 .. m -> Nat]
    BY <1>1, <1>2
  <2>2. \A k \in 1 .. m : p[k] \in 1 .. n
    BY <1>2
  <2>3. QED BY <2>1, <2>2
<1>5. s = [k \in 1 .. m |-> t[p[k]]]
  BY <1>1, <1>3 DEF Spoken
<1>6. DOMAIN s = 1 .. m /\ Len(s) = m
  BY <1>3, <1>5
<1>7. \A k \in 1 .. m : w[k] = t[p[k]] /\ s[k] = w[k]
  BY <1>1, <1>3, <1>5
<1>8. \A k \in {0, m + 1, m + 2, m + 3} : w[k] = "none"
  BY <1>1, <1>3
<1>9. Reading(t, p, m, w)
  BY <1>2, <1>3, <1>4, <1>7, <1>8 DEF Reading
<1>10. /\ p = WordPlaces(t) /\ DOMAIN Spoken(t) = 1 .. m
       /\ Len(Spoken(t)) = m /\ \A k \in 1 .. m : Spoken(t)[k] = w[k]
  BY <1>1, <1>6, <1>7
<1>11. QED BY <1>9, <1>10

(* The greatest and the least of numbers, as TokenShape takes them.        *)
LEMMA TokenMax ==
  ASSUME NEW S \in SUBSET Nat, NEW m \in S, \A k \in S : k <= m
  PROVE  K!Max(S) = m
<1>1. PICK x : x = K!Max(S)
  OBVIOUS
<1>2. \A k \in S : m >= k
  OBVIOUS
<1>3. x \in S /\ \A k \in S : x >= k
  BY <1>1, <1>2 DEF K!Max
<1>4. x \in Nat /\ m \in Nat /\ x >= m /\ m >= x
  BY <1>2, <1>3
<1>5. x = m
  BY <1>4
<1>6. QED BY <1>1, <1>5

(* ... and the least.                                                      *)
LEMMA TokenMin ==
  ASSUME NEW S \in SUBSET Nat, NEW m \in S, \A k \in S : m <= k
  PROVE  K!Min(S) = m
<1>1. PICK x : x = K!Min(S)
  OBVIOUS
<1>2. x \in S /\ \A k \in S : x <= k
  BY <1>1 DEF K!Min
<1>3. x \in Nat /\ m \in Nat /\ x <= m /\ m <= x
  BY <1>2
<1>4. x = m
  BY <1>3
<1>5. QED BY <1>1, <1>4

(* The neighbours of a word are the words next to it.                      *)
Neighbours(t, p, m, w, k) ==
  /\ K!Before(t, p[k]) = IF k = 1 THEN 0 ELSE p[k - 1]
  /\ K!After(t, p[k]) = IF k = m THEN 0 ELSE p[k + 1]
  /\ K!KindAt(t, p[k]) = w[k]
  /\ K!KindAt(t, K!Before(t, p[k])) = w[k - 1]
  /\ K!KindAt(t, K!After(t, p[k])) = w[k + 1]

(* Every word has them.                                                    *)
LEMMA WordsNeighbour ==
  ASSUME NEW t, NEW p, NEW m, NEW w, Reading(t, p, m, w), NEW k \in 1 .. m
  PROVE  Neighbours(t, p, m, w, k)
<1>1. PICK G : G = K!Significant(t)
  OBVIOUS
<1>2. /\ m \in Nat /\ p \in [1 .. m -> Nat \ {0}] /\ G = {p[l] : l \in 1 .. m}
      /\ \A i \in 1 .. m, l \in 1 .. m : i < l => p[i] < p[l]
      /\ \A l \in 1 .. m : w[l] = t[p[l]]
      /\ \A l \in {0, m + 1, m + 2, m + 3} : w[l] = "none"
  BY <1>1 DEF Reading, K!Significant
<1>3. \A l \in 1 .. m : p[l] \in Nat \ {0} /\ p[l] \in G
  BY <1>2
<1>4. K!Before(t, p[k]) = IF k = 1 THEN 0 ELSE p[k - 1]
  <2>1. PICK S : S = {j \in G : j < p[k]}
    OBVIOUS
  <2>2. K!Before(t, p[k]) = IF S = {} THEN 0 ELSE K!Max(S)
    BY <1>1, <2>1 DEF K!Before
  <2>3. ASSUME NEW j \in S PROVE \E l \in 1 .. k - 1 : j = p[l]
    <3>1. PICK l \in 1 .. m : j = p[l]
      BY <1>2, <2>1
    <3>2. ~ (k < l) /\ k # l
      <4>1. p[l] < p[k] /\ p[l] \in Nat /\ p[k] \in Nat
        BY <1>3, <2>1, <3>1
      <4>2. k < l => p[k] < p[l]
        BY <1>2
      <4>3. QED BY <4>1, <4>2
    <3>3. l \in 1 .. k - 1
      BY <1>2, <3>2
    <3>4. QED BY <3>1, <3>3
  <2>4. CASE k = 1
    <3>1. S = {}
      BY <2>3, <2>4
    <3>2. QED BY <2>2, <2>4, <3>1
  <2>5. CASE k # 1
    <3>1. PICK l : l = k - 1
      OBVIOUS
    <3>2. l \in 1 .. m /\ l < k
      BY <1>2, <2>5, <3>1
    <3>3. p[l] \in S /\ S \in SUBSET Nat
      <4>1. p[l] < p[k] /\ p[l] \in G
        BY <1>2, <1>3, <3>2
      <4>2. G \in SUBSET Nat
        BY <1>2, <1>3
      <4>3. QED BY <2>1, <4>1, <4>2
    <3>4. ASSUME NEW j \in S PROVE j <= p[l]
      <4>1. PICK i \in 1 .. k - 1 : j = p[i]
        BY <2>3
      <4>2. i \in 1 .. m /\ (i < l \/ i = l)
        BY <1>2, <3>1, <4>1
      <4>3. p[i] \in Nat /\ p[l] \in Nat
        BY <1>3, <3>2, <4>2
      <4>4. QED BY <1>2, <3>2, <4>1, <4>2, <4>3
    <3>5. K!Max(S) = p[l]
      BY <3>3, <3>4, TokenMax
    <3>6. QED BY <2>2, <2>5, <3>1, <3>3, <3>5
  <2>6. QED BY <2>4, <2>5
<1>5. K!After(t, p[k]) = IF k = m THEN 0 ELSE p[k + 1]
  <2>1. PICK S : S = {j \in G : j > p[k]}
    OBVIOUS
  <2>2. K!After(t, p[k]) = IF S = {} THEN 0 ELSE K!Min(S)
    BY <1>1, <2>1 DEF K!After
  <2>3. ASSUME NEW j \in S PROVE \E l \in k + 1 .. m : j = p[l]
    <3>1. PICK l \in 1 .. m : j = p[l]
      BY <1>2, <2>1
    <3>2. ~ (l < k) /\ k # l
      <4>1. p[l] > p[k] /\ p[l] \in Nat /\ p[k] \in Nat
        BY <1>3, <2>1, <3>1
      <4>2. l < k => p[l] < p[k]
        BY <1>2
      <4>3. QED BY <4>1, <4>2
    <3>3. l \in k + 1 .. m
      BY <1>2, <3>2
    <3>4. QED BY <3>1, <3>3
  <2>4. CASE k = m
    <3>1. S = {}
      BY <1>2, <2>3, <2>4
    <3>2. QED BY <2>2, <2>4, <3>1
  <2>5. CASE k # m
    <3>1. PICK l : l = k + 1
      OBVIOUS
    <3>2. l \in 1 .. m /\ k < l
      BY <1>2, <2>5, <3>1
    <3>3. p[l] \in S /\ S \in SUBSET Nat
      <4>1. p[k] < p[l] /\ p[l] \in G /\ p[k] \in Nat /\ p[l] \in Nat
        BY <1>2, <1>3, <3>2
      <4>2. G \in SUBSET Nat
        BY <1>2, <1>3
      <4>3. QED BY <2>1, <4>1, <4>2
    <3>4. ASSUME NEW j \in S PROVE p[l] <= j
      <4>1. PICK i \in k + 1 .. m : j = p[i]
        BY <2>3
      <4>2. i \in 1 .. m /\ (l < i \/ i = l)
        BY <1>2, <3>1, <4>1
      <4>3. p[i] \in Nat /\ p[l] \in Nat
        BY <1>3, <3>2, <4>2
      <4>4. QED BY <1>2, <3>2, <4>1, <4>2, <4>3
    <3>5. K!Min(S) = p[l]
      BY <3>3, <3>4, TokenMin
    <3>6. QED BY <2>2, <2>5, <3>1, <3>3, <3>5
  <2>6. QED BY <2>4, <2>5
<1>6. K!KindAt(t, p[k]) = w[k]
  BY <1>2, <1>3 DEF K!KindAt
<1>7. K!KindAt(t, K!Before(t, p[k])) = w[k - 1]
  <2>1. CASE k = 1
    <3>1. K!Before(t, p[k]) = 0 /\ k - 1 = 0
      BY <1>4, <2>1
    <3>2. QED BY <1>2, <3>1 DEF K!KindAt
  <2>2. CASE k # 1
    <3>1. PICK l : l = k - 1
      OBVIOUS
    <3>2. l \in 1 .. m /\ K!Before(t, p[k]) = p[l]
      BY <1>2, <1>4, <2>2, <3>1
    <3>3. QED BY <1>2, <1>3, <3>1, <3>2 DEF K!KindAt
  <2>3. QED BY <2>1, <2>2
<1>8. K!KindAt(t, K!After(t, p[k])) = w[k + 1]
  <2>1. CASE k = m
    <3>1. K!After(t, p[k]) = 0 /\ k + 1 = m + 1
      BY <1>5, <2>1
    <3>2. QED BY <1>2, <3>1 DEF K!KindAt
  <2>2. CASE k # m
    <3>1. PICK l : l = k + 1
      OBVIOUS
    <3>2. l \in 1 .. m /\ K!After(t, p[k]) = p[l]
      BY <1>2, <1>5, <2>2, <3>1
    <3>3. QED BY <1>2, <1>3, <3>1, <3>2 DEF K!KindAt
  <2>3. QED BY <2>1, <2>2
<1>9. QED BY <1>4, <1>5, <1>6, <1>7, <1>8 DEF Neighbours

(***************************************************************************)
(* Headers.                                                                *)
(***************************************************************************)
Plain == {"INNER", "CROSS"}

(* The words of a header from its first on, without NATURAL.               *)
CoreAt(w, k) ==
  \/ w[k] = "JOIN"
  \/ w[k] \in Sided \cup Plain /\ w[k + 1] = "JOIN"
  \/ w[k] \in Sided /\ w[k + 1] = "OUTER" /\ w[k + 2] = "JOIN"

HeadAt(w, k) == CoreAt(w, k) \/ (w[k] = "NATURAL" /\ CoreAt(w, k + 1))

(* Where JoinWordAfter finds the word of a join.                           *)
LEMMA JoinWordFound ==
  ASSUME NEW t, NEW p, NEW m, NEW w, Reading(t, p, m, w), NEW k \in 1 .. m
  PROVE  (K!JoinWordAfter(t, p[k]) # 0) <=> CoreAt(w, k)
<1>1. PICK i, next : i = p[k] /\ next = K!After(t, i)
  OBVIOUS
<1>2. m \in Nat /\ i # 0 /\ i \in Nat /\ \A l \in 1 .. m : p[l] # 0
  BY <1>1 DEF Reading
<1>3. K!KindAt(t, i) = w[k] /\ K!KindAt(t, next) = w[k + 1] /\ next = IF k = m THEN 0 ELSE p[k + 1]
  <2>1. Neighbours(t, p, m, w, k)
    BY WordsNeighbour
  <2>2. QED BY <1>1, <2>1 DEF Neighbours
<1>4. \A l \in {0, m + 1, m + 2, m + 3} : w[l] = "none"
  BY DEF Reading
<1>5. PICK join : join = IF K!KindAt(t, i) \in K!Sided /\ K!KindAt(t, next) = "OUTER" THEN K!After(t, next) ELSE next
  OBVIOUS
<1>6. K!JoinWordAfter(t, i) =
        IF K!KindAt(t, i) = "JOIN" THEN i
        ELSE IF K!KindAt(t, i) \in K!Sided \cup K!Plain /\ K!KindAt(t, join) = "JOIN" THEN join ELSE 0
  BY <1>1, <1>5 DEF K!JoinWordAfter
<1>7. K!Sided = Sided /\ K!Plain = Plain
  BY DEF K!Sided, Sided, K!Plain, Plain
<1>8. K!KindAt(t, join) = "JOIN" => join # 0
  BY DEF K!KindAt
<1>9. CASE w[k] \in Sided /\ w[k + 1] = "OUTER"
  <2>1. k # m
    BY <1>2, <1>4, <1>9
  <2>2. PICK l : l = k + 1
    OBVIOUS
  <2>3. l \in 1 .. m /\ next = p[l] /\ l + 1 = k + 2
    BY <1>2, <1>3, <2>1, <2>2
  <2>4. K!KindAt(t, K!After(t, p[l])) = w[k + 2]
    <3>1. Neighbours(t, p, m, w, l)
      BY <2>3, WordsNeighbour
    <3>2. QED BY <2>3, <3>1 DEF Neighbours
  <2>5. K!KindAt(t, join) = w[k + 2]
    BY <1>3, <1>5, <1>7, <1>9, <2>3, <2>4
  <2>6. w[k] # "JOIN" /\ w[k + 1] # "JOIN"
    BY <1>9 DEF Sided
  <2>7. (K!JoinWordAfter(t, i) # 0) <=> (w[k + 2] = "JOIN")
    BY <1>3, <1>6, <1>7, <1>8, <1>9, <2>5, <2>6
  <2>8. QED BY <1>1, <1>9, <2>6, <2>7 DEF CoreAt
<1>10. CASE ~ (w[k] \in Sided /\ w[k + 1] = "OUTER")
  <2>1. join = next
    BY <1>3, <1>5, <1>7, <1>10
  <2>2. K!KindAt(t, join) = w[k + 1]
    BY <1>3, <2>1
  <2>3. (K!JoinWordAfter(t, i) # 0) <=> (w[k] = "JOIN" \/ (w[k] \in Sided \cup Plain /\ w[k + 1] = "JOIN"))
    BY <1>2, <1>3, <1>6, <1>7, <1>8, <2>2
  <2>4. QED BY <1>1, <1>10, <2>3 DEF CoreAt
<1>11. QED BY <1>9, <1>10

(* Which words IsJoinStart takes for the start of a join.                  *)
StartsAt(w, k) ==
  /\ HeadAt(w, k)
  /\ \/ w[k] = "NATURAL"
     \/ w[k] \in Sided \cup Plain /\ w[k - 1] # "NATURAL"
     \/ w[k] = "JOIN" /\ w[k - 1] \notin {"NATURAL", "OUTER"} \cup Sided \cup Plain

(* Those.                                                                  *)
LEMMA JoinStartRead ==
  ASSUME NEW t, NEW p, NEW m, NEW w, Reading(t, p, m, w), NEW k \in 1 .. m
  PROVE  K!IsJoinStart(t, p[k]) <=> StartsAt(w, k)
<1>1. PICK i : i = p[k]
  OBVIOUS
<1>2. /\ m \in Nat /\ w[m + 1] = "none" /\ i # 0 /\ t[i] = w[k]
      /\ \A l \in 1 .. m : p[l] # 0
  BY <1>1 DEF Reading
<1>3. /\ K!After(t, i) = (IF k = m THEN 0 ELSE p[k + 1]) /\ K!KindAt(t, K!Before(t, i)) = w[k - 1]
  <2>1. Neighbours(t, p, m, w, k)
    BY WordsNeighbour
  <2>2. QED BY <1>1, <2>1 DEF Neighbours
<1>4. (K!JoinKeyword(t, i) # 0) <=> HeadAt(w, k)
  <2>1. CASE w[k] # "NATURAL"
    <3>1. K!JoinKeyword(t, i) = K!JoinWordAfter(t, i)
      BY <1>2, <2>1 DEF K!JoinKeyword
    <3>2. (K!JoinWordAfter(t, i) # 0) <=> CoreAt(w, k)
      BY <1>1, JoinWordFound
    <3>3. QED BY <2>1, <3>1, <3>2 DEF HeadAt
  <2>2. CASE w[k] = "NATURAL"
    <3>1. ~ CoreAt(w, k)
      BY <2>2 DEF CoreAt, Sided, Plain
    <3>2. K!JoinKeyword(t, i) = IF K!After(t, i) = 0 THEN 0 ELSE K!JoinWordAfter(t, K!After(t, i))
      BY <1>2, <2>2 DEF K!JoinKeyword
    <3>3. CASE k = m
      <4>1. K!JoinKeyword(t, i) = 0
        BY <1>3, <3>2, <3>3
      <4>2. ~ CoreAt(w, k + 1)
        BY <1>2, <3>3 DEF CoreAt, Sided, Plain
      <4>3. QED BY <3>1, <4>1, <4>2 DEF HeadAt
    <3>4. CASE k # m
      <4>1. PICK l : l = k + 1
        OBVIOUS
      <4>2. l \in 1 .. m /\ K!After(t, i) = p[l] /\ p[l] # 0
        BY <1>2, <1>3, <3>4, <4>1
      <4>3. (K!JoinWordAfter(t, p[l]) # 0) <=> CoreAt(w, l)
        BY <4>2, JoinWordFound
      <4>4. QED BY <2>2, <3>1, <3>2, <4>1, <4>2, <4>3 DEF HeadAt
    <3>5. QED BY <3>3, <3>4
  <2>3. QED BY <2>1, <2>2
<1>5. K!Sided = Sided /\ K!Plain = Plain
  BY DEF K!Sided, Sided, K!Plain, Plain
<1>6. QED BY <1>1, <1>2, <1>3, <1>4, <1>5 DEF K!IsJoinStart, StartsAt

(* The headers, word by word.                                              *)
IsHeader(h) ==
  \/ Len(h) = 1 /\ h[1] = "JOIN"
  \/ Len(h) = 2 /\ h[1] \in {"NATURAL"} \cup Sided \cup Plain /\ h[2] = "JOIN"
  \/ Len(h) = 3 /\ h[1] \in Sided /\ h[2] = "OUTER" /\ h[3] = "JOIN"
  \/ Len(h) = 3 /\ h[1] = "NATURAL" /\ h[2] \in Sided \cup Plain /\ h[3] = "JOIN"
  \/ Len(h) = 4 /\ h[1] = "NATURAL" /\ h[2] \in Sided /\ h[3] = "OUTER" /\ h[4] = "JOIN"

(* What stands between NATURAL and JOIN.                                   *)
Word == {"NATURAL", "OUTER", "JOIN"} \cup Sided \cup Plain

HeadWords == {<<>>, <<"INNER">>, <<"CROSS">>} \cup {<<side>> : side \in Sided} \cup {<<side, "OUTER">> : side \in Sided}

IsHead(a) ==
  \/ Len(a) = 0
  \/ Len(a) = 1 /\ a[1] \in Sided \cup Plain
  \/ Len(a) = 2 /\ a[1] \in Sided /\ a[2] = "OUTER"

(* That is what they are.                                                  *)
LEMMA HeadIs ==
  ASSUME NEW a \in HeadWords
  PROVE  a \in Seq(Word) /\ IsHead(a)
<1>1. CASE a = <<>>
  BY <1>1 DEF IsHead
<1>2. CASE a = <<"INNER">>
  BY <1>2 DEF IsHead, Plain, Word
<1>3. CASE a = <<"CROSS">>
  BY <1>3 DEF IsHead, Plain, Word
<1>4. CASE a \in {<<side>> : side \in Sided}
  <2>1. PICK side \in Sided : a = <<side>>
    BY <1>4
  <2>2. side \in Word
    BY DEF Word
  <2>3. QED BY <2>1, <2>2 DEF IsHead, Word
<1>5. CASE a \in {<<side, "OUTER">> : side \in Sided}
  <2>1. PICK side \in Sided : a = <<side, "OUTER">>
    BY <1>5
  <2>2. side \in Word
    BY DEF Word
  <2>3. QED BY <2>1, <2>2 DEF IsHead, Word
<1>6. QED BY <1>1, <1>2, <1>3, <1>4, <1>5 DEF HeadWords

(* JOIN behind them, and NATURAL before.                                   *)
LEMMA HeadJoined ==
  ASSUME NEW a \in Seq(Word), NEW n, n = Len(a)
  PROVE  /\ Len(a \o <<"JOIN">>) = n + 1 /\ (a \o <<"JOIN">>)[n + 1] = "JOIN"
         /\ \A q \in 1 .. n : (a \o <<"JOIN">>)[q] = a[q]
         /\ Len(<<"NATURAL">> \o a \o <<"JOIN">>) = n + 2 /\ (<<"NATURAL">> \o a \o <<"JOIN">>)[n + 2] = "JOIN"
         /\ (<<"NATURAL">> \o a \o <<"JOIN">>)[1] = "NATURAL"
         /\ \A q \in 1 .. n : (<<"NATURAL">> \o a \o <<"JOIN">>)[q + 1] = a[q]
<1>1. PICK j, N : j = <<"JOIN">> /\ N = <<"NATURAL">>
  OBVIOUS
<1>2. j \in Seq(Word) /\ N \in Seq(Word) /\ Len(j) = 1 /\ Len(N) = 1 /\ j[1] = "JOIN" /\ N[1] = "NATURAL" /\ n \in Nat
  BY <1>1 DEF Word
<1>3. PICK b, c, d : b = a \o j /\ c = N \o a /\ d = c \o j
  OBVIOUS
<1>4. Len(b) = n + 1 /\ \A i \in 1 .. n + 1 : b[i] = IF i <= n THEN a[i] ELSE j[i - n]
  <2>1. Len(a \o j) = Len(a) + Len(j) /\ \A i \in 1 .. Len(a) + Len(j) : (a \o j)[i] = IF i <= Len(a) THEN a[i] ELSE j[i - Len(a)]
    BY <1>2, ConcatProperties
  <2>2. QED BY <1>2, <1>3, <2>1
<1>5. c \in Seq(Word) /\ Len(c) = n + 1 /\ \A i \in 1 .. n + 1 : c[i] = IF i <= 1 THEN N[i] ELSE a[i - 1]
  <2>1. N \o a \in Seq(Word) /\ Len(N \o a) = Len(N) + Len(a) /\ \A i \in 1 .. Len(N) + Len(a) : (N \o a)[i] = IF i <= Len(N) THEN N[i] ELSE a[i - Len(N)]
    BY <1>2, ConcatProperties
  <2>2. Len(N) + Len(a) = n + 1
    BY <1>2
  <2>3. QED BY <1>2, <1>3, <2>1, <2>2
<1>6. Len(d) = n + 2 /\ \A i \in 1 .. n + 2 : d[i] = IF i <= n + 1 THEN c[i] ELSE j[i - (n + 1)]
  <2>1. Len(c \o j) = Len(c) + Len(j) /\ \A i \in 1 .. Len(c) + Len(j) : (c \o j)[i] = IF i <= Len(c) THEN c[i] ELSE j[i - Len(c)]
    BY <1>2, <1>5, ConcatProperties
  <2>2. Len(c) + Len(j) = n + 2
    BY <1>2, <1>5
  <2>3. QED BY <1>3, <1>5, <2>1, <2>2
<1>7. b[n + 1] = "JOIN" /\ \A q \in 1 .. n : b[q] = a[q]
  BY <1>2, <1>4
<1>8. d[n + 2] = "JOIN"
  <2>1. n + 2 \in 1 .. n + 2 /\ ~ (n + 2 <= n + 1) /\ (n + 2) - (n + 1) = 1
    BY <1>2
  <2>2. QED BY <1>2, <1>6, <2>1
<1>9. d[1] = "NATURAL"
  <2>1. 1 \in 1 .. n + 2 /\ 1 <= n + 1 /\ 1 \in 1 .. n + 1
    BY <1>2
  <2>2. QED BY <1>2, <1>5, <1>6, <2>1
<1>10. ASSUME NEW q \in 1 .. n PROVE d[q + 1] = a[q]
  <2>1. q + 1 \in 1 .. n + 2 /\ q + 1 <= n + 1 /\ q + 1 \in 1 .. n + 1 /\ ~ (q + 1 <= 1) /\ (q + 1) - 1 = q
    BY <1>2
  <2>2. QED BY <1>5, <1>6, <2>1
<1>11. QED BY <1>1, <1>3, <1>4, <1>6, <1>7, <1>8, <1>9, <1>10

(* A header is a head and JOIN, with NATURAL before them or not.           *)
LEMMA HeadersAre ==
  ASSUME NEW h
  PROVE  h \in Header <=> \E a \in HeadWords : h = a \o <<"JOIN">> \/ h = <<"NATURAL">> \o a \o <<"JOIN">>
BY DEF Header, HeadWords

(* Every header is one of the five forms.                                  *)
LEMMA HeaderIs ==
  ASSUME NEW h \in Header
  PROVE  IsHeader(h)
<1>1. PICK a \in HeadWords : h = a \o <<"JOIN">> \/ h = <<"NATURAL">> \o a \o <<"JOIN">>
  BY HeadersAre
<1>2. PICK n : n = Len(a)
  OBVIOUS
<1>3. a \in Seq(Word) /\ IsHead(a)
  BY HeadIs
<1>4. CASE h = a \o <<"JOIN">>
  <2>1. Len(h) = n + 1 /\ h[n + 1] = "JOIN" /\ \A q \in 1 .. n : h[q] = a[q]
    BY <1>2, <1>3, <1>4, HeadJoined
  <2>2. CASE n = 0
    BY <2>1, <2>2 DEF IsHeader
  <2>3. CASE n = 1
    BY <1>2, <1>3, <2>1, <2>3 DEF IsHeader, IsHead
  <2>4. CASE n = 2
    BY <1>2, <1>3, <2>1, <2>4 DEF IsHeader, IsHead
  <2>5. QED BY <1>2, <1>3, <2>2, <2>3, <2>4 DEF IsHead
<1>5. CASE h = <<"NATURAL">> \o a \o <<"JOIN">>
  <2>1. Len(h) = n + 2 /\ h[n + 2] = "JOIN" /\ h[1] = "NATURAL" /\ \A q \in 1 .. n : h[q + 1] = a[q]
    BY <1>2, <1>3, <1>5, HeadJoined
  <2>2. CASE n = 0
    BY <2>1, <2>2 DEF IsHeader
  <2>3. CASE n = 1
    <3>1. h[2] = a[1]
      BY <2>1, <2>3
    <3>2. QED BY <1>2, <1>3, <2>1, <2>3, <3>1 DEF IsHeader, IsHead
  <2>4. CASE n = 2
    <3>1. h[2] = a[1] /\ h[3] = a[2]
      BY <2>1, <2>4
    <3>2. QED BY <1>2, <1>3, <2>1, <2>4, <3>1 DEF IsHeader, IsHead
  <2>5. QED BY <1>2, <1>3, <2>2, <2>3, <2>4 DEF IsHead
<1>6. QED BY <1>1, <1>4, <1>5

(* ... and every form is one.                                              *)
LEMMA HeadersThere ==
  /\ \E h \in Header : Len(h) = 1 /\ h[1] = "JOIN"
  /\ \A x \in {"NATURAL"} \cup Sided \cup Plain : \E h \in Header : Len(h) = 2 /\ h[1] = x /\ h[2] = "JOIN"
  /\ \A x \in Sided : \E h \in Header : Len(h) = 3 /\ h[1] = x /\ h[2] = "OUTER" /\ h[3] = "JOIN"
  /\ \A x \in Sided \cup Plain : \E h \in Header : Len(h) = 3 /\ h[1] = "NATURAL" /\ h[2] = x /\ h[3] = "JOIN"
  /\ \A x \in Sided : \E h \in Header : Len(h) = 4 /\ h[1] = "NATURAL" /\ h[2] = x /\ h[3] = "OUTER" /\ h[4] = "JOIN"
<1> DEFINE Short(a, n) == \E h \in Header : Len(h) = n + 1 /\ h[n + 1] = "JOIN" /\ \A q \in 1 .. n : h[q] = a[q]
           Long(a, n)  == \E h \in Header : /\ Len(h) = n + 2 /\ h[n + 2] = "JOIN" /\ h[1] = "NATURAL"
                                            /\ \A q \in 1 .. n : h[q + 1] = a[q]
<1>1. ASSUME NEW a \in HeadWords, NEW n, n = Len(a) PROVE Short(a, n) /\ Long(a, n)
  <2>1. PICK b, d : b = a \o <<"JOIN">> /\ d = <<"NATURAL">> \o a \o <<"JOIN">>
    OBVIOUS
  <2>2. b \in Header /\ d \in Header
    BY <2>1, HeadersAre
  <2>3. a \in Seq(Word)
    BY HeadIs
  <2>4. /\ Len(b) = n + 1 /\ b[n + 1] = "JOIN" /\ (\A q \in 1 .. n : b[q] = a[q])
        /\ Len(d) = n + 2 /\ d[n + 2] = "JOIN" /\ d[1] = "NATURAL" /\ \A q \in 1 .. n : d[q + 1] = a[q]
    BY <1>1, <2>1, <2>3, HeadJoined
  <2>5. QED BY <2>2, <2>4
<1> HIDE DEF Short, Long
<1>2. PICK e : e = <<>>
  OBVIOUS
<1>3. e \in HeadWords /\ Len(e) = 0
  BY <1>2 DEF HeadWords
<1>4. ASSUME NEW x \in Sided \cup Plain PROVE \E a \in HeadWords : Len(a) = 1 /\ a[1] = x
  <2>1. PICK a : a = <<x>>
    OBVIOUS
  <2>2. a \in HeadWords
    BY <2>1 DEF HeadWords, Plain
  <2>3. QED BY <2>1, <2>2
<1>5. ASSUME NEW x \in Sided PROVE \E a \in HeadWords : Len(a) = 2 /\ a[1] = x /\ a[2] = "OUTER"
  <2>1. PICK a : a = <<x, "OUTER">>
    OBVIOUS
  <2>2. a \in HeadWords
    BY <2>1 DEF HeadWords
  <2>3. QED BY <2>1, <2>2
<1>6. \E h \in Header : Len(h) = 1 /\ h[1] = "JOIN"
  <2>1. PICK n : n = 0
    OBVIOUS
  <2>2. Short(e, n)
    BY <1>1, <1>3, <2>1
  <2>3. PICK h \in Header : Len(h) = n + 1 /\ h[n + 1] = "JOIN"
    BY <2>2 DEF Short
  <2>4. QED BY <2>1, <2>3
<1>7. ASSUME NEW x \in {"NATURAL"} \cup Sided \cup Plain
      PROVE  \E h \in Header : Len(h) = 2 /\ h[1] = x /\ h[2] = "JOIN"
  <2>1. CASE x = "NATURAL"
    <3>1. PICK n : n = 0
      OBVIOUS
    <3>2. Long(e, n)
      BY <1>1, <1>3, <3>1
    <3>3. PICK h \in Header : Len(h) = n + 2 /\ h[n + 2] = "JOIN" /\ h[1] = "NATURAL"
      BY <3>2 DEF Long
    <3>4. QED BY <2>1, <3>1, <3>3
  <2>2. CASE x \in Sided \cup Plain
    <3>1. PICK a \in HeadWords : Len(a) = 1 /\ a[1] = x
      BY <1>4, <2>2
    <3>2. PICK n : n = 1
      OBVIOUS
    <3>3. Short(a, n)
      BY <1>1, <3>1, <3>2
    <3>4. PICK h \in Header : Len(h) = n + 1 /\ h[n + 1] = "JOIN" /\ \A q \in 1 .. n : h[q] = a[q]
      BY <3>3 DEF Short
    <3>5. h[1] = x
      BY <3>1, <3>2, <3>4
    <3>6. QED BY <3>2, <3>4, <3>5
  <2>3. QED BY <2>1, <2>2
<1>8. ASSUME NEW x \in Sided
      PROVE  /\ \E h \in Header : Len(h) = 3 /\ h[1] = x /\ h[2] = "OUTER" /\ h[3] = "JOIN"
             /\ \E h \in Header : Len(h) = 4 /\ h[1] = "NATURAL" /\ h[2] = x /\ h[3] = "OUTER" /\ h[4] = "JOIN"
  <2>1. PICK a \in HeadWords : Len(a) = 2 /\ a[1] = x /\ a[2] = "OUTER"
    BY <1>5
  <2>2. PICK n : n = 2
    OBVIOUS
  <2>3. Short(a, n) /\ Long(a, n)
    BY <1>1, <2>1, <2>2
  <2>4. PICK h \in Header : Len(h) = n + 1 /\ h[n + 1] = "JOIN" /\ \A q \in 1 .. n : h[q] = a[q]
    BY <2>3 DEF Short
  <2>5. PICK g \in Header : Len(g) = n + 2 /\ g[n + 2] = "JOIN" /\ g[1] = "NATURAL" /\ \A q \in 1 .. n : g[q + 1] = a[q]
    BY <2>3 DEF Long
  <2>6. h[1] = x /\ h[2] = "OUTER" /\ g[2] = x /\ g[3] = "OUTER"
    <3>1. h[1] = a[1] /\ h[2] = a[2]
      BY <2>2, <2>4
    <3>2. g[2] = a[1] /\ g[3] = a[2]
      <4>1. 1 \in 1 .. n /\ 2 \in 1 .. n /\ 1 + 1 = 2 /\ 2 + 1 = 3
        BY <2>2
      <4>2. QED BY <2>5, <4>1
    <3>3. QED BY <2>1, <3>1, <3>2
  <2>7. QED BY <2>2, <2>4, <2>5, <2>6
<1>9. ASSUME NEW x \in Sided \cup Plain
      PROVE  \E h \in Header : Len(h) = 3 /\ h[1] = "NATURAL" /\ h[2] = x /\ h[3] = "JOIN"
  <2>1. PICK a \in HeadWords : Len(a) = 1 /\ a[1] = x
    BY <1>4
  <2>2. PICK n : n = 1
    OBVIOUS
  <2>3. Long(a, n)
    BY <1>1, <2>1, <2>2
  <2>4. PICK h \in Header : Len(h) = n + 2 /\ h[n + 2] = "JOIN" /\ h[1] = "NATURAL" /\ \A q \in 1 .. n : h[q + 1] = a[q]
    BY <2>3 DEF Long
  <2>5. h[2] = x
    <3>1. 1 \in 1 .. n /\ 1 + 1 = 2
      BY <2>2
    <3>2. h[2] = a[1]
      BY <2>4, <3>1
    <3>3. QED BY <2>1, <3>2
  <2>6. QED BY <2>2, <2>4, <2>5
<1>10. QED BY <1>6, <1>7, <1>8, <1>9

(* s reads as w: the words of w up to m, and none behind them.             *)
ReadAs(s, m, w) ==
  /\ m \in Nat /\ Len(s) = m /\ (\A k \in 1 .. m : s[k] = w[k])
  /\ \A k \in {0, m + 1, m + 2, m + 3} : w[k] = "none"

(* A header stands where its words stand.                                  *)
LEMMA HeaderThere ==
  ASSUME NEW s, NEW m, NEW w, ReadAs(s, m, w), NEW k \in 1 .. m
  PROVE  HeadersAt(s, k) # {} <=> HeadAt(w, k)
<1>1. m \in Nat /\ Len(s) = m /\ (\A l \in 1 .. m : s[l] = w[l]) /\ w[m + 1] = "none" /\ w[m + 2] = "none" /\ w[m + 3] = "none"
  BY DEF ReadAs
<1>2. ASSUME NEW h \in HeadersAt(s, k) PROVE HeadAt(w, k)
  <2>1. h \in Header /\ k + Len(h) - 1 <= m /\ \A i \in 1 .. Len(h) : s[k + i - 1] = h[i]
    BY <1>1 DEF HeadersAt
  <2>2. IsHeader(h)
    BY <2>1, HeaderIs
  <2>3. ASSUME NEW i \in 1 .. Len(h), Len(h) \in Nat PROVE w[k + i - 1] = h[i]
    <3>1. k + i - 1 \in 1 .. m
      BY <1>1, <2>1, <2>3
    <3>2. QED BY <1>1, <2>1, <3>1
  <2>4. Len(h) \in {1, 2, 3, 4}
    BY <2>2 DEF IsHeader
  <2>5. w[k] = h[1] /\ (Len(h) >= 2 => w[k + 1] = h[2]) /\ (Len(h) >= 3 => w[k + 2] = h[3]) /\ (Len(h) = 4 => w[k + 3] = h[4])
    <3>1. w[k + 1 - 1] = h[1]
      BY <2>3, <2>4
    <3>2. Len(h) >= 2 => w[k + 2 - 1] = h[2]
      BY <2>3, <2>4
    <3>3. Len(h) >= 3 => w[k + 3 - 1] = h[3]
      BY <2>3, <2>4
    <3>4. Len(h) = 4 => w[k + 4 - 1] = h[4]
      BY <2>3, <2>4
    <3>5. k + 1 - 1 = k /\ k + 2 - 1 = k + 1 /\ k + 3 - 1 = k + 2 /\ k + 4 - 1 = k + 3
      BY <1>1
    <3>6. QED BY <3>1, <3>2, <3>3, <3>4, <3>5
  <2>6. (k + 1) + 1 = k + 2 /\ (k + 1) + 2 = k + 3
    BY <1>1
  <2>7. QED BY <2>2, <2>4, <2>5, <2>6 DEF IsHeader, HeadAt, CoreAt
<1>3. ASSUME NEW h \in Header, Len(h) \in 1 .. 4, \A i \in 1 .. Len(h) : h[i] = w[k + i - 1] /\ h[i] # "none"
      PROVE  HeadersAt(s, k) # {}
  <2>1. ASSUME NEW i \in 1 .. Len(h), k + i - 1 > m PROVE FALSE
    <3>1. PICK j : j = m + 1 - (k - 1)
      OBVIOUS
    <3>2. j \in 1 .. i /\ j \in 1 .. Len(h) /\ k + j - 1 = m + 1
      BY <1>1, <1>3, <2>1, <3>1
    <3>3. h[j] = w[k + j - 1] /\ h[j] # "none"
      BY <1>3, <3>2
    <3>4. w[k + j - 1] = "none"
      BY <1>1, <3>2
    <3>5. QED BY <3>3, <3>4
  <2>2. k + Len(h) - 1 <= m
    <3>1. PICK l : l = Len(h)
      OBVIOUS
    <3>2. l \in 1 .. 4 /\ l \in 1 .. l /\ k + l - 1 \in Nat
      <4>1. l \in 1 .. 4
        BY <1>3, <3>1
      <4>2. QED BY <1>1, <4>1
    <3>3. ~ (k + l - 1 > m)
      BY <2>1, <3>1, <3>2
    <3>4. QED BY <1>1, <3>1, <3>2, <3>3
  <2>3. ASSUME NEW i \in 1 .. Len(h) PROVE s[k + i - 1] = h[i]
    <3>1. k + i - 1 \in 1 .. m
      BY <1>1, <1>3, <2>1
    <3>2. QED BY <1>1, <1>3, <3>1
  <2>4. h \in HeadersAt(s, k)
    BY <1>1, <2>2, <2>3 DEF HeadersAt
  <2>5. QED BY <2>4
<1>4. ASSUME HeadAt(w, k) PROVE HeadersAt(s, k) # {}
  <2>1. k + 1 - 1 = k /\ k + 2 - 1 = k + 1 /\ k + 3 - 1 = k + 2 /\ k + 4 - 1 = k + 3 /\ (k + 1) + 1 = k + 2 /\ (k + 1) + 2 = k + 3
    BY <1>1
  <2>2. ASSUME NEW h \in Header, Len(h) \in 1 .. 4, h[1] = w[k],
               Len(h) >= 2 => h[2] = w[k + 1], Len(h) >= 3 => h[3] = w[k + 2], Len(h) = 4 => h[4] = w[k + 3]
        PROVE  HeadersAt(s, k) # {}
    <3>1. IsHeader(h)
      BY HeaderIs
    <3>2. ASSUME NEW i \in 1 .. Len(h) PROVE h[i] = w[k + i - 1] /\ h[i] # "none"
      <4>1. i \in 1 .. 4 /\ i <= Len(h)
        <5>1. PICK l : l = Len(h)
          OBVIOUS
        <5>2. l \in 1 .. 4 /\ i \in 1 .. l
          BY <2>2, <5>1
        <5>3. QED BY <5>1, <5>2
      <4>2. h[i] = w[k + i - 1]
        BY <2>1, <2>2, <4>1
      <4>3. h[i] # "none"
        BY <2>2, <3>1, <4>1 DEF IsHeader, Sided, Plain
      <4>4. QED BY <4>2, <4>3
    <3>3. QED BY <1>3, <2>2, <3>2
  <2>3. CASE w[k] = "JOIN"
    <3>1. PICK h \in Header : Len(h) = 1 /\ h[1] = "JOIN"
      BY HeadersThere
    <3>2. QED BY <2>2, <2>3, <3>1
  <2>4. CASE w[k] \in {"NATURAL"} \cup Sided \cup Plain /\ w[k + 1] = "JOIN"
    <3>1. PICK h \in Header : Len(h) = 2 /\ h[1] = w[k] /\ h[2] = "JOIN"
      BY <2>4, HeadersThere
    <3>2. QED BY <2>2, <2>4, <3>1
  <2>5. CASE w[k] \in Sided /\ w[k + 1] = "OUTER" /\ w[k + 2] = "JOIN"
    <3>1. PICK h \in Header : Len(h) = 3 /\ h[1] = w[k] /\ h[2] = "OUTER" /\ h[3] = "JOIN"
      BY <2>5, HeadersThere
    <3>2. QED BY <2>2, <2>5, <3>1
  <2>6. CASE w[k] = "NATURAL" /\ w[k + 1] \in Sided \cup Plain /\ w[k + 2] = "JOIN"
    <3>1. PICK h \in Header : Len(h) = 3 /\ h[1] = "NATURAL" /\ h[2] = w[k + 1] /\ h[3] = "JOIN"
      BY <2>6, HeadersThere
    <3>2. QED BY <2>2, <2>6, <3>1
  <2>7. CASE w[k] = "NATURAL" /\ w[k + 1] \in Sided /\ w[k + 2] = "OUTER" /\ w[k + 3] = "JOIN"
    <3>1. PICK h \in Header : Len(h) = 4 /\ h[1] = "NATURAL" /\ h[2] = w[k + 1] /\ h[3] = "OUTER" /\ h[4] = "JOIN"
      BY <2>7, HeadersThere
    <3>2. QED BY <2>2, <2>7, <3>1
  <2>8. QED BY <1>4, <2>1, <2>3, <2>4, <2>5, <2>6, <2>7 DEF HeadAt, CoreAt
<1>5. QED BY <1>2, <1>4

(* Word k is word q of the header h at j.                                  *)
InsideAt(s, w, k, j, h, q) ==
  /\ j \in 1 .. k - 1 /\ h \in HeadersAt(s, j) /\ q \in 2 .. Len(h)
  /\ IsHeader(h) /\ q = k - j + 1 /\ w[k] = h[q] /\ w[k - 1] = h[q - 1]

(* What is inside a header is a word of it, but not its first.             *)
LEMMA InsideHeader ==
  ASSUME NEW s, NEW m, NEW w, ReadAs(s, m, w), NEW k \in 1 .. m, InHeader(s, k)
  PROVE  \E j, h, q : InsideAt(s, w, k, j, h, q)
<1>1. m \in Nat /\ Len(s) = m /\ \A l \in 1 .. m : s[l] = w[l]
  BY DEF ReadAs
<1>2. PICK j, h : j \in 1 .. k - 1 /\ h \in HeadersAt(s, j) /\ j + Len(h) > k
  BY DEF InHeader
<1>3. h \in Header /\ j + Len(h) - 1 <= m /\ \A i \in 1 .. Len(h) : s[j + i - 1] = h[i]
  BY <1>1, <1>2 DEF HeadersAt
<1>4. IsHeader(h)
  BY <1>3, HeaderIs
<1>5. PICK l, q : l = Len(h) /\ q = k - j + 1
  OBVIOUS
<1>6. l \in 1 .. 4
  BY <1>4, <1>5 DEF IsHeader
<1>7. q \in 2 .. l /\ q - 1 \in 1 .. l /\ q \in 1 .. l /\ j + q - 1 = k /\ j + (q - 1) - 1 = k - 1 /\ k - 1 \in 1 .. m
  BY <1>1, <1>2, <1>5, <1>6
<1>8. s[j + q - 1] = h[q] /\ s[j + (q - 1) - 1] = h[q - 1]
  BY <1>3, <1>5, <1>7
<1>9. w[k] = h[q] /\ w[k - 1] = h[q - 1]
  BY <1>1, <1>7, <1>8
<1>10. InsideAt(s, w, k, j, h, q)
  BY <1>2, <1>4, <1>5, <1>7, <1>9 DEF InsideAt
<1>11. QED BY <1>10

(* A word behind the first of a header is inside it.                       *)
LEMMA BehindFirst ==
  ASSUME NEW s, NEW m, NEW w, ReadAs(s, m, w), NEW k \in 1 .. m, k # 1,
         HeadAt(w, k - 1), w[k - 1] # "JOIN"
  PROVE  InHeader(s, k)
<1>1. m \in Nat /\ Len(s) = m /\ \A l \in 1 .. m : s[l] = w[l]
  BY DEF ReadAs
<1>2. PICK j : j = k - 1
  OBVIOUS
<1>3. j \in 1 .. m /\ j \in 1 .. k - 1 /\ j + 1 - 1 = j
  BY <1>1, <1>2
<1>4. PICK h : h \in HeadersAt(s, j)
  BY <1>2, <1>3, HeaderThere
<1>5. h \in Header /\ \A i \in 1 .. Len(h) : s[j + i - 1] = h[i]
  BY <1>4 DEF HeadersAt
<1>6. IsHeader(h)
  BY <1>5, HeaderIs
<1>7. PICK l : l = Len(h)
  OBVIOUS
<1>8. l \in 1 .. 4 /\ (l = 1 => h[1] = "JOIN")
  BY <1>6, <1>7 DEF IsHeader
<1>9. h[1] = w[j]
  <2>1. 1 \in 1 .. l
    BY <1>8
  <2>2. s[j + 1 - 1] = h[1]
    BY <1>5, <1>7, <2>1
  <2>3. QED BY <1>1, <1>3, <2>2
<1>10. l >= 2
  BY <1>2, <1>8, <1>9
<1>11. j + l > k
  BY <1>1, <1>2, <1>8, <1>10
<1>12. QED BY <1>3, <1>4, <1>7, <1>11 DEF InHeader

(* A join starts where a header stands that is not inside another one.     *)
LEMMA StartsOutside ==
  ASSUME NEW s, NEW m, NEW w, ReadAs(s, m, w), NEW k \in 1 .. m,
         \A l \in 1 .. m : w[l] = "OUTER" => InHeader(s, l)
  PROVE  StartsAt(w, k) <=> (HeadersAt(s, k) # {} /\ ~ InHeader(s, k))
<1>1. m \in Nat /\ w[0] = "none"
  BY DEF ReadAs
<1>2. HeadersAt(s, k) # {} <=> HeadAt(w, k)
  BY HeaderThere
<1>3. ASSUME StartsAt(w, k), InHeader(s, k) PROVE FALSE
  <2>1. PICK j, h, q : InsideAt(s, w, k, j, h, q)
    BY <1>3, InsideHeader
  <2>2. q \in 2 .. Len(h) /\ IsHeader(h) /\ w[k] = h[q] /\ w[k - 1] = h[q - 1]
    BY <2>1 DEF InsideAt
  <2>3. PICK l : l = Len(h)
    OBVIOUS
  <2>4. l \in 1 .. 4
    BY <2>2, <2>3 DEF IsHeader
  <2>5. q \in 2 .. l
    BY <2>2, <2>3
  <2>6. CASE q = 2
    <3>1. w[k] = h[2] /\ w[k - 1] = h[1]
      BY <2>2, <2>6
    <3>2. QED BY <1>3, <2>2, <2>3, <2>4, <2>5, <2>6, <3>1 DEF StartsAt, IsHeader, Sided, Plain
  <2>7. CASE q = 3
    <3>1. w[k] = h[3] /\ w[k - 1] = h[2]
      BY <2>2, <2>7
    <3>2. QED BY <1>3, <2>2, <2>3, <2>4, <2>5, <2>7, <3>1 DEF StartsAt, IsHeader, Sided, Plain
  <2>8. CASE q = 4
    <3>1. w[k] = h[4] /\ w[k - 1] = h[3]
      BY <2>2, <2>8
    <3>2. QED BY <1>3, <2>2, <2>3, <2>4, <2>5, <2>8, <3>1 DEF StartsAt, IsHeader, Sided, Plain
  <2>9. QED BY <2>4, <2>5, <2>6, <2>7, <2>8
<1>4. ASSUME HeadAt(w, k), ~ StartsAt(w, k) PROVE InHeader(s, k)
  <2>1. k # 1 => k - 1 \in 1 .. m /\ (k - 1) + 1 = k
    BY <1>1
  <2>2. w[k - 1] # "none" => k # 1
    BY <1>1
  <2>3. \/ w[k] \in Sided \cup Plain /\ w[k - 1] = "NATURAL"
        \/ w[k] = "JOIN" /\ w[k - 1] \in {"NATURAL"} \cup Sided \cup Plain
        \/ w[k] = "JOIN" /\ w[k - 1] = "OUTER"
    BY <1>4 DEF StartsAt, HeadAt, CoreAt
  <2>4. CASE w[k] \in Sided \cup Plain /\ w[k - 1] = "NATURAL"
    <3>1. CoreAt(w, k)
      BY <1>4, <2>4 DEF HeadAt, Sided, Plain
    <3>2. k # 1 /\ HeadAt(w, k - 1) /\ w[k - 1] # "JOIN"
      BY <2>1, <2>2, <2>4, <3>1 DEF HeadAt
    <3>3. QED BY <3>2, BehindFirst
  <2>5. CASE w[k] = "JOIN" /\ w[k - 1] \in {"NATURAL"} \cup Sided \cup Plain
    <3>1. k # 1 /\ w[k - 1] # "JOIN"
      BY <2>2, <2>5 DEF Sided, Plain
    <3>2. HeadAt(w, k - 1)
      BY <2>1, <2>5, <3>1 DEF HeadAt, CoreAt
    <3>3. QED BY <3>1, <3>2, BehindFirst
  <2>6. CASE w[k] = "JOIN" /\ w[k - 1] = "OUTER"
    <3>1. PICK o : o = k - 1
      OBVIOUS
    <3>2. o \in 1 .. m /\ k = o + 1 /\ w[o] = "OUTER"
      BY <1>1, <2>1, <2>2, <2>6, <3>1
    <3>3. InHeader(s, o)
      BY <3>2
    <3>4. PICK j, h, q : InsideAt(s, w, o, j, h, q)
      BY <3>2, <3>3, InsideHeader
    <3>5. /\ j \in 1 .. o - 1 /\ h \in HeadersAt(s, j) /\ q \in 2 .. Len(h)
          /\ IsHeader(h) /\ q = o - j + 1 /\ w[o] = h[q]
      BY <3>4 DEF InsideAt
    <3>6. PICK l : l = Len(h)
      OBVIOUS
    <3>7. l \in 1 .. 4 /\ q \in 2 .. l /\ h[q] = "OUTER"
      BY <3>2, <3>5, <3>6 DEF IsHeader
    <3>8. q # l
      BY <3>5, <3>6, <3>7 DEF IsHeader
    <3>9. j + l > k /\ j \in 1 .. k - 1
      BY <1>1, <3>2, <3>5, <3>7, <3>8
    <3>10. QED BY <3>5, <3>6, <3>9 DEF InHeader
  <2>7. QED BY <2>3, <2>4, <2>5, <2>6
<1>5. StartsAt(w, k) => HeadAt(w, k)
  BY DEF StartsAt
<1>6. QED BY <1>2, <1>3, <1>4, <1>5

(* What Classify answers, and what it promises.                            *)
StartsOf(t) == [clauses |-> {i \in DOMAIN t : K!IsQueryClauseStart(t, i)},
                joins   |-> {i \in DOMAIN t : K!IsJoinStart(t, i)}]

JoinsOnce(t, a) ==
  (\A k \in DOMAIN Spoken(t) : Spoken(t)[k] = "OUTER" => InHeader(Spoken(t), k)) =>
     a.joins = {WordPlaces(t)[k] : k \in {j \in DOMAIN Spoken(t) : HeadersAt(Spoken(t), j) # {} /\ ~ InHeader(Spoken(t), j)}}

ClausesOnce(t, a) ==
  a.clauses = {WordPlaces(t)[k] : k \in {j \in DOMAIN Spoken(t) : ClauseAt(Spoken(t), j)}}

(* Every join is found once, at the first word of its header.              *)
LEMMA JoinsOfText ==
  ASSUME NEW t \in Seq(STRING)
  PROVE  JoinsOnce(t, StartsOf(t))
<1>1. PICK s, p, m, w : /\ Reading(t, p, m, w) /\ p = WordPlaces(t) /\ s = Spoken(t) /\ DOMAIN s = 1 .. m
                        /\ Len(s) = m /\ \A k \in 1 .. m : s[k] = w[k]
  BY TextReading
<1>2. /\ m \in Nat /\ {p[k] : k \in 1 .. m} = {j \in DOMAIN t : t[j] # "comment"}
      /\ \A k \in {0, m + 1, m + 2, m + 3} : w[k] = "none"
  BY <1>1 DEF Reading
<1>3. ReadAs(s, m, w)
  BY <1>1, <1>2 DEF ReadAs
<1>4. SUFFICES ASSUME \A k \in 1 .. m : s[k] = "OUTER" => InHeader(s, k)
               PROVE  {i \in DOMAIN t : K!IsJoinStart(t, i)} = {p[k] : k \in {j \in 1 .. m : HeadersAt(s, j) # {} /\ ~ InHeader(s, j)}}
  BY <1>1 DEF JoinsOnce, StartsOf
<1>5. \A l \in 1 .. m : w[l] = "OUTER" => InHeader(s, l)
  BY <1>1, <1>4
<1>6. ASSUME NEW k \in 1 .. m
      PROVE  K!IsJoinStart(t, p[k]) <=> (HeadersAt(s, k) # {} /\ ~ InHeader(s, k))
  <2>1. K!IsJoinStart(t, p[k]) <=> StartsAt(w, k)
    BY <1>1, JoinStartRead
  <2>2. StartsAt(w, k) <=> (HeadersAt(s, k) # {} /\ ~ InHeader(s, k))
    BY <1>3, <1>5, StartsOutside
  <2>3. QED BY <2>1, <2>2
<1>7. ASSUME NEW i \in DOMAIN t, K!IsJoinStart(t, i) PROVE \E k \in 1 .. m : i = p[k]
  <2>1. t[i] \in {"NATURAL", "JOIN"} \cup K!Sided \cup K!Plain
    BY <1>7 DEF K!IsJoinStart
  <2>2. t[i] # "comment"
    BY <2>1 DEF K!Sided, K!Plain
  <2>3. QED BY <1>2, <2>2
<1>8. \A k \in 1 .. m : p[k] \in DOMAIN t
  BY <1>2
<1>9. QED BY <1>6, <1>7, <1>8

(* Every clause is found, and nothing else.                                *)
LEMMA ClausesOfText ==
  ASSUME NEW t \in Seq(STRING)
  PROVE  ClausesOnce(t, StartsOf(t))
<1>1. PICK s, p, m, w : /\ Reading(t, p, m, w) /\ p = WordPlaces(t) /\ s = Spoken(t) /\ DOMAIN s = 1 .. m
                        /\ Len(s) = m /\ \A k \in 1 .. m : s[k] = w[k]
  BY TextReading
<1>2. /\ m \in Nat /\ {p[k] : k \in 1 .. m} = {j \in DOMAIN t : t[j] # "comment"}
      /\ (\A k \in 1 .. m : w[k] = t[p[k]]) /\ w[0] = "none" /\ w[m + 1] = "none"
  BY <1>1 DEF Reading
<1>3. ASSUME NEW k \in 1 .. m PROVE K!IsQueryClauseStart(t, p[k]) <=> ClauseAt(s, k)
  <2>1. K!KindAt(t, K!Before(t, p[k])) = w[k - 1] /\ K!KindAt(t, K!After(t, p[k])) = w[k + 1]
    <3>1. Neighbours(t, p, m, w, k)
      BY <1>1, WordsNeighbour
    <3>2. QED BY <3>1 DEF Neighbours
  <2>2. t[p[k]] = s[k]
    BY <1>1, <1>2
  <2>3. w[k + 1] = "BY" <=> k < Len(s) /\ s[k + 1] = "BY"
    <3>1. CASE k = m
      BY <1>1, <1>2, <3>1
    <3>2. CASE k # m
      <4>1. k + 1 \in 1 .. m /\ k < m
        BY <1>2, <3>2
      <4>2. QED BY <1>1, <4>1
    <3>3. QED BY <3>1, <3>2
  <2>4. w[k - 1] # "." <=> k = 1 \/ s[k - 1] # "."
    <3>1. CASE k = 1
      BY <1>2, <3>1
    <3>2. CASE k # 1
      <4>1. k - 1 \in 1 .. m
        BY <1>2, <3>2
      <4>2. QED BY <1>1, <3>2, <4>1
    <3>3. QED BY <3>1, <3>2
  <2>5. QED BY <2>1, <2>2, <2>3, <2>4 DEF K!IsQueryClauseStart, ClauseAt
<1>4. ASSUME NEW i \in DOMAIN t, K!IsQueryClauseStart(t, i) PROVE \E k \in 1 .. m : i = p[k]
  <2>1. t[i] \in {"GROUP", "ORDER"} \cup K!ClauseWord
    BY <1>4 DEF K!IsQueryClauseStart
  <2>2. t[i] # "comment"
    BY <2>1 DEF K!ClauseWord
  <2>3. QED BY <1>2, <2>2
<1>5. \A k \in 1 .. m : p[k] \in DOMAIN t
  BY <1>2
<1>6. {i \in DOMAIN t : K!IsQueryClauseStart(t, i)} = {p[k] : k \in {j \in 1 .. m : ClauseAt(s, j)}}
  BY <1>3, <1>4, <1>5
<1>7. QED BY <1>1, <1>6 DEF ClausesOnce, StartsOf

(* What is answered stays what is answered for the tokens.                 *)
Asked(c, a) ==
  /\ c.fn \in {"shape", "clauses"} /\ c.text \in Seq(STRING)
  /\ a # Unanswered => a = IF c.fn = "shape" THEN ShapeOf(c.text) ELSE StartsOf(c.text)

(* For token sequences of any length, Structure gives the nesting of       *)
(* properly nested tokens, no depth falls below zero in any others, every  *)
(* join header starts once and every clause at its word: structure.rs and  *)
(* tokens.rs.                                                              *)
THEOREM TokensAgree == TokenSpec => []StructureAgrees
<1> DEFINE Inv == Asked(call, answer)
<1>1. ASSUME call \in [fn : {"shape", "clauses"}, text : Seq(STRING)], answer = Unanswered PROVE Inv
  BY <1>1 DEF Asked
<1>2. ASSUME Inv, [Index \/ Classify]_<<call, answer>> PROVE Inv'
  <2>1. CASE Index
    <3>1. call' = call /\ call.fn = "shape" /\ answer' = ShapeOf(call.text)
      BY <2>1 DEF Index, Fresh, ShapeOf
    <3>2. QED BY <1>2, <3>1 DEF Asked
  <2>2. CASE Classify
    <3>1. call' = call /\ call.fn = "clauses" /\ answer' = StartsOf(call.text)
      BY <2>2 DEF Classify, Fresh, StartsOf
    <3>2. QED BY <1>2, <3>1 DEF Asked
  <2>3. CASE UNCHANGED <<call, answer>>
    BY <1>2, <2>3 DEF Asked
  <2>4. QED BY <1>2, <2>1, <2>2, <2>3
<1>3. Inv => StructureAgrees
  <2>1. SUFFICES ASSUME Inv PROVE StructureAgrees
    OBVIOUS
  <2>2. PICK t : t = call.text
    OBVIOUS
  <2>3. t \in Seq(STRING)
    BY <2>1, <2>2 DEF Asked
  <2>4. ShapeIsNesting
    <3>1. SUFFICES ASSUME Answered("shape") PROVE DepthsTyped(answer) /\ (Nested(t) => ShapeNests(t, answer))
      BY <2>2 DEF ShapeIsNesting, DepthsTyped, ShapeNests
    <3>2. answer = ShapeOf(t)
      BY <2>1, <2>2, <3>1 DEF Asked, Answered
    <3>3. QED BY <2>3, <3>2, ShapeTyped, ShapeOfText
  <2>5. HeadersOnce
    <3>1. SUFFICES ASSUME Answered("clauses") PROVE JoinsOnce(t, answer) /\ ClausesOnce(t, answer)
      BY <2>2 DEF HeadersOnce, JoinsOnce, ClausesOnce
    <3>2. answer = StartsOf(t)
      BY <2>1, <2>2, <3>1 DEF Asked, Answered
    <3>3. QED BY <2>3, <3>2, JoinsOfText, ClausesOfText
  <2>6. QED BY <2>4, <2>5 DEF StructureAgrees
<1> HIDE DEF Inv
<1>4. QED BY <1>1, <1>2, <1>3, PTL DEF TokenSpec

(***************************************************************************)
(* The greatest of some numbers and the last token that is no comment.     *)
(***************************************************************************)
(* The greater of two numbers.                                             *)
LEMMA MaxOfTwo ==
  ASSUME NEW a \in Nat, NEW b \in Nat
  PROVE  Max({a, b}) = IF a >= b THEN a ELSE b
<1> DEFINE m == IF a >= b THEN a ELSE b
<1>1. m \in {a, b} /\ \A y \in {a, b} : m >= y
  OBVIOUS
<1>2. \A x \in {a, b} : (\A y \in {a, b} : x >= y) => x = m
  OBVIOUS
<1>3. QED BY <1>1, <1>2 DEF Max

(* The lesser of two numbers.                                              *)
LEMMA MinOfTwo ==
  ASSUME NEW a \in Nat, NEW b \in Nat
  PROVE  Min({a, b}) = IF a <= b THEN a ELSE b
<1> DEFINE m == IF a <= b THEN a ELSE b
<1>1. m \in {a, b} /\ \A y \in {a, b} : m <= y
  OBVIOUS
<1>2. \A x \in {a, b} : (\A y \in {a, b} : x <= y) => x = m
  OBVIOUS
<1>3. QED BY <1>1, <1>2 DEF Min

(* Most finds the greatest number of a set.                                *)
LEMMA MostGreatest ==
  ASSUME NEW n \in Nat, NEW T \in SUBSET (1 .. n), T # {}
  PROVE  Most(T, 0) \in T /\ \A k \in T : k <= Most(T, 0)
<1>1. PICK m \in T : \A k \in T : k <= m
  <2>1. T \in SUBSET (0 .. n)
    OBVIOUS
  <2>2. QED BY <2>1, GreatestNatural
<1>2. \A k \in T : k \in Int
  OBVIOUS
<1> DEFINE U == {- i : i \in T}
<1>3. - m \in U /\ \A y \in U : - m <= y
  BY <1>1, <1>2
<1>4. \A x \in U : (\A y \in U : x <= y) => x = - m
  BY <1>1, <1>2, <1>3
<1>5. Min(U) = - m
  <2> HIDE DEF U
  <2>1. QED BY <1>3, <1>4 DEF Min
<1>6. Most(T, 0) = m
  <2>1. Most(T, 0) = - Min(U)
    BY DEF Most
  <2>2. - (- m) = m
    BY <1>2
  <2> HIDE DEF U
  <2>3. QED BY <1>5, <2>1, <2>2
<1>7. QED BY <1>1, <1>6

(* The token at l is the last that is no comment, or all are comments.     *)
IsLastSyntax(tokens, l) ==
  /\ l \in 0 .. Len(tokens)
  /\ l # 0 => ~ IsComment(tokens[l])
  /\ \A i \in l + 1 .. Len(tokens) : IsComment(tokens[i])

(* LastSyntax finds it.                                                    *)
LEMMA LastSyntaxFound ==
  ASSUME NEW S, NEW tokens \in Seq(S)
  PROVE  IsLastSyntax(tokens, LastSyntax(tokens))
<1>1. PICK n : n = Len(tokens)
  OBVIOUS
<1>2. n \in Nat /\ DOMAIN tokens = 1 .. n
  BY <1>1
<1> DEFINE T == {i \in 1 .. n : ~ IsComment(tokens[i])}
<1>3. LastSyntax(tokens) = Most(T, 0)
  BY <1>2 DEF LastSyntax
<1>4. CASE T = {}
  <2>1. Most(T, 0) = 0
    BY <1>4 DEF Most
  <2>2. \A i \in 0 + 1 .. n : IsComment(tokens[i])
    BY <1>4
  <2>3. LastSyntax(tokens) = 0 /\ 0 \in 0 .. n
    BY <1>2, <1>3, <2>1
  <2>4. QED BY <1>1, <2>2, <2>3 DEF IsLastSyntax
<1>5. CASE T # {}
  <2>1. PICK l : l = Most(T, 0)
    OBVIOUS
  <2>2. l \in T /\ \A k \in T : k <= l
    BY <1>2, <1>5, <2>1, MostGreatest
  <2>3. ASSUME NEW i \in l + 1 .. n PROVE IsComment(tokens[i])
    <3>1. i \in 1 .. n /\ ~ (i <= l)
      BY <1>2, <2>2
    <3>2. QED BY <2>2, <3>1
  <2>4. l \in 0 .. n /\ l # 0 /\ ~ IsComment(tokens[l])
    BY <1>2, <2>2
  <2>5. QED BY <1>1, <1>3, <2>1, <2>3, <2>4 DEF IsLastSyntax
<1>6. QED BY <1>4, <1>5

(* There is only one.                                                      *)
LEMMA LastSyntaxUnique ==
  ASSUME NEW S, NEW tokens \in Seq(S), NEW l, IsLastSyntax(tokens, l)
  PROVE  LastSyntax(tokens) = l
<1>1. PICK n, m : n = Len(tokens) /\ m = LastSyntax(tokens)
  OBVIOUS
<1>2. n \in Nat
  BY <1>1
<1>3. /\ m \in 0 .. n /\ (m # 0 => ~ IsComment(tokens[m])) /\ \A i \in m + 1 .. n : IsComment(tokens[i])
  BY <1>1, LastSyntaxFound DEF IsLastSyntax
<1>4. /\ l \in 0 .. n /\ (l # 0 => ~ IsComment(tokens[l])) /\ \A i \in l + 1 .. n : IsComment(tokens[i])
  BY <1>1 DEF IsLastSyntax
<1>5. CASE m < l
  <2>1. l \in m + 1 .. n /\ l # 0
    BY <1>2, <1>3, <1>4, <1>5
  <2>2. QED BY <1>3, <1>4, <2>1
<1>6. CASE l < m
  <2>1. m \in l + 1 .. n /\ m # 0
    BY <1>2, <1>3, <1>4, <1>6
  <2>2. QED BY <1>3, <1>4, <2>1
<1>7. CASE m = l
  BY <1>1, <1>7
<1>8. QED BY <1>2, <1>3, <1>4, <1>5, <1>6, <1>7

Semicolon(token) == token.k = ";"

(* A semicolon is no comment.                                              *)
LEMMA SemicolonNoComment ==
  ASSUME NEW token, Semicolon(token)
  PROVE  ~ IsComment(token) /\ token.k # "--"
BY Zenon DEF Semicolon, IsComment

(* The semicolon that ends a statement is its last token but for comments. *)
LEMMA TerminalIs ==
  ASSUME NEW S, NEW tokens \in Seq(S), NEW l, IsLastSyntax(tokens, l)
  PROVE  Terminal(tokens) = IF l # 0 /\ Semicolon(tokens[l]) THEN l ELSE 0
<1>1. LastSyntax(tokens) = l
  BY LastSyntaxUnique
<1>2. QED BY Zenon, <1>1 DEF Terminal, Semicolon

(***************************************************************************)
(* What is read, and how it is written.                                    *)
(***************************************************************************)
(* A statement as read holds its tokens and the option for its semicolon.  *)
LEMMA ReadHolds ==
  ASSUME NEW tokens, NEW opts
  PROVE  Read(tokens, opts).tok = tokens /\ Read(tokens, opts).semicolon = opts.semicolon
BY DEF Read

(* A writer with these fields.                                             *)
Writer(o, l, d, b) == [out |-> o, lines |-> l, indent |-> d, space |-> b]
IsText(o) == \E S : o \in Seq(S)

(* Before the first token no break is written.                             *)
LEMMA NewlineFirst ==
  ASSUME NEW l, NEW d, NEW b, NEW m, NEW e
  PROVE  Newline(Writer(<<>>, l, d, b), m, e) = Writer(<<>>, l, d, b)
BY DEF Newline, Writer

(* Of several requests for breaks the most lines count.                    *)
LEMMA NewlineLater ==
  ASSUME NEW o, o # <<>>, NEW l \in Nat, NEW d, NEW b, NEW more \in Nat, NEW e
  PROVE  \E p \in Nat : \E c : Newline(Writer(o, l, d, b), more, e) = Writer(o, p, e, c) /\ p >= l /\ p >= more
<1>1. PICK w, p : w = Writer(o, l, d, b) /\ p = Max({l, more})
  OBVIOUS
<1>2. p \in Nat /\ p >= l /\ p >= more
  <2>1. Max({l, more}) = IF l >= more THEN l ELSE more
    BY MaxOfTwo
  <2>2. QED BY <1>1, <2>1
<1>3. w.out = o /\ w.lines = l
  BY <1>1 DEF Writer
<1>4. Newline(w, more, e) = [w EXCEPT !.lines = p, !.indent = e, !.space = FALSE]
  BY <1>1, <1>3 DEF Newline
<1>5. PICK u, v : u = [w EXCEPT !.lines = p, !.indent = e, !.space = FALSE] /\ v = Writer(o, p, e, FALSE)
  OBVIOUS
<1>6. u \in [out : {o}, lines : {p}, indent : {e}, space : {FALSE}]
  BY <1>1, <1>5 DEF Writer
<1>7. v \in [out : {o}, lines : {p}, indent : {e}, space : {FALSE}]
  BY <1>5 DEF Writer
<1>8. u = v
  BY <1>5, <1>6, <1>7
<1>9. QED BY <1>1, <1>2, <1>4, <1>5, <1>8

(* A writer of text o with l lines pending.                                *)
Pends(w, o, l) == \E d, b : w = Writer(o, l, d, b)

(* A blank changes neither the text nor the pending lines.                 *)
LEMMA SpaceWriter ==
  ASSUME NEW o, NEW l, NEW w, Pends(w, o, l)
  PROVE  Pends(SpaceOut(w), o, l)
<1>1. PICK d, b : w = Writer(o, l, d, b)
  BY DEF Pends
<1>2. SpaceOut(Writer(o, l, d, b)) = Writer(o, l, d, o # <<>> /\ l = 0)
  BY DEF SpaceOut, Writer
<1>3. QED BY <1>1, <1>2 DEF Pends

(* A token is written behind the pending lines, which end there.           *)
Writes1(r, o, l, t) == \E x : Pends(r, Append(o, x), 0) /\ x.k = t.k /\ x.w = t.w /\ x.lb = l

(* Write does that.                                                        *)
LEMMA WriteWriter ==
  ASSUME NEW o, NEW l, NEW w, Pends(w, o, l), NEW t
  PROVE  Writes1(Write(w, t), o, l, t)
<1>1. PICK d, b, c : w = Writer(o, l, d, b) /\ c = Column(w)
  BY DEF Pends
<1>2. w.out = o /\ w.lines = l
  BY <1>1 DEF Writer
<1>3. PICK x : x = [k |-> t.k, w |-> t.w, lb |-> l, from |-> c]
  OBVIOUS
<1>4. Write(w, t) = [Blank EXCEPT !.out = Append(o, x)]
  BY <1>1, <1>2, <1>3 DEF Write
<1>5. PICK p, u, v : p = Append(o, x) /\ u = [Blank EXCEPT !.out = p] /\ v = Writer(p, 0, 0, FALSE)
  OBVIOUS
<1>6. u \in [out : {p}, lines : {0}, indent : {0}, space : {FALSE}]
  BY <1>5 DEF Blank
<1>7. v \in [out : {p}, lines : {0}, indent : {0}, space : {FALSE}]
  BY <1>5 DEF Writer
<1>8. u = v
  BY <1>5, <1>6, <1>7
<1>9. PICK r : r = Write(w, t)
  OBVIOUS
<1>10. Pends(r, p, 0)
  BY <1>4, <1>5, <1>8, <1>9 DEF Pends
<1>11. x.k = t.k /\ x.w = t.w /\ x.lb = l
  BY <1>3
<1>12. QED BY <1>5, <1>9, <1>10, <1>11 DEF Writes1

(* A text with a token more.                                               *)
LEMMA Appended ==
  ASSUME NEW o, IsText(o), NEW x
  PROVE  /\ IsText(Append(o, x)) /\ Len(o) \in Nat /\ Len(Append(o, x)) = Len(o) + 1
         /\ Append(o, x)[Len(o) + 1] = x /\ Append(o, x) # <<>>
         /\ \A q \in 1 .. Len(o) : Append(o, x)[q] = o[q]
<1>1. PICK S : o \in Seq(S)
  BY DEF IsText
<1>2. PICK T : T = S \cup {x}
  OBVIOUS
<1>3. x \in T /\ o \in Seq(T)
  BY <1>1, <1>2
<1>4. PICK p : p = Append(o, x)
  OBVIOUS
<1>5. p \in Seq(T) /\ Len(p) = Len(o) + 1 /\ p[Len(o) + 1] = x /\ \A q \in 1 .. Len(o) : p[q] = o[q]
  BY <1>3, <1>4, AppendProperties
<1>6. Len(o) \in Nat
  BY <1>1
<1>7. p # <<>>
  BY <1>5, <1>6
<1>8. QED BY <1>4, <1>5, <1>6, <1>7 DEF IsText

(***************************************************************************)
(* One token.                                                              *)
(***************************************************************************)
TokensAre(tokens) == tokens \in Seq([k : STRING, w : Nat, lb : Nat])

(* The line breaks before a token are a number.                            *)
LEMMA TokenTyped ==
  ASSUME NEW tokens, TokensAre(tokens), NEW i \in 1 .. Len(tokens)
  PROVE  tokens[i].lb \in Nat /\ Len(tokens) \in Nat
<1>1. PICK T : T = [k : STRING, w : Nat, lb : Nat]
  OBVIOUS
<1>2. tokens \in Seq(T)
  BY <1>1 DEF TokensAre
<1>3. PICK t : t = tokens[i]
  OBVIOUS
<1>4. t \in T
  BY <1>2, <1>3
<1>5. t.lb \in Nat
  BY <1>1, <1>4
<1>6. QED BY <1>2, <1>3, <1>5

(* The lines in front of a token: no fewer than were pending, and some in  *)
(* front of a comment only where its author began a line.                  *)
PlacedAs(tokens, i, o, l, r) ==
  \E p \in Nat : /\ Pends(r, o, p) /\ p >= l
                 /\ o # <<>> /\ IsComment(tokens[i]) => (p > 0) = (tokens[i].lb > 0)

(* A token is placed so.                                                   *)
LEMMA PlacedLines ==
  ASSUME NEW tokens, TokensAre(tokens), NEW i \in 1 .. Len(tokens), NEW s, s.tok = tokens,
         NEW plan \in Plans(Len(tokens)), NEW o, NEW l \in Nat, NEW wr, Pends(wr, o, l),
         l > 0 => tokens[i].lb > 0
  PROVE  PlacedAs(tokens, i, o, l, Placed(s, plan, i, wr))
<1>0. PICK d, b, z : wr = Writer(o, l, d, b) /\ z = Placed(s, plan, i, wr)
  BY DEF Pends
<1> SUFFICES \E p \in Nat : \E e, c :
           /\ z = Writer(o, p, e, c)
           /\ p >= l
           /\ o # <<>> /\ IsComment(tokens[i]) => (p > 0) = (tokens[i].lb > 0)
  BY <1>0 DEF PlacedAs, Pends
<1>1. PICK w, m, n, k, place, e : /\ w = Writer(o, l, d, b) /\ m = plan.lines[i] /\ n = Lines(s, i)
                                  /\ k = Min({2, n}) /\ place = plan.at[i] /\ e = IndentFor(plan, i, s.depth[i])
  OBVIOUS
<1>2. n = tokens[i].lb /\ n \in Nat /\ m \in Nat /\ s.tok[i] = tokens[i]
  <2>1. tokens[i].lb \in Nat
    BY TokenTyped
  <2>2. plan.lines \in [1 .. Len(tokens) -> Nat]
    BY DEF Plans
  <2>3. QED BY <1>0, <1>1, <2>1, <2>2 DEF Lines
<1>3. k \in Nat /\ (k > 0) = (n > 0)
  <2>1. Min({2, n}) = IF 2 <= n THEN 2 ELSE n
    BY <1>2, MinOfTwo
  <2>2. k = IF 2 <= n THEN 2 ELSE n
    BY <1>1, <2>1
  <2>3. QED BY <1>2, <2>2
<1>4. CASE Planned(s, plan, i)
  <2>1. m > 0 /\ (IsComment(tokens[i]) => n > 0)
    BY <1>1, <1>2, <1>4 DEF Planned, Breaks
  <2>2. Placed(s, plan, i, w) = Newline(w, m, place)
    BY <1>1, <1>4 DEF Placed
  <2>3. CASE o = <<>>
    <3>1. Newline(Writer(o, l, d, b), m, place) = Writer(o, l, d, b)
      BY <2>3, NewlineFirst
    <3>2. QED BY <1>0, <1>1, <2>2, <2>3, <3>1
  <2>4. CASE o # <<>>
    <3>0. PICK r : r = Newline(Writer(o, l, d, b), m, place)
      OBVIOUS
    <3>1. PICK p \in Nat : \E c : r = Writer(o, p, place, c) /\ p >= l /\ p >= m
      BY <1>2, <2>4, <3>0, NewlineLater
    <3>2. PICK c : Newline(Writer(o, l, d, b), m, place) = Writer(o, p, place, c)
      BY <3>0, <3>1
    <3>3. p \in Nat /\ p >= l /\ p > 0
      BY <1>2, <2>1, <3>1
    <3>4. IsComment(tokens[i]) => (p > 0) = (tokens[i].lb > 0)
      BY <1>2, <2>1, <3>3
    <3>5. QED BY <1>0, <1>1, <2>2, <3>2, <3>3, <3>4
  <2>5. QED BY <2>3, <2>4
<1>5. CASE ~ Planned(s, plan, i) /\ IsComment(tokens[i]) /\ n > 0
  <2>1. Placed(s, plan, i, w) = Newline(w, k, e)
    BY <1>1, <1>2, <1>5 DEF Placed
  <2>2. CASE o = <<>>
    <3>1. Newline(Writer(o, l, d, b), k, e) = Writer(o, l, d, b)
      BY <2>2, NewlineFirst
    <3>2. QED BY <1>0, <1>1, <2>1, <2>2, <3>1
  <2>3. CASE o # <<>>
    <3>0. PICK r : r = Newline(Writer(o, l, d, b), k, e)
      OBVIOUS
    <3>1. PICK p \in Nat : \E c : r = Writer(o, p, e, c) /\ p >= l /\ p >= k
      BY <1>3, <2>3, <3>0, NewlineLater
    <3>2. PICK c : Newline(Writer(o, l, d, b), k, e) = Writer(o, p, e, c)
      BY <3>0, <3>1
    <3>3. p \in Nat /\ p >= l /\ p > 0
      BY <1>3, <1>5, <3>1
    <3>4. (p > 0) = (tokens[i].lb > 0)
      BY <1>2, <1>5, <3>3
    <3>5. QED BY <1>0, <1>1, <2>1, <3>2, <3>3, <3>4
  <2>4. QED BY <2>2, <2>3
<1>6. CASE ~ Planned(s, plan, i) /\ ~ (IsComment(tokens[i]) /\ n > 0)
  <2>1. Placed(s, plan, i, w) = Writer(o, l, d, b)
    BY <1>1, <1>2, <1>6 DEF Placed
  <2>2. IsComment(tokens[i]) => (l > 0) = (tokens[i].lb > 0)
    BY <1>2, <1>6
  <2>3. QED BY <1>0, <1>1, <2>1, <2>2
<1>7. QED BY <1>4, <1>5, <1>6

(* The lines behind a token: some behind every line comment, and some only *)
(* where the next token begins a line.                                     *)
ContinuedAs(tokens, i, o, r) ==
  \E p \in Nat : /\ Pends(r, o, p)
                 /\ tokens[i].k = "--" => p > 0
                 /\ i < Len(tokens) /\ p > 0 => tokens[i + 1].lb > 0

(* A token is left so.                                                     *)
LEMMA ContinuedLines ==
  ASSUME NEW tokens, TokensAre(tokens), NEW i \in 1 .. Len(tokens), NEW s, s.tok = tokens,
         NEW plan, NEW o, o # <<>>, NEW wr, Pends(wr, o, 0),
         i < Len(tokens) /\ tokens[i].k = "--" => tokens[i + 1].lb > 0
  PROVE  ContinuedAs(tokens, i, o, Continued(s, plan, i, wr))
<1>0. PICK d, b, z : wr = Writer(o, 0, d, b) /\ z = Continued(s, plan, i, wr)
  BY DEF Pends
<1> SUFFICES \E p \in Nat : \E e, c :
           /\ z = Writer(o, p, e, c)
           /\ tokens[i].k = "--" => p > 0
           /\ i < Len(tokens) /\ p > 0 => tokens[i + 1].lb > 0
  BY <1>0 DEF ContinuedAs, Pends
<1>1. PICK w, n, next, m, e : /\ w = Writer(o, 0, d, b) /\ n = Len(tokens) /\ next = (IF i < Size(s) THEN Lines(s, i + 1) ELSE 0)
                              /\ m = Max({1, next}) /\ e = IndentFor(plan, i, s.depth[i])
  OBVIOUS
<1>2. n \in Nat /\ i \in 1 .. n /\ Size(s) = n /\ Kind(s, i) = tokens[i].k
  BY <1>1 DEF Size, Kind, TokensAre
<1>3. next \in Nat /\ (i < n => next = tokens[i + 1].lb)
  <2>1. CASE i < n
    <3>1. i + 1 \in 1 .. n
      BY <1>2, <2>1
    <3>2. tokens[i + 1].lb \in Nat
      BY <1>1, <3>1, TokenTyped
    <3>3. next = tokens[i + 1].lb
      BY <1>1, <1>2, <2>1 DEF Lines
    <3>4. QED BY <3>2, <3>3
  <2>2. CASE ~ (i < n)
    BY <1>1, <1>2, <2>2
  <2>3. QED BY <2>1, <2>2
<1>4. m \in Nat /\ m > 0
  <2>1. Max({1, next}) = IF 1 >= next THEN 1 ELSE next
    BY <1>3, MaxOfTwo
  <2>2. m = IF 1 >= next THEN 1 ELSE next
    BY <1>1, <2>1
  <2>3. QED BY <1>3, <2>2
<1>5. CASE tokens[i].k = "--" \/ (tokens[i].k = "/*" /\ next > 0)
  <2>1. Continued(s, plan, i, w) = Newline(w, m, e)
    BY <1>1, <1>2, <1>5 DEF Continued
  <2>2. PICK r : r = Newline(Writer(o, 0, d, b), m, e)
    OBVIOUS
  <2>3. PICK p \in Nat : \E c : r = Writer(o, p, e, c) /\ p >= 0 /\ p >= m
    BY <1>4, <2>2, NewlineLater
  <2>4. p \in Nat /\ p > 0
    BY <1>4, <2>3
  <2>5. i < n => tokens[i + 1].lb > 0
    BY <1>1, <1>3, <1>5
  <2>6. QED BY <1>0, <1>1, <2>1, <2>2, <2>3, <2>4, <2>5
<1>6. CASE ~ (tokens[i].k = "--" \/ (tokens[i].k = "/*" /\ next > 0))
  <2>1. Continued(s, plan, i, w) = Writer(o, 0, d, b)
    BY <1>1, <1>2, <1>6 DEF Continued
  <2>2. QED BY <1>0, <1>1, <1>6, <2>1
<1>7. QED BY <1>5, <1>6
(* What rendering token i does to the text o with l lines pending: o       *)
(* becomes r and q lines are pending.                                      *)
Fits(tokens, i, o, l, x) ==
  /\ x.k = tokens[i].k /\ x.w = tokens[i].w /\ x.lb \in Nat /\ x.lb >= l
  /\ o # <<>> /\ IsComment(tokens[i]) => (x.lb > 0) = (tokens[i].lb > 0)

Renders(tokens, a, i, o, l, r, q) ==
  /\ \E x : /\ Fits(tokens, i, o, l, x)
            /\ i # a => r = Append(o, x)
            /\ i = a => \E y : Semicolon(y) /\ r = Append(Append(o, x), y)
  /\ tokens[i].k = "--" => q > 0
  /\ i < Len(tokens) /\ q > 0 => tokens[i + 1].lb > 0

(* A token that is not left out is rendered so.                            *)
RendersTo(tokens, a, i, o, l, w) == \E r : \E q \in Nat : Pends(w, r, q) /\ Renders(tokens, a, i, o, l, r, q)

(* Rendered does that.                                                     *)
LEMMA RendersToken ==
  ASSUME NEW tokens, TokensAre(tokens), NEW i \in 1 .. Len(tokens), NEW s, s.tok = tokens,
         NEW plan \in Plans(Len(tokens)), NEW o, IsText(o), NEW l \in Nat, NEW w, Pends(w, o, l),
         l > 0 => tokens[i].lb > 0, i < Len(tokens) /\ tokens[i].k = "--" => tokens[i + 1].lb > 0,
         NEW a, a = TerminalSemicolon(s).after, i # TerminalSemicolon(s).omit
  PROVE  RendersTo(tokens, a, i, o, l, Rendered(s, plan, i, w))
<1>1. PICK t, y, placed, spaced, itself, ended :
        /\ t = tokens[i] /\ y = [k |-> ";", w |-> 1] /\ placed = Placed(s, plan, i, w)
        /\ spaced = (IF NeedsSpace(s.tok, s.depth, i) THEN SpaceOut(placed) ELSE placed)
        /\ itself = Write(spaced, t)
        /\ ended = (IF i = a THEN Write(itself, y) ELSE itself)
  OBVIOUS
<1>2. Rendered(s, plan, i, w) = Continued(s, plan, i, ended)
  BY <1>1 DEF Rendered
<1>3. PICK p \in Nat : /\ Pends(placed, o, p) /\ p >= l
                       /\ o # <<>> /\ IsComment(tokens[i]) => (p > 0) = (tokens[i].lb > 0)
  <2>1. PlacedAs(tokens, i, o, l, placed)
    BY <1>1, PlacedLines
  <2>2. QED BY <2>1 DEF PlacedAs
<1>4. Pends(spaced, o, p)
  <2>1. Pends(SpaceOut(placed), o, p)
    BY <1>3, SpaceWriter
  <2>2. QED BY <1>1, <1>3, <2>1
<1>5. PICK x : Pends(itself, Append(o, x), 0) /\ x.k = t.k /\ x.w = t.w /\ x.lb = p
  <2>1. Writes1(Write(spaced, t), o, p, t)
    BY <1>4, WriteWriter
  <2>2. QED BY <1>1, <2>1 DEF Writes1
<1>6. PICK u : u = Append(o, x)
  OBVIOUS
<1>7. IsText(u) /\ u # <<>>
  BY <1>6, Appended
<1>8. PICK r : /\ Pends(ended, r, 0) /\ r # <<>>
               /\ i # a => r = u
               /\ i = a => \E z : Semicolon(z) /\ r = Append(u, z)
  <2>1. CASE i # a
    BY <1>1, <1>5, <1>6, <1>7, <2>1
  <2>2. CASE i = a
    <3>1. Writes1(Write(itself, y), u, 0, y)
      BY <1>5, <1>6, WriteWriter
    <3>2. PICK z, v : Pends(Write(itself, y), v, 0) /\ z.k = y.k /\ v = Append(u, z)
      BY <3>1 DEF Writes1
    <3>3. Semicolon(z) /\ v # <<>>
      <4>1. v # <<>>
        BY <1>7, <3>2, Appended
      <4>2. y.k = ";"
        BY Zenon, <1>1
      <4>3. z.k = ";"
        BY Zenon, <3>2, <4>2
      <4>4. QED BY <4>1, <4>3 DEF Semicolon
    <3>4. Pends(ended, v, 0)
      BY <1>1, <2>2, <3>2
    <3>5. QED BY <2>2, <3>2, <3>3, <3>4
  <2>3. QED BY <2>1, <2>2
<1>9. PICK q \in Nat : /\ Pends(Continued(s, plan, i, ended), r, q)
                       /\ tokens[i].k = "--" => q > 0
                       /\ i < Len(tokens) /\ q > 0 => tokens[i + 1].lb > 0
  <2>1. ContinuedAs(tokens, i, r, Continued(s, plan, i, ended))
    BY <1>8, ContinuedLines
  <2>2. QED BY <2>1 DEF ContinuedAs
<1>10. Renders(tokens, a, i, o, l, r, q)
  <2>1. x.k = tokens[i].k /\ x.w = tokens[i].w /\ x.lb = p
    BY <1>1, <1>5
  <2>2. Fits(tokens, i, o, l, x)
    BY <1>3, <2>1 DEF Fits
  <2>3. QED BY <1>6, <1>8, <1>9, <2>2 DEF Renders
<1>11. Pends(Rendered(s, plan, i, w), r, q)
  BY <1>2, <1>9
<1>12. QED BY <1>10, <1>11 DEF RendersTo

(***************************************************************************)
(* The text so far.                                                        *)
(***************************************************************************)
(* Where token j stands, with a semicolon put behind token a.              *)
At(a, j) == IF a # 0 /\ a < j THEN j + 1 ELSE j

(* Text o of m tokens holds the first i tokens, the semicolon behind token *)
(* a, comments where their author put them and a line behind every line    *)
(* comment.                                                                *)
Holds(tokens, a, i, o, m) ==
  /\ IsText(o) /\ Len(o) = m
  /\ \A j \in 1 .. i : o[At(a, j)].k = tokens[j].k /\ o[At(a, j)].w = tokens[j].w
  /\ \A j \in 2 .. i : IsComment(tokens[j]) => (o[At(a, j)].lb > 0) = (tokens[j].lb > 0)
  /\ a \in 1 .. m - 1 => Semicolon(o[a + 1])
  /\ \A p \in 1 .. m - 1 : o[p].k = "--" => o[p + 1].lb > 0

(* A line comment at the end waits for the end of its line.                *)
EndsLine(o, l) == o # <<>> /\ o[Len(o)].k = "--" => l > 0

(* What is known before a token is appended, and what after it.            *)
Ready(tokens, a, i, o, l, x) ==
  /\ Holds(tokens, a, i - 1, o, At(a, i) - 1) /\ EndsLine(o, l) /\ Fits(tokens, i, o, l, x)
  /\ l \in Nat /\ i \in 1 .. Len(tokens) /\ a \in 0 .. Len(tokens) /\ Len(tokens) \in Nat
Longer(tokens, a, i, r, m, x) == Holds(tokens, a, i, r, m) /\ r[m] = x

(* One token more.                                                         *)
LEMMA HoldsMore ==
  ASSUME NEW tokens, NEW i, NEW a, NEW o, NEW l, NEW x, Ready(tokens, a, i, o, l, x), NEW r, r = Append(o, x)
  PROVE  Longer(tokens, a, i, r, At(a, i), x)
<1>b. PICK n : n = Len(tokens)
  OBVIOUS
<1>a. /\ Holds(tokens, a, i - 1, o, At(a, i) - 1) /\ EndsLine(o, l) /\ Fits(tokens, i, o, l, x)
      /\ l \in Nat /\ i \in 1 .. n /\ a \in 0 .. n /\ n \in Nat
  BY <1>b DEF Ready
<1>1. PICK m, u, w : m = At(a, i) - 1 /\ u = Append(o, x) /\ w = At(a, i)
  OBVIOUS
<1>2. /\ w = m + 1 /\ m \in Nat /\ m >= i - 1 /\ (a \in 1 .. m => a \in 1 .. m - 1)
      /\ \A j \in 1 .. i - 1 : At(a, j) \in 1 .. m
  BY <1>1, <1>a DEF At
<1>3. /\ IsText(o) /\ Len(o) = m
      /\ \A j \in 1 .. i - 1 : o[At(a, j)].k = tokens[j].k /\ o[At(a, j)].w = tokens[j].w
      /\ \A j \in 2 .. i - 1 : IsComment(tokens[j]) => (o[At(a, j)].lb > 0) = (tokens[j].lb > 0)
      /\ a \in 1 .. m - 1 => Semicolon(o[a + 1])
      /\ \A p \in 1 .. m - 1 : o[p].k = "--" => o[p + 1].lb > 0
  BY <1>1, <1>a DEF Holds
<1>0. IsText(o) /\ Len(o) = m /\ m \in Nat
  BY <1>2, <1>3
<1>4. IsText(u) /\ Len(u) = m + 1 /\ u[m + 1] = x /\ \A q \in 1 .. m : u[q] = o[q]
  <2>1. /\ IsText(u) /\ Len(u) = Len(o) + 1 /\ u[Len(o) + 1] = x
        /\ \A q \in 1 .. Len(o) : u[q] = o[q]
    BY <1>0, <1>1, Appended
  <2>2. QED BY <1>0, <2>1
<1>5. ASSUME NEW j \in 1 .. i PROVE u[At(a, j)].k = tokens[j].k /\ u[At(a, j)].w = tokens[j].w
  <2>1. CASE j = i
    BY <1>1, <1>2, <1>4, <1>a, <2>1 DEF Fits
  <2>2. CASE j # i
    <3>1. j \in 1 .. i - 1
      BY <2>2, <1>a
    <3>2. PICK z : z = At(a, j)
      OBVIOUS
    <3>3. z \in 1 .. m
      BY <1>2, <3>1, <3>2
    <3>4. u[z] = o[z]
      BY <1>4, <3>3
    <3>5. QED BY <1>3, <3>1, <3>2, <3>4
  <2>3. QED BY <2>1, <2>2
<1>6. ASSUME NEW j \in 2 .. i, IsComment(tokens[j]) PROVE (u[At(a, j)].lb > 0) = (tokens[j].lb > 0)
  <2>1. CASE j = i
    <3>1. o # <<>>
      <4>1. Len(o) # 0
        <5>1. j \in Nat /\ j >= 2 /\ m >= i - 1 /\ j = i
          BY <1>2, <1>a, <2>1
        <5>2. m # 0
          BY <1>0, <5>1
        <5>3. QED BY <1>0, <5>2
      <4>2. QED BY <4>1
    <3>2. u[At(a, j)] = x
      BY <1>1, <1>2, <1>4, <2>1
    <3>3. QED BY <1>6, <1>a, <2>1, <3>1, <3>2 DEF Fits
  <2>2. CASE j # i
    <3>1. j \in 1 .. i - 1 /\ j \in 2 .. i - 1
      BY <2>2, <1>a
    <3>2. PICK z : z = At(a, j)
      OBVIOUS
    <3>3. z \in 1 .. m
      BY <1>2, <3>1, <3>2
    <3>4. u[z] = o[z]
      BY <1>4, <3>3
    <3>5. QED BY <1>3, <1>6, <3>1, <3>2, <3>4
  <2>3. QED BY <2>1, <2>2
<1>7. a \in 1 .. w - 1 => Semicolon(u[a + 1])
  <2>1. HAVE a \in 1 .. w - 1
  <2>2. a \in 1 .. m - 1 /\ a + 1 \in 1 .. m
    BY <1>2, <2>1
  <2>3. u[a + 1] = o[a + 1]
    BY <1>4, <2>2
  <2>4. QED BY <1>3, <2>2, <2>3
<1>8. ASSUME NEW p \in 1 .. w - 1, u[p].k = "--" PROVE u[p + 1].lb > 0
  <2>1. p \in 1 .. m /\ u[p] = o[p] /\ p \in Nat
    BY <1>2, <1>4
  <2>2. CASE p = m
    <3>1. o # <<>> /\ o[Len(o)].k = "--"
      <4>1. Len(o) # 0 /\ o[Len(o)] = u[p]
        BY <1>0, <2>1, <2>2
      <4>2. QED BY <1>8, <4>1
    <3>2. l > 0
      BY <3>1, <1>a DEF EndsLine
    <3>3. u[p + 1] = x
      BY <1>4, <2>2
    <3>4. x.lb > 0
      BY <3>1, <3>2, <1>a DEF Fits
    <3>5. QED BY <3>3, <3>4
  <2>3. CASE p # m
    <3>1. p \in 1 .. m - 1 /\ p + 1 \in 1 .. m
      BY <1>2, <2>1, <2>3
    <3>2. u[p + 1] = o[p + 1]
      BY <1>4, <3>1
    <3>3. QED BY <1>3, <1>8, <2>1, <3>1, <3>2
  <2>4. QED BY <2>2, <2>3
<1>9. Len(u) = w /\ u[w] = x
  BY <1>2, <1>4
<1>10. Holds(tokens, a, i, u, w)
  BY <1>4, <1>5, <1>6, <1>7, <1>8, <1>9 DEF Holds
<1>11. QED BY <1>1, <1>9, <1>10 DEF Longer

(* The semicolon that the options require.                                 *)
LEMMA HoldsSemicolon ==
  ASSUME NEW tokens, NEW a, NEW o, NEW y, Holds(tokens, a, a, o, a), Semicolon(y), NEW r, r = Append(o, y),
         a \in Nat /\ a > 0, ~ IsComment(tokens[a])
  PROVE  Longer(tokens, a, a, r, a + 1, y)
<1>1. PICK u : u = Append(o, y)
  OBVIOUS
<1>2. /\ IsText(o) /\ Len(o) = a
      /\ \A j \in 1 .. a : o[At(a, j)].k = tokens[j].k /\ o[At(a, j)].w = tokens[j].w
      /\ \A j \in 2 .. a : IsComment(tokens[j]) => (o[At(a, j)].lb > 0) = (tokens[j].lb > 0)
      /\ \A p \in 1 .. a - 1 : o[p].k = "--" => o[p + 1].lb > 0
  BY DEF Holds
<1>0. IsText(o) /\ Len(o) = a /\ a \in Nat
  BY <1>2
<1>3. IsText(u) /\ Len(u) = a + 1 /\ u[a + 1] = y /\ \A q \in 1 .. a : u[q] = o[q]
  <2>1. IsText(u) /\ Len(u) = Len(o) + 1 /\ u[Len(o) + 1] = y /\ \A q \in 1 .. Len(o) : u[q] = o[q]
    BY <1>0, <1>1, Appended
  <2>2. QED BY <1>0, <2>1
<1>4. \A j \in 1 .. a : At(a, j) = j
  BY DEF At
<1>5. \A j \in 1 .. a : u[At(a, j)].k = tokens[j].k /\ u[At(a, j)].w = tokens[j].w
  BY <1>2, <1>3, <1>4
<1>6. \A j \in 2 .. a : IsComment(tokens[j]) => (u[At(a, j)].lb > 0) = (tokens[j].lb > 0)
  <2>1. \A j \in 2 .. a : j \in 1 .. a
    OBVIOUS
  <2>2. QED BY <1>2, <1>3, <1>4, <2>1
<1>7. ASSUME NEW p \in 1 .. a + 1 - 1, u[p].k = "--" PROVE u[p + 1].lb > 0
  <2>1. p \in 1 .. a /\ u[p] = o[p]
    BY <1>0, <1>3
  <2>2. p # a
    <3>1. o[a].k = tokens[a].k
      BY <1>2, <1>4
    <3>2. tokens[a].k # "--"
      BY DEF IsComment
    <3>3. QED BY <1>7, <2>1, <3>1, <3>2
  <2>3. p \in 1 .. a - 1 /\ p + 1 \in 1 .. a
    BY <1>0, <2>1, <2>2
  <2>4. u[p + 1] = o[p + 1]
    BY <1>3, <2>3
  <2>5. QED BY <1>2, <1>7, <2>1, <2>3, <2>4
<1>8. Holds(tokens, a, a, u, a + 1)
  BY <1>3, <1>5, <1>6, <1>7 DEF Holds
<1>9. QED BY <1>1, <1>3, <1>8 DEF Longer

(* Tokens written when the first i are rendered.                           *)
Written(a, i) == IF a \in 1 .. i THEN i + 1 ELSE i

(* The writer once the first i tokens are rendered.                        *)
Upto(tokens, a, i, w) ==
  \E o : \E l \in Nat : /\ Pends(w, o, l) /\ Holds(tokens, a, i, o, Written(a, i)) /\ EndsLine(o, l)
                        /\ i < Len(tokens) /\ l > 0 => tokens[i + 1].lb > 0

(* Before the first.                                                       *)
LEMMA UptoNone ==
  ASSUME NEW tokens, NEW n \in Nat, n = Len(tokens), NEW a \in 0 .. n
  PROVE  Upto(tokens, a, 0, Blank)
<1>1. Pends(Blank, <<>>, 0)
  BY DEF Pends, Blank, Writer
<1>2. PICK o : o = <<>>
  OBVIOUS
<1>3. IsText(o) /\ Len(o) = 0
  <2>1. o \in Seq({}) /\ Len(o) = 0
    BY <1>2
  <2>2. QED BY <2>1 DEF IsText
<1>4. Written(a, 0) = 0
  BY DEF Written
<1>5. (\A j \in 1 .. 0 : FALSE) /\ (\A j \in 2 .. 0 : FALSE) /\ (\A j \in 1 .. 0 - 1 : FALSE)
  OBVIOUS
<1>6. Holds(tokens, a, 0, o, 0)
  BY <1>3, <1>5 DEF Holds
<1>7. EndsLine(o, 0)
  BY <1>2 DEF EndsLine
<1>8. QED BY <1>1, <1>2, <1>4, <1>6, <1>7 DEF Upto

(* A line comment is not the last of its line in the text read.            *)
LinesEnd(tokens) == \A i \in 1 .. Len(tokens) - 1 : tokens[i].k = "--" => tokens[i + 1].lb > 0

(* One token more.                                                         *)
LEMMA UptoMore ==
  ASSUME NEW tokens, TokensAre(tokens), LinesEnd(tokens), NEW n \in Nat, n = Len(tokens), NEW i \in 1 .. n,
         NEW s, s.tok = tokens, NEW plan \in Plans(n), NEW w,
         NEW a \in 0 .. n, a = TerminalSemicolon(s).after, a # 0 => ~ IsComment(tokens[a]),
         i # TerminalSemicolon(s).omit, Upto(tokens, a, i - 1, w)
  PROVE  Upto(tokens, a, i, Rendered(s, plan, i, w))
<1>1. PICK v, m, k, e : v = Rendered(s, plan, i, w) /\ m = Written(a, i - 1) /\ k = At(a, i) /\ e = Written(a, i)
  OBVIOUS
<1>2. m = k - 1 /\ k \in Nat /\ (i # a => e = k) /\ (i = a => k = a /\ e = a + 1 /\ a \in 1 .. n)
  BY <1>1 DEF Written, At
<1>3. PICK o : \E l \in Nat : /\ Pends(w, o, l) /\ Holds(tokens, a, i - 1, o, m) /\ EndsLine(o, l)
                              /\ i - 1 < Len(tokens) /\ l > 0 => tokens[i - 1 + 1].lb > 0
  BY <1>1 DEF Upto
<1>4. PICK l \in Nat : /\ Pends(w, o, l) /\ Holds(tokens, a, i - 1, o, m) /\ EndsLine(o, l)
                       /\ i - 1 < Len(tokens) /\ l > 0 => tokens[i - 1 + 1].lb > 0
  BY <1>3
<1>5. l > 0 => tokens[i].lb > 0
  <2>1. i - 1 < n /\ i - 1 + 1 = i
    OBVIOUS
  <2>2. QED BY <1>4, <2>1
<1>6. IsText(o)
  BY <1>4 DEF Holds
<1>7. i < Len(tokens) /\ tokens[i].k = "--" => tokens[i + 1].lb > 0
  <2>1. i < n => i \in 1 .. n - 1
    OBVIOUS
  <2>2. QED BY <2>1 DEF LinesEnd
<1>8. RendersTo(tokens, a, i, o, l, v)
  BY <1>1, <1>4, <1>5, <1>6, <1>7, RendersToken
<1>9. PICK r : \E q \in Nat : Pends(v, r, q) /\ Renders(tokens, a, i, o, l, r, q)
  BY <1>8 DEF RendersTo
<1>10. PICK q \in Nat : Pends(v, r, q) /\ Renders(tokens, a, i, o, l, r, q)
  BY <1>9
<1>11. PICK x : /\ Fits(tokens, i, o, l, x)
                /\ i # a => r = Append(o, x)
                /\ i = a => \E y : Semicolon(y) /\ r = Append(Append(o, x), y)
  BY <1>10 DEF Renders
<1>12. (tokens[i].k = "--" => q > 0) /\ (i < Len(tokens) /\ q > 0 => tokens[i + 1].lb > 0)
  BY <1>10 DEF Renders
<1>13. PICK u : u = Append(o, x)
  OBVIOUS
<1>14. Holds(tokens, a, i, u, k) /\ u[k] = x
  <2>1. Holds(tokens, a, i - 1, o, At(a, i) - 1)
    <3>1. m = At(a, i) - 1
      BY <1>1, <1>2
    <3>2. QED BY <1>4, <3>1
  <2>2. Ready(tokens, a, i, o, l, x)
    BY <1>4, <1>11, <2>1 DEF Ready
  <2>3. Longer(tokens, a, i, u, At(a, i), x)
    BY <1>13, <2>2, HoldsMore
  <2>4. QED BY <1>1, <2>3 DEF Longer
<1>15. Holds(tokens, a, i, r, e) /\ EndsLine(r, q)
  <2>1. CASE i # a
    <3>1. r = u /\ e = k
      BY <1>2, <1>11, <1>13, <2>1
    <3>2. Len(u) = k
      BY <1>14 DEF Holds
    <3>3. EndsLine(u, q)
      BY <1>11, <1>12, <1>14, <3>2 DEF EndsLine, Fits
    <3>4. QED BY <1>14, <3>1, <3>3
  <2>2. CASE i = a
    <3>1. PICK y : Semicolon(y) /\ r = Append(u, y)
      BY <1>11, <1>13, <2>2
    <3>2. a # 0 /\ a \in Nat /\ a > 0 /\ k = a /\ e = a + 1
      BY <1>2, <2>2
    <3>3. Holds(tokens, a, a, u, a)
      BY <1>14, <2>2, <3>2
    <3>4. ~ IsComment(tokens[a])
      BY <3>2
    <3>5. Longer(tokens, a, a, r, a + 1, y)
      BY <3>1, <3>2, <3>3, <3>4, HoldsSemicolon
    <3>6. Holds(tokens, a, a, r, a + 1) /\ r[a + 1] = y
      BY <3>5 DEF Longer
    <3>7. Len(r) = a + 1
      BY <3>6 DEF Holds
    <3>8. EndsLine(r, q)
      BY <3>1, <3>6, <3>7, SemicolonNoComment DEF EndsLine
    <3>9. QED BY <2>2, <3>2, <3>6, <3>8
  <2>3. QED BY <2>1, <2>2
<1>16. QED BY <1>1, <1>10, <1>12, <1>15 DEF Upto

(***************************************************************************)
(* The whole text.                                                         *)
(***************************************************************************)
(* The writer after each token.                                            *)
Steps(s, plan, n, f) == f = [i \in 0 .. n |-> IF i = 0 THEN Blank ELSE Rendered(s, plan, i, f[i - 1])]

(* There is one after each.                                                *)
LEMMA StepsExist ==
  ASSUME NEW s, NEW plan, NEW n \in Nat
  PROVE  \E f : Steps(s, plan, n, f)
<1> DEFINE T == {m \in 0 .. n : \E f : Steps(s, plan, m, f)}
<1>1. 0 \in T
  <2>1. PICK f : f = [i \in 0 .. 0 |-> Blank]
    OBVIOUS
  <2>2. Steps(s, plan, 0, f)
    BY <2>1 DEF Steps
  <2>3. QED BY <2>2
<1>2. ASSUME NEW m \in 0 .. n - 1, m \in T PROVE m + 1 \in T
  <2>1. PICK f : f = [i \in 0 .. m |-> IF i = 0 THEN Blank ELSE Rendered(s, plan, i, f[i - 1])]
    BY <1>2 DEF Steps
  <2>2. m \in Nat /\ m + 1 \in 0 .. n
    OBVIOUS
  <2>3. PICK g : g = [i \in 0 .. m + 1 |-> IF i = 0 THEN Blank ELSE Rendered(s, plan, i, f[i - 1])]
    OBVIOUS
  <2>4. \A i \in 0 .. m : g[i] = f[i]
    <3>1. \A i \in 0 .. m : i \in 0 .. m + 1
      BY <2>2
    <3>2. \A i \in 0 .. m : g[i] = IF i = 0 THEN Blank ELSE Rendered(s, plan, i, f[i - 1])
      BY <2>3, <3>1
    <3>3. \A i \in 0 .. m : f[i] = IF i = 0 THEN Blank ELSE Rendered(s, plan, i, f[i - 1])
      BY <2>1
    <3>4. QED BY <3>2, <3>3
  <2>5. \A i \in 0 .. m + 1 : i # 0 => g[i - 1] = f[i - 1]
    <3>1. \A i \in 0 .. m + 1 : i # 0 => i - 1 \in 0 .. m
      BY <2>2
    <3>2. QED BY <2>4, <3>1
  <2>6. g = [i \in 0 .. m + 1 |-> IF i = 0 THEN Blank ELSE Rendered(s, plan, i, g[i - 1])]
    <3>1. \A i \in 0 .. m + 1 : (IF i = 0 THEN Blank ELSE Rendered(s, plan, i, f[i - 1]))
                               = (IF i = 0 THEN Blank ELSE Rendered(s, plan, i, g[i - 1]))
      BY <2>5
    <3>2. QED BY <2>3, <3>1
  <2>7. Steps(s, plan, m + 1, g)
    BY <2>6 DEF Steps
  <2>8. QED BY <2>2, <2>7
<1> HIDE DEF T
<1>3. 0 .. n \subseteq T
  BY <1>1, <1>2, Ascent
<1>4. n \in T
  BY <1>3
<1>5. QED BY <1>4 DEF T

(* RenderPlan gives the text of such a writer.                             *)
LEMMA RenderPlanSteps ==
  ASSUME NEW s, NEW plan, NEW n \in Nat, n = Size(s)
  PROVE  \E f : Steps(s, plan, n, f) /\ RenderPlan(s, plan) = f[n].out
<1> DEFINE f == CHOOSE g : g = [i \in 0 .. n |-> IF i = 0 THEN Blank ELSE Rendered(s, plan, i, g[i - 1])]
<1>1. \E g : g = [i \in 0 .. n |-> IF i = 0 THEN Blank ELSE Rendered(s, plan, i, g[i - 1])]
  <2>1. PICK g : Steps(s, plan, n, g)
    BY StepsExist
  <2>2. g = [i \in 0 .. n |-> IF i = 0 THEN Blank ELSE Rendered(s, plan, i, g[i - 1])]
    BY <2>1 DEF Steps
  <2>3. QED BY <2>2
<1>2. f = [i \in 0 .. n |-> IF i = 0 THEN Blank ELSE Rendered(s, plan, i, f[i - 1])]
  BY <1>1
<1>3. RenderPlan(s, plan) = f[n].out
  BY DEF RenderPlan
<1> HIDE DEF f
<1>4. Steps(s, plan, n, f)
  BY <1>2 DEF Steps
<1>5. QED BY <1>3, <1>4

(* All tokens up to the semicolon that is left out.                        *)
LEMMA UptoAll ==
  ASSUME NEW tokens, TokensAre(tokens), LinesEnd(tokens), NEW n \in Nat, n = Len(tokens),
         NEW s, s.tok = tokens, NEW plan \in Plans(n), NEW f, Steps(s, plan, n, f),
         NEW a \in 0 .. n, a = TerminalSemicolon(s).after, a # 0 => ~ IsComment(tokens[a]),
         NEW m \in 0 .. n, TerminalSemicolon(s).omit \notin 1 .. m
  PROVE  Upto(tokens, a, m, f[m])
<1> DEFINE T == {i \in 0 .. m : Upto(tokens, a, i, f[i])}
<1>1. /\ f[0] = Blank
      /\ \A i \in 1 .. n : f[i] = Rendered(s, plan, i, f[i - 1])
  BY DEF Steps
<1>2. 0 \in T
  <2>1. Upto(tokens, a, 0, Blank)
    BY UptoNone
  <2>2. QED BY <1>1, <2>1
<1>3. ASSUME NEW i \in 0 .. m - 1, i \in T PROVE i + 1 \in T
  <2>1. PICK k, w, v : k = i + 1 /\ w = f[i] /\ v = f[k]
    OBVIOUS
  <2>2. k \in 1 .. n /\ k \in 0 .. m /\ k - 1 = i /\ k # TerminalSemicolon(s).omit
    BY <2>1
  <2>3. Upto(tokens, a, k - 1, w)
    BY <1>3, <2>1, <2>2
  <2>4. Upto(tokens, a, k, Rendered(s, plan, k, w))
    BY <2>2, <2>3, UptoMore
  <2>5. v = Rendered(s, plan, k, w)
    BY <1>1, <2>1, <2>2
  <2>6. QED BY <2>1, <2>2, <2>4, <2>5
<1> HIDE DEF T
<1>4. 0 .. m \subseteq T
  BY <1>2, <1>3, Ascent
<1>5. m \in T
  BY <1>4
<1>6. QED BY <1>5 DEF T

(* What OneStatement says of the semicolons of a statement.                *)
Separates(tokens) ==
  \A i \in 1 .. Len(tokens) - 1 :
    Semicolon(tokens[i]) => \E j \in i + 1 .. Len(tokens) : ~ IsComment(tokens[j]) /\ ~ Semicolon(tokens[j])

(* A statement has typed tokens, comments that end their lines and no      *)
(* semicolon behind which nothing follows but its last token.              *)
LEMMA StatementIs ==
  ASSUME NEW tokens, OneStatement(tokens)
  PROVE  TokensAre(tokens) /\ LinesEnd(tokens) /\ Separates(tokens)
BY Zenon DEF OneStatement, TokensAre, LinesEnd, Separates, Semicolon

(* The semicolon that ends a statement is its last token.                  *)
LEMMA TerminalLast ==
  ASSUME NEW tokens, TokensAre(tokens), Separates(tokens), NEW n, n = Len(tokens),
         NEW l, l = LastSyntax(tokens)
  PROVE  /\ n \in Nat /\ l \in 0 .. n /\ IsLastSyntax(tokens, l)
         /\ IF l # 0 /\ Semicolon(tokens[l]) THEN l = n /\ Terminal(tokens) = n ELSE Terminal(tokens) = 0
<1>1. PICK S : tokens \in Seq(S)
  BY DEF TokensAre
<1>2. IsLastSyntax(tokens, l)
  BY <1>1, LastSyntaxFound
<1>3. n \in Nat /\ l \in 0 .. n /\ \A i \in l + 1 .. n : IsComment(tokens[i])
  BY <1>1, <1>2 DEF IsLastSyntax
<1>4. Terminal(tokens) = IF l # 0 /\ Semicolon(tokens[l]) THEN l ELSE 0
  BY <1>1, <1>2, TerminalIs
<1>5. ASSUME l # 0, Semicolon(tokens[l]) PROVE l = n
  <2>1. SUFFICES ASSUME l # n PROVE FALSE
    OBVIOUS
  <2>2. l \in 1 .. n - 1
    BY <1>3, <1>5, <2>1
  <2>3. PICK j \in l + 1 .. n : ~ IsComment(tokens[j])
    BY <1>5, <2>2 DEF Separates
  <2>4. QED BY <1>3, <2>3
<1>6. QED BY <1>2, <1>3, <1>4, <1>5

(* The text of a layout: all tokens but a semicolon left out.              *)
Ends(s) == TerminalSemicolon(s)
Kept(s) == IF Ends(s).omit = 0 THEN Size(s) ELSE Size(s) - 1

(* What is known of the semicolon that is put in or left out.              *)
EndsAre(tokens, after, omit) ==
  /\ after \in 0 .. Len(tokens) /\ omit \in 0 .. Len(tokens)
  /\ after # 0 => after = LastSyntax(tokens) /\ Terminal(tokens) = 0
  /\ omit # 0 => omit = Len(tokens) /\ Terminal(tokens) = omit
  /\ after = 0 \/ omit = 0

(* TerminalSemicolon says so.                                              *)
LEMMA EndsFound ==
  ASSUME NEW tokens, TokensAre(tokens), Separates(tokens), NEW s, s.tok = tokens
  PROVE  EndsAre(tokens, Ends(s).after, Ends(s).omit)
<1>1. PICK n, l, t : n = Len(tokens) /\ l = LastSyntax(tokens) /\ t = Terminal(tokens)
  OBVIOUS
<1>2. n \in Nat /\ l \in 0 .. n /\ (t = 0 \/ t = n)
  BY <1>1, TerminalLast
<1>3. /\ Ends(s).after = IF t = 0 /\ s.semicolon = "require" THEN l ELSE 0
      /\ Ends(s).omit = IF s.semicolon = "omit" THEN t ELSE 0
  BY <1>1 DEF Ends, TerminalSemicolon
<1>4. QED BY <1>1, <1>2, <1>3 DEF EndsAre

(* A rendered plan holds them.                                             *)
Made(tokens, after, kept, out) == Holds(tokens, after, kept, out, Written(after, kept))

LEMMA PlanMade ==
  ASSUME NEW tokens, OneStatement(tokens), NEW s, s.tok = tokens, NEW plan \in Plans(Len(tokens))
  PROVE  Made(tokens, Ends(s).after, Kept(s), RenderPlan(s, plan))
<1>1. PICK n, a, x, m : n = Len(tokens) /\ a = Ends(s).after /\ x = Ends(s).omit /\ m = Kept(s)
  OBVIOUS
<1>2. TokensAre(tokens) /\ LinesEnd(tokens) /\ Separates(tokens)
  BY StatementIs
<1>3. EndsAre(tokens, a, x) /\ n \in Nat
  BY <1>1, <1>2, EndsFound, TerminalLast
<1>4. a \in 0 .. n /\ (x = 0 \/ (x = n /\ n # 0)) /\ (a # 0 => a = LastSyntax(tokens))
  <2>1. /\ a \in 0 .. n /\ (a # 0 => a = LastSyntax(tokens))
        /\ x # 0 => x = n
    <3>1. n = Len(tokens)
      BY <1>1
    <3>2. QED BY <1>3, <3>1 DEF EndsAre
  <2>2. QED BY <2>1
<1>5. a # 0 => ~ IsComment(tokens[a])
  <2>1. IsLastSyntax(tokens, LastSyntax(tokens))
    BY <1>2, TerminalLast
  <2>2. QED BY <1>4, <2>1 DEF IsLastSyntax
<1>6. n = Size(s)
  BY <1>1 DEF Size
<1>7. PICK f : Steps(s, plan, n, f) /\ RenderPlan(s, plan) = f[n].out
  BY <1>3, <1>6, RenderPlanSteps
<1>8. m = (IF x = 0 THEN n ELSE n - 1) /\ m \in 0 .. n /\ x \notin 1 .. m
  BY <1>1, <1>3, <1>4, <1>6 DEF Kept
<1>9. a = TerminalSemicolon(s).after /\ x = TerminalSemicolon(s).omit
  BY <1>1 DEF Ends
<1>10. PICK w : w = f[m]
  OBVIOUS
<1>11. Upto(tokens, a, m, w)
  <2>1. Upto(tokens, a, m, f[m])
    BY <1>1, <1>2, <1>3, <1>4, <1>5, <1>7, <1>8, <1>9, UptoAll
  <2>2. QED BY <1>10, <2>1
<1>12. f[n] = w
  <2>1. CASE x = 0
    BY <1>8, <1>10, <2>1
  <2>2. CASE x # 0
    <3>1. n \in 1 .. n /\ n = x /\ m = n - 1
      BY <1>3, <1>4, <1>8, <2>2
    <3>2. f[n] = Rendered(s, plan, n, f[n - 1])
      BY <1>7, <3>1 DEF Steps
    <3>3. Rendered(s, plan, n, f[n - 1]) = f[n - 1]
      BY <1>9, <3>1 DEF Rendered
    <3>4. QED BY <1>10, <3>1, <3>2, <3>3
  <2>3. QED BY <2>1, <2>2
<1>13. Made(tokens, a, m, w.out)
  <2>1. PICK o : \E l \in Nat : Pends(w, o, l) /\ Holds(tokens, a, m, o, Written(a, m))
    BY <1>11 DEF Upto
  <2>2. w.out = o
    BY <2>1 DEF Pends, Writer
  <2>3. QED BY <2>1, <2>2 DEF Made
<1>14. QED BY <1>1, <1>7, <1>12, <1>13

(***************************************************************************)
(* The text without the semicolon that ends it.                            *)
(***************************************************************************)
(* b is text o without its token e.                                        *)
BareOf(b, o, e) ==
  IF e = 0 THEN Len(b) = Len(o) /\ \A i \in 1 .. Len(o) : b[i] = o[i]
           ELSE Len(b) = Len(o) - 1 /\ \A i \in 1 .. Len(o) - 1 : b[i] = o[IF e <= i THEN i + 1 ELSE i]

(* Bare leaves the semicolon out.                                          *)
LEMMA BareLeaves ==
  ASSUME NEW o, IsText(o), NEW e \in 0 .. Len(o), e = Terminal(o)
  PROVE  BareOf(Bare(o), o, e)
<1>1. PICK n, k, b : n = Len(o) /\ k = (IF e = 0 THEN n ELSE n - 1) /\ b = Bare(o)
  OBVIOUS
<1>2. n \in Nat /\ k \in Nat
  <2>1. n \in Nat
    BY <1>1 DEF IsText
  <2>2. e # 0 => n # 0
    BY <1>1, <2>1
  <2>3. QED BY <1>1, <2>1, <2>2
<1>3. b = [i \in 1 .. k |-> o[IF e # 0 /\ e <= i THEN i + 1 ELSE i]]
  <2>1. n - (IF e = 0 THEN 0 ELSE 1) = k
    BY <1>1, <1>2
  <2>2. QED BY <1>1, <2>1 DEF Bare
<1>4. Len(b) = k /\ \A i \in 1 .. k : b[i] = o[IF e # 0 /\ e <= i THEN i + 1 ELSE i]
  BY <1>2, <1>3
<1>5. CASE e = 0
  <2>1. Len(b) = n /\ \A i \in 1 .. n : b[i] = o[i]
    BY <1>1, <1>4, <1>5
  <2>2. QED BY <1>1, <1>5, <2>1 DEF BareOf
<1>6. CASE e # 0
  <2>1. Len(b) = n - 1 /\ \A i \in 1 .. n - 1 : b[i] = o[IF e <= i THEN i + 1 ELSE i]
    BY <1>1, <1>4, <1>6
  <2>2. QED BY <1>1, <1>6, <2>1 DEF BareOf
<1>7. QED BY <1>5, <1>6

(* The semicolon that ends a layout: the one put in behind token a, the    *)
(* one kept, or none.                                                      *)
Closing(tokens, a, x) == IF a # 0 THEN a + 1 ELSE IF x # 0 THEN 0 ELSE Terminal(tokens)

(* It is the one of the text made.                                         *)
LEMMA MadeEnds ==
  ASSUME NEW tokens, TokensAre(tokens), Separates(tokens), NEW a, NEW x, EndsAre(tokens, a, x), NEW o,
         NEW m, m = (IF x = 0 THEN Len(tokens) ELSE Len(tokens) - 1), Made(tokens, a, m, o)
  PROVE  Terminal(o) = Closing(tokens, a, x) /\ Len(o) = Written(a, m)
<1>1. PICK n, l, t, c : n = Len(tokens) /\ l = LastSyntax(tokens) /\ t = Terminal(tokens) /\ c = Written(a, m)
  OBVIOUS
<1>2. /\ n \in Nat /\ l \in 0 .. n
      /\ IF l # 0 /\ Semicolon(tokens[l]) THEN l = n /\ t = n ELSE t = 0
  BY <1>1, TerminalLast
<1>3. /\ l # 0 => ~ IsComment(tokens[l])
      /\ \A i \in l + 1 .. n : IsComment(tokens[i])
  <2>1. IsLastSyntax(tokens, l)
    BY <1>1, TerminalLast
  <2>2. QED BY <1>1, <2>1 DEF IsLastSyntax
<1>4. /\ a \in 0 .. n /\ x \in 0 .. n
      /\ a # 0 => a = l /\ t = 0
      /\ x # 0 => x = n /\ t = x
      /\ a = 0 \/ x = 0
  <2>1. n = Len(tokens) /\ l = LastSyntax(tokens) /\ t = Terminal(tokens)
    BY <1>1
  <2>2. QED BY <2>1 DEF EndsAre
<1>5. m \in 0 .. n /\ m = (IF x = 0 THEN n ELSE n - 1)
  BY <1>1, <1>2, <1>4
<1>6. /\ IsText(o) /\ Len(o) = c
      /\ \A j \in 1 .. m : o[At(a, j)].k = tokens[j].k
      /\ a \in 1 .. c - 1 => Semicolon(o[a + 1])
  BY <1>1 DEF Made, Holds
<1>7. PICK S : o \in Seq(S)
  BY <1>6 DEF IsText
<1>8. ASSUME NEW j, NEW k, o[k].k = tokens[j].k
      PROVE  IsComment(o[k]) = IsComment(tokens[j]) /\ Semicolon(o[k]) = Semicolon(tokens[j])
  BY Zenon, <1>8 DEF IsComment, Semicolon
<1>9. CASE a # 0
  <2>1. a = l /\ x = 0 /\ m = n /\ c = n + 1 /\ a \in 1 .. n /\ a \in Nat
    BY <1>1, <1>2, <1>4, <1>5, <1>9 DEF Written
  <2>2. Semicolon(o[a + 1])
    <3>1. a \in 1 .. c - 1
      BY <1>2, <2>1
    <3>2. QED BY <1>6, <3>1
  <2>3. ASSUME NEW i \in a + 2 .. c PROVE IsComment(o[i])
    <3>1. PICK j : j = i - 1
      OBVIOUS
    <3>2. j \in 1 .. m /\ j \in l + 1 .. n /\ At(a, j) = i
      BY <1>2, <2>1, <3>1 DEF At
    <3>3. o[i].k = tokens[j].k
      BY <1>6, <3>2
    <3>4. IsComment(tokens[j])
      BY <1>3, <3>2
    <3>5. QED BY <1>8, <3>3, <3>4
  <2>4. IsLastSyntax(o, a + 1)
    <3>1. a + 1 \in 0 .. Len(o) /\ a + 1 # 0 /\ ~ IsComment(o[a + 1])
      BY <1>2, <1>6, <2>1, <2>2, SemicolonNoComment
    <3>2. \A i \in a + 1 + 1 .. Len(o) : IsComment(o[i])
      <4>1. a + 1 + 1 = a + 2
        BY <2>1
      <4>2. QED BY <1>6, <2>3, <4>1
    <3>3. QED BY <3>1, <3>2 DEF IsLastSyntax
  <2>5. Terminal(o) = a + 1
    <3>1. a + 1 # 0
      BY <2>1
    <3>2. PICK e : e = a + 1
      OBVIOUS
    <3>3. Terminal(o) = IF e # 0 /\ Semicolon(o[e]) THEN e ELSE 0
      BY <1>7, <2>4, <3>2, TerminalIs
    <3>4. QED BY <2>2, <3>1, <3>2, <3>3
  <2>6. QED BY <1>1, <1>6, <1>9, <2>5 DEF Closing
<1>10. CASE a = 0
  <2>1. c = m /\ \A j \in 1 .. m : o[j].k = tokens[j].k
    <3>1. \A j \in 1 .. m : At(a, j) = j
      BY <1>10 DEF At
    <3>2. Written(a, m) = m
      BY <1>10 DEF Written
    <3>3. QED BY <1>1, <1>6, <3>1, <3>2
  <2>2. \A j \in 1 .. m : IsComment(o[j]) = IsComment(tokens[j]) /\ Semicolon(o[j]) = Semicolon(tokens[j])
    BY <1>8, <2>1
  <2>3. CASE x = 0
    <3>1. m = n
      BY <1>5, <2>3
    <3>2. IsLastSyntax(o, l)
      <4>1. l \in 0 .. Len(o)
        BY <1>2, <1>6, <2>1, <3>1
      <4>2. l # 0 => ~ IsComment(o[l])
        <5>1. l # 0 => l \in 1 .. m
          BY <1>2, <3>1
        <5>2. QED BY <1>3, <2>2, <5>1
      <4>3. ASSUME NEW i \in l + 1 .. Len(o) PROVE IsComment(o[i])
        <5>1. i \in l + 1 .. n /\ i \in 1 .. m
          BY <1>2, <1>6, <2>1, <3>1
        <5>2. QED BY <1>3, <2>2, <5>1
      <4>4. QED BY <4>1, <4>2, <4>3 DEF IsLastSyntax
    <3>3. Terminal(o) = IF l # 0 /\ Semicolon(o[l]) THEN l ELSE 0
      BY <1>7, <3>2, TerminalIs
    <3>4. l # 0 => Semicolon(o[l]) = Semicolon(tokens[l])
      <4>1. l # 0 => l \in 1 .. m
        BY <1>2, <3>1
      <4>2. QED BY <2>2, <4>1
    <3>5. Terminal(o) = t
      BY <1>2, <3>3, <3>4
    <3>6. QED BY <1>1, <1>6, <1>10, <2>3, <3>5 DEF Closing
  <2>4. CASE x # 0
    <3>1. x = n /\ n # 0 /\ t = n /\ m = n - 1 /\ l = n /\ Semicolon(tokens[n])
      BY <1>2, <1>4, <1>5, <2>4
    <3>2. PICK r : r = LastSyntax(o)
      OBVIOUS
    <3>3. IsLastSyntax(o, r)
      BY <1>7, <3>2, LastSyntaxFound
    <3>4. r \in 0 .. m /\ \A i \in r + 1 .. m : IsComment(o[i])
      BY <1>6, <2>1, <3>3 DEF IsLastSyntax
    <3>5. r # 0 => ~ Semicolon(o[r])
      <4>1. SUFFICES ASSUME r # 0, Semicolon(o[r]) PROVE FALSE
        OBVIOUS
      <4>2. r \in 1 .. m /\ r \in 1 .. n - 1
        BY <1>2, <1>5, <3>1, <3>4, <4>1
      <4>3. Semicolon(tokens[r])
        BY <2>2, <4>1, <4>2
      <4>4. PICK j \in r + 1 .. n : ~ IsComment(tokens[j]) /\ ~ Semicolon(tokens[j])
        BY <1>1, <4>2, <4>3 DEF Separates
      <4>5. j # n
        BY <3>1, <4>4
      <4>6. j \in r + 1 .. m /\ j \in 1 .. m
        BY <1>2, <3>1, <4>2, <4>4, <4>5
      <4>7. QED BY <2>2, <3>4, <4>4, <4>6
    <3>6. Terminal(o) = IF r # 0 /\ Semicolon(o[r]) THEN r ELSE 0
      BY <1>7, <3>3, TerminalIs
    <3>7. Terminal(o) = 0
      BY <3>5, <3>6
    <3>8. QED BY <1>1, <1>6, <1>10, <2>4, <3>7 DEF Closing
  <2>5. QED BY <2>3, <2>4
<1>11. QED BY <1>9, <1>10

(***************************************************************************)
(* What CommentsStay says of a text and a layout of it.                    *)
(***************************************************************************)
(* The tokens g of the text and b of the layout but for their semicolons.  *)
SameTokens(g, b) ==
  /\ Len(b) = Len(g)
  /\ \A i \in 1 .. Len(g) : b[i].k = g[i].k /\ b[i].w = g[i].w
SameLines(g, b) == \A i \in 2 .. Len(g) : IsComment(g[i]) => (b[i].lb > 0) = (g[i].lb > 0)

(* Where the tokens of the text stand in the layout.                       *)
LEMMA BareSame ==
  ASSUME NEW tokens, OneStatement(tokens), NEW s, s.tok = tokens, NEW o, Made(tokens, Ends(s).after, Kept(s), o),
         NEW g, g = Bare(tokens), NEW b, b = Bare(o)
  PROVE  SameTokens(g, b) /\ SameLines(g, b)
<1>1. PICK n, t, a, x, m, c, e : /\ n = Len(tokens) /\ t = Terminal(tokens) /\ a = Ends(s).after /\ x = Ends(s).omit
                                 /\ m = Kept(s) /\ c = Len(o) /\ e = Terminal(o)
  OBVIOUS
<1>2. TokensAre(tokens) /\ Separates(tokens)
  BY StatementIs
<1>3. n \in Nat /\ (t = 0 \/ t = n)
  BY <1>1, <1>2, TerminalLast
<1>4. EndsAre(tokens, a, x)
  BY <1>1, <1>2, EndsFound
<1>5. /\ a \in 0 .. n /\ x \in 0 .. n
      /\ a # 0 => t = 0
      /\ x # 0 => x = n /\ t = x
      /\ a = 0 \/ x = 0
  <2>1. n = Len(tokens) /\ t = Terminal(tokens)
    BY <1>1
  <2>2. QED BY <1>4, <2>1 DEF EndsAre
<1>6. m = (IF x = 0 THEN n ELSE n - 1) /\ m \in 0 .. n
  <2>1. m = IF x = 0 THEN n ELSE n - 1
    BY <1>1 DEF Kept, Size
  <2>2. QED BY <1>3, <1>5, <2>1
<1>7. e = Closing(tokens, a, x) /\ c = Written(a, m)
  <2>1. Made(tokens, a, m, o)
    BY <1>1
  <2>2. QED BY <1>1, <1>2, <1>4, <1>6, <2>1, MadeEnds
<1>8. /\ IsText(o)
      /\ \A j \in 1 .. m : o[At(a, j)].k = tokens[j].k /\ o[At(a, j)].w = tokens[j].w
      /\ \A j \in 2 .. m : IsComment(tokens[j]) => (o[At(a, j)].lb > 0) = (tokens[j].lb > 0)
  BY <1>1 DEF Made, Holds
<1>9. PICK q : q = IF t = 0 THEN n ELSE n - 1
  OBVIOUS
<1>10. q \in Nat /\ q <= m
  BY <1>3, <1>5, <1>6, <1>9
<1>11. Len(g) = q /\ \A i \in 1 .. q : g[i] = tokens[i]
  <2>1. IsText(tokens) /\ t \in 0 .. Len(tokens)
    BY <1>1, <1>2, <1>3 DEF TokensAre, IsText
  <2>2. BareOf(g, tokens, t)
    BY <1>1, <2>1, BareLeaves
  <2>3. CASE t = 0
    BY <1>1, <1>9, <2>2, <2>3 DEF BareOf
  <2>4. CASE t # 0
    <3>1. Len(g) = n - 1 /\ \A i \in 1 .. n - 1 : g[i] = tokens[IF t <= i THEN i + 1 ELSE i]
      BY <1>1, <2>2, <2>4 DEF BareOf
    <3>2. \A i \in 1 .. n - 1 : (IF t <= i THEN i + 1 ELSE i) = i
      BY <1>3, <2>4
    <3>3. QED BY <1>9, <2>4, <3>1, <3>2
  <2>5. QED BY <2>3, <2>4
<1>12. Len(b) = q /\ \A i \in 1 .. q : b[i] = o[At(a, i)]
  <2>1. e = IF a # 0 THEN a + 1 ELSE IF x # 0 THEN 0 ELSE t
    BY <1>1, <1>7 DEF Closing
  <2>2. c = IF a # 0 THEN n + 1 ELSE m
    BY <1>3, <1>5, <1>6, <1>7 DEF Written
  <2>3. e \in 0 .. c
    <3>1. CASE a # 0
      BY <1>3, <1>5, <2>1, <2>2, <3>1
    <3>2. CASE a = 0 /\ x # 0
      BY <1>6, <2>1, <2>2, <3>2
    <3>3. CASE a = 0 /\ x = 0
      BY <1>3, <1>6, <2>1, <2>2, <3>3
    <3>4. QED BY <3>1, <3>2, <3>3
  <2>4. BareOf(b, o, e)
    BY <1>1, <1>8, <2>3, BareLeaves
  <2>5. CASE a # 0
    <3>1. e # 0 /\ e = a + 1 /\ c = n + 1 /\ q = n /\ a \in Nat
      BY <1>3, <1>5, <1>9, <2>1, <2>2, <2>5
    <3>2. Len(b) = c - 1 /\ \A i \in 1 .. c - 1 : b[i] = o[IF e <= i THEN i + 1 ELSE i]
      BY <1>1, <2>4, <3>1 DEF BareOf
    <3>3. \A i \in 1 .. n : (IF e <= i THEN i + 1 ELSE i) = At(a, i)
      BY <1>3, <2>5, <3>1 DEF At
    <3>4. c - 1 = n
      BY <1>3, <3>1
    <3>5. QED BY <3>1, <3>2, <3>3, <3>4
  <2>6. CASE a = 0
    <3>1. \A i \in 1 .. q : At(a, i) = i
      BY <2>6 DEF At
    <3>2. CASE e = 0
      <4>1. c = q
        BY <1>3, <1>5, <1>6, <1>9, <2>1, <2>2, <2>6, <3>2
      <4>2. Len(b) = c /\ \A i \in 1 .. c : b[i] = o[i]
        BY <1>1, <2>4, <3>2 DEF BareOf
      <4>3. QED BY <3>1, <4>1, <4>2
    <3>3. CASE e # 0
      <4>1. e = n /\ c = n /\ q = n - 1
        BY <1>3, <1>5, <1>6, <1>9, <2>1, <2>2, <2>6, <3>3
      <4>2. Len(b) = c - 1 /\ \A i \in 1 .. c - 1 : b[i] = o[IF e <= i THEN i + 1 ELSE i]
        BY <1>1, <2>4, <3>3 DEF BareOf
      <4>3. \A i \in 1 .. n - 1 : (IF e <= i THEN i + 1 ELSE i) = i
        BY <1>3, <4>1
      <4>4. QED BY <3>1, <4>1, <4>2, <4>3
    <3>4. QED BY <3>2, <3>3
  <2>7. QED BY <2>5, <2>6
<1>13. SameTokens(g, b)
  <2>1. \A i \in 1 .. q : i \in 1 .. m
    BY <1>6, <1>10
  <2>2. \A i \in 1 .. q : b[i].k = g[i].k /\ b[i].w = g[i].w
    BY <1>8, <1>11, <1>12, <2>1
  <2>3. QED BY <1>11, <1>12, <2>2 DEF SameTokens
<1>14. SameLines(g, b)
  <2>1. \A i \in 2 .. q : i \in 2 .. m /\ i \in 1 .. q
    BY <1>6, <1>10
  <2>2. \A i \in 2 .. q : IsComment(g[i]) => (b[i].lb > 0) = (g[i].lb > 0)
    BY <1>8, <1>11, <1>12, <2>1
  <2>3. QED BY <1>11, <2>2 DEF SameLines
<1>15. QED BY <1>13, <1>14

(* Every layout of a statement, with any plan, keeps its tokens and leaves *)
(* its comments where their author put them (render_plan).                 *)
THEOREM RenderKeepsTokens ==
  ASSUME NEW tokens, OneStatement(tokens), NEW opts, NEW plan \in Plans(Len(tokens)),
         NEW o, o = RenderPlan(Read(tokens, opts), plan)
  PROVE  /\ SameTokens(Bare(tokens), Bare(o)) /\ SameLines(Bare(tokens), Bare(o))
         /\ \A i \in 1 .. Len(o) - 1 : o[i].k = "--" => o[i + 1].lb > 0
<1>1. PICK s : s = Read(tokens, opts)
  OBVIOUS
<1>2. s.tok = tokens
  BY <1>1, ReadHolds
<1>3. Made(tokens, Ends(s).after, Kept(s), o)
  BY <1>1, <1>2, PlanMade
<1>4. SameTokens(Bare(tokens), Bare(o)) /\ SameLines(Bare(tokens), Bare(o))
  BY <1>2, <1>3, BareSame
<1>5. \A i \in 1 .. Len(o) - 1 : o[i].k = "--" => o[i + 1].lb > 0
  BY <1>3 DEF Made, Holds
<1>6. QED BY <1>4, <1>5

(***************************************************************************)
(* The passes.                                                             *)
(***************************************************************************)
(* A layout of the statement by some plan.                                 *)
LayoutOf(o) == \E plan \in Plans(Len(text)) : o = RenderPlan(Read(text, options), plan)

(* The statement is one, what the first pass made is a layout of it, and   *)
(* the gates judge only what two passes made.                              *)
PassesInvariant ==
  /\ OneStatement(text)
  /\ IsText(laid)
  /\ laid # <<>> => LayoutOf(laid[1])
  /\ verdict # "none" => laid # <<>>

(* The passes keep that.                                                   *)
THEOREM PassesInvariantHolds == PassSpec => []PassesInvariant
<1>1. PassInit => PassesInvariant
  <2> SUFFICES ASSUME PassInit PROVE PassesInvariant
    OBVIOUS
  <2>1. OneStatement(text)
    BY TextsAssumption DEF PassInit
  <2>2. laid \in Seq({})
    BY DEF PassInit
  <2>3. QED BY <2>1, <2>2 DEF PassInit, PassesInvariant, IsText
<1>2. PassesInvariant /\ [Pass \/ Gate]_passed => PassesInvariant'
  <2> SUFFICES ASSUME PassesInvariant, [Pass \/ Gate]_passed PROVE PassesInvariant'
    OBVIOUS
  <2>1. CASE Pass
    <3>1. text' = text /\ options' = options
      BY <2>1 DEF Pass
    <3>2. PICK plan \in Plans(Len(Given)) : laid' = Append(laid, RenderPlan(Read(Given, options), plan))
      BY <2>1 DEF Pass
    <3>3. PICK made, two : made = RenderPlan(Read(Given, options), plan) /\ two = Append(laid, made)
      OBVIOUS
    <3>4. /\ IsText(two) /\ Len(laid) \in Nat /\ two[Len(laid) + 1] = made /\ two # <<>>
          /\ \A q \in 1 .. Len(laid) : two[q] = laid[q]
      BY <3>3, Appended DEF PassesInvariant
    <3>5. laid' = two
      BY <3>2, <3>3
    <3>6. LayoutOf(two[1])
      <4>1. CASE laid = <<>>
        <5>1. two[1] = made
          <6>1. Len(laid) + 1 = 1
            BY <4>1
          <6>2. QED BY <3>4, <6>1
        <5>2. LayoutOf(made)
          BY <3>3, <4>1 DEF Given, LayoutOf
        <5>3. QED BY <5>1, <5>2
      <4>2. CASE laid # <<>>
        <5>1. Len(laid) # 0
          BY <4>2 DEF PassesInvariant, IsText
        <5>2. 1 \in 1 .. Len(laid)
          BY <3>4, <5>1
        <5>3. two[1] = laid[1]
          BY <3>4, <5>2
        <5>4. QED BY <4>2, <5>3 DEF PassesInvariant
      <4>3. QED BY <4>1, <4>2
    <3>7. LayoutOf(two[1])'
      BY <3>1, <3>5, <3>6 DEF LayoutOf
    <3>8. QED BY <3>1, <3>4, <3>5, <3>7 DEF PassesInvariant
  <2>2. CASE Gate
    <3>1. text' = text /\ options' = options /\ laid' = laid /\ Len(laid) = 2
      BY <2>2 DEF Gate
    <3>2. \A o : LayoutOf(o)' = LayoutOf(o)
      BY <3>1 DEF LayoutOf
    <3>3. laid # <<>>
      BY <3>1
    <3>4. QED BY <3>1, <3>2, <3>3 DEF PassesInvariant
  <2>3. CASE UNCHANGED passed
    <3>1. text' = text /\ options' = options /\ laid' = laid /\ verdict' = verdict
      BY <2>3 DEF passed
    <3>2. \A o : LayoutOf(o)' = LayoutOf(o)
      BY <3>1 DEF LayoutOf
    <3>3. QED BY <3>1, <3>2 DEF PassesInvariant
  <2>4. QED BY <2>1, <2>2, <2>3
<1>3. QED BY <1>1, <1>2, PTL DEF PassSpec

(* Comments stay where their author put them, whatever the planners plan   *)
(* (render_plan, format_supported_statement).                              *)
THEOREM CommentsStayHolds == PassSpec => []CommentsStay
<1>1. PassesInvariant => CommentsStay
  <2> SUFFICES ASSUME PassesInvariant, Judged PROVE CommentsStay
    BY DEF CommentsStay
  <2>1. PICK o : LayoutOf(o) /\ first = o
    BY DEF PassesInvariant, Judged, first
  <2>2. PICK plan \in Plans(Len(text)) : o = RenderPlan(Read(text, options), plan)
    BY <2>1 DEF LayoutOf
  <2>3. OneStatement(text)
    BY DEF PassesInvariant
  <2>4. /\ SameTokens(Bare(text), Bare(o)) /\ SameLines(Bare(text), Bare(o))
        /\ \A i \in 1 .. Len(o) - 1 : o[i].k = "--" => o[i + 1].lb > 0
    BY <2>2, <2>3, RenderKeepsTokens
  <2>5. QED BY <2>1, <2>4 DEF CommentsStay, SameTokens, SameLines, BeginsLine
<1>2. QED BY <1>1, PassesInvariantHolds, PTL

=============================================================================
