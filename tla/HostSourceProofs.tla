-------------------------- MODULE HostSourceProofs --------------------------
(***************************************************************************)
(* What the host adapters promise for every source: which sources they     *)
(* refuse, which findings they give, and what becomes of each token.  The  *)
(* loop over units and literals is related to the reading of the source    *)
(* from its top that HostSource states the properties with.                *)
(***************************************************************************)
EXTENDS HostSource, DataInduction, FiniteSetTheorems, SequenceTheorems

-----------------------------------------------------------------------------
(***************************************************************************)
(* The comments above a token.                                             *)
(***************************************************************************)
AboveAt(i, above) ==
  CASE i > 0 /\ doc[i].kind = "comment" -> above \cup {i}
    [] i > 0 /\ doc[i].kind = "gap" /\ lang = "rust" -> above
    [] OTHER -> {}

(* The function Above is the one its recursion describes.                  *)
LEMMA AboveDefined ==
  ASSUME doc \in Seq(Token)
  PROVE  /\ Above[0] = {}
         /\ \A i \in 1 .. Len(doc) : Above[i] = AboveAt(i, Above[i - 1])
<1> DEFINE n == Len(doc)
           R(f) == f = [i \in 0 .. n |->
                          CASE i > 0 /\ doc[i].kind = "comment" -> f[i - 1] \cup {i}
                            [] i > 0 /\ doc[i].kind = "gap" /\ lang = "rust" -> f[i - 1]
                            [] OTHER -> {}]
           step == [i \in 1 .. n |-> [above \in SUBSET Nat |-> AboveAt(i, above)]]
<1>1. n \in Nat
  OBVIOUS
<1>2. ASSUME NEW i \in 1 .. n, NEW above \in SUBSET Nat PROVE AboveAt(i, above) \in SUBSET Nat
  BY DEF AboveAt
<1>3. Recursion(n, SUBSET Nat, {}, step)
  <2> HIDE DEF n
  <2>1. QED BY <1>1, <1>2 DEF Recursion
<1>4. PICK f : Solves(f, n, SUBSET Nat, {}, step)
  <2> HIDE DEF n, step
  <2>1. QED BY <1>3, RecursionExists
<1>5. f[0] = {} /\ \A i \in 1 .. n : f[i] = AboveAt(i, f[i - 1])
  <2> HIDE DEF n
  <2>1. \A i \in 1 .. n : i - 1 \in 0 .. n
    BY <1>1
  <2>2. QED BY <1>4, <2>1 DEF Solves
<1>6. R(f)
  BY <1>1, <1>4, <1>5 DEF AboveAt, Solves
<1>7. Above = CHOOSE g : R(g)
  BY DEF Above
<1> HIDE DEF R
<1>8. R(Above)
  BY <1>6, <1>7
<1> DEFINE above == Above
<1>9. above = [i \in 0 .. n |->
                 CASE i > 0 /\ doc[i].kind = "comment" -> above[i - 1] \cup {i}
                   [] i > 0 /\ doc[i].kind = "gap" /\ lang = "rust" -> above[i - 1]
                   [] OTHER -> {}]
  BY <1>8 DEF R
<1> HIDE DEF above, n
<1>10. \A i \in 0 .. n : above[i] = AboveAt(i, above[i - 1])
  BY <1>9 DEF AboveAt
<1>11. above[0] = {}
  <2>1. 0 \in 0 .. n /\ ~ (0 > 0)
    BY <1>1
  <2>2. above[0] = AboveAt(0, above[0 - 1])
    BY <1>10, <2>1
  <2>3. QED BY <2>1, <2>2 DEF AboveAt
<1>12. QED BY <1>1, <1>10, <1>11 DEF n, above

(* The comments with nothing but white space between them and a token are  *)
(* those that attached_directives walks back over.                         *)
LEMMA AboveIsBefore ==
  ASSUME doc \in Seq(Token), lang \in {"go", "rust"}
  PROVE  \A i \in 0 .. Len(doc) : Above[i] = Before(i + 1)
<1> DEFINE n == Len(doc)
           T == {i \in 0 .. n : Above[i] = Before(i + 1)}
<1>1. n \in Nat /\ DOMAIN doc = 1 .. n
  OBVIOUS
<1>2. Before(1) = {}
  BY <1>1 DEF Before, Comments
<1>3. 0 \in T
  <2>1. Above[0] = {}
    BY AboveDefined
  <2>2. 0 + 1 = 1 /\ 0 \in 0 .. n
    BY <1>1
  <2>3. Above[0] = Before(0 + 1)
    BY <1>2, <2>1, <2>2
  <2> HIDE DEF n
  <2>4. QED BY <2>2, <2>3
<1>4. ASSUME NEW i \in 0 .. n - 1, Above[i] = Before(i + 1) PROVE Above[i + 1] = Before(i + 2)
  <2> DEFINE m == i + 1
  <2>1. m \in 1 .. n /\ m - 1 = i /\ m + 1 = i + 2 /\ m \in Nat /\ (m + 1) - 1 = m
    BY <1>1
  <2>2. Above[m] = AboveAt(m, Before(m))
    BY <1>4, <2>1, AboveDefined
  <2> HIDE DEF m
  <2>3. \A j \in Comments : j \in 1 .. n /\ doc[j].kind = "comment"
    BY <1>1 DEF Comments
  <2>4. Before(m + 1) = {j \in Comments : j < m + 1 /\ \A k \in j .. m : doc[k].kind \in Between}
    BY <2>1 DEF Before
  <2>5. ASSUME doc[m].kind \notin Between PROVE Before(m + 1) = {}
    <3>1. \A j \in Comments : j < m + 1 => m \in j .. m
      BY <2>1, <2>3
    <3>2. QED BY <2>4, <2>5, <3>1
  <2>6. ASSUME doc[m].kind \in Between, NEW j \in Comments, j < m
        PROVE  j \in Before(m) <=> j \in Before(m + 1)
    <3>1. \A k \in j .. m : k \in j .. m - 1 \/ k = m
      BY <2>1, <2>3
    <3>2. \A k \in j .. m - 1 : k \in j .. m
      BY <2>1, <2>3
    <3>3. j < m + 1
      BY <2>1, <2>3, <2>6
    <3>4. QED BY <2>4, <2>6, <3>1, <3>2, <3>3 DEF Before
  <2>7. \A j \in Before(m) : j \in Comments /\ j < m
    BY DEF Before
  <2>8. \A j \in Before(m + 1) : j \in Comments /\ (j < m \/ j = m)
    <3>1. \A j \in Comments : j < m + 1 => j < m \/ j = m
      BY <2>1, <2>3
    <3>2. QED BY <2>4, <3>1
  <2>9. doc[m].kind \in Between => \A j : (j # m => (j \in Before(m) <=> j \in Before(m + 1)))
    BY <2>6, <2>7, <2>8
  <2>10. m \notin Before(m)
    BY <2>1 DEF Before
  <2>11. m \in Before(m + 1) <=> doc[m].kind = "comment"
    <3>1. m \in Before(m + 1) => doc[m].kind = "comment"
      BY <2>3, <2>8
    <3>2. ASSUME doc[m].kind = "comment" PROVE m \in Before(m + 1)
      <4>1. m \in Comments /\ m < m + 1 /\ \A k \in m .. m : k = m
        BY <1>1, <2>1, <3>2 DEF Comments
      <4>2. doc[m].kind \in Between
        BY <3>2 DEF Between
      <4>3. QED BY <2>4, <4>1, <4>2
    <3>3. QED BY <3>1, <3>2
  <2>12. CASE doc[m].kind = "comment"
    <3>1. doc[m].kind \in Between /\ m > 0
      BY <2>1, <2>12 DEF Between
    <3>2. AboveAt(m, Before(m)) = Before(m) \cup {m}
      BY <2>12, <3>1 DEF AboveAt
    <3>3. Before(m + 1) = Before(m) \cup {m}
      BY <2>9, <2>11, <2>12, <3>1
    <3>4. QED BY <2>1, <2>2, <3>2, <3>3 DEF m
  <2>13. CASE doc[m].kind = "gap" /\ lang = "rust"
    <3>1. doc[m].kind \in Between /\ m > 0 /\ doc[m].kind # "comment"
      BY <2>1, <2>13 DEF Between
    <3>2. AboveAt(m, Before(m)) = Before(m)
      BY <2>13, <3>1 DEF AboveAt
    <3>3. \A j : j \in Before(m) <=> j \in Before(m + 1)
      BY <2>9, <2>10, <2>11, <3>1
    <3>4. Before(m + 1) = Before(m)
      BY <3>3
    <3>5. QED BY <2>1, <2>2, <3>2, <3>4 DEF m
  <2>14. CASE doc[m].kind # "comment" /\ ~ (doc[m].kind = "gap" /\ lang = "rust")
    <3>1. AboveAt(m, Before(m)) = {}
      BY <2>14 DEF AboveAt
    <3>2. doc[m].kind \notin Between
      BY <2>14 DEF Between
    <3>3. QED BY <2>1, <2>2, <2>5, <3>1, <3>2 DEF m
  <2>15. QED BY <2>12, <2>13, <2>14
<1>5. ASSUME NEW i \in 0 .. n - 1, i \in T PROVE i + 1 \in T
  <2>1. Above[i + 1] = Before(i + 2) /\ i + 2 = (i + 1) + 1 /\ i + 1 \in 0 .. n
    BY <1>1, <1>4, <1>5
  <2> HIDE DEF n
  <2>2. QED BY <2>1
<1> HIDE DEF T
<1>6. 0 .. n \subseteq T
  BY <1>1, <1>3, <1>5, Ascent
<1>7. QED BY <1>6 DEF T

-----------------------------------------------------------------------------
(***************************************************************************)
(* The statements around a token.                                          *)
(***************************************************************************)
OpenAt(i, open) ==
  CASE i > 0 /\ doc[i].kind \in Opening -> Append(open, i)
    [] i > 0 /\ doc[i].kind = "end" -> Front(open)
    [] i > 0 /\ doc[i].kind \notin Opening \cup {"end"} -> open
    [] OTHER -> <<>>

(* A sequence without its last element.                                    *)
LEMMA FrontTyped ==
  ASSUME NEW S, NEW s \in Seq(S)
  PROVE  /\ Front(s) \in Seq(S)
         /\ s = <<>> => Front(s) = <<>>
         /\ s # <<>> => Len(Front(s)) = Len(s) - 1 /\ \A a \in 1 .. Len(s) - 1 : Front(s)[a] = s[a]
<1>1. CASE s = <<>>
  <2>1. Len(s) = 0 /\ Len(s) - 1 = -1
    BY <1>1
  <2>2. SubSeq(s, 1, -1) = <<>>
    BY SubSeqEmpty
  <2>3. QED BY <1>1, <2>1, <2>2 DEF Front
<1>2. CASE s # <<>>
  <2>1. Len(s) \in Nat /\ Len(s) >= 1
    BY <1>2
  <2> DEFINE t == SubSeq(s, 1, Len(s) - 1)
  <2>2. 1 \in 1 .. Len(s) + 1 /\ Len(s) - 1 \in 1 - 1 .. Len(s) /\ (Len(s) - 1) - 1 + 1 = Len(s) - 1
    BY <2>1
  <2>3. t \in Seq(S) /\ Len(t) = Len(s) - 1 /\ \A a \in 1 .. Len(s) - 1 : t[a] = s[1 + a - 1]
    BY <2>2, SubSeqProperties
  <2>4. \A a \in 1 .. Len(s) - 1 : 1 + a - 1 = a
    BY <2>1
  <2> HIDE DEF t
  <2>5. t \in Seq(S) /\ Len(t) = Len(s) - 1 /\ \A a \in 1 .. Len(s) - 1 : t[a] = s[a]
    BY <2>3, <2>4
  <2>6. Front(s) = t
    BY DEF Front, t
  <2>7. QED BY <1>2, <2>5, <2>6
<1>3. QED BY <1>1, <1>2

(* The function Open is the one its recursion describes.                   *)
LEMMA OpenDefined ==
  ASSUME doc \in Seq(Token)
  PROVE  /\ Open \in [0 .. Len(doc) -> Seq(Nat)] /\ Open[0] = <<>>
         /\ \A i \in 1 .. Len(doc) : Open[i] = OpenAt(i, Open[i - 1])
<1> DEFINE n == Len(doc)
           R(f) == f = [i \in 0 .. n |->
                          CASE i > 0 /\ doc[i].kind \in Opening -> Append(f[i - 1], i)
                            [] i > 0 /\ doc[i].kind = "end" -> Front(f[i - 1])
                            [] i > 0 /\ doc[i].kind \notin Opening \cup {"end"} -> f[i - 1]
                            [] OTHER -> <<>>]
           step == [i \in 1 .. n |-> [open \in Seq(Nat) |-> OpenAt(i, open)]]
<1>1. n \in Nat
  OBVIOUS
<1>2. ASSUME NEW i \in 1 .. n, NEW open \in Seq(Nat) PROVE OpenAt(i, open) \in Seq(Nat)
  BY <1>1, FrontTyped DEF OpenAt
<1>3. Recursion(n, Seq(Nat), <<>>, step)
  <2> HIDE DEF n
  <2>1. QED BY <1>1, <1>2 DEF Recursion
<1>4. PICK f : Solves(f, n, Seq(Nat), <<>>, step)
  <2> HIDE DEF n, step
  <2>1. QED BY <1>3, RecursionExists
<1>5. f[0] = <<>> /\ \A i \in 1 .. n : f[i] = OpenAt(i, f[i - 1])
  <2> HIDE DEF n
  <2>1. \A i \in 1 .. n : i - 1 \in 0 .. n
    BY <1>1
  <2>2. QED BY <1>4, <2>1 DEF Solves
<1>6. R(f)
  <2> HIDE DEF n
  <2>1. ~ (0 > 0) /\ \A i \in 0 .. n : i = 0 \/ i \in 1 .. n
    BY <1>1
  <2>2. \A i \in 0 .. n : f[i] = OpenAt(i, f[i - 1])
    BY <1>5, <2>1 DEF OpenAt
  <2>3. f = [i \in 0 .. n |-> f[i]]
    BY <1>4 DEF Solves
  <2>4. QED BY <2>2, <2>3 DEF OpenAt
<1>7. Open = CHOOSE g : R(g)
  BY DEF Open
<1> HIDE DEF R
<1>8. R(Open)
  BY <1>6, <1>7
<1> DEFINE open == Open
<1>9. open = [i \in 0 .. n |->
                 CASE i > 0 /\ doc[i].kind \in Opening -> Append(open[i - 1], i)
                   [] i > 0 /\ doc[i].kind = "end" -> Front(open[i - 1])
                   [] i > 0 /\ doc[i].kind \notin Opening \cup {"end"} -> open[i - 1]
                   [] OTHER -> <<>>]
  BY <1>8 DEF R
<1> HIDE DEF open, n
<1>10. \A i \in 0 .. n : open[i] = OpenAt(i, open[i - 1])
  BY <1>9 DEF OpenAt
<1>11. open[0] = <<>>
  <2>1. 0 \in 0 .. n /\ ~ (0 > 0)
    BY <1>1
  <2>2. open[0] = OpenAt(0, open[0 - 1])
    BY <1>10, <2>1
  <2>3. QED BY <2>1, <2>2 DEF OpenAt
<1>12. 0 .. n \subseteq {i \in 0 .. n : open[i] \in Seq(Nat)}
  <2> DEFINE T == {i \in 0 .. n : open[i] \in Seq(Nat)}
  <2>1. 0 \in T
    <3>1. 0 \in 0 .. n /\ <<>> \in Seq(Nat)
      BY <1>1
    <3>2. QED BY <1>11, <3>1
  <2>2. ASSUME NEW i \in 0 .. n - 1, i \in T PROVE i + 1 \in T
    <3>1. i + 1 \in 1 .. n /\ (i + 1) - 1 = i /\ i + 1 \in 0 .. n
      BY <1>1
    <3>2. open[i + 1] = OpenAt(i + 1, open[i])
      BY <1>10, <3>1
    <3>3. QED BY <1>2, <2>2, <3>1, <3>2
  <2> HIDE DEF T
  <2>3. QED BY <1>1, <2>1, <2>2, Ascent DEF T
<1>13. open \in [0 .. n -> Seq(Nat)]
  BY <1>9, <1>12
<1>14. QED BY <1>1, <1>10, <1>11, <1>13 DEF n, open

(* One token more adds one to the count of its kind.                       *)
Counted(m, kinds) == Cardinality({j \in 1 .. m : doc[j].kind \in kinds})

LEMMA CountToken ==
  ASSUME NEW n \in Nat, NEW kinds
  PROVE  /\ Counted(n, kinds) \in Nat
         /\ Counted(n + 1, kinds) = Counted(n, kinds) + IF doc[n + 1].kind \in kinds THEN 1 ELSE 0
<1> DEFINE upto(m) == {j \in 1 .. m : doc[j].kind \in kinds}
<1>1. IsFiniteSet(upto(n))
  <2>1. IsFiniteSet(1 .. n)
    BY FS_Interval
  <2>2. upto(n) \subseteq 1 .. n
    OBVIOUS
  <2>3. QED BY <2>1, <2>2, FS_Subset
<1>2. Cardinality(upto(n)) \in Nat
  BY <1>1, FS_CardinalityType
<1>3. CASE doc[n + 1].kind \in kinds
  <2>1. upto(n + 1) = upto(n) \cup {n + 1}
    BY <1>3
  <2>2. n + 1 \notin upto(n)
    OBVIOUS
  <2>3. Cardinality(upto(n + 1)) = Cardinality(upto(n)) + 1
    BY <1>1, <2>1, <2>2, FS_AddElement
  <2>4. Counted(n + 1, kinds) = Counted(n, kinds) + 1 /\ Counted(n, kinds) \in Nat
    BY <1>2, <2>3 DEF Counted
  <2>5. QED BY <1>3, <2>4
<1>4. CASE doc[n + 1].kind \notin kinds
  <2>1. upto(n + 1) = upto(n)
    BY <1>4
  <2>2. Counted(n + 1, kinds) = Counted(n, kinds) /\ Counted(n, kinds) \in Nat
    BY <1>2, <2>1 DEF Counted
  <2>3. QED BY <1>4, <2>2
<1>5. QED BY <1>3, <1>4

(* What a token does to the depth.                                         *)
LEMMA DepthStep ==
  ASSUME NEW n \in Nat
  PROVE  /\ Depth(n) \in Int
         /\ doc[n + 1].kind \in Opening => Depth(n + 1) = Depth(n) + 1
         /\ doc[n + 1].kind = "end" => Depth(n + 1) = Depth(n) - 1
         /\ doc[n + 1].kind \notin Opening \cup {"end"} => Depth(n + 1) = Depth(n)
<1>1. \A k : Depth(k) = Counted(k, Opening) - Counted(k, {"end"})
  <2>1. \A k : {j \in 1 .. k : doc[j].kind = "end"} = {j \in 1 .. k : doc[j].kind \in {"end"}}
    OBVIOUS
  <2>2. QED BY <2>1 DEF Depth, Counted
<1>2. /\ Counted(n, Opening) \in Nat
      /\ Counted(n + 1, Opening) = Counted(n, Opening) + IF doc[n + 1].kind \in Opening THEN 1 ELSE 0
  BY CountToken
<1>3. /\ Counted(n, {"end"}) \in Nat
      /\ Counted(n + 1, {"end"}) = Counted(n, {"end"}) + IF doc[n + 1].kind \in {"end"} THEN 1 ELSE 0
  BY CountToken
<1>4. doc[n + 1].kind \in Opening => doc[n + 1].kind # "end"
  BY DEF Opening
<1>5. QED BY <1>1, <1>2, <1>3, <1>4

(* Token j starts a statement that is still open behind token i.           *)
Around(j, i) == doc[j].kind \in Opening /\ \A k \in j .. i : Depth(k) >= Depth(j)

(* The sequence s holds the statements open behind token i, innermost      *)
(* last, each one level deeper than the one before.                        *)
Stacked(s, i) ==
  /\ s \in Seq(Nat)
  /\ \A a \in 1 .. Len(s) :
       s[a] \in 1 .. i /\ Around(s[a], i) /\ Depth(s[a]) = Depth(i) - (Len(s) - a)
  /\ \A a, b \in 1 .. Len(s) : a < b => s[a] < s[b]
  /\ \A j \in 1 .. i : Around(j, i) => \E a \in 1 .. Len(s) : s[a] = j

(* The stack of the reference is the set of statements the tree has around *)
(* the token, whether or not every statement is closed.                    *)
LEMMA OpenIsStacked ==
  ASSUME doc \in Seq(Token)
  PROVE  \A i \in 0 .. Len(doc) : Stacked(Open[i], i)
<1> DEFINE n == Len(doc)
           T == {i \in 0 .. n : Stacked(Open[i], i)}
<1>1. n \in Nat
  OBVIOUS
<1>2. 0 \in T
  <2>1. Open[0] = <<>> /\ Len(<<>>) = 0 /\ <<>> \in Seq(Nat) /\ 0 \in 0 .. n
    BY <1>1, OpenDefined
  <2>2. Stacked(Open[0], 0)
    BY <2>1 DEF Stacked
  <2> HIDE DEF n
  <2>3. QED BY <2>1, <2>2
<1>3. ASSUME NEW i \in 0 .. n - 1, Stacked(Open[i], i) PROVE Stacked(Open[i + 1], i + 1)
  <2>1. PICK p : p = i + 1
    OBVIOUS
  <2>2. p \in 1 .. n /\ p \in Nat /\ p - 1 = i /\ i \in Nat
    BY <1>1, <2>1
  <2>3. PICK s : s = Open[i]
    OBVIOUS
  <2>4. PICK t : t = Open[p]
    OBVIOUS
  <2>5. t = OpenAt(p, s)
    BY <2>2, <2>3, <2>4, OpenDefined
  <2>6. Stacked(s, i)
    BY <1>3, <2>3
  <2>7. s \in Seq(Nat) /\ Len(s) \in Nat
    BY <2>6 DEF Stacked
  <2>8. /\ Depth(i) \in Int /\ Depth(p) \in Int /\ p > 0
        /\ doc[p].kind \in Opening => Depth(p) = Depth(i) + 1
        /\ doc[p].kind = "end" => Depth(p) = Depth(i) - 1
        /\ doc[p].kind \notin Opening \cup {"end"} => Depth(p) = Depth(i)
    BY <2>1, <2>2, DepthStep
  <2>9. \A j \in 1 .. i : (Around(j, p) <=> (Around(j, i) /\ Depth(p) >= Depth(j)))
    <3>1. \A j \in 1 .. i : \A k \in j .. p : k \in j .. i \/ k = p
      BY <2>2
    <3>2. \A j \in 1 .. i : p \in j .. p /\ \A k \in j .. i : k \in j .. p
      BY <2>2
    <3>3. QED BY <3>1, <3>2 DEF Around
  <2>10. \A j \in 1 .. p : j \in 1 .. i \/ j = p
    BY <2>2
  <2>11. \A j \in 1 .. i : j \in 1 .. p /\ j < p
    BY <2>2
  <2>12. \A a \in 1 .. Len(s) : /\ s[a] \in 1 .. i /\ Around(s[a], i)
                                /\ Depth(s[a]) = Depth(i) - (Len(s) - a)
    BY <2>6 DEF Stacked
  <2>13. \A j \in 1 .. i : Around(j, i) => \E a \in 1 .. Len(s) : s[a] = j
    BY <2>6 DEF Stacked
  <2>14. CASE doc[p].kind \in Opening
    <3>1. t = Append(s, p)
      BY <2>5, <2>8, <2>14 DEF OpenAt
    <3>2. /\ t \in Seq(Nat) /\ Len(t) = Len(s) + 1 /\ t[Len(s) + 1] = p
          /\ \A a \in 1 .. Len(s) : t[a] = s[a]
      BY <2>2, <2>7, <3>1
    <3>3. Around(p, p)
      BY <2>2, <2>8, <2>14 DEF Around
    <3>4. ASSUME NEW a \in 1 .. Len(t)
          PROVE  t[a] \in 1 .. p /\ Around(t[a], p) /\ Depth(t[a]) = Depth(p) - (Len(t) - a)
      <4>1. CASE a \in 1 .. Len(s)
        <5>1. PICK j : j = s[a]
          OBVIOUS
        <5>2. t[a] = j /\ j \in 1 .. i /\ Around(j, i) /\ Depth(j) = Depth(i) - (Len(s) - a)
          BY <2>12, <3>2, <4>1, <5>1
        <5>3. Depth(p) = Depth(i) + 1 /\ Depth(p) >= Depth(j)
          BY <2>7, <2>8, <2>14, <4>1, <5>2
        <5>4. Depth(j) = Depth(p) - (Len(t) - a)
          BY <2>7, <2>8, <3>2, <4>1, <5>2, <5>3
        <5>5. QED BY <2>9, <2>11, <5>2, <5>3, <5>4
      <4>2. CASE a = Len(s) + 1
        <5>1. t[a] = p /\ Len(t) - a = 0 /\ Depth(p) - 0 = Depth(p)
          BY <2>7, <2>8, <3>2, <4>2
        <5>2. QED BY <2>2, <3>3, <5>1
      <4>3. QED BY <2>7, <3>2, <4>1, <4>2
    <3>5. ASSUME NEW a \in 1 .. Len(t), NEW b \in 1 .. Len(t), a < b PROVE t[a] < t[b]
      <4>1. a \in 1 .. Len(s) /\ (b \in 1 .. Len(s) \/ b = Len(s) + 1)
        BY <2>7, <3>2, <3>5
      <4>2. CASE b \in 1 .. Len(s)
        BY <2>6, <3>2, <3>5, <4>1, <4>2 DEF Stacked
      <4>3. CASE b = Len(s) + 1
        BY <2>11, <2>12, <3>2, <4>1, <4>3
      <4>4. QED BY <4>1, <4>2, <4>3
    <3>6. ASSUME NEW j \in 1 .. p, Around(j, p) PROVE \E a \in 1 .. Len(t) : t[a] = j
      <4>1. CASE j = p
        <5>1. Len(s) + 1 \in 1 .. Len(t)
          BY <2>7, <3>2
        <5>2. QED BY <3>2, <4>1, <5>1
      <4>2. CASE j \in 1 .. i
        <5>1. PICK a \in 1 .. Len(s) : s[a] = j
          BY <2>9, <2>13, <3>6, <4>2
        <5>2. a \in 1 .. Len(t)
          BY <2>7, <3>2
        <5>3. QED BY <3>2, <5>1, <5>2
      <4>3. QED BY <2>10, <4>1, <4>2
    <3>7. QED BY <2>1, <2>4, <3>2, <3>4, <3>5, <3>6 DEF Stacked
  <2>15. CASE doc[p].kind = "end"
    <3>1. t = Front(s)
      BY <2>5, <2>8, <2>15 DEF OpenAt
    <3>2. /\ t \in Seq(Nat)
          /\ s = <<>> => t = <<>>
          /\ s # <<>> => Len(t) = Len(s) - 1 /\ \A a \in 1 .. Len(s) - 1 : t[a] = s[a]
      BY <2>7, <3>1, FrontTyped
    <3>3. \A a \in 1 .. Len(t) : s # <<>> /\ a \in 1 .. Len(s) - 1 /\ a \in 1 .. Len(s) /\ t[a] = s[a]
      BY <2>7, <3>2
    <3>4. ~ Around(p, p)
      BY <2>15 DEF Around, Opening
    <3>5. ASSUME NEW a \in 1 .. Len(t)
          PROVE  t[a] \in 1 .. p /\ Around(t[a], p) /\ Depth(t[a]) = Depth(p) - (Len(t) - a)
      <4>1. PICK j : j = s[a]
        OBVIOUS
      <4>2. t[a] = j /\ j \in 1 .. i /\ Around(j, i) /\ Depth(j) = Depth(i) - (Len(s) - a)
        BY <2>12, <3>3, <4>1
      <4>3. Len(t) = Len(s) - 1 /\ a <= Len(s) - 1 /\ a \in Nat
        BY <2>7, <3>2, <3>3
      <4>4. Depth(p) >= Depth(j) /\ Depth(j) = Depth(p) - (Len(t) - a)
        <5>1. Depth(p) = Depth(i) - 1
          BY <2>8, <2>15
        <5>2. Depth(j) = Depth(i) - (Len(s) - a)
          BY <4>2
        <5>3. Depth(i) \in Int /\ Len(s) \in Nat
          BY <2>7, <2>8
        <5>4. QED BY <4>3, <5>1, <5>2, <5>3
      <4>5. QED BY <2>9, <2>11, <4>2, <4>4
    <3>6. ASSUME NEW a \in 1 .. Len(t), NEW b \in 1 .. Len(t), a < b PROVE t[a] < t[b]
      BY <2>6, <3>3, <3>6 DEF Stacked
    <3>7. ASSUME NEW j \in 1 .. p, Around(j, p) PROVE \E a \in 1 .. Len(t) : t[a] = j
      <4>1. j \in 1 .. i /\ Around(j, i) /\ Depth(p) >= Depth(j)
        BY <2>9, <2>10, <3>4, <3>7
      <4>2. PICK a \in 1 .. Len(s) : s[a] = j
        BY <2>13, <4>1
      <4>3. Depth(j) = Depth(i) - (Len(s) - a) /\ Depth(p) = Depth(i) - 1
        BY <2>8, <2>12, <2>15, <4>2
      <4>4. a <= Len(s) - 1 /\ s # <<>>
        BY <2>7, <2>8, <4>1, <4>3
      <4>5. a \in 1 .. Len(s) - 1 /\ a \in 1 .. Len(t)
        BY <2>7, <3>2, <4>4
      <4>6. QED BY <3>3, <4>2, <4>5
    <3>8. QED BY <2>1, <2>4, <3>2, <3>5, <3>6, <3>7 DEF Stacked
  <2>16. CASE doc[p].kind \notin Opening \cup {"end"}
    <3>1. t = s
      BY <2>5, <2>8, <2>16 DEF OpenAt
    <3>2. ~ Around(p, p) /\ Depth(p) = Depth(i)
      BY <2>8, <2>16 DEF Around
    <3>3. ASSUME NEW a \in 1 .. Len(t)
          PROVE  t[a] \in 1 .. p /\ Around(t[a], p) /\ Depth(t[a]) = Depth(p) - (Len(t) - a)
      <4>1. PICK j : j = s[a]
        OBVIOUS
      <4>2. t[a] = j /\ j \in 1 .. i /\ Around(j, i) /\ Depth(j) = Depth(p) - (Len(t) - a)
        BY <2>12, <3>1, <3>2, <4>1
      <4>3. Depth(p) >= Depth(j)
        BY <2>7, <2>8, <3>1, <4>2
      <4>4. QED BY <2>9, <2>11, <4>2, <4>3
    <3>4. ASSUME NEW a \in 1 .. Len(t), NEW b \in 1 .. Len(t), a < b PROVE t[a] < t[b]
      BY <2>6, <3>1, <3>4 DEF Stacked
    <3>5. ASSUME NEW j \in 1 .. p, Around(j, p) PROVE \E a \in 1 .. Len(t) : t[a] = j
      BY <2>9, <2>10, <2>13, <3>1, <3>2, <3>5
    <3>6. QED BY <2>1, <2>4, <2>7, <3>1, <3>3, <3>4, <3>5 DEF Stacked
  <2>17. QED BY <2>14, <2>15, <2>16
<1>4. ASSUME NEW i \in 0 .. n - 1, i \in T PROVE i + 1 \in T
  <2>1. Stacked(Open[i + 1], i + 1) /\ i + 1 \in 0 .. n
    BY <1>1, <1>3, <1>4
  <2> HIDE DEF n
  <2>2. QED BY <2>1
<1> HIDE DEF T
<1>5. 0 .. n \subseteq T
  BY <1>1, <1>2, <1>4, Ascent
<1>6. QED BY <1>5 DEF T

(* The statements and parts around a token are those on the stack.         *)
OwnerStack(s, i) ==
  /\ s \in Seq(Nat)
  /\ \A j : j \in Owners(i) <=> \E a \in 1 .. Len(s) : s[a] = j
  /\ \A a \in 1 .. Len(s) : s[a] \in 1 .. i - 1
  /\ \A a, b \in 1 .. Len(s) : a < b <=> s[a] < s[b]

LEMMA OwnersAreStacked ==
  ASSUME doc \in Seq(Token), NEW i \in DOMAIN doc, doc[i].kind \notin Opening \cup {"end"}, NEW s, s = Open[i]
  PROVE  OwnerStack(s, i)
<1>1. i \in 1 .. Len(doc) /\ i \in 0 .. Len(doc) /\ Len(doc) \in Nat
  OBVIOUS
<1>2. Stacked(s, i)
  BY <1>1, OpenIsStacked
<1>3. s \in Seq(Nat) /\ Len(s) \in Nat
  BY <1>2 DEF Stacked
<1>4. \A j : j \in Owners(i) <=> j \in 1 .. i /\ Around(j, i)
  <2>1. \A j \in 1 .. i : Around(j, i) => j < i
    BY <1>1 DEF Around
  <2>2. QED BY <2>1 DEF Owners, Encloses, Around
<1>5. \A j : j \in Owners(i) <=> \E a \in 1 .. Len(s) : s[a] = j
  <2>1. \A a \in 1 .. Len(s) : s[a] \in 1 .. i /\ Around(s[a], i)
    BY <1>2 DEF Stacked
  <2>2. \A j \in 1 .. i : Around(j, i) => \E a \in 1 .. Len(s) : s[a] = j
    BY <1>2 DEF Stacked
  <2>3. QED BY <1>4, <2>1, <2>2
<1>6. \A a \in 1 .. Len(s) : s[a] \in 1 .. i - 1
  <2>1. \A j \in Owners(i) : j \in 1 .. i - 1
    BY <1>1 DEF Owners, Encloses
  <2>2. QED BY <1>5, <2>1
<1>7. ASSUME NEW a \in 1 .. Len(s), NEW b \in 1 .. Len(s) PROVE a < b <=> s[a] < s[b]
  <2>1. a < b => s[a] < s[b]
    BY <1>2 DEF Stacked
  <2>2. b < a => s[b] < s[a]
    BY <1>2 DEF Stacked
  <2>3. s[a] \in Nat /\ s[b] \in Nat /\ a \in Nat /\ b \in Nat
    BY <1>3
  <2>4. a = b => s[a] = s[b]
    OBVIOUS
  <2>5. QED BY <2>1, <2>2, <2>3, <2>4
<1>8. QED BY <1>3, <1>5, <1>6, <1>7 DEF OwnerStack

(* The innermost statement around a token is the top of the stack.         *)
LEMMA InnermostIsTop ==
  ASSUME doc \in Seq(Token), NEW i \in DOMAIN doc, doc[i].kind \notin Opening \cup {"end"}
  PROVE  LET s == Open[i]
         IN  /\ s \in Seq(Nat)
             /\ (Owners(i) # {}) <=> (s # <<>>)
             /\ s # <<>> => s[Len(s)] \in 1 .. i - 1 /\ s[Len(s)] \in Owners(i)
             /\ \A j \in DOMAIN doc : Owns(j, i) <=> (s # <<>> /\ j = s[Len(s)])
<1>1. PICK s : s = Open[i]
  OBVIOUS
<1>2. i \in 1 .. Len(doc) /\ i \in 0 .. Len(doc) /\ Len(doc) \in Nat /\ DOMAIN doc = 1 .. Len(doc)
  OBVIOUS
<1>3. Stacked(s, i)
  BY <1>1, <1>2, OpenIsStacked
<1>4. s \in Seq(Nat) /\ Len(s) \in Nat /\ (s # <<>> => Len(s) \in 1 .. Len(s))
  BY <1>3 DEF Stacked
<1>5. \A j : j \in Owners(i) <=> j \in 1 .. i /\ Around(j, i)
  <2>1. \A j \in 1 .. i : Around(j, i) => j < i
    BY <1>2 DEF Around
  <2>2. QED BY <2>1 DEF Owners, Encloses, Around
<1>6. \A j : j \in Owners(i) <=> \E a \in 1 .. Len(s) : s[a] = j
  <2>1. \A a \in 1 .. Len(s) : s[a] \in 1 .. i /\ Around(s[a], i)
    BY <1>3 DEF Stacked
  <2>2. \A j \in 1 .. i : Around(j, i) => \E a \in 1 .. Len(s) : s[a] = j
    BY <1>3 DEF Stacked
  <2>3. QED BY <1>5, <2>1, <2>2
<1>7. CASE s = <<>>
  <2>1. 1 .. Len(s) = {}
    BY <1>7
  <2>2. Owners(i) = {}
    BY <1>6, <2>1
  <2>3. \A j \in DOMAIN doc : ~ Owns(j, i)
    <3>1. \A j \in DOMAIN doc : Encloses(j, i) => j \in Owners(i)
      BY <1>2 DEF Encloses, Owners
    <3>2. QED BY <2>2, <3>1 DEF Owns
  <2>4. QED BY <1>1, <1>4, <1>7, <2>2, <2>3
<1>8. CASE s # <<>>
  <2>1. PICK t : t = s[Len(s)]
    OBVIOUS
  <2>2. t \in Owners(i)
    BY <1>4, <1>6, <1>8, <2>1
  <2>3. t \in 1 .. i - 1
    BY <1>2, <2>2 DEF Owners, Encloses
  <2>4. ASSUME NEW j \in Owners(i) PROVE j <= t /\ j \in Nat
    <3>1. PICK a \in 1 .. Len(s) : s[a] = j
      BY <1>6
    <3>2. a = Len(s) \/ a < Len(s)
      BY <1>4
    <3>3. a < Len(s) => j < t
      BY <1>3, <1>4, <1>8, <2>1, <3>1 DEF Stacked
    <3>4. j \in Nat /\ t \in Nat
      BY <1>4, <2>3, <3>1
    <3>5. QED BY <2>1, <3>1, <3>2, <3>3, <3>4
  <2>5. Owns(t, i)
    BY <2>2, <2>4 DEF Owns, Owners
  <2>6. ASSUME NEW j \in DOMAIN doc, Owns(j, i) PROVE j = t
    <3>1. j \in Owners(i)
      BY <1>2, <2>6 DEF Owns, Encloses, Owners
    <3>2. t <= j
      BY <2>2, <2>6 DEF Owns
    <3>3. j <= t /\ j \in Nat /\ t \in Nat
      BY <2>3, <2>4, <3>1
    <3>4. QED BY <3>2, <3>3
  <2>7. QED BY <1>1, <1>4, <1>8, <2>1, <2>2, <2>3, <2>5, <2>6
<1>9. QED BY <1>7, <1>8

-----------------------------------------------------------------------------
(***************************************************************************)
(* Sites and units.                                                        *)
(***************************************************************************)
Typed == doc \in Seq(Token) /\ lang \in {"go", "rust"} /\ options \in Option

(* The unit a site belongs to.                                             *)
UnitOf(i) == IF lang = "go" THEN Open[i][Len(Open[i])] ELSE i

(* What the tree has of SQL is what the reference finds.                   *)
LEMMA SitesFound ==
  ASSUME Typed
  PROVE  /\ Sites = Expressions \cup Dynamic
         /\ \A i \in Sites : i \in Dynamic <=> doc[i].kind = "dyn"
         /\ \A i \in Expressions : doc[i].kind \in Literal /\ doc[i].text \in SqlText
                                   /\ (lang = "rust" => doc[i].kind # "joined")
<1>1. \A i \in DOMAIN doc : doc[i] \in Token
  BY DEF Typed
<1>2. \A i \in DOMAIN doc : doc[i].kind \notin Opening \cup {"end"} => ((Owners(i) # {}) <=> (Open[i] # <<>>))
  BY InnermostIsTop DEF Typed
<1>3. \A i \in DOMAIN doc : doc[i].kind \in Literal \cup {"dyn"} => doc[i].kind \notin Opening \cup {"end"}
  BY DEF Literal, Opening
<1>4. CASE lang = "go"
  <2>1. ASSUME NEW i \in DOMAIN doc
        PROVE  i \in Sites <=> i \in Expressions \/ i \in Dynamic
    BY <1>2, <1>3, <1>4 DEF Sites, Expressions, Dynamic, Literal
  <2>2. Sites = Expressions \cup Dynamic
    BY <2>1 DEF Sites, Expressions, Dynamic
  <2>3. \A i \in Expressions : i \in DOMAIN doc /\ doc[i].kind \in Literal
    BY <1>4 DEF Expressions
  <2>4. \A i \in Expressions : doc[i].text \in SqlText
    BY <1>1, <2>3 DEF Token, Literal, Opening
  <2>5. \A i \in Dynamic : doc[i].kind = "dyn"
    BY DEF Dynamic
  <2>6. "dyn" \notin Literal
    BY DEF Literal
  <2>7. QED BY <1>4, <2>2, <2>3, <2>4, <2>5, <2>6
<1>5. CASE lang = "rust"
  <2>1. Dynamic = {} /\ Sites = Expressions
    BY <1>5 DEF Sites, Expressions, Dynamic
  <2>2. \A i \in Expressions : i \in DOMAIN doc /\ doc[i].kind \in {"raw", "quoted"}
    BY <1>5 DEF Expressions
  <2>3. \A i \in Expressions : doc[i].text \in SqlText
    BY <1>1, <2>2 DEF Token, Literal, Opening
  <2>4. QED BY <1>5, <2>1, <2>2, <2>3 DEF Literal
<1>6. QED BY <1>4, <1>5 DEF Typed

(* Every site is in one unit, and every unit has a site.                   *)
LEMMA UnitsFound ==
  ASSUME Typed
  PROVE  /\ Units \subseteq DOMAIN doc
         /\ \A i \in Sites : i \in DOMAIN doc /\ UnitOf(i) \in Units
         /\ \A u \in Units : \E i \in Sites : UnitOf(i) = u
         /\ \A u \in Units, i \in Expressions : i \in Within(u, Expressions) <=> UnitOf(i) = u
         /\ \A u \in Units, i \in Dynamic : i \in Within(u, Dynamic) <=> UnitOf(i) = u
<1>1. Units \subseteq DOMAIN doc /\ Sites \subseteq DOMAIN doc
  BY DEF Units, Expressions, Sites
<1>2. Sites = Expressions \cup Dynamic
  BY SitesFound
<1>3. CASE lang = "go"
  <2>1. ASSUME NEW i \in Sites
        PROVE  /\ UnitOf(i) \in DOMAIN doc
               /\ \A u \in DOMAIN doc : Owns(u, i) <=> UnitOf(i) = u
    <3>1. i \in DOMAIN doc /\ doc[i].kind \notin Opening \cup {"end"} /\ Open[i] # <<>>
      BY <1>3 DEF Sites, Literal, Opening
    <3>2. PICK s : s = Open[i]
      OBVIOUS
    <3>3. /\ s[Len(s)] \in 1 .. i - 1
          /\ \A j \in DOMAIN doc : Owns(j, i) <=> (s # <<>> /\ j = s[Len(s)])
      BY <3>1, <3>2, InnermostIsTop DEF Typed
    <3>4. UnitOf(i) = s[Len(s)] /\ s # <<>>
      BY <1>3, <3>1, <3>2 DEF UnitOf
    <3>5. 1 .. i - 1 \subseteq DOMAIN doc
      BY <3>1 DEF Typed
    <3>6. QED BY <3>3, <3>4, <3>5
  <2>2. \A j \in DOMAIN doc : j \in Units <=> \E i \in Sites : Owns(j, i)
    BY <1>2, <1>3 DEF Units
  <2>3. \A u, S : Within(u, S) = {i \in S : Owns(u, i)}
    BY <1>3 DEF Within
  <2>4. QED BY <1>1, <1>2, <2>1, <2>2, <2>3
<1>4. CASE lang = "rust"
  <2>1. Units = Expressions /\ Dynamic = {}
    BY <1>4 DEF Units, Dynamic
  <2>2. \A u, S : Within(u, S) = S \cap {u}
    BY <1>4 DEF Within
  <2>3. \A i : UnitOf(i) = i
    BY <1>4 DEF UnitOf
  <2>4. QED BY <1>1, <1>2, <2>1, <2>2, <2>3
<1>5. QED BY <1>3, <1>4 DEF Typed

(* Climbing from node to node meets the levels of the stack from the       *)
(* innermost statement inwards.                                            *)
ClimbOn(s, i) ==
  UNION {Before(j) : j \in Climbed(i)} = UNION {Above[s[a] - 1] : a \in Inner(doc, s)}

LEMMA ClimbIsInner ==
  ASSUME Typed, NEW i \in DOMAIN doc, doc[i].kind \notin Opening \cup {"end"},
         \A j \in DOMAIN doc : Above[j - 1] = Before(j), NEW s, s = Open[i]
  PROVE  ClimbOn(s, i)
<1>1. /\ s \in Seq(Nat)
      /\ \A j : j \in Owners(i) <=> \E a \in 1 .. Len(s) : s[a] = j
      /\ \A a \in 1 .. Len(s) : s[a] \in 1 .. i - 1
      /\ \A a, b \in 1 .. Len(s) : a < b <=> s[a] < s[b]
  <2>1. doc \in Seq(Token)
    BY DEF Typed
  <2>2. OwnerStack(s, i)
    BY <2>1, OwnersAreStacked
  <2>3. QED BY <2>2 DEF OwnerStack
<1>2. DOMAIN s = 1 .. Len(s)
  BY <1>1
<1>3. \A a \in 1 .. Len(s) : Above[s[a] - 1] = Before(s[a])
  <2>1. 1 .. i - 1 \subseteq DOMAIN doc
    BY DEF Typed
  <2>2. QED BY <1>1, <2>1
<1>4. ASSUME NEW a \in 1 .. Len(s) PROVE s[a] \in Climbed(i) <=> a \in Inner(doc, s)
  <2>1. s[a] \in Owners(i)
    BY <1>1
  <2>2. s[a] \in Climbed(i) <=> \A b \in 1 .. Len(s) : s[a] < s[b] => doc[s[b]].kind = "node"
    <3>1. ASSUME s[a] \in Climbed(i), NEW b \in 1 .. Len(s), s[a] < s[b] PROVE doc[s[b]].kind = "node"
      <4>1. s[b] \in Owners(i)
        BY <1>1
      <4>2. QED BY <3>1, <4>1 DEF Climbed
    <3>2. ASSUME \A b \in 1 .. Len(s) : s[a] < s[b] => doc[s[b]].kind = "node", NEW k \in Owners(i), s[a] < k
          PROVE  doc[k].kind = "node"
      <4>1. PICK b \in 1 .. Len(s) : s[b] = k
        BY <1>1
      <4>2. QED BY <3>2, <4>1
    <3>3. s[a] \in Climbed(i) <=> \A k \in Owners(i) : s[a] < k => doc[k].kind = "node"
      BY <2>1 DEF Climbed
    <3>4. QED BY <3>1, <3>2, <3>3
  <2>3. a \in Inner(doc, s) <=> \A b \in 1 .. Len(s) : a < b => doc[s[b]].kind = "node"
    BY <1>2 DEF Inner
  <2>4. QED BY <1>1, <2>2, <2>3
<1>5. \A j \in Climbed(i) : \E a \in 1 .. Len(s) : s[a] = j
  BY <1>1 DEF Climbed
<1>6. \A a \in Inner(doc, s) : a \in 1 .. Len(s)
  BY <1>2 DEF Inner
<1>7. \A c : (\E j \in Climbed(i) : c \in Before(j)) <=> (\E a \in Inner(doc, s) : c \in Above[s[a] - 1])
  BY <1>3, <1>4, <1>5, <1>6
<1>8. QED BY <1>7 DEF ClimbOn

(* A directive is attached to the unit of a site exactly when it governs   *)
(* the site: the walk back from a unit, and the reading from the top.      *)
LEMMA DirectivesFound ==
  ASSUME Typed, NEW i \in Sites
  PROVE  /\ Attached(UnitOf(i)) = Directives \cap Governing(i)
         /\ \A w \in Directive : Told(i, w) <=> Attached(UnitOf(i)) \cap Says(w) # {}
<1>1. i \in DOMAIN doc /\ doc[i].kind \notin Opening \cup {"end"} /\ DOMAIN doc = 1 .. Len(doc)
  BY DEF Typed, Sites, Literal, Opening
<1>2. PICK s : s = Open[i]
  OBVIOUS
<1>3. /\ (Owners(i) # {}) <=> (s # <<>>)
      /\ s # <<>> => s[Len(s)] \in 1 .. i - 1 /\ s[Len(s)] \in Owners(i)
      /\ \A j \in DOMAIN doc : Owns(j, i) <=> (s # <<>> /\ j = s[Len(s)])
  BY <1>1, <1>2, InnermostIsTop DEF Typed
<1>4. \A j \in DOMAIN doc : Above[j - 1] = Before(j)
  <2>1. \A j \in DOMAIN doc : j - 1 \in 0 .. Len(doc) /\ (j - 1) + 1 = j
    BY <1>1
  <2>2. \A k \in 0 .. Len(doc) : Above[k] = Before(k + 1)
    BY AboveIsBefore DEF Typed
  <2>3. QED BY <2>1, <2>2
<1>5. s # <<>> => s[Len(s)] \in DOMAIN doc
  BY <1>1, <1>3
<1>6. UNION {Before(j) : j \in Climbed(i)} = UNION {Above[s[a] - 1] : a \in Inner(doc, s)}
  <2>1. ClimbOn(s, i)
    BY <1>1, <1>2, <1>4, ClimbIsInner
  <2>2. QED BY <2>1 DEF ClimbOn
<1>7. Attached(UnitOf(i)) = Directives \cap Governing(i)
  <2>1. CASE lang = "go"
    <3>1. s # <<>>
      BY <1>2, <2>1 DEF Sites
    <3>2. UnitOf(i) = s[Len(s)] /\ Governing(i) = Before(s[Len(s)])
      BY <1>2, <1>4, <1>5, <2>1, <3>1 DEF UnitOf, Governing
    <3>3. Attached(UnitOf(i)) = Directives \cap Before(UnitOf(i))
      BY <2>1 DEF Attached
    <3>4. QED BY <3>2, <3>3
  <2>2. CASE lang = "rust"
    <3>1. UnitOf(i) = i /\ Governing(i) = Before(i) \cup UNION {Above[s[a] - 1] : a \in Inner(doc, s)}
      BY <1>1, <1>2, <1>4, <2>2 DEF UnitOf, Governing
    <3>2. Attached(i) = Directives \cap (Before(i) \cup UNION {Before(j) : j \in Climbed(i)})
      BY <2>2 DEF Attached
    <3>3. QED BY <1>6, <3>1, <3>2
  <2>3. QED BY <2>1, <2>2 DEF Typed
<1>8. Governing(i) \subseteq Comments
  <2>1. \A j : Before(j) \subseteq Comments
    BY DEF Before
  <2>2. CASE lang = "go"
    BY <1>2, <1>4, <1>5, <2>1, <2>2 DEF Governing
  <2>3. CASE lang = "rust"
    <3>1. Governing(i) = Before(i) \cup UNION {Before(j) : j \in Climbed(i)}
      BY <1>1, <1>2, <1>4, <1>6, <2>3 DEF Governing
    <3>2. QED BY <2>1, <3>1
  <2>4. QED BY <2>2, <2>3 DEF Typed
<1>9. ASSUME NEW w \in Directive PROVE Told(i, w) <=> Attached(UnitOf(i)) \cap Says(w) # {}
  <2>1. Says(w) \subseteq Directives
    BY DEF Directives
  <2>2. \A c \in Comments : c \in Says(w) <=> doc[c].text = w
    BY DEF Says
  <2>3. QED BY <1>7, <1>8, <2>1, <2>2 DEF Told
<1>10. QED BY <1>7, <1>9

-----------------------------------------------------------------------------
(***************************************************************************)
(* What becomes of one literal.                                            *)
(***************************************************************************)
(* Why a literal of interest is refused.                                   *)
Refused(i) ==
  \/ Told(i, "sql") /\ ~ AllowedKind(i)
  \/ AllowedKind(i) /\ doc[i].text = "bytes" /\ (Told(i, "sql") \/ lang = "rust")

(* The formatter gives text for text.                                      *)
LEMMA TextFormatted ==
  ASSUME NEW policy \in Policy, NEW t \in SqlText
  PROVE  /\ Formatted(policy, t) \in SqlText
         /\ Formatted(policy, t) \in Control <=> t \in Control
         /\ Formatted(policy, t) \in Control => Formatted(policy, t) \notin SeveralLines
BY DEF Formatted, SqlText, Laid, Control, SeveralLines, Opaque, Policy

(* The loop refuses, passes over and formats a literal of interest by its  *)
(* kind, its text and its marker, as the reference says.                   *)
LEMMA LiteralJudged ==
  ASSUME Typed, NEW i \in Expressions, Wanted(i), explicit <=> Told(i, "sql")
  PROVE  /\ Refusal(i) # "none" <=> Refused(i)
         /\ Refusal(i) \in {"none", "disabled", "literal"}
         /\ Refusal(i) = "disabled" => Told(i, "sql") /\ ~ AllowedKind(i)
         /\ Refusal(i) = "literal" =>
              AllowedKind(i) /\ doc[i].text = "bytes" /\ (Told(i, "sql") \/ lang = "rust")
         /\ IsSql(i) => ~ Passed(i)
         /\ ~ Passed(i) => IsSql(i) /\ ~ Refused(i)
<1>1. doc[i].kind \in Literal /\ doc[i].text \in SqlText /\ lang \in {"go", "rust"}
  BY SitesFound DEF Typed
<1>2. options.kinds \in SUBSET {"raw", "quoted"}
  BY DEF Typed, Option
<1>3. Disabled(i) <=> ~ AllowedKind(i)
  BY <1>1, <1>2 DEF Disabled, Parts, AllowedKind, Literal
<1>4. Unreadable(i) <=> doc[i].text = "bytes"
  BY DEF Unreadable
<1>5. doc[i].text # "bytes" => (Skipped(i) <=> doc[i].text \in {"prose", "word"})
  BY <1>1 DEF Skipped, SqlPrefix, ParseFailure, SqlText, Laid
<1>6. Refusal(i) = IF Disabled(i) THEN IF explicit THEN "disabled" ELSE "none"
                   ELSE IF Unreadable(i) THEN IF explicit \/ lang = "rust" THEN "literal" ELSE "none"
                   ELSE "none"
  BY DEF Refusal
<1>7. Passed(i) <=> Disabled(i) \/ Unreadable(i) \/ (~ explicit /\ Skipped(i))
  BY DEF Passed
<1>8. Refused(i) <=> \/ explicit /\ Disabled(i)
                     \/ ~ Disabled(i) /\ Unreadable(i) /\ (explicit \/ lang = "rust")
  BY <1>3, <1>4 DEF Refused
<1>9. IsSql(i) <=> ~ Disabled(i) /\ ~ Unreadable(i) /\ (explicit \/ ~ Skipped(i))
  BY <1>3, <1>4, <1>5 DEF IsSql
<1>10. QED BY <1>3, <1>4, <1>6, <1>7, <1>8, <1>9

(* A literal is rewritten exactly when it is SQL whose formatting succeeds *)
(* and changes it.                                                         *)
LEMMA RewritingJudged ==
  ASSUME Typed, NEW i \in Expressions, IsSql(i), ~ FileIgnored
  PROVE  Rewritten(i) <=> ~ Fails(doc[i].text) /\ ~ Unchanged(i)
<1>1. lang = "rust" => doc[i].kind # "joined"
  BY SitesFound
<1>2. QED BY <1>1 DEF Typed, Rewritten, Differs, Unchanged

(* What is spliced in for a literal; only Go's escapes of control          *)
(* characters fail to read back.                                           *)
LEMMA RenderingJudged ==
  ASSUME Typed, NEW i \in Expressions
  PROVE  /\ ReadsBack(i) <=> ~ (lang = "go" /\ doc[i].kind # "raw" /\ doc[i].text \in {"ctrl", "bell"})
         /\ Rendered(i).first = i /\ Rendered(i).last \in {i, i + 1} \cap DOMAIN doc
         /\ ReadsBack(i) => Rendered(i) \in Replacement
         /\ ReadsBack(i) /\ Rewritten(i) => Becomes(i) = Rendered(i).text
<1>1. i \in DOMAIN doc /\ DOMAIN doc = 1 .. Len(doc) /\ Len(doc) \in Nat
  BY DEF Typed, Expressions
<1>2. doc[i].kind \in Literal /\ doc[i].text \in SqlText /\ lang \in {"go", "rust"}
  BY SitesFound DEF Typed
<1>3. options.policy \in Policy
  BY DEF Typed, Option
<1>4. PICK t : t = Formatted(options.policy, doc[i].text)
  OBVIOUS
<1>5. /\ t \in SqlText
      /\ t \in Control <=> doc[i].text \in {"ctrl", "bell"}
      /\ t \in Control => t \notin SeveralLines
  BY <1>2, <1>3, <1>4, TextFormatted DEF Control
<1>6. NewKind(i) = IF lang = "go" THEN GoKind(options.style, doc[i].kind, t)
                                  ELSE RustKind(options.style, doc[i].kind, t)
  BY <1>4 DEF NewKind
<1>7. NewKind(i) \in {"raw", "quoted"}
  BY <1>6 DEF GoKind, RustKind
<1>8. NewText(i) = IF lang = "go" THEN GoEncoded(NewKind(i), t) ELSE t
  BY <1>4 DEF NewText
<1>9. ReadsBack(i) <=> NewText(i) = t
  BY <1>4 DEF ReadsBack
<1>10. "bytes" \notin Control
  BY DEF Control
<1>11. lang = "go" /\ t \in Control => (NewKind(i) = "raw" <=> doc[i].kind = "raw")
  BY <1>5, <1>6 DEF GoKind, PrefersRaw
<1>12. ReadsBack(i) <=> ~ (lang = "go" /\ doc[i].kind # "raw" /\ doc[i].text \in {"ctrl", "bell"})
  BY <1>2, <1>5, <1>7, <1>8, <1>9, <1>10, <1>11 DEF GoEncoded
<1>13. Rendered(i) = [first |-> i, last |-> LastToken(i), text |-> Spelled(NewKind(i), NewText(i))]
  BY DEF Rendered
<1>14. LastToken(i) \in {i, i + 1} \cap DOMAIN doc /\ i \in Nat /\ LastToken(i) \in Nat
  BY <1>1 DEF LastToken
<1>15. Spelled(NewKind(i), t) \in Seq(Token)
  <2>1. Tok(NewKind(i), t) \in Token /\ Tok("raw", t) \in Token /\ Mark("tail") \in Token
    BY <1>5, <1>7 DEF Tok, Mark, Token, Literal
  <2>2. QED BY <2>1 DEF Spelled
<1>16. ASSUME ReadsBack(i) PROVE Rendered(i) \in Replacement
  BY <1>9, <1>13, <1>14, <1>15, <1>16 DEF Replacement
<1>17. ASSUME ReadsBack(i), Rewritten(i) PROVE Becomes(i) = Rendered(i).text
  <2>1. doc[i].kind # "tail"
    BY <1>2 DEF Literal
  <2>2. Becomes(i) = Spelled(NewKind(i), t)
    BY <1>4, <1>6, <1>17, <2>1 DEF Becomes
  <2>3. QED BY <1>9, <1>13, <1>17, <2>2
<1>18. QED BY <1>12, <1>13, <1>14, <1>16, <1>17

(* Where a finding about a literal points, and what it says.               *)
LEMMA FindingsLocated ==
  ASSUME Typed, NEW i \in Expressions, NEW d \in LiteralFindings(i)
  PROVE  /\ d \in Diagnostic
         /\ d.first = i /\ d.last = LastToken(i)
         /\ d.rule = "failure" <=> doc[i].text \in {"word", "prose", "fails"}
         /\ options.policy = "error" /\ d.rule # "style" => d.severity = "error"
<1>1. i \in Nat /\ LastToken(i) \in Nat
  BY DEF Typed, Expressions, LastToken
<1>2. PICK j : j = LastToken(i)
  OBVIOUS
<1>3. PICK t : t = doc[i].text
  OBVIOUS
<1>4. PICK p \in Policy : p = options.policy
  BY DEF Typed, Option
<1>5. CASE Fails(t)
  <2>1. d = Finding("failure", "error", FALSE, i, j)
    BY <1>2, <1>3, <1>5 DEF LiteralFindings
  <2>2. t \in {"word", "prose", "fails"}
    BY <1>5 DEF Fails, ParseFailure
  <2>3. QED BY <1>1, <1>2, <1>3, <2>1, <2>2 DEF Finding, Diagnostic, Rule
<1>6. CASE ~ Fails(t)
  <2>1. d \in FindingsOf(p, t, i, j)
    BY <1>2, <1>3, <1>4, <1>6 DEF LiteralFindings
  <2>2. \/ d = Finding("style", "error", TRUE, i, j)
        \/ d = Finding("unsupported", Severity(p), FALSE, i, j)
    BY <2>1 DEF FindingsOf
  <2>3. Severity(p) \in {"warning", "error"} /\ (p = "error" => Severity(p) = "error")
    BY DEF Severity
  <2>4. t \notin {"word", "prose", "fails"}
    BY <1>6 DEF Fails, ParseFailure
  <2>5. CASE d = Finding("style", "error", TRUE, i, j)
    BY <1>1, <1>2, <1>3, <2>4, <2>5 DEF Finding, Diagnostic, Rule
  <2>6. CASE d = Finding("unsupported", Severity(p), FALSE, i, j)
    <3>1. PICK s : s = Severity(p)
      OBVIOUS
    <3>2. d = [rule |-> "unsupported", severity |-> s, fix |-> FALSE, first |-> i, last |-> j]
      BY <2>6, <3>1 DEF Finding
    <3>3. d \in Diagnostic
      BY <1>1, <1>2, <2>3, <3>1, <3>2 DEF Diagnostic, Rule
    <3>4. QED BY <1>2, <1>3, <1>4, <2>3, <2>4, <3>1, <3>2, <3>3
  <2>7. QED BY <2>2, <2>5, <2>6
<1>7. QED BY <1>5, <1>6

(* A literal that cannot become formatted SQL has a finding that says so.  *)
LEMMA OpaqueReported ==
  ASSUME Typed, NEW i \in Expressions, doc[i].text \in Opaque \/ Fails(doc[i].text)
  PROVE  \E d \in LiteralFindings(i) : d.first = i /\ d.rule # "style" /\ ~ d.fix
<1>1. CASE Fails(doc[i].text)
  <2> DEFINE d == Finding("failure", "error", FALSE, i, LastToken(i))
  <2>1. d \in LiteralFindings(i)
    BY <1>1 DEF LiteralFindings
  <2>2. d.first = i /\ d.rule # "style" /\ ~ d.fix
    BY DEF Finding
  <2>3. QED BY <2>1, <2>2
<1>2. CASE ~ Fails(doc[i].text)
  <2> DEFINE d == Finding("unsupported", Severity(options.policy), FALSE, i, LastToken(i))
  <2>1. d \in FindingsOf(options.policy, doc[i].text, i, LastToken(i))
    BY <1>2 DEF FindingsOf
  <2>2. d \in LiteralFindings(i)
    BY <1>2, <2>1 DEF LiteralFindings
  <2>3. d.first = i /\ d.rule # "style" /\ ~ d.fix
    BY DEF Finding
  <2>4. QED BY <2>2, <2>3
<1>3. QED BY <1>1, <1>2

(* The finding about a marked expression that is no literal.               *)
LEMMA DynamicLocated ==
  ASSUME Typed, NEW i \in Dynamic
  PROVE  LET d == UnsupportedHost(i)
         IN  /\ d \in Diagnostic
             /\ d.first = i /\ d.last = i /\ d.rule = "unsupported" /\ ~ d.fix
             /\ options.policy = "error" => d.severity = "error"
             /\ doc[i].kind = "dyn" /\ doc[i].text = "-"
<1>1. i \in DOMAIN doc /\ i \in Nat /\ doc[i].kind = "dyn"
  BY DEF Typed, Dynamic
<1>2. doc[i].text = "-"
  BY <1>1 DEF Typed, Token, Literal
<1>3. options.policy \in Policy
  BY DEF Typed, Option
<1>4. QED BY <1>1, <1>2, <1>3 DEF UnsupportedHost, Finding, Severity, Diagnostic, Rule, Policy

-----------------------------------------------------------------------------
(***************************************************************************)
(* The text every token has become, up to a token.                         *)
(***************************************************************************)
Growth == [i \in 1 .. Len(doc) |-> [s \in Seq(Token) |-> s \o Becomes(i)]]
Prefix == CHOOSE f : Solves(f, Len(doc), Seq(Token), <<>>, Growth)

(* Every token becomes tokens.                                             *)
LEMMA BecomesTokens ==
  ASSUME Typed
  PROVE  \A i \in DOMAIN doc : Becomes(i) \in Seq(Token)
<1> SUFFICES ASSUME NEW i \in DOMAIN doc PROVE Becomes(i) \in Seq(Token)
  OBVIOUS
<1>1. doc[i] \in Token
  BY DEF Typed
<1>2. CASE Rewritten(i)
  <2>1. i \in Expressions
    BY <1>2, SitesFound DEF Rewritten, IsSql, Wanted
  <2>2. doc[i].kind \in Literal /\ doc[i].text \in SqlText /\ options.policy \in Policy
    BY <2>1, SitesFound DEF Typed, Option
  <2>3. PICK t : t = Formatted(options.policy, doc[i].text)
    OBVIOUS
  <2>4. PICK kind : kind = IF lang = "go" THEN GoKind(options.style, doc[i].kind, t)
                                          ELSE RustKind(options.style, doc[i].kind, t)
    OBVIOUS
  <2>5. t \in SqlText /\ kind \in {"raw", "quoted"}
    BY <2>2, <2>3, <2>4, TextFormatted DEF GoKind, RustKind
  <2>6. Becomes(i) = Spelled(kind, t)
    BY <1>2, <2>2, <2>3, <2>4 DEF Becomes, Literal
  <2>7. Tok(kind, t) \in Token /\ Tok("raw", t) \in Token /\ Mark("tail") \in Token
    BY <2>5 DEF Tok, Mark, Token, Literal
  <2>8. QED BY <2>6, <2>7 DEF Spelled
<1>3. CASE ~ Rewritten(i)
  BY <1>1, <1>3 DEF Becomes
<1>4. QED BY <1>2, <1>3

(* The text grows token by token.                                          *)
LEMMA PrefixGrows ==
  ASSUME Typed
  PROVE  /\ Prefix \in [0 .. Len(doc) -> Seq(Token)] /\ Prefix[0] = <<>>
         /\ \A i \in 1 .. Len(doc) : Prefix[i] = Prefix[i - 1] \o Becomes(i)
<1> DEFINE n == Len(doc)
<1>1. n \in Nat /\ DOMAIN doc = 1 .. n
  BY DEF Typed
<1>2. \A i \in 1 .. n, s \in Seq(Token) : s \o Becomes(i) \in Seq(Token)
  BY <1>1, BecomesTokens
<1>3. Recursion(n, Seq(Token), <<>>, Growth)
  <2>1. Growth = [i \in 1 .. n |-> [s \in Seq(Token) |-> s \o Becomes(i)]]
    BY DEF Growth
  <2> HIDE DEF n
  <2>2. QED BY <1>1, <1>2, <2>1 DEF Recursion
<1>4. \E f : Solves(f, n, Seq(Token), <<>>, Growth)
  BY <1>3, RecursionExists
<1>5. Solves(Prefix, n, Seq(Token), <<>>, Growth)
  BY <1>4 DEF Prefix
<1>6. Prefix \in [0 .. n -> Seq(Token)] /\ Prefix[0] = <<>>
  BY <1>5 DEF Solves
<1>7. \A i \in 1 .. n : Prefix[i] = Growth[i][Prefix[i - 1]]
  BY <1>5 DEF Solves
<1>8. \A i \in 1 .. n : Prefix[i] = Prefix[i - 1] \o Becomes(i)
  <2>1. \A i \in 1 .. n : i - 1 \in 0 .. n
    BY <1>1
  <2>2. QED BY <1>6, <1>7, <2>1 DEF Growth
<1>9. QED BY <1>6, <1>8

(* What all tokens have become is the text that TokenByToken asks for.     *)
LEMMA PrefixIsWhole ==
  ASSUME Typed
  PROVE  AllFormatted <=> output = Prefix[Len(doc)]
<1> DEFINE n == Len(doc)
           seqs == [i \in DOMAIN doc |-> Becomes(i)]
<1>1. n \in Nat /\ DOMAIN doc = 1 .. n
  BY DEF Typed
<1>2. seqs \in Seq(Seq(Token)) /\ Len(seqs) = n
  BY <1>1, BecomesTokens
<1>3. \A i \in 1 .. n : seqs[i] = Becomes(i)
  BY <1>1
<1>4. AllFormatted <=> output = FlattenSeq(seqs)
  BY DEF AllFormatted
<1> HIDE DEF n, seqs
<1>5. CASE n = 0
  <2>1. FlattenSeq(seqs) = seqs
    BY <1>2, <1>5 DEF FlattenSeq
  <2>2. seqs = <<>>
    BY <1>2, <1>5
  <2>3. Prefix[0] = <<>>
    BY PrefixGrows
  <2>4. QED BY <1>4, <1>5, <2>1, <2>2, <2>3 DEF n
<1>6. CASE n # 0
  <2> DEFINE R(f) == f = [i \in 1 .. Len(seqs) |-> IF i = 1 THEN seqs[i] ELSE f[i - 1] \o seqs[i]]
             flatten == CHOOSE f : R(f)
             g == [i \in 1 .. n |-> Prefix[i]]
  <2>1. FlattenSeq(seqs) = flatten[Len(seqs)]
    BY <1>2, <1>6 DEF FlattenSeq
  <2>2. /\ \A i \in 1 .. n : Prefix[i] = Prefix[i - 1] \o seqs[i]
        /\ Prefix[0] = <<>> /\ \A i \in 1 .. n : seqs[i] \in Seq(Token)
    BY <1>1, <1>3, PrefixGrows, BecomesTokens DEF n
  <2>3. \A i \in 1 .. n : g[i] = IF i = 1 THEN seqs[i] ELSE g[i - 1] \o seqs[i]
    <3>1. 1 \in 1 .. n /\ 1 - 1 = 0
      BY <1>1, <1>6
    <3>2. Prefix[1] = <<>> \o seqs[1] /\ seqs[1] \in Seq(Token)
      <4>1. Prefix[1] = Prefix[1 - 1] \o seqs[1]
        BY <2>2, <3>1
      <4>2. QED BY <2>2, <3>1, <4>1
    <3>3. <<>> \o seqs[1] = seqs[1]
      BY <3>2, ConcatEmptySeq
    <3>4. \A i \in 1 .. n : i # 1 => i - 1 \in 1 .. n
      BY <1>1
    <3>5. QED BY <2>2, <3>2, <3>3, <3>4
  <2>4. R(g)
    <3> HIDE DEF g
    <3>1. g = [i \in 1 .. n |-> g[i]]
      BY DEF g
    <3>2. QED BY <1>2, <2>3, <3>1
  <2> HIDE DEF R
  <2>5. R(flatten)
    BY <2>4
  <2> HIDE DEF flatten, g
  <2>6. \A i \in 1 .. n : flatten[i] = IF i = 1 THEN seqs[i] ELSE flatten[i - 1] \o seqs[i]
    BY <1>2, <2>5 DEF R
  <2> DEFINE T == {i \in 0 .. n : i = 0 \/ flatten[i] = g[i]}
  <2>7. 0 \in T
    BY <1>1
  <2>8. ASSUME NEW i \in 0 .. n - 1, i \in T PROVE i + 1 \in T
    <3>1. i + 1 \in 1 .. n /\ i + 1 \in 0 .. n /\ (i + 1) - 1 = i /\ (i + 1 = 1 <=> i = 0)
      BY <1>1
    <3>2. flatten[i + 1] = g[i + 1]
      BY <2>3, <2>6, <2>8, <3>1
    <3>3. QED BY <3>1, <3>2
  <2> HIDE DEF T
  <2>9. n \in T
    <3>1. 0 .. n \subseteq T
      BY <1>1, <2>7, <2>8, Ascent
    <3>2. QED BY <1>1, <3>1
  <2>10. flatten[n] = Prefix[n] /\ Len(seqs) = n
    BY <1>1, <1>2, <1>6, <2>9 DEF T, g
  <2>11. QED BY <1>4, <2>1, <2>10 DEF n
<1>7. QED BY <1>5, <1>6

(* Tokens that stay as they are add themselves.                            *)
LEMMA PrefixUnchanged ==
  ASSUME Typed, NEW a \in 0 .. Len(doc), NEW b \in a .. Len(doc),
         \A j \in a + 1 .. b : Becomes(j) = <<doc[j]>>
  PROVE  Prefix[b] = Prefix[a] \o SubSeq(doc, a + 1, b)
<1> DEFINE n == b - a
           T == {m \in 0 .. n : Prefix[a + m] = Prefix[a] \o SubSeq(doc, a + 1, a + m)}
<1>1. n \in Nat /\ a \in Nat /\ b \in Nat /\ Len(doc) \in Nat /\ b <= Len(doc) /\ a + n = b
  BY DEF Typed
<1>2. doc \in Seq(Token) /\ Prefix[a] \in Seq(Token)
  BY PrefixGrows DEF Typed
<1> HIDE DEF n
<1>3. 0 \in T
  <2>1. a + 0 = a /\ a < a + 1 /\ a \in Int /\ a + 1 \in Int /\ 0 \in 0 .. n
    BY <1>1
  <2>2. SubSeq(doc, a + 1, a) = <<>>
    BY <2>1, SubSeqEmpty
  <2>3. Prefix[a] \o <<>> = Prefix[a]
    BY <1>2, ConcatEmptySeq
  <2>4. QED BY <2>1, <2>2, <2>3
<1>4. ASSUME NEW m \in 0 .. n - 1, m \in T PROVE m + 1 \in T
  <2>1. PICK k : k = a + m
    OBVIOUS
  <2>2. PICK p : p = a + (m + 1)
    OBVIOUS
  <2>3. /\ p = k + 1 /\ p - 1 = k /\ p \in 1 .. Len(doc) /\ p \in a + 1 .. b /\ p \in (a + 1) .. Len(doc)
        /\ a + 1 \in 1 .. Len(doc) /\ m + 1 \in 0 .. n /\ k \in 0 .. Len(doc) /\ \A i \in a + 1 .. k : i \in 1 .. Len(doc)
        /\ k \in Int /\ a + 1 \in Int
    BY <1>1, <2>1, <2>2
  <2>4. Prefix[p] = Prefix[k] \o <<doc[p]>>
    BY <2>3, PrefixGrows
  <2>5. SubSeq(doc, a + 1, p) = SubSeq(doc, a + 1, k) \o <<doc[p]>>
    <3>1. SubSeq(doc, a + 1, p) = SubSeq(doc, a + 1, p - 1) \o <<doc[p]>>
      BY <1>2, <2>3, SubSeqRecursiveSecond
    <3>2. QED BY <2>3, <3>1
  <2>6. Prefix[k] = Prefix[a] \o SubSeq(doc, a + 1, k)
    BY <1>4, <2>1
  <2>7. SubSeq(doc, a + 1, k) \in Seq(Token) /\ <<doc[p]>> \in Seq(Token)
    <3>1. \A i \in a + 1 .. k : doc[i] \in Token
      BY <1>2, <2>3
    <3>2. SubSeq(doc, a + 1, k) \in Seq(Token)
      BY <2>3, <3>1, SubSeqProperties
    <3>3. doc[p] \in Token
      BY <1>2, <2>3
    <3>4. QED BY <3>2, <3>3
  <2>8. (Prefix[a] \o SubSeq(doc, a + 1, k)) \o <<doc[p]>> = Prefix[a] \o (SubSeq(doc, a + 1, k) \o <<doc[p]>>)
    <3>1. \A s, t, u \in Seq(Token) : (s \o t) \o u = s \o (t \o u)
      BY ConcatAssociative
    <3>2. QED BY <1>2, <2>7, <3>1
  <2>9. Prefix[p] = Prefix[a] \o SubSeq(doc, a + 1, p)
    BY <2>4, <2>5, <2>6, <2>8
  <2>10. QED BY <2>2, <2>3, <2>9
<1> HIDE DEF T
<1>5. n \in T
  <2>1. 0 .. n \subseteq T
    BY <1>1, <1>3, <1>4, Ascent
  <2>2. QED BY <1>1, <2>1
<1>6. QED BY <1>1, <1>5 DEF T

(* A text in which nothing becomes something else stays as it is.          *)
LEMMA NothingWritten ==
  ASSUME Typed, \A i \in DOMAIN doc : Becomes(i) = <<doc[i]>>
  PROVE  Prefix[Len(doc)] = doc
<1>1. PICK n \in Nat : n = Len(doc)
  BY DEF Typed
<1>2. DOMAIN doc = 1 .. n /\ doc \in Seq(Token)
  BY <1>1 DEF Typed
<1>3. 0 \in 0 .. n /\ n \in 0 .. n /\ \A i \in 0 + 1 .. n : Becomes(i) = <<doc[i]>>
  BY <1>2
<1>4. Prefix[n] = Prefix[0] \o SubSeq(doc, 0 + 1, n)
  BY <1>1, <1>3, PrefixUnchanged
<1>5. Prefix[0] = <<>>
  BY PrefixGrows
<1>6. SubSeq(doc, 0 + 1, n) = doc
  BY <1>1, <1>2
<1>7. <<>> \o doc = doc
  BY <1>2, ConcatEmptySeq
<1>8. QED BY <1>1, <1>4, <1>5, <1>6, <1>7

(* Concatenation, as an operator the provers leave alone.                  *)
Join(s, t) == s \o t

(* A cut of a text: its length and its tokens.                             *)
LEMMA CutOut ==
  ASSUME NEW S, NEW s \in Seq(S), NEW a \in Nat, NEW b \in Nat, a <= b, b <= Len(s)
  PROVE  /\ SubSeq(s, a + 1, b) \in Seq(S)
         /\ Len(SubSeq(s, a + 1, b)) = b - a
         /\ \A i \in 1 .. b - a : SubSeq(s, a + 1, b)[i] = s[a + 1 + i - 1]
<1>1. a + 1 \in Int /\ b \in Int
  OBVIOUS
<1>2. \A i \in a + 1 .. b : s[i] \in S
  OBVIOUS
<1>3. b - (a + 1) + 1 = b - a
  OBVIOUS
<1>4. a + 1 <= b \/ (~(a + 1 <= b) /\ b - a = 0)
  OBVIOUS
<1>5. /\ SubSeq(s, a + 1, b) \in Seq(S)
      /\ Len(SubSeq(s, a + 1, b)) = IF a + 1 <= b THEN b - (a + 1) + 1 ELSE 0
      /\ \A i \in 1 .. b - (a + 1) + 1 : SubSeq(s, a + 1, b)[i] = s[a + 1 + i - 1]
  BY <1>1, <1>2, SubSeqProperties
<1>6. QED BY ONLY <1>3, <1>4, <1>5, Zenon

(* What lies on both sides of a cut through the first part of a text.      *)
LEMMA CutInTwo ==
  ASSUME NEW S, NEW d \in Seq(S), NEW t \in Seq(S), NEW p \in 0 .. Len(d), NEW a \in 0 .. p
  PROVE  LET s == Join(SubSeq(d, 1, p), t)
         IN  /\ s \in Seq(S)
             /\ SubSeq(s, 1, a) = SubSeq(d, 1, a)
             /\ SubSeq(s, a + 1, Len(s)) = Join(SubSeq(d, a + 1, p), t)
<1>1. PICK h : h = SubSeq(d, 1, p)
  OBVIOUS
<1>2. PICK s : s = h \o t
  OBVIOUS
<1>3. PICK m : m = Len(t)
  OBVIOUS
<1>4. p \in Nat /\ a \in Nat /\ a <= p /\ p <= Len(d) /\ Len(d) \in Nat /\ m \in Nat
  BY <1>3
<1>5. \A i \in 1 .. p : d[i] \in S
  BY <1>4
<1>6. h \in Seq(S) /\ Len(h) = p /\ \A i \in 1 .. p : h[i] = d[i]
  <2>1. \A i \in 1 .. p : 1 + i - 1 = i
    BY <1>4
  <2>2. p - 1 + 1 = p /\ 1 \in Int /\ p \in Int /\ (1 <= p \/ p = 0)
    BY <1>4
  <2>3. /\ SubSeq(d, 1, p) \in Seq(S) /\ Len(SubSeq(d, 1, p)) = IF 1 <= p THEN p - 1 + 1 ELSE 0
        /\ \A i \in 1 .. p - 1 + 1 : SubSeq(d, 1, p)[i] = d[1 + i - 1]
    BY <1>5, <2>2, SubSeqProperties
  <2>4. QED BY <1>1, <1>4, <2>1, <2>2, <2>3
<1>7. /\ s \in Seq(S) /\ Len(s) = p + m
      /\ \A i \in 1 .. p + m : s[i] = IF i <= p THEN d[i] ELSE t[i - p]
  <2>1. /\ h \o t \in Seq(S) /\ Len(h \o t) = Len(h) + Len(t)
        /\ \A i \in 1 .. Len(h) + Len(t) : (h \o t)[i] = IF i <= Len(h) THEN h[i] ELSE t[i - Len(h)]
    BY <1>6, ConcatProperties
  <2>2. \A i \in 1 .. p + m : i <= p => i \in 1 .. p
    BY <1>4
  <2>3. QED BY <1>2, <1>3, <1>6, <2>1, <2>2
<1>8. SubSeq(s, 1, a) = SubSeq(d, 1, a)
  <2>1. \A i \in 1 .. a : s[i] = d[i] /\ d[i] \in S /\ s[i] \in S
    BY <1>4, <1>5, <1>7
  <2>2. a - 1 + 1 = a /\ 1 \in Int /\ a \in Int
    BY <1>4
  <2>3. PICK u : u = SubSeq(s, 1, a)
    OBVIOUS
  <2>4. PICK v : v = SubSeq(d, 1, a)
    OBVIOUS
  <2>5. u \in Seq(S) /\ Len(u) = (IF 1 <= a THEN a ELSE 0) /\ \A i \in 1 .. a : u[i] = s[1 + i - 1]
    BY <2>1, <2>2, <2>3, SubSeqProperties
  <2>6. v \in Seq(S) /\ Len(v) = (IF 1 <= a THEN a ELSE 0) /\ \A i \in 1 .. a : v[i] = d[1 + i - 1]
    BY <2>1, <2>2, <2>4, SubSeqProperties
  <2>7. Len(u) = a /\ Len(v) = a /\ \A i \in 1 .. a : 1 + i - 1 = i
    BY <1>4, <2>5, <2>6
  <2>8. \A i \in 1 .. Len(u) : u[i] = v[i]
    BY <2>1, <2>5, <2>6, <2>7
  <2>9. u = v
    BY <2>5, <2>6, <2>7, <2>8, SeqEqual
  <2>10. QED BY <2>3, <2>4, <2>9
<1>9. SubSeq(s, a + 1, Len(s)) = SubSeq(d, a + 1, p) \o t
  <2>1. PICK u : u = SubSeq(s, a + 1, p + m)
    OBVIOUS
  <2>2. PICK v : v = SubSeq(d, a + 1, p)
    OBVIOUS
  <2>3. PICK w : w = v \o t
    OBVIOUS
  <2>4. p + m \in Nat /\ a <= p + m
    BY <1>4
  <2>5. /\ u \in Seq(S) /\ Len(u) = p + m - a
        /\ \A i \in 1 .. p + m - a : u[i] = s[a + 1 + i - 1]
    BY <1>4, <1>7, <2>1, <2>4, CutOut
  <2>6. /\ v \in Seq(S) /\ Len(v) = p - a
        /\ \A i \in 1 .. p - a : v[i] = d[a + 1 + i - 1]
    BY <1>4, <2>2, CutOut
  <2>7. Len(u) = p + m - a /\ Len(v) = p - a
    BY <2>5, <2>6
  <2>8. /\ w \in Seq(S) /\ Len(w) = Len(v) + m
        /\ \A i \in 1 .. Len(v) + m : w[i] = IF i <= Len(v) THEN v[i] ELSE t[i - Len(v)]
    BY <1>3, <2>3, <2>6, ConcatProperties
  <2>9. ASSUME NEW i \in 1 .. p + m - a PROVE u[i] = w[i]
    <3>1. PICK k : k = a + i
      OBVIOUS
    <3>2. a + 1 + i - 1 = k /\ k \in 1 .. p + m /\ (i <= p - a <=> k <= p) /\ i - (p - a) = k - p
          /\ i \in 1 .. (p - a) + m /\ (i <= p - a => i \in 1 .. p - a)
      BY <1>4, <3>1
    <3>3. u[i] = s[k]
      BY <2>5, <3>2
    <3>4. w[i] = IF i <= p - a THEN v[i] ELSE t[i - (p - a)]
      BY <2>7, <2>8, <3>2
    <3>5. i <= p - a => v[i] = d[k]
      BY <2>6, <3>2
    <3>6. QED BY <1>7, <3>2, <3>3, <3>4, <3>5
  <2>10. Len(w) = p + m - a
    BY <1>4, <2>7, <2>8
  <2>11. u = w
    BY <2>5, <2>7, <2>8, <2>9, <2>10, SeqEqual
  <2>12. QED BY <1>7, <2>1, <2>2, <2>3, <2>11
<1>10. QED BY <1>1, <1>2, <1>7, <1>8, <1>9 DEF Join

(* The text while replacements are put in place: up to p it is the source, *)
(* behind p what the source has become, and the replacements still to be   *)
(* put in place are those of the literals up to p.                         *)
PutInPlace(text, S) ==
  \E p \in 0 .. Len(doc), rest \in Seq(Token) :
    /\ text = SubSeq(doc, 1, p) \o rest
    /\ Prefix[Len(doc)] = Prefix[p] \o rest
    /\ \A k \in S : replacements[k].last <= p
    /\ \A i \in Expressions : Rewritten(i) /\ i <= p => \E k \in S : replacements[k] = Rendered(i)

(* The replacements are those of the literals that are rewritten.          *)
Matched ==
  /\ replacements \in Seq(Replacement)
  /\ \A k \in DOMAIN replacements : \E i \in Expressions :
       Rewritten(i) /\ ReadsBack(i) /\ replacements[k] = Rendered(i)
  /\ \A k, l \in DOMAIN replacements : replacements[k].first = replacements[l].first => k = l

(* Before the first replacement the text is the source, and all            *)
(* replacements are still to be put in place.                              *)
LEMMA PlacingStarts ==
  ASSUME Typed, Matched,
         \A i \in Expressions : Rewritten(i) => \E k \in DOMAIN replacements : replacements[k] = Rendered(i)
  PROVE  PutInPlace(doc, DOMAIN replacements)
<1>1. Len(doc) \in 0 .. Len(doc) /\ doc \in Seq(Token) /\ <<>> \in Seq(Token) /\ DOMAIN doc = 1 .. Len(doc)
  BY DEF Typed
<1>2. doc = SubSeq(doc, 1, Len(doc)) \o <<>>
  BY <1>1, SubSeqFull, ConcatEmptySeq
<1>3. Prefix[Len(doc)] = Prefix[Len(doc)] \o <<>>
  <2>1. Prefix[Len(doc)] \in Seq(Token)
    BY <1>1, PrefixGrows
  <2>2. QED BY <2>1, ConcatEmptySeq
<1>4. \A k \in DOMAIN replacements : replacements[k].last <= Len(doc)
  <2>1. \A i \in Expressions : Rendered(i).last \in DOMAIN doc
    BY RenderingJudged
  <2>2. QED BY <1>1, <2>1 DEF Matched
<1>5. QED BY <1>1, <1>2, <1>3, <1>4 DEF PutInPlace

(* With none left, the text is what every token has become.                *)
LEMMA PlacingEnds ==
  ASSUME Typed, NEW text, PutInPlace(text, {})
  PROVE  text = Prefix[Len(doc)]
<1>1. PICK p \in 0 .. Len(doc), rest \in Seq(Token) :
        /\ text = SubSeq(doc, 1, p) \o rest
        /\ Prefix[Len(doc)] = Prefix[p] \o rest
        /\ \A i \in Expressions : ~ (Rewritten(i) /\ i <= p)
  BY DEF PutInPlace
<1>2. Len(doc) \in Nat /\ doc \in Seq(Token) /\ 0 \in 0 .. Len(doc) /\ p \in 0 .. Len(doc) /\ DOMAIN doc = 1 .. Len(doc)
      /\ p \in Nat /\ p <= Len(doc)
  BY DEF Typed
<1>3. ASSUME NEW j \in 0 + 1 .. p PROVE Becomes(j) = <<doc[j]>>
  <2>1. \A i : Rewritten(i) => i \in Expressions
    BY SitesFound DEF Rewritten, IsSql, Wanted
  <2>2. j <= p /\ j - 1 <= p
    BY <1>2
  <2>3. ~ Rewritten(j) /\ ~ Rewritten(j - 1)
    BY <1>1, <2>1, <2>2
  <2>4. QED BY <2>3 DEF Becomes
<1>4. Prefix[p] = Prefix[0] \o SubSeq(doc, 0 + 1, p)
  BY <1>2, <1>3, PrefixUnchanged
<1>5. Prefix[p] = SubSeq(doc, 1, p)
  <2>1. \A i \in 1 .. p : doc[i] \in Token
    BY <1>2
  <2>2. SubSeq(doc, 1, p) \in Seq(Token)
    BY <1>2, <2>1, SubSeqProperties
  <2>3. Prefix[0] = <<>>
    BY PrefixGrows
  <2>4. <<>> \o SubSeq(doc, 1, p) = SubSeq(doc, 1, p)
    BY <2>2, ConcatEmptySeq
  <2>5. QED BY <1>4, <2>3, <2>4
<1>6. QED BY <1>1, <1>5

(* The text is one of tokens.                                              *)
LEMMA PlacedTokens ==
  ASSUME Typed, NEW text, NEW S, PutInPlace(text, S)
  PROVE  text \in Seq(Token)
<1>1. PICK p \in 0 .. Len(doc), rest \in Seq(Token) : text = SubSeq(doc, 1, p) \o rest
  BY DEF PutInPlace
<1>2. doc \in Seq(Token) /\ 0 \in 0 .. p /\ p \in 0 .. Len(doc)
  BY DEF Typed
<1>3. text = Join(SubSeq(doc, 1, p), rest)
  BY <1>1 DEF Join
<1>4. QED BY <1>2, <1>3, CutInTwo

(* Concatenation of tokens.                                                *)
LEMMA TokensJoined ==
  /\ \A s, t \in Seq(Token) : Join(s, t) \in Seq(Token)
  /\ \A s, t, u \in Seq(Token) : Join(Join(s, t), u) = Join(s, Join(t, u))
<1>1. \A s, t \in Seq(Token) : s \o t \in Seq(Token)
  BY ConcatProperties
<1>2. \A s, t, u \in Seq(Token) : (s \o t) \o u = s \o (t \o u)
  BY ConcatAssociative
<1>3. QED BY <1>1, <1>2 DEF Join

(* Of some replacements, the one taken next stands behind all others.      *)
LEMMA RightmostIsLast ==
  ASSUME Typed, Matched, NEW some \in SUBSET DOMAIN replacements, some # {}
  PROVE  /\ Rightmost(some) \in some
         /\ \A j \in some : replacements[j].first <= replacements[Rightmost(some)].first
<1> DEFINE F == {replacements[k].first : k \in some}
<1>1. \A k \in some : replacements[k].first \in 0 .. Len(doc)
  <2>1. \A i \in Expressions : Rendered(i).first = i /\ i \in 0 .. Len(doc)
    <3>1. \A i \in Expressions : i \in 0 .. Len(doc)
      BY DEF Typed, Expressions
    <3>2. QED BY <3>1, RenderingJudged
  <2>2. QED BY <2>1 DEF Matched
<1>2. F \in SUBSET (0 .. Len(doc)) /\ F # {} /\ Len(doc) \in Nat
  BY <1>1 DEF Typed
<1>3. PICK m \in F : \A f \in F : f <= m
  <2> HIDE DEF F
  <2>1. QED BY <1>2, GreatestNatural
<1>4. \E k \in some : \A j \in some : replacements[j].first <= replacements[k].first
  BY <1>3
<1>5. QED BY <1>4 DEF Rightmost

(* Putting the last of them in place takes the text one replacement        *)
(* further: what stands behind it has become what it should, what stands   *)
(* before it is still the source.                                          *)
LEMMA PlacingStep ==
  ASSUME Typed, Matched, NEW text, NEW some \in SUBSET DOMAIN replacements, some # {}, PutInPlace(text, some)
  PROVE  PutInPlace(Replaced(text, replacements[Rightmost(some)]), some \ {Rightmost(some)})
<1>1. PICK p \in 0 .. Len(doc), rest \in Seq(Token) :
        /\ text = SubSeq(doc, 1, p) \o rest
        /\ Prefix[Len(doc)] = Prefix[p] \o rest
        /\ \A k \in some : replacements[k].last <= p
        /\ \A i \in Expressions : Rewritten(i) /\ i <= p => \E k \in some : replacements[k] = Rendered(i)
  BY DEF PutInPlace
<1>2. PICK k \in some : k = Rightmost(some) /\ \A j \in some : replacements[j].first <= replacements[k].first
  BY RightmostIsLast
<1>3. PICK i \in Expressions : Rewritten(i) /\ ReadsBack(i) /\ replacements[k] = Rendered(i)
  BY DEF Matched
<1>4. PICK r \in Replacement : r = Rendered(i)
  BY <1>3, RenderingJudged
<1>5. PICK l : l = LastToken(i)
  OBVIOUS
<1>6. r.first = i /\ r.last = l /\ l \in {i, i + 1} /\ l \in DOMAIN doc /\ r.text \in Seq(Token) /\ Becomes(i) = r.text
  <2>1. r.last = l
    BY <1>4, <1>5 DEF Rendered
  <2>2. r.first = i /\ r.last \in {i, i + 1} /\ r.last \in DOMAIN doc /\ Becomes(i) = r.text
    BY <1>3, <1>4, RenderingJudged
  <2>3. r.text \in Seq(Token)
    BY <1>4 DEF Replacement
  <2>4. QED BY <2>1, <2>2, <2>3
<1>7. DOMAIN doc = 1 .. Len(doc) /\ Len(doc) \in Nat /\ doc \in Seq(Token) /\ i \in DOMAIN doc
  BY DEF Typed, Expressions
<1>8. l <= p
  BY <1>1, <1>3, <1>4, <1>6
<1>9. p \in Nat /\ p <= Len(doc) /\ i \in Nat /\ l \in Nat /\ i >= 1 /\ l >= i /\ i <= p
  BY <1>6, <1>7, <1>8
<1>10. \A j : Rewritten(j) => j \in Expressions /\ doc[j].kind \in Literal
  BY SitesFound DEF Rewritten, IsSql, Wanted
<1>11. ASSUME NEW j \in i + 1 .. p PROVE ~ Rewritten(j)
  <2>1. SUFFICES ASSUME Rewritten(j) PROVE FALSE
    OBVIOUS
  <2>2. j \in Expressions /\ j <= p /\ j > i
    BY <1>9, <1>10, <2>1
  <2>3. PICK m \in some : replacements[m] = Rendered(j)
    BY <1>1, <2>1, <2>2
  <2>4. replacements[m].first = j /\ replacements[k].first = i
    BY <1>3, <2>2, <2>3, RenderingJudged
  <2>5. j <= i
    BY <1>2, <2>4
  <2>6. QED BY <1>9, <2>2, <2>5
<1>12. Prefix[l] = Prefix[i - 1] \o r.text
  <2>1. Prefix[i] = Prefix[i - 1] \o r.text
    <3>1. i \in 1 .. Len(doc)
      BY <1>7
    <3>2. QED BY <1>6, <3>1, PrefixGrows
  <2>2. CASE l = i
    BY <2>1, <2>2
  <2>3. CASE l = i + 1
    <3>1. doc[i + 1].kind = "tail" /\ i + 1 \in 1 .. Len(doc) /\ (i + 1) - 1 = i /\ i + 1 \in i + 1 .. p
      BY <1>5, <1>7, <1>8, <1>9, <2>3 DEF LastToken
    <3>2. ~ Rewritten(i + 1)
      BY <1>11, <3>1
    <3>3. Becomes(i + 1) = <<>>
      BY <1>3, <3>1, <3>2 DEF Becomes
    <3>4. Prefix[i + 1] = Prefix[i] \o <<>>
      BY <3>1, <3>3, PrefixGrows
    <3>5. Prefix[i] \in Seq(Token)
      <4>1. i \in 0 .. Len(doc)
        BY <1>7
      <4>2. QED BY <4>1, PrefixGrows
    <3>6. QED BY <2>1, <2>3, <3>4, <3>5, ConcatEmptySeq
  <2>4. QED BY <1>6, <2>2, <2>3
<1>13. ASSUME NEW j \in l + 1 .. p PROVE Becomes(j) = <<doc[j]>>
  <2>1. j \in i + 1 .. p /\ ~ Rewritten(j)
    <3>1. j \in i + 1 .. p
      BY <1>9
    <3>2. QED BY <1>11, <3>1
  <2>2. ~ (doc[j].kind = "tail" /\ Rewritten(j - 1))
    <3>1. CASE j - 1 = i
      <4>1. l = i /\ j = i + 1 /\ j \in DOMAIN doc
        BY <1>7, <1>9, <3>1
      <4>2. l # j
        BY <1>9, <4>1
      <4>3. doc[j].kind # "tail"
        BY <1>5, <4>1, <4>2 DEF LastToken
      <4>4. QED BY <4>3
    <3>2. CASE j - 1 # i
      <4>1. j - 1 \in i + 1 .. p
        BY <1>9, <3>2
      <4>2. QED BY <1>11, <4>1
    <3>3. QED BY <3>1, <3>2
  <2>3. QED BY <2>1, <2>2 DEF Becomes
<1>14. Prefix[p] = Prefix[l] \o SubSeq(doc, l + 1, p)
  <2>1. l \in 0 .. Len(doc) /\ p \in l .. Len(doc)
    BY <1>8, <1>9
  <2>2. QED BY <1>13, <2>1, PrefixUnchanged
<1>15. PICK mid : mid = SubSeq(doc, l + 1, p)
  OBVIOUS
<1>16. PICK before : before = SubSeq(doc, 1, i - 1)
  OBVIOUS
<1>17. PICK grown : grown = Prefix[i - 1]
  OBVIOUS
<1>18. mid \in Seq(Token)
  <2>1. \A j \in l + 1 .. p : j \in 1 .. Len(doc)
    BY <1>9
  <2>2. \A j \in l + 1 .. p : doc[j] \in Token
    BY <1>7, <2>1
  <2>3. l + 1 \in Int /\ p \in Int
    BY <1>9
  <2>4. SubSeq(doc, l + 1, p) \in Seq(Token)
    BY <2>2, <2>3, SubSeqProperties
  <2>5. QED BY <1>15, <2>4
<1>19. before \in Seq(Token)
  <2>1. \A j \in 1 .. i - 1 : doc[j] \in Token
    BY <1>7
  <2>2. 1 \in Int /\ i - 1 \in Int
    BY <1>9
  <2>3. SubSeq(doc, 1, i - 1) \in Seq(Token)
    BY <2>1, <2>2, SubSeqProperties
  <2>4. QED BY <1>16, <2>3
<1>20. grown \in Seq(Token)
  <2>1. i - 1 \in 0 .. Len(doc)
    BY <1>7
  <2>2. QED BY <1>17, <2>1, PrefixGrows
<1>21. PICK after : after = Join(mid, rest)
  OBVIOUS
<1>22. PICK behind : behind = Join(r.text, after)
  OBVIOUS
<1>23. after \in Seq(Token) /\ behind \in Seq(Token)
  BY <1>6, <1>18, <1>21, <1>22, TokensJoined
<1>24. Prefix[Len(doc)] = Join(grown, behind)
  <2>1. Prefix[l] = Join(grown, r.text)
    BY <1>12, <1>17 DEF Join
  <2>2. Prefix[p] = Join(Prefix[l], mid)
    BY <1>14, <1>15 DEF Join
  <2>3. Prefix[Len(doc)] = Join(Prefix[p], rest)
    BY <1>1 DEF Join
  <2>4. PICK gb : gb = Join(grown, r.text) /\ gb \in Seq(Token)
    BY <1>6, <1>20, TokensJoined
  <2>5. Join(Join(gb, mid), rest) = Join(gb, after)
    BY <1>18, <1>21, <2>4, TokensJoined
  <2>6. Join(gb, after) = Join(grown, behind)
    <3>1. PICK body : body = r.text
      OBVIOUS
    <3>2. Join(Join(grown, body), after) = Join(grown, Join(body, after))
      BY <1>6, <1>20, <1>23, <3>1, TokensJoined
    <3>3. QED BY <1>22, <2>4, <3>1, <3>2
  <2>7. QED BY <2>1, <2>2, <2>3, <2>4, <2>5, <2>6
<1>25. SubSeq(text, 1, i - 1) = before /\ SubSeq(text, l + 1, Len(text)) = after
  <2>1. i - 1 \in 0 .. p /\ l \in 0 .. p
    BY <1>8, <1>9
  <2>2. text = Join(SubSeq(doc, 1, p), rest)
    BY <1>1 DEF Join
  <2>3. SubSeq(text, 1, i - 1) = SubSeq(doc, 1, i - 1)
    BY <1>7, <2>1, <2>2, CutInTwo
  <2>4. SubSeq(text, l + 1, Len(text)) = Join(SubSeq(doc, l + 1, p), rest)
    BY <1>7, <2>1, <2>2, CutInTwo
  <2>5. QED BY <1>15, <1>16, <1>21, <2>3, <2>4
<1>26. Replaced(text, r) = before \o behind
  <2>1. Replaced(text, r) = Join(Join(before, r.text), after)
    BY <1>6, <1>25 DEF Replaced, Join
  <2>2. Join(Join(before, r.text), after) = Join(before, Join(r.text, after))
    BY <1>6, <1>19, <1>23, TokensJoined
  <2>3. QED BY <1>22, <2>1, <2>2 DEF Join
<1>27. ASSUME NEW m \in some \ {k} PROVE replacements[m].last <= i - 1
  <2>1. PICK j \in Expressions : replacements[m] = Rendered(j) /\ Rewritten(j)
    BY DEF Matched
  <2>2. replacements[m].first = j /\ replacements[m].last = LastToken(j)
    BY <2>1 DEF Rendered
  <2>3. replacements[k].first = i
    BY <1>3, RenderingJudged
  <2>4. j <= i /\ j # i
    BY <1>2, <2>2, <2>3 DEF Matched
  <2>5. j \in Nat /\ j < i
    BY <1>7, <1>9, <2>1, <2>4 DEF Expressions
  <2>6. doc[i].kind # "tail"
    BY <1>3, <1>10 DEF Literal
  <2>7. LastToken(j) = j \/ (LastToken(j) = j + 1 /\ doc[j + 1].kind = "tail")
    BY DEF LastToken
  <2>8. j + 1 # i \/ LastToken(j) = j
    BY <2>6, <2>7
  <2>9. QED BY <1>9, <2>2, <2>5, <2>7, <2>8
<1>28. ASSUME NEW j \in Expressions, Rewritten(j), j <= i - 1
       PROVE  \E m \in some \ {k} : replacements[m] = Rendered(j)
  <2>1. j \in Nat
    BY <1>7 DEF Expressions
  <2>2. j <= p
    BY <1>9, <1>28, <2>1
  <2>3. PICK m \in some : replacements[m] = Rendered(j)
    BY <1>1, <1>28, <2>2
  <2>4. replacements[m].first = j /\ replacements[k].first = i
    BY <1>3, <2>3, RenderingJudged
  <2>5. m # k
    BY <1>9, <1>28, <2>1, <2>4
  <2>6. QED BY <2>3, <2>5
<1>29. i - 1 \in 0 .. Len(doc)
  BY <1>7
<1>30. PutInPlace(before \o behind, some \ {k})
  <2>1. before \o behind = SubSeq(doc, 1, i - 1) \o behind
    BY <1>16
  <2>2. Prefix[Len(doc)] = Prefix[i - 1] \o behind
    BY <1>17, <1>24 DEF Join
  <2>3. QED BY <1>23, <1>27, <1>28, <1>29, <2>1, <2>2 DEF PutInPlace
<1>31. QED BY <1>2, <1>3, <1>4, <1>26, <1>30

-----------------------------------------------------------------------------
(***************************************************************************)
(* The invariant.  What the loop has established, in terms of the          *)
(* reference.                                                              *)
(***************************************************************************)
Visited    == Units \ units
Handled(i) == i \in Expressions /\ UnitOf(i) \in Visited /\ i \notin todo

(* The directives of the units visited are accounted for, none of these    *)
(* units contradicts itself, and the literals that wait are of interest.   *)
Progress ==
  /\ ~ Malformed /\ ~ FileIgnored /\ Says("file") = {}
  /\ units \subseteq Units
  /\ \A i \in todo : i \in Expressions /\ UnitOf(i) \in Visited /\ Wanted(i) /\ (explicit <=> Told(i, "sql"))
  /\ consumed = UNION {Attached(u) : u \in Visited}
  /\ \A u \in Visited : ~ (Ignored(u) /\ Explicit(u))

(* No literal behind the loop had to be refused, and each has its          *)
(* findings.                                                               *)
Answered ==
  /\ \A i \in Expressions : Handled(i) /\ Wanted(i) => ~ Refused(i)
  /\ \A i \in Expressions : Handled(i) /\ IsSql(i) => LiteralFindings(i) \subseteq diags
  /\ \A i \in Dynamic : UnitOf(i) \in Visited /\ Told(i, "sql") => UnsupportedHost(i) \in diags

(* The replacements are those of the literals behind the loop, one each.   *)
Edited ==
  /\ \A i \in Expressions : Handled(i) /\ Rewritten(i) =>
       ReadsBack(i) /\ \E k \in DOMAIN replacements : replacements[k] = Rendered(i)
  /\ \A k \in DOMAIN replacements : \E i \in Expressions :
       Handled(i) /\ Rewritten(i) /\ ReadsBack(i) /\ replacements[k] = Rendered(i)
  /\ \A k, l \in DOMAIN replacements : replacements[k].first = replacements[l].first => k = l

(* Every finding is about SQL, or a marked expression that is dynamic.     *)
FindingsTrue ==
  \A d \in diags :
    \/ \E i \in Dynamic : Told(i, "sql") /\ ~ Told(i, "ignore") /\ d = UnsupportedHost(i)
    \/ \E i \in Expressions : IsSql(i) /\ d \in LiteralFindings(i)

Loop    == Progress /\ Answered /\ Edited
Through == Loop /\ units = {} /\ todo = {} /\ Unconsumed = {}

Outcome ==
  state = "done" =>
    \/ result \in Causes
    \/ result = "ok" /\ ~ Malformed /\ FileIgnored /\ output = doc /\ diags = {}
    \/ result = "ok" /\ Through /\ output = IF Withheld THEN doc ELSE Prefix[Len(doc)]

HInv ==
  /\ TypeOK /\ FindingsTrue /\ Outcome
  /\ state = "start" => units = {} /\ todo = {} /\ consumed = {} /\ replacements = <<>> /\ diags = {}
  /\ state = "units" => Loop
  /\ state = "splice" => Through /\ ~ Withheld /\ PutInPlace(output, left)

(* A step that keeps the text, its language and the settings keeps what    *)
(* the tree and the reference say of it.                                   *)
LEMMA ReadingKept ==
  ASSUME doc' = doc, lang' = lang, options' = options
  PROVE  /\ Sites' = Sites /\ Expressions' = Expressions /\ Dynamic' = Dynamic /\ Units' = Units
         /\ Directives' = Directives /\ Malformed' = Malformed /\ FileIgnored' = FileIgnored
         /\ Causes' = Causes /\ Prefix' = Prefix
         /\ \A w : Says(w)' = Says(w)
         /\ \A u : Attached(u)' = Attached(u) /\ Ignored(u)' = Ignored(u) /\ Explicit(u)' = Explicit(u)
         /\ \A i : UnitOf(i)' = UnitOf(i) /\ LiteralFindings(i)' = LiteralFindings(i)
                   /\ UnsupportedHost(i)' = UnsupportedHost(i) /\ Rendered(i)' = Rendered(i)
         /\ \A i, w : Told(i, w)' = Told(i, w)
         /\ \A i : /\ Wanted(i)' <=> Wanted(i)
                   /\ Refused(i)' <=> Refused(i)
                   /\ IsSql(i)' <=> IsSql(i)
                   /\ Rewritten(i)' <=> Rewritten(i)
                   /\ ReadsBack(i)' <=> ReadsBack(i)
<1>1. Open' = Open /\ Above' = Above
  BY DEF Open, Above
<1>2. \A w : Says(w)' = Says(w)
  BY DEF Says, Comments
<1>3. Directives' = Directives
  BY DEF Directives, Says, Comments
<1>4. \A i : Owners(i)' = Owners(i)
  BY DEF Owners, Encloses, Depth
<1>5. \A i, j : Owns(j, i)' = Owns(j, i)
  BY DEF Owns, Owners, Encloses, Depth
<1>6. \A i : Before(i)' = Before(i)
  BY DEF Before, Comments, Between
<1>7. \A u : Attached(u)' = Attached(u)
  BY DEF Attached, Directives, Says, Climbed, Owners, Encloses, Depth, Before, Comments, Between
<1>8. Expressions' = Expressions /\ Dynamic' = Dynamic
  BY DEF Expressions, Dynamic, Owners, Encloses, Depth
<1>9. Units' = Units
  BY DEF Units, Expressions, Dynamic, Owns, Owners, Encloses, Depth
<1>10. Malformed' = Malformed /\ FileIgnored' = FileIgnored
  BY DEF Malformed, FileIgnored, Generated, Leading, Says, Comments
<1>11. \A u : Ignored(u)' = Ignored(u) /\ Explicit(u)' = Explicit(u)
  BY DEF Ignored, Explicit, Attached, Directives, Says, Climbed, Owners, Encloses, Depth, Before, Comments, Between
<1>12. Sites' = Sites
  BY DEF Sites, Open
<1>13. \A i : UnitOf(i)' = UnitOf(i)
  BY DEF UnitOf, Open
<1>14. \A i : Rendered(i)' = Rendered(i) /\ (ReadsBack(i)' <=> ReadsBack(i))
  BY DEF Rendered, ReadsBack, NewText, NewKind, LastToken
<1>15. \A i : LiteralFindings(i)' = LiteralFindings(i) /\ UnsupportedHost(i)' = UnsupportedHost(i)
  BY DEF LiteralFindings, UnsupportedHost, LastToken
<1>16. \A i : Governing(i)' = Governing(i)
  BY DEF Governing, Inner, Above, Open
<1>17. \A i, w : Told(i, w)' = Told(i, w)
  BY DEF Told, Governing, Inner, Above, Open
<1>18. \A i : Wanted(i)' <=> Wanted(i)
  BY DEF Wanted, Sites, Told, Governing, Inner, Above, Open
<1>19. \A i : Refused(i)' <=> Refused(i)
  BY DEF Refused, AllowedKind, Told, Governing, Inner, Above, Open
<1>20. \A i : IsSql(i)' <=> IsSql(i)
  BY DEF IsSql, AllowedKind, Wanted, Sites, Told, Governing, Inner, Above, Open
<1>21. \A i : Rewritten(i)' <=> Rewritten(i)
  BY DEF Rewritten, Differs, FileIgnored, Generated, Leading, Says, Comments,
         IsSql, AllowedKind, Wanted, Sites, Told, Governing, Inner, Above, Open
<1>22. Causes' = Causes
  BY DEF Causes, Rewritten, Differs, FileIgnored, Generated, Leading, Says, Comments,
         IsSql, AllowedKind, Wanted, Sites, Told, Governing, Inner, Above, Open
<1>23. Prefix' = Prefix
  BY DEF Prefix, Growth, Solves, Becomes, Rewritten, Differs, FileIgnored, Generated, Leading, Says, Comments,
         IsSql, AllowedKind, Wanted, Sites, Told, Governing, Inner, Above, Open
<1>24. QED BY <1>2, <1>3, <1>7, <1>8, <1>9, <1>10, <1>11, <1>12, <1>13, <1>14, <1>15, <1>17, <1>18,
             <1>19, <1>20, <1>21, <1>22, <1>23

(* A step that also keeps the loop's variables keeps what it established.  *)
LEMMA LoopKept ==
  ASSUME UNCHANGED <<input, units, todo, explicit, consumed, replacements, diags>>
  PROVE  /\ Loop' <=> Loop
         /\ FindingsTrue' <=> FindingsTrue
         /\ Withheld' <=> Withheld
         /\ Unconsumed' = Unconsumed
         /\ \A text, some : PutInPlace(text, some)' <=> PutInPlace(text, some)
<1>1. doc' = doc /\ lang' = lang /\ options' = options
  BY DEF input
<1>2. Visited' = Visited
  BY <1>1, ReadingKept DEF Visited
<1>3. Progress' <=> Progress
  BY <1>1, <1>2, ReadingKept DEF Progress
<1>4. Answered' <=> Answered
  BY <1>1, <1>2, ReadingKept DEF Answered, Handled
<1>5. Edited' <=> Edited
  BY <1>1, <1>2, ReadingKept DEF Edited, Handled
<1>6. FindingsTrue' <=> FindingsTrue
  BY <1>1, ReadingKept DEF FindingsTrue
<1>7. (Withheld' <=> Withheld) /\ Unconsumed' = Unconsumed
  BY <1>1, ReadingKept DEF Withheld, Unconsumed
<1>8. \A text, some : PutInPlace(text, some)' <=> PutInPlace(text, some)
  BY <1>1, ReadingKept DEF PutInPlace
<1>9. QED BY <1>3, <1>4, <1>5, <1>6, <1>7, <1>8 DEF Loop

(* A source is formatted from within the invariant.                        *)
LEMMA InitHolds ==
  ASSUME Init
  PROVE  HInv
<1>1. PICK i \in Inputs : source = i.doc /\ lang = i.lang /\ options = i.options /\ doc = i.doc
  BY DEF Init
<1>2. source \in Seq(Token) /\ doc \in Seq(Token) /\ lang \in {"go", "rust"} /\ options \in Option
  BY <1>1, InputAssumption
<1>3. TypeOK
  <2>1. <<>> \in Seq(Token) /\ <<>> \in Seq(Replacement)
    OBVIOUS
  <2>2. output \in Seq(Token) /\ replacements \in Seq(Replacement) /\ left = {} /\ pass = 1
    BY <2>1 DEF Init, Begin
  <2>3. /\ state = "start" /\ result = "running" /\ explicit = FALSE
        /\ units = {} /\ todo = {} /\ consumed = {} /\ diags = {}
    BY DEF Init, Begin
  <2>4. QED BY <1>2, <2>2, <2>3 DEF TypeOK
<1>4. QED BY <1>3 DEF HInv, Init, Begin, FindingsTrue, Outcome

(* A source refused before the loop has its cause, and one that is ignored *)
(* is returned as it is.                                                   *)
LEMMA StartKeeps ==
  ASSUME HInv, Start
  PROVE  HInv'
<1>1. Typed
  BY DEF HInv, TypeOK, Typed
<1>2. units = {} /\ todo = {} /\ consumed = {} /\ replacements = <<>> /\ diags = {} /\ state = "start"
  BY DEF Start, HInv
<1>3. /\ doc' = doc /\ lang' = lang /\ options' = options
      /\ todo' = {} /\ consumed' = {} /\ replacements' = <<>> /\ diags' = {} /\ left' = left
      /\ source' = source /\ pass' = pass /\ explicit' = explicit
  BY <1>2 DEF Start, input
<1>4. FindingsTrue'
  BY <1>3 DEF FindingsTrue
<1>5. CASE Malformed /\ state' = "done" /\ result' = "malformed" /\ output' = output /\ units' = units
  <2>1. PICK c \in Comments : doc[c].text = "bad" /\ lang = "rust"
    BY <1>5 DEF Malformed, Says
  <2>2. "malformed" \in Causes
    BY <2>1 DEF Causes, Errors, Comments
  <2>3. result' \in Causes'
    BY <1>3, <1>5, <2>2, ReadingKept
  <2>4. TypeOK'
    BY <1>2, <1>3, <1>5 DEF HInv, TypeOK, Errors
  <2>5. QED BY <1>4, <1>5, <2>3, <2>4 DEF HInv, Outcome
<1>6. CASE ~ Malformed /\ FileIgnored /\ state' = "done" /\ result' = "ok" /\ output' = doc /\ units' = units
  <2>1. TypeOK'
    BY <1>2, <1>3, <1>6 DEF HInv, TypeOK, Errors
  <2>2. Outcome'
    BY <1>3, <1>6, ReadingKept DEF Outcome
  <2>3. QED BY <1>4, <1>6, <2>1, <2>2 DEF HInv
<1>7. CASE /\ ~ Malformed /\ ~ FileIgnored /\ Says("file") # {}
           /\ state' = "done" /\ result' = "misplaced" /\ output' = output /\ units' = units
  <2>1. PICK c \in Comments : doc[c].text = "file"
    BY <1>7 DEF Says
  <2>2. "misplaced" \in Causes
    BY <2>1 DEF Causes, Errors, Comments, Directive
  <2>3. result' \in Causes'
    BY <1>3, <1>7, <2>2, ReadingKept
  <2>4. TypeOK'
    BY <1>2, <1>3, <1>7 DEF HInv, TypeOK, Errors
  <2>5. QED BY <1>4, <1>7, <2>3, <2>4 DEF HInv, Outcome
<1>8. CASE /\ ~ Malformed /\ ~ FileIgnored /\ Says("file") = {}
           /\ state' = "units" /\ units' = Units /\ output' = output /\ result' = result
  <2>1. Visited' = {} /\ Units' = Units
    BY <1>3, <1>8, ReadingKept DEF Visited
  <2>2. Progress'
    BY <1>3, <1>8, <2>1, ReadingKept DEF Progress
  <2>3. Answered' /\ Edited'
    BY <1>3, <2>1 DEF Answered, Edited, Handled
  <2>4. TypeOK'
    <3>1. Units \subseteq DOMAIN doc
      BY <1>1, UnitsFound
    <3>2. QED BY <1>2, <1>3, <1>8, <3>1 DEF HInv, TypeOK, Errors
  <2>5. QED BY <1>4, <1>8, <2>2, <2>3, <2>4 DEF HInv, Outcome, Loop
<1>9. QED BY <1>5, <1>6, <1>7, <1>8 DEF Start, Stop

(* A unit entered: its directives are those of its sites, and its literals *)
(* that are not of interest are behind the loop at once.                   *)
LEMMA EnterKeeps ==
  ASSUME HInv, Enter
  PROVE  HInv'
<1>1. Typed
  BY DEF HInv, TypeOK, Typed
<1>2. /\ state = "units" /\ todo = {} /\ Loop /\ FindingsTrue
      /\ doc' = doc /\ lang' = lang /\ options' = options /\ source' = source /\ pass' = pass
      /\ replacements' = replacements /\ left' = left /\ output' = output
  BY DEF Enter, HInv, input
<1>3. PICK u : u = Topmost(units)
  OBVIOUS
<1>4. u \in units /\ u \in Units /\ u \notin Visited
  <2>1. units \in SUBSET Nat /\ units # {}
    BY <1>1 DEF HInv, TypeOK, Typed, Enter
  <2>2. u \in units
    BY <1>3, <2>1, LeastNatural DEF Topmost
  <2>3. QED BY <1>2, <2>2 DEF Loop, Progress, Visited
<1>5. /\ units' = units \ {u} /\ consumed' = consumed \cup Attached(u) /\ explicit' = Explicit(u)
      /\ \/ /\ Ignored(u) /\ Explicit(u)
            /\ state' = "done" /\ result' = "conflict" /\ todo' = todo /\ diags' = diags
         \/ /\ (Ignored(u) /\ ~ Explicit(u)) \/ (~ Ignored(u) /\ ~ Explicit(u) /\ ~ options.auto)
            /\ state' = state /\ result' = result /\ todo' = todo /\ diags' = diags
         \/ /\ ~ Ignored(u) /\ (Explicit(u) \/ options.auto)
            /\ todo' = Within(u, Expressions)
            /\ diags' = diags \cup IF Explicit(u) THEN {UnsupportedHost(i) : i \in Within(u, Dynamic)} ELSE {}
            /\ state' = state /\ result' = result
  BY <1>3 DEF Enter, Stop
<1>6. Visited' = Visited \cup {u} /\ Units' = Units
  BY <1>2, <1>4, <1>5, ReadingKept DEF Visited
<1>7. \A i \in Sites : UnitOf(i) = u => (Told(i, "ignore") <=> Ignored(u)) /\ (Told(i, "sql") <=> Explicit(u))
  BY <1>1, DirectivesFound DEF Ignored, Explicit, Directive
<1>8. /\ Sites = Expressions \cup Dynamic
      /\ \A i \in Expressions : i \in Within(u, Expressions) <=> UnitOf(i) = u
      /\ \A i \in Dynamic : i \in Within(u, Dynamic) <=> UnitOf(i) = u
      /\ \A v, S : Within(v, S) \subseteq S
  BY <1>1, <1>4, SitesFound, UnitsFound DEF Within
<1>9. consumed' = UNION {Attached(v) : v \in Visited'}
  <2>1. consumed = UNION {Attached(v) : v \in Visited}
    BY <1>2 DEF Loop, Progress
  <2>2. QED BY <1>5, <1>6, <2>1
<1>10. /\ units' \subseteq DOMAIN doc /\ consumed' \subseteq DOMAIN doc /\ explicit' \in BOOLEAN
  <2>1. Attached(u) \subseteq DOMAIN doc
    BY DEF Attached, Directives, Says, Comments
  <2>2. Explicit(u) \in BOOLEAN
    BY DEF Explicit
  <2>3. QED BY <1>5, <2>1, <2>2 DEF HInv, TypeOK
<1>11. CASE Ignored(u) /\ Explicit(u)
  <2>1. state' = "done" /\ result' = "conflict" /\ todo' = todo /\ diags' = diags
    BY <1>5, <1>11
  <2>2. PICK i \in Sites : UnitOf(i) = u
    BY <1>1, <1>4, UnitsFound
  <2>3. "conflict" \in Causes
    BY <1>7, <1>11, <2>2 DEF Causes, Errors
  <2>4. result' \in Causes'
    BY <1>2, <2>1, <2>3, ReadingKept
  <2>5. FindingsTrue'
    BY <1>2, <2>1, ReadingKept DEF FindingsTrue
  <2>6. TypeOK'
    BY <1>2, <1>10, <2>1 DEF HInv, TypeOK, Errors
  <2>7. QED BY <2>1, <2>4, <2>5, <2>6 DEF HInv, Outcome
<1>12. CASE (Ignored(u) /\ ~ Explicit(u)) \/ (~ Ignored(u) /\ ~ Explicit(u) /\ ~ options.auto)
  <2>1. state' = state /\ result' = result /\ todo' = {} /\ diags' = diags
    BY <1>2, <1>5, <1>12
  <2>2. \A i \in Sites : UnitOf(i) = u => ~ Wanted(i)
    BY <1>7, <1>12 DEF Wanted
  <2>3. \A i \in Dynamic : UnitOf(i) = u /\ Told(i, "sql") => UnsupportedHost(i) \in diags
    <3>1. CASE ~ Explicit(u)
      BY <1>7, <1>8, <3>1
    <3>2. QED BY <1>12, <3>1
  <2>4. \A i \in Expressions : Handled(i)' <=> Handled(i) \/ UnitOf(i) = u
    BY <1>2, <1>6, <2>1, ReadingKept DEF Handled
  <2>5. Progress'
    <3>1. ~ (Ignored(u) /\ Explicit(u))
      BY <1>12
    <3>2. QED BY <1>2, <1>5, <1>6, <1>9, <2>1, <3>1, ReadingKept DEF Loop, Progress
  <2>6. Answered'
    <3>1. \A i \in Expressions : IsSql(i) => Wanted(i)
      BY DEF IsSql
    <3>2. QED BY <1>2, <1>6, <1>8, <2>1, <2>2, <2>3, <2>4, <3>1, ReadingKept DEF Loop, Answered
  <2>7. Edited'
    <3>1. \A i \in Expressions : Rewritten(i) => Wanted(i)
      BY DEF Rewritten, IsSql
    <3>2. QED BY <1>2, <1>8, <2>2, <2>4, <3>1, ReadingKept DEF Loop, Edited
  <2>8. FindingsTrue'
    BY <1>2, <2>1, ReadingKept DEF FindingsTrue
  <2>9. TypeOK'
    BY <1>2, <1>10, <2>1 DEF HInv, TypeOK
  <2>10. QED BY <1>2, <2>1, <2>5, <2>6, <2>7, <2>8, <2>9 DEF HInv, Outcome, Loop
<1>13. CASE ~ Ignored(u) /\ (Explicit(u) \/ options.auto)
  <2>1. /\ state' = state /\ result' = result /\ todo' = Within(u, Expressions)
        /\ diags' = diags \cup IF Explicit(u) THEN {UnsupportedHost(i) : i \in Within(u, Dynamic)} ELSE {}
    BY <1>5, <1>13
  <2>2. \A i \in Expressions : Handled(i)' <=> Handled(i)
    BY <1>2, <1>4, <1>6, <1>8, <2>1, ReadingKept DEF Handled
  <2>3. \A i \in Expressions : i \in todo' <=> UnitOf(i) = u
    BY <1>8, <2>1
  <2>4. todo' \subseteq Expressions /\ Expressions \subseteq DOMAIN doc
    BY <1>8, <2>1 DEF Expressions
  <2>5. \A i \in todo' : Wanted(i) /\ (explicit' <=> Told(i, "sql"))
    <3>1. \A i \in Expressions : i \in Sites /\ doc[i].kind # "dyn"
      BY <1>1, <1>8, SitesFound DEF Literal
    <3>2. QED BY <1>5, <1>7, <1>13, <2>3, <2>4, <3>1 DEF Wanted
  <2>6. Progress'
    <3>1. ~ (Ignored(u) /\ Explicit(u))
      BY <1>13
    <3>2. \A i \in todo' : i \in Expressions /\ UnitOf(i) \in Visited'
      BY <1>6, <2>3, <2>4
    <3>3. QED BY <1>2, <1>5, <1>6, <1>9, <2>5, <3>1, <3>2, ReadingKept DEF Loop, Progress
  <2>7. diags \subseteq diags'
    BY <2>1
  <2>8. \A i \in Dynamic : UnitOf(i) = u /\ Told(i, "sql") => UnsupportedHost(i) \in diags'
    BY <1>7, <1>8, <2>1
  <2>9. Answered'
    BY <1>2, <1>6, <2>2, <2>7, <2>8, ReadingKept DEF Loop, Answered
  <2>10. Edited'
    BY <1>2, <2>2, ReadingKept DEF Loop, Edited
  <2>11. \A d \in diags' \ diags : \E i \in Dynamic : Told(i, "sql") /\ ~ Told(i, "ignore") /\ d = UnsupportedHost(i)
    <3>1. ASSUME NEW d \in diags' \ diags
          PROVE  Explicit(u) /\ \E i \in Dynamic : UnitOf(i) = u /\ d = UnsupportedHost(i)
      BY <1>8, <2>1
    <3>2. QED BY <1>7, <1>8, <1>13, <3>1
  <2>12. FindingsTrue'
    BY <1>2, <2>11, ReadingKept DEF FindingsTrue
  <2>13. diags' \subseteq Diagnostic
    <3>1. diags \subseteq Diagnostic
      BY DEF HInv, TypeOK
    <3>2. \A i \in Dynamic : UnsupportedHost(i) \in Diagnostic
      BY <1>1, DynamicLocated
    <3>3. QED BY <2>11, <3>1, <3>2
  <2>14. TypeOK'
    BY <1>2, <1>10, <2>1, <2>4, <2>13 DEF HInv, TypeOK
  <2>15. QED BY <1>2, <2>1, <2>6, <2>9, <2>10, <2>12, <2>14 DEF HInv, Outcome, Loop
<1>14. QED BY <1>5, <1>11, <1>12, <1>13

(* A literal taken: it is refused, passed over or formatted as the         *)
(* reference says.                                                         *)
LEMMA TakeKeeps ==
  ASSUME HInv, Take
  PROVE  HInv'
<1>1. Typed
  BY DEF HInv, TypeOK, Typed
<1>2. /\ state = "units" /\ Loop /\ FindingsTrue
      /\ doc' = doc /\ lang' = lang /\ options' = options /\ source' = source /\ pass' = pass
      /\ units' = units /\ explicit' = explicit /\ consumed' = consumed /\ left' = left /\ output' = output
  BY DEF Take, HInv, input
<1>3. PICK i : i = Topmost(todo)
  OBVIOUS
<1>4. i \in todo
  <2>1. todo \in SUBSET Nat /\ todo # {}
    BY <1>1 DEF HInv, TypeOK, Typed, Take
  <2>2. QED BY <1>3, <2>1, LeastNatural DEF Topmost
<1>5. /\ i \in Expressions /\ UnitOf(i) \in Visited /\ Wanted(i) /\ (explicit <=> Told(i, "sql"))
      /\ ~ FileIgnored
  BY <1>2, <1>4 DEF Loop, Progress
<1>6. i \in Sites /\ i \in DOMAIN doc
  BY <1>1, <1>5, SitesFound DEF Expressions
<1>7. /\ todo' = todo \ {i}
      /\ \/ /\ Refusal(i) # "none"
            /\ state' = "done" /\ result' = Refusal(i) /\ diags' = diags /\ replacements' = replacements
         \/ /\ Refusal(i) = "none" /\ Passed(i)
            /\ state' = state /\ result' = result /\ diags' = diags /\ replacements' = replacements
         \/ /\ ~ Passed(i)
            /\ diags' = diags \cup LiteralFindings(i)
            /\ \/ /\ Fails(doc[i].text) \/ Unchanged(i)
                  /\ state' = state /\ result' = result /\ replacements' = replacements
               \/ /\ ~ Fails(doc[i].text) /\ ~ Unchanged(i) /\ ~ ReadsBack(i)
                  /\ state' = "done" /\ result' = "literal" /\ replacements' = replacements
               \/ /\ ~ Fails(doc[i].text) /\ ~ Unchanged(i) /\ ReadsBack(i)
                  /\ replacements' = Append(replacements, Rendered(i))
                  /\ state' = state /\ result' = result
  BY <1>3 DEF Take, Stop
<1>8. Visited' = Visited
  BY <1>2, ReadingKept DEF Visited
<1>9. \A j : Handled(j)' <=> Handled(j) \/ j = i
  BY <1>2, <1>4, <1>5, <1>7, <1>8, ReadingKept DEF Handled
<1>10. ~ Handled(i)
  BY <1>4 DEF Handled
<1>11. Progress'
  BY <1>2, <1>7, <1>8, ReadingKept DEF Loop, Progress
<1>12. /\ Refusal(i) # "none" <=> Refused(i)
       /\ Refusal(i) \in {"none", "disabled", "literal"}
       /\ Refusal(i) = "disabled" => Told(i, "sql") /\ ~ AllowedKind(i)
       /\ Refusal(i) = "literal" => AllowedKind(i) /\ doc[i].text = "bytes" /\ (Told(i, "sql") \/ lang = "rust")
       /\ IsSql(i) => ~ Passed(i)
       /\ ~ Passed(i) => IsSql(i) /\ ~ Refused(i)
  BY <1>1, <1>5, LiteralJudged
<1>13. /\ todo' \subseteq DOMAIN doc' /\ source' \in Seq(Token) /\ doc' \in Seq(Token) /\ output' \in Seq(Token)
       /\ lang' \in {"go", "rust"} /\ options' \in Option /\ pass' \in {1, 2} /\ explicit' \in BOOLEAN
       /\ units' \subseteq DOMAIN doc' /\ consumed' \subseteq DOMAIN doc'
  BY <1>2, <1>7 DEF HInv, TypeOK
<1>14. CASE /\ Refusal(i) # "none"
            /\ state' = "done" /\ result' = Refusal(i) /\ diags' = diags /\ replacements' = replacements
  <2>1. Refusal(i) \in Causes
    <3>1. CASE Refusal(i) = "disabled"
      BY <1>5, <1>6, <1>12, <3>1 DEF Causes, Errors
    <3>2. CASE Refusal(i) = "literal"
      BY <1>5, <1>6, <1>12, <3>2 DEF Causes, Errors
    <3>3. QED BY <1>12, <1>14, <3>1, <3>2
  <2>2. result' \in Causes'
    BY <1>2, <1>14, <2>1, ReadingKept
  <2>3. FindingsTrue'
    BY <1>2, <1>14, ReadingKept DEF FindingsTrue
  <2>4. result' \in Errors
    BY <2>1, <1>14 DEF Causes
  <2>5. TypeOK'
    BY <1>2, <1>13, <1>14, <2>4 DEF HInv, TypeOK, Errors
  <2>6. QED BY <1>14, <2>2, <2>3, <2>5 DEF HInv, Outcome
<1>15. CASE /\ Refusal(i) = "none" /\ Passed(i)
            /\ state' = state /\ result' = result /\ diags' = diags /\ replacements' = replacements
  <2>1. ~ Refused(i) /\ ~ IsSql(i) /\ ~ Rewritten(i)
    BY <1>12, <1>15 DEF Rewritten
  <2>2. Answered'
    BY <1>2, <1>8, <1>9, <1>15, <2>1, ReadingKept DEF Loop, Answered
  <2>3. Edited'
    BY <1>2, <1>9, <1>15, <2>1, ReadingKept DEF Loop, Edited
  <2>4. FindingsTrue'
    BY <1>2, <1>15, ReadingKept DEF FindingsTrue
  <2>5. TypeOK'
    BY <1>2, <1>13, <1>15 DEF HInv, TypeOK
  <2>6. QED BY <1>2, <1>11, <1>15, <2>2, <2>3, <2>4, <2>5 DEF HInv, Outcome, Loop
<1>16. CASE ~ Passed(i) /\ diags' = diags \cup LiteralFindings(i)
  <2>1. IsSql(i) /\ ~ Refused(i)
    BY <1>12, <1>16
  <2>2. Rewritten(i) <=> ~ Fails(doc[i].text) /\ ~ Unchanged(i)
    BY <1>1, <1>5, <2>1, RewritingJudged
  <2>3. Answered'
    <3>1. diags \subseteq diags' /\ LiteralFindings(i) \subseteq diags'
      BY <1>16
    <3>2. QED BY <1>2, <1>8, <1>9, <2>1, <3>1, ReadingKept DEF Loop, Answered
  <2>4. FindingsTrue'
    <3>1. \A d \in diags' : d \in diags \/ d \in LiteralFindings(i)
      BY <1>16
    <3>2. QED BY <1>2, <1>5, <2>1, <3>1, ReadingKept DEF FindingsTrue
  <2>5. diags' \subseteq Diagnostic
    <3>1. diags \subseteq Diagnostic
      BY DEF HInv, TypeOK
    <3>2. LiteralFindings(i) \subseteq Diagnostic
      BY <1>1, <1>5, FindingsLocated
    <3>3. QED BY <1>16, <3>1, <3>2
  <2>6. CASE /\ Fails(doc[i].text) \/ Unchanged(i)
             /\ state' = state /\ result' = result /\ replacements' = replacements
    <3>1. ~ Rewritten(i)
      BY <2>2, <2>6
    <3>2. Edited'
      BY <1>2, <1>9, <2>6, <3>1, ReadingKept DEF Loop, Edited
    <3>3. TypeOK'
      BY <1>2, <1>13, <2>5, <2>6 DEF HInv, TypeOK
    <3>4. QED BY <1>2, <1>11, <2>3, <2>4, <2>6, <3>2, <3>3 DEF HInv, Outcome, Loop
  <2>7. CASE /\ ~ Fails(doc[i].text) /\ ~ Unchanged(i) /\ ~ ReadsBack(i)
             /\ state' = "done" /\ result' = "literal" /\ replacements' = replacements
    <3>1. Rewritten(i)
      BY <2>2, <2>7
    <3>2. lang = "go" /\ doc[i].kind # "raw" /\ doc[i].text \in {"ctrl", "bell"}
      BY <1>1, <1>5, <2>7, RenderingJudged
    <3>3. "literal" \in Causes
      BY <1>6, <3>1, <3>2 DEF Causes, Errors
    <3>4. result' \in Causes'
      BY <1>2, <2>7, <3>3, ReadingKept
    <3>5. TypeOK'
      BY <1>2, <1>13, <2>5, <2>7 DEF HInv, TypeOK, Errors
    <3>6. QED BY <2>4, <2>7, <3>4, <3>5 DEF HInv, Outcome
  <2>8. CASE /\ ~ Fails(doc[i].text) /\ ~ Unchanged(i) /\ ReadsBack(i)
             /\ replacements' = Append(replacements, Rendered(i))
             /\ state' = state /\ result' = result
    <3>1. Rewritten(i) /\ ReadsBack(i)
      BY <2>2, <2>8
    <3>2. PICK r : r = Rendered(i)
      OBVIOUS
    <3>3. r \in Replacement /\ r.first = i
      BY <1>1, <1>5, <3>1, <3>2, RenderingJudged
    <3>4. PICK old : old = replacements
      OBVIOUS
    <3>5. PICK new : new = replacements'
      OBVIOUS
    <3>6. old \in Seq(Replacement) /\ new = Append(old, r)
      BY <2>8, <3>2, <3>4, <3>5 DEF HInv, TypeOK
    <3>7. PICK n \in Nat : n = Len(old)
      BY <3>6
    <3>8. /\ new \in Seq(Replacement) /\ Len(new) = n + 1 /\ new[n + 1] = r
          /\ \A k \in 1 .. n : new[k] = old[k]
      BY <3>3, <3>6, <3>7, AppendProperties
    <3>9. DOMAIN old = 1 .. n /\ DOMAIN new = 1 .. n + 1
      BY <3>6, <3>7, <3>8
    <3>10. /\ DOMAIN old \subseteq DOMAIN new /\ n + 1 \in DOMAIN new
           /\ \A k \in DOMAIN new : k \in DOMAIN old \/ k = n + 1
      BY <3>9
    <3>11. \A k \in DOMAIN old : new[k] = old[k]
      BY <3>8, <3>9
    <3>12. \A k \in DOMAIN old : \E j \in Expressions :
             Handled(j) /\ Rewritten(j) /\ ReadsBack(j) /\ old[k] = Rendered(j)
      BY <1>2, <3>4 DEF Loop, Edited
    <3>13. \A k \in DOMAIN old : old[k].first # i
      BY <1>1, <1>10, <3>12, RenderingJudged
    <3>14. \A j \in Expressions : Handled(j) /\ Rewritten(j) =>
             ReadsBack(j) /\ \E k \in DOMAIN old : old[k] = Rendered(j)
      BY <1>2, <3>4 DEF Loop, Edited
    <3>15. \A j \in Expressions : (Handled(j) \/ j = i) /\ Rewritten(j) =>
             ReadsBack(j) /\ \E k \in DOMAIN new : new[k] = Rendered(j)
      BY <3>1, <3>2, <3>8, <3>10, <3>11, <3>14
    <3>16. \A k \in DOMAIN new : \E j \in Expressions :
             (Handled(j) \/ j = i) /\ Rewritten(j) /\ ReadsBack(j) /\ new[k] = Rendered(j)
      BY <1>5, <3>1, <3>2, <3>8, <3>10, <3>11, <3>12
    <3>17. \A k, l \in DOMAIN new : new[k].first = new[l].first => k = l
      <4>1. \A k, l \in DOMAIN old : old[k].first = old[l].first => k = l
        BY <1>2, <3>4 DEF Loop, Edited
      <4>2. QED BY <3>3, <3>8, <3>10, <3>11, <3>13, <4>1
    <3>18. Edited'
      BY <1>2, <1>9, <3>5, <3>15, <3>16, <3>17, ReadingKept DEF Edited
    <3>19. left' \subseteq DOMAIN replacements'
      BY <1>2, <3>4, <3>5, <3>10 DEF HInv, TypeOK
    <3>20. TypeOK'
      BY <1>2, <1>13, <2>5, <2>8, <3>5, <3>8, <3>19 DEF HInv, TypeOK
    <3>21. QED BY <1>2, <1>11, <2>3, <2>4, <2>8, <3>18, <3>20 DEF HInv, Outcome, Loop
  <2>9. QED BY <1>7, <1>12, <1>16, <2>6, <2>7, <2>8
<1>17. QED BY <1>7, <1>14, <1>15, <1>16

(* Behind the loop: every directive is consumed, or the source is refused  *)
(* for one that is not.                                                    *)
LEMMA FinishKeeps ==
  ASSUME HInv, Finish
  PROVE  HInv'
<1>1. Typed
  BY DEF HInv, TypeOK, Typed
<1>2. /\ state = "units" /\ todo = {} /\ units = {} /\ Loop /\ FindingsTrue
      /\ UNCHANGED <<input, units, todo, explicit, consumed, replacements, diags>>
  BY DEF Finish, HInv
<1>3. doc' = doc /\ lang' = lang /\ options' = options /\ source' = source /\ pass' = pass
  BY <1>2 DEF input
<1>4. Loop' /\ FindingsTrue' /\ (Withheld' <=> Withheld) /\ Unconsumed' = Unconsumed
  BY <1>2, LoopKept
<1>5. /\ source' \in Seq(Token) /\ doc' \in Seq(Token) /\ doc \in Seq(Token) /\ lang' \in {"go", "rust"} /\ options' \in Option
      /\ pass' \in {1, 2} /\ explicit' \in BOOLEAN /\ units' \subseteq DOMAIN doc' /\ todo' \subseteq DOMAIN doc'
      /\ consumed' \subseteq DOMAIN doc' /\ diags' \subseteq Diagnostic /\ replacements' \in Seq(Replacement)
  BY <1>2, <1>3 DEF HInv, TypeOK
<1>6. CASE Unconsumed # {} /\ state' = "done" /\ result' = "misplaced" /\ left' = left /\ output' = output
  <2>1. PICK c \in Directives : c \notin consumed
    BY <1>6 DEF Unconsumed
  <2>2. Visited = Units
    BY <1>2 DEF Visited
  <2>3. \A i \in Sites : c \notin Governing(i)
    <3>1. ASSUME NEW i \in Sites PROVE c \notin Governing(i)
      <4>1. UnitOf(i) \in Units
        BY <1>1, UnitsFound
      <4>2. Attached(UnitOf(i)) \subseteq consumed
        BY <1>2, <2>2, <4>1 DEF Loop, Progress
      <4>3. Attached(UnitOf(i)) = Directives \cap Governing(i)
        BY <1>1, DirectivesFound
      <4>4. QED BY <2>1, <4>2, <4>3
    <3>2. QED BY <3>1
  <2>4. c \in DOMAIN doc /\ doc[c].text \in Directive
    BY <2>1 DEF Directives, Says, Comments
  <2>5. "misplaced" \in Causes
    BY <2>3, <2>4 DEF Causes, Errors
  <2>6. result' \in Causes'
    BY <1>3, <1>6, <2>5, ReadingKept
  <2>7. TypeOK'
    BY <1>2, <1>5, <1>6 DEF HInv, TypeOK, Errors
  <2>8. QED BY <1>4, <1>6, <2>6, <2>7 DEF HInv, Outcome
<1>7. CASE Unconsumed = {} /\ Withheld /\ output' = doc /\ state' = "done" /\ result' = "ok" /\ left' = left
  <2>1. Through'
    BY <1>2, <1>4, <1>7 DEF Through
  <2>2. Outcome'
    BY <1>3, <1>4, <1>7, <2>1 DEF Outcome
  <2>3. TypeOK'
    BY <1>2, <1>5, <1>7 DEF HInv, TypeOK
  <2>4. QED BY <1>4, <1>7, <2>2, <2>3 DEF HInv
<1>8. CASE /\ Unconsumed = {} /\ ~ Withheld /\ output' = doc /\ left' = DOMAIN replacements
           /\ state' = "splice" /\ result' = result
  <2>1. Through'
    BY <1>2, <1>4, <1>8 DEF Through
  <2>2. Matched
    BY <1>2 DEF Matched, Loop, Edited, HInv, TypeOK
  <2>3. \A i \in Expressions : Rewritten(i) => \E k \in DOMAIN replacements : replacements[k] = Rendered(i)
    <3>1. \A i \in Expressions : Handled(i)
      BY <1>1, <1>2, SitesFound, UnitsFound DEF Handled, Visited
    <3>2. QED BY <1>2, <3>1 DEF Loop, Edited
  <2>4. PutInPlace(doc, DOMAIN replacements)
    BY <1>1, <2>2, <2>3, PlacingStarts
  <2>5. PICK text : text = doc
    OBVIOUS
  <2>6. PICK some : some = DOMAIN replacements
    OBVIOUS
  <2>7. PutInPlace(text, some)'
    BY <1>2, <2>4, <2>5, <2>6, LoopKept
  <2>8. output' = text /\ left' = some
    BY <1>8, <2>5, <2>6
  <2>9. PutInPlace(output, left)'
    BY <2>7, <2>8 DEF PutInPlace
  <2>10. TypeOK'
    BY <1>2, <1>5, <1>8 DEF HInv, TypeOK
  <2>11. QED BY <1>4, <1>8, <2>1, <2>9, <2>10 DEF HInv, Outcome
<1>9. QED BY <1>6, <1>7, <1>8 DEF Finish, Stop

(* One replacement put in place, and the end of it.                        *)
LEMMA SpliceKeeps ==
  ASSUME HInv, Splice
  PROVE  HInv'
<1>1. Typed
  BY DEF HInv, TypeOK, Typed
<1>2. /\ state = "splice" /\ Through /\ ~ Withheld /\ FindingsTrue /\ PutInPlace(output, left)
      /\ UNCHANGED <<input, units, todo, explicit, consumed, replacements, diags>>
  BY DEF Splice, HInv
<1>3. doc' = doc /\ lang' = lang /\ options' = options /\ source' = source /\ pass' = pass
  BY <1>2 DEF input
<1>4. Loop' /\ FindingsTrue' /\ ~ Withheld' /\ Unconsumed' = Unconsumed
  BY <1>2, LoopKept DEF Through
<1>5. Through'
  BY <1>2, <1>4 DEF Through
<1>6. /\ source' \in Seq(Token) /\ doc' \in Seq(Token) /\ lang' \in {"go", "rust"} /\ options' \in Option
      /\ pass' \in {1, 2} /\ explicit' \in BOOLEAN /\ units' \subseteq DOMAIN doc' /\ todo' \subseteq DOMAIN doc'
      /\ consumed' \subseteq DOMAIN doc' /\ diags' \subseteq Diagnostic /\ replacements' \in Seq(Replacement)
      /\ output \in Seq(Token) /\ left \in SUBSET DOMAIN replacements /\ result = "running"
  BY <1>2, <1>3 DEF HInv, TypeOK
<1>7. CASE /\ left # {} /\ output' = Replaced(output, replacements[Rightmost(left)])
           /\ left' = left \ {Rightmost(left)} /\ state' = state /\ result' = result
  <2>1. Matched
    BY <1>2 DEF Matched, Through, Loop, Edited, HInv, TypeOK
  <2>2. PICK text : text = output
    OBVIOUS
  <2>3. PICK some : some = left
    OBVIOUS
  <2>4. PICK new : new = Replaced(text, replacements[Rightmost(some)])
    OBVIOUS
  <2>5. PICK rest : rest = some \ {Rightmost(some)}
    OBVIOUS
  <2>6. PutInPlace(new, rest)
    <3>1. some \in SUBSET DOMAIN replacements /\ some # {} /\ PutInPlace(text, some)
      BY <1>2, <1>6, <1>7, <2>2, <2>3
    <3>2. QED BY <1>1, <2>1, <2>4, <2>5, <3>1, PlacingStep
  <2>7. output' = new /\ left' = rest
    BY <1>7, <2>2, <2>3, <2>4, <2>5
  <2>8. PutInPlace(new, rest)'
    BY <1>2, <2>6, LoopKept
  <2>9. PutInPlace(output, left)'
    BY <2>7, <2>8 DEF PutInPlace
  <2>10. output' \in Seq(Token)
    BY <1>1, <2>6, <2>7, PlacedTokens
  <2>11. left' \subseteq DOMAIN replacements'
    BY <1>2, <1>6, <1>7
  <2>12. TypeOK'
    BY <1>2, <1>6, <1>7, <2>10, <2>11 DEF TypeOK
  <2>13. QED BY <1>2, <1>4, <1>5, <1>7, <2>9, <2>12 DEF HInv, Outcome
<1>8. CASE left = {} /\ state' = "done" /\ result' = "ok" /\ left' = left /\ output' = output
  <2>1. PICK text : text = output
    OBVIOUS
  <2>2. PutInPlace(text, {})
    BY <1>2, <1>8, <2>1
  <2>3. text = Prefix[Len(doc)]
    BY <1>1, <2>2, PlacingEnds
  <2>4. output' = Prefix'[Len(doc')]
    BY <1>3, <1>8, <2>1, <2>3, ReadingKept
  <2>5. Outcome'
    BY <1>4, <1>5, <1>8, <2>4 DEF Outcome
  <2>6. TypeOK'
    BY <1>2, <1>6, <1>8 DEF TypeOK
  <2>7. QED BY <1>4, <1>8, <2>5, <2>6 DEF HInv
<1>9. QED BY <1>7, <1>8 DEF Splice, Stop

(* The second pass starts from the output of the first.                    *)
LEMMA SecondPassKeeps ==
  ASSUME HInv, SecondPass
  PROVE  HInv'
<1>1. <<>> \in Seq(Token) /\ <<>> \in Seq(Replacement)
  OBVIOUS
<1>2. /\ doc' \in Seq(Token) /\ source' \in Seq(Token) /\ lang' \in {"go", "rust"} /\ options' \in Option
      /\ output' \in Seq(Token) /\ replacements' \in Seq(Replacement) /\ pass' = 2
      /\ state' = "start" /\ result' = "running" /\ explicit' = FALSE /\ replacements' = <<>>
      /\ units' = {} /\ todo' = {} /\ consumed' = {} /\ diags' = {} /\ left' = {}
  BY <1>1 DEF SecondPass, HInv, TypeOK
<1>3. TypeOK'
  BY <1>2 DEF TypeOK
<1>4. QED BY <1>2, <1>3 DEF HInv, FindingsTrue, Outcome

(* A step that changes nothing keeps the invariant.                        *)
LEMMA StutterKeeps ==
  ASSUME HInv, UNCHANGED vars
  PROVE  HInv'
<1>1. /\ UNCHANGED <<input, units, todo, explicit, consumed, replacements, diags>>
      /\ doc' = doc /\ lang' = lang /\ options' = options
      /\ state' = state /\ result' = result /\ output' = output /\ left' = left
  BY DEF vars, input
<1>2. /\ (Loop' <=> Loop) /\ (FindingsTrue' <=> FindingsTrue) /\ (Withheld' <=> Withheld)
      /\ Unconsumed' = Unconsumed
  BY <1>1, LoopKept
<1>3. Through' <=> Through
  BY <1>1, <1>2 DEF Through
<1>4. TypeOK'
  BY DEF vars, HInv, TypeOK
<1>5. Outcome'
  BY <1>1, <1>2, <1>3, ReadingKept DEF HInv, Outcome
<1>6. state = "splice" => PutInPlace(output, left)'
  <2>1. PICK text : text = output
    OBVIOUS
  <2>2. PICK some : some = left
    OBVIOUS
  <2>3. PutInPlace(text, some)' <=> PutInPlace(text, some)
    BY <1>1, LoopKept
  <2>4. output' = text /\ left' = some
    BY <1>1, <2>1, <2>2
  <2>5. state = "splice" => PutInPlace(text, some)
    BY <2>1, <2>2 DEF HInv
  <2>6. QED BY <2>3, <2>4, <2>5 DEF PutInPlace
<1>7. QED BY <1>1, <1>2, <1>3, <1>4, <1>5, <1>6 DEF HInv

(* The invariant: while the loop runs, what is left behind it agrees with  *)
(* the reference, and while replacements are put in place the text is      *)
(* finished from its end.                                                  *)
THEOREM HostInvariant == Spec => []HInv
<1>1. Init => HInv
  BY InitHolds
<1>2. HInv /\ [Next]_vars => HInv'
  BY StartKeeps, EnterKeeps, TakeKeeps, FinishKeeps, SpliceKeeps, SecondPassKeeps, StutterKeeps DEF Next
<1>3. QED BY <1>1, <1>2, PTL DEF Spec

-----------------------------------------------------------------------------
(***************************************************************************)
(* What follows for an accepted source.                                    *)
(***************************************************************************)
(* Behind the whole loop every site has been answered.                     *)
LEMMA AllHandled ==
  ASSUME Typed, Through
  PROVE  /\ \A i \in Expressions : Handled(i)
         /\ \A i \in Dynamic : UnitOf(i) \in Visited
<1>1. Visited = Units
  BY DEF Through, Visited
<1>2. QED BY <1>1, SitesFound, UnitsFound DEF Through, Handled

(* Under the strict policy every finding but one about style is an error.  *)
LEMMA StrictFindings ==
  ASSUME Typed, FindingsTrue, options.policy = "error", NEW d \in diags, d.rule # "style"
  PROVE  d.severity = "error"
BY FindingsLocated, DynamicLocated DEF FindingsTrue

(* StrictAllOrNothing holds of every state the invariant allows.           *)
(* formatter-design.md: under the strict policy one literal that is        *)
(* unsupported or cannot be formatted keeps every literal of the source as *)
(* it is.                                                                  *)
THEOREM StrictRestores == Spec => []StrictAllOrNothing
<1>1. HInv => StrictAllOrNothing
  <2> SUFFICES ASSUME HInv, Accepted, options.policy = "error", NEW d \in diags, d.rule # "style"
               PROVE  output = doc
    BY DEF StrictAllOrNothing
  <2>1. Typed /\ FindingsTrue /\ Outcome
    BY DEF HInv, TypeOK, Typed
  <2>2. d.severity = "error"
    BY <2>1, StrictFindings
  <2>3. Withheld
    BY <2>2 DEF Withheld
  <2>4. result \notin Causes
    BY DEF Accepted, Causes, Errors
  <2>5. QED BY <2>1, <2>3, <2>4 DEF Outcome, Accepted
<1>2. QED BY <1>1, HostInvariant, PTL

(* The variables have their types, every marked literal or dynamic         *)
(* expression is formatted or named by a finding, and every finding points *)
(* at a complete literal that is SQL by detection or by its marker.        *)
THEOREM MarkersAndFindings == Spec => []MarkersAnswered
<1>1. HInv => MarkedIsAnswered
  <2> SUFFICES ASSUME HInv, Accepted, ~ FileIgnored, NEW i \in Sites, Told(i, "sql"),
                      ~ (doc[i].kind # "dyn" /\ doc[i].text \notin Opaque /\ ~ Fails(doc[i].text))
               PROVE  \E d \in diags : d.first = i /\ d.rule # "style" /\ ~ d.fix
    BY DEF MarkedIsAnswered
  <2>1. Typed /\ FindingsTrue /\ Outcome
    BY DEF HInv, TypeOK, Typed
  <2>2. Through /\ result = "ok"
    <3>1. result \notin Causes
      BY DEF Accepted, Causes, Errors
    <3>2. QED BY <2>1, <3>1 DEF Outcome, Accepted
  <2>3. /\ \A j \in Expressions : Handled(j)
        /\ \A j \in Dynamic : UnitOf(j) \in Visited
    BY <2>1, <2>2, AllHandled
  <2>4. CASE i \in Dynamic
    <3>1. UnsupportedHost(i) \in diags
      BY <2>2, <2>3, <2>4 DEF Through, Loop, Answered
    <3>2. QED BY <2>1, <2>4, <3>1, DynamicLocated
  <2>5. CASE i \in Expressions
    <3>1. doc[i].kind # "dyn" /\ doc[i].text \in SqlText
      BY <2>1, <2>5, SitesFound DEF Literal
    <3>2. doc[i].text \in Opaque \/ Fails(doc[i].text)
      BY <3>1
    <3>3. ~ Told(i, "ignore")
      <4>1. UnitOf(i) \in Visited
        BY <2>3, <2>5 DEF Handled
      <4>2. ~ (Ignored(UnitOf(i)) /\ Explicit(UnitOf(i)))
        BY <2>2, <4>1 DEF Through, Loop, Progress
      <4>3. Told(i, "sql") <=> Explicit(UnitOf(i))
        BY <2>1, DirectivesFound DEF Explicit, Directive
      <4>4. Told(i, "ignore") <=> Ignored(UnitOf(i))
        BY <2>1, DirectivesFound DEF Ignored, Directive
      <4>5. QED BY <4>2, <4>3, <4>4
    <3>4. Wanted(i)
      BY <3>1, <3>3 DEF Wanted
    <3>5. ~ Refused(i)
      BY <2>2, <2>3, <2>5, <3>4 DEF Through, Loop, Answered
    <3>6. doc[i].text # "bytes" /\ AllowedKind(i)
      BY <3>5 DEF Refused
    <3>7. IsSql(i)
      BY <3>4, <3>6 DEF IsSql
    <3>8. LiteralFindings(i) \subseteq diags
      BY <2>2, <2>3, <2>5, <3>7 DEF Through, Loop, Answered
    <3>9. QED BY <2>1, <2>5, <3>2, <3>8, OpaqueReported
  <2>6. QED BY <2>1, <2>4, <2>5, SitesFound
<1>2. HInv => FindingsOnLiterals
  <2> SUFFICES ASSUME HInv, NEW d \in diags
               PROVE  /\ d.last = IF d.last \in DOMAIN doc /\ doc[d.last].kind = "tail" THEN d.first + 1 ELSE d.first
                      /\ d.first \in Sites /\ ~ Told(d.first, "ignore")
                      /\ IF doc[d.first].kind = "dyn" THEN Told(d.first, "sql") ELSE IsSql(d.first)
                      /\ (d.rule = "failure" <=> doc[d.first].text \in {"word", "prose", "fails"})
    BY DEF FindingsOnLiterals
  <2>1. Typed /\ FindingsTrue
    BY DEF HInv, TypeOK, Typed
  <2>2. CASE \E i \in Dynamic : Told(i, "sql") /\ ~ Told(i, "ignore") /\ d = UnsupportedHost(i)
    <3>1. PICK i \in Dynamic : Told(i, "sql") /\ ~ Told(i, "ignore") /\ d = UnsupportedHost(i)
      BY <2>2
    <3>2. d.first = i /\ d.last = i /\ d.rule = "unsupported" /\ doc[i].kind = "dyn" /\ doc[i].text = "-"
      BY <2>1, <3>1, DynamicLocated
    <3>3. i \in Sites
      BY <2>1, SitesFound
    <3>4. QED BY <3>1, <3>2, <3>3
  <2>3. CASE \E i \in Expressions : IsSql(i) /\ d \in LiteralFindings(i)
    <3>1. PICK i \in Expressions : IsSql(i) /\ d \in LiteralFindings(i)
      BY <2>3
    <3>2. /\ d.first = i /\ d.last = LastToken(i)
          /\ d.rule = "failure" <=> doc[i].text \in {"word", "prose", "fails"}
      BY <2>1, <3>1, FindingsLocated
    <3>3. i \in Sites /\ i \in DOMAIN doc /\ doc[i].kind \in Literal
      BY <2>1, SitesFound DEF Expressions
    <3>4. ~ Told(i, "ignore") /\ doc[i].kind # "dyn"
      BY <3>1 DEF IsSql, Wanted
    <3>5. d.last = IF d.last \in DOMAIN doc /\ doc[d.last].kind = "tail" THEN i + 1 ELSE i
      BY <3>2, <3>3 DEF LastToken, Literal
    <3>6. QED BY <3>1, <3>2, <3>3, <3>4, <3>5
  <2>4. QED BY <2>1, <2>2, <2>3 DEF FindingsTrue
<1>3. HInv => MarkersAnswered
  BY <1>1, <1>2 DEF MarkersAnswered, HInv
<1>4. QED BY <1>3, HostInvariant, PTL

(* Behind the whole loop no cause to refuse the source is left.            *)
LEMMA NoCauseLeft ==
  ASSUME Typed, Through
  PROVE  Causes = {}
<1>1. /\ \A i \in Expressions : Handled(i)
      /\ \A i \in Sites : i \in Expressions \/ i \in Dynamic
      /\ Visited = Units
  BY AllHandled, SitesFound DEF Through, Visited
<1>2. \A c \in DOMAIN doc : doc[c].text \in Directive \cup {"bad"} => doc[c].kind = "comment"
  <2> SUFFICES ASSUME NEW c \in DOMAIN doc PROVE doc[c].text \in Directive \cup {"bad"} => doc[c].kind = "comment"
    OBVIOUS
  <2>1. doc[c] \in Token
    BY DEF Typed
  <2>2. QED BY <2>1 DEF Token, CommentText, Directive, SqlText, Laid
<1>3. "malformed" \notin Causes
  <2>1. ASSUME lang = "rust", NEW c \in DOMAIN doc, doc[c].text = "bad" PROVE FALSE
    <3>1. c \in Says("bad")
      BY <1>2, <2>1 DEF Says, Comments
    <3>2. QED BY <2>1, <3>1 DEF Through, Loop, Progress, Malformed
  <2>2. QED BY <2>1 DEF Causes
<1>4. "misplaced" \notin Causes
  <2>1. ASSUME NEW c \in DOMAIN doc, doc[c].text \in Directive,
               doc[c].text = "file" \/ \A i \in Sites : c \notin Governing(i)
        PROVE  FALSE
    <3>1. c \in Comments
      BY <1>2, <2>1 DEF Comments
    <3>2. doc[c].text # "file"
      BY <3>1 DEF Says, Through, Loop, Progress
    <3>3. c \in Directives
      BY <2>1, <3>1 DEF Directives, Says
    <3>4. PICK u \in Units : c \in Attached(u)
      BY <1>1, <3>3 DEF Unconsumed, Through, Loop, Progress
    <3>5. PICK i \in Sites : UnitOf(i) = u
      BY <3>4, UnitsFound
    <3>6. c \in Governing(i)
      BY <3>4, <3>5, DirectivesFound
    <3>7. QED BY <2>1, <3>2, <3>6
  <2>2. QED BY <2>1 DEF Causes
<1>5. "conflict" \notin Causes
  <2>1. ASSUME NEW i \in Sites, Told(i, "sql"), Told(i, "ignore") PROVE FALSE
    <3>1. UnitOf(i) \in Visited
      BY <1>1, UnitsFound
    <3>2. ~ (Ignored(UnitOf(i)) /\ Explicit(UnitOf(i)))
      BY <3>1 DEF Through, Loop, Progress
    <3>3. Explicit(UnitOf(i)) /\ Ignored(UnitOf(i))
      BY <2>1, DirectivesFound DEF Explicit, Ignored, Directive
    <3>4. QED BY <3>2, <3>3
  <2>2. QED BY <2>1 DEF Causes
<1>6. ASSUME NEW i \in Sites, Wanted(i) PROVE i \in Expressions /\ ~ Refused(i)
  <2>1. i \in Expressions
    BY <1>1, <1>6, SitesFound DEF Wanted
  <2>2. QED BY <1>1, <1>6, <2>1 DEF Through, Loop, Answered
<1>7. "disabled" \notin Causes
  BY <1>6 DEF Causes, Refused
<1>8. "literal" \notin Causes
  <2>1. ASSUME NEW i \in Sites, Rewritten(i), lang = "go", doc[i].kind # "raw", doc[i].text \in {"ctrl", "bell"}
        PROVE  FALSE
    <3>1. i \in Expressions
      BY <1>6, <2>1 DEF Rewritten, IsSql
    <3>2. ReadsBack(i)
      BY <1>1, <2>1, <3>1 DEF Through, Loop, Edited
    <3>3. QED BY <2>1, <3>1, <3>2, RenderingJudged
  <2>2. ASSUME NEW i \in Sites, Wanted(i), AllowedKind(i), doc[i].text = "bytes", Told(i, "sql") \/ lang = "rust"
        PROVE  FALSE
    BY <1>6, <2>2 DEF Refused
  <2>3. QED BY <2>1, <2>2 DEF Causes
<1>9. QED BY <1>3, <1>4, <1>5, <1>7, <1>8 DEF Causes, Errors

(* A source is accepted exactly when nothing in it is a cause to refuse    *)
(* it, and is refused for a cause it has.  formatter-design.md: unmatched, *)
(* conflicting and misplaced directives fail the complete source.          *)
THEOREM DirectivesDecide == Spec => []DirectivesJudged
<1>1. HInv => DirectivesJudged
  <2> SUFFICES ASSUME HInv, state = "done", FileIgnored => result # "ok"
               PROVE  (result = "ok" <=> Causes = {}) /\ (result # "ok" => result \in Causes)
    BY DEF DirectivesJudged
  <2>1. Typed /\ (result \in Causes \/ (result = "ok" /\ Through))
    BY DEF HInv, TypeOK, Typed, Outcome
  <2>2. CASE result \in Causes
    BY <2>2 DEF Causes, Errors
  <2>3. CASE result = "ok" /\ Through
    BY <2>1, <2>3, NoCauseLeft
  <2>4. QED BY <2>1, <2>2, <2>3
<1>2. QED BY <1>1, HostInvariant, PTL

(* The output is the source with exactly the SQL literals replaced, token  *)
(* by token.  User guide: surrounding code is preserved, and literals are  *)
(* formatted where they stand.                                             *)
THEOREM OutputIsTokenByToken == Spec => []TokenByToken
<1>1. HInv => TokenByToken
  <2> SUFFICES ASSUME HInv, Accepted, options.policy = "error" => diags = {}
               PROVE  AllFormatted
    BY DEF TokenByToken
  <2>1. Typed /\ Outcome /\ output \in Seq(Token)
    BY DEF HInv, TypeOK, Typed
  <2>2. result \notin Causes /\ result = "ok" /\ state = "done"
    BY DEF Accepted, Causes, Errors
  <2>3. CASE FileIgnored /\ output = doc
    <3>1. \A i \in DOMAIN doc : Becomes(i) = <<doc[i]>>
      BY <2>3 DEF Becomes, Rewritten
    <3>2. output = Prefix[Len(doc)]
      BY <2>1, <2>3, <3>1, NothingWritten
    <3>3. QED BY <2>1, <3>2, PrefixIsWhole
  <2>4. CASE Through /\ output = IF Withheld THEN doc ELSE Prefix[Len(doc)]
    <3>1. ~ Withheld
      BY DEF Withheld
    <3>2. QED BY <2>1, <2>4, <3>1, PrefixIsWhole
  <2>5. QED BY <2>1, <2>2, <2>3, <2>4 DEF Outcome
<1>2. QED BY <1>1, HostInvariant, PTL

-----------------------------------------------------------------------------
(***************************************************************************)
(* A text and what it becomes, read side by side.  Everything up to token  *)
(* i of text d has become the tokens up to place[i] of text e; the tokens  *)
(* of W are literals that got another spelling.                            *)
(***************************************************************************)
At(place, i) == place[i - 1] + 1

Respelled(d, e, place, i) ==
  /\ d[i].kind \in Literal /\ e[At(place, i)].kind \in {"raw", "quoted"}
  /\ \/ place[i] = At(place, i)
     \/ place[i] = At(place, i) + 1 /\ e[place[i]] = Mark("tail")

Carried(d, e, W, place) ==
  /\ d \in Seq(Token) /\ e \in Seq(Token)
  /\ place \in [0 .. Len(d) -> Nat] /\ place[0] = 0 /\ place[Len(d)] = Len(e)
  /\ \A i \in 1 .. Len(d) :
       \/ i \in W /\ Respelled(d, e, place, i)
       \/ i \notin W /\ place[i] = At(place, i) /\ e[At(place, i)] = d[i]
       \/ i \notin W /\ place[i] = place[i - 1] /\ d[i].kind = "tail" /\ i # 1 /\ i - 1 \in W

(* Places follow the order of the tokens.                                  *)
LEMMA PlacesAscend ==
  ASSUME NEW d, NEW e, NEW W, NEW place, Carried(d, e, W, place)
  PROVE  \A k \in 0 .. Len(d) : \A i \in 0 .. k : place[i] <= place[k]
<1> DEFINE n == Len(d)
           T == {k \in 0 .. n : \A i \in 0 .. k : place[i] <= place[k]}
<1>1. n \in Nat /\ place \in [0 .. n -> Nat]
  BY DEF Carried
<1> HIDE DEF n
<1>2. 0 \in T
  <2>1. \A i \in 0 .. 0 : i = 0
    OBVIOUS
  <2>2. 0 \in 0 .. n /\ place[0] \in Nat
    BY <1>1
  <2>3. place[0] <= place[0]
    BY <2>2
  <2>4. QED BY <2>1, <2>2, <2>3
<1>3. ASSUME NEW k \in 0 .. n - 1, k \in T PROVE k + 1 \in T
  <2>1. PICK m : m = k + 1
    OBVIOUS
  <2>2. m \in 1 .. n /\ m \in 0 .. n /\ m - 1 = k /\ k \in 0 .. n /\ \A i \in 0 .. m : i \in 0 .. k \/ i = m
    BY <1>1, <2>1
  <2>3. place[k] \in Nat /\ place[m] \in Nat /\ At(place, m) = place[k] + 1
    BY <1>1, <2>2 DEF At
  <2>4. place[m] = At(place, m) \/ place[m] = At(place, m) + 1 \/ place[m] = place[k]
    BY <2>2 DEF Carried, Respelled, n
  <2>5. place[k] <= place[m] /\ place[m] <= place[m]
    BY <2>3, <2>4
  <2>6. \A i \in 0 .. k : place[i] \in Nat /\ place[i] <= place[k]
    <3>1. \A i \in 0 .. k : i \in 0 .. n
      BY <1>1
    <3>2. QED BY <1>1, <1>3, <3>1
  <2>7. \A i \in 0 .. m : place[i] <= place[m]
    BY <2>2, <2>3, <2>5, <2>6
  <2>8. QED BY <2>1, <2>2, <2>7
<1> HIDE DEF T
<1>4. 0 .. n \subseteq T
  BY <1>1, <1>2, <1>3, Ascent
<1>5. QED BY <1>4 DEF T, n

(* Every token of the new text is the rest of a literal or stands where a  *)
(* token of the old text went.                                             *)
LEMMA EveryPlaceTaken ==
  ASSUME NEW d, NEW e, NEW W, NEW place, Carried(d, e, W, place), NEW q \in 1 .. Len(e)
  PROVE  \/ e[q].kind = "tail"
         \/ \E i \in 1 .. Len(d) : /\ q = At(place, i)
                                   /\ \/ i \in W /\ Respelled(d, e, place, i)
                                      \/ i \notin W /\ e[q] = d[i]
<1> DEFINE n == Len(d)
           Taken(p) == \/ e[p].kind = "tail"
                       \/ \E i \in 1 .. n : /\ p = At(place, i)
                                            /\ \/ i \in W /\ Respelled(d, e, place, i)
                                               \/ i \notin W /\ e[p] = d[i]
           T == {k \in 0 .. n : \A p \in 1 .. place[k] : Taken(p)}
<1>1. n \in Nat /\ place \in [0 .. n -> Nat] /\ place[0] = 0
  BY DEF Carried
<1>2. ASSUME NEW m \in 1 .. n, \A p \in 1 .. place[m - 1] : Taken(p)
      PROVE  \A p \in 1 .. place[m] : Taken(p)
  <2>1. \/ m \in W /\ Respelled(d, e, place, m)
        \/ m \notin W /\ place[m] = At(place, m) /\ e[At(place, m)] = d[m]
        \/ m \notin W /\ place[m] = place[m - 1]
    BY DEF Carried
  <2> HIDE DEF n
  <2>2. m - 1 \in 0 .. n /\ m \in 0 .. n
    BY <1>1
  <2>3. place[m - 1] \in Nat /\ place[m] \in Nat /\ At(place, m) = place[m - 1] + 1
    BY <1>1, <2>2 DEF At
  <2>4. CASE m \in W /\ Respelled(d, e, place, m)
    <3>1. Taken(At(place, m))
      BY <2>4
    <3>2. CASE place[m] = At(place, m)
      <4>1. \A p \in 1 .. place[m] : p \in 1 .. place[m - 1] \/ p = At(place, m)
        BY <2>3, <3>2
      <4> HIDE DEF Taken
      <4>2. QED BY <1>2, <3>1, <4>1
    <3>3. CASE place[m] = At(place, m) + 1 /\ e[place[m]] = Mark("tail")
      <4>1. \A p \in 1 .. place[m] : p \in 1 .. place[m - 1] \/ p = At(place, m) \/ p = place[m]
        BY <2>3, <3>3
      <4>2. Taken(place[m])
        BY <3>3 DEF Mark, Tok
      <4> HIDE DEF Taken
      <4>3. QED BY <1>2, <3>1, <4>1, <4>2
    <3>4. QED BY <2>4, <3>2, <3>3 DEF Respelled
  <2>5. CASE m \notin W /\ place[m] = At(place, m) /\ e[At(place, m)] = d[m]
    <3>1. Taken(At(place, m))
      BY <2>5
    <3>2. \A p \in 1 .. place[m] : p \in 1 .. place[m - 1] \/ p = At(place, m)
      BY <2>3, <2>5
    <3> HIDE DEF Taken
    <3>3. QED BY <1>2, <3>1, <3>2
  <2>6. CASE place[m] = place[m - 1]
    BY <1>2, <2>6
  <2>7. QED BY <2>1, <2>4, <2>5, <2>6
<1>3. 0 \in T
  <2> HIDE DEF n, Taken
  <2>1. 0 \in 0 .. n /\ \A p \in 1 .. place[0] : FALSE
    BY <1>1
  <2>2. QED BY <2>1
<1>4. ASSUME NEW k \in 0 .. n - 1, k \in T PROVE k + 1 \in T
  <2> HIDE DEF n, Taken
  <2>1. PICK m : m = k + 1
    OBVIOUS
  <2>2. m \in 1 .. n /\ m \in 0 .. n /\ m - 1 = k
    BY <1>1, <2>1
  <2>3. \A p \in 1 .. place[m - 1] : Taken(p)
    BY <1>4, <2>2
  <2>4. QED BY <1>2, <2>1, <2>2, <2>3
<1> HIDE DEF T, n, Taken
<1>5. 0 .. n \subseteq T
  BY <1>1, <1>3, <1>4, Ascent
<1>6. n \in T /\ place[n] = Len(e)
  BY <1>1, <1>5 DEF Carried, n
<1>7. Taken(q)
  BY <1>6 DEF T
<1>8. QED BY <1>7 DEF Taken, n

(* The comments above and the statements around each token of a text.      *)
AboveRead(d, l, f) ==
  /\ f[0] = {}
  /\ \A i \in 1 .. Len(d) :
       /\ d[i].kind = "comment" => f[i] = f[i - 1] \cup {i}
       /\ d[i].kind = "gap" /\ l = "rust" => f[i] = f[i - 1]
       /\ d[i].kind # "comment" /\ ~ (d[i].kind = "gap" /\ l = "rust") => f[i] = {}

OpenRead(d, g) ==
  /\ g \in [0 .. Len(d) -> Seq(Nat)] /\ g[0] = <<>>
  /\ \A i \in 1 .. Len(d) :
       /\ d[i].kind \in Opening => g[i] = Append(g[i - 1], i)
       /\ d[i].kind = "end" => g[i] = Front(g[i - 1])
       /\ d[i].kind \notin Opening \cup {"end"} => g[i] = g[i - 1]

(* The comments above a token move with the tokens.                        *)
LEMMA AboveCarried ==
  ASSUME NEW d, NEW e, NEW W, NEW place, Carried(d, e, W, place),
         NEW l, NEW f, NEW f2, AboveRead(d, l, f), AboveRead(e, l, f2)
  PROVE  \A i \in 0 .. Len(d) :
           /\ f[i] \subseteq {c \in 1 .. i : d[c].kind = "comment"}
           /\ f2[place[i]] = {At(place, c) : c \in f[i]}
<1> DEFINE n == Len(d)
           Said(i)  == {c \in 1 .. i : d[c].kind = "comment"}
           Moved(i) == f[i] \subseteq Said(i) /\ f2[place[i]] = {At(place, c) : c \in f[i]}
           T == {i \in 0 .. n : Moved(i)}
<1>1. n \in Nat /\ place \in [0 .. n -> Nat] /\ place[0] = 0 /\ Len(e) \in Nat
  BY DEF Carried
<1>2. 0 \in T
  <2>1. f[0] = {} /\ f2[0] = {}
    BY DEF AboveRead
  <2> HIDE DEF n
  <2>2. QED BY <1>1, <2>1
<1>3. ASSUME NEW m \in 1 .. n, Moved(m - 1) PROVE Moved(m)
  <2>1. PICK a : a = f[m - 1]
    OBVIOUS
  <2>2. PICK b : b = f2[place[m - 1]]
    OBVIOUS
  <2>3. PICK q : q = At(place, m)
    OBVIOUS
  <2>4. /\ d[m].kind = "comment" => f[m] = a \cup {m}
        /\ d[m].kind = "gap" /\ l = "rust" => f[m] = a
        /\ d[m].kind # "comment" /\ ~ (d[m].kind = "gap" /\ l = "rust") => f[m] = {}
    BY <2>1 DEF AboveRead
  <2>5. a \subseteq Said(m - 1) /\ b = {At(place, c) : c \in a}
    BY <1>3, <2>1, <2>2
  <2>6. Said(m - 1) \subseteq Said(m) /\ m \in 1 .. m
    BY <1>1
  <2>7. /\ m - 1 \in 0 .. n /\ m \in 0 .. n /\ place[m - 1] \in Nat /\ place[m] \in Nat
        /\ q = place[m - 1] + 1 /\ q - 1 = place[m - 1] /\ (q + 1) - 1 = q
    BY <1>1, <2>3 DEF At
  <2>8. place[m] <= Len(e)
    <3>1. n \in 0 .. n /\ m \in 0 .. n
      BY <1>1
    <3>2. place[m] <= place[n]
      BY <3>1, PlacesAscend
    <3>3. QED BY <3>2 DEF Carried
  <2>9. /\ q <= Len(e) => q \in 1 .. Len(e)
        /\ q + 1 <= Len(e) => q + 1 \in 1 .. Len(e) /\ q \in 1 .. Len(e)
    BY <1>1, <2>7
  <2>10. ASSUME q \in 1 .. Len(e)
         PROVE  /\ e[q].kind = "comment" => f2[q] = b \cup {q}
                /\ e[q].kind = "gap" /\ l = "rust" => f2[q] = b
                /\ e[q].kind # "comment" /\ ~ (e[q].kind = "gap" /\ l = "rust") => f2[q] = {}
    BY <2>2, <2>7, <2>10 DEF AboveRead
  <2>11. CASE m \in W /\ Respelled(d, e, place, m)
    <3>1. d[m].kind # "comment" /\ d[m].kind # "gap" /\ e[q].kind # "comment" /\ e[q].kind # "gap"
      BY <2>3, <2>11 DEF Respelled, Literal
    <3>2. f[m] = {}
      BY <2>4, <3>1
    <3>3. CASE place[m] = q
      <4>1. f2[q] = {}
        BY <2>8, <2>9, <2>10, <3>1, <3>3
      <4>2. QED BY <3>2, <3>3, <4>1
    <3>4. CASE place[m] = q + 1 /\ e[q + 1] = Mark("tail")
      <4>1. q + 1 \in 1 .. Len(e) /\ e[q + 1].kind = "tail"
        BY <2>8, <2>9, <3>4 DEF Mark, Tok
      <4>2. f2[q + 1] = {}
        BY <4>1 DEF AboveRead
      <4>3. QED BY <3>2, <3>4, <4>2
    <3>5. QED BY <2>3, <2>11, <3>3, <3>4 DEF Respelled
  <2>12. CASE m \notin W /\ place[m] = q /\ e[q] = d[m]
    <3>1. q \in 1 .. Len(e)
      BY <2>8, <2>9, <2>12
    <3>2. CASE d[m].kind = "comment"
      <4>1. f[m] = a \cup {m} /\ f2[place[m]] = b \cup {q}
        BY <2>4, <2>10, <2>12, <3>1, <3>2
      <4>2. m \in Said(m)
        BY <2>6, <3>2
      <4> HIDE DEF Said
      <4>3. f[m] \subseteq Said(m)
        BY <2>5, <2>6, <4>1, <4>2
      <4>4. b \cup {q} = {At(place, c) : c \in a \cup {m}}
        BY <2>3, <2>5
      <4>5. QED BY <4>1, <4>3, <4>4
    <3>3. CASE d[m].kind = "gap" /\ l = "rust"
      <4>1. f[m] = a /\ f2[place[m]] = b
        BY <2>4, <2>10, <2>12, <3>1, <3>3
      <4>2. QED BY <2>5, <2>6, <4>1
    <3>4. CASE d[m].kind # "comment" /\ ~ (d[m].kind = "gap" /\ l = "rust")
      <4>1. f[m] = {} /\ f2[place[m]] = {}
        BY <2>4, <2>10, <2>12, <3>1, <3>4
      <4>2. QED BY <4>1
    <3>5. QED BY <3>2, <3>3, <3>4
  <2>13. CASE m \notin W /\ place[m] = place[m - 1] /\ d[m].kind = "tail" /\ m # 1 /\ m - 1 \in W
    <3>1. f[m] = {}
      BY <2>4, <2>13
    <3>2. m - 1 \in 1 .. n
      BY <1>1, <2>13
    <3>3. d[m - 1].kind \in Literal
      BY <2>13, <3>2 DEF Carried, Respelled
    <3>4. a = {}
      BY <2>1, <3>2, <3>3 DEF AboveRead, Literal
    <3>5. b = {}
      BY <2>5, <3>4
    <3>6. QED BY <2>2, <2>13, <3>1, <3>5
  <2>14. QED BY <2>3, <2>11, <2>12, <2>13 DEF Carried
<1>4. ASSUME NEW i \in 0 .. n - 1, i \in T PROVE i + 1 \in T
  <2> HIDE DEF n, Moved
  <2>1. PICK m : m = i + 1
    OBVIOUS
  <2>2. m \in 1 .. n /\ m \in 0 .. n /\ m - 1 = i
    BY <1>1, <2>1
  <2>3. Moved(m - 1)
    BY <1>4, <2>2
  <2>4. QED BY <1>3, <2>1, <2>2, <2>3
<1> HIDE DEF T, n, Moved
<1>5. 0 .. n \subseteq T
  BY <1>1, <1>2, <1>4, Ascent
<1>6. \A i \in 0 .. n : Moved(i)
  BY <1>5 DEF T
<1>7. QED BY <1>6 DEF Moved, Said, n

(* One sequence of tokens is the other with every token moved.             *)
MovedAlong(d, e, place, i, s, t) ==
  /\ s \in Seq(Nat) /\ t \in Seq(Nat) /\ Len(s) = Len(t)
  /\ \A a \in 1 .. Len(s) : s[a] \in 1 .. i /\ t[a] = At(place, s[a]) /\ e[t[a]] = d[s[a]]

(* The statements around a token move with the tokens.                     *)
LEMMA OpenCarried ==
  ASSUME NEW d, NEW e, NEW W, NEW place, Carried(d, e, W, place),
         NEW g, NEW g2, OpenRead(d, g), OpenRead(e, g2)
  PROVE  \A i \in 0 .. Len(d) : MovedAlong(d, e, place, i, g[i], g2[place[i]])
<1> DEFINE n == Len(d)
           Moved(i) == MovedAlong(d, e, place, i, g[i], g2[place[i]])
           T == {i \in 0 .. n : Moved(i)}
<1>1. n \in Nat /\ place \in [0 .. n -> Nat] /\ place[0] = 0 /\ Len(e) \in Nat
  BY DEF Carried
<1>2. 0 \in T
  <2>1. g[0] = <<>> /\ g2[0] = <<>> /\ <<>> \in Seq(Nat) /\ Len(<<>>) = 0
    BY DEF OpenRead
  <2>2. MovedAlong(d, e, place, 0, <<>>, <<>>)
    BY <2>1 DEF MovedAlong
  <2> HIDE DEF n
  <2>3. QED BY <1>1, <2>1, <2>2
<1>3. ASSUME NEW m \in 1 .. n, Moved(m - 1) PROVE Moved(m)
  <2>1. PICK s : s = g[m - 1]
    OBVIOUS
  <2>2. PICK t : t = g2[place[m - 1]]
    OBVIOUS
  <2>3. PICK q : q = At(place, m)
    OBVIOUS
  <2>4. /\ d[m].kind \in Opening => g[m] = Append(s, m)
        /\ d[m].kind = "end" => g[m] = Front(s)
        /\ d[m].kind \notin Opening \cup {"end"} => g[m] = s
    BY <2>1 DEF OpenRead
  <2>5. MovedAlong(d, e, place, m - 1, s, t)
    BY <1>3, <2>1, <2>2
  <2>6. /\ s \in Seq(Nat) /\ t \in Seq(Nat) /\ Len(s) = Len(t) /\ Len(s) \in Nat
        /\ \A a \in 1 .. Len(s) : s[a] \in 1 .. m /\ t[a] = At(place, s[a]) /\ e[t[a]] = d[s[a]]
    <3>1. 1 .. m - 1 \subseteq 1 .. m
      BY <1>1
    <3>2. QED BY <2>5, <3>1 DEF MovedAlong
  <2>7. /\ m - 1 \in 0 .. n /\ m \in 0 .. n /\ place[m - 1] \in Nat /\ place[m] \in Nat
        /\ q = place[m - 1] + 1 /\ q - 1 = place[m - 1] /\ (q + 1) - 1 = q /\ q \in Nat /\ m \in Nat /\ m \in 1 .. m
    BY <1>1, <2>3 DEF At
  <2>8. place[m] <= Len(e)
    <3>1. n \in 0 .. n /\ m \in 0 .. n
      BY <1>1
    <3>2. place[m] <= place[n]
      BY <3>1, PlacesAscend
    <3>3. QED BY <3>2 DEF Carried
  <2>9. /\ q <= Len(e) => q \in 1 .. Len(e)
        /\ q + 1 <= Len(e) => q + 1 \in 1 .. Len(e) /\ q \in 1 .. Len(e)
    BY <1>1, <2>7
  <2>10. ASSUME q \in 1 .. Len(e)
         PROVE  /\ e[q].kind \in Opening => g2[q] = Append(t, q)
                /\ e[q].kind = "end" => g2[q] = Front(t)
                /\ e[q].kind \notin Opening \cup {"end"} => g2[q] = t
    BY <2>2, <2>7, <2>10 DEF OpenRead
  <2>11. MovedAlong(d, e, place, m, s, t)
    BY <2>6 DEF MovedAlong
  <2>12. CASE m \in W /\ Respelled(d, e, place, m)
    <3>1. d[m].kind \notin Opening \cup {"end"} /\ e[q].kind \notin Opening \cup {"end"}
      BY <2>3, <2>12 DEF Respelled, Literal, Opening
    <3>2. g[m] = s
      BY <2>4, <3>1
    <3>3. CASE place[m] = q
      <4>1. g2[q] = t
        BY <2>8, <2>9, <2>10, <3>1, <3>3
      <4>2. QED BY <2>11, <3>2, <3>3, <4>1
    <3>4. CASE place[m] = q + 1 /\ e[q + 1] = Mark("tail")
      <4>1. q + 1 \in 1 .. Len(e) /\ e[q + 1].kind = "tail" /\ q \in 1 .. Len(e)
        BY <2>8, <2>9, <3>4 DEF Mark, Tok
      <4>2. g2[q] = t
        BY <2>10, <3>1, <4>1
      <4>3. g2[q + 1] = g2[q]
        BY <2>7, <4>1 DEF OpenRead, Opening
      <4>4. QED BY <2>11, <3>2, <3>4, <4>2, <4>3
    <3>5. QED BY <2>3, <2>12, <3>3, <3>4 DEF Respelled
  <2>13. CASE m \notin W /\ place[m] = q /\ e[q] = d[m]
    <3>1. q \in 1 .. Len(e)
      BY <2>8, <2>9, <2>13
    <3>2. CASE d[m].kind \in Opening
      <4>1. g[m] = Append(s, m) /\ g2[place[m]] = Append(t, q)
        BY <2>4, <2>10, <2>13, <3>1, <3>2
      <4>2. PICK s2 : s2 = Append(s, m)
        OBVIOUS
      <4>3. PICK t2 : t2 = Append(t, q)
        OBVIOUS
      <4>4. /\ s2 \in Seq(Nat) /\ Len(s2) = Len(s) + 1 /\ s2[Len(s) + 1] = m /\ \A a \in 1 .. Len(s) : s2[a] = s[a]
            /\ t2 \in Seq(Nat) /\ Len(t2) = Len(s) + 1 /\ t2[Len(s) + 1] = q /\ \A a \in 1 .. Len(s) : t2[a] = t[a]
        <5>1. s2 \in Seq(Nat) /\ Len(s2) = Len(s) + 1 /\ s2[Len(s) + 1] = m /\ \A a \in 1 .. Len(s) : s2[a] = s[a]
          BY <2>6, <2>7, <4>2, AppendProperties
        <5>2. t2 \in Seq(Nat) /\ Len(t2) = Len(t) + 1 /\ t2[Len(t) + 1] = q /\ \A a \in 1 .. Len(t) : t2[a] = t[a]
          BY <2>6, <2>7, <4>3, AppendProperties
        <5>3. QED BY <2>6, <5>1, <5>2
      <4>5. \A a \in 1 .. Len(s) + 1 : a \in 1 .. Len(s) \/ a = Len(s) + 1
        BY <2>6
      <4>6. MovedAlong(d, e, place, m, s2, t2)
        BY <2>3, <2>6, <2>7, <2>13, <4>4, <4>5 DEF MovedAlong
      <4>7. QED BY <4>1, <4>2, <4>3, <4>6
    <3>3. CASE d[m].kind = "end"
      <4>1. g[m] = Front(s) /\ g2[place[m]] = Front(t)
        BY <2>4, <2>10, <2>13, <3>1, <3>3
      <4>2. PICK s2 : s2 = Front(s)
        OBVIOUS
      <4>3. PICK t2 : t2 = Front(t)
        OBVIOUS
      <4>4. /\ s2 \in Seq(Nat) /\ (s = <<>> => s2 = <<>>)
            /\ s # <<>> => Len(s2) = Len(s) - 1 /\ \A a \in 1 .. Len(s) - 1 : s2[a] = s[a]
        BY <2>6, <4>2, FrontTyped
      <4>5. /\ t2 \in Seq(Nat) /\ (t = <<>> => t2 = <<>>)
            /\ t # <<>> => Len(t2) = Len(t) - 1 /\ \A a \in 1 .. Len(t) - 1 : t2[a] = t[a]
        BY <2>6, <4>3, FrontTyped
      <4>6. CASE s = <<>>
        <5>1. t = <<>> /\ s2 = <<>> /\ t2 = <<>> /\ Len(<<>>) = 0
          BY <2>6, <4>4, <4>5, <4>6
        <5>2. MovedAlong(d, e, place, m, s2, t2)
          BY <4>4, <4>5, <5>1 DEF MovedAlong
        <5>3. QED BY <4>1, <4>2, <4>3, <5>2
      <4>7. CASE s # <<>>
        <5>1. t # <<>>
          BY <2>6, <4>7
        <5>2. \A a \in 1 .. Len(s) - 1 : a \in 1 .. Len(s)
          BY <2>6
        <5>3. Len(s2) = Len(s) - 1 /\ Len(t2) = Len(s) - 1
          BY <2>6, <4>4, <4>5, <4>7, <5>1
        <5>4. \A a \in 1 .. Len(s) - 1 : s2[a] = s[a] /\ t2[a] = t[a]
          BY <2>6, <4>4, <4>5, <4>7, <5>1
        <5>5. MovedAlong(d, e, place, m, s2, t2)
          BY <2>6, <4>4, <4>5, <5>2, <5>3, <5>4 DEF MovedAlong
        <5>6. QED BY <4>1, <4>2, <4>3, <5>5
      <4>8. QED BY <4>6, <4>7
    <3>4. CASE d[m].kind \notin Opening \cup {"end"}
      <4>1. g[m] = s /\ g2[place[m]] = t
        BY <2>4, <2>10, <2>13, <3>1, <3>4
      <4>2. QED BY <2>11, <4>1
    <3>5. QED BY <3>2, <3>3, <3>4
  <2>14. CASE m \notin W /\ place[m] = place[m - 1] /\ d[m].kind = "tail" /\ m # 1 /\ m - 1 \in W
    <3>1. g[m] = s
      BY <2>4, <2>14 DEF Opening
    <3>2. QED BY <2>2, <2>11, <2>14, <3>1
  <2>15. QED BY <2>3, <2>12, <2>13, <2>14 DEF Carried
<1>4. ASSUME NEW i \in 0 .. n - 1, i \in T PROVE i + 1 \in T
  <2> HIDE DEF n, Moved
  <2>1. PICK m : m = i + 1
    OBVIOUS
  <2>2. m \in 1 .. n /\ m \in 0 .. n /\ m - 1 = i
    BY <1>1, <2>1
  <2>3. Moved(m - 1)
    BY <1>4, <2>2
  <2>4. QED BY <1>3, <2>1, <2>2, <2>3
<1> HIDE DEF T, n, Moved
<1>5. 0 .. n \subseteq T
  BY <1>1, <1>2, <1>4, Ascent
<1>6. \A i \in 0 .. n : Moved(i)
  BY <1>5 DEF T
<1>7. QED BY <1>6 DEF Moved, n

(* What a token becomes: itself, another spelling, or nothing.             *)
Written(i, s) ==
  \E kind \in {"raw", "quoted"} :
    LET new == Tok(kind, Formatted(options.policy, doc[i].text))
    IN  s = <<new>> \/ s = <<new, Mark("tail")>>

LEMMA BecomesShape ==
  ASSUME Typed, NEW i \in DOMAIN doc
  PROVE  \/ Rewritten(i) /\ doc[i].kind \in Literal /\ Written(i, Becomes(i))
         \/ ~ Rewritten(i) /\ Becomes(i) = <<doc[i]>>
         \/ ~ Rewritten(i) /\ Becomes(i) = <<>> /\ doc[i].kind = "tail" /\ i # 1 /\ Rewritten(i - 1)
<1>1. CASE Rewritten(i)
  <2>1. i \in Expressions
    BY <1>1, SitesFound DEF Rewritten, IsSql, Wanted
  <2>2. doc[i].kind \in Literal
    BY <2>1, SitesFound
  <2>3. PICK t : t = Formatted(options.policy, doc[i].text)
    OBVIOUS
  <2>4. PICK kind : kind = IF lang = "go" THEN GoKind(options.style, doc[i].kind, t)
                                          ELSE RustKind(options.style, doc[i].kind, t)
    OBVIOUS
  <2>5. kind \in {"raw", "quoted"}
    BY <2>4 DEF GoKind, RustKind
  <2>6. Becomes(i) = Spelled(kind, t)
    BY <1>1, <2>2, <2>3, <2>4 DEF Becomes, Literal
  <2>7. Becomes(i) = <<Tok(kind, t)>> \/ Becomes(i) = <<Tok(kind, t), Mark("tail")>>
    BY <2>6 DEF Spelled
  <2>8. Written(i, Becomes(i))
    BY <2>3, <2>5, <2>7 DEF Written
  <2>9. QED BY <1>1, <2>2, <2>8
<1>2. CASE ~ Rewritten(i) /\ doc[i].kind = "tail" /\ Rewritten(i - 1)
  <2>1. i - 1 \in DOMAIN doc
    BY <1>2 DEF Rewritten, IsSql, Wanted, Sites
  <2>2. i # 1
    BY <2>1 DEF Typed
  <2>3. QED BY <1>2, <2>2 DEF Becomes
<1>3. CASE ~ Rewritten(i) /\ ~ (doc[i].kind = "tail" /\ Rewritten(i - 1))
  BY <1>3 DEF Becomes
<1>4. QED BY <1>1, <1>2, <1>3

(* The text written so far stays as it is.                                 *)
LEMMA PrefixStays ==
  ASSUME Typed
  PROVE  \A k \in 0 .. Len(doc) : \A i \in 0 .. k :
           /\ Len(Prefix[i]) <= Len(Prefix[k])
           /\ \A q \in 1 .. Len(Prefix[i]) : Prefix[k][q] = Prefix[i][q]
<1> DEFINE n == Len(doc)
           Stays(i, k) == /\ Len(Prefix[i]) <= Len(Prefix[k])
                          /\ \A q \in 1 .. Len(Prefix[i]) : Prefix[k][q] = Prefix[i][q]
           T == {k \in 0 .. n : \A i \in 0 .. k : Stays(i, k)}
<1>1. n \in Nat /\ DOMAIN doc = 1 .. n
  BY DEF Typed
<1>2. \A i \in 0 .. n : Prefix[i] \in Seq(Token) /\ Len(Prefix[i]) \in Nat
  <2>1. \A i \in 0 .. n : Prefix[i] \in Seq(Token)
    BY PrefixGrows
  <2>2. \A s \in Seq(Token) : Len(s) \in Nat
    OBVIOUS
  <2>3. QED BY <2>1, <2>2
<1>3. \A i \in 0 .. n : Stays(i, i)
  BY <1>2
<1>4. ASSUME NEW m \in 1 .. n, NEW i \in 0 .. m - 1, Stays(i, m - 1) PROVE Stays(i, m)
  <2>1. PICK s : s = Prefix[m - 1]
    OBVIOUS
  <2>2. PICK b : b = Becomes(m)
    OBVIOUS
  <2>3. s \in Seq(Token) /\ b \in Seq(Token) /\ Prefix[m] = s \o b
    <3>1. m - 1 \in 0 .. n /\ m \in DOMAIN doc
      BY <1>1
    <3>2. QED BY <1>2, <2>1, <2>2, <3>1, PrefixGrows, BecomesTokens
  <2>4. Len(s \o b) = Len(s) + Len(b) /\ Len(s) \in Nat /\ Len(b) \in Nat
        /\ \A q \in 1 .. Len(s) : (s \o b)[q] = s[q]
    BY <2>3
  <2>5. PICK r : r = Prefix[i]
    OBVIOUS
  <2>6. i \in 0 .. n
    BY <1>1
  <2>7. Len(r) \in Nat
    BY <1>2, <2>5, <2>6
  <2>8. Len(r) <= Len(s) /\ \A q \in 1 .. Len(r) : s[q] = r[q]
    BY <1>4, <2>1, <2>5
  <2>9. Len(r) <= Len(s) + Len(b) /\ \A q \in 1 .. Len(r) : q \in 1 .. Len(s)
    BY <2>4, <2>7, <2>8
  <2>10. \A q \in 1 .. Len(r) : (s \o b)[q] = r[q]
    BY <2>4, <2>8, <2>9
  <2>11. QED BY <2>3, <2>4, <2>5, <2>9, <2>10
<1> HIDE DEF Stays, n
<1>5. 0 \in T
  <2>1. 0 \in 0 .. n /\ \A i \in 0 .. 0 : i = 0
    BY <1>1
  <2>2. QED BY <1>3, <2>1
<1>6. ASSUME NEW k \in 0 .. n - 1, k \in T PROVE k + 1 \in T
  <2>1. PICK m : m = k + 1
    OBVIOUS
  <2>2. /\ m \in 1 .. n /\ m \in 0 .. n /\ m - 1 = k
        /\ \A i \in 0 .. m : i \in 0 .. m - 1 \/ i = m
    BY <1>1, <2>1
  <2>3. \A i \in 0 .. m - 1 : Stays(i, m - 1)
    BY <1>6, <2>2
  <2>4. \A i \in 0 .. m : Stays(i, m)
    BY <1>3, <1>4, <2>2, <2>3
  <2>5. QED BY <2>1, <2>2, <2>4
<1> HIDE DEF T
<1>7. 0 .. n \subseteq T
  BY <1>1, <1>5, <1>6, Ascent
<1>8. QED BY <1>7 DEF T, Stays, n

(* Where each token goes when the text is written anew.                    *)
Place   == [i \in 0 .. Len(doc) |-> Len(Prefix[i])]
Rewrote == {i \in DOMAIN doc : Rewritten(i)}

(* The formatted text is the text with the rewritten literals spelled      *)
(* anew.                                                                   *)
LEMMA WrittenIsCarried ==
  ASSUME Typed, NEW e, e = Prefix[Len(doc)]
  PROVE  /\ Carried(doc, e, Rewrote, Place)
         /\ \A i \in Rewrote : e[At(Place, i)].text = Formatted(options.policy, doc[i].text)
<1>1. PICK n \in Nat : n = Len(doc) /\ DOMAIN doc = 1 .. n
  BY DEF Typed
<1>2. \A i \in 0 .. n : Prefix[i] \in Seq(Token) /\ Len(Prefix[i]) \in Nat
  BY <1>1, PrefixGrows
<1>3. PICK place : place = Place
  OBVIOUS
<1>4. /\ place \in [0 .. n -> Nat] /\ place[0] = 0 /\ place[n] = Len(e)
      /\ \A i \in 0 .. n : place[i] = Len(Prefix[i])
  <2>1. place = [i \in 0 .. n |-> Len(Prefix[i])]
    BY <1>1, <1>3 DEF Place
  <2>2. 0 \in 0 .. n /\ n \in 0 .. n /\ Len(<<>>) = 0 /\ Prefix[0] = <<>>
    BY <1>1, PrefixGrows
  <2>3. QED BY <1>1, <1>2, <2>1, <2>2
<1>5. e \in Seq(Token) /\ doc \in Seq(Token)
  <2>1. n \in 0 .. n
    OBVIOUS
  <2>2. QED BY <1>1, <1>2, <2>1 DEF Typed
<1>6. ASSUME NEW i \in 1 .. n
      PROVE  /\ \/ i \in Rewrote /\ Respelled(doc, e, place, i)
                \/ i \notin Rewrote /\ place[i] = At(place, i) /\ e[At(place, i)] = doc[i]
                \/ i \notin Rewrote /\ place[i] = place[i - 1] /\ doc[i].kind = "tail" /\ i # 1 /\ i - 1 \in Rewrote
             /\ i \in Rewrote => e[At(place, i)].text = Formatted(options.policy, doc[i].text)
  <2>1. PICK s : s = Prefix[i - 1]
    OBVIOUS
  <2>2. PICK b : b = Becomes(i)
    OBVIOUS
  <2>3. PICK p : p = Prefix[i]
    OBVIOUS
  <2>4. i - 1 \in 0 .. n /\ i \in 0 .. n /\ i \in DOMAIN doc
    BY <1>1
  <2>5. s \in Seq(Token) /\ b \in Seq(Token) /\ p = s \o b
    BY <1>1, <1>2, <2>1, <2>2, <2>3, <2>4, PrefixGrows, BecomesTokens
  <2>6. /\ Len(s) \in Nat /\ Len(b) \in Nat /\ Len(p) = Len(s) + Len(b)
        /\ \A q \in 1 .. Len(b) : p[Len(s) + q] = b[q]
    BY <2>5
  <2>7. place[i - 1] = Len(s) /\ place[i] = Len(p) /\ At(place, i) = Len(s) + 1
    BY <1>4, <2>1, <2>3, <2>4 DEF At
  <2>8. \A q \in 1 .. Len(p) : e[q] = p[q]
    <3>1. n \in 0 .. n /\ i \in 0 .. n /\ i \in 0 .. n
      BY <1>1
    <3>2. QED BY <1>1, <2>3, <3>1, PrefixStays
  <2>9. i \in Rewrote <=> Rewritten(i)
    BY <2>4 DEF Rewrote
  <2>10. CASE Rewritten(i) /\ doc[i].kind \in Literal /\ Written(i, b)
    <3> DEFINE new(k) == Tok(k, Formatted(options.policy, doc[i].text))
    <3>1. PICK kind \in {"raw", "quoted"} : b = <<new(kind)>> \/ b = <<new(kind), Mark("tail")>>
      BY <2>10 DEF Written
    <3>2. new(kind).kind \in {"raw", "quoted"} /\ new(kind).text = Formatted(options.policy, doc[i].text)
      BY <3>1 DEF Tok
    <3> HIDE DEF new
    <3>3. (Len(b) = 1 \/ (Len(b) = 2 /\ b[2] = Mark("tail"))) /\ b[1] = new(kind)
      BY <3>1
    <3>4. 1 \in 1 .. Len(b) /\ Len(s) + 1 \in 1 .. Len(p)
      BY <2>6, <3>3
    <3>5. e[Len(s) + 1] = new(kind)
      BY <2>6, <2>8, <3>3, <3>4
    <3>6. CASE Len(b) = 1
      <4>1. place[i] = At(place, i)
        BY <2>6, <2>7, <3>6
      <4>2. QED BY <2>7, <2>9, <2>10, <3>2, <3>5, <4>1 DEF Respelled
    <3>7. CASE Len(b) = 2 /\ b[2] = Mark("tail")
      <4>1. 2 \in 1 .. Len(b) /\ Len(s) + 2 \in 1 .. Len(p) /\ place[i] = Len(s) + 2 /\ place[i] = At(place, i) + 1
        BY <2>6, <2>7, <3>7
      <4>2. e[Len(s) + 2] = Mark("tail")
        BY <2>6, <2>8, <3>7, <4>1
      <4>3. QED BY <2>7, <2>9, <2>10, <3>2, <3>5, <4>1, <4>2 DEF Respelled
    <3>8. QED BY <3>3, <3>6, <3>7
  <2>11. CASE ~ Rewritten(i) /\ b = <<doc[i]>>
    <3>1. Len(b) = 1 /\ b[1] = doc[i]
      BY <2>11
    <3>2. 1 \in 1 .. Len(b) /\ Len(s) + 1 \in 1 .. Len(p) /\ place[i] = Len(s) + 1
      BY <2>6, <2>7, <3>1
    <3>3. e[Len(s) + 1] = doc[i]
      BY <2>6, <2>8, <3>1, <3>2
    <3>4. QED BY <2>7, <2>9, <2>11, <3>2, <3>3
  <2>12. CASE ~ Rewritten(i) /\ b = <<>> /\ doc[i].kind = "tail" /\ i # 1 /\ Rewritten(i - 1)
    <3>1. Len(b) = 0
      BY <2>12
    <3>2. place[i] = place[i - 1] /\ i - 1 \in 1 .. n
      BY <1>1, <2>6, <2>7, <2>12, <3>1
    <3>3. i - 1 \in Rewrote
      BY <1>1, <2>12, <3>2 DEF Rewrote
    <3>4. QED BY <2>9, <2>12, <3>2, <3>3
  <2>13. QED BY <2>2, <2>4, <2>10, <2>11, <2>12, BecomesShape
<1>7. Carried(doc, e, Rewrote, place)
  BY <1>1, <1>4, <1>5, <1>6 DEF Carried
<1>8. \A i \in Rewrote : e[At(place, i)].text = Formatted(options.policy, doc[i].text)
  BY <1>1, <1>6 DEF Rewrote
<1>9. QED BY <1>3, <1>7, <1>8

(* Sites and the directives that govern them, of any text.                 *)
SitesOf(d, l, g) ==
  {i \in DOMAIN d :
     \/ l = "go" /\ d[i].kind \in Literal \cup {"dyn"} /\ g[i] # <<>>
     \/ l = "rust" /\ d[i].kind \in {"raw", "quoted"}}

GoverningIn(d, l, f, g, i) ==
  CASE l = "rust" -> f[i - 1] \cup UNION {f[g[i][a] - 1] : a \in Inner(d, g[i])}
    [] l = "go" /\ g[i] # <<>> -> f[g[i][Len(g[i])] - 1]
    [] OTHER -> {}

(* Both readings of a text.                                                *)
TextRead(d, l, f, g) == AboveRead(d, l, f) /\ OpenRead(d, g)

(* A token that is neither the rest of a literal nor dropped has a place   *)
(* of its own.                                                             *)
LEMMA OwnPlace ==
  ASSUME NEW d, NEW e, NEW W, NEW place, Carried(d, e, W, place),
         NEW i \in 1 .. Len(d), d[i].kind # "tail"
  PROVE  /\ At(place, i) \in 1 .. Len(e) /\ At(place, i) - 1 = place[i - 1]
         /\ i \in W => Respelled(d, e, place, i)
         /\ i \notin W => e[At(place, i)] = d[i]
<1>1. PICK n \in Nat : n = Len(d)
  BY DEF Carried
<1>2. place \in [0 .. n -> Nat] /\ Len(e) \in Nat /\ place[n] = Len(e)
  BY <1>1 DEF Carried
<1>3. i \in 0 .. n /\ i - 1 \in 0 .. n /\ n \in 0 .. n
  BY <1>1
<1>4. place[i] <= Len(e)
  BY <1>1, <1>2, <1>3, PlacesAscend
<1>5. PICK a \in Nat, b \in Nat : a = place[i - 1] /\ b = place[i]
  BY <1>2, <1>3
<1>6. At(place, i) = a + 1
  BY <1>5 DEF At
<1>7. \/ i \in W /\ Respelled(d, e, place, i)
      \/ i \notin W /\ place[i] = At(place, i) /\ e[At(place, i)] = d[i]
  BY DEF Carried
<1>8. b = a + 1 \/ b = a + 2
  BY <1>5, <1>6, <1>7 DEF Respelled
<1>9. a + 1 \in 1 .. Len(e) /\ (a + 1) - 1 = a
  <2>1. PICK m \in Nat : m = Len(e)
    BY <1>2
  <2>2. b <= m
    BY <1>4, <1>5, <2>1
  <2>3. a + 1 \in 1 .. m /\ (a + 1) - 1 = a
    BY <1>8, <2>2
  <2>4. QED BY <2>1, <2>3
<1>10. QED BY <1>5, <1>6, <1>7, <1>9

(* A site stays a site, among the same statements, and the directives that *)
(* govern it move with it.                                                 *)
LEMMA SitesCarried ==
  ASSUME NEW d, NEW e, NEW W, NEW place, Carried(d, e, W, place),
         NEW l, NEW f, NEW g, TextRead(d, l, f, g), NEW f2, NEW g2, TextRead(e, l, f2, g2),
         W \subseteq SitesOf(d, l, g), NEW i \in SitesOf(d, l, g)
  PROVE  /\ At(place, i) \in SitesOf(e, l, g2)
         /\ GoverningIn(d, l, f, g, i) \subseteq {c \in 1 .. Len(d) : d[c].kind = "comment"}
         /\ GoverningIn(e, l, f2, g2, At(place, i)) = {At(place, c) : c \in GoverningIn(d, l, f, g, i)}
<1>1. PICK n \in Nat : n = Len(d) /\ DOMAIN d = 1 .. n
  BY DEF Carried
<1>2. PICK m \in Nat : m = Len(e) /\ DOMAIN e = 1 .. m
  BY DEF Carried
<1>3. i \in 1 .. n /\ i - 1 \in 0 .. n /\ d[i].kind \in Literal \cup {"dyn"}
  BY <1>1 DEF SitesOf, Literal
<1>4. d[i].kind \notin Opening \cup {"end", "tail"}
  BY <1>3 DEF Literal, Opening
<1>5. PICK q : q = At(place, i)
  OBVIOUS
<1>6. /\ q \in 1 .. m /\ q - 1 = place[i - 1]
      /\ i \in W => Respelled(d, e, place, i)
      /\ i \notin W => e[q] = d[i]
  BY <1>1, <1>2, <1>3, <1>4, <1>5, OwnPlace
<1>7. /\ e[q].kind \notin Opening \cup {"end"}
      /\ e[q].kind = d[i].kind \/ e[q].kind \in {"raw", "quoted"}
  BY <1>4, <1>5, <1>6 DEF Respelled, Opening
<1>8. g[i] = g[i - 1] /\ g2[q] = g2[place[i - 1]]
  BY <1>1, <1>2, <1>3, <1>4, <1>6, <1>7 DEF TextRead, OpenRead
<1>9. PICK s : s = g[i]
  OBVIOUS
<1>10. PICK t : t = g2[q]
  OBVIOUS
<1>11. MovedAlong(d, e, place, i - 1, s, t)
  BY <1>1, <1>3, <1>8, <1>9, <1>10, OpenCarried DEF TextRead
<1>12. s \in Seq(Nat) /\ t \in Seq(Nat) /\ Len(s) = Len(t) /\ Len(s) \in Nat /\ (s = <<>> <=> t = <<>>)
  BY <1>11 DEF MovedAlong
<1>13. q \in SitesOf(e, l, g2)
  <2>1. CASE l = "go"
    <3>1. s # <<>>
      BY <1>9, <2>1 DEF SitesOf
    <3>2. QED BY <1>2, <1>3, <1>6, <1>7, <1>10, <1>12, <2>1, <3>1 DEF SitesOf, Literal
  <2>2. CASE l = "rust"
    <3>1. d[i].kind \in {"raw", "quoted"}
      BY <2>2 DEF SitesOf
    <3>2. QED BY <1>2, <1>6, <1>7, <2>2, <3>1 DEF SitesOf
  <2>3. QED BY <2>1, <2>2 DEF SitesOf
<1>14. \A k \in 0 .. n : f[k] \subseteq {c \in 1 .. k : d[c].kind = "comment"} /\ f2[place[k]] = {At(place, c) : c \in f[k]}
  BY <1>1, AboveCarried DEF TextRead
<1>15. \A k \in 0 .. n : f[k] \subseteq {c \in 1 .. n : d[c].kind = "comment"}
  <2>1. \A k \in 0 .. n : 1 .. k \subseteq 1 .. n
    OBVIOUS
  <2>2. QED BY <1>14, <2>1
<1>16. ASSUME NEW a \in 1 .. Len(s)
       PROVE  /\ f[s[a] - 1] \subseteq {c \in 1 .. n : d[c].kind = "comment"}
              /\ f2[t[a] - 1] = {At(place, c) : c \in f[s[a] - 1]}
  <2>1. PICK o : o = s[a]
    OBVIOUS
  <2>2. o \in 1 .. i - 1 /\ t[a] = At(place, o)
    BY <1>11, <2>1 DEF MovedAlong
  <2>3. o - 1 \in 0 .. n
    BY <1>3, <2>2
  <2>4. place[o - 1] \in Nat /\ At(place, o) - 1 = place[o - 1]
    <3>1. place[o - 1] \in Nat
      BY <1>1, <2>3 DEF Carried
    <3>2. QED BY <3>1 DEF At
  <2>5. QED BY <1>14, <1>15, <2>1, <2>2, <2>3, <2>4
<1>17. Inner(e, t) = Inner(d, s) /\ Inner(d, s) \subseteq 1 .. Len(s)
  <2>1. DOMAIN s = 1 .. Len(s) /\ DOMAIN t = 1 .. Len(s)
    BY <1>12
  <2>2. \A b \in 1 .. Len(s) : e[t[b]] = d[s[b]]
    BY <1>11 DEF MovedAlong
  <2>3. QED BY <2>1, <2>2 DEF Inner
<1>18. CASE l = "rust"
  <2>1. GoverningIn(d, l, f, g, i) = f[i - 1] \cup UNION {f[s[a] - 1] : a \in Inner(d, s)}
    BY <1>9, <1>18 DEF GoverningIn
  <2>2. GoverningIn(e, l, f2, g2, q) = f2[q - 1] \cup UNION {f2[t[a] - 1] : a \in Inner(d, s)}
    BY <1>10, <1>17, <1>18 DEF GoverningIn
  <2>3. f2[q - 1] = {At(place, c) : c \in f[i - 1]} /\ f[i - 1] \subseteq {c \in 1 .. n : d[c].kind = "comment"}
    BY <1>3, <1>6, <1>14, <1>15
  <2>4. \A a \in Inner(d, s) : f2[t[a] - 1] = {At(place, c) : c \in f[s[a] - 1]}
    BY <1>16, <1>17
  <2>5. GoverningIn(d, l, f, g, i) \subseteq {c \in 1 .. n : d[c].kind = "comment"}
    BY <1>16, <1>17, <2>1, <2>3
  <2>6. ASSUME NEW x \in GoverningIn(e, l, f2, g2, q)
        PROVE  \E c \in GoverningIn(d, l, f, g, i) : x = At(place, c)
    <3>1. CASE x \in f2[q - 1]
      BY <2>1, <2>3, <3>1
    <3>2. ASSUME NEW a \in Inner(d, s), x \in f2[t[a] - 1] PROVE \E c \in GoverningIn(d, l, f, g, i) : x = At(place, c)
      <4>1. PICK c \in f[s[a] - 1] : x = At(place, c)
        BY <2>4, <3>2
      <4>2. c \in GoverningIn(d, l, f, g, i)
        BY <2>1
      <4>3. QED BY <4>1, <4>2
    <3>3. QED BY <2>2, <3>1, <3>2
  <2>7. ASSUME NEW c \in GoverningIn(d, l, f, g, i)
        PROVE  At(place, c) \in GoverningIn(e, l, f2, g2, q)
    <3>1. CASE c \in f[i - 1]
      BY <2>2, <2>3, <3>1
    <3>2. ASSUME NEW a \in Inner(d, s), c \in f[s[a] - 1] PROVE At(place, c) \in GoverningIn(e, l, f2, g2, q)
      <4>1. At(place, c) \in f2[t[a] - 1]
        BY <2>4, <3>2
      <4>2. QED BY <2>2, <4>1
    <3>3. QED BY <2>1, <3>1, <3>2
  <2> DEFINE moved == {At(place, c) : c \in GoverningIn(d, l, f, g, i)}
  <2>8. GoverningIn(e, l, f2, g2, q) = moved
    BY <2>6, <2>7
  <2>9. QED BY <1>1, <1>5, <1>13, <2>5, <2>8
<1>19. CASE l = "go"
  <2>1. s # <<>>
    BY <1>9, <1>19 DEF SitesOf
  <2>2. Len(s) \in 1 .. Len(s) /\ t # <<>>
    BY <1>12, <2>1
  <2>3. GoverningIn(d, l, f, g, i) = f[s[Len(s)] - 1]
    BY <1>9, <1>19, <2>1 DEF GoverningIn
  <2>4. GoverningIn(e, l, f2, g2, q) = f2[t[Len(s)] - 1]
    BY <1>10, <1>12, <1>19, <2>2 DEF GoverningIn
  <2>5. QED BY <1>1, <1>5, <1>13, <1>16, <2>2, <2>3, <2>4
<1>20. QED BY <1>18, <1>19 DEF SitesOf

(* No other token is a site of the new text.                               *)
LEMMA SitesTraced ==
  ASSUME NEW d, NEW e, NEW W, NEW place, Carried(d, e, W, place),
         NEW l, NEW f, NEW g, TextRead(d, l, f, g), NEW f2, NEW g2, TextRead(e, l, f2, g2),
         W \subseteq SitesOf(d, l, g), NEW q \in SitesOf(e, l, g2)
  PROVE  \E i \in SitesOf(d, l, g) : q = At(place, i) /\ (i \notin W => e[q] = d[i])
<1>1. PICK n \in Nat : n = Len(d) /\ DOMAIN d = 1 .. n
  BY DEF Carried
<1>2. PICK m \in Nat : m = Len(e) /\ DOMAIN e = 1 .. m
  BY DEF Carried
<1>3. q \in 1 .. m /\ e[q].kind \in Literal \cup {"dyn"}
  BY <1>2 DEF SitesOf, Literal
<1>4. e[q].kind # "tail" /\ e[q].kind \notin Opening \cup {"end"}
  BY <1>3 DEF Literal, Opening
<1>5. PICK i \in 1 .. n : q = At(place, i) /\ (i \in W \/ (i \notin W /\ e[q] = d[i]))
  BY <1>1, <1>2, <1>3, <1>4, EveryPlaceTaken
<1>6. CASE i \in W
  BY <1>5, <1>6
<1>7. CASE i \notin W
  <2>1. e[q] = d[i]
    BY <1>5, <1>7
  <2>2. d[i].kind \notin Opening \cup {"end", "tail"}
    BY <1>4, <2>1
  <2>3. q - 1 = place[i - 1] /\ i - 1 \in 0 .. n
    BY <1>1, <1>5, <2>2, OwnPlace
  <2>4. g[i] = g[i - 1] /\ g2[q] = g2[place[i - 1]]
    BY <1>1, <1>2, <1>3, <1>4, <2>2, <2>3 DEF TextRead, OpenRead
  <2>5. MovedAlong(d, e, place, i - 1, g[i], g2[q])
    BY <1>1, <2>3, <2>4, OpenCarried DEF TextRead
  <2>6. g[i] = <<>> <=> g2[q] = <<>>
    <3>1. PICK s : s = g[i]
      OBVIOUS
    <3>2. PICK t : t = g2[q]
      OBVIOUS
    <3>3. s \in Seq(Nat) /\ t \in Seq(Nat) /\ Len(s) = Len(t)
      BY <2>5, <3>1, <3>2 DEF MovedAlong
    <3>4. s = <<>> <=> t = <<>>
      BY <3>3
    <3>5. QED BY <3>1, <3>2, <3>4
  <2>7. i \in SitesOf(d, l, g)
    BY <1>1, <2>1, <2>6 DEF SitesOf
  <2>8. QED BY <1>5, <2>1, <2>7
<1>8. QED BY <1>6, <1>7

(* Above and Open are such a reading of the text, in every state.          *)
LEMMA TextIsRead == Typed => TextRead(doc, lang, Above, Open)
<1> SUFFICES ASSUME Typed PROVE TextRead(doc, lang, Above, Open)
  OBVIOUS
<1>1. PICK n \in Nat : n = Len(doc)
  BY DEF Typed
<1>2. \A i \in 1 .. n : i > 0
  OBVIOUS
<1>3. Above[0] = {} /\ \A i \in 1 .. n : Above[i] = AboveAt(i, Above[i - 1])
  BY <1>1, AboveDefined DEF Typed
<1>4. AboveRead(doc, lang, Above)
  <2> SUFFICES ASSUME NEW i \in 1 .. n
               PROVE  /\ doc[i].kind = "comment" => Above[i] = Above[i - 1] \cup {i}
                      /\ doc[i].kind = "gap" /\ lang = "rust" => Above[i] = Above[i - 1]
                      /\ doc[i].kind # "comment" /\ ~ (doc[i].kind = "gap" /\ lang = "rust") => Above[i] = {}
    BY <1>1, <1>3 DEF AboveRead
  <2>1. PICK above : above = Above[i - 1]
    OBVIOUS
  <2>2. Above[i] = AboveAt(i, above) /\ i > 0
    BY <1>2, <1>3, <2>1
  <2>3. QED BY <2>1, <2>2 DEF AboveAt
<1>5. /\ Open \in [0 .. n -> Seq(Nat)] /\ Open[0] = <<>>
      /\ \A i \in 1 .. n : Open[i] = OpenAt(i, Open[i - 1])
  BY <1>1, OpenDefined DEF Typed
<1>6. OpenRead(doc, Open)
  <2> SUFFICES ASSUME NEW i \in 1 .. n
               PROVE  /\ doc[i].kind \in Opening => Open[i] = Append(Open[i - 1], i)
                      /\ doc[i].kind = "end" => Open[i] = Front(Open[i - 1])
                      /\ doc[i].kind \notin Opening \cup {"end"} => Open[i] = Open[i - 1]
    BY <1>1, <1>5 DEF OpenRead
  <2>1. PICK open : open = Open[i - 1]
    OBVIOUS
  <2>2. Open[i] = OpenAt(i, open) /\ i > 0
    BY <1>2, <1>5, <2>1
  <2>3. QED BY <2>1, <2>2 DEF OpenAt, Opening
<1>7. QED BY <1>4, <1>6 DEF TextRead

LEMMA NextTextIsRead == Typed' => TextRead(doc', lang', Above', Open')
<1>1. Typed' => TextRead(doc, lang, Above, Open)'
  BY TextIsRead, PTL
<1>2. QED BY <1>1 DEF TextRead, AboveRead, OpenRead

(* What is formatted is not formatted again.                               *)
LEMMA FormattedOnce ==
  ASSUME NEW policy \in Policy, NEW t \in SqlText
  PROVE  /\ Formatted(policy, Formatted(policy, t)) = Formatted(policy, t)
         /\ Formatted(policy, t) = "bytes" => t = "bytes"
BY DEF Formatted, SqlText, Laid, Opaque, Policy

(* A comment at the top of the new text was at the top of the old one.     *)
LEMMA LeadingTraced ==
  ASSUME NEW d, NEW e, NEW W, NEW place, Carried(d, e, W, place), NEW i \in 1 .. Len(d),
         \A j \in 1 .. At(place, i) : e[j].kind \in {"comment", "gap"}
  PROVE  \A j \in 1 .. i : d[j].kind \in {"comment", "gap"}
<1>1. PICK n \in Nat : n = Len(d)
  BY DEF Carried
<1>2. place \in [0 .. n -> Nat]
  BY <1>1 DEF Carried
<1>3. ASSUME NEW j \in 1 .. i PROVE At(place, j) \in 1 .. At(place, i)
  <2>1. j - 1 \in 0 .. i - 1 /\ i - 1 \in 0 .. n /\ j - 1 \in 0 .. n
    BY <1>1
  <2>2. place[j - 1] <= place[i - 1]
    BY <1>1, <2>1, PlacesAscend
  <2>3. place[j - 1] \in Nat /\ place[i - 1] \in Nat
    BY <1>2, <2>1
  <2>4. QED BY <2>2, <2>3 DEF At
<1>4. \A j \in 1 .. i : j \in 1 .. n
  BY <1>1
<1>5. ASSUME NEW j \in 1 .. i, j \in W PROVE FALSE
  <2>1. j \in 1 .. n
    BY <1>4
  <2>2. Respelled(d, e, place, j)
    BY <1>1, <1>5, <2>1 DEF Carried
  <2>3. e[At(place, j)].kind \in {"raw", "quoted"}
    BY <2>2 DEF Respelled
  <2>4. e[At(place, j)].kind \in {"comment", "gap"}
    BY <1>3
  <2>5. QED BY <2>3, <2>4
<1>6. ASSUME NEW j \in 1 .. i PROVE d[j].kind \in {"comment", "gap"}
  <2>1. j # 1 => j - 1 \in 1 .. i
    BY <1>1
  <2>2. j \in 1 .. n
    BY <1>4
  <2>3. e[At(place, j)] = d[j]
    BY <1>1, <1>5, <2>1, <2>2 DEF Carried
  <2>4. QED BY <1>3, <2>3
<1>7. QED BY <1>6

(* Nothing in the text is left to do.                                      *)
Finished == ~ FileIgnored /\ Causes = {} /\ \A i \in DOMAIN doc : ~ Rewritten(i)

(* What the first pass writes is finished.                                 *)
LEMMA WrittenIsFinished ==
  ASSUME Typed, Typed', lang' = lang, options' = options, doc' = Prefix[Len(doc)],
         ~ FileIgnored, Causes = {}, options.kinds = {"raw", "quoted"}
  PROVE  Finished'
<1> DEFINE e == doc'
<1>1. PICK place, W : place = Place /\ W = Rewrote
  OBVIOUS
<1>2. PICK n \in Nat : n = Len(doc) /\ DOMAIN doc = 1 .. n
  BY DEF Typed
<1>3. PICK m \in Nat : m = Len(e) /\ DOMAIN e = 1 .. m
  BY DEF Typed
<1>4. /\ Carried(doc, e, W, place)
      /\ \A i \in W : e[At(place, i)].text = Formatted(options.policy, doc[i].text)
  BY <1>1, WrittenIsCarried
<1>5. TextRead(doc, lang, Above, Open) /\ TextRead(e, lang, Above', Open')
  BY TextIsRead, NextTextIsRead
<1>6. Sites = SitesOf(doc, lang, Open) /\ Sites' = SitesOf(e, lang, Open')
  BY DEF Sites, SitesOf
<1>7. \A i : Governing(i) = GoverningIn(doc, lang, Above, Open, i)
  BY DEF Governing, GoverningIn
<1>8. \A q : Governing(q)' = GoverningIn(e, lang, Above', Open', q)
  BY DEF Governing, Inner, GoverningIn
<1>9. \A i \in W : i \in Sites /\ Rewritten(i) /\ doc[i].kind \in Literal
  <2>1. \A i \in W : i \in Expressions /\ Rewritten(i)
    BY <1>1, SitesFound DEF Rewrote, Rewritten, IsSql, Wanted
  <2>2. QED BY <2>1, SitesFound
<1>10. \A i \in DOMAIN doc : i \in W <=> Rewritten(i)
  BY <1>1 DEF Rewrote
<1>11. W \subseteq SitesOf(doc, lang, Open)
  BY <1>6, <1>9
<1>12. ASSUME NEW i \in Sites
       PROVE  /\ At(place, i) \in Sites'
              /\ Governing(i) \subseteq {c \in 1 .. n : doc[c].kind = "comment"}
              /\ Governing(At(place, i))' = {At(place, c) : c \in Governing(i)}
  BY <1>2, <1>4, <1>5, <1>6, <1>7, <1>8, <1>11, SitesCarried
<1>13. ASSUME NEW q \in Sites' PROVE \E i \in Sites : q = At(place, i) /\ (i \notin W => e[q] = doc[i])
  BY <1>4, <1>5, <1>6, <1>11, SitesTraced
<1>14. ASSUME NEW c \in 1 .. n, doc[c].kind = "comment"
       PROVE  At(place, c) \in 1 .. m /\ e[At(place, c)] = doc[c]
  <2>1. c \notin W
    BY <1>9, <1>14 DEF Literal
  <2>2. QED BY <1>2, <1>3, <1>4, <1>14, <2>1, OwnPlace
<1>15. ASSUME NEW q \in 1 .. m, e[q].kind = "comment"
       PROVE  \E c \in 1 .. n : q = At(place, c) /\ doc[c] = e[q]
  <2>1. e[q].kind # "tail"
    BY <1>15
  <2>2. PICK c \in 1 .. n : /\ q = At(place, c)
                            /\ (c \in W /\ Respelled(doc, e, place, c)) \/ (c \notin W /\ e[q] = doc[c])
    BY <1>2, <1>3, <1>4, <2>1, EveryPlaceTaken
  <2>3. c \notin W
    BY <1>15, <2>2 DEF Respelled
  <2>4. QED BY <2>2, <2>3
<1>16. ASSUME NEW i \in Sites, NEW w
       PROVE  Told(At(place, i), w)' <=> Told(i, w)
  <2>1. Told(i, w) <=> \E c \in Governing(i) : doc[c].text = w
    BY DEF Told
  <2>2. Told(At(place, i), w)' <=> \E b \in Governing(At(place, i))' : e[b].text = w
    BY DEF Told
  <2>3. \A c \in Governing(i) : e[At(place, c)].text = doc[c].text
    BY <1>12, <1>14
  <2>4. QED BY <1>12, <2>1, <2>2, <2>3
<1>17. \A c \in 1 .. m : e[c].text \in Directive \cup {"bad"} => e[c].kind = "comment"
  <2> SUFFICES ASSUME NEW c \in 1 .. m PROVE e[c].text \in Directive \cup {"bad"} => e[c].kind = "comment"
    OBVIOUS
  <2>1. e[c] \in Token
    BY <1>3 DEF Typed
  <2>2. QED BY <2>1 DEF Token, CommentText, Directive, SqlText, Laid
<1>18. ASSUME NEW q \in 1 .. m, e[q].text \in Directive \cup {"bad"}
       PROVE  \E c \in 1 .. n : q = At(place, c) /\ doc[c] = e[q] /\ doc[c].kind = "comment"
  BY <1>15, <1>17, <1>18
<1>19. ~ FileIgnored'
  <2>1. ASSUME NEW w \in CommentText, NEW q \in Says(w)', Leading(q)'
        PROVE  \E c \in Says(w) : Leading(c)
    <3>1. q \in 1 .. m /\ e[q].kind = "comment" /\ e[q].text = w
      BY <1>3 DEF Says, Comments
    <3>2. PICK c \in 1 .. n : q = At(place, c) /\ doc[c] = e[q]
      BY <1>15, <3>1
    <3>3. c \in Says(w)
      BY <1>2, <3>1, <3>2 DEF Says, Comments
    <3>4. \A j \in 1 .. At(place, c) : e[j].kind \in {"comment", "gap"}
      BY <2>1, <3>2 DEF Leading
    <3>5. \A j \in 1 .. c : doc[j].kind \in {"comment", "gap"}
      BY <1>2, <1>4, <3>2, <3>4, LeadingTraced
    <3>6. QED BY <3>3, <3>5 DEF Leading
  <2>2. "made" \in CommentText /\ "byhand" \in CommentText /\ "file" \in CommentText
    BY DEF CommentText, Directive
  <2>3. Generated' => Generated
    <3> SUFFICES ASSUME Generated', NEW w \in {"made", "byhand"} PROVE \E c \in Says(w) : Leading(c)
      BY DEF Generated
    <3>1. \E q \in Says(w)' : Leading(q)'
      BY DEF Generated
    <3>2. QED BY <2>1, <2>2, <3>1
  <2>4. (\E q \in Says("file")' : Leading(q)') => \E c \in Says("file") : Leading(c)
    BY <2>1, <2>2
  <2>5. FileIgnored' <=> (lang' = "go" /\ options'.generated /\ Generated') \/ \E q \in Says("file")' : Leading(q)'
    BY DEF FileIgnored
  <2>6. QED BY <2>3, <2>4, <2>5 DEF FileIgnored
<1>20. \A i \in Sites : doc[i].kind \in Literal \cup {"dyn"} /\ i \in 1 .. n
  BY <1>2 DEF Sites, Literal
<1>21. ASSUME NEW i \in Sites, i \notin W, e[At(place, i)] = doc[i]
       PROVE  /\ Wanted(At(place, i))' <=> Wanted(i)
              /\ IsSql(At(place, i))' <=> IsSql(i)
              /\ AllowedKind(At(place, i))' <=> AllowedKind(i)
  <2>1. At(place, i) \in Sites'
    BY <1>12
  <2>2. Wanted(At(place, i))' <=> Wanted(i)
    BY <1>16, <1>21, <2>1 DEF Wanted
  <2>3. AllowedKind(At(place, i))' <=> AllowedKind(i)
    BY <1>21 DEF AllowedKind
  <2>4. IsSql(At(place, i))' <=> IsSql(i)
    BY <1>16, <1>21, <2>2, <2>3 DEF IsSql
  <2>5. QED BY <2>2, <2>3, <2>4
<1>22. ASSUME NEW q, Rewritten(q)' PROVE FALSE
  <2>1. q \in Sites'
    BY <1>22 DEF Rewritten, IsSql, Wanted
  <2>2. PICK i \in Sites : q = At(place, i) /\ (i \notin W => e[q] = doc[i])
    BY <1>13, <2>1
  <2>3. CASE i \notin W
    <3>1. IsSql(i)
      BY <1>21, <1>22, <2>2, <2>3 DEF Rewritten
    <3>2. ~ Fails(doc[i].text) /\ (Differs(i) \/ doc[i].kind = "joined")
      BY <1>22, <2>2, <2>3 DEF Rewritten, Differs
    <3>3. Rewritten(i)
      BY <3>1, <3>2 DEF Rewritten
    <3>4. QED BY <1>2, <1>10, <1>20, <2>3, <3>3
  <2>4. CASE i \in W
    <3>1. i \in 1 .. n /\ Respelled(doc, e, place, i)
      BY <1>2, <1>4, <1>20, <2>4 DEF Carried
    <3>2. e[q].kind \in {"raw", "quoted"}
      BY <2>2, <3>1 DEF Respelled
    <3>3. PICK t : t = doc[i].text
      OBVIOUS
    <3>4. PICK policy \in Policy : policy = options.policy /\ options'.policy = policy
      BY DEF Typed, Option
    <3>5. t \in SqlText
      <4>1. i \in Expressions
        BY <1>9, <2>4, SitesFound DEF Literal
      <4>2. QED BY <3>3, <4>1, SitesFound
    <3>6. e[q].text = Formatted(policy, t)
      BY <1>4, <2>2, <2>4, <3>3, <3>4
    <3>7. ~ Differs(q)'
      BY <3>4, <3>5, <3>6, FormattedOnce DEF Differs
    <3>8. QED BY <1>22, <3>2, <3>7 DEF Rewritten
  <2>5. QED BY <2>3, <2>4
<1>23. Causes' = {}
  <2>1. "malformed" \notin Causes'
    <3>1. ASSUME lang' = "rust", NEW q \in DOMAIN e, e[q].text = "bad" PROVE FALSE
      <4>1. PICK c \in 1 .. n : doc[c] = e[q]
        BY <1>3, <1>18, <3>1
      <4>2. "malformed" \in Causes
        BY <1>2, <3>1, <4>1 DEF Causes, Errors
      <4>3. QED BY <4>2
    <3>2. QED BY <3>1 DEF Causes
  <2>2. "misplaced" \notin Causes'
    <3>1. ASSUME NEW q \in DOMAIN e, e[q].text \in Directive,
                 e[q].text = "file" \/ \A b \in Sites' : q \notin Governing(b)'
          PROVE  FALSE
      <4>1. PICK c \in 1 .. n : q = At(place, c) /\ doc[c] = e[q] /\ doc[c].kind = "comment"
        BY <1>3, <1>18, <3>1
      <4>2. doc[c].text # "file" /\ \E i \in Sites : c \in Governing(i)
        <5>1. c \in DOMAIN doc /\ doc[c].text \in Directive /\ "misplaced" \in Errors
          BY <1>2, <3>1, <4>1 DEF Errors
        <5>2. "misplaced" \notin Causes
          OBVIOUS
        <5>3. QED BY <5>1, <5>2 DEF Causes
      <4>3. PICK i \in Sites : c \in Governing(i)
        BY <4>2
      <4>4. q \in Governing(At(place, i))' /\ At(place, i) \in Sites'
        BY <1>12, <4>1, <4>3
      <4>5. QED BY <3>1, <4>1, <4>2, <4>4
    <3>2. QED BY <3>1 DEF Causes
  <2>3. "conflict" \notin Causes'
    <3>1. ASSUME NEW q \in Sites', Told(q, "sql")', Told(q, "ignore")' PROVE FALSE
      <4>1. PICK i \in Sites : q = At(place, i)
        BY <1>13
      <4>2. Told(i, "sql") /\ Told(i, "ignore")
        BY <1>16, <3>1, <4>1
      <4>3. "conflict" \in Causes
        BY <4>2 DEF Causes, Errors
      <4>4. QED BY <4>3
    <3>2. QED BY <3>1 DEF Causes
  <2>4. "disabled" \notin Causes'
    <3>1. ASSUME NEW q \in Sites', Wanted(q)', ~ AllowedKind(q)' PROVE FALSE
      <4>1. e[q].kind \in Literal
        BY <3>1 DEF Sites, Wanted, Literal
      <4>2. QED BY <3>1, <4>1 DEF AllowedKind, Literal
    <3>2. QED BY <3>1 DEF Causes
  <2>5. "literal" \notin Causes'
    <3>1. ASSUME NEW q \in Sites', Wanted(q)', AllowedKind(q)', e[q].text = "bytes",
                 Told(q, "sql")' \/ lang' = "rust"
          PROVE  FALSE
      <4>1. PICK i \in Sites : q = At(place, i) /\ (i \notin W => e[q] = doc[i])
        BY <1>13
      <4>2. CASE i \in W
        <5>1. i \in Expressions /\ IsSql(i)
          BY <1>9, <4>2, SitesFound DEF Literal, Rewritten
        <5>2. doc[i].text \in SqlText /\ options.policy \in Policy
          BY <5>1, SitesFound DEF Typed, Option
        <5>3. e[q].text = Formatted(options.policy, doc[i].text)
          BY <1>4, <4>1, <4>2
        <5>4. doc[i].text = "bytes"
          BY <3>1, <5>2, <5>3, FormattedOnce
        <5>5. QED BY <5>1, <5>4 DEF IsSql
      <4>3. CASE i \notin W
        <5>1. Wanted(i) /\ AllowedKind(i) /\ doc[i].text = "bytes"
          BY <1>21, <3>1, <4>1, <4>3
        <5>2. Told(i, "sql") \/ lang = "rust"
          BY <1>16, <3>1, <4>1
        <5>3. "literal" \in Causes
          BY <5>1, <5>2 DEF Causes, Errors
        <5>4. QED BY <5>3
      <4>4. QED BY <4>2, <4>3
    <3>2. ASSUME NEW q \in Sites', Rewritten(q)' PROVE FALSE
      BY <1>22, <3>2
    <3>3. QED BY <3>1, <3>2 DEF Causes
  <2>6. Causes' \subseteq Errors
    BY DEF Causes
  <2>7. QED BY <2>1, <2>2, <2>3, <2>4, <2>5, <2>6 DEF Errors
<1>24. QED BY <1>19, <1>22, <1>23 DEF Finished

(* Under the strict policy some finding keeps the text as it is.           *)
KeptByFinding ==
  /\ options.policy = "error"
  /\ \/ \E i \in Dynamic : Told(i, "sql")
     \/ \E i \in Expressions : IsSql(i) /\ \E d \in LiteralFindings(i) : d.severity = "error"

(* Why the second pass leaves the text as it is: all of it is ignored, all *)
(* of it is finished, or a finding keeps it.                               *)
Settled ==
  \/ ~ Malformed /\ FileIgnored
  \/ Finished
  \/ ~ FileIgnored /\ Causes = {} /\ KeptByFinding

PassInv ==
  /\ state = "done" /\ ~ Malformed /\ FileIgnored => result = "ok" /\ output = doc
  /\ pass = 2 /\ options.kinds = {"raw", "quoted"} => Settled

(* Within a pass the text stays settled.                                   *)
LEMMA SettledKept ==
  ASSUME doc' = doc, lang' = lang, options' = options
  PROVE  Settled' <=> Settled
<1>1. /\ Malformed' = Malformed /\ FileIgnored' = FileIgnored /\ Causes' = Causes
      /\ Dynamic' = Dynamic /\ Expressions' = Expressions
  BY ReadingKept
<1>2. \A i : Rewritten(i)' <=> Rewritten(i)
  BY ReadingKept
<1>3. Finished' <=> Finished
  BY <1>1, <1>2 DEF Finished
<1>4. \A i : /\ Told(i, "sql")' = Told(i, "sql") /\ LiteralFindings(i)' = LiteralFindings(i)
             /\ (IsSql(i)' <=> IsSql(i))
  BY ReadingKept
<1>5. KeptByFinding' <=> KeptByFinding
  BY <1>1, <1>4 DEF KeptByFinding
<1>6. QED BY <1>1, <1>3, <1>5 DEF Settled

(* Every step within a pass keeps what is known of the pass.               *)
LEMMA WithinPass ==
  ASSUME HInv, PassInv, Start \/ Enter \/ Take \/ Finish \/ Splice \/ UNCHANGED vars
  PROVE  PassInv'
<1>1. doc' = doc /\ lang' = lang /\ options' = options /\ pass' = pass
  BY DEF Start, Enter, Take, Finish, Splice, vars, input
<1>2. (Settled' <=> Settled) /\ Malformed' = Malformed /\ FileIgnored' = FileIgnored
  BY <1>1, SettledKept, ReadingKept
<1>3. pass' = 2 /\ options'.kinds = {"raw", "quoted"} => Settled'
  BY <1>1, <1>2 DEF PassInv
<1>4. ASSUME state' = "done", ~ Malformed, FileIgnored PROVE result' = "ok" /\ output' = doc
  <2>1. CASE Start
    BY <1>4, <2>1 DEF Start, Stop
  <2>2. CASE Enter \/ Take \/ Finish \/ Splice
    <3>1. state \in {"units", "splice"}
      BY <2>2 DEF Enter, Take, Finish, Splice
    <3>2. Loop
      BY <3>1 DEF HInv, Through
    <3>3. QED BY <1>4, <3>2 DEF Loop, Progress
  <2>3. CASE UNCHANGED vars
    <3>1. state' = state /\ result' = result /\ output' = output
      BY <2>3 DEF vars
    <3>2. QED BY <1>4, <3>1 DEF PassInv
  <2>4. QED BY <2>1, <2>2, <2>3
<1>5. QED BY <1>1, <1>2, <1>3, <1>4 DEF PassInv

(* The output of the first pass is settled: returned because it is         *)
(* ignored, withheld because of a finding, or written.                     *)
LEMMA OutputIsSettled ==
  ASSUME HInv, HInv', SecondPass
  PROVE  PassInv'
<1>1. Typed /\ Typed' /\ FindingsTrue /\ Outcome
  BY DEF HInv, TypeOK, Typed
<1>2. doc' = output /\ lang' = lang /\ options' = options /\ state' = "start" /\ state = "done" /\ result = "ok"
  BY DEF SecondPass
<1>3. result \notin Causes
  BY <1>2 DEF Causes, Errors
<1>4. ASSUME options.kinds = {"raw", "quoted"} PROVE Settled'
  <2>1. CASE ~ Malformed /\ FileIgnored /\ output = doc
    BY <1>2, <2>1, SettledKept DEF Settled
  <2>2. CASE Through /\ Withheld /\ output = doc
    <3>1. Causes = {} /\ ~ FileIgnored
      BY <1>1, <2>2, NoCauseLeft DEF Through, Loop, Progress
    <3>2. PICK d \in diags : options.policy = "error" /\ d.severity = "error"
      BY <2>2 DEF Withheld
    <3>3. \/ \E i \in Dynamic : Told(i, "sql")
          \/ \E i \in Expressions : IsSql(i) /\ d \in LiteralFindings(i)
      BY <1>1, <3>2 DEF FindingsTrue
    <3>4. KeptByFinding
      BY <3>2, <3>3 DEF KeptByFinding
    <3>5. Settled
      BY <3>1, <3>4 DEF Settled
    <3>6. QED BY <1>2, <2>2, <3>5, SettledKept
  <2>3. CASE Through /\ ~ Withheld /\ output = Prefix[Len(doc)]
    <3>1. Causes = {} /\ ~ FileIgnored
      BY <1>1, <2>3, NoCauseLeft DEF Through, Loop, Progress
    <3>2. Finished'
      BY <1>1, <1>2, <1>4, <2>3, <3>1, WrittenIsFinished
    <3>3. QED BY <3>2 DEF Settled
  <2>4. QED BY <1>1, <1>2, <1>3, <2>1, <2>2, <2>3 DEF Outcome
<1>5. QED BY <1>2, <1>4 DEF PassInv

(* A settled text is accepted and returned as it is.                       *)
LEMMA SettledIsReturned ==
  ASSUME HInv, PassInv, state = "done", Settled
  PROVE  result = "ok" /\ output = doc
<1>1. Typed /\ Outcome
  BY DEF HInv, TypeOK, Typed
<1>2. CASE ~ Malformed /\ FileIgnored
  BY <1>2 DEF PassInv
<1>3. CASE ~ FileIgnored /\ Causes = {}
  <2>1. result = "ok" /\ Through /\ output = IF Withheld THEN doc ELSE Prefix[Len(doc)]
    BY <1>1, <1>3 DEF Outcome
  <2>2. CASE \A i \in DOMAIN doc : ~ Rewritten(i)
    <3>1. \A i : ~ Rewritten(i)
      BY <2>2 DEF Rewritten, IsSql, Wanted, Sites
    <3>2. \A i \in DOMAIN doc : Becomes(i) = <<doc[i]>>
      BY <3>1 DEF Becomes
    <3>3. QED BY <1>1, <2>1, <3>2, NothingWritten
  <2>3. CASE KeptByFinding
    <3>1. /\ \A i \in Expressions : Handled(i)
          /\ \A i \in Dynamic : UnitOf(i) \in Visited
      BY <1>1, <2>1, AllHandled
    <3>2. ASSUME NEW i \in Dynamic, Told(i, "sql") PROVE Withheld
      <4>1. UnsupportedHost(i) \in diags
        BY <2>1, <3>1, <3>2 DEF Through, Loop, Answered
      <4>2. UnsupportedHost(i).severity = "error"
        BY <1>1, <2>3, DynamicLocated DEF KeptByFinding
      <4>3. QED BY <2>3, <4>1, <4>2 DEF KeptByFinding, Withheld
    <3>3. ASSUME NEW i \in Expressions, IsSql(i), NEW d \in LiteralFindings(i), d.severity = "error" PROVE Withheld
      <4>1. d \in diags
        BY <2>1, <3>1, <3>3 DEF Through, Loop, Answered
      <4>2. QED BY <2>3, <3>3, <4>1 DEF KeptByFinding, Withheld
    <3>4. QED BY <2>1, <2>3, <3>2, <3>3 DEF KeptByFinding
  <2>4. QED BY <1>3, <2>2, <2>3 DEF Settled, Finished
<1>4. QED BY <1>2, <1>3 DEF Settled, Finished

(* What the first pass accepts and writes, the second pass accepts and     *)
(* returns byte for byte, with both kinds of literals enabled.  User       *)
(* guide: the source must pass a second, byte-identical pass.              *)
THEOREM SecondPassSettles == Spec => []SecondPassAgrees
<1>1. Init => PassInv
  BY DEF Init, Begin, PassInv
<1>2. HInv /\ PassInv /\ HInv' /\ [Next]_vars => PassInv'
  BY WithinPass, OutputIsSettled DEF Next
<1>3. HInv /\ PassInv => SecondPassAgrees
  <2> SUFFICES ASSUME HInv, PassInv, pass = 2, state = "done", options.kinds = {"raw", "quoted"}
               PROVE  result = "ok" /\ output = doc
    BY DEF SecondPassAgrees
  <2>1. Settled
    BY DEF PassInv
  <2>2. QED BY <2>1, SettledIsReturned
<1>4. QED BY <1>1, <1>2, <1>3, HostInvariant, PTL DEF Spec
=============================================================================
