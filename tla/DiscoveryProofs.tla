--------------------------- MODULE DiscoveryProofs ---------------------------
(***************************************************************************)
(* Selection by a walk, for every tree, rule, request, author and number   *)
(* of threads: whatever the threads do, no file is missed, none is made    *)
(* up, and no failure is lost or reported twice (discover.rs).             *)
(*                                                                         *)
(* The argument follows one file, or one unreadable directory, through the *)
(* walk: until it is reported, exactly one entry that leads to it is       *)
(* waiting for a thread or in a thread's hand.                             *)
(***************************************************************************)
EXTENDS Discovery, FiniteSetTheorems, TLAPS

Place   == [as : Spelling, node : Node]
Item    == [node : Node, kind : Kind]
Message == [ok : BOOLEAN, path : Place]

(* TypeOK, with the queues as sequences. *)
TypeInv ==
  /\ kind \in [Node -> Kind] /\ steady \subseteq Node /\ changes \in 0 .. MaxChanges
  /\ request \in Requests /\ pc \in {"inspect", "walk", "drain", "judge", "done"}
  /\ pending \in Seq(Place) /\ dirs \in Seq(Place)
  /\ todo \subseteq Item /\ hand \in [Worker -> {Idle} \cup Item]
  /\ senders \subseteq Worker \cup {Main} /\ channel \in Seq(Message)
  /\ found \subseteq Place /\ errors \in Seq(Place)
  /\ answer \in {"none", "files", "walk", "missing", "invalid"}

(* The author only ever makes a file absent or an absent path a file.      *)
TreeInv ==
  /\ kind[<<>>] \in {"dir", "broken"}
  /\ \A n \in Node \ steady : kind[n] \in {"file", "absent"}
  /\ \A n \in steady : kind[n] = "file" =>
       \A k \in 0 .. Len(n) - 1 : kind[SubSeq(n, 1, k)] \in {"dir", "broken"}

(* The directories to walk, and what has been made of the arguments.       *)
Bases == IF request.git THEN {Path("plain", <<>>)} ELSE Range(dirs)

BaseInv ==
  /\ \A d \in Bases : kind[d.node] \in {"dir", "broken"}
  /\ Range(dirs) \subseteq Range(request.paths)

RootInv ==
  /\ pc = "inspect" => Range(pending) \subseteq Range(request.paths)
  /\ (~ request.git /\ answer # "missing") =>
       \A r \in Range(request.paths) :
         r \in found \/ r \in Range(dirs) \/ (pc = "inspect" /\ r \in Range(pending))
  /\ (request.git /\ answer # "invalid") =>
       \A c \in Range(request.paths) : c.as = "plain" \/ (pc = "inspect" /\ c \in Range(pending))

(* The entries of the walk of base d lead down from it through directories *)
(* that can be read, and no rule leaves them out.                          *)
Flight == todo \cup {hand[w] : w \in {v \in Worker : hand[v] # Idle}}

Trace(d, e) ==
  /\ Reaches(d.node, e.node) /\ e.kind # "absent"
  /\ e.kind = kind[e.node] \/ (e.kind = "file" /\ kind[e.node] = "absent" /\ e.node \notin steady)

WalkInv ==
  /\ pc \in {"walk", "drain"} => Range(pending) \subseteq Bases
  /\ pc = "walk" => pending # <<>> /\ \A e \in Flight : Trace(Head(pending), e)
  /\ pc # "walk" => Flight = {}
  /\ pc \in {"inspect", "judge"} => channel = <<>>
  /\ pc = "judge" => request.git
  /\ pc = "done" <=> answer # "none"
  /\ answer \in {"files", "walk"} => channel = <<>>
  /\ (answer = "files" => errors = <<>>) /\ (answer = "walk" => errors # <<>>)
  /\ answer = "missing" => ~ request.git
  /\ answer = "invalid" => request.git

(* Nothing is made up.  A path the author touches may be anything.         *)
Fetched(p) ==
  /\ p.node \in Supported /\ (p.node \in steady => kind[p.node] = "file")
  /\ \E d \in Bases : d.as = p.as /\ kind[d.node] = "dir" /\ Reaches(d.node, p.node)

Explicit(p) == p \in Range(request.paths) /\ (p.node \in steady => kind[p.node] \in {"file", "link"})

Uncommon(p) ==
  p.node \in Supported /\ ~ Hidden(p.node) /\ (p.node \in steady => ~ IsFile(p.node))

SoundInv ==
  /\ \A p \in found : Fetched(p) \/ IF request.git THEN Uncommon(p) ELSE Explicit(p)
  /\ \A m \in Range(channel) : m.ok => Fetched(m.path)

(* Nothing is missed.                                                      *)
Opens(d, n) ==
  /\ IsPrefix(d, n)
  /\ \A k \in Len(d) .. Len(n) - 1 : kind[SubSeq(n, 1, k)] \in {"dir", "broken"}
  /\ \A k \in Len(d) + 1 .. Len(n) : SubSeq(n, 1, k) \notin Ignored

Waiting(d) ==
  \/ pc = "walk" /\ d \in Range(Tail(pending))
  \/ pc = "drain" /\ d \in Range(pending)

Sought(d, n) == pc = "walk" /\ d = Head(pending) /\ \E e \in Flight : IsPrefix(e.node, n)

Failing == errors # <<>> \/ \E m \in Range(channel) : ~ m.ok

Handled(d, n) ==
  \/ Path(d.as, n) \in found \/ [ok |-> TRUE, path |-> Path(d.as, n)] \in Range(channel)
  \/ Waiting(d) \/ Sought(d, n) \/ Failing

Walked == pc # "inspect" /\ answer \in {"none", "files", "walk"}

CompleteInv ==
  Walked => \A d \in Bases : \A n \in steady :
    Opens(d.node, n) /\ kind[n] = "file" /\ Wanted(n) => Handled(d, n)

JudgeInv ==
  request.git /\ pc \in {"judge", "done"} /\ Walked =>
    \A c \in Range(request.paths) :
      c.node \in steady /\ c.node \in Supported /\ ~ IsFile(c.node) /\ ~ Hidden(c.node) =>
        c \in found \/ (pc = "judge" /\ c \in Range(pending))

(* No two entries lead to one path.                                        *)
ApartInv ==
  /\ \A e, f \in Flight : IsPrefix(e.node, f.node) => e = f
  /\ \A w \in Worker : hand[w] # Idle =>
       hand[w] \notin todo /\ \A v \in Worker \ {w} : hand[v] # hand[w]

(* The failure p is due once for each argument it is reached from: it has  *)
(* been received or sent, or its argument has still to be walked, or the   *)
(* walk of its argument has not come to it.                                *)
Count(s, S) == Cardinality({i \in DOMAIN s : s[i] \in S})
Failure(p)  == [ok |-> FALSE, path |-> p]

From(p) == {r \in Place : /\ r.as = p.as /\ kind[p.node] = "broken"
                          /\ kind[r.node] \in {"dir", "broken"} /\ Reaches(r.node, p.node)}

Live(p) == IF Head(pending) \in From(p) /\ \E e \in Flight : IsPrefix(e.node, p.node) THEN 1 ELSE 0

Rest(p) ==
  CASE pc = "inspect" -> Count(dirs, From(p)) + Count(pending, From(p))
    [] pc = "drain"   -> Count(pending, From(p))
    [] pc = "walk"    -> Count(Tail(pending), From(p)) + Live(p)
    [] OTHER          -> 0

CountInv ==
  ~ request.git /\ answer # "missing" =>
    \A p \in Place :
      Count(errors, {p}) + Count(channel, {Failure(p)}) + Rest(p) = Count(request.paths, From(p))

DInv ==
  /\ TypeInv /\ TreeInv /\ BaseInv /\ RootInv /\ WalkInv
  /\ SoundInv /\ CompleteInv /\ JudgeInv /\ ApartInv /\ CountInv
-----------------------------------------------------------------------------
(* What a queue holds when something is added or taken.                    *)
LEMMA QueueTail ==
  ASSUME NEW S, NEW q \in Seq(S), q # <<>>
  PROVE  /\ Head(q) \in S /\ Tail(q) \in Seq(S)
         /\ Range(q) = {Head(q)} \cup Range(Tail(q))
<1>1. /\ Len(q) \in Nat \ {0} /\ Head(q) = q[1] /\ Tail(q) \in Seq(S)
      /\ Len(Tail(q)) = Len(q) - 1 /\ \A i \in 1 .. Len(q) - 1 : Tail(q)[i] = q[i + 1]
  OBVIOUS
<1>2. \A i \in 2 .. Len(q) : q[i] = Tail(q)[i - 1] /\ i - 1 \in 1 .. Len(Tail(q))
  BY <1>1
<1>3. ASSUME NEW i \in 1 .. Len(q) PROVE q[i] \in {Head(q)} \cup Range(Tail(q))
  <2>1. CASE i = 1
    BY <1>1, <2>1
  <2>2. CASE i \in 2 .. Len(q)
    <3>1. i - 1 \in DOMAIN Tail(q) /\ q[i] = Tail(q)[i - 1]
      BY <1>1, <1>2, <2>2
    <3>2. QED
      BY <3>1 DEF Range
  <2>3. QED
    BY <1>1, <1>3, <2>1, <2>2
<1>4. {Head(q)} \cup Range(Tail(q)) \subseteq Range(q)
  BY <1>1 DEF Range
<1>5. QED
  BY <1>1, <1>3, <1>4 DEF Range

(* An entry put at the end of a queue joins what the queue holds.          *)
LEMMA QueueAppend ==
  ASSUME NEW S, NEW q \in Seq(S), NEW x \in S
  PROVE  Append(q, x) \in Seq(S) /\ Append(q, x) # <<>> /\ Range(Append(q, x)) = Range(q) \cup {x}
<1>1. /\ Append(q, x) \in Seq(S) /\ Len(Append(q, x)) = Len(q) + 1 /\ Len(q) \in Nat
      /\ Append(q, x)[Len(q) + 1] = x /\ \A i \in 1 .. Len(q) : Append(q, x)[i] = q[i]
  OBVIOUS
<1>2. Range(Append(q, x)) \subseteq Range(q) \cup {x}
  BY <1>1 DEF Range
<1>3. Range(q) \cup {x} \subseteq Range(Append(q, x))
  BY <1>1 DEF Range
<1>4. QED
  BY <1>1, <1>2, <1>3

(* What a queue holds.                                                     *)
LEMMA QueueRange ==
  ASSUME NEW S, NEW q \in Seq(S)
  PROVE  Range(q) \subseteq S /\ (q = <<>> => Range(q) = {})
BY DEF Range

(* How a count changes when something is added or taken.                   *)
LEMMA CountTyped ==
  ASSUME NEW T, NEW q \in Seq(T), NEW S
  PROVE  /\ Count(q, S) \in Nat /\ IsFiniteSet({i \in DOMAIN q : q[i] \in S})
         /\ (q = <<>> => Count(q, S) = 0)
<1>1. IsFiniteSet(1 .. Len(q)) /\ DOMAIN q = 1 .. Len(q)
  BY FS_Interval
<1>2. IsFiniteSet({i \in DOMAIN q : q[i] \in S})
  BY <1>1, FS_Subset
<1>3. q = <<>> => {i \in DOMAIN q : q[i] \in S} = {}
  OBVIOUS
<1>4. QED
  BY <1>2, <1>3, FS_CardinalityType, FS_EmptySet DEF Count

(* An entry at the end adds one to the count of a set that has it.         *)
LEMMA CountAppend ==
  ASSUME NEW T, NEW q \in Seq(T), NEW x \in T, NEW S
  PROVE  Count(Append(q, x), S) = Count(q, S) + IF x \in S THEN 1 ELSE 0
<1> DEFINE A == {i \in DOMAIN q : q[i] \in S}
           B == {i \in DOMAIN Append(q, x) : Append(q, x)[i] \in S}
<1>1. /\ Len(q) \in Nat /\ DOMAIN q = 1 .. Len(q) /\ DOMAIN Append(q, x) = 1 .. Len(q) + 1
      /\ Append(q, x)[Len(q) + 1] = x /\ \A i \in 1 .. Len(q) : Append(q, x)[i] = q[i]
  OBVIOUS
<1>2. B = IF x \in S THEN A \cup {Len(q) + 1} ELSE A
  BY <1>1
<1>3. IsFiniteSet(A) /\ Len(q) + 1 \notin A /\ Cardinality(A) \in Nat
  <2>1. IsFiniteSet(A) /\ Count(q, S) \in Nat /\ Count(q, S) = Cardinality(A)
    BY CountTyped DEF Count
  <2>2. Len(q) + 1 \notin A
    BY <1>1
  <2>3. QED
    BY <2>1, <2>2
<1>4. Count(q, S) = Cardinality(A) /\ Count(Append(q, x), S) = Cardinality(B)
  BY DEF Count
<1> HIDE DEF A, B
<1>5. Cardinality(B) = Cardinality(A) + IF x \in S THEN 1 ELSE 0
  <2>1. Cardinality(A \cup {Len(q) + 1}) = Cardinality(A) + 1
    BY <1>3, FS_AddElement
  <2>2. QED
    BY <1>2, <1>3, <2>1
<1>6. QED
  BY <1>4, <1>5

(* An entry taken from the front is one less in the count of a set that    *)
(* has it.                                                                 *)
LEMMA CountTail ==
  ASSUME NEW T, NEW q \in Seq(T), q # <<>>, NEW S
  PROVE  Count(q, S) = Count(Tail(q), S) + IF Head(q) \in S THEN 1 ELSE 0
<1> DEFINE A == {i \in DOMAIN q : q[i] \in S}
           B == {i \in DOMAIN Tail(q) : Tail(q)[i] \in S}
           f == [i \in B |-> i + 1]
<1>1. /\ Len(q) \in Nat \ {0} /\ DOMAIN q = 1 .. Len(q) /\ DOMAIN Tail(q) = 1 .. Len(q) - 1
      /\ Head(q) = q[1] /\ Tail(q) \in Seq(T) /\ \A i \in 1 .. Len(q) - 1 : Tail(q)[i] = q[i + 1]
  OBVIOUS
<1>2. IsFiniteSet(A) /\ IsFiniteSet(B) /\ Cardinality(A) \in Nat /\ Cardinality(B) \in Nat
  BY <1>1, CountTyped DEF Count
<1>3. f \in Bijection(B, A \ {1})
  <2>1. \A i \in B : i + 1 \in A \ {1}
    BY <1>1
  <2>2. \A j \in A \ {1} : j - 1 \in B /\ (j - 1) + 1 = j
    <3>1. ASSUME NEW j \in A \ {1} PROVE j - 1 \in B /\ (j - 1) + 1 = j
      <4>1. j \in 2 .. Len(q) /\ q[j] \in S
        BY <1>1
      <4>2. j - 1 \in 1 .. Len(q) - 1 /\ (j - 1) + 1 = j
        BY <1>1, <4>1
      <4>3. Tail(q)[j - 1] = q[j]
        BY <1>1, <4>2
      <4>4. QED
        BY <1>1, <4>1, <4>2, <4>3
    <3>2. QED
      BY <3>1
  <2>3. \A i, j \in B : i + 1 = j + 1 => i = j
    BY <1>1
  <2> HIDE DEF A, B
  <2>4. QED
    BY <2>1, <2>2, <2>3 DEF Bijection, Injection, Surjection, IsInjective
<1>4. 1 \in A <=> Head(q) \in S
  BY <1>1
<1>5. Count(q, S) = Cardinality(A) /\ Count(Tail(q), S) = Cardinality(B)
  BY DEF Count
<1> HIDE DEF A, B, f
<1>6. Cardinality(A \ {1}) = Cardinality(B)
  BY <1>2, <1>3, FS_Bijection DEF ExistsBijection
<1>7. Cardinality(A \ {1}) = IF 1 \in A THEN Cardinality(A) - 1 ELSE Cardinality(A)
  BY <1>2, FS_RemoveElement
<1>8. QED
  BY <1>2, <1>4, <1>5, <1>6, <1>7

(* The directories above a path are its beginnings.                        *)
LEMMA Cuts ==
  ASSUME NEW n \in Node
  PROVE  /\ n \in Seq(STRING) /\ Len(n) \in Nat /\ SubSeq(n, 1, Len(n)) = n
         /\ \A k \in 0 .. Len(n) :
              /\ SubSeq(n, 1, k) \in Node /\ Len(SubSeq(n, 1, k)) = k
              /\ \A j \in 0 .. k : SubSeq(SubSeq(n, 1, k), 1, j) = SubSeq(n, 1, j)
<1>1. n \in Seq(STRING) /\ Len(n) \in Nat
  BY NodesAssumption
<1>2. SubSeq(n, 1, Len(n)) = n
  BY <1>1
<1>3. ASSUME NEW k \in 0 .. Len(n)
      PROVE  /\ SubSeq(n, 1, k) \in Node /\ Len(SubSeq(n, 1, k)) = k
             /\ \A j \in 0 .. k : SubSeq(SubSeq(n, 1, k), 1, j) = SubSeq(n, 1, j)
  <2>1. SubSeq(n, 1, k) \in Node /\ Len(SubSeq(n, 1, k)) = k
    BY <1>1, NodesAssumption
  <2>2. ASSUME NEW j \in 0 .. k PROVE SubSeq(SubSeq(n, 1, k), 1, j) = SubSeq(n, 1, j)
    BY <1>1, <2>1
  <2>3. QED
    BY <2>1, <2>2
<1>4. QED
  BY <1>1, <1>2, <1>3

(* A path is above another exactly when it is the other cut at its length. *)
LEMMA PrefixIsCut ==
  ASSUME NEW m \in Node, NEW n \in Node
  PROVE  IsPrefix(m, n) <=> Len(m) <= Len(n) /\ SubSeq(n, 1, Len(m)) = m
BY Cuts DEF IsPrefix

(* The directory of a path is the path without its last name.              *)
LEMMA FrontIsCut ==
  ASSUME NEW n \in Node, n # <<>>
  PROVE  Front(n) = SubSeq(n, 1, Len(n) - 1) /\ Front(n) \in Node /\ Len(n) \in Nat \ {0} /\ Len(Front(n)) = Len(n) - 1
<1>1. Len(n) \in Nat \ {0}
  BY Cuts
<1>2. Len(n) - 1 \in 0 .. Len(n) /\ Front(n) = SubSeq(n, 1, Len(n) - 1)
  BY <1>1 DEF Front
<1>3. QED
  BY <1>1, <1>2, Cuts

(* Above whatever lies on the way from d to n are only things on it.       *)
LEMMA PrefixTransitive ==
  ASSUME NEW d \in Node, NEW e \in Node, NEW n \in Node, IsPrefix(d, e), IsPrefix(e, n)
  PROVE  IsPrefix(d, n) /\ Len(d) <= Len(e) /\ Len(e) <= Len(n)
         /\ \A k \in 0 .. Len(e) : SubSeq(e, 1, k) = SubSeq(n, 1, k)
<1>1. /\ Len(d) <= Len(e) /\ SubSeq(e, 1, Len(d)) = d /\ Len(d) \in Nat
      /\ Len(e) <= Len(n) /\ SubSeq(n, 1, Len(e)) = e /\ Len(e) \in Nat /\ Len(n) \in Nat
  BY PrefixIsCut, Cuts
<1>2. ASSUME NEW k \in 0 .. Len(e) PROVE SubSeq(e, 1, k) = SubSeq(n, 1, k)
  <2>1. Len(e) \in 0 .. Len(n)
    BY <1>1
  <2>2. SubSeq(SubSeq(n, 1, Len(e)), 1, k) = SubSeq(n, 1, k)
    BY <2>1, Cuts
  <2>3. QED
    BY <1>1, <2>2
<1>3. SubSeq(n, 1, Len(d)) = d /\ Len(d) <= Len(n)
  BY <1>1, <1>2
<1>4. QED
  BY <1>1, <1>2, <1>3, PrefixIsCut

(* Two paths on the way to a third lie on one way.                         *)
LEMMA PrefixesCompare ==
  ASSUME NEW d \in Node, NEW e \in Node, NEW n \in Node, IsPrefix(d, n), IsPrefix(e, n)
  PROVE  IsPrefix(d, e) \/ IsPrefix(e, d)
<1>1. /\ Len(d) <= Len(n) /\ SubSeq(n, 1, Len(d)) = d /\ Len(d) \in Nat
      /\ Len(e) <= Len(n) /\ SubSeq(n, 1, Len(e)) = e /\ Len(e) \in Nat /\ Len(n) \in Nat
  BY PrefixIsCut, Cuts
<1>2. CASE Len(d) <= Len(e)
  BY <1>1, <1>2, Cuts, PrefixIsCut
<1>3. CASE Len(e) <= Len(d)
  BY <1>1, <1>3, Cuts, PrefixIsCut
<1>4. QED
  BY <1>1, <1>2, <1>3

(* The next entry on the way from e down to n.                             *)
LEMMA NextOnTheWay ==
  ASSUME NEW e \in Node, NEW n \in Node, IsPrefix(e, n), e # n
  PROVE  /\ Len(e) < Len(n)
         /\ \E m \in Node \ {<<>>} : /\ Front(m) = e /\ IsPrefix(m, n) /\ Len(m) = Len(e) + 1
                                     /\ m = SubSeq(n, 1, Len(m))
<1>1. Len(e) <= Len(n) /\ SubSeq(n, 1, Len(e)) = e /\ Len(e) \in Nat /\ Len(n) \in Nat
  BY PrefixIsCut, Cuts
<1>2. Len(e) < Len(n)
  BY <1>1, Cuts
<1> DEFINE m == SubSeq(n, 1, Len(e) + 1)
<1>3. m \in Node /\ Len(m) = Len(e) + 1 /\ SubSeq(m, 1, Len(e)) = SubSeq(n, 1, Len(e))
  BY <1>1, <1>2, Cuts
<1> HIDE DEF m
<1>4. m # <<>>
  BY <1>1, <1>3
<1>5. Front(m) = e /\ m = SubSeq(n, 1, Len(m))
  <2>1. Front(m) = SubSeq(m, 1, Len(m) - 1)
    BY <1>3, <1>4, FrontIsCut
  <2>2. Len(m) - 1 = Len(e)
    BY <1>1, <1>3
  <2>3. m = SubSeq(n, 1, Len(e) + 1)
    BY DEF m
  <2>4. QED
    BY <1>1, <1>3, <2>1, <2>2, <2>3
<1>6. IsPrefix(m, n)
  BY <1>1, <1>2, <1>3, <1>5, PrefixIsCut
<1>7. QED
  BY <1>2, <1>3, <1>4, <1>5, <1>6

(* Above what a directory lists are itself and what is above it.           *)
LEMMA AboveListed ==
  ASSUME NEW e \in Node, NEW m \in Node \ {<<>>}, Front(m) = e
  PROVE  /\ IsPrefix(e, m) /\ e # m /\ Len(m) = Len(e) + 1
         /\ \A f \in Node : IsPrefix(f, m) => f = m \/ IsPrefix(f, e)
<1>1. e = SubSeq(m, 1, Len(m) - 1) /\ Len(m) \in Nat \ {0} /\ Len(e) = Len(m) - 1
  BY FrontIsCut
<1>2. SubSeq(m, 1, Len(e)) = e
  BY <1>1
<1>3. Len(m) \in Nat /\ Len(e) \in Nat /\ Len(m) = Len(e) + 1 /\ Len(e) <= Len(m)
  <2>1. Len(m) \in Nat /\ Len(e) \in Nat /\ Len(e) = Len(m) - 1
    BY <1>1, Cuts
  <2>2. QED
    BY <2>1
<1>4. IsPrefix(e, m) /\ e # m
  BY <1>2, <1>3, PrefixIsCut
<1>5. ASSUME NEW f \in Node, IsPrefix(f, m) PROVE f = m \/ IsPrefix(f, e)
  <2>1. Len(f) \in Nat /\ Len(f) <= Len(m)
    BY <1>5, PrefixIsCut, Cuts
  <2>2. SubSeq(m, 1, Len(f)) = f /\ SubSeq(m, 1, Len(m)) = m
    BY <1>5, PrefixIsCut, Cuts
  <2>3. CASE Len(f) = Len(m)
    BY <2>2, <2>3
  <2>4. CASE Len(f) # Len(m)
    <3>1. Len(f) <= Len(e)
      BY <1>3, <2>1, <2>4
    <3>2. CASE IsPrefix(e, f)
      <4>1. Len(e) <= Len(f) /\ SubSeq(f, 1, Len(e)) = e
        BY <3>2, PrefixIsCut
      <4>2. Len(e) = Len(f)
        BY <1>3, <2>1, <3>1, <4>1
      <4>3. SubSeq(f, 1, Len(f)) = f
        BY Cuts
      <4>4. f = e
        BY <4>1, <4>2, <4>3
      <4>5. QED
        BY <3>2, <4>4
    <3>3. QED
      BY <1>4, <1>5, <3>2, PrefixesCompare
  <2>5. QED
    BY <2>3, <2>4
<1>6. QED
  BY <1>3, <1>4, <1>5

(* A walk that reaches a directory it can read reaches what it lists.      *)
LEMMA ReachesListed ==
  ASSUME NEW d \in Node, NEW e \in Node, NEW m \in Node \ {<<>>},
         Reaches(d, e), kind[e] = "dir", Front(m) = e, m \notin Ignored
  PROVE  Reaches(d, m)
<1>1. /\ Len(m) \in Nat /\ Len(e) = Len(m) - 1 /\ SubSeq(m, 1, Len(e)) = e /\ SubSeq(m, 1, Len(m)) = m
      /\ Len(d) \in Nat /\ Len(e) \in Nat
  <2>1. Len(m) \in Nat \ {0} /\ Len(e) = Len(m) - 1 /\ e = SubSeq(m, 1, Len(m) - 1)
    BY FrontIsCut
  <2>2. SubSeq(m, 1, Len(e)) = e
    BY <2>1
  <2>3. QED
    BY <2>1, <2>2, Cuts
<1>2. IsPrefix(d, e) /\ IsPrefix(e, m)
  BY <1>1, PrefixIsCut DEF Reaches
<1>3. IsPrefix(d, m) /\ \A k \in 0 .. Len(e) : SubSeq(e, 1, k) = SubSeq(m, 1, k)
  BY <1>2, PrefixTransitive
<1>4. ASSUME NEW k \in Len(d) .. Len(m) - 1 PROVE kind[SubSeq(m, 1, k)] = "dir"
  <2>1. CASE k = Len(e)
    BY <1>1, <2>1
  <2>2. CASE k # Len(e)
    <3>1. k \in Len(d) .. Len(e) - 1 /\ k \in 0 .. Len(e)
      BY <1>1, <2>2
    <3>2. QED
      BY <1>3, <3>1 DEF Reaches
  <2>3. QED
    BY <2>1, <2>2
<1>5. ASSUME NEW k \in Len(d) + 1 .. Len(m) PROVE SubSeq(m, 1, k) \notin Ignored
  <2>1. CASE k = Len(m)
    BY <1>1, <2>1
  <2>2. CASE k # Len(m)
    <3>1. k \in Len(d) + 1 .. Len(e) /\ k \in 0 .. Len(e)
      BY <1>1, <2>2
    <3>2. QED
      BY <1>3, <3>1 DEF Reaches
  <2>3. QED
    BY <2>1, <2>2
<1>6. QED
  BY <1>3, <1>4, <1>5 DEF Reaches

(* A walk that starts at a path has reached it.                            *)
LEMMA ReachesItself ==
  ASSUME NEW d \in Node
  PROVE  Reaches(d, d) /\ IsPrefix(d, d)
<1>1. Len(d) \in Nat /\ IsPrefix(d, d)
  BY Cuts, PrefixIsCut
<1>2. QED
  BY <1>1 DEF Reaches

(* What lies strictly between the base of a walk and a path it reaches, or *)
(* could reach if all could be read.                                       *)
LEMMA Between ==
  ASSUME NEW d \in Node, NEW e \in Node, NEW n \in Node, IsPrefix(d, e), IsPrefix(e, n)
  PROVE  /\ Reaches(d, n) => Opens(d, n)
         /\ Reaches(d, n) /\ e # n => kind[e] = "dir"
         /\ Opens(d, n) /\ e # n => kind[e] \in {"dir", "broken"}
         /\ Opens(d, n) /\ d # e => e \notin Ignored
<1>1. /\ Len(d) \in Nat /\ Len(e) \in Nat /\ Len(n) \in Nat /\ Len(d) <= Len(e) /\ Len(e) <= Len(n)
      /\ SubSeq(n, 1, Len(e)) = e
  BY Cuts, PrefixIsCut
<1>2. e # n => Len(e) \in Len(d) .. Len(n) - 1
  <2>1. SubSeq(n, 1, Len(n)) = n
    BY Cuts
  <2>2. QED
    BY <1>1, <2>1
<1>3. d # e => Len(e) \in Len(d) + 1 .. Len(n)
  <2>1. SubSeq(e, 1, Len(d)) = d /\ SubSeq(e, 1, Len(e)) = e
    BY Cuts, PrefixIsCut
  <2>2. QED
    BY <1>1, <2>1
<1>4. QED
  BY <1>1, <1>2, <1>3 DEF Reaches, Opens

(* What an author does leaves every directory, link and untouched path as  *)
(* it was. *)
LEMMA KindsSettled ==
  ASSUME TypeInv, [Next]_vars
  PROVE  /\ steady' \subseteq steady
         /\ \A n \in steady' : kind'[n] = kind[n]
         /\ \A n \in Node : kind'[n] # kind[n] => {kind[n], kind'[n]} = {"file", "absent"} /\ pc # "done"
         /\ kind' \in [Node -> Kind]
<1>1. ASSUME NEW n \in Node, Change(n)
      PROVE  /\ kind' = [kind EXCEPT ![n] = kind'[n]] /\ steady' = steady \ {n} /\ pc # "done"
             /\ {kind[n], kind'[n]} = {"file", "absent"}
  <2>1. steady' = steady \ {n} /\ pc # "done" /\ kind \in [Node -> Kind]
    BY <1>1 DEF Change, TypeInv
  <2>2. CASE kind[n] = "file" /\ kind' = [kind EXCEPT ![n] = "absent"]
    <3>1. kind'[n] = "absent"
      BY <2>1, <2>2
    <3>2. QED
      BY <2>1, <2>2, <3>1
  <2>3. CASE kind[n] = "absent" /\ kind' = [kind EXCEPT ![n] = "file"]
    <3>1. kind'[n] = "file"
      BY <2>1, <2>3
    <3>2. QED
      BY <2>1, <2>3, <3>1
  <2>4. QED
    BY <1>1, <2>2, <2>3 DEF Change
<1>2. CASE \E n \in Node : Change(n)
  BY <1>1, <1>2 DEF TypeInv, Kind
<1>3. CASE UNCHANGED world
  BY <1>3 DEF world, TypeInv
<1>4. QED
  BY <1>2, <1>3
  DEF Next, Step, vars, InspectRoot, InspectCandidate, Inspected, StartWalk, Joined, Receive, Drained, Judge, Judged,
      Take, Visit

(* The tree and the request stay as they are, and so does what can be      *)
(* reached from where.                                                     *)
LEMMA WaysSettled ==
  ASSUME TypeInv, [Next]_vars, NEW d \in Node, NEW n \in Node
  PROVE  (Reaches(d, n)' <=> Reaches(d, n)) /\ (Opens(d, n)' <=> Opens(d, n))
<1>1. Len(d) \in Nat /\ Len(n) \in Nat /\ \A k \in 0 .. Len(n) : SubSeq(n, 1, k) \in Node
  BY Cuts
<1>2. \A k \in Len(d) .. Len(n) - 1 : SubSeq(n, 1, k) \in Node
  BY <1>1
<1>3. \A m \in Node : (kind'[m] = "dir" <=> kind[m] = "dir") /\ (kind'[m] = "broken" <=> kind[m] = "broken")
  BY KindsSettled
<1>4. QED
  BY <1>2, <1>3 DEF Reaches, Opens

(* A request names places of the tree; with git it names them by their     *)
(* plain paths.                                                            *)
LEMMA RequestTyped ==
  ASSUME TypeInv
  PROVE  /\ request.git \in BOOLEAN /\ request.paths \in Seq(Place) /\ Range(request.paths) \subseteq Place
         /\ request.git => \A c \in Range(request.paths) : c.as # "dotted"
<1>1. request \in Requests /\ request \in Request
  BY NodesAssumption DEF TypeInv
<1>2. request.git \in BOOLEAN /\ request.paths \in Seq(Place)
  BY <1>1 DEF Request, Place
<1>3. QED
  BY <1>1, <1>2, QueueRange, NodesAssumption

(* A run without paths starts at the root, which is a place.               *)
LEMMA RootPlace == Path("plain", <<>>) \in Place /\ <<Path("plain", <<>>)>> \in Seq(Place)
BY NodesAssumption DEF Path, Place, Spelling

(* An entry in flight is an entry; the idle mark is not one.               *)
LEMMA FlightTyped ==
  ASSUME TypeInv
  PROVE  /\ Flight \subseteq Item
         /\ Idle \notin Item
         /\ \A w \in Worker : hand[w] # Idle => hand[w] \in Flight
BY DEF TypeInv, Flight, Item, Idle, Kind

(* Every variable keeps its type. *)
LEMMA TypesStay ==
  ASSUME TypeInv, WalkInv, [Next]_vars
  PROVE  TypeInv'
<1> USE DEF world, pool
<1>1. kind' \in [Node -> Kind] /\ steady' \subseteq Node
  BY KindsSettled DEF TypeInv
<1>2. CASE InspectRoot
  <2>1. Head(pending) \in Place /\ Tail(pending) \in Seq(Place)
    BY <1>2, QueueTail DEF InspectRoot, TypeInv
  <2>2. Append(dirs, Head(pending)) \in Seq(Place)
    BY <2>1, QueueAppend DEF TypeInv
  <2>3. QED
    BY <1>2, <2>1, <2>2 DEF InspectRoot, Done, TypeInv
<1>3. CASE InspectCandidate
  <2>1. Tail(pending) \in Seq(Place)
    BY <1>3, QueueTail DEF InspectCandidate, TypeInv
  <2>2. QED
    BY <1>3, <2>1 DEF InspectCandidate, Done, TypeInv
<1>4. CASE Inspected
  BY <1>4, RootPlace DEF Inspected, TypeInv
<1>5. CASE StartWalk
  <2>1. Head(pending) \in Place
    BY <1>5, QueueTail DEF StartWalk, TypeInv
  <2>2. Entry(Head(pending).node) \in Item
    BY <2>1 DEF TypeInv, Entry, Item, Place
  <2>3. QED
    BY <1>5, <2>2 DEF StartWalk, TypeInv
<1>6. ASSUME NEW w \in Worker, Take(w) PROVE TypeInv'
  BY <1>6 DEF Take, TypeInv
<1>7. ASSUME NEW w \in Worker, Visit(w) PROVE TypeInv'
  <2>1. Head(pending) \in Place /\ hand[w] \in Item
    BY <1>7, QueueTail, FlightTyped DEF Visit, TypeInv, WalkInv
  <2>2. \A ok \in BOOLEAN : [ok |-> ok, path |-> Path(Head(pending).as, hand[w].node)] \in Message
    BY <2>1 DEF Message, Path, Place, Item
  <2>3. \A m \in Message : Append(channel, m) \in Seq(Message)
    BY QueueAppend DEF TypeInv
  <2>4. channel' \in Seq(Message)
    BY <1>7, <2>2, <2>3 DEF Visit, Send, TypeInv
  <2>5. todo' \subseteq Item
    <3>1. Listed(hand[w].node) \subseteq Item
      BY DEF Listed, Entry, Item, TypeInv
    <3>2. QED
      BY <1>7, <3>1 DEF Visit, AfterError, TypeInv
  <2>6. hand' \in [Worker -> {Idle} \cup Item]
    BY <1>7 DEF Visit, TypeInv
  <2>7. QED
    BY <1>7, <2>4, <2>5, <2>6 DEF Visit, TypeInv
<1>8. CASE Joined
  <2>1. Tail(pending) \in Seq(Place)
    BY <1>8, QueueTail DEF Joined, TypeInv, WalkInv
  <2>2. QED
    BY <1>8, <2>1 DEF Joined, AfterWalk, TypeInv
<1>9. CASE Receive
  <2>1. Head(channel) \in Message /\ Tail(channel) \in Seq(Message)
    BY <1>9, QueueTail DEF Receive, TypeInv
  <2>2. Carried(Head(channel)) \in Place
    BY <2>1 DEF Carried, Message
  <2>3. Append(errors, Carried(Head(channel))) \in Seq(Place)
    BY <2>2, QueueAppend DEF TypeInv
  <2>4. QED
    BY <1>9, <2>1, <2>2, <2>3 DEF Receive, TypeInv
<1>10. CASE Drained
  BY <1>10, RequestTyped DEF Drained, Done, Verdict, TypeInv
<1>11. CASE Judge
  <2>1. Head(pending) \in Place /\ Tail(pending) \in Seq(Place)
    BY <1>11, QueueTail DEF Judge, TypeInv
  <2>2. Append(errors, Head(pending)) \in Seq(Place)
    BY <2>1, QueueAppend DEF TypeInv
  <2>3. QED
    BY <1>11, <2>1, <2>2 DEF Judge, SecondLook, TypeInv
<1>12. CASE Judged
  BY <1>12 DEF Judged, Done, Verdict, TypeInv
<1>13. ASSUME NEW n \in Node, Change(n) PROVE TypeInv'
  <2>1. changes' \in 0 .. MaxChanges
    BY <1>13, WorkersAssumption DEF Change, TypeInv
  <2>2. QED
    BY <1>1, <1>13, <2>1 DEF Change, TypeInv
<1>14. CASE UNCHANGED vars
  BY <1>14 DEF vars, TypeInv
<1>15. QED
  BY <1>2, <1>3, <1>4, <1>5, <1>6, <1>7, <1>8, <1>9, <1>10, <1>11, <1>12, <1>13, <1>14 DEF Next, Step

(* The tree under an untouched file stays, and each argument is accounted  *)
(* for: a file among those found, a directory among those to walk.         *)
LEMMA BasesStay ==
  ASSUME TypeInv, TreeInv, BaseInv, RootInv, [Next]_vars
  PROVE  TreeInv' /\ BaseInv'
<1>k. /\ \A n \in Node : kind[n] \in {"dir", "broken"} => kind'[n] = kind[n]
      /\ steady' \subseteq steady /\ \A n \in steady' : kind'[n] = kind[n]
  BY KindsSettled
<1>t. TreeInv'
  <2>1. kind'[<<>>] \in {"dir", "broken"}
    BY <1>k, NodesAssumption DEF TreeInv
  <2>2. ASSUME NEW n \in steady', kind'[n] = "file", NEW k \in 0 .. Len(n) - 1
        PROVE  kind'[SubSeq(n, 1, k)] \in {"dir", "broken"}
    <3>1. n \in Node /\ kind[SubSeq(n, 1, k)] \in {"dir", "broken"}
      BY <1>k, <2>2 DEF TreeInv, TypeInv
    <3>2. Len(n) \in Nat /\ k \in 0 .. Len(n)
      BY <3>1, Cuts
    <3>3. SubSeq(n, 1, k) \in Node
      BY <3>1, <3>2, Cuts
    <3>4. QED
      BY <1>k, <3>1, <3>3
  <2>3. ASSUME NEW n \in Node \ steady' PROVE kind'[n] \in {"file", "absent"}
    <3>1. CASE n \in steady
      <4>1. PICK m \in Node : Change(m) /\ n = m
        BY <2>3, <3>1 DEF Next, Step, vars, world, InspectRoot, InspectCandidate, Inspected, StartWalk, Joined, Receive,
                          Drained, Judge, Judged, Take, Visit, Change
      <4>2. QED
        BY <4>1 DEF Change, TypeInv
    <3>2. CASE n \notin steady
      BY <2>3, <3>2, KindsSettled DEF TreeInv
    <3>3. QED
      BY <3>1, <3>2
  <2>4. QED
    BY <2>1, <2>2, <2>3 DEF TreeInv
<1>b. \A d \in Bases : d \in Place /\ kind'[d.node] \in {"dir", "broken"}
  <2>1. Range(dirs) \subseteq Place
    BY QueueRange DEF TypeInv
  <2>2. \A d \in Bases : d \in Place
    BY <2>1, RootPlace DEF Bases
  <2>3. QED
    BY <1>k, <2>2 DEF BaseInv, Place
<1>1. CASE UNCHANGED <<request, dirs>>
  <2>1. Bases' = Bases
    BY <1>1 DEF Bases
  <2>2. QED
    BY <1>t, <1>b, <1>1, <2>1 DEF BaseInv
<1>2. CASE /\ pc = "inspect" /\ pending # <<>> /\ ~ request.git /\ UNCHANGED request
           /\ kind[Head(pending).node] \in {"dir", "broken"} /\ dirs' = Append(dirs, Head(pending))
  <2>1. Head(pending) \in Place /\ Head(pending) \in Range(request.paths)
    BY <1>2, QueueTail DEF RootInv, TypeInv
  <2>2. Range(dirs') = Range(dirs) \cup {Head(pending)}
    BY <1>2, <2>1, QueueAppend DEF TypeInv
  <2>3. kind'[Head(pending).node] \in {"dir", "broken"}
    BY <1>k, <1>2, <2>1 DEF Place
  <2>4. Bases' = Bases \cup {Head(pending)}
    BY <1>2, <2>2 DEF Bases
  <2>5. \A d \in Bases' : kind'[d.node] \in {"dir", "broken"}
    BY <1>b, <2>3, <2>4
  <2>6. QED
    BY <1>t, <1>2, <2>1, <2>2, <2>5 DEF BaseInv
<1>3. QED
  BY <1>1, <1>2 DEF Next, Step, InspectRoot, InspectCandidate, Inspected, StartWalk, Joined, Receive, Drained, Judge,
                    Judged, Take, Visit, Change, vars

(* Each argument is accounted for until it is inspected, and then it is    *)
(* among the files found or the directories to walk.                       *)
LEMMA RootsStay ==
  ASSUME TypeInv, RootInv, WalkInv, [Next]_vars
  PROVE  RootInv'
<1>o. ASSUME pc' # "inspect", pc = "inspect" => pending = <<>>, UNCHANGED <<request, dirs>>, found \subseteq found',
             answer' \in {answer, "files", "walk"}, pc = "done" => answer' = answer
      PROVE  RootInv'
  <2>1. pc = "inspect" => Range(pending) = {}
    BY <1>o, QueueRange DEF TypeInv
  <2>2. (answer = "missing" => answer' = "missing") /\ (answer = "invalid" => answer' = "invalid")
    BY <1>o DEF WalkInv
  <2>3. QED
    BY <1>o, <2>1, <2>2 DEF RootInv
<1>1. CASE InspectRoot
  <2>1. /\ Head(pending) \in Place /\ Range(pending) = {Head(pending)} \cup Range(Tail(pending))
        /\ pc = "inspect" /\ ~ request.git /\ UNCHANGED request
    BY <1>1, QueueTail DEF InspectRoot, TypeInv
  <2>2. CASE Done("missing")
    BY <2>1, <2>2 DEF RootInv, Done
  <2>3. CASE found' = found \cup {Head(pending)} /\ pending' = Tail(pending) /\ UNCHANGED <<pc, answer, dirs>>
    BY <2>1, <2>3 DEF RootInv
  <2>4. CASE dirs' = Append(dirs, Head(pending)) /\ pending' = Tail(pending) /\ UNCHANGED <<pc, answer, found>>
    <3>1. Range(dirs') = Range(dirs) \cup {Head(pending)}
      BY <2>1, <2>4, QueueAppend DEF TypeInv
    <3>2. QED
      BY <2>1, <2>4, <3>1 DEF RootInv
  <2>5. QED
    BY <1>1, <2>2, <2>3, <2>4 DEF InspectRoot
<1>2. CASE InspectCandidate
  <2>1. /\ Head(pending) \in Place /\ Range(pending) = {Head(pending)} \cup Range(Tail(pending))
        /\ pc = "inspect" /\ request.git /\ UNCHANGED <<request, dirs, found>>
    BY <1>2, QueueTail DEF InspectCandidate, TypeInv
  <2>2. CASE Done("invalid")
    BY <2>1, <2>2 DEF RootInv, Done
  <2>3. CASE Head(pending).as # "outside" /\ pending' = Tail(pending) /\ UNCHANGED <<pc, answer>>
    <3>1. Head(pending) \in Range(request.paths)
      BY <2>1 DEF RootInv
    <3>2. Head(pending).as = "plain"
      BY <2>1, <2>3, <3>1, RequestTyped DEF Place, Spelling
    <3>3. QED
      BY <2>1, <2>3, <3>2 DEF RootInv
  <2>4. QED
    BY <1>2, <2>2, <2>3 DEF InspectCandidate
<1>3. CASE Inspected \/ StartWalk \/ Joined \/ Receive \/ Drained \/ Judge \/ Judged
  BY <1>3, <1>o DEF Inspected, StartWalk, Joined, Receive, Drained, Judge, SecondLook, Judged, Done, Verdict
<1>4. ASSUME NEW w \in Worker, Take(w) \/ Visit(w) PROVE RootInv'
  BY <1>4, <1>o DEF Take, Visit
<1>5. CASE UNCHANGED <<request, pc, pending, dirs, found, answer>>
  BY <1>5 DEF RootInv
<1>6. QED
  BY <1>1, <1>2, <1>3, <1>4, <1>5 DEF Next, Step, Change, vars

(* What is in flight changes only when a walk starts and when a thread has *)
(* visited an entry.                                                       *)
LEMMA FlightsKept ==
  ASSUME TypeInv, WalkInv
  PROVE  /\ UNCHANGED pool => Flight' = Flight
         /\ \A w \in Worker : Take(w) => Flight' = Flight
         /\ StartWalk => Flight' = {Entry(Head(pending).node)}
         /\ Joined => Flight = {} /\ Flight' = {}
         /\ Receive => Flight' = Flight
<1> USE DEF pool
<1>1. UNCHANGED <<todo, hand>> => Flight' = Flight
  BY DEF Flight
<1>2. ASSUME NEW w \in Worker, Take(w) PROVE Flight' = Flight
  <2>1. PICK e \in todo : todo' = todo \ {e} /\ hand' = [hand EXCEPT ![w] = e]
    BY <1>2 DEF Take
  <2>2. hand[w] = Idle /\ e # Idle /\ hand'[w] = e /\ \A v \in Worker \ {w} : hand'[v] = hand[v]
    BY <1>2, <2>1, FlightTyped DEF Take, TypeInv
  <2>3. QED
    BY <2>1, <2>2 DEF Flight
<1>3. ASSUME StartWalk PROVE Flight' = {Entry(Head(pending).node)}
  <2>1. Flight = {} /\ todo' = {Entry(Head(pending).node)} /\ hand' = hand
    BY <1>3 DEF StartWalk, WalkInv
  <2>2. \A w \in Worker : hand[w] = Idle
    BY <2>1 DEF Flight
  <2>3. QED
    BY <2>1, <2>2 DEF Flight
<1>4. ASSUME Joined PROVE Flight = {} /\ Flight' = {}
  BY <1>1, <1>4 DEF Joined, Flight
<1>5. QED
  BY <1>1, <1>2, <1>3, <1>4 DEF Receive

(* A visit takes its entry out of flight and puts what a directory lists   *)
(* into it.                                                                *)
LEMMA FlightsVisited ==
  ASSUME TypeInv, NEW w \in Worker, Visit(w)
  PROVE  /\ hand[w] \in Flight /\ hand[w] \in Item
         /\ Flight \ {hand[w]} \subseteq Flight'
         /\ hand[w].kind = "dir" => Listed(hand[w].node) \subseteq Flight'
         /\ Flight' \subseteq Flight \cup (IF hand[w].kind = "dir" THEN Listed(hand[w].node) ELSE {})
<1>1. /\ todo \subseteq todo' /\ hand'[w] = Idle /\ \A v \in Worker \ {w} : hand'[v] = hand[v]
      /\ hand[w].kind = "dir" => todo' = todo \cup Listed(hand[w].node)
      /\ hand[w].kind # "dir" => todo' = todo
  BY DEF Visit, AfterError, TypeInv
<1>2. hand[w] \in Flight /\ hand[w] \in Item
  BY FlightTyped DEF Visit
<1>3. QED
  BY <1>1, <1>2 DEF Flight

(* An entry stays what the walk took it for, whatever the author does.     *)
LEMMA TracesStay ==
  ASSUME TypeInv, [Next]_vars, NEW d \in Place, NEW e \in Item, Trace(d, e)
  PROVE  Trace(d, e)'
<1>1. d.node \in Node /\ e.node \in Node /\ e.kind \in Kind
  BY DEF Place, Item
<1>2. Reaches(d.node, e.node)'
  BY <1>1, WaysSettled DEF Trace
<1>3. CASE kind'[e.node] = kind[e.node]
  BY <1>2, <1>3, KindsSettled DEF Trace
<1>4. CASE kind'[e.node] # kind[e.node]
  <2>1. {kind[e.node], kind'[e.node]} = {"file", "absent"} /\ e.node \notin steady'
    BY <1>1, <1>4, KindsSettled
  <2>2. e.kind = "file"
    BY <1>1, <2>1 DEF Trace
  <2>3. QED
    BY <1>2, <2>1, <2>2 DEF Trace
<1>5. QED
  BY <1>3, <1>4

(* The walk goes down from its base only, and an answer is given as the    *)
(* failures say.                                                           *)
LEMMA WalkStay ==
  ASSUME TypeInv, BaseInv, RootInv, WalkInv, [Next]_vars
  PROVE  WalkInv'
<1> USE DEF world, pool
<1>b. UNCHANGED <<request, dirs>> => Bases' = Bases
  BY DEF Bases
<1>t. ASSUME NEW d \in Place, \A e \in Flight : Trace(d, e)
      PROVE  \A e \in Flight : Trace(d, e)'
  BY <1>t, FlightTyped, TracesStay
<1>h. pc = "walk" => Head(pending) \in Place /\ Tail(pending) \in Seq(Place)
                     /\ Range(Tail(pending)) \subseteq Range(pending) /\ Head(pending) \in Range(pending)
  BY QueueTail DEF WalkInv, TypeInv
<1>1. CASE InspectRoot \/ InspectCandidate
  <2>1. Flight' = Flight /\ pc = "inspect" /\ pc' \in {"inspect", "done"}
        /\ (pc' = "done" <=> answer' # "none") /\ answer' \in {"none", "missing", "invalid"}
        /\ UNCHANGED <<channel, request>>
        /\ (answer' = "missing" => ~ request.git) /\ (answer' = "invalid" => request.git)
    BY <1>1, FlightsKept DEF InspectRoot, InspectCandidate, Done, WalkInv
  <2>2. QED
    BY <2>1 DEF WalkInv
<1>2. CASE Inspected
  <2>1. Flight' = Flight /\ Bases' = Bases
    BY <1>2, <1>b, FlightsKept DEF Inspected
  <2>2. Range(pending') \subseteq Bases
    BY <1>2 DEF Inspected, Bases, Range
  <2>3. QED
    BY <1>2, <2>1, <2>2 DEF Inspected, WalkInv
<1>3. CASE StartWalk
  <2>1. Flight' = {Entry(Head(pending).node)} /\ Bases' = Bases /\ UNCHANGED <<kind, steady, pending>>
    BY <1>3, <1>b, FlightsKept DEF StartWalk
  <2>2. Head(pending) \in Place /\ Head(pending) \in Bases /\ pending # <<>>
    BY <1>3, QueueTail DEF StartWalk, TypeInv, WalkInv
  <2>3. Head(pending).node \in Node /\ kind[Head(pending).node] \in {"dir", "broken"}
    BY <2>2 DEF Place, BaseInv
  <2>4. Trace(Head(pending), Entry(Head(pending).node))
    BY <2>3, ReachesItself DEF Trace, Entry
  <2>5. Entry(Head(pending).node) \in Item
    BY <2>3 DEF Entry, Item, TypeInv
  <2>6. \A e \in Flight' : Trace(Head(pending), e)'
    BY <2>1, <2>2, <2>4, <2>5, TracesStay
  <2>7. QED
    BY <1>3, <2>1, <2>2, <2>6 DEF StartWalk, WalkInv
<1>4. ASSUME NEW w \in Worker, Take(w) PROVE WalkInv'
  <2>1. Flight' = Flight /\ Bases' = Bases
    BY <1>4, <1>b, FlightsKept DEF Take
  <2>2. \A e \in Flight' : Trace(Head(pending), e)'
    BY <1>4, <1>h, <1>t, <2>1 DEF Take, WalkInv
  <2>3. QED
    BY <1>4, <2>1, <2>2 DEF Take, WalkInv
<1>5. ASSUME NEW w \in Worker, Visit(w) PROVE WalkInv'
  <2>1. Bases' = Bases /\ pc = "walk" /\ UNCHANGED pending
    BY <1>5, <1>b DEF Visit
  <2>2. ASSUME NEW e \in Flight' PROVE Trace(Head(pending), e)'
    <3>1. CASE e \in Flight
      BY <1>h, <1>t, <2>1, <3>1 DEF WalkInv
    <3>2. CASE hand[w].kind = "dir" /\ e \in Listed(hand[w].node)
      <4>1. PICK m \in Node \ {<<>>} : /\ e = Entry(m) /\ Front(m) = hand[w].node /\ kind[m] # "absent"
                                       /\ m \notin Ignored
        BY <3>2 DEF Listed
      <4>2. hand[w] \in Item /\ Trace(Head(pending), hand[w])
        BY <1>5, <2>1, FlightsVisited DEF WalkInv
      <4>3. kind[hand[w].node] = "dir" /\ Reaches(Head(pending).node, hand[w].node)
        BY <3>2, <4>2 DEF Trace
      <4>4. Head(pending).node \in Node /\ hand[w].node \in Node
        BY <1>h, <2>1, <4>2 DEF Place, Item
      <4>5. Reaches(Head(pending).node, m)
        BY <4>1, <4>3, <4>4, ReachesListed
      <4>6. Trace(Head(pending), e) /\ e \in Item
        BY <4>1, <4>5 DEF Trace, Entry, Item, TypeInv
      <4>7. QED
        BY <1>h, <2>1, <4>6, TracesStay
    <3>3. QED
      BY <1>5, <2>2, <3>1, <3>2, FlightsVisited
  <2>3. QED
    BY <1>5, <2>1, <2>2 DEF Visit, WalkInv
<1>6. CASE Joined
  <2>1. Flight' = {} /\ Bases' = Bases
    BY <1>6, <1>b, FlightsKept DEF Joined
  <2>2. QED
    BY <1>6, <1>h, <2>1 DEF Joined, WalkInv
<1>7. CASE Receive
  <2>1. Flight' = Flight /\ Bases' = Bases
    BY <1>7, <1>b, FlightsKept DEF Receive
  <2>2. QED
    BY <1>7, <2>1 DEF Receive, WalkInv
<1>8. CASE Drained
  <2>1. Flight' = Flight /\ Bases' = Bases
    BY <1>8, <1>b, FlightsKept DEF Drained
  <2>2. QED
    BY <1>8, <2>1 DEF Drained, Done, Verdict, WalkInv
<1>9. CASE Judge
  <2>1. Flight' = Flight /\ Bases' = Bases
    BY <1>9, <1>b, FlightsKept DEF Judge
  <2>2. QED
    BY <1>9, <2>1 DEF Judge, WalkInv
<1>10. CASE Judged
  <2>1. Flight' = Flight /\ Bases' = Bases
    BY <1>10, <1>b, FlightsKept DEF Judged
  <2>2. QED
    BY <1>10, <2>1 DEF Judged, Done, Verdict, WalkInv
<1>11. CASE UNCHANGED <<request, pc, pending, dirs, pool, found, errors, answer>>
  <2>1. Flight' = Flight /\ Bases' = Bases
    BY <1>11, <1>b, FlightsKept
  <2>2. pc = "walk" => \A e \in Flight' : Trace(Head(pending), e)'
    BY <1>11, <1>h, <1>t, <2>1 DEF WalkInv
  <2>3. QED
    BY <1>11, <2>1, <2>2 DEF WalkInv
<1>12. QED
  BY <1>1, <1>2, <1>3, <1>4, <1>5, <1>6, <1>7, <1>8, <1>9, <1>10, <1>11 DEF Next, Step, Change, vars

(* Once the arguments are inspected, the bases of the walks stay.          *)
LEMMA BasesSettled ==
  ASSUME TypeInv, RootInv, [Next]_vars
  PROVE  /\ UNCHANGED request /\ Bases \subseteq Bases' /\ Bases \subseteq Place
         /\ (UNCHANGED dirs \/ pc' = "inspect") /\ (UNCHANGED dirs => Bases' = Bases)
         /\ \A n : Wanted(n)' <=> Wanted(n)
<1>1. UNCHANGED request
  BY DEF Next, Step, InspectRoot, InspectCandidate, Inspected, StartWalk, Joined, Receive, Drained, Judge, Judged, Take,
         Visit, Change, vars
<1>2. \/ UNCHANGED dirs
      \/ pc' = "inspect" /\ Head(pending) \in Place /\ dirs' = Append(dirs, Head(pending))
  BY QueueTail
  DEF Next, Step, InspectRoot, InspectCandidate, Inspected, StartWalk, Joined, Receive, Drained, Judge, Judged, Take,
      Visit, Change, vars, TypeInv, Done
<1>3. Bases \subseteq Place
  <2>1. Range(dirs) \subseteq Place
    BY QueueRange DEF TypeInv
  <2>2. QED
    BY <2>1, RootPlace DEF Bases
<1>4. Range(dirs) \subseteq Range(dirs')
  <2>1. CASE UNCHANGED dirs
    BY <2>1
  <2>2. CASE Head(pending) \in Place /\ dirs' = Append(dirs, Head(pending))
    BY <2>2, QueueAppend DEF TypeInv
  <2>3. QED
    BY <1>2, <2>1, <2>2
<1>5. Bases \subseteq Bases' /\ (UNCHANGED dirs => Bases' = Bases)
  BY <1>1, <1>4 DEF Bases
<1>6. \A n : Wanted(n)' <=> Wanted(n)
  BY <1>1 DEF Wanted
<1>7. QED
  BY <1>1, <1>2, <1>3, <1>5, <1>6

(* What was rightly found is still right after an author's change.         *)
LEMMA FindingsSettled ==
  ASSUME TypeInv, TreeInv, BaseInv, RootInv, [Next]_vars, NEW p \in Place
  PROVE  (Fetched(p) => Fetched(p)') /\ (Explicit(p) => Explicit(p)') /\ (Uncommon(p) => Uncommon(p)')
<1>1. /\ p.node \in Node /\ \A d \in Bases : d \in Place /\ d.node \in Node
      /\ Bases \subseteq Bases' /\ UNCHANGED request
  BY BasesSettled DEF Place
<1>2. /\ p.node \in steady' => p.node \in steady /\ kind'[p.node] = kind[p.node]
      /\ \A n \in Node : kind[n] = "dir" => kind'[n] = "dir"
  BY KindsSettled
<1>3. ASSUME Fetched(p) PROVE Fetched(p)'
  <2>1. PICK d \in Bases : d.as = p.as /\ kind[d.node] = "dir" /\ Reaches(d.node, p.node)
    BY <1>3 DEF Fetched
  <2>2. d \in Bases' /\ kind'[d.node] = "dir" /\ Reaches(d.node, p.node)'
    BY <1>1, <1>2, <2>1, WaysSettled
  <2>3. QED
    BY <1>2, <1>3, <2>1, <2>2 DEF Fetched
<1>4. QED
  BY <1>1, <1>2, <1>3 DEF Explicit, Uncommon, IsFile, Hidden

(* Nothing is made up: what is sent is a wanted file below its root.       *)
LEMMA SoundStay ==
  ASSUME TypeInv, TreeInv, BaseInv, RootInv, WalkInv, SoundInv, [Next]_vars
  PROVE  SoundInv'
<1> USE DEF world, pool
<1>t. found \subseteq Place /\ (\A m \in Range(channel) : m \in Message /\ m.path \in Place) /\ UNCHANGED request
  <2>1. Range(channel) \subseteq Message /\ found \subseteq Place
    BY QueueRange DEF TypeInv
  <2>2. \A m \in Message : m.path \in Place
    BY DEF Message
  <2>3. QED
    BY <2>1, <2>2, BasesSettled
<1>f. \A p \in found : Fetched(p)' \/ IF request.git THEN Uncommon(p)' ELSE Explicit(p)'
  BY <1>t, FindingsSettled DEF SoundInv
<1>m. \A m \in Range(channel) : m.ok => Fetched(m.path)'
  BY <1>t, FindingsSettled DEF SoundInv
<1>1. CASE UNCHANGED <<found, channel>>
  BY <1>t, <1>f, <1>m, <1>1 DEF SoundInv
<1>2. CASE InspectRoot /\ ~ UNCHANGED found
  <2>1. Head(pending) \in Place /\ Head(pending) \in Range(pending)
    BY <1>2, QueueTail DEF InspectRoot, TypeInv
  <2>2. PICK root \in Place : root = Head(pending)
    BY <2>1
  <2>3. /\ root \in Range(request.paths) /\ kind[root.node] \in {"file", "link"}
        /\ found' = found \cup {root} /\ ~ request.git /\ UNCHANGED channel
    BY <1>2, <2>1, <2>2 DEF InspectRoot, RootInv
  <2>4. Explicit(root)'
    BY <1>t, <1>2, <2>3 DEF Explicit, InspectRoot
  <2>5. QED
    BY <1>t, <1>f, <1>m, <2>3, <2>4 DEF SoundInv
<1>3. ASSUME NEW w \in Worker, Visit(w) PROVE SoundInv'
  <2>1. /\ pc = "walk" /\ UNCHANGED found /\ Head(pending) \in Place /\ Head(pending) \in Bases
        /\ hand[w] \in Item /\ Trace(Head(pending), hand[w])
    BY <1>3, QueueTail, FlightsVisited DEF Visit, WalkInv, TypeInv
  <2>2. PICK p \in Place : p = Path(Head(pending).as, hand[w].node)
    BY <2>1 DEF Place, Path, Item
  <2>n. p.as = Head(pending).as /\ p.node = hand[w].node /\ p.node \in Node /\ Head(pending).node \in Node
    BY <2>1, <2>2 DEF Place, Path
  <2>3. ASSUME hand[w].kind = "file", Wanted(hand[w].node) PROVE Fetched(p)'
    <3>1. kind[p.node] \in {"file", "absent"} /\ (p.node \in steady => kind[p.node] = "file")
          /\ Reaches(Head(pending).node, p.node)
      BY <2>1, <2>n, <2>3 DEF Trace
    <3>2. kind[Head(pending).node] = "dir"
      <4>1. kind[Head(pending).node] \in {"dir", "broken"}
        BY <2>1 DEF BaseInv
      <4>2. IsPrefix(Head(pending).node, p.node) /\ IsPrefix(Head(pending).node, Head(pending).node)
        BY <2>n, <3>1, ReachesItself DEF Reaches
      <4>3. QED
        BY <2>n, <3>1, <4>1, <4>2, Between
    <3>3. Fetched(p)
      BY <2>1, <2>n, <2>3, <3>1, <3>2 DEF Fetched, Wanted
    <3>4. QED
      BY <2>2, <3>3, FindingsSettled
  <2>4. \/ UNCHANGED channel
        \/ channel' = Append(channel, [ok |-> FALSE, path |-> p])
        \/ channel' = Append(channel, [ok |-> TRUE, path |-> p]) /\ hand[w].kind = "file" /\ Wanted(hand[w].node)
    BY <1>3, <2>2 DEF Visit, Send
  <2>5. \A ok \in BOOLEAN : [ok |-> ok, path |-> p] \in Message
    BY <2>2 DEF Message
  <2>6. \A m \in Range(channel') :
           m \in Range(channel) \/ m = [ok |-> FALSE, path |-> p]
           \/ (m = [ok |-> TRUE, path |-> p] /\ hand[w].kind = "file" /\ Wanted(hand[w].node))
    <3>1. \A m \in Message : Range(Append(channel, m)) = Range(channel) \cup {m}
      BY QueueAppend DEF TypeInv
    <3>2. CASE UNCHANGED channel
      BY <3>2
    <3>3. CASE channel' = Append(channel, [ok |-> FALSE, path |-> p])
      <4>1. Range(channel') = Range(channel) \cup {[ok |-> FALSE, path |-> p]}
        BY <2>5, <3>1, <3>3
      <4>2. QED
        BY <4>1
    <3>4. CASE channel' = Append(channel, [ok |-> TRUE, path |-> p]) /\ hand[w].kind = "file" /\ Wanted(hand[w].node)
      <4>1. Range(channel') = Range(channel) \cup {[ok |-> TRUE, path |-> p]}
        BY <2>5, <3>1, <3>4
      <4>2. QED
        BY <3>4, <4>1
    <3>5. QED
      BY <2>4, <3>2, <3>3, <3>4
  <2>7. \A m \in Range(channel') : m.ok => Fetched(m.path)'
    BY <1>m, <2>3, <2>6
  <2>8. QED
    BY <1>t, <1>f, <2>1, <2>7 DEF SoundInv
<1>4. CASE Receive
  <2>1. Head(channel) \in Message /\ Range(channel) = {Head(channel)} \cup Range(Tail(channel))
    BY <1>4, QueueTail DEF Receive, TypeInv
  <2>2. PICK m \in Range(channel) : m = Head(channel)
    BY <2>1
  <2>3. \A p \in found' : p \in found \/ Fetched(p)'
    BY <1>4, <1>m, <2>2 DEF Receive, Carried
  <2>4. QED
    BY <1>t, <1>4, <1>f, <1>m, <2>1, <2>3 DEF SoundInv, Receive
<1>5. CASE Judge
  <2>1. Head(pending) \in Place /\ request.git /\ UNCHANGED channel
    BY <1>5, QueueTail DEF Judge, TypeInv, WalkInv
  <2>2. \A p \in found' : p \in found \/ Uncommon(p)
    BY <1>5, <2>1 DEF Judge, SecondLook, Uncommon
  <2>4. \A p \in found' : p \in found \/ Uncommon(p)'
    BY <1>5, <2>2 DEF Judge, Uncommon, IsFile, Hidden
  <2>5. QED
    BY <1>t, <1>f, <1>m, <2>1, <2>4 DEF SoundInv
<1>6. QED
  BY <1>1, <1>2, <1>3, <1>4, <1>5 DEF Next, Step, InspectRoot, InspectCandidate, Inspected, StartWalk, Joined, Drained,
                                      Judged, Take, Change, vars

(* A candidate the walk cannot meet is met by the second look.             *)
LEMMA JudgeStay ==
  ASSUME TypeInv, RootInv, WalkInv, JudgeInv, [Next]_vars
  PROVE  JudgeInv'
<1> USE DEF world, pool
<1>n. \A c \in Range(request.paths) : c.node \in Node
  BY RequestTyped DEF Place
<1>s. \A n \in Node : n \in steady' => n \in steady /\ kind'[n] = kind[n]
  BY KindsSettled
<1>1. CASE UNCHANGED <<request, pc, pending, found, answer>>
  BY <1>1, <1>n, <1>s DEF JudgeInv, Walked, IsFile, Hidden
<1>2. CASE pc' \notin {"judge", "done"} \/ ~ Walked'
  BY <1>2 DEF JudgeInv
<1>3. CASE Drained
  <2>1. pc = "drain" /\ UNCHANGED request
    BY <1>3 DEF Drained
  <2>2. CASE request.git
    BY <1>3, <2>1, <2>2 DEF Drained, JudgeInv
  <2>3. CASE ~ request.git
    BY <2>1, <2>3 DEF JudgeInv
  <2>4. QED
    BY <2>2, <2>3
<1>4. CASE Judge
  <2>1. Head(pending) \in Place /\ Range(pending) = {Head(pending)} \cup Range(Tail(pending))
    BY <1>4, QueueTail DEF Judge, TypeInv
  <2>2. \A c \in Range(request.paths) :
           Walked /\ c.node \in Supported /\ ~ IsFile(c.node) /\ ~ Hidden(c.node) /\ request.git /\ c.node \in steady =>
             c \in found' \/ c \in Range(pending')
    BY <1>4, <2>1 DEF Judge, SecondLook, JudgeInv
  <2>3. UNCHANGED <<request, kind, steady, pc, answer>> /\ pc = "judge"
    BY <1>4 DEF Judge
  <2>4. QED
    BY <2>2, <2>3 DEF JudgeInv, Walked, IsFile, Hidden
<1>5. CASE Judged
  <2>1. Range(pending) = {}
    BY <1>5, QueueRange DEF Judged, TypeInv
  <2>2. UNCHANGED <<request, kind, steady, found>> /\ pc = "judge" /\ answer = "none" /\ pc' = "done"
    BY <1>5 DEF Judged, Done, WalkInv
  <2>3. QED
    BY <2>1, <2>2 DEF JudgeInv, Walked, IsFile, Hidden
<1>6. QED
  BY <1>1, <1>2, <1>3, <1>4, <1>5
  DEF Next, Step, InspectRoot, InspectCandidate, Inspected, StartWalk, Joined, Receive, Take, Visit, Change, Done, Walked,
      vars

(* What a visit makes of the entry that leads to a wanted file: a failure, *)
(* the file itself, or the next entry on the way.                          *)
LEMMA VisitLeadsOn ==
  ASSUME TypeInv, BaseInv, RootInv, WalkInv, [Next]_vars,
         NEW w \in Worker, Visit(w), NEW n \in steady,
         Opens(Head(pending).node, n), kind[n] = "file", Wanted(n), IsPrefix(hand[w].node, n)
  PROVE  \/ \E m \in Range(channel') : ~ m.ok
         \/ [ok |-> TRUE, path |-> Path(Head(pending).as, n)] \in Range(channel')
         \/ \E e \in Flight' : IsPrefix(e.node, n)
<1>1. /\ pc = "walk" /\ Head(pending) \in Place /\ hand[w] \in Item /\ Trace(Head(pending), hand[w])
  BY QueueTail, FlightsVisited DEF Visit, WalkInv, TypeInv
<1>2. PICK d \in Place : d = Head(pending)
  BY <1>1
<1>3. PICK e \in Item : e = hand[w]
  BY <1>1
<1>4. d.node \in Node /\ e.node \in Node /\ n \in Node /\ e.kind \in Kind \ {"absent"} /\ IsPrefix(d.node, e.node)
  BY <1>1, <1>2, <1>3 DEF Place, Item, Trace, Reaches, TypeInv
<1>5. e.node # n => kind[e.node] \in {"dir", "broken"} /\ e.kind = kind[e.node]
  <2>1. e.node # n => kind[e.node] \in {"dir", "broken"}
    BY <1>2, <1>3, <1>4, Between
  <2>2. QED
    BY <1>1, <1>2, <1>3, <2>1 DEF Trace
<1>6. e.node = n => e.kind = "file"
  BY <1>1, <1>2, <1>3 DEF Trace
<1>7. \A m \in Message : Range(Append(channel, m)) = Range(channel) \cup {m}
  BY QueueAppend DEF TypeInv
<1>8. CASE e.kind = "broken"
  <2>1. [ok |-> FALSE, path |-> Path(d.as, e.node)] \in Message
    BY <1>4 DEF Message, Path, Place
  <2>2. channel' = Append(channel, [ok |-> FALSE, path |-> Path(d.as, e.node)])
    BY <1>2, <1>3, <1>8 DEF Visit, Send
  <2>3. [ok |-> FALSE, path |-> Path(d.as, e.node)] \in Range(channel')
    BY <1>7, <2>1, <2>2
  <2>4. QED
    BY <2>3
<1>9. CASE e.node = n
  <2>1. [ok |-> TRUE, path |-> Path(d.as, n)] \in Message
    BY <1>4 DEF Message, Path, Place
  <2>2. channel' = Append(channel, [ok |-> TRUE, path |-> Path(d.as, n)])
    BY <1>2, <1>3, <1>6, <1>9 DEF Visit, Send
  <2>3. [ok |-> TRUE, path |-> Path(d.as, n)] \in Range(channel')
    BY <1>7, <2>1, <2>2
  <2>4. QED
    BY <1>2, <2>3
<1>10. CASE e.node # n /\ e.kind = "dir"
  <2>1. PICK m \in Node \ {<<>>} : /\ Front(m) = e.node /\ IsPrefix(m, n) /\ Len(m) = Len(e.node) + 1
    BY <1>3, <1>4, <1>10, NextOnTheWay
  <2>2. /\ IsPrefix(e.node, m) /\ Len(e.node) \in Nat /\ Len(d.node) \in Nat
    <3>1. e.node = SubSeq(m, 1, Len(m) - 1) /\ Len(m) - 1 = Len(e.node) /\ Len(m) \in Nat /\ Len(e.node) \in Nat
      BY <1>4, <2>1, FrontIsCut, Cuts
    <3>2. SubSeq(m, 1, Len(e.node)) = e.node
      BY <3>1
    <3>3. m \in Node /\ Len(e.node) <= Len(m)
      BY <3>1
    <3>4. IsPrefix(e.node, m)
      BY <1>4, <3>2, <3>3, PrefixIsCut
    <3>5. QED
      BY <1>4, <3>4, Cuts
  <2>3. IsPrefix(d.node, m) /\ d.node # m
    BY <1>4, <2>1, <2>2, PrefixTransitive
  <2>4. m \notin Ignored
    BY <1>2, <1>4, <2>1, <2>3, Between
  <2>5. kind[m] # "absent"
    BY <1>2, <1>4, <2>1, <2>3, Between
  <2>6. Leads(m)
    BY <2>1 DEF Leads, Wanted
  <2>7. Entry(m) \in Listed(e.node)
    BY <2>1, <2>4, <2>5, <2>6 DEF Listed
  <2>8. Entry(m) \in Flight'
    BY <1>3, <1>10, <2>7, FlightsVisited
  <2>9. Entry(m).node = m
    BY DEF Entry
  <2>10. QED
    BY <2>1, <2>8, <2>9
<1>11. QED
  BY <1>5, <1>8, <1>9, <1>10

(* Nothing is missed: until a wanted file is reported, or a failure is, an *)
(* entry that leads to it is waiting or in a thread's hand.                *)
LEMMA CompleteStay ==
  ASSUME TypeInv, BaseInv, RootInv, WalkInv, CompleteInv, [Next]_vars
  PROVE  CompleteInv'
<1> USE DEF world, pool
<1> SUFFICES ASSUME Walked', NEW d \in Bases', NEW n \in steady',
                    Opens(d.node, n)', kind'[n] = "file", Wanted(n)'
             PROVE  Handled(d, n)'
  BY DEF CompleteInv
<1>1. CASE pc = "inspect"
  <2>1. Inspected
    BY <1>1 DEF Next, Step, InspectRoot, InspectCandidate, Inspected, StartWalk, Joined, Receive, Drained, Judge, Judged,
                Take, Visit, Change, Done, Walked, vars
  <2>2. pc' = "drain" /\ d \in Range(pending')
    BY <2>1 DEF Inspected, Bases, Range
  <2>3. QED
    BY <2>2 DEF Handled, Waiting
<1>2. CASE pc # "inspect"
  <2>1. pc' # "inspect" /\ Walked
    BY <1>2 DEF Next, Step, InspectRoot, InspectCandidate, Inspected, StartWalk, Joined, Receive, Drained, Judge, Judged,
                Take, Visit, Change, Done, Walked, vars, WalkInv
  <2>2. /\ d \in Bases /\ d \in Place /\ d.node \in Node /\ n \in steady /\ n \in Node /\ kind[n] = "file" /\ Wanted(n)
        /\ Opens(d.node, n)
    BY <2>1, BasesSettled, KindsSettled, WaysSettled DEF Place, TypeInv
  <2>3. Handled(d, n)
    BY <2>1, <2>2 DEF CompleteInv
  <2>4. IsPrefix(d.node, n)
    BY <2>2 DEF Opens
  <2>5. found \subseteq found'
    BY DEF Next, Step, InspectRoot, InspectCandidate, Inspected, StartWalk, Joined, Receive, Drained, Judge, SecondLook,
           Judged, Take, Visit, Change, vars
  <2>6. errors # <<>> => errors' # <<>>
    <3>1. UNCHANGED errors \/ \E x \in Place : errors' = Append(errors, x)
      <4>1. CASE Receive
        <5>1. Head(channel) \in Message
          BY <4>1, QueueTail DEF Receive, TypeInv
        <5>2. QED
          BY <4>1, <5>1 DEF Receive, Carried, Message
      <4>2. CASE Judge
        <5>1. Head(pending) \in Place
          BY <4>2, QueueTail DEF Judge, TypeInv
        <5>2. QED
          BY <4>2, <5>1 DEF Judge, SecondLook
      <4>3. QED
        BY <4>1, <4>2 DEF Next, Step, InspectRoot, InspectCandidate, Inspected, StartWalk, Joined, Drained, Judged, Take,
                          Visit, Change, vars
    <3>2. QED
      BY <3>1, QueueAppend DEF TypeInv
  <2>7. CASE UNCHANGED <<pc, pending, channel>> /\ Flight' = Flight
    BY <2>3, <2>5, <2>6, <2>7 DEF Handled, Waiting, Sought, Failing
  <2>8. CASE StartWalk
    <3>1. pc = "drain" /\ pc' = "walk" /\ Flight' = {Entry(Head(pending).node)} /\ UNCHANGED <<pending, channel, errors>>
      BY <2>8, FlightsKept DEF StartWalk
    <3>2. Range(pending) = {Head(pending)} \cup Range(Tail(pending))
      BY <2>8, QueueTail DEF StartWalk, TypeInv
    <3>3. ASSUME d = Head(pending) PROVE Sought(d, n)'
      <4>1. Entry(Head(pending).node).node = d.node
        BY <3>3 DEF Entry
      <4>2. QED
        BY <2>4, <3>1, <3>3, <4>1 DEF Sought
    <3>4. Waiting(d) => Waiting(d)' \/ Sought(d, n)'
      BY <3>1, <3>2, <3>3 DEF Waiting
    <3>5. QED
      BY <2>3, <2>5, <3>1, <3>4 DEF Handled, Sought, Failing
  <2>9. ASSUME NEW w \in Worker, Visit(w) PROVE Handled(d, n)'
    <3>1. Range(channel) \subseteq Range(channel')
      <4>1. Head(pending) \in Place /\ hand[w] \in Item
        BY <2>9, QueueTail, FlightsVisited DEF Visit, WalkInv, TypeInv
      <4>2. \A ok \in BOOLEAN : [ok |-> ok, path |-> Path(Head(pending).as, hand[w].node)] \in Message
        BY <4>1 DEF Message, Path, Place, Item
      <4>3. UNCHANGED channel \/ \E m \in Message : channel' = Append(channel, m)
        BY <2>9, <4>2 DEF Visit, Send
      <4>4. ASSUME NEW m \in Message PROVE Range(channel) \subseteq Range(Append(channel, m))
        BY QueueAppend DEF TypeInv
      <4>5. QED
        BY <4>3, <4>4
    <3>2. pc = "walk" /\ UNCHANGED <<pc, pending, errors>>
      BY <2>9 DEF Visit
    <3>3. ASSUME Sought(d, n) PROVE Handled(d, n)'
      <4>1. d = Head(pending)
        BY <3>3 DEF Sought
      <4>2. PICK e \in Flight : IsPrefix(e.node, n)
        BY <3>3 DEF Sought
      <4>3. CASE e # hand[w]
        <5>1. e \in Flight'
          BY <2>9, <4>3, FlightsVisited
        <5>2. QED
          BY <3>2, <4>1, <4>2, <5>1 DEF Handled, Sought
      <4>4. CASE e = hand[w]
        <5>1. \/ \E m \in Range(channel') : ~ m.ok
              \/ [ok |-> TRUE, path |-> Path(d.as, n)] \in Range(channel')
              \/ \E f \in Flight' : IsPrefix(f.node, n)
          BY <2>2, <2>9, <4>1, <4>2, <4>4, VisitLeadsOn
        <5>2. QED
          BY <3>2, <4>1, <5>1 DEF Handled, Sought, Failing
      <4>5. QED
        BY <4>3, <4>4
    <3>4. QED
      BY <2>3, <2>5, <3>1, <3>2, <3>3 DEF Handled, Waiting, Failing
  <2>10. CASE Joined
    <3>1. Flight = {} /\ UNCHANGED <<channel, errors>> /\ pc = "walk" /\ pc' = "drain" /\ pending' = Tail(pending)
      BY <2>10, FlightsKept DEF Joined
    <3>2. QED
      BY <2>3, <2>5, <3>1 DEF Handled, Waiting, Sought, Failing
  <2>11. CASE Receive
    <3>1. /\ Range(channel) = {Head(channel)} \cup Range(channel') /\ UNCHANGED <<pc, pending>> /\ Flight' = Flight
          /\ Head(channel) \in Message
      BY <2>11, QueueTail, FlightsKept DEF Receive, TypeInv
    <3>2. ASSUME [ok |-> TRUE, path |-> Path(d.as, n)] = Head(channel) PROVE Path(d.as, n) \in found'
      BY <2>11, <3>2 DEF Receive, Carried
    <3>3. ASSUME ~ Head(channel).ok PROVE errors' # <<>>
      <4>1. Head(channel).path \in Place
        BY <3>1 DEF Message
      <4>2. errors' = Append(errors, Head(channel).path)
        BY <2>11, <3>3 DEF Receive, Carried
      <4>3. QED
        BY <4>1, <4>2, QueueAppend DEF TypeInv
    <3>4. Failing => Failing'
      BY <2>6, <3>1, <3>3 DEF Failing
    <3>5. QED
      BY <2>3, <2>5, <3>1, <3>2, <3>4 DEF Handled, Waiting, Sought
  <2>12. CASE Drained \/ Judged
    <3>1. Range(channel) = {} /\ pc # "walk" /\ (pc = "drain" => Range(pending) = {}) /\ UNCHANGED <<found, errors, channel>>
      BY <2>12, QueueRange DEF Drained, Judged, TypeInv, WalkInv
    <3>2. QED
      BY <2>3, <3>1 DEF Handled, Waiting, Sought, Failing
  <2>13. ASSUME NEW w \in Worker, Take(w) PROVE Handled(d, n)'
    <3>1. UNCHANGED <<pc, pending, channel>> /\ Flight' = Flight
      BY <2>13, FlightsKept DEF Take
    <3>2. QED
      BY <2>7, <3>1
  <2>14. CASE UNCHANGED <<request, pc, pending, dirs, pool>>
    <3>1. UNCHANGED <<pc, pending, channel>> /\ Flight' = Flight
      BY <2>14, FlightsKept
    <3>2. QED
      BY <2>7, <3>1
  <2>15. CASE Judge
    <3>1. pc = "judge" /\ UNCHANGED channel
      BY <2>15 DEF Judge
    <3>2. QED
      BY <2>3, <2>5, <2>6, <3>1 DEF Handled, Waiting, Sought, Failing
  <2>16. CASE \E m \in Node : Change(m)
    BY <2>14, <2>16 DEF Change
  <2>17. CASE UNCHANGED vars
    BY <2>14, <2>17 DEF vars
  <2>18. ~ InspectRoot /\ ~ InspectCandidate /\ ~ Inspected
    BY <1>2 DEF InspectRoot, InspectCandidate, Inspected
  <2>19. QED
    BY <2>8, <2>9, <2>10, <2>11, <2>12, <2>13, <2>15, <2>16, <2>17, <2>18 DEF Next, Step
<1>3. QED
  BY <1>1, <1>2

(* An entry that has been visited is nowhere else.                         *)
LEMMA FlightsUsedUp ==
  ASSUME TypeInv, ApartInv, NEW w \in Worker, Visit(w)
  PROVE  Flight' = (Flight \ {hand[w]}) \cup (IF hand[w].kind = "dir" THEN Listed(hand[w].node) ELSE {})
<1>1. /\ hand'[w] = Idle /\ \A v \in Worker \ {w} : hand'[v] = hand[v] /\ hand[v] # hand[w]
      /\ hand[w] \notin todo
      /\ hand[w].kind = "dir" => todo' = todo \cup Listed(hand[w].node)
      /\ hand[w].kind # "dir" => todo' = todo
  BY DEF Visit, AfterError, TypeInv, ApartInv
<1>2. QED
  BY <1>1 DEF Flight

(* No two entries lead to one path, and no entry is in two places.         *)
LEMMA ApartStay ==
  ASSUME TypeInv, WalkInv, ApartInv, [Next]_vars
  PROVE  ApartInv'
<1> USE DEF world, pool
<1>1. CASE UNCHANGED <<todo, hand>>
  <2>1. Flight' = Flight
    BY <1>1 DEF Flight
  <2>2. QED
    BY <1>1, <2>1 DEF ApartInv
<1>2. CASE StartWalk
  <2>1. Flight' = {Entry(Head(pending).node)} /\ Flight = {} /\ hand' = hand
    BY <1>2, FlightsKept DEF StartWalk, WalkInv
  <2>2. \A w \in Worker : hand[w] = Idle
    BY <2>1 DEF Flight
  <2>3. QED
    BY <2>1, <2>2 DEF ApartInv
<1>3. ASSUME NEW w \in Worker, Take(w) PROVE ApartInv'
  <2>1. PICK e \in todo : todo' = todo \ {e} /\ hand' = [hand EXCEPT ![w] = e]
    BY <1>3 DEF Take
  <2>2. hand'[w] = e /\ \A v \in Worker \ {w} : hand'[v] = hand[v]
    BY <2>1 DEF TypeInv
  <2>3. \A u \in Worker : hand'[u] # Idle =>
          hand'[u] \notin todo' /\ \A v \in Worker \ {u} : hand'[v] # hand'[u]
    BY <2>1, <2>2 DEF ApartInv
  <2>4. Flight' = Flight
    BY <1>3, FlightsKept
  <2>5. QED
    BY <2>3, <2>4 DEF ApartInv
<1>4. ASSUME NEW w \in Worker, Visit(w) PROVE ApartInv'
  <2>1. PICK h \in Item : h = hand[w]
    BY <1>4, FlightsVisited
  <2>2. h \in Flight /\ h.node \in Node
    BY <1>4, <2>1, FlightsVisited DEF Item
  <2>3. \A e \in Flight' : (e \in Flight /\ e # h) \/ e \in Listed(h.node)
    BY <1>4, <2>1, FlightsUsedUp
  <2>4. \A e \in Listed(h.node) :
           e.node \in Node \ {<<>>} /\ Front(e.node) = h.node /\ e = Entry(e.node)
    BY DEF Listed, Entry
  <2>5. \A e \in Flight : e.node \in Node
    BY FlightTyped DEF Item
  <2>6. ASSUME NEW e \in Flight', NEW f \in Flight', IsPrefix(e.node, f.node) PROVE e = f
    <3>1. CASE e \in Flight /\ e # h /\ f \in Flight /\ f # h
      BY <2>6, <3>1 DEF ApartInv
    <3>2. CASE e \in Flight /\ e # h /\ f \in Listed(h.node)
      <4>1. IsPrefix(h.node, f.node) /\ (e.node = f.node \/ IsPrefix(e.node, h.node))
        BY <2>2, <2>4, <2>5, <2>6, <3>2, AboveListed
      <4>2. QED
        BY <2>2, <3>2, <4>1 DEF ApartInv
    <3>3. CASE e \in Listed(h.node) /\ f \in Flight /\ f # h
      <4>1. IsPrefix(h.node, e.node)
        BY <2>2, <2>4, <3>3, AboveListed
      <4>2. IsPrefix(h.node, f.node)
        BY <2>2, <2>4, <2>5, <2>6, <3>3, <4>1, PrefixTransitive
      <4>3. QED
        BY <2>2, <3>3, <4>2 DEF ApartInv
    <3>4. CASE e \in Listed(h.node) /\ f \in Listed(h.node)
      <4>1. /\ Len(e.node) = Len(h.node) + 1 /\ Len(f.node) = Len(h.node) + 1
            /\ (e.node = f.node \/ IsPrefix(e.node, h.node)) /\ Len(h.node) \in Nat
        BY <2>2, <2>4, <2>6, <3>4, AboveListed, Cuts
      <4>2. IsPrefix(e.node, h.node) => Len(e.node) <= Len(h.node)
        BY <2>2, <2>4, <3>4, PrefixIsCut
      <4>3. e.node = f.node
        BY <4>1, <4>2
      <4>4. QED
        BY <2>4, <3>4, <4>3
    <3>5. QED
      BY <2>3, <3>1, <3>2, <3>3, <3>4
  <2>7. \A u \in Worker : hand'[u] # Idle =>
          hand'[u] \notin todo' /\ \A v \in Worker \ {u} : hand'[v] # hand'[u]
    <3>1. ASSUME NEW u \in Worker, hand'[u] # Idle
          PROVE  hand'[u] \notin todo' /\ \A v \in Worker \ {u} : hand'[v] # hand'[u]
      <4>1. u # w /\ hand'[u] = hand[u] /\ hand[u] \in Flight /\ hand[u] # h
        BY <1>4, <2>1, <3>1, FlightTyped DEF Visit, TypeInv, ApartInv
      <4>2. \A v \in Worker \ {u} : hand'[v] # hand'[u]
        BY <1>4, <3>1, <4>1 DEF Visit, TypeInv, ApartInv
      <4>3. hand[u] \notin todo
        BY <3>1, <4>1 DEF ApartInv
      <4>4. hand[u] \notin Listed(h.node)
        <5>1. hand[u] \in Listed(h.node) => IsPrefix(h.node, hand[u].node)
          BY <2>2, <2>4, AboveListed
        <5>2. QED
          BY <2>2, <4>1, <5>1 DEF ApartInv
      <4>5. todo' \subseteq todo \cup Listed(h.node)
        BY <1>4, <2>1 DEF Visit, AfterError
      <4>6. QED
        BY <4>1, <4>2, <4>3, <4>4, <4>5
    <3>2. QED
      BY <3>1
  <2>8. QED
    BY <2>6, <2>7 DEF ApartInv
<1>5. QED
  BY <1>1, <1>2, <1>3, <1>4 DEF Next, Step, InspectRoot, InspectCandidate, Inspected, Joined, Receive, Drained, Judge,
                                Judged, Change, vars

(* A directory that cannot be read stays one, and so does what leads to it. *)
LEMMA FromSettled ==
  ASSUME TypeInv, [Next]_vars, NEW p \in Place
  PROVE  From(p)' = From(p) /\ From(p) \subseteq Place
<1>1. \A r \in Place : r.node \in Node /\ (Reaches(r.node, p.node)' <=> Reaches(r.node, p.node))
  BY WaysSettled DEF Place
<1>2. \A n \in Node : (kind'[n] = "dir" <=> kind[n] = "dir") /\ (kind'[n] = "broken" <=> kind[n] = "broken")
  BY KindsSettled
<1>3. p.node \in Node
  BY DEF Place
<1>4. QED
  BY <1>1, <1>2, <1>3 DEF From

(* A failed path is reported as a message about that path.                 *)
LEMMA FailureTyped ==
  ASSUME NEW p \in Place
  PROVE  Failure(p) \in Message /\ ~ Failure(p).ok /\ Failure(p).path = p
BY DEF Failure, Message

(* A visit on the way to a failure either comes closer to it or reports    *)
(* it, and no other visit does.                                            *)
LEMMA VisitReports ==
  ASSUME TypeInv, BaseInv, RootInv, WalkInv, ApartInv, [Next]_vars, ~ request.git,
         NEW w \in Worker, Visit(w), NEW p \in Place
  PROVE  Count(channel', {Failure(p)}) + Live(p)' = Count(channel, {Failure(p)}) + Live(p)
<1>1. /\ pc = "walk" /\ Head(pending) \in Place /\ Head(pending) \in Bases /\ hand[w] \in Item
      /\ Trace(Head(pending), hand[w]) /\ UNCHANGED pending
  BY QueueTail, FlightsVisited DEF Visit, WalkInv, TypeInv
<1>2. PICK d \in Place : d = Head(pending)
  BY <1>1
<1>3. PICK e \in Item : e = hand[w]
  BY <1>1
<1>4. /\ d.node \in Node /\ e.node \in Node /\ p.node \in Node /\ e.kind \in Kind \ {"absent"}
      /\ IsPrefix(d.node, e.node) /\ Reaches(d.node, e.node) /\ kind[d.node] \in {"dir", "broken"} /\ e \in Flight
  BY <1>1, <1>2, <1>3, FlightsVisited DEF Place, Item, Trace, Reaches, BaseInv
<1>5. PICK F \in SUBSET Place : F = From(p) /\ F = From(p)'
  BY FromSettled
<1>6. Live(p) = (IF d \in F /\ \E f \in Flight : IsPrefix(f.node, p.node) THEN 1 ELSE 0)
      /\ Live(p)' = (IF d \in F /\ \E f \in Flight' : IsPrefix(f.node, p.node) THEN 1 ELSE 0)
  BY <1>1, <1>2, <1>5 DEF Live
<1>7. Flight' = (Flight \ {e}) \cup (IF e.kind = "dir" THEN Listed(e.node) ELSE {})
  BY <1>3, FlightsUsedUp
<1>8. \A m \in Message : Count(Append(channel, m), {Failure(p)}) = Count(channel, {Failure(p)})
                                                              + (IF m = Failure(p) THEN 1 ELSE 0)
  BY CountAppend DEF TypeInv
<1>9. Count(channel, {Failure(p)}) \in Nat
  BY CountTyped DEF TypeInv
<1>n. ASSUME NEW m \in Message, channel' = Append(channel, m), m # Failure(p)
      PROVE  Count(channel', {Failure(p)}) = Count(channel, {Failure(p)})
  <2>1. Count(Append(channel, m), {Failure(p)}) = Count(channel, {Failure(p)}) + 0
    BY <1>8, <1>n
  <2>2. Count(Append(channel, m), {Failure(p)}) = Count(channel, {Failure(p)})
    BY <1>9, <2>1
  <2>3. QED
    BY <1>n, <2>2
<1>10. CASE e.kind = "broken" /\ e.node = p.node /\ d.as = p.as
  <2>1. kind[p.node] = "broken"
    BY <1>1, <1>2, <1>3, <1>10 DEF Trace
  <2>2. d \in F
    BY <1>4, <1>5, <1>10, <2>1 DEF From
  <2>3. IsPrefix(e.node, p.node)
    BY <1>4, <1>10, ReachesItself
  <2>4. Live(p) = 1
    BY <1>4, <1>6, <2>2, <2>3
  <2>5. \A f \in Flight' : ~ IsPrefix(f.node, p.node)
    BY <1>4, <1>7, <1>10 DEF ApartInv
  <2>6. Live(p)' = 0
    BY <1>6, <2>5
  <2>7. Path(d.as, e.node) = p
    BY <1>10 DEF Path, Place
  <2>8. channel' = Append(channel, Failure(p))
    BY <1>2, <1>3, <1>10, <2>7 DEF Visit, Send, Failure
  <2>9. Count(channel', {Failure(p)}) = Count(channel, {Failure(p)}) + 1
    BY <1>8, <2>8, FailureTyped
  <2>10. QED
    BY <1>9, <2>4, <2>6, <2>9
<1>11. CASE ~ (e.kind = "broken" /\ e.node = p.node /\ d.as = p.as)
  <2>1. Count(channel', {Failure(p)}) = Count(channel, {Failure(p)})
    <3>1. \A ok \in BOOLEAN : [ok |-> ok, path |-> Path(d.as, e.node)] \in Message
      BY <1>4 DEF Message, Path, Place
    <3>2. CASE UNCHANGED channel
      BY <3>2
    <3>3. CASE channel' = Append(channel, [ok |-> TRUE, path |-> Path(d.as, e.node)])
      <4>1. [ok |-> TRUE, path |-> Path(d.as, e.node)] # Failure(p)
        BY DEF Failure
      <4>2. PICK m \in Message : m = [ok |-> TRUE, path |-> Path(d.as, e.node)]
        BY <3>1
      <4>3. channel' = Append(channel, m) /\ m # Failure(p)
        BY <3>3, <4>1, <4>2
      <4>4. QED
        BY <1>n, <4>3
    <3>4. CASE e.kind = "broken" /\ channel' = Append(channel, [ok |-> FALSE, path |-> Path(d.as, e.node)])
      <4>1. Path(d.as, e.node) # p
        BY <1>11, <3>4 DEF Path
      <4>2. [ok |-> FALSE, path |-> Path(d.as, e.node)] # Failure(p)
        BY <4>1 DEF Failure
      <4>3. PICK m \in Message : m = [ok |-> FALSE, path |-> Path(d.as, e.node)]
        BY <3>1
      <4>4. channel' = Append(channel, m) /\ m # Failure(p)
        BY <3>4, <4>2, <4>3
      <4>5. QED
        BY <1>n, <4>4
    <3>5. QED
      BY <1>2, <1>3, <3>2, <3>3, <3>4 DEF Visit, Send
  <2>2. ASSUME d \in F, NEW f \in Flight, IsPrefix(f.node, p.node)
        PROVE  \E g \in Flight' : IsPrefix(g.node, p.node)
    <3>1. CASE f # e
      BY <1>7, <2>2, <3>1
    <3>2. CASE f = e
      <4>1. d.as = p.as /\ kind[p.node] = "broken" /\ Reaches(d.node, p.node)
        BY <1>5, <2>2 DEF From
      <4>2. e.node # p.node
        <5>1. e.node = p.node => e.kind = "broken"
          BY <1>1, <1>2, <1>3, <4>1 DEF Trace
        <5>2. QED
          BY <1>11, <4>1, <5>1
      <4>3. kind[e.node] = "dir" /\ e.kind = "dir"
        <5>1. kind[e.node] = "dir"
          BY <1>4, <2>2, <3>2, <4>1, <4>2, Between
        <5>2. QED
          BY <1>1, <1>2, <1>3, <5>1 DEF Trace
      <4>4. PICK m \in Node \ {<<>>} : Front(m) = e.node /\ IsPrefix(m, p.node)
        BY <1>4, <2>2, <3>2, <4>2, NextOnTheWay
      <4>5. IsPrefix(d.node, m) /\ d.node # m
        <5>1. IsPrefix(e.node, m) /\ Len(m) = Len(e.node) + 1
          BY <1>4, <4>4, AboveListed
        <5>2. IsPrefix(d.node, m) /\ Len(d.node) <= Len(e.node)
          BY <1>4, <5>1, PrefixTransitive
        <5>3. Len(d.node) \in Nat /\ Len(e.node) \in Nat
          BY <1>4, Cuts
        <5>4. QED
          BY <5>1, <5>2, <5>3
      <4>6. Opens(d.node, p.node)
        BY <1>4, <4>1, <4>4, <4>5, Between
      <4>7. m \notin Ignored /\ kind[m] # "absent"
        BY <1>4, <4>1, <4>4, <4>5, <4>6, Between
      <4>8. Entry(m) \in Listed(e.node) /\ Entry(m).node = m
        BY <4>4, <4>7 DEF Listed, Leads, Entry
      <4>9. QED
        BY <1>7, <4>3, <4>4, <4>8
    <3>3. QED
      BY <3>1, <3>2
  <2>3. ASSUME NEW g \in Flight', IsPrefix(g.node, p.node)
        PROVE  \E f \in Flight : IsPrefix(f.node, p.node)
    <3>1. CASE g \in Flight
      BY <2>3, <3>1
    <3>2. CASE g \in Listed(e.node)
      <4>1. g.node \in Node \ {<<>>} /\ Front(g.node) = e.node
        BY <3>2 DEF Listed, Entry
      <4>2. IsPrefix(e.node, g.node)
        BY <1>4, <4>1, AboveListed
      <4>3. IsPrefix(e.node, p.node)
        BY <1>4, <2>3, <4>1, <4>2, PrefixTransitive
      <4>4. QED
        BY <1>4, <4>3
    <3>3. QED
      BY <1>7, <3>1, <3>2
  <2>4. Live(p)' = Live(p)
    BY <1>6, <2>2, <2>3
  <2>5. QED
    BY <2>1, <2>4
<1>12. QED
  BY <1>10, <1>11

(* No failure is lost or reported twice.                                   *)
LEMMA CountStay ==
  ASSUME TypeInv, BaseInv, RootInv, WalkInv, ApartInv, CountInv, [Next]_vars
  PROVE  CountInv'
<1> USE DEF world, pool
<1>r. UNCHANGED request
  BY BasesSettled
<1> SUFFICES ASSUME ~ request.git, answer' # "missing", NEW p \in Place
             PROVE  Count(errors, {p})' + Count(channel, {Failure(p)})' + Rest(p)' = Count(request.paths, From(p))'
  BY <1>r DEF CountInv
<1>1. PICK F \in SUBSET Place : F = From(p) /\ F = From(p)'
  BY FromSettled
<1>2. answer # "missing"
  BY DEF Next, Step, InspectRoot, InspectCandidate, Inspected, StartWalk, Joined, Receive, Drained, Judge, Judged, Take,
         Visit, Change, vars, Done, WalkInv
<1>3. Count(errors, {p}) + Count(channel, {Failure(p)}) + Rest(p) = Count(request.paths, F)
  BY <1>1, <1>2 DEF CountInv
<1>4. SUFFICES Count(errors', {p}) + Count(channel', {Failure(p)}) + Rest(p)' = Count(request.paths, F)
  BY <1>1, <1>r DEF Count
<1>5. /\ pc = "inspect" => Rest(p) = Count(dirs, F) + Count(pending, F)
      /\ pc = "drain" => Rest(p) = Count(pending, F)
      /\ pc = "walk" => Rest(p) = Count(Tail(pending), F) + Live(p)
      /\ pc \in {"judge", "done"} => Rest(p) = 0
  BY <1>1 DEF Rest
<1>6. /\ pc' = "inspect" => Rest(p)' = Count(dirs', F) + Count(pending', F)
      /\ pc' = "drain" => Rest(p)' = Count(pending', F)
      /\ pc' = "walk" => Rest(p)' = Count(Tail(pending'), F) + Live(p)'
      /\ pc' \in {"judge", "done"} => Rest(p)' = 0
  BY <1>1 DEF Rest
<1>7. /\ Count(errors, {p}) \in Nat /\ Count(channel, {Failure(p)}) \in Nat
      /\ Count(dirs, F) \in Nat /\ Count(pending, F) \in Nat
      /\ (dirs = <<>> => Count(dirs, F) = 0) /\ (pending = <<>> => Count(pending, F) = 0)
  BY CountTyped DEF TypeInv
<1>8. pending # <<>> => /\ Head(pending) \in Place /\ Count(Tail(pending), F) \in Nat
                        /\ Count(pending, F) = Count(Tail(pending), F) + (IF Head(pending) \in F THEN 1 ELSE 0)
  BY QueueTail, CountTail, CountTyped DEF TypeInv
<1>9. CASE InspectRoot
  <2>1. /\ pc = "inspect" /\ pending # <<>> /\ UNCHANGED <<errors, channel>> /\ pc' = "inspect" /\ pending' = Tail(pending)
        /\ \/ kind[Head(pending).node] \in {"file", "link"} /\ UNCHANGED dirs
           \/ dirs' = Append(dirs, Head(pending)) /\ kind[Head(pending).node] \in {"dir", "broken"}
    BY <1>9 DEF InspectRoot, Done
  <2>2. CASE kind[Head(pending).node] \in {"file", "link"} /\ UNCHANGED dirs
    <3>1. Head(pending) \notin F
      BY <1>1, <2>2 DEF From
    <3>2. QED
      BY <1>3, <1>5, <1>6, <1>7, <1>8, <2>1, <2>2, <3>1
  <2>3. CASE dirs' = Append(dirs, Head(pending))
    <3>1. Count(dirs', F) = Count(dirs, F) + (IF Head(pending) \in F THEN 1 ELSE 0)
      BY <1>8, <2>1, <2>3, CountAppend DEF TypeInv
    <3>2. QED
      BY <1>3, <1>5, <1>6, <1>7, <1>8, <2>1, <3>1
  <2>4. QED
    BY <2>1, <2>2, <2>3
<1>10. CASE Inspected
  <2>1. pc = "inspect" /\ pc' = "drain" /\ pending = <<>> /\ pending' = dirs /\ UNCHANGED <<errors, channel>>
    BY <1>10 DEF Inspected
  <2>2. QED
    BY <1>3, <1>5, <1>6, <1>7, <2>1
<1>11. CASE StartWalk
  <2>1. pc = "drain" /\ pc' = "walk" /\ pending # <<>> /\ UNCHANGED <<pending, errors, channel>>
        /\ Flight' = {Entry(Head(pending).node)}
    BY <1>11, FlightsKept DEF StartWalk
  <2>2. Head(pending) \in F => IsPrefix(Head(pending).node, p.node)
    BY <1>1 DEF From, Reaches
  <2>3. Live(p)' = IF Head(pending) \in F THEN 1 ELSE 0
    BY <1>1, <2>1, <2>2 DEF Live, Entry
  <2>4. QED
    BY <1>3, <1>5, <1>6, <1>7, <1>8, <2>1, <2>3
<1>12. ASSUME NEW w \in Worker, Visit(w)
       PROVE  Count(errors', {p}) + Count(channel', {Failure(p)}) + Rest(p)' = Count(request.paths, F)
  <2>1. pc = "walk" /\ pc' = "walk" /\ pending # <<>> /\ UNCHANGED <<pending, errors>>
    BY <1>12 DEF Visit, WalkInv
  <2>2. Count(channel', {Failure(p)}) + Live(p)' = Count(channel, {Failure(p)}) + Live(p)
    BY <1>12, VisitReports
  <2>3. Live(p) \in {0, 1} /\ Live(p)' \in {0, 1}
    BY DEF Live
  <2>4. Count(channel', {Failure(p)}) \in Nat
    <3>1. channel' \in Seq(Message)
      BY TypesStay DEF TypeInv
    <3>2. QED
      BY <3>1, CountTyped
  <2>5. QED
    BY <1>3, <1>5, <1>6, <1>7, <1>8, <2>1, <2>2, <2>3, <2>4
<1>13. CASE Joined
  <2>1. /\ pc = "walk" /\ pc' = "drain" /\ pending # <<>> /\ pending' = Tail(pending) /\ UNCHANGED <<errors, channel>>
        /\ Flight = {}
    BY <1>13, FlightsKept DEF Joined, WalkInv
  <2>2. Live(p) = 0
    BY <2>1 DEF Live
  <2>3. QED
    BY <1>3, <1>5, <1>6, <1>7, <1>8, <2>1, <2>2
<1>14. CASE Receive
  <2>1. pc = "drain" /\ channel # <<>> /\ channel' = Tail(channel) /\ UNCHANGED <<pc, pending>>
    BY <1>14 DEF Receive
  <2>2. Head(channel) \in Message /\ Tail(channel) \in Seq(Message)
    BY <2>1, QueueTail DEF TypeInv
  <2>3. Count(channel, {Failure(p)}) = Count(channel', {Failure(p)}) + (IF Head(channel) = Failure(p) THEN 1 ELSE 0)
        /\ Count(channel', {Failure(p)}) \in Nat
    BY <2>1, <2>2, CountTail, CountTyped DEF TypeInv
  <2>4. Count(errors', {p}) = Count(errors, {p}) + (IF Head(channel) = Failure(p) THEN 1 ELSE 0)
    <3>1. Head(channel) = Failure(p) <=> ~ Head(channel).ok /\ Head(channel).path = p
      BY <2>2 DEF Message, Failure
    <3>2. Head(channel).path \in Place
      BY <2>2 DEF Message
    <3>3. CASE Head(channel).ok
      BY <1>7, <1>14, <3>1, <3>3 DEF Receive
    <3>4. CASE ~ Head(channel).ok
      <4>1. errors' = Append(errors, Head(channel).path)
        BY <1>14, <3>4 DEF Receive, Carried
      <4>2. Count(errors', {p}) = Count(errors, {p}) + (IF Head(channel).path \in {p} THEN 1 ELSE 0)
        BY <3>2, <4>1, CountAppend DEF TypeInv
      <4>3. QED
        BY <3>1, <3>4, <4>2
    <3>5. QED
      BY <3>3, <3>4
  <2>5. QED
    BY <1>3, <1>5, <1>6, <1>7, <2>1, <2>3, <2>4
<1>15. CASE Drained
  <2>1. pc = "drain" /\ pc' = "done" /\ pending = <<>> /\ UNCHANGED <<errors, channel>>
    BY <1>15 DEF Drained, Done
  <2>2. QED
    BY <1>3, <1>5, <1>6, <1>7, <2>1
<1>16. CASE UNCHANGED <<pc, pending, dirs, errors, channel>> /\ Flight' = Flight
  <2>1. Live(p)' = Live(p)
    BY <1>1, <1>16 DEF Live
  <2>2. Rest(p)' = Rest(p)
    BY <1>1, <1>16, <2>1 DEF Rest
  <2>3. QED
    BY <1>3, <1>16, <2>2
<1>17. ASSUME NEW w \in Worker, Take(w)
       PROVE  UNCHANGED <<pc, pending, dirs, errors, channel>> /\ Flight' = Flight
  BY <1>17, FlightsKept DEF Take
<1>18. ASSUME UNCHANGED vars \/ \E n \in Node : Change(n)
       PROVE  UNCHANGED <<pc, pending, dirs, errors, channel>> /\ Flight' = Flight
  BY <1>18, FlightsKept DEF vars, Change
<1>19. ~ InspectCandidate /\ ~ Judge /\ ~ Judged
  BY DEF InspectCandidate, Judge, Judged, WalkInv
<1>20. QED
  BY <1>9, <1>10, <1>11, <1>12, <1>13, <1>14, <1>15, <1>16, <1>17, <1>18, <1>19 DEF Next, Step

(* No file is opened but the ones that are there when the run starts.      *)
LEMMA InitSelects ==
  ASSUME Init
  PROVE  DInv
<1>1. request \in Requests /\ request.paths \in Seq(Place)
  BY NodesAssumption DEF Init, Request, Place
<1>2. TypeInv
  BY <1>1, WorkersAssumption, NodesAssumption DEF Init, TypeInv
<1>3. TreeInv
  <2>1. \A n \in Node : kind[n] = "file" => \A k \in 0 .. Len(n) - 1 : kind[SubSeq(n, 1, k)] \in {"dir", "broken"}
    BY DEF Init
  <2>2. kind[<<>>] \in {"dir", "broken"} /\ steady = Node
    BY NodesAssumption DEF Init
  <2>3. QED
    BY <2>1, <2>2 DEF TreeInv
<1>4. BaseInv
  <2>1. Range(dirs) = {}
    BY DEF Init, Range
  <2>2. \A d \in Bases : d.node = <<>>
    BY <2>1 DEF Bases, Path
  <2>3. QED
    BY <1>3, <2>1, <2>2 DEF BaseInv, TreeInv
<1>5. RootInv
  BY DEF Init, RootInv
<1>6. Flight = {}
  BY DEF Init, Flight
<1>7. WalkInv
  BY <1>6 DEF Init, WalkInv
<1>8. SoundInv
  BY DEF Init, SoundInv, Range
<1>9. CompleteInv /\ JudgeInv
  BY DEF Init, CompleteInv, JudgeInv, Walked
<1>10. ApartInv
  BY <1>6 DEF Init, ApartInv
<1>11. CountInv
  <2>1. ASSUME NEW p \in Place
        PROVE  Count(errors, {p}) + Count(channel, {Failure(p)}) + Rest(p) = Count(request.paths, From(p))
    <3>1. Count(errors, {p}) = 0 /\ Count(channel, {Failure(p)}) = 0 /\ Count(dirs, From(p)) = 0
      BY <1>2, CountTyped DEF Init, TypeInv
    <3>2. Rest(p) = Count(dirs, From(p)) + Count(request.paths, From(p)) /\ Count(request.paths, From(p)) \in Nat
      BY <1>1, CountTyped DEF Init, Rest
    <3>3. QED
      BY <3>1, <3>2
  <2>2. QED
    BY <2>1 DEF CountInv
<1>12. QED
  BY <1>2, <1>3, <1>4, <1>5, <1>7, <1>8, <1>9, <1>10, <1>11 DEF DInv

(* In every selection, whatever the author and the threads do, the queues, *)
(* the entries in flight and the findings fit the tree and the arguments.  *)
THEOREM SelectionInvariant == Spec => []DInv
<1>1. Init => DInv
  BY InitSelects
<1>2. DInv /\ [Next]_vars => DInv'
  BY TypesStay, BasesStay, RootsStay, WalkStay, SoundStay, CompleteStay, JudgeStay, ApartStay,
     CountStay DEF DInv
<1>3. QED
  BY <1>1, <1>2, PTL DEF Spec

(* A run over paths that ends without a failure is about exactly the files *)
(* named and the supported files below the directories named.              *)
THEOREM NoFileMissed == Spec => []PathsComplete
<1>1. ASSUME DInv PROVE PathsComplete
  <2>1. SUFFICES ASSUME pc = "done", ~ request.git, answer = "files", NEW as \in Spelling, NEW n \in steady
                 PROVE  Path(as, n) \in found <=>
                          \E r \in Range(request.paths) :
                            /\ r.as = as
                            /\ \/ r.node = n /\ kind[n] \in {"file", "link"}
                               \/ /\ kind[r.node] = "dir" /\ Reaches(r.node, n) /\ kind[n] = "file"
                                  /\ n \in Supported
    BY DEF PathsComplete
  <2>2. Path(as, n).as = as /\ Path(as, n).node = n /\ n \in Node /\ Path(as, n) \in Place
    BY <1>1 DEF Path, Place, DInv, TypeInv
  <2>3. Bases = Range(dirs) /\ Range(dirs) \subseteq Range(request.paths) /\ Range(request.paths) \subseteq Place
    BY <1>1, <2>1, RequestTyped DEF Bases, DInv, BaseInv
  <2>4. ASSUME Path(as, n) \in found
        PROVE  \E r \in Range(request.paths) :
                 /\ r.as = as
                 /\ \/ r.node = n /\ kind[n] \in {"file", "link"}
                    \/ kind[r.node] = "dir" /\ Reaches(r.node, n) /\ kind[n] = "file" /\ n \in Supported
    <3>1. Fetched(Path(as, n)) \/ Explicit(Path(as, n))
      BY <1>1, <2>1, <2>4 DEF DInv, SoundInv
    <3>2. QED
      BY <2>2, <2>3, <3>1 DEF Fetched, Explicit
  <2>5. ASSUME NEW r \in Range(request.paths), r.as = as,
               \/ r.node = n /\ kind[n] \in {"file", "link"}
               \/ kind[r.node] = "dir" /\ Reaches(r.node, n) /\ kind[n] = "file" /\ n \in Supported
        PROVE  Path(as, n) \in found
    <3>1. r \in Place /\ r.node \in Node /\ (r \in found \/ r \in Bases)
      BY <1>1, <2>1, <2>3 DEF DInv, RootInv, Place
    <3>2. CASE r.node = n /\ kind[n] \in {"file", "link"}
      <4>1. r = Path(as, n)
        BY <2>5, <3>1, <3>2 DEF Place, Path
      <4>2. r \notin Bases
        BY <1>1, <3>2 DEF DInv, BaseInv
      <4>3. QED
        BY <3>1, <4>1, <4>2
    <3>3. CASE kind[r.node] = "dir" /\ Reaches(r.node, n) /\ kind[n] = "file" /\ n \in Supported
      <4>1. r.node \in steady
        BY <1>1, <3>1, <3>3 DEF DInv, TreeInv
      <4>2. r \notin found
        BY <1>1, <2>1, <3>3, <4>1 DEF DInv, SoundInv, Fetched, Explicit
      <4>3. r \in Bases /\ Opens(r.node, n) /\ Wanted(n)
        BY <2>1, <2>2, <3>1, <3>3, <4>2, ReachesItself, Between DEF Wanted, Reaches
      <4>4. Handled(r, n)
        BY <1>1, <2>1, <3>3, <4>3 DEF DInv, CompleteInv, Walked
      <4>5. channel = <<>> /\ errors = <<>>
        BY <1>1, <2>1 DEF DInv, WalkInv
      <4>6. Range(channel) = {}
        BY <4>5 DEF Range
      <4>7. QED
        BY <2>1, <2>5, <4>4, <4>5, <4>6 DEF Handled, Waiting, Sought, Failing
    <3>4. QED
      BY <2>5, <3>2, <3>3
  <2>6. QED
    BY <2>4, <2>5
<1>2. QED
  BY <1>1, SelectionInvariant, PTL

(* The walk and the second look judge the candidates of Git alike.         *)
THEOREM CandidatesAgree == Spec => []CandidatesJudged
<1>1. ASSUME DInv PROVE CandidatesJudged
  <2>1. SUFFICES ASSUME pc = "done", request.git, answer = "files",
                        NEW c \in Range(request.paths), c.node \in steady
                 PROVE  c \in found <=>
                          c.node \in Supported /\ kind[c.node] # "link"
                          /\ \A k \in 1 .. Len(c.node) : SubSeq(c.node, 1, k) \notin Ignored
    BY DEF CandidatesJudged
  <2>2. c \in Place /\ c.node \in Node /\ c.as = "plain" /\ Len(c.node) \in Nat /\ <<>> \in Node /\ Len(<<>>) = 0
    BY <1>1, <2>1, RequestTyped, NodesAssumption, Cuts DEF DInv, RootInv, Place
  <2>3. Bases = {Path("plain", <<>>)} /\ Path("plain", <<>>).node = <<>> /\ Path("plain", <<>>).as = "plain"
    BY <2>1 DEF Bases, Path
  <2>4. ASSUME c \in found
        PROVE  /\ c.node \in Supported /\ kind[c.node] # "link"
               /\ \A k \in 1 .. Len(c.node) : SubSeq(c.node, 1, k) \notin Ignored
    <3>1. Fetched(c) \/ Uncommon(c)
      BY <1>1, <2>1, <2>4 DEF DInv, SoundInv
    <3>2. Fetched(c) => /\ \A k \in 1 .. Len(c.node) : SubSeq(c.node, 1, k) \notin Ignored
      BY <2>2, <2>3 DEF Fetched, Reaches
    <3>3. QED
      BY <2>1, <3>1, <3>2 DEF Fetched, Uncommon, Hidden, IsFile
  <2>5. ASSUME c.node \in Supported, kind[c.node] # "link",
               \A k \in 1 .. Len(c.node) : SubSeq(c.node, 1, k) \notin Ignored
        PROVE  c \in found
    <3>1. ~ Hidden(c.node) /\ Walked
      BY <2>1, <2>5 DEF Hidden, Walked
    <3>2. CASE ~ IsFile(c.node)
      BY <1>1, <2>1, <2>5, <3>1, <3>2 DEF DInv, JudgeInv
    <3>3. CASE IsFile(c.node)
      <4>1. kind[c.node] = "file"
        BY <2>5, <3>3 DEF IsFile
      <4>2. Wanted(c.node)
        BY <2>1, <2>5 DEF Wanted
      <4>3. IsPrefix(<<>>, c.node)
        <5>1. PICK m \in Node : m = <<>>
          BY <2>2
        <5>2. Len(m) = 0 /\ SubSeq(c.node, 1, 0) \in Node /\ Len(SubSeq(c.node, 1, 0)) = 0
          BY <2>2, <5>1, Cuts
        <5>3. SubSeq(c.node, 1, 0) = m
          BY <5>1, <5>2, NodesAssumption
        <5>4. IsPrefix(m, c.node)
          <6>1. Len(m) <= Len(c.node)
            BY <2>2, <5>2
          <6>2. SubSeq(c.node, 1, Len(m)) = m
            BY <5>2, <5>3, Zenon
          <6>3. QED
            BY <2>2, <6>1, <6>2, PrefixIsCut
        <5>5. QED
          BY <5>1, <5>4
      <4>4. \A k \in 0 .. Len(c.node) - 1 : kind[SubSeq(c.node, 1, k)] \in {"dir", "broken"}
        BY <1>1, <2>1, <4>1 DEF DInv, TreeInv
      <4>5. Opens(<<>>, c.node)
        BY <2>2, <2>5, <4>3, <4>4 DEF Opens
      <4>6. Handled(Path("plain", <<>>), c.node)
        BY <1>1, <2>1, <2>3, <3>1, <4>1, <4>2, <4>5 DEF DInv, CompleteInv
      <4>7. channel = <<>> /\ errors = <<>>
        BY <1>1, <2>1 DEF DInv, WalkInv
      <4>8. Path("plain", c.node) \in found
        BY <2>1, <2>3, <4>6, <4>7 DEF Handled, Waiting, Sought, Failing, Range
      <4>9. c = Path("plain", c.node)
        BY <2>2 DEF Place, Path
      <4>10. QED
        BY <4>8, <4>9
    <3>4. QED
      BY <3>2, <3>3
  <2>6. QED
    BY <2>4, <2>5
<1>2. QED
  BY <1>1, SelectionInvariant, PTL

(* Every directory that cannot be read is reported once for each argument  *)
(* it is reached from, and one failure refuses the whole selection.        *)
THEOREM FailuresReported == Spec => []ErrorsComplete
<1>1. ASSUME DInv PROVE ErrorsComplete
  <2>1. SUFFICES ASSUME pc = "done", ~ request.git, answer \in {"files", "walk"}
                 PROVE  /\ answer = "walk" <=> errors # <<>>
                        /\ \A p \in Place :
                             Cardinality({i \in DOMAIN errors : errors[i] = p}) =
                             Cardinality({i \in Roots : /\ request.paths[i].as = p.as /\ kind[p.node] = "broken"
                                                         /\ Reaches(request.paths[i].node, p.node)})
    BY DEF ErrorsComplete, Place
  <2>2. answer = "walk" <=> errors # <<>>
    BY <1>1, <2>1 DEF DInv, WalkInv
  <2>3. request.paths \in Seq(Place) /\ channel \in Seq(Message) /\ errors \in Seq(Place)
    BY <1>1, RequestTyped DEF DInv, TypeInv
  <2>4. channel = <<>>
    BY <1>1, <2>1 DEF DInv, WalkInv
  <2>5. ASSUME NEW p \in Place
        PROVE  Cardinality({i \in DOMAIN errors : errors[i] = p}) =
               Cardinality({i \in Roots : /\ request.paths[i].as = p.as /\ kind[p.node] = "broken"
                                           /\ Reaches(request.paths[i].node, p.node)})
    <3>1. Count(errors, {p}) + Count(channel, {Failure(p)}) + Rest(p) = Count(request.paths, From(p))
      BY <1>1, <2>1 DEF DInv, CountInv
    <3>2. Count(channel, {Failure(p)}) = 0 /\ Rest(p) = 0 /\ Count(errors, {p}) \in Nat
      BY <2>1, <2>3, <2>4, CountTyped DEF Rest
    <3>3. Count(errors, {p}) = Count(request.paths, From(p))
      BY <3>1, <3>2
    <3>4. {i \in DOMAIN errors : errors[i] \in {p}} = {i \in DOMAIN errors : errors[i] = p}
      OBVIOUS
    <3>5. \A i \in DOMAIN request.paths : request.paths[i] \in Place
      BY <2>3
    <3>6. {i \in DOMAIN request.paths : request.paths[i] \in From(p)} =
          {i \in Roots : /\ request.paths[i].as = p.as /\ kind[p.node] = "broken"
                         /\ Reaches(request.paths[i].node, p.node)}
      BY <3>5 DEF From, Roots
    <3>7. QED
      BY <3>3, <3>4, <3>6 DEF Count
  <2>6. QED
    BY <2>2, <2>5
<1>2. QED
  BY <1>1, SelectionInvariant, PTL

(* The selection of a run over paths is complete: nothing is missing or    *)
(* too much among its files, nor among its failures.                       *)
THEOREM SelectionIsComplete == Spec => []SelectionComplete
<1>1. ASSUME DInv PROVE TypeOK
  <2>1. TypeInv
    BY <1>1 DEF DInv
  <2>2. /\ Range(pending) \subseteq Place /\ Range(dirs) \subseteq Place /\ Range(channel) \subseteq Message
        /\ Range(errors) \subseteq Place
    BY <2>1, QueueRange DEF TypeInv
  <2>3. QED
    BY <2>1, <2>2 DEF TypeInv, TypeOK, Place, Item, Message
<1>2. Spec => []TypeOK
  BY <1>1, SelectionInvariant, PTL
<1>3. TypeOK /\ PathsComplete /\ ErrorsComplete => SelectionComplete
  BY DEF SelectionComplete
<1>4. QED
  BY <1>2, <1>3, NoFileMissed, FailuresReported, PTL
=============================================================================
