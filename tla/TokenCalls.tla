----------------------------- MODULE TokenCalls -----------------------------
(***************************************************************************)
(* What the planners read off a statement's tokens (TokenShape), against   *)
(* what it is for: nesting, and where clauses and joins start.             *)
(***************************************************************************)
EXTENDS TextFrames

K == INSTANCE TokenShape

Index ==
  /\ Fresh("shape")
  /\ LET s == K!Structure(call.text)
     IN  answer' = [depths |-> s.depths, pairs |-> s.pairs,
                    ancestors |-> [i \in DOMAIN call.text |-> K!Ancestors(s, i)]]

Classify ==
  /\ Fresh("clauses")
  /\ answer' = [clauses |-> {i \in DOMAIN call.text : K!IsQueryClauseStart(call.text, i)},
                joins   |-> {i \in DOMAIN call.text : K!IsJoinStart(call.text, i)}]

TokenSpec ==
  /\ call \in [fn : {"shape", "clauses"}, text : Seq(STRING)] /\ answer = Unanswered
  /\ [][Index \/ Classify]_<<call, answer>>

(***************************************************************************)
(* Shape.                                                                  *)
(***************************************************************************)
Opens  == {"(", "["}
Closes == {")", "]"}

(* How many of the tokens from i to j are of the kinds S.                  *)
Count(t, S, i, j) == Cardinality({k \in i .. j : t[k] \in S})

Balanced(t) ==
  /\ \A i \in 0 .. Len(t) : Count(t, {"("}, 1, i) >= Count(t, {")"}, 1, i) /\ Count(t, {"["}, 1, i) >= Count(t, {"]"}, 1, i)
  /\ Count(t, {"("}, 1, Len(t)) = Count(t, {")"}, 1, Len(t))
  /\ Count(t, Opens, 1, Len(t)) = Count(t, Closes, 1, Len(t))

(* The bracket that closes i: the first one behind it with as many opened  *)
(* as closed from i on.                                                    *)
Partner(t, i) == Min({j \in i .. Len(t) : Count(t, Opens, i, j) = Count(t, Closes, i, j)})

Nested(t) == Balanced(t) /\ \A i \in DOMAIN t :
  /\ t[i] = "(" => t[Partner(t, i)] = ")"
  /\ t[i] = "[" => t[Partner(t, i)] = "]"

(* The tokens whose pairs are around token i.                              *)
Around(t, i) == {o \in 1 .. i - 1 : t[o] \in Opens /\ Partner(t, o) > i}

(* seq lists the numbers S, the greatest first.                            *)
Descends(seq, S) == Range(seq) = S /\ \A a \in DOMAIN seq : \A b \in a + 1 .. Len(seq) : seq[a] > seq[b]

(* In properly nested tokens the depth of a token is the number of pairs   *)
(* around it, brackets and parentheses alike, an opening token and its     *)
(* partner are equally deep, and the enclosing parentheses are those, the  *)
(* nearest first: what two planners decide "at the same depth" they decide *)
(* within the same pair.  No depth falls below zero, whatever is closed.   *)
ShapeIsNesting ==
  /\ Answered("shape") => Range(answer.depths) \subseteq Nat
  /\ Answered("shape") /\ Nested(call.text) =>
      LET t == call.text
      IN  /\ answer.pairs = {<<o, Partner(t, o)>> : o \in {i \in DOMAIN t : t[i] = "("}}
          /\ \A i \in DOMAIN t :
               /\ answer.depths[i] = Cardinality(Around(t, i))
               /\ Descends(answer.ancestors[i], {o \in Around(t, i) : t[o] = "("})

(***************************************************************************)
(* Clauses and joins.                                                      *)
(***************************************************************************)
(* The places of the tokens that are no comments, and those tokens.        *)
WordPlaces(t) ==
  LET upto[i \in 0 .. Len(t)] ==
        IF i = 0 THEN <<>> ELSE upto[i - 1] \o (IF t[i] = "comment" THEN <<>> ELSE <<i>>)
  IN  upto[Len(t)]
Spoken(t)  == [k \in DOMAIN WordPlaces(t) |-> t[WordPlaces(t)[k]]]

Sided  == {"LEFT", "RIGHT", "FULL"}
Header ==
  LET heads == {<<>>, <<"INNER">>, <<"CROSS">>} \cup {<<side>> : side \in Sided} \cup {<<side, "OUTER">> : side \in Sided}
  IN  {head \o <<"JOIN">> : head \in heads} \cup {<<"NATURAL">> \o head \o <<"JOIN">> : head \in heads}

(* The headers of joins that stand at place k, and whether one around it   *)
(* began before.                                                           *)
HeadersAt(s, k) == {h \in Header : k + Len(h) - 1 <= Len(s) /\ \A i \in 1 .. Len(h) : s[k + i - 1] = h[i]}
InHeader(s, k)  == \E j \in 1 .. k - 1 : \E h \in HeadersAt(s, j) : j + Len(h) > k

(* A clause begins with its word, or with GROUP or ORDER in front of BY,   *)
(* but not as a column behind a dot.                                       *)
ClauseAt(s, k) ==
  /\ s[k] \in K!ClauseWord \/ (s[k] \in {"GROUP", "ORDER"} /\ k < Len(s) /\ s[k + 1] = "BY")
  /\ k = 1 \/ s[k - 1] # "."

(* Every join header starts once, at its first word, wherever comments     *)
(* stand between its words; left(x), a column named like a clause behind a *)
(* dot, GROUP without BY start nothing.  Tokens are as they come from a    *)
(* parsed statement: OUTER stands only within a header.                    *)
HeadersOnce ==
  Answered("clauses") =>
    LET t == call.text
        s == Spoken(t)
    IN  /\ (\A k \in DOMAIN s : s[k] = "OUTER" => InHeader(s, k)) =>
             answer.joins = {WordPlaces(t)[k] : k \in {j \in DOMAIN s : HeadersAt(s, j) # {} /\ ~ InHeader(s, j)}}
        /\ answer.clauses = {WordPlaces(t)[k] : k \in {j \in DOMAIN s : ClauseAt(s, j)}}

(* What the planners read off the tokens: nesting, and where clauses and   *)
(* joins start.                                                            *)
StructureAgrees == ShapeIsNesting /\ HeadersOnce
=============================================================================
