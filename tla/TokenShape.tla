----------------------------- MODULE TokenShape -----------------------------
(***************************************************************************)
(* What every layout planner asks of a statement's scanner tokens          *)
(* (structure.rs, tokens.rs): how deep a token lies, which parentheses     *)
(* enclose it, whether it starts a clause or a join.                       *)
(*                                                                         *)
(* A token is its kind: "(", ")", "[", "]", ".", "comment", a keyword in   *)
(* capitals, or "x" for anything else.                                     *)
(***************************************************************************)
EXTENDS Integers, Sequences, SequencesExt, FiniteSetsExt

(***************************************************************************)
(* TokenStructure::new: one pass with a depth and a stack.  A closing      *)
(* token lies as deep as the opening one, and belongs to its enclosing     *)
(* parentheses.                                                            *)
(***************************************************************************)
Opened == [depth |-> 0, stack |-> <<>>, depths |-> <<>>, parents |-> <<>>, pairs |-> {}]

(* Seeded fault: a closing bracket lies one deeper than its opening one. *)
Closes_Parenthesis(kind) == kind = ")"

Closes(kind) == kind \in {")", "]"}

Shallower(depth) == Max({0, depth - 1})

Indexed(s, kind) ==
  LET i      == Len(s.depths) + 1
      depth  == IF Closes(kind) THEN Shallower(s.depth) ELSE s.depth
      popped == IF kind = ")" /\ s.stack # <<>> THEN Front(s.stack) ELSE s.stack
  IN  [depth   |-> IF kind \in {"(", "["} THEN depth + 1 ELSE depth,
       stack   |-> IF kind = "(" THEN Append(popped, i) ELSE popped,
       depths  |-> Append(s.depths, depth),
       parents |-> Append(s.parents, IF popped = <<>> THEN 0 ELSE Last(popped)),
       pairs   |-> IF kind = ")" /\ s.stack # <<>> THEN s.pairs \cup {<<Last(s.stack), i>>} ELSE s.pairs]

Structure(tokens) ==
  LET upto[i \in 0 .. Len(tokens)] == IF i = 0 THEN Opened ELSE Indexed(upto[i - 1], tokens[i])
  IN  upto[Len(tokens)]

(* ancestor_parentheses: nearest first; a parent comes before its token.   *)
Ancestors(structure, i) ==
  LET parents == structure.parents
      chain[j \in 0 .. Len(parents)] ==
        IF j = 0 \/ parents[j] = 0 THEN <<>> ELSE <<parents[j]>> \o chain[parents[j]]
  IN  chain[i]

(***************************************************************************)
(* Neighbours that are no comments.                                        *)
(***************************************************************************)
Significant(tokens) == {i \in DOMAIN tokens : tokens[i] # "comment"}

Before(tokens, i) == LET S == {j \in Significant(tokens) : j < i} IN IF S = {} THEN 0 ELSE Max(S)
After(tokens, i)  == LET S == {j \in Significant(tokens) : j > i} IN IF S = {} THEN 0 ELSE Min(S)
KindAt(tokens, i) == IF i = 0 THEN "none" ELSE tokens[i]

(***************************************************************************)
(* Clauses.                                                                *)
(***************************************************************************)
ClauseWord == {"INTO", "FROM", "WHERE", "HAVING", "WINDOW", "LIMIT", "OFFSET", "FETCH", "FOR"}

IsQueryClauseStart(tokens, i) ==
  /\ \/ tokens[i] \in ClauseWord
     \/ tokens[i] \in {"GROUP", "ORDER"} /\ KindAt(tokens, After(tokens, i)) = "BY"
  /\ KindAt(tokens, Before(tokens, i)) # "."

(***************************************************************************)
(* Joins: the whole header, comments between its words or not.             *)
(***************************************************************************)
Sided == {"LEFT", "RIGHT", "FULL"}
Plain == {"INNER", "CROSS"}

JoinWordAfter(tokens, i) ==
  IF KindAt(tokens, i) = "JOIN" THEN i
  ELSE LET next == After(tokens, i)
           join == IF KindAt(tokens, i) \in Sided /\ KindAt(tokens, next) = "OUTER"
                     THEN After(tokens, next) ELSE next
       IN  IF KindAt(tokens, i) \in Sided \cup Plain /\ KindAt(tokens, join) = "JOIN" THEN join ELSE 0

(* join_keyword: the JOIN of a header whose first word is at i, or 0. *)
JoinKeyword(tokens, i) ==
  IF tokens[i] = "NATURAL"
    THEN LET next == After(tokens, i) IN IF next = 0 THEN 0 ELSE JoinWordAfter(tokens, next)
    ELSE JoinWordAfter(tokens, i)

IsJoinStart(tokens, i) ==
  LET previous == KindAt(tokens, Before(tokens, i))
  IN  /\ JoinKeyword(tokens, i) # 0
      /\ \/ tokens[i] = "NATURAL"
         \/ tokens[i] \in Sided \cup Plain /\ previous # "NATURAL"
         \/ tokens[i] = "JOIN" /\ previous \notin {"NATURAL", "OUTER"} \cup Sided \cup Plain
=============================================================================
