--------------------------- MODULE StatementFormat ---------------------------
(***************************************************************************)
(* The formatting of one supported statement (format_supported_statement   *)
(* of formatter/mod.rs): it is laid out, laid out again, refused unless    *)
(* both agree and no avoidable line is beyond the hard width.  A refused   *)
(* statement keeps the text its author wrote.                              *)
(***************************************************************************)
EXTENDS StatementLayout, StatementPasses

Binder == INSTANCE StatementBinding

VARIABLE bound        (* the statement as bound for the first pass, then for the second *)
vars == <<text, options, bound, laid, verdict>>

Init == PassInit /\ bound = <<>>

(* A pass parses what it is given, binds it and decides which lists,       *)
(* expressions and CASEs expand; then it plans and renders.                *)
BoundBy(read) == Bound([read EXCEPT !.b = Binder!Binding(read)])

Bind ==
  /\ Len(bound) = Len(laid) /\ Len(laid) < 2
  /\ bound' = Append(bound, BoundBy(Read(Given, options)))
  /\ UNCHANGED <<text, options, laid, verdict>>

LayOut ==
  /\ Len(laid) < Len(bound)
  /\ laid' = Append(laid, LaidOut(Last(bound)))
  /\ UNCHANGED <<text, options, bound, verdict>>

Judge == Gate /\ UNCHANGED bound

Done == verdict # "none" /\ UNCHANGED vars

Next == Bind \/ LayOut \/ Judge \/ Done
Spec == Init /\ [][Next]_vars

(***************************************************************************)
(* Properties.                                                             *)
(***************************************************************************)
Has(tokens, kind)  == \E i \in DOMAIN tokens : tokens[i].k = kind

(* Each pass is one of StatementPasses: however often the owners rebase,   *)
(* their plan never indents left of the margin, it makes a gap of two      *)
(* blank lines only where the author left one, and it is rendered with the *)
(* tokens, depths and options that were read (LayoutPlan, format).         *)
PlansRendered ==
  [][laid' # laid =>
       LET plan == PlanOf(Last(bound))
       IN  /\ plan \in Plans(Len(Given))
           /\ \A i \in DOMAIN plan.lines : plan.lines[i] <= Max({2, Given[i].lb})
           /\ laid' = Append(laid, RenderPlan(Read(Given, options), plan))]_vars

SetOperators == {"UNION", "INTERSECT", "EXCEPT"}
HoldsSetOperation(tokens, open, close) == \E i \in open .. close : tokens[i].k \in SetOperators

(* The parenthesis behind UNION ALL is taken for that of a predicate.      *)
TakenForPredicate(out, open) == open > 1 /\ out[open].k = "(" /\ out[open - 1].k = "ALL"
SeveralRows(tokens) ==
  \E i \in 2 .. Len(tokens) - 1 : tokens[i - 1].k = ")" /\ tokens[i].k = "," /\ tokens[i + 1].k = "("

(* Texts whose second layout may differ: a blank line expands the groups   *)
(* of OR, CASE and pairs of keys and values, which do not keep it, and the *)
(* rows of an INSERT on one line move without their VALUES.                *)
Restless(tokens) ==
  \/ (\E kind \in {"OR", "CASE", "json"} : Has(tokens, kind)) /\ \E i \in DOMAIN tokens : tokens[i].lb > 1
  \/ \E i \in DOMAIN tokens : TakenForPredicate(tokens, i)
  \/ Has(tokens, "INSERT") /\ SeveralRows(tokens)

(* An UPDATE or DELETE left on one line round an expression that breaks:   *)
(* the next layout reads that break as its author's and breaks the clauses *)
(* as well (plan_update_statements, plan_delete_statements).               *)
BreaksInside(tokens, change) == \E i \in change.start + 1 .. change.end - 1 : tokens[i].lb > 0
LeftOnOneLine(s, out) ==
  \E change \in Range(s.b.updates) \cup Range(s.b.deletes) :
     /\ ~ BreaksInside(s.tok, change)
     /\ BreaksInside(out, change)
     /\ \A i \in {change.where, change.returning} \ {0} : out[i].lb = 0

(* The blank lines a layout puts round UNION expand the predicate that     *)
(* holds it in the next layout (has_hard_boundary in boolean_ranges).      *)
BlankInPredicate(s) == \E p \in Range(s.b.predicates) : HoldsSetOperation(s.tok, p.start, p.end - 1)

(* No other statement is refused: the breaks a layout makes lead to the    *)
(* same layout again, and a line is left beyond the hard width only when   *)
(* one of its tokens is (the two gates of format_supported_statement).     *)
Accepted ==
  verdict \in {"unstable", "refused"} => Restless(text) \/ LeftOnOneLine(bound[1], first) \/ BlankInPredicate(bound[1])

(* Laid out a second time, no statement moves (core-spec.md section 5.2).  *)
Idempotent == verdict # "unstable"

(* A set operation stands by the parentheses round it, though the list it  *)
(* is in may have moved further (plan_set_operations).                     *)
CountedByDepth(out, close) ==
  UNION {open + 1 .. close[open] : open \in {o \in DOMAIN close : /\ HoldsSetOperation(out, o, close[o])
                                                               /\ \E outer \in DOMAIN close : outer < o /\ close[o] < close[outer]}}

(* A parenthesis that begins a line stands further left than every line    *)
(* of its contents (core-spec.md: "indent contents one level below their   *)
(* owner").                                                                *)
ContentsInside ==
  Judged => LET close == bound[2].close
                lines == {i \in DOMAIN first : BeginsLine(first, i)} \ CountedByDepth(first, close)
            IN  \A open \in DOMAIN close : close[open] \in lines =>
                  \A i \in lines \cap (open + 1 .. close[open] - 1) :
                     ~ IsComment(first[i]) => first[i].from > first[close[open]].from

(* A query whose parenthesis is counted once as that of a predicate and    *)
(* once more: that of UNION ALL, and that of a set operation which moves   *)
(* as a whole.                                                             *)
TwiceIndented(out, query) ==
  /\ query.wrapper # <<>> /\ query.wrapper[1] > 1
  /\ LET word == out[query.wrapper[1] - 1].k
     IN  \/ word = "ALL"
         \/ /\ word \in {"IN", "EXISTS", "ANY"}
            /\ HoldsSetOperation(out, query.wrapper[1], query.wrapper[2])

(* The clauses of a query that begin lines stand in one column with it,    *)
(* and so do the joins of its only relation, however deep the query is     *)
(* nested (plan_query_clauses, query_indent, plan_relation_source).        *)
JoinsIn(query) ==
  IF query.from = <<>> \/ Len(query.from[1].items) > 1 THEN {}
  ELSE {join.start : join \in {j \in Range(query.from[1].joins) : j.depth = query.depth}}

ClausesAlign ==
  Judged => \A query \in Range(bound[2].b.queries) :
     LET own == {i \in Range(query.clauses) \cup {query.select} \cup JoinsIn(query) : i # 0 /\ BeginsLine(first, i)}
     IN  TwiceIndented(first, query) \/ Cardinality({first[i].from : i \in own}) <= 1
=============================================================================
