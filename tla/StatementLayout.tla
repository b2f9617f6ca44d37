-------------------------- MODULE StatementLayout --------------------------
(***************************************************************************)
(* The whole layout of a statement: `semantic_block::format`.  Every owner *)
(* plans in its turn over what earlier owners planned, and the plan is     *)
(* rendered.                                                               *)
(***************************************************************************)
EXTENDS StatementPlans

(* Sources of UPDATE, DELETE and MERGE: their queries begin lines.         *)
MutationSources(s) ==
  Each(s.b.updates, LAMBDA u : u.from) \o Each(s.b.deletes, LAMBDA d : d.using) \o Each(s.b.merges, LAMBDA m : <<m.source>>)

QuerySources(s) == Each(s.b.queries, LAMBDA q : [n \in DOMAIN q.from |-> q.from[n] @@ [indent |-> q.indent, base |-> q.depth]])

(* USING lists of joins, and at what indentation their list stands.        *)
JoinUsings(s) ==
  LET Of(source, Indent(_)) == {[open |-> join.using, indent |-> Indent(join.using)] :
                                  join \in {j \in Range(source.joins) : j.using # 0}}
  IN  UNION ({Of(source, LAMBDA i : source.indent + Less(s.depth[i], source.base)) : source \in Range(QuerySources(s))}
             \cup {Of(source, LAMBDA i : s.depth[i]) : source \in Range(MutationSources(s))})

(* Column definitions after a function in FROM, with the line they are on. *)
HeaderPrefix(source, open) ==
  LET joins == {j.start : j \in {j \in Range(source.joins) : j.start < open /\ (j.on = 0 \/ open < j.on)}}
      items == {n \in DOMAIN source.items : source.items[n][1] <= open /\ open < source.items[n][2]}
  IN  IF joins # {} THEN Max(joins) ELSE IF items # {} THEN source.items[Min(items)][1] ELSE source.start

DefinitionHeaders(s) ==
  LET Of(source, indent) == {[open |-> open, prefix |-> HeaderPrefix(source, open), indent |-> indent + Less(s.depth[open], source.depth)] :
                               open \in {d[1] : d \in source.definitions}}
  IN  UNION ({Of(source, source.indent) : source \in Range(QuerySources(s))}
             \cup {Of(source, source.depth) : source \in Range(MutationSources(s))})

(* Lists of INSERT, MERGE, VALUES and utilities; `start` 0 when their own  *)
(* line is all that counts.                                                *)
OwnedLists(s) ==
  LET Opens(opens, start) == {[open |-> open, start |-> start] : open \in opens \ {0}}
      OfMergeInsert(branch) == IF branch.kind = "insert" THEN Opens({branch.target, branch.open}, branch.start) ELSE {}
  IN  UNION ({Opens({i.target}, i.body) \cup Opens(OwnedOpens(i) \ {i.target}, 0) : i \in Range(s.b.inserts)}
             \cup {UNION {OfMergeInsert(branch) : branch \in Range(m.branches)} : m \in Range(s.b.merges)}
             \cup {{[open |-> row[1], start |-> row[1]] : row \in Range(v.rows)} : v \in Range(s.b.values)}
             \cup {Opens(u.lists, 0) : u \in Range(s.b.utilities)})

(***************************************************************************)
(* What is known before the first owner plans.                             *)
(***************************************************************************)
Owned(s)      == [s EXCEPT !.b = @ @@ [usings |-> JoinUsings(s), headers |-> DefinitionHeaders(s), owned |-> OwnedLists(s)]]
WithCases(s)  == [s EXCEPT !.tall = {c \in DOMAIN s.endOf : CaseExpands(s, c)}]
WithLists(s)  == [s EXCEPT !.lists = ParenthesizedLists(s)]
WithRanges(s) == [s EXCEPT !.expressions = OwnedExpressionRanges(s)]
Bound(s)      == LET Decided(r) == [r EXCEPT !.booleans = BooleanRanges(r)]
                 IN  Decided(WithRanges(WithLists(WithCases(Owned(s)))))

(***************************************************************************)
(* The owners in their order.                                              *)
(***************************************************************************)
PlanSpans(s, plan) ==
  Fold(LAMBDA p, span : IF Lines(s, span.start) > 0 THEN BreakBefore(p, span.start, Min({2, Lines(s, span.start)}), span.depth) ELSE p,
       plan, Tail(s.b.spans))

PlanSelect(s, done, select) ==
  Fold(LAMBDA d, source : [plan |-> PlanRelationSource(s, d.plan, source),
                           selects |-> IF IsRich(source) THEN d.selects \cup {select.query} ELSE d.selects],
       done, select.from)

Over(s, plan, blocks, Plan(_, _, _)) == Fold(LAMBDA p, block : Plan(s, p, block), plan, blocks)

(* Statements plan kind by kind; SELECTs and INSERTs also name the queries *)
(* that must expand.                                                       *)
PlanSelects(s, start) ==
  Over(s, [PlanSelectLists(s, start) EXCEPT
             !.selects = @ \cup SelectsWithin(s, MutationSources(s)) \cup {v.query : v \in Range(s.b.views)}],
       s.b.selects, PlanSelect)

PlanMutations(s, plan) ==
  Over(s, Over(s, Over(s, plan, s.b.updates, PlanUpdate), s.b.deletes, PlanDelete), s.b.merges, PlanMerge)

PlanDefinitions(s, plan) ==
  Over(s, Over(s, Over(s, Over(s, Over(s, Over(s, plan,
    s.b.views, PlanView), s.b.values, PlanValues), s.b.tables, PlanTable), s.b.indexes, PlanIndex), s.b.alters, PlanAlter),
    s.b.utilities, PlanUtility)

PlanStatements(s, start) ==
  [Over(s, PlanSelects(s, start), s.b.inserts, PlanInsert) EXCEPT !.plan = PlanDefinitions(s, PlanMutations(s, @))]

(* Lists and the clauses of queries, then what lies within them.           *)
PlanQueries(s, done) ==
  PlanQueryClauses(s, PlanParenthesizedLists(s, done.plan),
                   done.selects \cup {w.query : w \in {w \in Range(s.b.windows) : WindowBlockExpands(s, w)}})

PlanExpressions(s, plan) ==
  PlanCommentContinuations(s, PlanCaseResults(s, RebaseLists(s, PlanBooleans(s, PlanCases(s, plan)))))

PlanOf(s) ==
  PlanCtes(s, PlanExpressions(s, PlanSetOperations(s, PlanWindowBlocks(s,
    PlanQueries(s, PlanStatements(s, PlanSpans(s, NewPlan(s))))))))

LaidOut(s) == RenderPlan(s, PlanOf(s))
=============================================================================
