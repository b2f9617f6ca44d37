---------------------------- MODULE QueryLayout ----------------------------
(***************************************************************************)
(* Queries: their clauses, relation sources, windows, set operations and   *)
(* common table expressions (semantic_block.rs, statements.rs).            *)
(***************************************************************************)
EXTENDS ExpressionLayout

BreakAuthored(s, plan, i, indent) == BreakBefore(plan, i, Clamp(Lines(s, i)), indent)

(***************************************************************************)
(* FROM, USING and the source of a MERGE.                                  *)
(***************************************************************************)
Wrapper(s, plan, source, wrapper, owner) ==
  LET indent == owner + Less(wrapper.inner, source.depth) + (IF Len(source.items) > 1 THEN 1 ELSE 0)
      direct == {i \in wrapper.open + 1 .. wrapper.close - 1 : s.depth[i] = wrapper.inner}
      placed == [plan EXCEPT !.indents = Tuple([i \in DOMAIN @ |-> IF i \in direct THEN indent ELSE @[i]])]
  IN  BreakBefore(BreakBefore(placed, wrapper.open + 1, 1, indent), wrapper.close, 1, Less(indent, 1))

JoinsOf(source) == source.joins

PlanRelationSource(s, plan, source) ==
  LET owner  == IndentFor(plan, source.introducer, source.depth)
      many   == Len(source.items) > 1
      items  == IF ~ many THEN plan
                ELSE Fold(LAMBDA p, item : SetIndent(BreakBefore(p, item[1], 1, owner + 1), item[1], item[2], owner + 1),
                          plan, source.items)
      inside == Fold(LAMBDA p, w : Wrapper(s, p, source, w, owner), items, source.wrappers)
      Join(p, join) == LET indent == IndentFor(p, join.start, owner + Less(join.depth, source.depth))
                       IN  BreakBefore(p, join.start, 1, Max({indent, IF many THEN owner + 1 ELSE owner}))
  IN  Fold(Join, inside, JoinsOf(source))

PlanRelationSources(s, plan, sources) == Fold(LAMBDA p, source : PlanRelationSource(s, p, source), plan, sources)

SelectsWithin(s, sources) ==
  {i \in DOMAIN s.tok : Kind(s, i) = "SELECT" /\ \E n \in DOMAIN sources : \E m \in DOMAIN sources[n].items :
                          sources[n].items[m][1] <= i /\ i < sources[n].items[m][2]}

IsRich(source) == Len(source.items) > 1 \/ source.joins # <<>> \/ ~ source.plain

(***************************************************************************)
(* Clauses.                                                                *)
(***************************************************************************)
KeywordLists(s, done, query, keywords, indent) ==
  Fold(LAMBDA d, k :
         [PlanKeywordListAtIndent(s, d.plan, k.keyword, NextAfter(query.clauses, k.clause, query.end), query.depth, indent, FALSE)
            EXCEPT !.expanded = @ \/ d.expanded],
       done, keywords)

ClauseLists(clauses) ==
  LET Of(clause, keyword) == IF clause = 0 THEN <<>> ELSE <<[clause |-> clause, keyword |-> keyword]>>
  IN  Of(clauses.group, clauses.group + 1) \o Of(clauses.order, clauses.order + 1) \o Of(clauses.window, clauses.window)

(* The query of a CTE's body begins a line.                                *)
CteBodySelects(s) ==
  LET Body(d) == Least({i \in d[1] + 1 .. d[2] - 1 : s.depth[i] = s.depth[d[1]] + 1 /\ ~ IsComment(s.tok[i])}, 0)
      Of(d)   == {n \in DOMAIN s.b.queries : /\ d[1] < s.b.queries[n].select /\ s.b.queries[n].select < d[2]
                                             /\ s.b.queries[n].depth = s.depth[d[1]] + 1}
      definitions == UNION {Range(w.definitions) : w \in Range(s.b.withs)}
  IN  {s.b.queries[Min(Of(d))].select :
         d \in {d \in definitions : Body(d) # 0 /\ IsKind(s, Body(d), {"SELECT", "WITH"}) /\ Of(d) # {}}}

(* Seeded fault: the parenthesis of a query closes one level too deep. *)
WrapQuery_Inside(s, plan, query, indent) ==
  IF query.wrapper = <<>> THEN plan
  ELSE BreakBefore(BreakBefore(plan, query.select, 1, indent), query.wrapper[2], 1, indent)

WrapQuery(s, plan, query, indent) ==
  IF query.wrapper = <<>> THEN plan
  ELSE LET close == query.wrapper[2]
           inner == BreakBefore(plan, query.select, 1, indent)
       IN  BreakBefore(SetFallbackIndent(s, inner, query.select, close, query.depth, indent), close, 1, Less(indent, 1))

(* Seeded fault: joins and locking clauses stand by their parentheses. *)
BreakWords_Lexical(s, plan, query, indent) ==
  LET own == {i \in query.select + 1 .. query.end - 1 : s.depth[i] = query.depth /\ (Kind(s, i) = "FOR" \/ Shape!IsJoinStart(s.kinds, i))}
  IN  Fold(LAMBDA p, i : BreakAuthored(s, p, i, query.depth), plan, Ascending(s, own))

(* Locking clauses may repeat; joins are found again by their words.       *)
BreakWords(s, plan, query, indent) ==
  LET own   == {i \in query.select + 1 .. query.end - 1 : s.depth[i] = query.depth}
      fors  == IF query.clauses.locking = 0 THEN {} ELSE {i \in own : Kind(s, i) = "FOR"}
      joins == {i \in own : Shape!IsJoinStart(s.kinds, i)}
      Step(p, i) == BreakAuthored(s, p, i, indent)
  IN  Fold(Step, Fold(Step, plan, Ascending(s, fors)), Ascending(s, joins))

QueryExpands(s, query, lists, selects, indent) ==
  LET expanded == {r \in Range(s.booleans) : r.expanded}
  IN  \/ query.select \in selects \/ lists
      \/ query.from # <<>> /\ query.from[1].joins # <<>>
      \/ \E r \in expanded : \/ query.select < r.start /\ r.start < query.end
                             \/ r.start < query.select /\ query.select < r.end
      \/ indent * INDENT_WIDTH + CompactWidth(s, query.select, query.end) > s.soft

PlanQuery(s, plan, query, selects) ==
  LET indent  == QueryIndent(query, plan)
      sourced == Fold(LAMBDA p, source : PlanRelationSource(s, [p EXCEPT !.indents[source.introducer] = indent], source),
                      plan, query.from)
      bounds  == SelectSeq(OrderedBoundaries(s, query.clauses, query.end), LAMBDA i : i < query.end)
      Wrapped(clauses) == BreakWords(s, WrapQuery(s, clauses, query, indent), query, indent)
      Plan(listed, expanded) ==
        LET clauses == PlanClauseBoundaries(s, listed, bounds, indent, expanded)
        IN  IF expanded \/ \E n \in DOMAIN bounds : Lines(s, bounds[n]) > 0 THEN Wrapped(clauses) ELSE clauses
      Clauses(done) == Plan(done.plan, QueryExpands(s, query, done.expanded, selects, indent))
  IN  Clauses(KeywordLists(s, Expanded(sourced, FALSE), query, ClauseLists(query.clauses), indent))

PlanQueryClauses(s, plan, selects) ==
  LET broken == selects \cup {w.body : w \in Range(s.b.withs)} \cup CteBodySelects(s)
  IN  Fold(LAMBDA p, query : PlanQuery(s, p, query, broken), plan, s.b.queries)

(***************************************************************************)
(* WINDOW and OVER.                                                        *)
(***************************************************************************)
Sections(block) == {block.partition, block.order, block.frame} \ {0}

WindowBlockExpands(s, block) ==
  \/ Authored(s, block.open + 1, block.close)
  \/ Cardinality(Sections(block)) > 1
  \/ CompactWidth(s, block.open, block.close + 1) + block.depth * INDENT_WIDTH > s.soft

PlanWindowBlock(s, plan, block) ==
  LET indent  == IndentFor(plan, block.open, block.depth) + 1
      first   == IF block.partition # 0 THEN block.partition
                 ELSE IF block.order # 0 THEN block.order
                 ELSE IF block.frame # 0 THEN block.frame ELSE block.open + 1
      begun   == Fold(LAMBDA p, i : BreakBefore(p, i, 1, indent), plan,
                      <<first>> \o SelectSeq(<<block.partition, block.order, block.frame>>, LAMBDA i : i # 0))
      closed  == BreakBefore(SetIndent(begun, block.open + 1, block.close, indent), block.close, 1, Less(indent, 1))
      Listed(p, section) ==
        IF section = 0 THEN p
        ELSE PlanKeywordListAtIndent(s, p, section + 1, Least({i \in Sections(block) : i > section}, block.close),
                                     s.depth[section + 1], indent, FALSE).plan
  IN  IF WindowBlockExpands(s, block) THEN Fold(Listed, closed, <<block.partition, block.order>>) ELSE plan

PlanWindowBlocks(s, plan) == Fold(LAMBDA p, block : PlanWindowBlock(s, p, block), plan, s.b.windows)

(***************************************************************************)
(* UNION, INTERSECT, EXCEPT: operators and branches stand apart by a blank *)
(* line; a branch in parentheses expands or not on its own.                *)
(***************************************************************************)
BranchExpands(s, operation, branch) ==
  LET open == branch.wrapper[1]  close == branch.wrapper[2]
  IN  Expands(s, [Group(operation.depth * INDENT_WIDTH + CompactWidth(s, open, close + 1)) EXCEPT
        !.complex = AnyIn(s, branch.query + 1, close, LAMBDA i : /\ s.depth[i] > s.depth[branch.query]
                                                                /\ IsKind(s, i, {"SELECT", "WITH", "VALUES"})),
        !.hard    = HasHardBoundary(s, open + 1, close),
        !.forced  = Lines(s, branch.query) > 0 \/ Lines(s, close) > 0])

PlanBranch(s, plan, operation, branch) ==
  IF branch.wrapper = <<>> \/ ~ BranchExpands(s, operation, branch) THEN plan
  ELSE BreakBefore(BreakBefore(BreakBefore(plan, branch.wrapper[1], 1, operation.depth),
                               branch.query, 1, operation.depth + 1), branch.wrapper[2], 1, operation.depth)

PlanSetOperation(s, plan, operation) ==
  LET depth   == operation.depth
      started == IF operation.start < operation.end THEN BreakBefore(plan, operation.branches[1].start, 1, depth) ELSE plan
      closed  == IF operation.wrapper = <<>> THEN started ELSE BreakBefore(started, operation.wrapper[2], 1, Less(depth, 1))
      suffix  == operation.end <= Size(s) /\ IsKind(s, operation.end, {"ORDER", "LIMIT", "OFFSET", "FETCH", "FOR"})
      ended   == IF suffix THEN BreakBefore(closed, operation.end, 1, depth) ELSE closed
      within  == Fold(LAMBDA p, branch : PlanBranch(s, p, operation, branch), ended, operation.branches)
  IN  Fold(LAMBDA p, n : BreakBefore(BreakBefore(p, operation.operators[n], 2, depth), operation.branches[n + 1].start, 2, depth),
           within, [n \in DOMAIN operation.operators |-> n])

PlanSetOperations(s, plan) == Fold(LAMBDA p, operation : PlanSetOperation(s, p, operation), plan, s.b.operations)

(***************************************************************************)
(* WITH.                                                                   *)
(***************************************************************************)
PlanCte(s, plan, block, n) ==
  LET open   == block.definitions[n][1]  close == block.definitions[n][2]
      base   == s.depth[block.with]
      begun  == IF open + 1 < close THEN BreakBefore(plan, open + 1, 1, base + 1) ELSE plan
      closed == BreakBefore(begun, close, 1, base)
      searches == {i \in close + 1 .. block.body - 1 : IsKind(s, i, {"SEARCH", "CYCLE"})}
  IN  IF close < Size(s) /\ Kind(s, close + 1) = ","
        THEN IF close + 1 < Size(s) THEN BreakBefore(closed, close + 2, IF Lines(s, close + 2) > 1 THEN 2 ELSE 1, base) ELSE closed
      ELSE IF n < Len(block.definitions) THEN closed
      ELSE BreakBefore(Fold(LAMBDA p, i : BreakBefore(p, i, 1, base), closed, Ascending(s, searches)), block.body, 1, base)

PlanCtes(s, plan) ==
  Fold(LAMBDA p, block : BreakBefore(Fold(LAMBDA q, n : PlanCte(s, q, block, n), p, [n \in DOMAIN block.definitions |-> n]),
                                     block.body, 1, s.depth[block.with]),
       plan, s.b.withs)
=============================================================================
