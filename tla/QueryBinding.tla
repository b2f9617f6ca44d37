---------------------------- MODULE QueryBinding ----------------------------
(***************************************************************************)
(* Who owns which tokens of a statement: its queries, relation sources,    *)
(* predicates, set operations, windows, row lists, calls and lists         *)
(* (layout_ir/query.rs, layout_ir/values.rs, arrays.rs, in_lists.rs,       *)
(* function_calls.rs and the relation sources of layout_ir/statement.rs).  *)
(*                                                                         *)
(* The parser is external.  What it says - which SELECTs are queries, how  *)
(* many joins a source has, which names are called - is read here from the *)
(* tokens.  A statement `st` is a range with the depth of its body.        *)
(***************************************************************************)
EXTENDS ListLayout

Find(s, from, to, depth, kinds) == First(from, to, LAMBDA i : s.depth[i] = depth /\ IsKind(s, i, kinds))
FindLast(s, from, to, depth, kinds) == Most({i \in from .. to - 1 : s.depth[i] = depth /\ IsKind(s, i, kinds)}, 0)
Follows(s, i, kinds) == i < Size(s) /\ IsKind(s, i + 1, kinds)
Until(boundary, end) == IF boundary = 0 THEN end ELSE boundary
Opened(s, open)      == IF open = 0 THEN <<>> ELSE <<open, s.close[open]>>

ItemRanges(s, from, to, depth) ==
  LET Step(cut, comma) ==
        LET end == IF TrailsComma(s, comma) THEN Min({comma + 2, to}) ELSE comma
        IN  [ranges |-> Append(cut.ranges, <<cut.next, end>>), next |-> Max({end, comma + 1})]
      Rest(cut) == IF cut.next < to THEN Append(cut.ranges, <<cut.next, to>>) ELSE cut.ranges
  IN  Rest(Fold(Step, [ranges |-> <<>>, next |-> from], Ascending(s, CommasAt(s, from, to, depth))))

(***************************************************************************)
(* Clauses.                                                                *)
(***************************************************************************)
(* `IS [NOT] DISTINCT FROM` is no FROM clause. *)
IsDistinctFrom(s, start, from, depth) ==
  LET Previous(before) == Most({i \in start .. before - 1 : s.depth[i] = depth /\ ~ IsComment(s.tok[i])}, 0)
      distinct == Previous(from)
      before   == IF distinct = 0 THEN 0 ELSE Previous(distinct)
  IN  /\ distinct # 0 /\ Kind(s, distinct) = "DISTINCT" /\ before # 0
      /\ \/ Kind(s, before) = "IS"
         \/ Kind(s, before) = "NOT" /\ Previous(before) # 0 /\ Kind(s, Previous(before)) = "IS"

FindFrom(s, from, to, depth) ==
  First(from, to, LAMBDA i : s.depth[i] = depth /\ Kind(s, i) = "FROM" /\ ~ IsDistinctFrom(s, from, i, depth))

BindClauses(s, select, end, depth) ==
  LET starts == {i \in select + 1 .. end - 1 : s.depth[i] = depth /\ Shape!IsQueryClauseStart(s.kinds, i)}
      Word(kind)   == Least({i \in starts : Kind(s, i) = kind}, 0)
      WordBy(kind) == Least({i \in starts : Kind(s, i) = kind /\ Follows(s, i, {"BY"})}, 0)
  IN  [into |-> Word("INTO"), where |-> Word("WHERE"), group |-> WordBy("GROUP"), having |-> Word("HAVING"),
       from |-> Least({i \in starts : Kind(s, i) = "FROM" /\ ~ IsDistinctFrom(s, select + 1, i, depth)}, 0),
       window |-> Word("WINDOW"), order |-> WordBy("ORDER"), limit |-> Word("LIMIT"), offset |-> Word("OFFSET"),
       fetch |-> Word("FETCH"), locking |-> Word("FOR")]

(***************************************************************************)
(* Relation sources.  The joins of a source are its shallowest ones, as    *)
(* many as the parser counted; those of a derived table lie inside its     *)
(* parentheses.                                                            *)
(***************************************************************************)
SubqueryHeads == {"SELECT", "WITH", "VALUES"}
Opens(s, open, kinds) == LET f == FirstSyntax(s, open + 1, s.close[open]) IN f < s.close[open] /\ IsKind(s, f, kinds)

CountedJoins(s, introducer, joins) ==
  Cardinality({i \in joins : \A a \in Range(Shape!Ancestors(s, i)) : a > introducer => ~ Opens(s, a, SubqueryHeads)})

JoinStarts(s, introducer, joins) ==
  LET Sooner(j, i) == s.depth[j] < s.depth[i] \/ (s.depth[j] = s.depth[i] /\ j < i)
  IN  {i \in joins : Cardinality({j \in joins : Sooner(j, i)}) < CountedJoins(s, introducer, joins)}

BindJoin(s, start, starts, end, base) ==
  LET depth == s.depth[start]
      next  == Least({i \in start + 1 .. end - 1 : \/ s.depth[i] < depth
                                                   \/ Kind(s, i) = "," /\ s.depth[i] = base
                                                   \/ i \in starts /\ s.depth[i] <= depth}, end)
      word  == Find(s, start, next, depth, {"JOIN"})
      using == Find(s, word + 1, next, depth, {"USING"})
  IN  [start |-> start, depth |-> depth, end |-> next, on |-> Find(s, word + 1, next, depth, {"ON"}),
       using |-> IF using = 0 THEN 0 ELSE Find(s, using + 1, next, depth, {"("})]

BindRelationSource(s, introducer, end, depth) ==
  LET from == introducer + 1
      Held(items, starts) == Ascending(s, {o \in DOMAIN s.close : /\ \E n \in DOMAIN items : items[n][1] <= o /\ s.close[o] < items[n][2]
                                                                  /\ \E j \in starts : o < j /\ j < s.close[o]})
      Plain(starts) == /\ starts = {}
                       /\ ~ AnyIn(s, from, end, LAMBDA i : IsCalled(s.tok[i]) \/ IsKind(s, i, {"SELECT", "VALUES", "TABLESAMPLE"}))
      Source(items, starts) ==
        LET order == Ascending(s, starts)
            held  == Held(items, starts)
        IN  [introducer |-> introducer, start |-> from, end |-> end, depth |-> depth, items |-> items,
             joins |-> [n \in DOMAIN order |-> BindJoin(s, order[n], starts, end, depth)], plain |-> Plain(starts),
             wrappers |-> [n \in DOMAIN held |-> [open |-> held[n], close |-> s.close[held[n]], inner |-> s.depth[held[n]] + 1]],
             definitions |-> {Opened(s, o) : o \in {o \in DOMAIN s.close : /\ from < o /\ o < end /\ Kind(s, o - 1) = "definition"}}]
  IN  Source(ItemRanges(s, from, end, depth),
             JoinStarts(s, introducer, {i \in from .. end - 1 : Shape!IsJoinStart(s.kinds, i)}))

BindSources(s, introducer, end, depth) ==
  IF introducer = 0 THEN <<>> ELSE <<BindRelationSource(s, introducer, end, depth)>>

(***************************************************************************)
(* Queries.                                                                *)
(***************************************************************************)
(* The check option of a view and the data clause of a materialized one.   *)
StatementSuffix(s, st, select, depth) ==
  LET words == CASE st.kind = "VIEW" -> {"LOCAL", "CASCADED", "CHECK"}
                 [] st.kind = "MATERIALIZED" -> {"NO", "DATA"}
                 [] OTHER -> {}
      withs == {i \in select + 1 .. st.end - 1 : s.depth[i] = depth /\ Kind(s, i) = "WITH" /\ Follows(s, i, words)}
  IN  IF depth # st.depth \/ withs = {} THEN {} ELSE {Max(withs)}

EndsQuery(s, i, depth) ==
  \/ s.depth[i] < depth
  \/ /\ s.depth[i] = depth
     /\ \/ IsKind(s, i, {";", "UNION", "INTERSECT", "EXCEPT", "RETURNING"})
        \/ Kind(s, i) = "ON" /\ Follows(s, i, {"CONFLICT"})

QueryEnd(s, st, select) ==
  LET depth == s.depth[select]
  IN  Least({i \in select + 1 .. st.end - 1 : EndsQuery(s, i, depth)} \cup StatementSuffix(s, st, select, depth), st.end)

SelectListStart(s, select, end) ==
  LET start == select + 1
      on    == start + 1 < Size(s) /\ Kind(s, start) = "DISTINCT" /\ Kind(s, start + 1) = "ON" /\ Follows(s, start + 1, {"("})
  IN  CASE start >= end \/ ~ IsKind(s, start, {"DISTINCT", "ALL"}) -> start
        [] on  -> Min({s.close[start + 2] + 1, end})
        [] OTHER -> Min({start + 1, end})

(* Subqueries of predicates stand one deeper than their parentheses say.   *)
PredicateNesting(s, select) ==
  Cardinality({a \in Range(Shape!Ancestors(s, select)) :
                 LET p == PreviousSyntax(s, a) IN p # 0 /\ IsKind(s, p, {"IN", "EXISTS", "ANY", "ALL"})})

BindQuery(s, st, select) ==
  LET depth == s.depth[select]
      Wrappers(end) == SelectSeq(Shape!Ancestors(s, select), LAMBDA a : a >= st.start /\ s.close[a] >= end /\ s.close[a] < st.end)
      Query(end, wrappers, clauses) ==
        [select |-> select, list |-> SelectListStart(s, select, end), end |-> end, depth |-> depth,
         indent |-> depth + PredicateNesting(s, select), clauses |-> clauses,
         wrapper |-> IF wrappers = <<>> THEN <<>> ELSE Opened(s, wrappers[1]),
         from |-> BindSources(s, clauses.from, NextAfter(clauses, clauses.from, end), depth)]
      Ending(end) == Query(end, Wrappers(end), BindClauses(s, select, end, depth))
  IN  Ending(QueryEnd(s, st, select))

BindQueries(s, st) ==
  LET selects == Ascending(s, {i \in st.start .. st.end - 1 : Kind(s, i) = "SELECT"})
  IN  [n \in DOMAIN selects |-> BindQuery(s, st, selects[n])]

(***************************************************************************)
(* Set operations: operators of one depth within one owner.                *)
(***************************************************************************)
SetOperators == {"UNION", "INTERSECT", "EXCEPT"}

SetOwner(s, st, operator) ==
  LET depth == s.depth[operator]
      outer == {o \in DOMAIN s.close : o < operator /\ operator < s.close[o] /\ s.depth[o] + 1 = depth}
      range == IF outer = {} THEN <<st.start, st.end>> ELSE <<Max(outer) + 1, s.close[Max(outer)]>>
      Suffix(i) == \/ Kind(s, i) = ";"
                   \/ Shape!IsQueryClauseStart(s.kinds, i) /\ IsKind(s, i, {"ORDER", "OFFSET", "LIMIT", "FETCH", "FOR"})
  IN  [start |-> range[1], depth |-> depth, wrapper |-> Opened(s, Most(outer, 0)),
       end |-> Least({i \in operator + 1 .. range[2] - 1 : s.depth[i] = depth /\ Suffix(i)}, range[2])]

BindBranch(s, from, to, depth) ==
  LET start   == FirstSyntax(s, from, to)
      end     == Most({i \in start .. to - 1 : ~ IsComment(s.tok[i])}, start - 1) + 1
      wrapped == Kind(s, start) = "(" /\ s.close[start] + 1 = end
      query   == IF wrapped THEN Find(s, start + 1, end - 1, depth + 1, SubqueryHeads) ELSE Find(s, start, end, depth, SubqueryHeads)
  IN  [start |-> from, query |-> query, wrapper |-> IF wrapped THEN Opened(s, start) ELSE <<>>]

BranchStart(s, operator, end) ==
  LET modifier == FirstSyntax(s, operator + 1, end)
  IN  IF modifier < end /\ IsKind(s, modifier, {"ALL", "DISTINCT"}) THEN modifier + 1 ELSE operator + 1

BindSetOperation(s, owner, operators) ==
  LET last == Len(operators)
      From(n) == IF n = 1 THEN owner.start ELSE BranchStart(s, operators[n - 1], owner.end)
      To(n)   == IF n > last THEN owner.end ELSE operators[n]
  IN  owner @@ [operators |-> operators, branches |-> [n \in 1 .. last + 1 |-> BindBranch(s, From(n), To(n), owner.depth)]]

BindSetOperations(s, st) ==
  LET operators == {i \in st.start .. st.end - 1 : IsKind(s, i, SetOperators)}
      Of(owner) == Ascending(s, {i \in operators : SetOwner(s, st, i) = owner})
      firsts    == Ascending(s, {i \in operators : i = Of(SetOwner(s, st, i))[1]})
      Owner(n)  == SetOwner(s, st, firsts[n])
      Place(n)  == Cardinality({m \in DOMAIN firsts : Owner(m).start <= Owner(n).start})
  IN  [place \in DOMAIN firsts |-> LET n == CHOOSE n \in DOMAIN firsts : Place(n) = place
                                   IN  BindSetOperation(s, Owner(n), Of(Owner(n)))]

(***************************************************************************)
(* Windows: the outermost query around one claims it.                      *)
(***************************************************************************)
WindowOpens(s, query) ==
  {i + 1 : i \in {i \in query.select .. query.end - 1 :
       /\ Follows(s, i, {"("})
       /\ \/ Kind(s, i) = "OVER"
          \/ Kind(s, i) = "GROUP" /\ i > query.select /\ Kind(s, i - 1) = "WITHIN"
          \/ Kind(s, i) = "AS" /\ s.depth[i] = query.depth /\ query.clauses.window # 0 /\ i > query.clauses.window}}

BindWindow(s, open, query) ==
  LET inner == s.depth[open] + 1  close == s.close[open]
      By(kind) == First(open + 1, close, LAMBDA i : s.depth[i] = inner /\ Kind(s, i) = kind /\ Follows(s, i, {"BY"}))
  IN  [query |-> query.select, open |-> open, close |-> close, depth |-> s.depth[open],
       partition |-> By("PARTITION"), order |-> By("ORDER"), frame |-> Find(s, open + 1, close, inner, {"ROWS", "RANGE", "GROUPS"})]

BindWindows(s, queries) ==
  LET Claims(open) == Min({n \in DOMAIN queries : open \in WindowOpens(s, queries[n])})
      opens == {o \in UNION {WindowOpens(s, q) : q \in Range(queries)} : s.close[o] < queries[Claims(o)].end}
      order == Ascending(s, opens)
  IN  [n \in DOMAIN order |-> BindWindow(s, order[n], queries[Claims(order[n])])]

(***************************************************************************)
(* Rows of VALUES: the parentheses that follow it one after another.       *)
(***************************************************************************)
RECURSIVE Rows(_, _, _)
Rows(s, next, end) ==
  LET open  == FirstSyntax(s, next, end)
      comma == FirstSyntax(s, s.close[open] + 1, end)
  IN  IF open >= end \/ Kind(s, open) # "(" THEN <<>>
      ELSE <<Opened(s, open)>> \o (IF comma < end /\ Kind(s, comma) = "," THEN Rows(s, comma + 1, end) ELSE <<>>)

BindValues(s, keyword, end, wrapper) ==
  LET rows  == Rows(s, keyword + 1, end)
      depth == s.depth[keyword]
  IN  [start |-> keyword, end |-> end, depth |-> depth, keyword |-> keyword, rows |-> rows, wrapper |-> wrapper,
       clauses |-> BindClauses(s, IF rows = <<>> THEN keyword ELSE Last(rows)[2], end, depth)]

ValuesRelations(s, bodies) ==
  LET opens == Ascending(s, {o \in DOMAIN s.close : o \notin bodies /\ Opens(s, o, {"VALUES"})})
  IN  [n \in DOMAIN opens |-> BindValues(s, FirstSyntax(s, opens[n] + 1, Size(s)), s.close[opens[n]], Opened(s, opens[n]))]

(***************************************************************************)
(* Calls, arrays and IN lists.                                             *)
(***************************************************************************)
BindCall(s, open) ==
  LET name  == PreviousSyntax(s, open)
      order == First(open + 1, s.close[open], LAMBDA i : /\ s.depth[i] = s.depth[open] + 1 /\ Kind(s, i) = "ORDER"
                                                         /\ IsKind(s, FirstSyntax(s, i + 1, Size(s)), {"BY"}))
  IN  [open |-> open, start |-> name,
       pairs |-> IF Kind(s, name) = "json" THEN {[end |-> Until(order, s.close[open]), order |-> order]} ELSE {}]

BindCalls(s) == {BindCall(s, o) : o \in {o \in DOMAIN s.close : PreviousSyntax(s, o) # 0 /\ IsCalled(s.tok[PreviousSyntax(s, o)])}}

BindArrays(s) ==
  LET opens == {i \in DOMAIN s.tok : Kind(s, i) = "[" /\ PreviousSyntax(s, i) # 0 /\ IsKind(s, PreviousSyntax(s, i), {"ARRAY", "[", ","})}
  IN  {<<o, Least({i \in o + 1 .. Size(s) : Kind(s, i) = "]" /\ s.depth[i] = s.depth[o]}, Size(s))>> : o \in opens}

BindInLists(s) ==
  {Opened(s, o) : o \in {o \in DOMAIN s.close : /\ PreviousSyntax(s, o) # 0 /\ Kind(s, PreviousSyntax(s, o)) = "IN"
                                                /\ ~ Opens(s, o, SubqueryHeads)}}

(***************************************************************************)
(* Predicates, in the order of their introducers.                          *)
(***************************************************************************)
PredicateAt(introducer, end, depth, indent) ==
  [kind |-> "", introducer |-> introducer, start |-> introducer + 1, end |-> end, depth |-> depth, indent |-> indent, close |-> 0]

Clause(introducer, end, depth, indent) ==
  IF introducer = 0 THEN {} ELSE {PredicateAt(introducer, end, depth, indent)}

JoinPredicates(source, indent) ==
  {[PredicateAt(j.on, j.end, j.depth, indent + Less(j.depth, source.depth)) EXCEPT !.kind = "ON"] :
     j \in {j \in Range(source.joins) : j.on # 0}}

QueryPredicates(query) ==
  LET Of(clause) == Clause(clause, NextAfter(query.clauses, clause, query.end), query.depth, query.indent)
  IN  Of(query.clauses.where) \cup Of(query.clauses.having)
      \cup UNION {JoinPredicates(source, query.indent) : source \in Range(query.from)}

(* Comments on lines of their own behind a predicate are not part of it.   *)
(* Of two predicates with one introducer the query's counts.               *)
BindPredicates(s, ofQueries, ofStatements) ==
  LET others == {p \in ofStatements : \A q \in ofQueries : q.introducer # p.introducer}
      Trim(p) == LET Trailing(i) == \A j \in i .. p.end - 1 : IsComment(s.tok[j]) /\ Lines(s, j) > 0
                 IN  [p EXCEPT !.end = Min({i \in p.start .. p.end : Trailing(i)})]
      proper == {p \in {Trim(p) : p \in {p \in ofQueries \cup others : p.start < p.end}} : p.start < p.end}
      order  == Ascending(s, {p.introducer : p \in proper})
  IN  [n \in DOMAIN order |-> CHOOSE p \in proper : p.introducer = order[n]]
=============================================================================
