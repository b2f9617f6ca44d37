-------------------------- MODULE ExpressionLayout --------------------------
(***************************************************************************)
(* Expressions: which ranges of a statement are expressions and who owns   *)
(* them (semantic_block/expressions.rs), which of those expand at their    *)
(* connectors, and how booleans and CASEs break lines (semantic_block.rs). *)
(***************************************************************************)
EXTENDS ListLayout

(***************************************************************************)
(* The owners, in the order in which the code collects them.               *)
(***************************************************************************)
Owner(kind, start, end, depth, indent) ==
  [kind |-> kind, start |-> start, end |-> end, depth |-> depth, indent |-> indent]

FirstOf(indices, otherwise) == Least({i \in indices : i # 0}, otherwise)
Introducers(sources)        == {sources[n].introducer : n \in DOMAIN sources}

Returning(block) ==
  IF block.returning = 0 THEN <<>>
  ELSE <<Owner("returning", block.returning + 1, block.end, block.depth, block.depth + 1)>>

Assignments(block, set, end) ==
  IF set = 0 THEN <<>> ELSE <<Owner("assignment", set + 1, end, block.depth, block.depth + 1)>>

RowItems(s, rows, indent) ==
  [n \in DOMAIN rows |-> Owner("values", rows[n][1] + 1, rows[n][2], s.depth[rows[n][1]] + 1, indent + 1)]

QueryTargets(query) ==
  <<Owner("target", query.list, FirstBoundary(query.clauses, query.end), query.depth, query.indent + 1)>>

OfInsert(s, insert) ==
  Returning(insert)
  \o FlattenSeq([n \in DOMAIN insert.conflict |->
       Assignments(insert, insert.conflict[n].set, FirstOf({insert.conflict[n].where, insert.returning}, insert.end))])
  \o RowItems(s, insert.rows, insert.depth)

OfUpdate(update) ==
  Assignments(update, update.set, IF update.from # <<>> THEN update.from[1].introducer
                                  ELSE FirstOf({update.where, update.returning}, update.end))
  \o Returning(update)

OfBranch(s, merge, branch) ==
  CASE branch.kind = "update" -> Assignments(merge, branch.set, branch.end)
    [] branch.kind = "insert" -> RowItems(s, <<<<branch.open, s.close[branch.open]>>>>, merge.depth + 1)
    [] OTHER -> <<>>

OfMerge(s, merge) ==
  FlattenSeq([n \in DOMAIN merge.branches |-> OfBranch(s, merge, merge.branches[n])]) \o Returning(merge)

Each(blocks, Of(_)) == FlattenSeq([n \in DOMAIN blocks |-> Of(blocks[n])])

Owners(s) ==
  Each(s.b.queries, QueryTargets) \o Each(s.b.inserts, LAMBDA i : OfInsert(s, i)) \o Each(s.b.updates, OfUpdate)
  \o Each(s.b.deletes, Returning) \o Each(s.b.merges, LAMBDA m : OfMerge(s, m))
  \o Each(s.b.values, LAMBDA v : RowItems(s, v.rows, v.depth))

(***************************************************************************)
(* The expression of an item: behind the `=` of an assignment, without     *)
(* comments in front, up to its alias or its closing parenthesis.          *)
(***************************************************************************)
ExpressionEnd(s, from, to, depth) ==
  LET alias == Least({i \in from .. to - 1 : s.depth[i] = depth /\ Kind(s, i) = "AS"}, to)
  IN  IF /\ from < alias /\ from \in DOMAIN s.close /\ s.close[from] < alias
         /\ \A i \in s.close[from] + 1 .. alias - 1 : IsComment(s.tok[i])
        THEN s.close[from] + 1 ELSE alias

ExpressionStart(s, owner, item) ==
  LET first  == FirstSyntax(s, item.start, item.end)
      equals == Least({i \in first .. item.end - 1 : s.depth[i] = owner.depth /\ Kind(s, i) = "="}, 0)
  IN  IF owner.kind = "assignment" /\ equals # 0 THEN FirstSyntax(s, equals + 1, item.end) ELSE first

Expression(s, owner, start, end) ==
  Owner(owner.kind, start, ExpressionEnd(s, start, end, owner.depth), owner.depth, owner.indent) @@ [close |-> 0]

ListExpressions(s, owner) ==
  IF owner.start >= owner.end THEN <<>>
  ELSE LET Of(items) == [n \in DOMAIN items |-> Expression(s, owner, ExpressionStart(s, owner, items[n]), items[n].end)]
       IN  Of(SplitListItems(s, owner.start, owner.end, owner.depth))

Predicate(p) == Owner("predicate", p.start, p.end, p.depth, p.indent + 1) @@ [close |-> p.close]

(* The innermost range around a token says how deep its parts are.         *)
EnclosingRootIndent(s, i, ranges) ==
  LET around == {n \in DOMAIN ranges : ranges[n].start <= i /\ i < ranges[n].end}
      Span(n) == ranges[n].end - ranges[n].start
      inner  == Min({n \in around : \A m \in around : Span(n) <= Span(m)})
  IN  IF around = {} THEN s.depth[i] ELSE ranges[inner].indent + Less(s.depth[i], ranges[inner].depth)

(* The parts of a CASE: conditions behind WHEN, results behind THEN, ELSE. *)
CaseExpressions(s, c, ranges) ==
  LET end     == s.endOf[c]
      marks   == {i \in OutsideCase(s, c + 1, end) : IsKind(s, i, {"WHEN", "THEN", "ELSE"})} \cup {end}
      indent  == EnclosingRootIndent(s, c, ranges) + 1
      Next(m) == Min({n \in marks : n > m})
      Part(m) == LET kind == IF Kind(s, m) = "WHEN" THEN "condition" ELSE "result"
                 IN  Expression(s, Owner(kind, 0, 0, s.depth[c], indent), FirstSyntax(s, m + 1, Next(m)), Next(m))
      parts   == Ascending(s, marks \ {end})
  IN  [n \in DOMAIN parts |-> Part(parts[n])]

ArgumentExpressions(s, list, ranges) ==
  IF ~ IsFunctionCallOpen(s, list.open) THEN <<>>
  ELSE ListExpressions(s, Owner("argument", list.open + 1, list.close, s.depth[list.open] + 1,
                                EnclosingRootIndent(s, list.open, ranges) + 1))

(* In source order. Of ranges that coincide one stays: the sort is         *)
(* unstable and does not promise which. It is the first collected here,    *)
(* as it is with the library's sort of up to twenty ranges.                *)
InOrder(all) ==
  LET fresh == {n \in DOMAIN all : \A m \in 1 .. n - 1 : <<all[m].start, all[m].end>> # <<all[n].start, all[n].end>>}
      Place(n) == Cardinality({m \in fresh : \/ all[m].start < all[n].start
                                             \/ all[m].start = all[n].start /\ all[m].end <= all[n].end})
  IN  [place \in 1 .. Cardinality(fresh) |-> all[CHOOSE n \in fresh : Place(n) = place]]

OwnedExpressionRanges(s) ==
  LET Proper(ranges) == SelectSeq(ranges, LAMBDA r : r.start < r.end)
      listed == [n \in DOMAIN s.b.predicates |-> Predicate(s.b.predicates[n])]
                \o Proper(Each(Owners(s), LAMBDA o : ListExpressions(s, o)))
      cases  == Fold(LAMBDA ranges, c : ranges \o Proper(CaseExpressions(s, c, ranges)), listed, Ascending(s, DOMAIN s.endOf))
  IN  InOrder(Proper(Fold(LAMBDA ranges, list : ranges \o Proper(ArgumentExpressions(s, list, ranges)), cases, s.lists)))

(***************************************************************************)
(* The depth of a range's own connectors, inside parentheses around all of *)
(* it but outside subqueries.                                              *)
(***************************************************************************)
RECURSIVE Unwrapped(_, _, _)
Unwrapped(s, from, to) ==
  IF from < to /\ Kind(s, from) = "(" /\ from \in DOMAIN s.close /\ s.close[from] + 1 = to
    THEN Unwrapped(s, FirstSyntax(s, from + 1, to - 1), to - 1) ELSE <<from, to>>

IsConnector(s, i) == IsKind(s, i, {"AND", "OR"})

BooleanRootDepth(s, range) ==
  LET inside   == Unwrapped(s, range.start, range.end)
      Queried(i) == \E n \in DOMAIN s.b.queries : LET q == s.b.queries[n]
                      IN range.start <= q.select /\ q.end <= range.end /\ q.select <= i /\ i < q.end
      depths   == {s.depth[i] : i \in {i \in OutsideCase(s, inside[1], inside[2]) : IsConnector(s, i) /\ ~ Queried(i)}}
  IN  IF inside[1] >= inside[2] \/ depths = {} THEN None
      ELSE IF Min(depths) = s.depth[inside[1]] \/ Kind(s, inside[1]) = "NOT" THEN Min(depths) ELSE None

(***************************************************************************)
(* Which ranges expand at their connectors.  The condition of a join is    *)
(* kept as a candidate until its header's line is known.                   *)
(***************************************************************************)
HasAuthoredRootBreak(s, range, root) ==
  \/ Lines(s, range.start) > 0
  \/ AnyIn(s, range.start + 1, range.end, LAMBDA i : s.depth[i] = root /\ IsConnector(s, i) /\ Lines(s, i) > 0)

BooleanRange(s, range) ==
  LET root     == BooleanRootDepth(s, range)
      outside  == OutsideCase(s, range.start, range.end)
      nested   == AnyIn(s, range.start, range.end, LAMBDA i : s.depth[i] > range.depth /\ IsKind(s, i, {"SELECT", "WITH"}))
      both     == {"AND", "OR"} \subseteq {Kind(s, i) : i \in outside}
      natural  == [Group(range.indent * INDENT_WIDTH + CompactWidth(s, range.start, range.end)) EXCEPT
                     !.complex = root # None /\ (both \/ nested), !.hard = HasHardBoundary(s, range.start, range.end)]
      authored == range.kind = "predicate" /\ HasAuthoredRootBreak(s, range, root)
      owner    == {n \in DOMAIN s.b.predicates : s.b.predicates[n].start = range.start /\ s.b.predicates[n].close = 0}
      predicate == s.b.predicates[Min(owner)]
  IN  range @@ [root |-> root,
                expanded   |-> Expands(s, [natural EXCEPT !.forced = authored]) /\ (range.kind = "predicate" \/ root # None),
                introducer |-> IF owner = {} THEN 0 ELSE predicate.introducer,
                joinOn     |-> IF owner # {} /\ predicate.kind = "ON" THEN predicate.introducer ELSE 0,
                preserve   |-> authored /\ ~ Expands(s, natural)]

BooleanRanges(s) ==
  SelectSeq([n \in DOMAIN s.expressions |-> BooleanRange(s, s.expressions[n])], LAMBDA r : r.expanded \/ r.joinOn # 0)

(***************************************************************************)
(* One range: its indentation, its opener, its start, its connectors, the  *)
(* groups inside, its wrapper and, beyond the hard width, its comparisons. *)
(***************************************************************************)
JoinFits(s, plan, r) ==
  /\ r.joinOn # 0 /\ ~ r.expanded
  /\ LineWidthThrough(s, plan, r.joinOn, r.end, Less(r.indent, 1)) <= s.soft

RootIndent(plan, r) ==
  LET relative == RelativeIndent(plan, r.start, r.indent)
  IN  IF r.introducer = 0 THEN Max({relative, LineIndentFor(plan, r.start, relative)})
      ELSE LineIndentFor(plan, r.introducer, Less(r.indent, 1)) + 1

(* `WHERE (` stays on one line when the group is the whole predicate.      *)
JoinsOpener(s, plan, r, indent) ==
  /\ s.inline /\ r.introducer # 0 /\ Kind(s, r.start) = "("
  /\ s.close[r.start] = Max({i \in r.start .. r.end - 1 : ~ IsComment(s.tok[i])})
  /\ Lines(s, r.start) <= 1 /\ plan.lines[r.start] <= 1
  /\ LineWidthThrough(s, plan, r.introducer, r.start + 1, Less(indent, 1)) <= s.soft

Unbreak(plan, i) == [plan EXCEPT !.lines[i] = 0]

RangeStart(s, plan, r, indent, joined) ==
  CASE joined -> Unbreak(plan, r.start)
    [] ~ joined /\ r.kind \in {"assignment", "condition", "result"} -> plan
    [] OTHER -> BreakBefore(plan, r.start, Clamp(Lines(s, r.start)), indent)

At(s, r, indent, i) == indent + Less(s.depth[i], r.depth)
Kept(s, r, i)       == r.preserve /\ Lines(s, i) = 0

(* Comments on lines of their own before a connector move with it.         *)
Connector(s, plan, r, indent, i) ==
  LET trivia == Min({j \in r.start .. i : \A k \in j + 1 .. i : IsComment(s.tok[k - 1]) /\ Lines(s, k) = 1})
      before == IF trivia < i THEN BreakBefore(SetIndent(plan, trivia, i, At(s, r, indent, i)), trivia, 1, At(s, r, indent, i))
                ELSE plan
  IN  IF ~ IsConnector(s, i) \/ r.root # s.depth[i] \/ Kept(s, r, i) THEN plan
      ELSE BreakBefore(before, i, Clamp(Lines(s, i)), At(s, r, indent, i))

Subquery(s, plan, r, indent, open, query) ==
  LET close   == s.close[open]
      desired == indent + 1 + Less(s.depth[open], r.depth)
  IN  IF ~ Breaks(plan, query) THEN plan
      ELSE BreakBefore(RebaseIndents(plan, query, close, LineIndentFor(plan, query, desired), desired),
                       close, 1, At(s, r, indent, close))

Connectors(s, open) ==
  {i \in OutsideCase(s, open + 1, s.close[open]) : s.depth[i] = s.depth[open] + 1 /\ IsConnector(s, i)}

WrapsRoot(s, r, open) ==
  /\ r.root # None /\ r.root >= s.depth[open] + 1
  /\ \A i \in r.start .. open - 1 : IsComment(s.tok[i]) \/ Kind(s, i) = "("
  /\ \A i \in s.close[open] + 1 .. r.end - 1 : IsComment(s.tok[i]) \/ Kind(s, i) = ")"

(* Which parentheses inside open a block of their own.                     *)
GroupExpands(s, plan, r, indent, open) ==
  LET close == s.close[open]
      own   == Connectors(s, open)
      kinds == {Kind(s, i) : i \in own}
      sql   == AnyIn(s, open + 1, close, LAMBDA i : /\ s.depth[i] > s.depth[open] /\ IsKind(s, i, {"SELECT", "WITH"})
                                                   /\ Breaks(plan, i))
      rootAnd == r.root # None /\ \E i \in OutsideCase(s, r.start, r.end) : s.depth[i] = r.root /\ Kind(s, i) = "AND"
  IN  /\ own # {} \/ WrapsRoot(s, r, open) \/ sql
      /\ \/ open = r.start /\ close + 1 = r.end
         \/ WrapsRoot(s, r, open) \/ sql
         \/ rootAnd /\ "OR" \in kinds
         \/ Cardinality(own) > 1
         \/ HasHardBoundary(s, open + 1, close)
         \/ indent * INDENT_WIDTH + CompactWidth(s, open, close + 1) > s.soft

PlanGroup(s, plan, r, indent, open) ==
  LET close  == s.close[open]
      opened == IF open + 1 < close THEN BreakBefore(plan, open + 1, 1, indent + Less(s.depth[open] + 1, r.depth)) ELSE plan
      moved  == {i \in Connectors(s, open) : ~ (r.root = s.depth[i] /\ Kept(s, r, i))}
      broken == Fold(LAMBDA p, i : BreakBefore(p, i, Clamp(Lines(s, i)), At(s, r, indent, i)), opened, Ascending(s, moved))
  IN  BreakBefore(broken, close, 1, At(s, r, indent, close))

Parenthesis(s, plan, r, indent, open) ==
  IF Kind(s, open) # "(" \/ open \notin DOMAIN s.close THEN plan
  ELSE LET close == s.close[open]
           query == FirstSyntax(s, open + 1, close)
       IN  CASE close >= r.end -> plan
             [] close < r.end /\ query < close /\ IsKind(s, query, {"SELECT", "WITH"}) -> Subquery(s, plan, r, indent, open, query)
             [] OTHER -> IF GroupExpands(s, plan, r, indent, open) THEN PlanGroup(s, plan, r, indent, open) ELSE plan

Comparison == {"<", "=", ">", "IS"}

WrapComparison(s, plan, r, indent, i) ==
  LET start == LineStart(plan, i)
      end   == Least(BreaksIn(plan, i + 1, r.end), r.end)
  IN  IF ~ IsKind(s, i, Comparison) \/ start = i \/ LineWidthThrough(s, plan, i, end, indent) <= s.hard THEN plan
      ELSE BreakBefore(plan, i, Clamp(Lines(s, i)), LineIndentFor(plan, start, indent) + 1)

PlanBoolean(s, plan, r) ==
  LET first   == RootIndent(plan, r)
      joined  == JoinsOpener(s, plan, r, first)
      indent  == IF joined THEN Less(first, 1) ELSE first
      inside  == Ascending(s, OutsideCase(s, r.start, r.end))
      started == RangeStart(s, plan, r, indent, joined)
      grouped == Fold(LAMBDA p, i : Parenthesis(s, Connector(s, p, r, indent, i), r, indent, i), started, inside)
      closed  == IF r.close = 0 THEN grouped ELSE BreakBefore(grouped, r.close, 1, Less(indent, 1))
  IN  IF JoinFits(s, plan, r) THEN plan
      ELSE Fold(LAMBDA p, i : WrapComparison(s, p, r, indent, i), closed, inside)

PlanBooleans(s, plan) == Fold(LAMBDA p, r : PlanBoolean(s, p, r), plan, s.booleans)

(***************************************************************************)
(* CASE blocks.                                                            *)
(***************************************************************************)
PlanCase(s, plan, c) ==
  LET end   == s.endOf[c]
      base  == LineIndentFor(plan, c, s.depth[c])
      marks == {i \in OutsideCase(s, c + 1, end) : IsKind(s, i, {"WHEN", "ELSE"})}
  IN  BreakBefore(Fold(LAMBDA p, i : BreakBefore(p, i, 1, base + 1), SetIndent(plan, c, end + 1, base), Ascending(s, marks)),
                  end, 1, base)

PlanCases(s, plan) == Fold(LAMBDA p, c : PlanCase(s, p, c), plan, Ascending(s, s.tall))

(* A result that leaves its line beyond the hard width moves below it.     *)
PlanCaseResult(s, plan, r) ==
  LET start == LineStart(plan, r.start)
      end   == Least(BreaksIn(plan, r.start + 1, r.end), r.end)
  IN  IF \/ r.kind # "result" \/ BreaksIn(plan, 1, r.start + 1) = {} \/ start = r.start
         \/ LineWidthThrough(s, plan, r.start, end, plan.at[start]) <= s.hard
        THEN plan ELSE BreakBefore(plan, r.start, 1, plan.at[start] + 1)

PlanCaseResults(s, plan) == Fold(LAMBDA p, r : PlanCaseResult(s, p, r), plan, s.expressions)

PlanCommentContinuations(s, plan) ==
  Fold(LAMBDA p, r : IF r.start > 1 /\ IsComment(s.tok[r.start - 1]) /\ Lines(s, r.start) > 0
                       THEN BreakBefore(p, r.start, 1, r.indent) ELSE p, plan, s.expressions)

(* Brackets inside groups that moved follow the line they open on.         *)
RebaseList(plan, open, close) ==
  LET above == BreaksIn(plan, 1, open + 1)
  IN  IF ~ Breaks(plan, close) \/ above = {} THEN plan
      ELSE RebaseIndents(plan, open + 1, close + 1, plan.at[close], plan.at[Max(above)])

RebaseLists(s, plan) ==
  LET opens(pairs) == Ascending(s, {p[1] : p \in pairs})
  IN  Fold(LAMBDA p, open : RebaseList(p, open, CloseOf(s, open)), plan, opens(s.b.arrays) \o opens(s.b.inLists))
=============================================================================
