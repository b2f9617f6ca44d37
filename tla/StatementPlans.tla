--------------------------- MODULE StatementPlans ---------------------------
(***************************************************************************)
(* Statements other than queries: INSERT, UPDATE, DELETE, MERGE and the    *)
(* utilities (semantic_block/statements.rs), VALUES, views, tables,        *)
(* indexes and ALTER TABLE (semantic_block/ddl.rs).                        *)
(***************************************************************************)
EXTENDS QueryLayout

Present(boundaries) == SelectSeq(boundaries, LAMBDA i : i # 0)
IntroducerOf(sources) == IF sources = <<>> THEN 0 ELSE sources[1].introducer
WidthOf(s, block)    == block.depth * INDENT_WIDTH + CompactWidth(s, block.start, block.end)
AuthoredIn(s, block) == Authored(s, block.start + 1, block.end)
HoldsExpanded(s, block) == \E r \in Range(s.booleans) : r.expanded /\ block.start <= r.start /\ r.end <= block.end

ListOf(s, done, keyword, end, depth, force) ==
  IF keyword = 0 THEN done
  ELSE [PlanKeywordList(s, done.plan, keyword, end, depth, force) EXCEPT !.expanded = @ \/ done.expanded]

(***************************************************************************)
(* UPDATE and DELETE.  A statement on one line stays there when it fits.   *)
(***************************************************************************)
StatementGroup(s, block, complex) == [Group(WidthOf(s, block)) EXCEPT !.complex = complex]

PlanUpdate(s, plan, update) ==
  LET from     == IntroducerOf(update.from)
      expanded == Expands(s, StatementGroup(s, update, update.from # <<>> \/ HoldsExpanded(s, update)))
      setEnd   == IF from # 0 THEN from ELSE FirstOf({update.where, update.returning}, update.end)
      assigned == ListOf(s, Expanded(plan, expanded), update.set, setEnd, update.depth, FALSE)
      Clauses(listed) ==
        PlanClauseBoundaries(s, listed.plan, Present(<<update.set, from, update.where, update.returning>>), update.depth, listed.expanded)
  IN  IF ~ expanded /\ ~ AuthoredIn(s, update) THEN plan
      ELSE PlanRelationSources(s, Clauses(ListOf(s, assigned, update.returning, update.end, update.depth, FALSE)), update.from)

PlanDelete(s, plan, delete) ==
  LET expanded == Expands(s, StatementGroup(s, delete, delete.using # <<>> \/ HoldsExpanded(s, delete)))
      listed   == ListOf(s, Expanded(plan, expanded), delete.returning, delete.end, delete.depth, WidthOf(s, delete) > s.soft)
      Clauses(done) ==
        PlanClauseBoundaries(s, done.plan, Present(<<IntroducerOf(delete.using), delete.where, delete.returning>>), delete.depth, done.expanded)
  IN  IF ~ expanded /\ ~ AuthoredIn(s, delete) THEN plan ELSE PlanRelationSources(s, Clauses(listed), delete.using)

(***************************************************************************)
(* MERGE.                                                                  *)
(***************************************************************************)
BranchLines(s, branch) == IF branch.start > 1 /\ IsComment(s.tok[branch.start - 1]) THEN 1 ELSE 2

MergeBranch(s, plan, merge, branch) ==
  LET begun == BreakBefore(plan, branch.start, BranchLines(s, branch), merge.depth)
      rows  == BreakBefore(begun, branch.values, 1, merge.depth + 1)
  IN  CASE branch.kind = "update" -> PlanKeywordList(s, begun, branch.set, branch.end, merge.depth, TRUE).plan
        [] branch.kind = "insert" -> IF \E n \in DOMAIN s.lists : s.lists[n].open = branch.open
                                       THEN SetIndent(rows, branch.open, s.close[branch.open] + 1, merge.depth + 1) ELSE rows
        [] OTHER -> begun

PlanMerge(s, plan, merge) ==
  LET source   == merge.source
      sourced  == PlanRelationSource(s, BreakBefore(plan, source.introducer, 1, merge.depth), source)
      matched  == IF source.joins # <<>> \/ ~ source.plain THEN BreakBefore(sourced, merge.on, 1, merge.depth) ELSE sourced
      branched == Fold(LAMBDA p, branch : MergeBranch(s, p, merge, branch), matched, merge.branches)
  IN  IF merge.returning = 0 THEN branched
      ELSE PlanKeywordList(s, BreakBefore(branched, merge.returning, 1, merge.depth), merge.returning, merge.end, merge.depth, FALSE).plan

(***************************************************************************)
(* INSERT.  The queries it holds begin lines of their own.                 *)
(***************************************************************************)
OwnedOpens(insert) ==
  {insert.target} \cup {insert.rows[n][1] : n \in DOMAIN insert.rows} \cup {insert.conflict[n].target : n \in DOMAIN insert.conflict}

PlanRows(s, plan, insert) ==
  IF Len(insert.rows) > 1 \/ (insert.rows # <<>> /\ Lines(s, insert.rows[1][1]) > 0)
    THEN Fold(LAMBDA p, row : BreakBefore(SetIndent(p, row[1], row[2] + 1, insert.depth + 1), row[1], 1, insert.depth + 1), plan, insert.rows)
    ELSE plan

PlanConflict(s, plan, insert, conflict) ==
  LET clauses == PlanClauseBoundaries(s, plan, Present(<<conflict.action, conflict.set, conflict.where>>), insert.depth, conflict.update)
  IN  IF ~ conflict.update \/ conflict.set = 0 THEN clauses
      ELSE PlanKeywordList(s, clauses, conflict.set, FirstOf({conflict.where, insert.returning}, insert.end), insert.depth,
                           Lines(s, conflict.set) = 0).plan

PlanInsert(s, done, insert) ==
  LET lists    == \E n \in DOMAIN s.lists : s.lists[n].expanded /\ s.lists[n].open \in OwnedOpens(insert)
      updates  == \E n \in DOMAIN insert.conflict : insert.conflict[n].update
      group    == [StatementGroup(s, insert, lists \/ updates \/ insert.kind = "query") EXCEPT
                     !.forced = \E n \in DOMAIN insert.rows : Lines(s, insert.rows[n][1]) > 0]
      listed   == ListOf(s, Expanded(done.plan, Expands(s, group) \/ lists), insert.returning, insert.end, insert.depth,
                         WidthOf(s, insert) > s.soft)
      bounds   == Present(<<insert.source>> \o [n \in DOMAIN insert.conflict |-> insert.conflict[n].start] \o <<insert.returning>>)
      Clauses(list) == PlanClauseBoundaries(s, list.plan, bounds, insert.depth, list.expanded)
      Plan(list) ==
        IF list.expanded \/ \E n \in DOMAIN bounds : Lines(s, bounds[n]) > 0
          THEN [plan |-> Fold(LAMBDA p, conflict : PlanConflict(s, p, insert, conflict), PlanRows(s, Clauses(list), insert), insert.conflict),
                selects |-> done.selects \cup (IF insert.kind = "query" THEN {insert.source} ELSE {})]
          ELSE [done EXCEPT !.plan = Clauses(list)]
  IN  IF ~ Expands(s, group) /\ ~ AuthoredIn(s, insert) THEN done ELSE Plan(listed)

(***************************************************************************)
(* Utilities.                                                              *)
(***************************************************************************)
Direct(s, block, kinds) ==
  Ascending(s, {i \in block.start + 1 .. block.end - 1 : s.depth[i] = block.depth /\ IsKind(s, i, kinds)})

BreakEach(plan, indices, indent) == Fold(LAMBDA p, i : BreakBefore(p, i, 1, indent), plan, indices)
OnlyFirst(seq)                   == SubSeq(seq, 1, Min({1, Len(seq)}))

PlanLock(s, plan, lock) ==
  LET Clauses(list) ==
        PlanClauseBoundaries(s, list.plan, Present(<<IF lock.mode # 0 THEN lock.mode ELSE lock.nowait>>), lock.depth,
                             list.expanded \/ WidthOf(s, lock) > s.soft)
  IN  Clauses(PlanKeywordListWithPrefix(s, plan, lock.start, lock.targets[1] - 1, lock.targets[2], lock.depth, lock.depth, FALSE))

Heads == {"SELECT", "INSERT", "UPDATE", "DELETE", "MERGE", "WITH"}

PlanUtility(s, plan, utility) ==
  LET expanded == AuthoredIn(s, utility) \/ WidthOf(s, utility) > s.soft
      Each1(kinds) == BreakEach(plan, Direct(s, utility, kinds), utility.depth)
  IN  CASE utility.kind = "LOCK"    -> PlanLock(s, plan, utility)
        [] utility.kind = "EXPLAIN" -> BreakEach(plan, OnlyFirst(Direct(s, utility, Heads)), utility.depth)
        [] utility.kind = "RULE"    -> Each1({"WHERE", "DO"})
        [] utility.kind = "RENAME"     /\ expanded -> PlanClauseBoundaries(s, plan, utility.clauses, utility.depth, TRUE)
        [] utility.kind \in {"SEQUENCE", "TRIGGER"} /\ expanded ->
             Fold(LAMBDA p, i : BreakBefore(p, i, Lines(s, i), utility.depth), plan, utility.clauses)
        [] utility.kind = "POLICY"     /\ expanded -> Each1({"USING", "WITH"})
        [] utility.kind = "STATISTICS" /\ expanded -> Each1({"ON", "FROM"})
        [] utility.kind = "COPY"       /\ expanded -> BreakEach(plan, OnlyFirst(Direct(s, utility, {"TO", "FROM"})), utility.depth)
        [] OTHER -> plan

(***************************************************************************)
(* VALUES.                                                                 *)
(***************************************************************************)
PlanValues(s, plan, values) ==
  LET suffix  == SelectSeq(OrderedBoundaries(s, values.clauses, values.end), LAMBDA i : i < values.end)
      rows    == {values.rows[n][1] : n \in DOMAIN values.rows}
      parent  == IF values.wrapper = <<>> THEN 0 ELSE LineIndentFor(plan, values.wrapper[1], Less(values.depth, 1))
      keyword == IF values.wrapper = <<>> THEN values.depth ELSE parent + 1
      wrapped == IF values.wrapper = <<>> THEN plan
                 ELSE BreakBefore(BreakBefore(plan, values.keyword, 1, keyword), values.wrapper[2], 1, parent)
      placed  == IF values.rows = <<>> THEN wrapped
                 ELSE SetIndent(wrapped, values.keyword + 1, Last(values.rows)[2] + 1, keyword + 1)
      broken  == Fold(LAMBDA p, row : BreakBefore(SetIndent(p, row[1], row[2] + 1, keyword + 1), row[1], 1, keyword + 1), placed, values.rows)
      order   == values.clauses.order
      listed  == IF order = 0 THEN broken
                 ELSE PlanKeywordListAtIndent(s, broken, order + 1, NextAfter(values.clauses, order, values.end), values.depth, keyword, FALSE).plan
  IN  IF /\ Len(values.rows) <= 1 /\ WidthOf(s, values) <= s.soft
         /\ \A i \in rows \cup Range(suffix) : Lines(s, i) = 0
        THEN plan ELSE PlanClauseBoundaries(s, listed, suffix, keyword, TRUE)

(***************************************************************************)
(* Tables, indexes, ALTER TABLE.                                           *)
(***************************************************************************)
PlanIdentity(s, plan, identity, indent) ==
  LET open == identity.options[1]  close == identity.options[2]
      begun  == BreakBefore(plan, identity.introducer, Lines(s, identity.introducer), indent)
      placed == SetIndent(begun, open + 1, close, indent + 1)
      broken == Fold(LAMBDA p, i : BreakBefore(p, i, Lines(s, i), indent + 1), placed, identity.clauses)
  IN  IF /\ ~ Authored(s, open + 1, close)
         /\ CompactWidth(s, identity.introducer, close + 1) + indent * INDENT_WIDTH <= s.soft
        THEN plan ELSE BreakBefore(broken, close, 1, indent)

PlanIdentities(s, plan, identities, indent) ==
  Fold(LAMBDA p, identity : IF identity.options = <<>> THEN p ELSE PlanIdentity(s, p, identity, indent), plan, identities)

PlanCheck(s, plan, check, indent) ==
  IF \E r \in Range(s.booleans) : r.start = check.open + 1 /\ r.end = check.close THEN plan
  ELSE BreakBefore(plan, check.introducer, Lines(s, check.introducer), indent)

TableItem(s, plan, table, n) ==
  LET item   == table.items[n]
      indent == table.depth + 1
      apart  == n > 1 /\ table.items[n - 1].column /\ ~ item.column
      begun  == BreakBefore(SetIndent(plan, item.start, item.end, indent), item.start, IF apart THEN 2 ELSE 1, indent)
      listed == PlanIdentities(s, begun, item.identity, indent)
  IN  IF indent * INDENT_WIDTH + CompactWidth(s, item.start, item.end) <= s.soft THEN listed
      ELSE Fold(LAMBDA p, check : PlanCheck(s, p, check, indent + 1), listed, item.checks)

PlanTable(s, plan, table) ==
  LET items  == Fold(LAMBDA p, n : TableItem(s, p, table, n), plan, [n \in DOMAIN table.items |-> n])
      closed == IF table.close = 0 THEN items ELSE BreakBefore(items, table.close, 1, table.depth)
  IN  PlanClauseBoundaries(s, closed, table.clauses, table.depth, TRUE)

PlanRanges(plan, ranges, close, depth) ==
  BreakBefore(Fold(LAMBDA p, range : BreakBefore(SetIndent(p, range[1], range[2], depth + 1), range[1], 1, depth + 1), plan, ranges),
              close, 1, depth)

(* INCLUDE and WITH of an index: <<keyword, open, close, items>> or <<>>.  *)
PlanOptions(plan, options, depth) ==
  IF options # <<>> /\ Len(options[4]) > 1 THEN PlanRanges(plan, options[4], options[3], depth) ELSE plan

PlanIndex(s, plan, index) ==
  LET keys     == \/ Len(index.keys) > 1 \/ Lines(s, index.open + 1) > 0
                  \/ CompactWidth(s, index.open, index.close + 1) + index.depth * INDENT_WIDTH > s.soft
      secondary == index.include # <<>> \/ index.with # <<>> \/ index.tablespace # 0
      keyed    == IF keys THEN PlanRanges(plan, index.keys, index.close, index.depth) ELSE plan
      Word(options) == IF options = <<>> THEN 0 ELSE options[1]
      clauses  == PlanClauseBoundaries(s, keyed, Present(<<Word(index.include), Word(index.with), index.tablespace, index.where>>),
                                       index.depth, TRUE)
  IN  IF AuthoredIn(s, index) \/ keys \/ secondary \/ WidthOf(s, index) > s.soft
        THEN PlanOptions(PlanOptions(clauses, index.include, index.depth), index.with, index.depth) ELSE plan

CheckExpands(s, check) ==
  \/ AnyIn(s, check.open + 1, check.close, LAMBDA i : s.depth[i] > s.depth[check.open] /\ IsConnector(s, i))
  \/ check.indent * INDENT_WIDTH + CompactWidth(s, check.introducer, check.close + 1) > s.soft

AlterAction(s, plan, table, n) ==
  LET action  == table.actions[n]
      indent  == table.depth + 1
      changed == n > 1 /\ table.actions[n - 1].group # action.group
      begun   == BreakBefore(SetIndent(plan, action.start, action.end, indent), action.start,
                             IF changed THEN 2 ELSE Clamp(Lines(s, action.start)), indent)
      listed  == Fold(LAMBDA p, o : PlanOwnedDelimitedList(s, p, <<action.start, action.end>>, o.close, o.items, indent),
                      PlanIdentities(s, begun, action.identity, indent + 1), action.options)
  IN  Fold(LAMBDA p, i : SetIndent(BreakBefore(p, i, Lines(s, i), indent + 1), i, action.end, indent + 1), listed, action.references)

PlanAlter(s, plan, table) ==
  LET checks == UNION {Range(table.actions[n].checks) : n \in DOMAIN table.actions}
  IN  IF /\ Len(table.actions) = 1 /\ ~ AuthoredIn(s, table) /\ WidthOf(s, table) <= s.soft
         /\ \A check \in checks : ~ CheckExpands(s, check)
        THEN plan ELSE Fold(LAMBDA p, n : AlterAction(s, p, table, n), plan, [n \in DOMAIN table.actions |-> n])

(* Views: the query, the check option and, of a materialized view, its     *)
(* access method, tablespace, options and data clause.                     *)
PlanView(s, plan, view) == PlanClauseBoundaries(s, plan, view.clauses, view.depth, TRUE)
=============================================================================
