----------------------------- MODULE ListLayout -----------------------------
(***************************************************************************)
(* Lists: which delimited lists a statement has, which of them expand, and *)
(* where their items begin lines (semantic_block/lists.rs, with the CASE   *)
(* ranges of semantic_block.rs that decide about items).                   *)
(*                                                                         *)
(* `s.b` is the layout the binder found.  An index of 0 stands for what is *)
(* absent, ranges are half-open, pairs of parentheses are <<open, close>>. *)
(***************************************************************************)
EXTENDS Rendering

Ascending(s, S)    == SelectSeq([i \in DOMAIN s.tok |-> i], LAMBDA i : i \in S)
IsKind(s, i, kinds) == s.tok[i].k \in kinds
Fold(Step(_, _), start, seq) == FoldLeft(Step, start, seq)
FirstSyntax(s, from, to) == Least({i \in from .. to - 1 : ~ IsComment(s.tok[i])}, to)
PreviousSyntax(s, i)     == Most({j \in 1 .. i - 1 : ~ IsComment(s.tok[j])}, 0)

(***************************************************************************)
(* CASE.                                                                   *)
(***************************************************************************)
OutsideCase(s, from, to) ==
  {i \in from .. to - 1 : \A c \in DOMAIN s.endOf : ~ (from <= c /\ c <= i /\ i <= s.endOf[c])}

(* AND and OR met without one of `marks` between them. *)
Mixed(s, indices, marks) ==
  \E i, j \in indices : /\ Kind(s, i) = "AND" /\ Kind(s, j) = "OR"
                        /\ \A m \in marks : ~ (Min({i, j}) < m /\ m < Max({i, j}))

CaseExpands(s, c) ==
  LET end     == s.endOf[c]
      outside == OutsideCase(s, c + 1, end)
  IN  \/ Cardinality({i \in c + 1 .. end - 1 : Kind(s, i) = "WHEN"}) > 1
      \/ Mixed(s, outside, {i \in outside : IsKind(s, i, {"WHEN", "THEN", "ELSE"})})
      \/ HasHardBoundary(s, c + 1, end)
      \/ Authored(s, c + 1, end + 1)
      \/ CompactWidth(s, c, end + 1) > s.soft

(***************************************************************************)
(* Items.                                                                  *)
(***************************************************************************)
CommasAt(s, from, to, depth) == {i \in from .. to - 1 : Kind(s, i) = "," /\ s.depth[i] = depth}
MixesBooleans(s, from, to, depth) ==
  LET outside == OutsideCase(s, from, to) IN Mixed(s, outside, outside \cap CommasAt(s, from, to, depth))

HoldsQuery(s, from, to, depth) == AnyIn(s, from, to, LAMBDA i : Kind(s, i) = "SELECT" /\ s.depth[i] > depth)

ItemIsComplex(s, from, to, depth) ==
  \/ \E c \in s.tall : from <= c /\ c < to
  \/ \E n \in DOMAIN s.lists : s.lists[n].expanded /\ from <= s.lists[n].open /\ s.lists[n].close < to
  \/ MixesBooleans(s, from, to, depth)
  \/ HoldsQuery(s, from, to, depth)

Item(s, from, to, comma, depth) ==
  [start |-> from, end |-> to, comma |-> comma, complex |-> ItemIsComplex(s, from, to, depth)]

(* A comment behind a comma on its line belongs to the item before it.     *)
TrailsComma(s, comma) == comma < Size(s) /\ IsComment(s.tok[comma + 1]) /\ Lines(s, comma + 1) = 0

SplitListItems(s, from, to, depth) ==
  LET Step(cut, comma) ==
        LET end == IF TrailsComma(s, comma) THEN comma + 2 ELSE comma
        IN  [items |-> Append(cut.items, Item(s, cut.next, end, comma, depth)), next |-> Max({end, comma + 1})]
      Rest(cut) == IF cut.next < to THEN Append(cut.items, Item(s, cut.next, to, 0, depth)) ELSE cut.items
  IN  Rest(Fold(Step, [items |-> <<>>, next |-> from], Ascending(s, CommasAt(s, from, to, depth))))

ItemsAuthored(s, items) == \E n \in DOMAIN items : Lines(s, items[n].start) > 0
HasComplex(items)       == \E n \in DOMAIN items : items[n].complex
ItemWidth(s, item)      == CompactWidth(s, item.start, item.end) + (IF item.comma >= item.end THEN 1 ELSE 0)

(***************************************************************************)
(* Lines of items: <<item, line breaks>>.  Authored lines are kept and     *)
(* split at the hard width and around complex items.                       *)
(***************************************************************************)
(* Seeded fault: an authored line is kept however long it is. *)
SplitsBefore_Never(s, items, n, width) == FALSE

SplitsBefore(s, items, n, width) ==
  items[n].complex \/ items[n - 1].complex \/ width + 1 + ItemWidth(s, items[n]) > s.hard

AuthoredListLines(s, items, indent) ==
  LET Step(cut, n) ==
        LET breaks == Lines(s, items[n].start)
            fresh  == indent * INDENT_WIDTH + ItemWidth(s, items[n])
        IN  CASE n = 1 \/ breaks > 0 -> [lines |-> Append(cut.lines, <<n, IF n > 1 /\ breaks > 1 THEN 2 ELSE 1>>), width |-> fresh]
              [] n > 1 /\ breaks = 0 /\ SplitsBefore(s, items, n, cut.width) ->
                   [lines |-> Append(cut.lines, <<n, 1>>), width |-> fresh]
              [] OTHER -> [cut EXCEPT !.width = @ + 1 + ItemWidth(s, items[n])]
  IN  Fold(Step, [lines |-> <<>>, width |-> 0], [n \in DOMAIN items |-> n]).lines

ListLines(s, items, indent) ==
  IF ItemsAuthored(s, items) THEN AuthoredListLines(s, items, indent) ELSE [n \in DOMAIN items |-> <<n, 1>>]

BreakItems(s, plan, items, indent) ==
  Fold(LAMBDA p, line : BreakBefore(p, items[line[1]].start, line[2], indent),
       BreakBefore(plan, items[1].start, 1, indent), Tail(ListLines(s, items, indent)))

CommaIndent(plan, item, indent) ==
  IF item.comma = 0 THEN plan ELSE [plan EXCEPT !.indents[item.comma] = indent]

IndentItems(plan, items, indent) ==
  Fold(LAMBDA p, item : CommaIndent(SetIndent(p, item.start, item.end, indent), item, indent), plan, items)

IndentItemsInContext(s, plan, items, depth, indent) ==
  Fold(LAMBDA p, item : CommaIndent(SetContextualIndent(s, p, item.start, item.end, depth, indent), item, indent), plan, items)

(* What follows a line comment within an item stays at the list's indent.  *)
IndentCommented(s, plan, items, indent) ==
  Fold(LAMBDA p, item : IF AnyIn(s, item.start, item.end, LAMBDA i : Kind(s, i) = "--")
                          THEN SetIndent(p, item.start, item.end, indent) ELSE p, plan, items)

(***************************************************************************)
(* Lists introduced by a keyword: ORDER BY, SET, RETURNING, ...            *)
(***************************************************************************)
Expanded(plan, expanded) == [plan |-> plan, expanded |-> expanded]

PlanKeywordListWithPrefix(s, plan, prefix, keyword, end, depth, owner, force) ==
  LET listEnd == Least({i \in keyword + 1 .. end - 1 : s.depth[i] = depth /\ Kind(s, i) = ";"}, end)
      indent  == owner + 1
      ItemsExpand(items) ==
        Expands(s, [Group(owner * INDENT_WIDTH + CompactWidth(s, prefix, listEnd)) EXCEPT
          !.complex = HasComplex(items),
          !.hard    = HasListHardBoundary(s, items[1].start, listEnd),
          !.forced  = ItemsAuthored(s, items) \/ (force /\ (Kind(s, keyword) = "SET" \/ Len(items) > 1))])
      Plan(items) ==
        IF items = <<>> \/ ~ ItemsExpand(items) THEN Expanded(plan, FALSE)
        ELSE Expanded(IndentCommented(s, BreakItems(s, IndentItems(plan, items, indent), items, indent), items, indent), TRUE)
  IN  IF keyword + 1 >= listEnd THEN Expanded(plan, FALSE) ELSE Plan(SplitListItems(s, keyword + 1, listEnd, depth))

PlanKeywordListAtIndent(s, plan, keyword, end, depth, owner, force) ==
  PlanKeywordListWithPrefix(s, plan, keyword, keyword, end, depth, owner, force)

PlanKeywordList(s, plan, keyword, end, depth, force) ==
  PlanKeywordListAtIndent(s, plan, keyword, end, depth, depth, force)

(***************************************************************************)
(* A delimited list whose items the binder named.                          *)
(***************************************************************************)
OwnedItem(s, range, close) ==
  LET depth == s.depth[range[1]]
  IN  [Item(s, range[1], range[2], 0, depth) EXCEPT
         !.comma = Least(CommasAt(s, range[1], Min({range[2] + 1, close}), depth), 0)]

PlanOwnedDelimitedList(s, plan, owner, close, ranges, indent) ==
  LET ItemsExpand(items) ==
        Expands(s, [Group(indent * INDENT_WIDTH + CompactWidth(s, owner[1], owner[2])) EXCEPT
          !.complex = HasComplex(items), !.forced = ItemsAuthored(s, items),
          !.hard = HasListHardBoundary(s, items[1].start, close)])
      Broken(items) == BreakItems(s, IndentItems(plan, items, indent + 1), items, indent + 1)
      Plan(items)   == IF items = <<>> \/ ~ ItemsExpand(items) THEN plan
                       ELSE BreakBefore(IndentCommented(s, Broken(items), items, indent + 1), close, 1, indent)
  IN  Plan([n \in DOMAIN ranges |-> OwnedItem(s, ranges[n], close)])

(***************************************************************************)
(* Select lists.                                                           *)
(***************************************************************************)
OrderedBoundaries(s, clauses, end) == Ascending(s, Range(clauses) \ {0}) \o <<end>>
NextAfter(clauses, clause, end)    == Least({i \in Range(clauses) : i > clause}, end)
FirstBoundary(clauses, end)        == Least(Range(clauses) \ {0}, end)
QueryIndent(query, plan) ==
  IF query.wrapper = <<>> THEN query.indent
  ELSE LineIndentFor(plan, query.wrapper[1], Less(query.indent, 1)) + 1

(* A complex item has its line for itself. *)
IsolateComplex(plan, items, indent) ==
  Fold(LAMBDA p, n : IF n > 1 /\ (items[n].complex \/ items[n - 1].complex)
                       THEN BreakBefore(p, items[n].start, 1, indent) ELSE p,
       plan, [n \in DOMAIN items |-> n])

PlanSelectList(s, done, query) ==
  LET base   == QueryIndent(query, done.plan)
      end    == FirstBoundary(query.clauses, query.end)
      indent == base + 1
      ItemsExpand(items) ==
        Expands(s, [Group(base * INDENT_WIDTH + CompactWidth(s, query.select, end)) EXCEPT
          !.complex = HasComplex(items), !.forced = ItemsAuthored(s, items),
          !.hard = HasListHardBoundary(s, items[1].start, end),
          !.unavoidable = Len(items) = 1 /\ RangeIsUnavoidablyOverHard(s, items[1].start, items[1].end, indent)])
      Broken(placed, items) == IsolateComplex(BreakItems(s, placed, items, indent), items, indent)
      Plan(placed, items) ==
        IF ItemsExpand(items)
          THEN [plan |-> IndentCommented(s, Broken(placed, items), items, indent), selects |-> done.selects \cup {query.select}]
          ELSE [done EXCEPT !.plan = placed]
      Itemised(items) == IF items = <<>> THEN done ELSE Plan(IndentItemsInContext(s, done.plan, items, query.depth, indent), items)
  IN  IF query.list >= end THEN done ELSE Itemised(SplitListItems(s, query.list, end, query.depth))

PlanSelectLists(s, plan) ==
  Fold(LAMBDA done, query : PlanSelectList(s, done, query), [plan |-> plan, selects |-> {}], s.b.queries)

(***************************************************************************)
(* Which parentheses and brackets hold lists, and which lists expand.      *)
(***************************************************************************)
IsFunctionCallOpen(s, open) == LET p == PreviousSyntax(s, open) IN p # 0 /\ ReadsAsCall(s.tok, p)

Calls(s, open)   == {c \in s.b.calls : c.open = open}
Headers(s, open) == {h \in s.b.headers : h.open = open}
Usings(s, open)  == {u \in s.b.usings : u.open = open}

(* `start` of an owned list: where the line it would share begins.         *)
CompactStart(s, lists, open) ==
  CASE Headers(s, open) # {} ->
         LET h == CHOOSE h \in Headers(s, open) : TRUE
         IN  Most({lists[n].close : n \in {m \in DOMAIN lists : /\ lists[m].expanded /\ h.prefix <= lists[m].open
                                                                /\ lists[m].close < open}}, h.prefix)
    [] Headers(s, open) = {} /\ Calls(s, open) # {} -> (CHOOSE c \in Calls(s, open) : TRUE).start
    [] OTHER -> LET owned == {o.start : o \in {o \in s.b.owned : o.open = open}}
                IN  IF owned = {} \/ 0 \in owned THEN Max({1, open - 1}) ELSE CHOOSE start \in owned : TRUE

ListOpens(s) ==
  {i \in DOMAIN s.tok : /\ IsKind(s, i, {"(", "["})
                        /\ \/ IsFunctionCallOpen(s, i)
                           \/ \E o \in s.b.owned \cup s.b.headers \cup s.b.usings : o.open = i
                           \/ \E pair \in s.b.arrays \cup s.b.inLists : pair[1] = i}

CloseOf(s, open) ==
  IF open \in DOMAIN s.close THEN s.close[open] ELSE Least({p[2] : p \in {p \in s.b.arrays : p[1] = open}}, 0)

ListAt(s, lists, open) ==
  LET close    == CloseOf(s, open)
      inner    == s.depth[open] + 1
      headers  == Headers(s, open)
      indent   == IF headers = {} THEN s.depth[open] ELSE (CHOOSE h \in headers : TRUE).indent
      group    == [Group(indent * INDENT_WIDTH + CompactWidth(s, CompactStart(s, lists, open), close + 1)) EXCEPT
                     !.complex = \/ \E c \in s.tall : open < c /\ s.endOf[c] < close
                                 \/ HoldsQuery(s, open + 1, close, s.depth[open])
                                 \/ MixesBooleans(s, open + 1, close, inner),
                     !.hard    = HasListHardBoundary(s, open + 1, close),
                     !.forced  = Authored(s, open + 1, close),
                     !.unavoidable = /\ CommasAt(s, open + 1, close, inner) = {}
                                     /\ RangeIsUnavoidablyOverHard(s, open + 1, close, s.depth[open] + 1)]
      bases    == {u.indent : u \in Usings(s, open)}
  IN  [open |-> open, close |-> close, expanded |-> Expands(s, group),
       base |-> IF bases # {} THEN CHOOSE n \in bases : TRUE ELSE IF headers # {} THEN indent ELSE None,
       pairs |-> UNION {c.pairs : c \in Calls(s, open)}]

ParenthesizedLists(s) ==
  LET Holds(open) == /\ open + 1 < CloseOf(s, open)
                     /\ AnyIn(s, open + 1, CloseOf(s, open), LAMBDA i : s.depth[i] = s.depth[open] + 1)
  IN  Fold(LAMBDA lists, open : IF Holds(open) THEN Append(lists, ListAt(s, lists, open)) ELSE lists,
           <<>>, Ascending(s, ListOpens(s)))

(***************************************************************************)
(* Keys and values of a JSON constructor share an item when they fit.      *)
(* `list.pairs` is {} for other calls, else the end of the arguments and   *)
(* the ORDER that follows them.                                            *)
(***************************************************************************)
KeyValue(s, key, value, indent) ==
  LET firstKey   == LET f == FirstSyntax(s, key.start, key.end) IN IF f = key.end THEN key.start ELSE f
      firstValue == LET f == FirstSyntax(s, value.start, value.end) IN IF f = value.end THEN value.start ELSE f
      boundary   == key.complex \/ AnyIn(s, firstKey + 1, firstValue + 1, LAMBDA i : IsComment(s.tok[i]) \/ Lines(s, i) > 1)
      opens      == {s.lists[n].open + 1 : n \in {n \in DOMAIN s.lists : /\ s.lists[n].expanded /\ value.start <= s.lists[n].open
                                                                         /\ s.lists[n].close < value.end}}
                    \cup {c + 1 : c \in {c \in s.tall : value.start <= c /\ s.endOf[c] < value.end}}
      end        == Least(opens, value.end)
      width      == indent * INDENT_WIDTH + CompactWidth(s, firstKey, end)
                    + (IF end = value.end /\ value.comma >= value.end THEN 1 ELSE 0)
  IN  IF ~ boundary /\ width <= s.hard
        THEN <<[start |-> key.start, end |-> value.end, comma |-> value.comma, complex |-> key.complex \/ value.complex]>>
        ELSE <<key, value>>

KeyValueItems(s, items, indent) ==
  FlattenSeq([n \in 1 .. Len(items) \div 2 |-> KeyValue(s, items[2 * n - 1], items[2 * n], indent)])

PlanOrderBy(s, plan, list, order, indent) ==
  IF order = 0 THEN plan
  ELSE LET broken == BreakBefore(SetIndent(plan, order, list.close, indent), order, Lines(s, order), indent)
       IN  PlanKeywordListWithPrefix(s, broken, order, FirstSyntax(s, order + 1, Size(s) + 1), list.close,
                                     s.depth[list.open] + 1, indent, FALSE).plan

PlanParenthesizedList(s, plan, list) ==
  LET inner  == s.depth[list.open] + 1
      pairs  == IF list.pairs = {} THEN [end |-> list.close, order |-> 0] ELSE CHOOSE p \in list.pairs : TRUE
      base   == IF list.base # None THEN list.base ELSE IndentFor(plan, list.open, s.depth[list.open])
      indent == base + 1
      Broken(items) == BreakItems(s, IndentItemsInContext(s, plan, items, inner, indent), items, indent)
      Plan(items)   == IndentCommented(s, PlanOrderBy(s, BreakBefore(Broken(items), list.close, 1, base), list, pairs.order, indent),
                                       items, indent)
      Paired(split) == CASE split = <<>> -> plan
                         [] split # <<>> /\ list.pairs = {} -> Plan(split)
                         [] OTHER -> Plan(KeyValueItems(s, split, indent))
  IN  IF ~ list.expanded THEN plan ELSE Paired(SplitListItems(s, list.open + 1, pairs.end, inner))

PlanParenthesizedLists(s, plan) == Fold(LAMBDA p, list : PlanParenthesizedList(s, p, list), plan, s.lists)
=============================================================================
