-------------------------- MODULE StatementBinding --------------------------
(***************************************************************************)
(* The binder of whole statements: which statements a text holds, those in *)
(* the definitions of WITH included, and where the clauses of each are     *)
(* (layout_ir/statement.rs, layout_ir/migration_ddl.rs and                 *)
(* LayoutDocument::bind of layout_ir.rs).                                  *)
(***************************************************************************)
EXTENDS QueryBinding

(***************************************************************************)
(* Statements.  The kind is what the parser calls a statement; its body    *)
(* begins at the shallowest word of that kind.                             *)
(***************************************************************************)
Heads   == {"SELECT", "INSERT", "UPDATE", "DELETE", "MERGE", "VALUES"}
Objects == {"MATERIALIZED", "VIEW", "TABLE", "INDEX", "SEQUENCE", "TRIGGER", "POLICY", "STATISTICS", "RULE", "TYPE"}

KindOf(s, from, to) ==
  LET depth == s.depth[from]
      head  == Find(s, from, to, depth, Heads)
  IN  CASE Kind(s, from) = "CREATE" -> Kind(s, Find(s, from, to, depth, Objects))
        [] Kind(s, from) = "ALTER"  -> IF Find(s, from, to, depth, {"RENAME"}) # 0 THEN "RENAME" ELSE "ALTER"
        [] IsKind(s, from, {"LOCK", "EXPLAIN", "COPY"}) -> Kind(s, from)
        [] OTHER -> IF head = 0 THEN "SELECT" ELSE Kind(s, head)

BodyStart(s, from, to, kind) ==
  LET words == {i \in from .. to - 1 : Kind(s, i) = kind}
      level == Min({s.depth[i] : i \in words})
  IN  IF kind \notin Heads THEN from ELSE Min({i \in words : s.depth[i] = level})

Statement(s, from, to, nested) ==
  LET kind == KindOf(s, from, to)
  IN  [start |-> from, end |-> to, depth |-> s.depth[from], kind |-> kind, nested |-> nested, body |-> BodyStart(s, from, to, kind)]

HasWith(s, st) == LET f == FirstSyntax(s, st.start, st.body) IN f < st.body /\ Kind(s, f) = "WITH"

(* Definitions: the parenthesis within five tokens of their AS.            *)
Definitions(s, st) ==
  LET Body(as) == Least({i \in as + 1 .. Min({as + 5, st.body - 1}) : s.depth[i] = st.depth /\ Kind(s, i) = "("}, 0)
      opens    == {Body(as) : as \in {i \in st.start + 1 .. st.body - 1 : s.depth[i] = st.depth /\ Kind(s, i) = "AS"}} \ {0}
      order    == Ascending(s, opens)
  IN  [n \in DOMAIN order |-> Opened(s, order[n])]

(* A view with a WITH of its own is followed by its query.                 *)
ViewQuery(s, st) ==
  LET as == Find(s, st.start, st.end, st.depth, {"AS"})
  IN  FirstSyntax(s, as + 1, st.end)

ViewEnd(s, st) == Least(StatementSuffix(s, st, ViewQuery(s, st), st.depth), st.end)

Further(s, st) ==
  IF st.kind \in {"VIEW", "MATERIALIZED"} /\ Kind(s, ViewQuery(s, st)) = "WITH"
    THEN <<Statement(s, ViewQuery(s, st), ViewEnd(s, st), TRUE)>>
  ELSE IF ~ HasWith(s, st) THEN <<>>
  ELSE LET definitions == Definitions(s, st)
       IN  [n \in DOMAIN definitions |-> Statement(s, definitions[n][1] + 1, definitions[n][2], TRUE)]

RECURSIVE StatementsFrom(_, _)
StatementsFrom(s, pending) ==
  IF pending = <<>> THEN <<>>
  ELSE <<Head(pending)>> \o StatementsFrom(s, Tail(pending) \o Further(s, Head(pending)))

WithBlock(s, st) == [with |-> st.start, definitions |-> Definitions(s, st), body |-> st.body]

(***************************************************************************)
(* SELECT, INSERT, UPDATE, DELETE, MERGE.                                  *)
(***************************************************************************)
Word(s, st, from, to, kinds) == Find(s, from, to, st.depth, kinds)
Clear(s, st, from, to)       == First(from, to, LAMBDA i : s.depth[i] = st.depth /\ Kind(s, i) = "(" /\ s.close[i] < to)

ClauseWords == {"WHERE", "GROUP", "HAVING", "WINDOW", "ORDER", "LIMIT", "OFFSET", "FETCH", "FOR"}

BindSelect(s, st) ==
  LET united == AnyIn(s, st.start, st.end, LAMBDA i : s.depth[i] = st.depth /\ IsKind(s, i, SetOperators))
      from   == IF united THEN 0 ELSE FindFrom(s, st.body + 1, st.end, st.depth)
      end    == Until(Word(s, st, from + 1, st.end, ClauseWords), st.end)
  IN  [query |-> st.body, from |-> BindSources(s, from, end, st.depth)]

BindConflict(s, st, start, boundary) ==
  LET action == Word(s, st, start + 2, boundary, {"DO"})
      update == Follows(s, action, {"UPDATE"})
      set    == IF update THEN Word(s, st, action + 1, boundary, {"SET"}) ELSE 0
  IN  [start |-> start, action |-> action, update |-> update, set |-> set,
       target |-> Clear(s, st, start + 2, action), filter |-> Word(s, st, start + 2, action, {"WHERE"}),
       where |-> IF set = 0 THEN 0 ELSE Word(s, st, set + 1, boundary, {"WHERE"})]

BindInsert(s, st) ==
  LET from      == st.body + 1
      returning == Word(s, st, from, st.end, {"RETURNING"})
      boundary  == Until(returning, st.end)
      conflict  == First(from, boundary, LAMBDA i : s.depth[i] = st.depth /\ Kind(s, i) = "ON" /\ Follows(s, i, {"CONFLICT"}))
      end       == IF conflict # 0 THEN conflict ELSE boundary
      values    == Word(s, st, from, end, {"VALUES"})
      default   == Word(s, st, from, end, {"DEFAULT"})
      query     == Word(s, st, from, end, {"SELECT"})
      kind      == IF default # 0 /\ values = default + 1 THEN "default" ELSE IF values # 0 THEN "values" ELSE "query"
      source    == CASE kind = "default" -> default [] kind = "values" -> values [] OTHER -> query
      opens     == IF values = 0 THEN <<>>
                   ELSE Ascending(s, {i \in values + 1 .. end - 1 : s.depth[i] = st.depth /\ Kind(s, i) = "(" /\ s.close[i] < end})
  IN  [start |-> st.start, end |-> st.end, depth |-> st.depth, body |-> st.body, kind |-> kind, source |-> source,
       target |-> Clear(s, st, from, source), rows |-> [n \in DOMAIN opens |-> Opened(s, opens[n])], returning |-> returning,
       conflict |-> IF conflict = 0 THEN <<>> ELSE <<BindConflict(s, st, conflict, boundary)>>]

BindUpdate(s, st) ==
  LET set       == Word(s, st, st.body + 1, st.end, {"SET"})
      where     == Word(s, st, set + 1, st.end, {"WHERE"})
      returning == Word(s, st, set + 1, st.end, {"RETURNING"})
      end       == IF where # 0 THEN where ELSE Until(returning, st.end)
  IN  [start |-> st.start, end |-> st.end, depth |-> st.depth, set |-> set, where |-> where, returning |-> returning,
       from |-> BindSources(s, FindFrom(s, set + 1, end, st.depth), end, st.depth)]

BindDelete(s, st) ==
  LET Of(kind)  == Word(s, st, st.body + 1, st.end, {kind})
      returning == Of("RETURNING")
      end       == IF Of("WHERE") # 0 THEN Of("WHERE") ELSE Until(returning, st.end)
  IN  [start |-> st.start, end |-> st.end, depth |-> st.depth, where |-> Of("WHERE"), returning |-> returning,
       using |-> BindSources(s, Of("USING"), end, st.depth)]

BindBranchOfMerge(s, st, start, end) ==
  LET then   == Word(s, st, start + 1, end, {"THEN"})
      action == then + 1
      values == Word(s, st, action + 1, end, {"VALUES"})
  IN  [start |-> start, end |-> end, then |-> then, condition |-> Word(s, st, start + 1, then, {"AND"}),
       kind   |-> CASE Kind(s, action) = "UPDATE" -> "update" [] Kind(s, action) = "INSERT" -> "insert" [] OTHER -> "other",
       set    |-> Word(s, st, action + 1, end, {"SET"}), values |-> values,
       target |-> Clear(s, st, action + 1, values), open |-> IF values = 0 THEN 0 ELSE Word(s, st, values + 1, end, {"("})]

BindMerge(s, st) ==
  LET returning == Word(s, st, st.body + 1, st.end, {"RETURNING"})
      boundary  == Until(returning, st.end)
      using     == Word(s, st, st.body + 1, boundary, {"USING"})
      whens     == Ascending(s, {i \in using + 1 .. boundary - 1 : s.depth[i] = st.depth /\ Kind(s, i) = "WHEN"})
      on        == FindLast(s, using + 1, whens[1], st.depth, {"ON"})
      To(n)     == IF n < Len(whens) THEN whens[n + 1] ELSE boundary
  IN  [start |-> st.start, end |-> st.end, depth |-> st.depth, on |-> on, returning |-> returning,
       source |-> BindRelationSource(s, using, on, st.depth),
       branches |-> [n \in DOMAIN whens |-> BindBranchOfMerge(s, st, whens[n], To(n))]]

(***************************************************************************)
(* Predicates of statements.                                               *)
(***************************************************************************)
AtStatement(block, introducer, end) == Clause(introducer, Until(end, block.end), block.depth, block.depth)
OfSources(sources) == UNION {JoinPredicates(source, source.depth) : source \in Range(sources)}

InsertPredicates(block) ==
  UNION {AtStatement(block, c.filter, c.action) \cup AtStatement(block, c.where, block.returning) : c \in Range(block.conflict)}

MergePredicates(block) ==
  OfSources(<<block.source>>) \cup AtStatement(block, block.on, block.branches[1].start)
  \cup UNION {AtStatement(block, b.condition, b.then) : b \in Range(block.branches)}

CheckPredicates(s, checks) ==
  {[PredicateAt(c.introducer, c.close, s.depth[c.open] + 1, c.indent) EXCEPT !.start = c.open + 1, !.close = c.close] :
     c \in Range(checks)}

(***************************************************************************)
(* Views, tables, indexes, ALTER TABLE.                                    *)
(***************************************************************************)
BindView(s, st) ==
  LET query == ViewQuery(s, st)
      as    == Find(s, st.start, st.end, st.depth, {"AS"})
      Head1(kind) == Word(s, st, st.start + 1, as, {kind})
      heads == IF st.kind = "VIEW" THEN <<>> ELSE <<Head1("USING"), Head1("TABLESPACE"), Head1("WITH")>>
      tail  == IF ViewEnd(s, st) = st.end THEN <<>> ELSE <<ViewEnd(s, st)>>
  IN  [start |-> st.start, end |-> st.end, depth |-> st.depth, query |-> query,
       clauses |-> SelectSeq(heads, LAMBDA i : i # 0) \o <<query>> \o tail]

ColumnKinds == {"CONSTRAINT", "PRIMARY", "CHECK", "FOREIGN", "UNIQUE", "EXCLUDE", "LIKE"}

BindChecks(s, from, to, depth, indent) ==
  LET words == Ascending(s, {i \in from .. to - 1 : s.depth[i] = depth /\ Kind(s, i) = "CHECK"})
      Check(i) == LET open == FirstSyntax(s, i + 1, to) IN [introducer |-> i, open |-> open, close |-> s.close[open], indent |-> indent]
  IN  [n \in DOMAIN words |-> Check(words[n])]

SequenceWords == {"INCREMENT", "MINVALUE", "MAXVALUE", "START", "CACHE", "CYCLE", "OWNED"}
SequenceClauses(s, from, to, depth) ==
  LET No(i) == i > from /\ Kind(s, i - 1) = "NO"
      words == {i \in from .. to - 1 : s.depth[i] = depth /\ IsKind(s, i, SequenceWords)}
  IN  Ascending(s, {IF No(i) THEN i - 1 ELSE i : i \in words})

BindIdentity(s, from, to, depth) ==
  LET introducer == Find(s, from, to, depth, {"GENERATED"})
      identity   == Find(s, introducer, to, depth, {"IDENTITY"})
      options    == IF identity + 1 < to /\ Follows(s, identity, {"("}) THEN Opened(s, identity + 1) ELSE <<>>
  IN  IF introducer = 0 \/ identity = 0 THEN <<>>
      ELSE <<[introducer |-> introducer, options |-> options,
              clauses |-> IF options = <<>> THEN <<>> ELSE SequenceClauses(s, options[1] + 1, options[2], depth + 1)]>>

TableItemAt(s, range, depth) ==
  [start |-> range[1], end |-> range[2], column |-> ~ IsKind(s, FirstSyntax(s, range[1], range[2]), ColumnKinds),
   identity |-> BindIdentity(s, range[1], range[2], depth), checks |-> BindChecks(s, range[1], range[2], depth, depth)]

(* A partition states its bounds, and may have no elements before them.    *)
BindTable(s, st) ==
  LET Has(words) == Word(s, st, st.start + 1, st.end, words)
      bound  == Has({"FOR"})
      listed == Has({"("}) # 0 /\ (bound = 0 \/ Has({"("}) < bound)
      open   == IF listed THEN Has({"("}) ELSE 0
      close  == IF listed THEN s.close[open] ELSE 0
      items  == IF listed THEN ItemRanges(s, open + 1, close, st.depth + 1) ELSE <<>>
      after  == {i \in (IF listed THEN close ELSE Has({"TABLE"})) + 1 .. st.end - 1 : s.depth[i] = st.depth}
      split  == \E i \in after : Kind(s, i) = "PARTITION" /\ Follows(s, i, {"BY"})
      Is(i)  == \/ IsKind(s, i, {"FOR", "INHERITS", "USING", "TABLESPACE"})
                \/ Kind(s, i) = "PARTITION" /\ split
                \/ Kind(s, i) = "ON" /\ Follows(s, i, {"COMMIT"})
      withs  == {i \in after : Kind(s, i) = "WITH" /\ Follows(s, i, {"("}) /\ Kind(s, i - 1) # "VALUES"}
  IN  [start |-> st.start, end |-> st.end, depth |-> st.depth, close |-> close,
       items |-> [n \in DOMAIN items |-> TableItemAt(s, items[n], st.depth + 1)],
       clauses |-> Ascending(s, {i \in after : Is(i)} \cup (IF withs = {} THEN {} ELSE {Max(withs)}))]

OwnedList(s, st, keyword) ==
  LET open == Word(s, st, keyword + 1, st.end, {"("})
  IN  IF keyword = 0 THEN <<>> ELSE <<keyword, open, s.close[open], ItemRanges(s, open + 1, s.close[open], st.depth + 1)>>

BindIndex(s, st) ==
  LET on   == Word(s, st, st.start + 1, st.end, {"ON"})
      open == Word(s, st, on + 1, st.end, {"("})
      After(kind) == Word(s, st, s.close[open] + 1, st.end, {kind})
  IN  [start |-> st.start, end |-> st.end, depth |-> st.depth, open |-> open, close |-> s.close[open],
       keys |-> ItemRanges(s, open + 1, s.close[open], st.depth + 1), tablespace |-> After("TABLESPACE"), where |-> After("WHERE"),
       include |-> OwnedList(s, st, After("INCLUDE")), with |-> OwnedList(s, st, After("WITH"))]

(* FOREIGN, REFERENCES and what follows them begin lines.                  *)
ForeignKey(s, st, from, to) ==
  LET references == Word(s, st, from, to, {"REFERENCES"})
      Clauses(i) == IsKind(s, i, {"ON", "MATCH", "INITIALLY", "DEFERRABLE"})
  IN  IF Word(s, st, from, to, {"FOREIGN"}) = 0 THEN <<>>
      ELSE Ascending(s, {Word(s, st, from, to, {"FOREIGN"}), references}
                        \cup {i \in references + 1 .. to - 1 : s.depth[i] = st.depth /\ Clauses(i)})

BindAction(s, st, range) ==
  LET first  == FirstSyntax(s, range[1], range[2])
      option == Kind(s, first) = "SET" /\ Follows(s, first, {"("})
  IN  [start |-> range[1], end |-> range[2], group |-> Kind(s, first), identity |-> BindIdentity(s, range[1], range[2], st.depth),
       options |-> IF option THEN <<[close |-> s.close[first + 1], items |-> ItemRanges(s, first + 2, s.close[first + 1], st.depth + 1)]>> ELSE <<>>,
       references |-> ForeignKey(s, st, range[1], range[2]), checks |-> BindChecks(s, range[1], range[2], st.depth, st.depth + 1)]

(* The relation is the operand behind TABLE.                               *)
BindAlter(s, st) ==
  LET relation == Word(s, st, st.start, st.end, {"x"})
      actions  == ItemRanges(s, FirstSyntax(s, relation + 1, st.end), st.end, st.depth)
  IN  [start |-> st.start, end |-> st.end, depth |-> st.depth, actions |-> [n \in DOMAIN actions |-> BindAction(s, st, actions[n])]]

(***************************************************************************)
(* Utilities.                                                              *)
(***************************************************************************)
TriggerClauses(s, st) ==
  LET timing == Word(s, st, st.start, st.end, {"BEFORE", "AFTER", "INSTEAD"})
      on     == Word(s, st, timing + 1, st.end, {"ON"})
  IN  Ascending(s, ({timing, on} \cup {i \in on + 1 .. st.end - 1 : s.depth[i] = st.depth /\ IsKind(s, i, {"REFERENCING", "FOR", "EXECUTE"})}
                    \cup {Word(s, st, on + 1, st.end, {"WHEN"})}) \ {0})

BindUtility(s, st) ==
  LET mode    == Word(s, st, st.start, st.end, {"IN"})
      last    == Max({i \in st.start .. st.end - 1 : ~ IsComment(s.tok[i])})
      nowait  == IF Kind(s, last) = "NOWAIT" THEN last ELSE 0
      targets == Word(s, st, st.start, st.end, {"x"})
  IN  [kind |-> st.kind, start |-> st.start, end |-> st.end, depth |-> st.depth, mode |-> mode, nowait |-> nowait,
       targets |-> <<targets, IF mode # 0 THEN mode ELSE Until(nowait, st.end)>>,
       lists   |-> IF st.kind = "TYPE" THEN {i \in st.start .. st.end - 1 : s.depth[i] = st.depth /\ Kind(s, i) = "("} ELSE {},
       clauses |-> CASE st.kind = "RENAME"   -> <<Word(s, st, st.start, st.end, {"RENAME"})>>
                     [] st.kind = "SEQUENCE" -> SequenceClauses(s, st.start, st.end, st.depth)
                     [] st.kind = "TRIGGER"  -> TriggerClauses(s, st)
                     [] OTHER -> <<>>]

(***************************************************************************)
(* The whole layout of a text of one statement.                            *)
(***************************************************************************)
Bodies(s) ==
  LET last == IF Kind(s, Size(s)) = ";" THEN Size(s) ELSE Size(s) + 1
  IN  StatementsFrom(s, <<Statement(s, 1, last, FALSE)>>)

(* The statements of a text, each with its clauses.                        *)
BindStatements(s, all) ==
  LET top == all[1]
      Of(kinds, Bind(_, _)) ==
        LET own == SelectSeq(all, LAMBDA st : st.kind \in kinds /\ ~ (st.nested /\ st.kind = "SELECT"))
        IN  [n \in DOMAIN own |-> Bind(s, own[n])]
      laid    == SelectSeq(all, LAMBDA st : ~ (st.nested /\ st.kind = "SELECT"))
      withs   == SelectSeq(all, LAMBDA st : HasWith(s, st))
      written == {st.start - 1 : st \in {st \in Range(all) : st.nested}}
      range   == IF top.kind \in {"VIEW", "MATERIALIZED"} THEN [top EXCEPT !.start = ViewQuery(s, top), !.end = ViewEnd(s, top)] ELSE top
  IN  [queries |-> BindQueries(s, top), operations |-> BindSetOperations(s, range),
       withs   |-> [n \in DOMAIN withs |-> WithBlock(s, withs[n])],
       spans   |-> [n \in DOMAIN laid |-> [start |-> laid[n].start, end |-> laid[n].end, depth |-> laid[n].depth]],
       selects |-> Of({"SELECT"}, BindSelect), inserts |-> Of({"INSERT"}, BindInsert), updates |-> Of({"UPDATE"}, BindUpdate),
       deletes |-> Of({"DELETE"}, BindDelete), merges |-> Of({"MERGE"}, BindMerge),
       values  |-> Of({"VALUES"}, LAMBDA t, st : BindValues(t, st.body, st.end, <<>>)) \o ValuesRelations(s, written),
       views   |-> Of({"VIEW", "MATERIALIZED"}, BindView), tables |-> Of({"TABLE"}, BindTable), indexes |-> Of({"INDEX"}, BindIndex),
       alters  |-> Of({"ALTER"}, BindAlter),
       utilities |-> Of({"LOCK", "EXPLAIN", "COPY", "RENAME", "SEQUENCE", "TRIGGER", "POLICY", "STATISTICS", "RULE", "TYPE"}, BindUtility)]

StatementPredicates(s, b) ==
  UNION ({InsertPredicates(i) : i \in Range(b.inserts)} \cup {MergePredicates(m) : m \in Range(b.merges)}
         \cup {OfSources(u.from) \cup AtStatement(u, u.where, u.returning) : u \in Range(b.updates)}
         \cup {OfSources(d.using) \cup AtStatement(d, d.where, d.returning) : d \in Range(b.deletes)}
         \cup {AtStatement(i, i.where, 0) : i \in Range(b.indexes)}
         \cup {CheckPredicates(s, i.checks) : i \in UNION {Range(t.items) : t \in Range(b.tables)}}
         \cup {CheckPredicates(s, a.checks) : a \in UNION {Range(t.actions) : t \in Range(b.alters)}})

(* What is bound within and across the statements.                         *)
Binding(s) ==
  LET With(b) == b @@ [windows |-> BindWindows(s, b.queries), calls |-> BindCalls(s), arrays |-> BindArrays(s), inLists |-> BindInLists(s),
                       predicates |-> BindPredicates(s, UNION {QueryPredicates(q) : q \in Range(b.queries)}, StatementPredicates(s, b))]
  IN  With(BindStatements(s, Bodies(s)))
=============================================================================
