----------------------------- MODULE RoutineBody -----------------------------
(***************************************************************************)
(* format_single_routine (src/src/formatter/procedural): a PL/pgSQL body   *)
(* is read as scanner tokens into nodes, aligned with what PostgreSQL's    *)
(* own PL/pgSQL parser found, laid out by a machine of frames, and then    *)
(* read and laid out once more.                                            *)
(*                                                                         *)
(* The words are those the reader tells apart.  label is <<name>>; x and v *)
(* are names and other text of expressions; varchar is a type with the     *)
(* preferred spelling character varying; FOR stands also for FOREACH;      *)
(* RAISE for every statement that is laid out without being parsed; NULL   *)
(* for every statement the reader does not know.  A statement of SELECT is *)
(* formatted, one of GRANT kept as it is, and with one of CALL the         *)
(* formatter fails.  note is a comment that ends where it is closed.       *)
(***************************************************************************)
EXTENDS Integers, SequencesExt, FiniteSets

CONSTANT Bodies    (* the bodies formatted: [units, text]                  *)

Query      == {"SELECT", "GRANT", "CALL"}
InCase     == {"WHEN", "THEN", "ELSE"}
Expression == {"x", "v", "varchar", "character", "varying", "(", ")", "CASE", "END"} \cup InCase
Word       == Expression \cup Query \cup
  {"DECLARE", "BEGIN", "EXCEPTION", "IF", "ELSIF", "ELSEIF", "WHILE", "FOR", "LOOP", "label", ";",
   "INTO", "STRICT", ":=", "ASSERT", "RETURN", "QUERY", "RAISE", "NULL", "COMMIT", "ROLLBACK", "note"}

(* A token: the line boundaries before it and, where it begins a line, the *)
(* indentation of that line.                                               *)
Token == [word : Word, breaks : 0 .. 2, margin : Nat]

(***************************************************************************)
(* What parse_plpgsql finds in the text: statements and the headers and    *)
(* ends of control structures, each with the number of structures around   *)
(* it.  clause is the INTO clause it removes from a static query.          *)
(***************************************************************************)
Unit == [before : Seq(Word), clause : Seq(Word), after : Seq(Word), depth : Nat]

ASSUME BodyAssumption ==
  \A b \in Bodies : b.units \in Seq(Unit) /\ b.text \in Seq(Token) \ {<<>>}

Kind == {"Label", "Declare", "Begin", "Exception", "If", "Elsif", "Else", "EndIf", "Loop", "EndLoop",
         "Case", "When", "EndCase", "EndBlock", "Declaration", "Sql", "Transaction", "Assignment",
         "Return", "ReturnQuery", "Assert", "Raise", "Opaque", "Comment"}

(* A node owns the tokens first to last; trailing counts the comment that  *)
(* follows it on its line.                                                 *)
(* into and past bound the INTO clause bound to it, 0 if none.             *)
Node  == [kind : Kind, first : Nat, last : Nat, trailing : {0, 1}, blank : BOOLEAN, into : Nat, past : Nat]
Frame == {"Begin", "If", "Loop", "Case", "CaseBranch", "Exception", "ExceptionBranch"}
Line  == [words : Seq(Word), indent : Nat, blank : BOOLEAN, verbatim : BOOLEAN]

VARIABLES
  source, units,
  text,        (* the body of this pass: source, then the output           *)
  pass,
  state,       (* "read", "lay" or "done"                                  *)
  at,          (* the token, then the node, under the loop                 *)
  inDeclare, nodes, frames, lines,
  written,     (* the lines of the first pass                              *)
  result       (* "running", "ok" or the error                             *)

vars == <<source, units, text, pass, state, at, inDeclare, nodes, frames, lines, written, result>>
body == <<source, units, text, pass, written>>

Begin == state = "read" /\ at = 1 /\ inDeclare = FALSE /\ nodes = <<>> /\ frames = <<>> /\ lines = <<>>

Init ==
  /\ \E b \in Bodies : source = b.text /\ units = b.units /\ text = b.text
  /\ pass = 1 /\ written = <<>> /\ result = "running"
  /\ Begin

Stop(r) == state' = "done" /\ result' = r

-----------------------------------------------------------------------------
(***************************************************************************)
(* ir::parse.                                                              *)
(***************************************************************************)
W(i) == text[i].word
Words(i, j)  == [k \in 1 .. j - i + 1 |-> W(i + k - 1)]

(* The numbers of K up to n, ascending; what a sequence has at these places; words but for some. *)
Ascending(n, K) ==
  LET upto[k \in 0 .. n] == IF k = 0 THEN <<>> ELSE upto[k - 1] \o IF k \in K THEN <<k>> ELSE <<>>
  IN  upto[n]
Picked(s, K)    == LET ks == Ascending(Len(s), K) IN [k \in 1 .. Len(ks) |-> s[ks[k]]]
Spoken(ws, S)   == {k \in 1 .. Len(ws) : ws[k] \notin S}
Without(ws, S)  == Picked(ws, Spoken(ws, S))
Uncommented(ws) == Without(ws, {"note"})

Open(i, j) == Cardinality({k \in i .. j : W(k) = "("}) - Cardinality({k \in i .. j : W(k) = ")"})
First(S)   == IF S = {} THEN 0 ELSE CHOOSE i \in S : \A j \in S : i <= j

(* find_keyword, find_semicolon; 0 when there is none. *)
FindKeyword(i, w) == First({j \in i + 1 .. Len(text) : Open(i + 1, j) = 0 /\ W(j) = w})
FindSemicolon(i)  == First({j \in i .. Len(text) : Open(i, j) = 0 /\ W(j) = ";"})

Second(i) == IF i < Len(text) THEN W(i + 1) ELSE "note"

EndOf(i) ==
  CASE W(i) \in {"DECLARE", "BEGIN", "EXCEPTION", "ELSE", "LOOP", "label"} -> i
    [] W(i) \in {"IF", "ELSIF", "WHEN"} -> FindKeyword(i, "THEN")
    [] W(i) \in {"WHILE", "FOR"}        -> FindKeyword(i, "LOOP")
    [] W(i) = "CASE" -> IF FindKeyword(i, "WHEN") = 0 THEN 0 ELSE FindKeyword(i, "WHEN") - 1
    [] W(i) = "END" /\ \A j \in i + 1 .. Len(text) : W(j) = "note" -> i
    [] OTHER -> FindSemicolon(i)

Assigns(i, j) == \E k \in i .. j : Open(i, k) = 0 /\ W(k) = ":="

StatementKind(i) ==
  CASE inDeclare                -> "Declaration"
    [] W(i) \in Query           -> "Sql"
    [] W(i) = "RETURN"          -> IF Second(i) = "QUERY" THEN "ReturnQuery" ELSE "Return"
    [] W(i) = "ASSERT"          -> "Assert"
    [] W(i) = "RAISE"           -> "Raise"
    [] W(i) \in {"COMMIT", "ROLLBACK"} -> "Transaction"
    [] OTHER -> IF Assigns(i, FindSemicolon(i)) THEN "Assignment" ELSE "Opaque"

KindOf(i) ==
  CASE W(i) = "label" -> "Label" [] W(i) = "DECLARE" -> "Declare" [] W(i) = "BEGIN" -> "Begin"
    [] W(i) = "EXCEPTION" -> "Exception" [] W(i) = "IF" -> "If" [] W(i) = "ELSIF" -> "Elsif"
    [] W(i) = "ELSE" -> "Else" [] W(i) = "CASE" -> "Case" [] W(i) = "WHEN" -> "When"
    [] W(i) \in {"WHILE", "FOR", "LOOP"} -> "Loop"
    [] W(i) = "END" -> CASE Second(i) = "IF" -> "EndIf" [] Second(i) = "LOOP" -> "EndLoop"
                         [] Second(i) = "CASE" -> "EndCase" [] OTHER -> "EndBlock"
    [] OTHER -> StatementKind(i)

Trailing(j) == IF j < Len(text) /\ W(j + 1) = "note" /\ text[j + 1].breaks = 0 THEN 1 ELSE 0

NodeAt(kind, i, j, trailing) ==
  [kind |-> kind, first |-> i, last |-> j, trailing |-> trailing,
   blank |-> text[i].breaks >= 2, into |-> 0, past |-> 0]

Reading == state = "read" /\ at <= Len(text)

ReadComment ==
  /\ Reading /\ W(at) = "note"
  /\ nodes' = Append(nodes, NodeAt("Comment", at, at, 0)) /\ at' = at + 1
  /\ UNCHANGED <<body, state, inDeclare, frames, lines, result>>

ReadNode ==
  /\ Reading /\ W(at) # "note"
  /\ \/ /\ EndOf(at) = 0
        /\ Stop("boundary") /\ UNCHANGED <<at, inDeclare, nodes>>
     \/ /\ EndOf(at) > 0
        /\ nodes' = Append(nodes, NodeAt(KindOf(at), at, EndOf(at), Trailing(EndOf(at))))
        /\ at' = EndOf(at) + 1 + Trailing(EndOf(at))
        /\ inDeclare' = (W(at) = "DECLARE" \/ (inDeclare /\ W(at) # "BEGIN"))
        /\ UNCHANGED <<state, result>>
  /\ UNCHANGED <<body, frames, lines>>

(***************************************************************************)
(* Preferred spellings, applied wherever a leaf is formatted.              *)
(***************************************************************************)
Spelled(w)    == IF w = "varchar" THEN <<"character", "varying">> ELSE <<w>>
Respelled(ws) == FlattenSeq([i \in DOMAIN ws |-> Spelled(ws[i])])

(* The words of a unit in this pass. *)
UnitWords(u) ==
  IF pass = 1 THEN u.before \o u.clause \o u.after
              ELSE Respelled(u.before) \o u.clause \o Respelled(u.after)
(***************************************************************************)
(* validate_parser_alignment and capabilities::bind.                       *)
(***************************************************************************)
Of(kind) == {i \in DOMAIN nodes : nodes[i].kind = kind}

Aligned ==
  /\ Of("Opaque") = {}
  /\ Cardinality(Of("Assert")) = Cardinality({i \in DOMAIN units : UnitWords(units[i])[1] = "ASSERT"})
  /\ Cardinality(Of("ReturnQuery")) =
       Cardinality({i \in DOMAIN units : LET ws == UnitWords(units[i])
                                         IN  ws[1] = "RETURN" /\ ws[2] = "QUERY"})

Silent == {"note", ";"}
Significant(n) == Without(Words(n.first, n.last), Silent)

(* A statement as the parser reports it: the query without its INTO.       *)
Reported(u) ==
  LET ws == IF pass = 1 THEN u.before \o u.after ELSE Respelled(u.before) \o Respelled(u.after)
  IN  [query  |-> Without(ws, {";"}),
       into   |-> u.clause # <<>>,
       strict |-> Len(u.clause) > 1 /\ u.clause[2] = "STRICT"]

Specs == LET sqls == {i \in DOMAIN units : units[i].before[1] \in Query \cup {"COMMIT", "ROLLBACK"}}
         IN  Picked([i \in DOMAIN units |-> Reported(units[i])], sqls)

Common(s, t)  == Len(LongestCommonPrefix({s, t}))
From(s, i)    == SubSeq(s, i, Len(s))

(* bind_sql: does the leaf hold the query, with exactly one INTO clause    *)
(* more?  Where the clause begins is the length of what goes before.       *)
IntoAt(ws, spec) == Common(ws, spec.query)
Kept(ws, spec)   == LET p == IntoAt(ws, spec)
                    IN  Common(Reverse(From(ws, p + 1)), Reverse(From(spec.query, p + 1)))

Binds(ws, spec) ==
  IF spec.into
  THEN LET p == IntoAt(ws, spec)
       IN  /\ p + Kept(ws, spec) = Len(spec.query) /\ Len(ws) > Len(spec.query)
           /\ ws[p + 1] = "INTO"
           /\ spec.strict <=> p + 2 <= Len(ws) /\ ws[p + 2] = "STRICT"
  ELSE ws = spec.query

(* The tokens of the clause: from INTO to what follows it in the query.    *)
WithClause(n, spec) ==
  LET ws     == Words(n.first, n.last)
      spoken == Ascending(Len(ws), Spoken(ws, Silent))
      p      == IntoAt(Significant(n), spec)
      next   == p + 1 + Len(spoken) - Len(spec.query)
      token(k) == n.first + spoken[k] - 1
  IN  IF spec.into
      THEN [n EXCEPT !.into = token(p + 1), !.past = IF next > Len(spoken) THEN n.last ELSE token(next)]
      ELSE n

(* Each leaf takes the first statement it binds to, and none is left over. *)
Bindable == {"Sql", "Transaction"}
TakeSpec(taken, n) ==
  LET i == First({j \in DOMAIN taken.specs : Binds(Significant(n), taken.specs[j])})
  IN  CASE n.kind \notin Bindable -> [taken EXCEPT !.nodes = Append(@, n)]
        [] n.kind \in Bindable /\ i = 0 -> [taken EXCEPT !.ok = FALSE]
        [] OTHER -> [taken EXCEPT !.specs = RemoveAt(@, i), !.nodes = Append(@, WithClause(n, taken.specs[i]))]

Bound(specs) ==
  LET taken[i \in 0 .. Len(nodes)] ==
        IF i = 0 THEN [ok |-> TRUE, specs |-> specs, nodes |-> <<>>] ELSE TakeSpec(taken[i - 1], nodes[i])
  IN  taken[Len(nodes)]

(* The parser's tree is JSON, read with its object members sorted or in    *)
(* their own order as the build has it: statements come in any order.      *)
Permuted == {[i \in DOMAIN Specs |-> Specs[p[i]]] : p \in Bijection(DOMAIN Specs, DOMAIN Specs)}

Bind ==
  /\ state = "read" /\ at = Len(text) + 1
  /\ \E specs \in Permuted :
       LET bound == Bound(specs)
           good  == Aligned /\ bound.ok /\ bound.specs = <<>>
       IN  \/ ~ good /\ Stop("disagree") /\ UNCHANGED <<at, nodes>>
           \/ good /\ state' = "lay" /\ at' = 1 /\ nodes' = bound.nodes /\ UNCHANGED result
  /\ inDeclare' = FALSE
  /\ UNCHANGED <<body, frames, lines>>

-----------------------------------------------------------------------------
(***************************************************************************)
(* layout_node: where a node stands, and the frames behind it.             *)
(***************************************************************************)
Top(fs) == IF fs = <<>> THEN "none" ELSE fs[Len(fs)]

PopOptional_Kept(fs, f) == fs
PopOptional(fs, f) == IF Top(fs) = f THEN Front(fs) ELSE fs

PlacedAt(indent, fs) == [ok |-> TRUE, indent |-> indent, frames |-> fs]
Unbalanced           == [ok |-> FALSE, indent |-> 0, frames |-> <<>>]
Checked(ok, placed)  == IF ok THEN placed ELSE Unbalanced

Inner_Declared(fs) == Len(fs)
Inner(fs) == Len(fs) + IF inDeclare THEN 1 ELSE 0

Branch == [f \in {"Case", "Exception"} |-> IF f = "Case" THEN "CaseBranch" ELSE "ExceptionBranch"]
Opened == [k \in {"EndIf", "EndLoop"} |-> IF k = "EndIf" THEN "If" ELSE "Loop"]

LayoutNode(kind, fs) ==
  LET arm     == PopOptional(fs, "CaseBranch")
      handler == PopOptional(fs, "ExceptionBranch")
      either  == PopOptional(arm, "ExceptionBranch")
  IN  CASE kind = "Begin" -> PlacedAt(Len(fs), Append(fs, "Begin"))
        [] kind \in {"Declare", "Label"}   -> PlacedAt(Len(fs), fs)
        [] kind \in {"If", "Loop", "Case"} -> PlacedAt(Inner(fs), Append(fs, kind))
        [] kind = "Elsif" -> Checked(Top(fs) = "If", PlacedAt(Len(fs) - 1, fs))
        [] kind = "Else"  -> Checked(Top(fs) \in {"If", "CaseBranch"}, PlacedAt(Len(fs) - 1, fs))
        [] kind \in DOMAIN Opened -> Checked(Top(fs) = Opened[kind], PlacedAt(Len(fs) - 1, Front(fs)))
        [] kind = "When" ->
             Checked(Top(either) \in DOMAIN Branch, PlacedAt(Len(either), Append(either, Branch[Top(either)])))
        [] kind = "EndCase"   -> Checked(Top(arm) = "Case", PlacedAt(Len(arm) - 1, Front(arm)))
        [] kind = "Exception" ->
             Checked(Top(handler) = "Begin", PlacedAt(Len(handler) - 1, Append(Front(handler), "Exception")))
        [] kind = "EndBlock"  ->
             Checked(Top(handler) \in {"Begin", "Exception"}, PlacedAt(Len(handler) - 1, Front(handler)))
        [] OTHER -> PlacedAt(Inner(fs), fs)

(***************************************************************************)
(* format_leaf.  Conditions, assigned and returned values are formatted as *)
(* expressions, and so must parse.                                         *)
(***************************************************************************)
Parses(ws) ==
  LET cases(n) == Cardinality({i \in 1 .. n : ws[i] = "CASE"}) - Cardinality({i \in 1 .. n : ws[i] = "END"})
  IN  /\ ws # <<>> /\ \A i \in DOMAIN ws : ws[i] \in Expression
      /\ \A i \in DOMAIN ws : cases(i) >= 0 /\ (ws[i] \in InCase => cases(i) > 0)
      /\ cases(Len(ws)) = 0

Value(n) ==
  LET ws == Uncommented(Words(n.first, n.last))
      assigned == First({i \in DOMAIN ws : ws[i] = ":="})
  IN  CASE n.kind = "Assignment" -> SubSeq(ws, assigned + 1, Len(ws) - 1)
        [] n.kind = "Assert" \/ (n.kind = "Return" /\ Len(ws) > 2) -> SubSeq(ws, 2, Len(ws) - 1)
        [] n.kind \in {"If", "Elsif"} \/ (n.kind = "Loop" /\ ws[1] = "WHILE") -> SubSeq(ws, 2, Len(ws) - 1)
        [] OTHER -> <<"x">>

Preserved(n) == n.kind = "Sql" /\ W(n.first) = "GRANT"
Fails(n)     == (n.kind = "Sql" /\ W(n.first) = "CALL") \/ ~ Parses(Value(n))

(* capabilities::format for INTO: the query is formatted without it, and   *)
(* the clause put back behind as many tokens as now go before it.          *)
Boundary(before) == Len(Respelled(before))

Restored(n) ==
  LET before == Words(n.first, n.into - 1)
      ws     == Respelled(before \o Words(n.past, n.last))
  IN  SubSeq(ws, 1, Boundary(before)) \o Words(n.into, n.past - 1) \o From(ws, Boundary(before) + 1)

Rendered(n) == IF n.into > 0 THEN Restored(n) ELSE Respelled(Words(n.first, n.last))

(***************************************************************************)
(* The loop of layout::format.  A preserved leaf that begins a line keeps  *)
(* the indentation of that line.                                           *)
(***************************************************************************)
Comment_Dropped(n) == <<>>
Comment(n) == IF n.trailing = 1 THEN <<"note">> ELSE <<>>

BeginsLine(i) == i = 1 \/ text[i].breaks > 0

VerbatimIndent(n, indent) == IF BeginsLine(n.first) THEN text[n.first].margin ELSE indent

SeparateHandler(n) == n.kind = "When" /\ Top(frames) = "ExceptionBranch"

LineOf(n, indent) ==
  [words    |-> (IF Preserved(n) THEN Words(n.first, n.last) ELSE Rendered(n)) \o Comment(n),
   indent   |-> IF Preserved(n) THEN VerbatimIndent(n, indent) ELSE indent,
   blank    |-> lines # <<>> /\ (n.blank \/ SeparateHandler(n)),
   verbatim |-> Preserved(n)]

Lay ==
  /\ state = "lay" /\ at <= Len(nodes)
  /\ LET n      == nodes[at]
         placed == LayoutNode(n.kind, frames)
     IN  \/ /\ ~ placed.ok
            /\ Stop("unbalanced") /\ UNCHANGED <<at, inDeclare, frames, lines>>
         \/ /\ placed.ok /\ Fails(n)
            /\ Stop("leaf") /\ UNCHANGED <<at, inDeclare, frames, lines>>
         \/ /\ placed.ok /\ ~ Fails(n)
            /\ frames' = placed.frames
            /\ inDeclare' = (n.kind = "Declare" \/ (inDeclare /\ n.kind # "Begin"))
            /\ lines' = Append(lines, LineOf(n, placed.indent))
            /\ at' = at + 1 /\ UNCHANGED <<state, result>>
  /\ UNCHANGED <<body, nodes>>

(* The output as the next pass scans it. *)
Scanned(l) ==
  [i \in DOMAIN l.words |->
     [word   |-> l.words[i],
      breaks |-> IF i > 1 THEN 0 ELSE IF l.blank THEN 2 ELSE 1,
      margin |-> IF i > 1 THEN 0 ELSE l.indent]]

Finished == state = "lay" /\ at = Len(nodes) + 1

SecondPass ==
  /\ Finished /\ frames = <<>> /\ ~ inDeclare /\ pass = 1
  /\ written' = lines /\ text' = FlattenSeq([i \in DOMAIN lines |-> Scanned(lines[i])]) /\ pass' = 2
  /\ state' = "read" /\ at' = 1 /\ inDeclare' = FALSE
  /\ nodes' = <<>> /\ frames' = <<>> /\ lines' = <<>>
  /\ UNCHANGED <<source, units, result>>

End ==
  /\ Finished
  /\ \/ (frames # <<>> \/ inDeclare) /\ Stop("unbalanced")
     \/ frames = <<>> /\ ~ inDeclare /\ pass = 2 /\ lines # written /\ Stop("unstable")
     \/ frames = <<>> /\ ~ inDeclare /\ pass = 2 /\ lines = written /\ Stop("ok")
  /\ UNCHANGED <<body, at, inDeclare, nodes, frames, lines>>

Next == ReadComment \/ ReadNode \/ Bind \/ Lay \/ SecondPass \/ End
Spec == Init /\ [][Next]_vars
-----------------------------------------------------------------------------
TypeOK ==
  /\ source \in Seq(Token) /\ text \in Seq(Token) /\ units \in Seq(Unit)
  /\ pass \in {1, 2} /\ state \in {"read", "lay", "done"} /\ inDeclare \in BOOLEAN
  /\ at \in 1 .. Len(text) + 1
  /\ nodes \in Seq(Node) /\ frames \in Seq(Frame)
  /\ lines \in Seq(Line) /\ written \in Seq(Line)
  /\ result \in {"running", "ok", "boundary", "disagree", "unbalanced", "leaf", "unstable"}

(***************************************************************************)
(* What PL/pgSQL's grammar says about the source.                          *)
(***************************************************************************)
Accepted == state = "done" /\ result = "ok"

Authored(u)    == u.before \o u.clause \o u.after
Starting(w)    == {i \in DOMAIN units : Authored(units[i])[1] = w}
Holding(i, w)  ==
  LET ws   == Authored(units[i])
      open(k) == Cardinality({j \in 1 .. k : ws[j] = "("}) - Cardinality({j \in 1 .. k : ws[j] = ")"})
  IN  \E k \in DOMAIN ws : k > 1 /\ ws[k] = w /\ open(k) = 0
SourceWords    == [i \in DOMAIN source |-> source[i].word]
Followed(i, S) == \E j \in i + 2 .. Len(source) : source[j].word \in S /\ \A k \in i + 1 .. j - 1 : source[k].word = "note"

(* A word of a header that the reader takes for the header's end.          *)
Misleading(i) ==
  \/ i \in Starting("ELSEIF")
  \/ i \in Starting("WHEN") \cup Starting("CASE") /\ Holding(i, "CASE")

(* A query with INTO that reads as the query of another statement with a   *)
(* longer INTO clause: which leaf took which then depends on the order.    *)
Ambiguous ==
  \E i, j \in DOMAIN units :
    LET ws    == Authored(units[i])
        query == units[j].before \o units[j].after
    IN  /\ units[i].clause # <<>> /\ units[j].clause # <<>>
        /\ units[i].before \o units[i].after # query
        /\ \E k, m \in DOMAIN ws : ws[k] = "INTO" /\ SubSeq(ws, 1, k - 1) \o From(ws, m) = query

(* The constructs the reader does not follow, and PL/pgSQL does.           *)
Unfollowed ==
  \/ Starting("NULL") \cup Starting("CALL") # {}
  \/ Ambiguous \/ \E i \in DOMAIN units : Misleading(i)
  \/ \E i \in Starting("IF") \cup Starting("ELSIF") \cup Starting("WHILE") : Holding(i, "CASE")
  \/ \E i \in DOMAIN source :
       \/ source[i].word = "END" /\ Followed(i, {"IF", "LOOP", "CASE"})
       \/ source[i].word = "RETURN" /\ Followed(i, {"QUERY"})
  \/ LET last == Authored(units[Len(units)]) IN Len(last) > 1 /\ last[Len(last)] # ";"

(* sql-coverage.md lists what is formatted: control structures however     *)
(* nested, declarations, leaves, INTO, compact bodies, comments.  A body of *)
(* these is accepted - no frame is left over, no leaf unbound in whatever  *)
(* order the parser lists it, and the second reading finds what the first  *)
(* wrote.                                                                  *)
SupportedIsFormatted == (state = "done" /\ ~ Unfollowed) => result = "ok"

(* core spec 13.12: statements begin on the next line, and stand at the    *)
(* depth of their structures.  The lines of an accepted body, comments     *)
(* aside, are the units of the grammar in order, each indented by the      *)
(* structures around it; a leaf kept as it is keeps its own indentation    *)
(* when it had a line.                                                     *)
Code(l)   == SelectSeq(l.words, LAMBDA w : w # "note")
CodeLines == SelectSeq(written, LAMBDA l : Code(l) # <<>>)

Significants   == SelectSeq([i \in DOMAIN source |-> i], LAMBDA i : source[i].word # "note")
FirstToken(i)  == Significants[1 + FoldLeft(LAMBDA n, u : n + Len(Authored(u)), 0, SubSeq(units, 1, i - 1))]
OnItsLine(i)   == FirstToken(i) = 1 \/ source[FirstToken(i)].breaks > 0

UnitLaid(i, l) ==
  LET u == units[i]
  IN  IF i \in Starting("GRANT")
      THEN /\ Code(l) = Authored(u) /\ l.verbatim
           /\ l.indent = IF OnItsLine(i) THEN source[FirstToken(i)].margin ELSE u.depth
      ELSE /\ Code(l) = Respelled(u.before) \o u.clause \o Respelled(u.after)
           /\ l.indent = u.depth

EachOnItsLine ==
  Accepted =>
    /\ Len(CodeLines) = Len(units)
    /\ \A i \in DOMAIN CodeLines : UnitLaid(i, CodeLines[i])

(* A blank line is written where the author had one and before each        *)
(* exception handler but the first, nowhere else and not on top.           *)
LaterHandler(i) ==
  /\ i \in Starting("WHEN")
  /\ \E j \in Starting("EXCEPTION") :
       /\ j < i /\ units[j].depth = units[i].depth - 1
       /\ \A k \in j + 1 .. i : units[k].depth >= units[i].depth
       /\ \E k \in j + 1 .. i - 1 : units[k].depth = units[i].depth

TokenOfLine(n) ==
  1 + FoldLeft(LAMBDA m, l : m + Len(SelectSeq(l.words, LAMBDA w : w # "varying")), 0, SubSeq(written, 1, n - 1))

BlankLinesKept ==
  Accepted =>
    \A n \in DOMAIN written :
      LET t == TokenOfLine(n)
      IN  written[n].blank <=>
            /\ n > 1
            /\ source[t].breaks = 2 \/ \E i \in DOMAIN units : FirstToken(i) = t /\ LaterHandler(i)

(* Both hold where the reader finds the headers the author wrote.          *)
UnitPerLine == (\A i \in DOMAIN units : ~ Misleading(i)) => EachOnItsLine /\ BlankLinesKept

(* formatter-design.md: comments are preserved.  Through both passes, the  *)
(* removal of INTO clauses and their return, every word and every comment  *)
(* of an accepted body is written once and in order, up to the preferred   *)
(* spellings - also in a body whose structure the reader gets wrong.       *)
WordsKept ==
  Accepted => Respelled(FlattenSeq([i \in DOMAIN written |-> written[i].words])) = Respelled(SourceWords)

(* Every variable has its type, and no word is lost.                       *)
TriviaKept == TypeOK /\ WordsKept
=============================================================================
