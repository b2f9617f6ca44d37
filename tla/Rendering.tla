----------------------------- MODULE Rendering -----------------------------
(***************************************************************************)
(* The plan of one statement's line breaks and how it becomes text         *)
(* (semantic_block/geometry.rs, groups.rs, and the writer and width check  *)
(* of semantic_block.rs).                                                  *)
(*                                                                         *)
(* A token is a record of its kind `k`, its width `w` as rendered and `lb`,*)
(* the line breaks that stand before it in the text read.  Kinds are       *)
(* keywords in capitals, punctuation, "x" an operand, "f" the name of a    *)
(* called function ("json" of one that pairs keys with values), "--" and   *)
(* "/*" comments.  A statement `s` holds the tokens, what TokenShape says  *)
(* of them, and the options.  Ranges are half-open, as in the code.        *)
(***************************************************************************)
EXTENDS Integers, Sequences, SequencesExt, FiniteSetsExt

Shape == INSTANCE TokenShape

INDENT_WIDTH == 4
None == -1          (* an indentation that is not set *)

(* The same sequence, element by element: TLC then reads it only once.      *)
Tuple(seq) == seq \o <<>>

Less(a, b)   == IF a > b THEN a - b ELSE 0
Clamp(lines) == Max({1, Min({2, lines})})
Most(S, default)  == IF S = {} THEN default ELSE - Min({- i : i \in S})
Least(S, default) == IF S = {} THEN default ELSE Min(S)

IsComment(token) == token.k \in {"--", "/*"}

(* A call that the parser reports, and what reads like one: an identifier  *)
(* in front of a parenthesis, but for the method of an EXCLUDE constraint. *)
IsCalled(token) == token.k \in {"f", "json"}
ReadsAsCall(tokens, i) ==
  \/ IsCalled(tokens[i])
  \/ tokens[i].k \in {"x", "definition"} /\ ~ (i > 2 /\ tokens[i - 1].k = "USING" /\ tokens[i - 2].k = "EXCLUDE")

(***************************************************************************)
(* `needs_space` between neighbours on one line: a parenthesis follows an  *)
(* identifier with a blank only where it lists the columns of an INSERT, a *)
(* view, a table or an index.                                              *)
(***************************************************************************)
Words(tokens, S) == {tokens[i].k : i \in S}

IsInsertTargetListOpen(tokens, open) ==
  LET word == Most({i \in 1 .. open - 1 : tokens[i].k \in {"VALUES", "SELECT", "INSERT"}}, 0)
      head == Least({i \in 1 .. open - 1 : ~ IsComment(tokens[i])}, open)
  IN  tokens[head].k \in {"INSERT", "WITH"} /\ word # 0 /\ tokens[word].k = "INSERT"

NamesColumns(tokens, depths, open) ==
  LET before == Words(tokens, {i \in 1 .. open - 1 : depths[i] = 0})
  IN  /\ depths[open] = 0 /\ "CREATE" \in before
      /\ \/ "TABLE" \in before \/ {"INDEX", "ON"} \subseteq before
         \/ "VIEW" \in before /\ "AS" \notin before

NeedsSpace(tokens, depths, i) ==
  /\ i > 1
  /\ LET previous == tokens[i - 1]  current == tokens[i]
     IN  /\ previous.k # "--" /\ ~ (previous.k = "/*" /\ current.lb > 0)
         /\ current.k \notin {",", ";", ")", "]", "["} /\ previous.k \notin {"(", "["}
         /\ current.k = "(" /\ ReadsAsCall(tokens, i - 1) =>
              IsInsertTargetListOpen(tokens, i) \/ NamesColumns(tokens, depths, i)

Space(tokens, depths, i) == IF NeedsSpace(tokens, depths, i) THEN 1 ELSE 0

(***************************************************************************)
(* The statement: tokens, depths, partners and the width of every prefix.  *)
(* Filled in before the first plan: `b` what the binder found, `tall` the  *)
(* CASEs that expand, `lists` the delimited lists, `expressions` the owned *)
(* ranges and `booleans` those that expand.                                *)
(***************************************************************************)
CaseEnds(tokens) ==
  LET Step(read, i) ==
        CASE tokens[i].k = "CASE" -> [read EXCEPT !.open = Append(@, i)]
          [] tokens[i].k = "END" /\ read.open # <<>> ->
               [open |-> Front(read.open), ends |-> Last(read.open) :> i @@ read.ends]
          [] OTHER -> read
  IN  FoldLeft(Step, [open |-> <<>>, ends |-> <<>>], [i \in DOMAIN tokens |-> i]).ends

Read(tokens, options) ==
  LET kinds == Tuple([i \in DOMAIN tokens |-> IF IsComment(tokens[i]) THEN "comment" ELSE tokens[i].k])
      shape == Shape!Structure(kinds)
      ends[i \in 0 .. Len(tokens)] == IF i = 0 THEN 0 ELSE ends[i - 1] + Space(tokens, shape.depths, i) + tokens[i].w
  IN  [tok |-> tokens, kinds |-> kinds, depth |-> shape.depths, parents |-> shape.parents, ends |-> ends,
       endOf |-> CaseEnds(tokens), tall |-> {}, lists |-> <<>>, b |-> <<>>, expressions |-> <<>>, booleans |-> <<>>,
       close |-> [o \in {p[1] : p \in shape.pairs} |-> CHOOSE c \in DOMAIN tokens : <<o, c>> \in shape.pairs],
       soft |-> options.soft, hard |-> options.hard, inline |-> options.inline, semicolon |-> options.semicolon]

Kind(s, i)  == s.tok[i].k
Lines(s, i) == s.tok[i].lb
Size(s)     == Len(s.tok)
AnyIn(s, from, to, P(_)) == \E i \in from .. to - 1 : P(i)
First(from, to, P(_))  == Least({i \in from .. to - 1 : P(i)}, 0)

CompactWidth(s, from, to) ==
  IF from >= to THEN 0 ELSE s.ends[to - 1] - s.ends[from - 1] - Space(s.tok, s.depth, from)

(***************************************************************************)
(* Groups.                                                                 *)
(***************************************************************************)
HasHardBoundary(s, from, to) ==
  AnyIn(s, from, to, LAMBDA i : IsComment(s.tok[i]) \/ Lines(s, i) > 1)

HasListHardBoundary(s, from, to) ==
  AnyIn(s, from, to, LAMBDA i : Lines(s, i) > 1 \/ (IsComment(s.tok[i]) /\ Lines(s, i) > 0))

Authored(s, from, to) == AnyIn(s, from, to, LAMBDA i : Lines(s, i) > 0)

Group(width) == [width |-> width, complex |-> FALSE, hard |-> FALSE, forced |-> FALSE, unavoidable |-> FALSE]

Expands(s, group) ==
  group.hard \/ group.complex \/ group.forced \/ (~ group.unavoidable /\ group.width > s.soft)

RangeIsUnavoidablyOverHard(s, from, to, indent) ==
  AnyIn(s, from, to, LAMBDA i :
        \/ indent * INDENT_WIDTH + s.tok[i].w > s.hard
        \/ IsComment(s.tok[i]) /\ indent * INDENT_WIDTH + CompactWidth(s, from, i + 1) > s.hard)

(***************************************************************************)
(* LayoutPlan: the breaks before tokens, with their indentation; the       *)
(* indentation of tokens that may come to start a line; and what owners    *)
(* have moved since.                                                       *)
(***************************************************************************)
NewPlan(s) ==
  [lines   |-> [i \in DOMAIN s.tok |-> 0],    at      |-> [i \in DOMAIN s.tok |-> 0],
   indents |-> [i \in DOMAIN s.tok |-> None], offsets |-> [i \in DOMAIN s.tok |-> 0]]

Breaks(plan, i) == plan.lines[i] > 0
BreaksIn(plan, from, to) == {i \in from .. to - 1 : Breaks(plan, i)}

(* A break is never taken back and never loses its blank line. *)
BreakBefore(plan, i, lines, indent) ==
  IF i \notin DOMAIN plan.lines \/ Max({1, lines}) < plan.lines[i] THEN plan
  ELSE [plan EXCEPT !.lines[i] = Max({1, lines}), !.at[i] = indent]

SetIndent(plan, from, to, indent) ==
  [plan EXCEPT !.indents = Tuple([i \in DOMAIN @ |-> IF from <= i /\ i < to THEN indent ELSE @[i]])]

SetFallbackIndent(s, plan, from, to, base, indent) ==
  [plan EXCEPT !.indents = Tuple([i \in DOMAIN @ |->
     IF from <= i /\ i < to /\ @[i] = None THEN indent + Less(s.depth[i], base) ELSE @[i]])]

SetContextualIndent(s, plan, from, to, base, indent) ==
  [plan EXCEPT !.indents = Tuple([i \in DOMAIN @ |->
     IF from <= i /\ i < to THEN Max({@[i], indent + Less(s.depth[i], base)}) ELSE @[i]])]

(* Seeded fault: an indentation that no owner set is taken for one. *)
IndentFor_Unset(plan, i, fallback) == plan.indents[i]

IndentFor(plan, i, fallback)     == IF plan.indents[i] = None THEN fallback ELSE plan.indents[i]
LineIndentFor(plan, i, fallback) == IF Breaks(plan, i) THEN plan.at[i] ELSE IndentFor(plan, i, fallback)
RelativeIndent(plan, i, base)    == Max({0, base + plan.offsets[i]})
LineStart(plan, i)               == Most(BreaksIn(plan, 1, i + 1), 1)

LineWidthThrough(s, plan, i, end, fallback) ==
  LET start == LineStart(plan, i)
  IN  LineIndentFor(plan, start, fallback) * INDENT_WIDTH + CompactWidth(s, start, end)

RebaseIndents(plan, from, to, current, desired) ==
  LET Within(i) == from <= i /\ i < to
      Moved(n)  == Max({0, n + desired - current})
  IN  [plan EXCEPT
         !.at      = Tuple([i \in DOMAIN @ |-> IF Within(i) /\ Breaks(plan, i) THEN Moved(@[i]) ELSE @[i]]),
         !.indents = Tuple([i \in DOMAIN @ |-> IF Within(i) /\ @[i] # None THEN Moved(@[i]) ELSE @[i]]),
         !.offsets = Tuple([i \in DOMAIN @ |-> IF Within(i) THEN @[i] + desired - current ELSE @[i]])]

(* Boundaries an owner names: all of them when it expands, else those the  *)
(* author broke at.                                                        *)
PlanClauseBoundaries(s, plan, boundaries, indent, expanded) ==
  FoldLeft(LAMBDA p, i : IF expanded \/ Lines(s, i) > 0 THEN BreakBefore(p, i, Clamp(Lines(s, i)), indent) ELSE p,
           plan, boundaries)

(***************************************************************************)
(* The terminal semicolon: 0 when there is none.                           *)
(***************************************************************************)
LastSyntax(tokens) == Most({i \in DOMAIN tokens : ~ IsComment(tokens[i])}, 0)

Terminal(tokens) ==
  LET last == LastSyntax(tokens) IN IF last # 0 /\ tokens[last].k = ";" THEN last ELSE 0

TerminalSemicolon(s) ==
  [after |-> IF Terminal(s.tok) = 0 /\ s.semicolon = "require" THEN LastSyntax(s.tok) ELSE 0,
   omit  |-> IF s.semicolon = "omit" THEN Terminal(s.tok) ELSE 0]

(***************************************************************************)
(* Writer: line breaks and blanks wait until a token follows them.  Of     *)
(* several requests for breaks the most lines and the last indentation     *)
(* count.                                                                  *)
(***************************************************************************)
Blank == [out |-> <<>>, lines |-> 0, indent |-> 0, space |-> FALSE]

Newline(writer, lines, indent) ==
  IF writer.out = <<>> THEN writer
  ELSE [writer EXCEPT !.lines = Max({@, lines}), !.indent = indent, !.space = FALSE]

SpaceOut(writer) == [writer EXCEPT !.space = writer.out # <<>> /\ writer.lines = 0]

Column(writer) ==
  CASE writer.lines > 0 -> writer.indent * INDENT_WIDTH
    [] writer.lines = 0 /\ writer.out = <<>> -> 0
    [] OTHER -> Last(writer.out).from + Last(writer.out).w + (IF writer.space THEN 1 ELSE 0)

Write(writer, token) ==
  [Blank EXCEPT !.out = Append(writer.out, [k |-> token.k, w |-> token.w, lb |-> writer.lines, from |-> Column(writer)])]

(***************************************************************************)
(* `render_plan`.                                                          *)
(***************************************************************************)
(* Seeded fault: a planned break moves an inline comment to its own line. *)
Planned_Comments(s, plan, i) == Breaks(plan, i)

(* A comment on the line of what precedes it stays there.                  *)
Planned(s, plan, i) == Breaks(plan, i) /\ (IsComment(s.tok[i]) => Lines(s, i) > 0)

Placed(s, plan, i, writer) ==
  IF Planned(s, plan, i) THEN Newline(writer, plan.lines[i], plan.at[i])
  ELSE IF IsComment(s.tok[i]) /\ Lines(s, i) > 0
    THEN Newline(writer, Min({2, Lines(s, i)}), IndentFor(plan, i, s.depth[i]))
  ELSE writer

Continued(s, plan, i, writer) ==
  LET next == IF i < Size(s) THEN Lines(s, i + 1) ELSE 0
  IN  IF Kind(s, i) = "--" \/ (Kind(s, i) = "/*" /\ next > 0)
        THEN Newline(writer, Max({1, next}), IndentFor(plan, i, s.depth[i])) ELSE writer

Rendered(s, plan, i, writer) ==
  LET placed == Placed(s, plan, i, writer)
      spaced == IF NeedsSpace(s.tok, s.depth, i) THEN SpaceOut(placed) ELSE placed
      itself == Write(spaced, s.tok[i])
      ended  == IF i = TerminalSemicolon(s).after THEN Write(itself, [k |-> ";", w |-> 1]) ELSE itself
  IN  IF i = TerminalSemicolon(s).omit THEN writer ELSE Continued(s, plan, i, ended)

RenderPlan(s, plan) ==
  LET upto[i \in 0 .. Size(s)] == IF i = 0 THEN Blank ELSE Rendered(s, plan, i, upto[i - 1])
  IN  upto[Size(s)].out

(***************************************************************************)
(* `validate_hard_width`: a line beyond the limit is a warning when one of *)
(* its tokens could not be shorter, an error otherwise.                    *)
(***************************************************************************)
EndOf(token) == token.from + token.w
LineOf(out, i) == LET first == Most({j \in 1 .. i : out[j].lb > 0}, 1)
                      last  == Least({j \in i + 1 .. Len(out) : out[j].lb > 0}, Len(out) + 1) - 1
                  IN  first .. last
OverHard(out, hard) == {i \in DOMAIN out : EndOf(out[Max(LineOf(out, i))]) > hard}

Indivisible(out, i, hard) ==
  LET indent == out[Min(LineOf(out, i))].from
  IN  \E j \in LineOf(out, i) : \/ indent + out[j].w > hard
                                \/ IsComment(out[j]) /\ EndOf(out[j]) > hard

HardWidth(out, hard) ==
  CASE OverHard(out, hard) = {} -> "fits"
    [] OverHard(out, hard) # {} /\ \A i \in OverHard(out, hard) : Indivisible(out, i, hard) -> "warned"
    [] OTHER -> "refused"
=============================================================================
