---------------------------- MODULE TypeAliases ----------------------------
(***************************************************************************)
(* type_aliases.rs: respelling built-in types as the project prefers.      *)
(*                                                                         *)
(* A text is a sequence of words, one byte each and one blank between, so  *)
(* that word i lies at 2 * (i - 1): a respelling with more words moves     *)
(* what follows.  "(" stands for a modifier in parentheses, "COPY" for the *)
(* start of a COPY statement whose header ends with ";", "END" for the end *)
(* line of its payload.                                                    *)
(* `Options.prefer` maps families to spellings.                            *)
(***************************************************************************)
EXTENDS Integers, Sequences, SequencesExt, FiniteSetsExt

CONSTANTS
  Types(_),    (* the parser: positions of the type names of a text          *)
  Parses(_)    (* the parser: is a text accepted at all                      *)

(***************************************************************************)
(* The tables.  `accepts` is what a configuration may ask for; alias_at    *)
(* tries the spellings of several words first.                             *)
(***************************************************************************)
Accepts == [
  smallint |-> {<<"smallint">>, <<"int2">>},
  integer |-> {<<"integer">>, <<"int">>, <<"int4">>},
  bigint |-> {<<"bigint">>, <<"int8">>},
  smallserial |-> {<<"smallserial">>, <<"serial2">>},
  serial |-> {<<"serial">>, <<"serial4">>},
  bigserial |-> {<<"bigserial">>, <<"serial8">>},
  boolean |-> {<<"boolean">>, <<"bool">>},
  character |-> {<<"character">>, <<"char">>},
  character_varying |-> {<<"character", "varying">>, <<"varchar">>},
  bit_varying |-> {<<"bit", "varying">>, <<"varbit">>},
  numeric |-> {<<"numeric">>, <<"decimal">>},
  real |-> {<<"real">>, <<"float4">>},
  double_precision |-> {<<"double", "precision">>, <<"float">>, <<"float8">>},
  time_with_time_zone |-> {<<"time", "with", "time", "zone">>, <<"timetz">>},
  timestamp_without_time_zone |-> {<<"timestamp">>, <<"timestamp", "without", "time", "zone">>},
  timestamp_with_time_zone |-> {<<"timestamp", "with", "time", "zone">>, <<"timestamptz">>}]

Family == DOMAIN Accepts

Long == [
  timestamp_without_time_zone |-> <<"timestamp", "without", "time", "zone">>,
  timestamp_with_time_zone |-> <<"timestamp", "with", "time", "zone">>,
  time_with_time_zone |-> <<"time", "with", "time", "zone">>,
  character_varying |-> <<"character", "varying">>,
  bit_varying |-> <<"bit", "varying">>,
  double_precision |-> <<"double", "precision">>]

Short == [
  smallint |-> {"smallint", "int2"}, integer |-> {"integer", "int", "int4"},
  bigint |-> {"bigint", "int8"}, smallserial |-> {"smallserial", "serial2"},
  serial |-> {"serial", "serial4"}, bigserial |-> {"bigserial", "serial8"},
  boolean |-> {"boolean", "bool"}, character |-> {"character", "char"},
  character_varying |-> {"varchar"}, bit_varying |-> {"varbit"},
  numeric |-> {"numeric", "decimal"}, real |-> {"real", "float4"},
  double_precision |-> {"float8"}, time_with_time_zone |-> {"timetz"},
  timestamp_without_time_zone |-> {"timestamp"}, timestamp_with_time_zone |-> {"timestamptz"}]

WordsAt(t, i, words) == i + Len(words) - 1 <= Len(t) /\ SubSeq(t, i, i + Len(words) - 1) = words

NoAlias == [family |-> "none", end |-> 0]
Alias(f, end) == [family |-> f, end |-> end]

(* The family spelled at word i and the last word of the spelling.         *)
(* `float(p)` is no alias.                                                 *)
ShortAt(t, i) ==
  IF t[i] = "float"
    THEN IF WordsAt(t, i, <<"float", "(">>) THEN NoAlias ELSE Alias("double_precision", i)
    ELSE IF \E f \in Family : t[i] \in Short[f]
           THEN Alias(CHOOSE f \in Family : t[i] \in Short[f], i) ELSE NoAlias

AliasAt(t, i) ==
  IF \E f \in DOMAIN Long : WordsAt(t, i, Long[f])
    THEN LET f == CHOOSE g \in DOMAIN Long : WordsAt(t, i, Long[g]) IN Alias(f, i + Len(Long[f]) - 1)
    ELSE ShortAt(t, i)

(***************************************************************************)
(* Replacements, first to last word, and their application from the end.   *)
(***************************************************************************)
Opaque(ranges, first, last) == \E r \in ranges : r[1] <= first /\ last <= r[2]

Replacements(t, prefer, ranges) ==
  {[first |-> i, last |-> AliasAt(t, i).end, words |-> prefer[AliasAt(t, i).family]] :
     i \in {j \in Types(t) :
            /\ AliasAt(t, j).family \in DOMAIN prefer
            /\ ~ Opaque(ranges, j, AliasAt(t, j).end)
            /\ SubSeq(t, j, AliasAt(t, j).end) # prefer[AliasAt(t, j).family]}}

InOrder(edits) == SetToSortSeq(edits, LAMBDA d, e : d.first < e.first)

Applied(t, edits) ==
  FoldRight(LAMBDA e, u : SubSeq(u, 1, e.first - 1) \o e.words \o SubSeq(u, e.last + 1, Len(u)), InOrder(edits), t)

Failed == [ok |-> FALSE, text |-> <<>>, edits |-> {}]
Same(t) == [ok |-> TRUE, text |-> t, edits |-> {}]

NormalizePlain(t, prefer, ranges) ==
  LET edits == Replacements(t, prefer, ranges)
      out   == Applied(t, edits)
  IN  IF ~ Parses(t) THEN Same(t)
      ELSE IF ~ Parses(out) THEN Failed
      ELSE [ok |-> TRUE, text |-> out, edits |-> edits]

(***************************************************************************)
(* Around a COPY payload: before it, its header and what follows are       *)
(* respelled on their own, each with the opaque ranges it contains.        *)
(***************************************************************************)
RelativeRanges(ranges, from, to) ==
  {<<r[1] - from, r[2] - from>> : r \in {q \in ranges : q[1] > from /\ q[2] <= to}}

(* Seeded fault: the edits behind a payload keep their own positions. *)
Moved_Not(edits, by) == edits

Moved(edits, by) == {[e EXCEPT !.first = @ + by, !.last = @ + by] : e \in edits}

CopyAt(t) ==
  LET Next(i, w) == {j \in i + 1 .. Len(t) : t[j] = w}
      headers    == {i \in DOMAIN t : t[i] = "COPY" /\ Next(i, ";") # {} /\ Next(Min(Next(i, ";")), "END") # {}}
  IN  IF headers = {} THEN {}
      ELSE LET h == Min(headers)  s == Min(Next(h, ";"))
           IN  {[header |-> h, rows |-> s + 1, end |-> Min(Next(s, "END"))]}

RECURSIVE Normalize(_, _, _)
Normalize(t, prefer, ranges) ==
  IF CopyAt(t) = {} THEN NormalizePlain(t, prefer, ranges)
  ELSE LET copy   == CHOOSE c \in CopyAt(t) : TRUE
           Slice(from, to) == Normalize(SubSeq(t, from, to), prefer, RelativeRanges(ranges, from - 1, to))
           prefix == Slice(1, copy.header - 1)
           header == Slice(copy.header, copy.rows - 1)
           suffix == Slice(copy.end + 1, Len(t))
       IN  IF ~ (prefix.ok /\ header.ok /\ suffix.ok) THEN Failed
           ELSE [ok |-> TRUE,
                 text  |-> prefix.text \o header.text \o SubSeq(t, copy.rows, copy.end) \o suffix.text,
                 edits |-> prefix.edits \cup Moved(header.edits, copy.header - 1) \cup Moved(suffix.edits, copy.end)]

(***************************************************************************)
(* Where a boundary of the input lies in the output: moved by every        *)
(* replacement that ends before it; one within a replacement is an error.  *)
(***************************************************************************)
Start(i) == 2 * (i - 1)
Length(n) == 2 * n - 1
EditStart(e) == Start(e.first)
EditEnd(e)   == Start(e.last) + 1

MapBoundary(edits, offset) ==
  IF \E e \in edits : EditStart(e) < offset /\ offset < EditEnd(e) THEN -1
  ELSE offset + MapThenSumSet(LAMBDA e : Length(Len(e.words)) - (EditEnd(e) - EditStart(e)),
                              {e \in edits : EditEnd(e) <= offset})

(***************************************************************************)
(* A PL/pgSQL declaration `name [CONSTANT] type`.                          *)
(***************************************************************************)
NormalizeDeclaration(t, prefer) ==
  LET i     == IF Len(t) > 1 /\ t[2] = "constant" THEN 3 ELSE 2
      alias == IF i > Len(t) THEN NoAlias ELSE AliasAt(t, i)
  IN  IF alias.family \notin DOMAIN prefer THEN t
      ELSE SubSeq(t, 1, i - 1) \o prefer[alias.family] \o SubSeq(t, alias.end + 1, Len(t))
=============================================================================
