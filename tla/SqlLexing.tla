----------------------------- MODULE SqlLexing -----------------------------
(***************************************************************************)
(* The lexing formatter/mod.rs does by hand to find COPY payloads before   *)
(* anything can be parsed (`top_level_semicolons`, `dollar_tag_at`,        *)
(* `find_copy_stdin_region`, `copy_stdin_payload_end`), and the trimming   *)
(* of what lies between statements (`normalize_document_gap`) and within   *)
(* comments (tokens.rs).                                                   *)
(*                                                                         *)
(* A text is a sequence of characters.  "a" is a letter of ASCII or an     *)
(* underscore, "u" any character beyond ASCII, "1" any digit, "E" the      *)
(* letter that makes an escape string, "q" a quote, "Q" a double quote,    *)
(* "n" a line feed, "r" a carriage return, "b" a blank or tab, "B" a       *)
(* backslash.  "C" is a whole `COPY t FROM STDIN`, "P" the two characters  *)
(* of an end line, "s" is a semicolon.                                     *)
(***************************************************************************)
EXTENDS Integers, Sequences, SequencesExt, FiniteSetsExt

IsBlank(c) == c \in {"b", "n", "r"}
TagChar    == {"a", "E", "1"}
At(t, i)   == IF i \in DOMAIN t THEN t[i] ELSE "none"

(* The end of a dollar tag that starts at i, or 0: letters of ASCII and    *)
(* digits up to the next dollar.                                           *)
DollarTagAt(t, i) ==
  LET end == Min({j \in i + 1 .. Len(t) + 1 : At(t, j) \notin TagChar})
  IN  IF At(t, end) = "$" THEN end ELSE 0

Normal == [in |-> "normal", tag |-> <<>>, depth |-> 0]
In(what) == [Normal EXCEPT !.in = what]

(***************************************************************************)
(* One turn of the loop: the state after it and how far it moves.          *)
(***************************************************************************)
Turn(state, by) == [state |-> state, by |-> by]

Quoted(t, i, what, quote) ==
  CASE At(t, i) # quote                           -> Turn(In(what), 1)
    [] At(t, i) = quote /\ At(t, i + 1) = quote   -> Turn(In(what), 2)
    [] OTHER                                      -> Turn(Normal, 1)

(* Seeded fault: comments do not nest. *)
Commented_Flat(t, i, depth) ==
  IF At(t, i) = "*" /\ At(t, i + 1) = "/" THEN Turn(Normal, 2)
                                          ELSE Turn([In("block") EXCEPT !.depth = depth], 1)

Commented(t, i, depth) ==
  CASE At(t, i) = "/" /\ At(t, i + 1) = "*" -> Turn([In("block") EXCEPT !.depth = depth + 1], 2)
    [] At(t, i) = "*" /\ At(t, i + 1) = "/" ->
         Turn(IF depth = 1 THEN Normal ELSE [In("block") EXCEPT !.depth = depth - 1], 2)
    [] OTHER -> Turn([In("block") EXCEPT !.depth = depth], 1)

Outside(t, i) ==
  CASE At(t, i) = "q"                         -> Turn(In("single"), 1)
    [] At(t, i) = "Q"                         -> Turn(In("double"), 1)
    [] At(t, i) = "-" /\ At(t, i + 1) = "-"   -> Turn(In("line"), 2)
    [] At(t, i) = "/" /\ At(t, i + 1) = "*"   -> Turn([In("block") EXCEPT !.depth = 1], 2)
    [] At(t, i) = "$" /\ DollarTagAt(t, i) # 0 ->
         Turn([In("dollar") EXCEPT !.tag = SubSeq(t, i, DollarTagAt(t, i))], DollarTagAt(t, i) - i + 1)
    [] OTHER                                  -> Turn(Normal, 1)

Dollar(t, i, state) ==
  IF i + Len(state.tag) - 1 <= Len(t) /\ SubSeq(t, i, i + Len(state.tag) - 1) = state.tag
    THEN Turn(Normal, Len(state.tag)) ELSE Turn(state, 1)

Lexed(t, i, state) ==
  CASE state.in = "normal" -> Outside(t, i)
    [] state.in = "single" -> Quoted(t, i, "single", "q")
    [] state.in = "double" -> Quoted(t, i, "double", "Q")
    [] state.in = "dollar" -> Dollar(t, i, state)
    [] state.in = "line"   -> Turn(IF At(t, i) = "n" THEN Normal ELSE state, 1)
    [] state.in = "block"  -> Commented(t, i, state.depth)

(***************************************************************************)
(* The loop, once it is behind a character: its state, the index of its    *)
(* next turn, and the semicolons pushed; of the characters read, those     *)
(* that are neither blank nor in a comment, which is what the parser sees. *)
(***************************************************************************)
Start == [state |-> Normal, next |-> 1, semicolons |-> <<>>, code |-> {}]

Seen(c, before, after) == ~ IsBlank(c) /\ {before.in, after.in} \cap {"line", "block"} = {}

Passed(loop, t, i) ==
  LET turn == Lexed(t, i, loop.state)
  IN  IF loop.next # i THEN loop
      ELSE [state      |-> turn.state,
            next       |-> i + turn.by,
            semicolons |-> IF loop.state = Normal /\ t[i] = "s" THEN Append(loop.semicolons, i) ELSE loop.semicolons,
            code       |-> IF Seen(t[i], loop.state, turn.state) THEN loop.code \cup {i} ELSE loop.code]

Lex(t) ==
  LET upto[i \in 0 .. Len(t)] == IF i = 0 THEN Start ELSE Passed(upto[i - 1], t, i)
  IN  upto[Len(t)]

TopLevelSemicolons(t) == Lex(t).semicolons

(***************************************************************************)
(* The first statement that is a COPY FROM STDIN and has an end line.      *)
(* What pg_query makes of a candidate is read off the loop's own states:   *)
(* a COPY and no more outside of comments.  The two agree in every text    *)
(* without the constructs CutCalls calls odd, and only of these texts is   *)
(* anything claimed.                                                       *)
(***************************************************************************)
IsCopyHeader(candidate) ==
  \E c \in DOMAIN candidate : candidate[c] = "C" /\ Lex(candidate).code = {c, Len(candidate)}

LineEnd(t, i) == Min({j \in i .. Len(t) : t[j] = "n"} \cup {Len(t)})

(* The end of the first line from i on that is an end line and nothing     *)
(* else but carriage returns, or 0.  The first of these lines is the rest  *)
(* of the header's own.                                                    *)
PayloadEnd(t, i) ==
  LET starts == {i} \cup {j \in i + 1 .. Len(t) : t[j - 1] = "n"}
      ends   == {LineEnd(t, s) : s \in {u \in starts \cap DOMAIN t :
                    t[u] = "P" /\ \A j \in u + 1 .. LineEnd(t, u) : t[j] \in {"r", "n"}}}
  IN  IF ends = {} THEN 0 ELSE Min(ends)

StatementStart(t, semis, k) == IF k = 1 THEN 1 ELSE semis[k - 1] + 1

CopyRegion(t) ==
  LET semis   == TopLevelSemicolons(t)
      headers == {k \in DOMAIN semis : /\ IsCopyHeader(SubSeq(t, StatementStart(t, semis, k), semis[k]))
                                       /\ PayloadEnd(t, semis[k] + 1) # 0}
  IN  IF headers = {} THEN <<0, 0>>
      ELSE LET k == Min(headers) IN <<semis[k], PayloadEnd(t, semis[k] + 1)>>

(***************************************************************************)
(* Trailing blanks go from each line of a gap between statements, and from *)
(* its last line when no statement follows; a CRLF becomes LF.  Within a   *)
(* comment a carriage return ends a line, too, and stays.                  *)
(***************************************************************************)
BlankUpTo(t, i, j) == \A k \in i .. j - 1 : t[k] = "b"
IsCrlfAt(t, i)     == At(t, i) = "r" /\ At(t, i + 1) = "n"

TrailsIn(t, i, last) ==
  t[i] = "b" /\ \E j \in i + 1 .. Len(t) + 1 :
    BlankUpTo(t, i, j) /\ (IF j > Len(t) THEN last ELSE t[j] = "n" \/ IsCrlfAt(t, j))

NormalizeGap(t, final) ==
  FlattenSeq([i \in DOMAIN t |-> IF TrailsIn(t, i, final) \/ IsCrlfAt(t, i) THEN <<>> ELSE <<t[i]>>])

TrailsComment(t, i) ==
  t[i] = "b" /\ \E j \in i + 1 .. Len(t) + 1 : BlankUpTo(t, i, j) /\ At(t, j) \in {"n", "r", "none"}

NormalizeComment(t) == SelectSeq([i \in DOMAIN t |-> IF TrailsComment(t, i) THEN "gone" ELSE t[i]],
                                 LAMBDA c : c # "gone")
=============================================================================
