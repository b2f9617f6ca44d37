------------------------------ MODULE HostText ------------------------------
(***************************************************************************)
(* Go and Rust sources as the host adapters see them (src/src/host): a     *)
(* sequence of tokens, each on a line of its own, and what becomes of a    *)
(* SQL literal when its text is formatted and spelled as a literal again.  *)
(*                                                                         *)
(*   code     tokens of no interest; the first one is the package clause   *)
(*            or the first item                                            *)
(*   gap      an empty line                                                *)
(*   own      the start of a statement or item, up to its end; one within  *)
(*            another is in the block of a function literal, or the body   *)
(*            of a closure                                                 *)
(*   node     the start of a part that stands in no block of its own - an  *)
(*            argument, an element, a member of an impl - up to its end.   *)
(*            Only in Rust sources: Go asks for the statement              *)
(*   raw, quoted, joined                                                   *)
(*            a string literal, or a concatenation of literals of both     *)
(*            kinds; tail is the rest of a raw literal of several lines    *)
(*   dyn      a concatenation with an operand that is no literal           *)
(*                                                                         *)
(* The text of a literal is what the SQL formatter makes of it:            *)
(*   ugly, tick    one line, becomes several; tick has a back quote        *)
(*   rough         several lines, becomes one                              *)
(*   ctrl          one line with a character of U+0080-U+009F              *)
(*   nice, ticked, tidy, bell   what these become                          *)
(*   half, eased   two statements: one kept as it is, the other formatted  *)
(*                 or already formatted                                    *)
(*   odd           a statement that is kept as it is                       *)
(*   word, prose   not SQL; word starts like SQL                           *)
(*   fails         SQL whose formatting fails                              *)
(*   bytes         no text: invalid UTF-8 behind byte escapes              *)
(***************************************************************************)
EXTENDS SqlFindings

Laid == [t \in {"ugly", "tick", "rough", "ctrl", "half"} |->
          CASE t = "ugly" -> "nice" [] t = "tick" -> "ticked" [] t = "rough" -> "tidy"
            [] t = "ctrl" -> "bell" [] t = "half" -> "eased"]

SqlText      == DOMAIN Laid \cup {"nice", "ticked", "tidy", "bell", "eased", "odd", "word", "prose", "fails", "bytes"}
Opaque       == {"odd", "half", "eased"}      (* has a statement kept as it is *)
SeveralLines == {"rough", "half", "nice", "ticked", "eased"}
Control      == {"ctrl", "bell"}
BackQuoted   == {"tick", "ticked"}
SqlPrefix    == SqlText \ {"prose", "bytes"}

Directive   == {"sql", "ignore", "file"}
CommentText == Directive \cup {"bad", "made", "byhand", "note"}
Literal     == {"raw", "quoted", "joined"}
Opening     == {"own", "node"}
Token       == [kind : Opening \cup {"code", "gap", "end", "dyn", "tail"}, text : {"-"}]
                 \cup [kind : {"comment"}, text : CommentText]
                 \cup [kind : Literal, text : SqlText]

Tok(kind, text) == [kind |-> kind, text |-> text]
Mark(kind)      == Tok(kind, "-")

(***************************************************************************)
(* format_sql on the text of a literal: its result, and the rules of its   *)
(* findings.  The strict policy returns text with an opaque statement as   *)
(* it is.                                                                  *)
(***************************************************************************)
ParseFailure(t) == t \in {"word", "prose"}
Fails(t)        == ParseFailure(t) \/ t = "fails"

Formatted(policy, t) ==
  IF t \in DOMAIN Laid /\ ~ (policy = "error" /\ t \in Opaque) THEN Laid[t] ELSE t

FindingsOf(policy, t, i, j) ==
  {Finding("style", "error", TRUE, i, j) : k \in {t} \cap DOMAIN Laid}
    \cup {Finding("unsupported", Severity(policy), FALSE, i, j) : k \in {t} \cap Opaque}

(***************************************************************************)
(* The literal that stands for text t; encode and encode_raw.  Rust spells *)
(* control characters only as escapes; Go has no raw back quote.  Go's     *)
(* encode_interpreted writes a control character of one byte as \xNN,      *)
(* which decodes to a byte that is no UTF-8 from U+0080 on.                *)
(***************************************************************************)
Spelled(kind, t) ==
  IF kind = "raw" /\ t \in SeveralLines THEN <<Tok("raw", t), Mark("tail")>> ELSE <<Tok(kind, t)>>

PrefersRaw(style, t) == style = "prefer_raw" /\ t \in SeveralLines

GoKind(style, kind, t) ==
  IF kind = "raw" \/ (PrefersRaw(style, t) /\ t \notin BackQuoted) THEN "raw" ELSE "quoted"

RustKind(style, kind, t) ==
  IF (kind = "raw" \/ PrefersRaw(style, t)) /\ t \notin Control THEN "raw" ELSE "quoted"

GoEncoded(kind, t) == IF kind = "quoted" /\ t \in Control THEN "bytes" ELSE t
=============================================================================
