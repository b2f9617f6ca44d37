--------------------------- MODULE LiteralEnvelope ---------------------------
(***************************************************************************)
(* What surrounds the SQL of a literal over several lines: RawEnvelope of  *)
(* go.rs and Envelope of rust.rs.  Opening takes off the first line break, *)
(* the last line when it is blank, and the first line's indentation;       *)
(* wrapping puts the literal together again around the formatted text.     *)
(*                                                                         *)
(* "b" is a blank, "n" a line feed, "r" a carriage return.                 *)
(***************************************************************************)
EXTENDS Integers, Sequences, SequencesExt, FiniteSetsExt

White(c)     == c \in {"b", "n", "r"}
AllWhite(t)  == \A c \in Range(t) : White(c)
WithoutCR(t) == SelectSeq(t, LAMBDA c : c # "r")

(* str::split and str::lines: a line feed at the end begins no line, and a *)
(* carriage return before a line feed is no part of the line.              *)
Split(t) ==
  FoldLeft(LAMBDA ls, c : IF c = "n" THEN Append(ls, <<>>) ELSE Append(Front(ls), Append(Last(ls), c)), <<<<>>>>, t)

Line(l)  == IF l # <<>> /\ Last(l) = "r" THEN Front(l) ELSE l
Lines(t) ==
  LET ls == Split(t)
      ended == [k \in 1 .. Len(ls) - 1 |-> Line(ls[k])]
  IN  IF Last(ls) = <<>> THEN ended ELSE Append(ended, Last(ls))

Joined(ls, break) ==
  FlattenSeq([k \in DOMAIN ls |-> IF k = Len(ls) THEN ls[k] ELSE ls[k] \o break])

LeadingOf(t, S) == SubSeq(t, 1, Min({i \in DOMAIN t : t[i] \notin S} \cup {Len(t) + 1}) - 1)

(* The indentation of the first line that is not blank. *)
IndentOf(ls, S) ==
  LET said == {k \in DOMAIN ls : ~ AllWhite(ls[k])}
  IN  IF said = {} THEN <<>> ELSE LeadingOf(ls[Min(said)], S)

(* Seeded fault: as many characters are taken off, whatever they are. *)
Dedented_Blind(l, indent) == SubSeq(l, Len(indent) + 1, Len(l))
Dedented(l, indent) == IF IsPrefix(indent, l) THEN SubSeq(l, Len(indent) + 1, Len(l)) ELSE l

(* `rsplit_once('\n')`: the last line when it is blank, with its line feed. *)
BlankEnd(t) ==
  LET feeds == {i \in DOMAIN t : t[i] = "n"}
  IN  IF feeds # {} /\ AllWhite(SubSeq(t, Max(feeds), Len(t))) THEN SubSeq(t, Max(feeds), Len(t)) ELSE <<>>
Before(t, end)  == SubSeq(t, 1, Len(t) - Len(end))

TrimFeeds(t)    == SubSeq(t, 1, Max({0} \cup {i \in DOMAIN t : t[i] # "n"}))

(***************************************************************************)
(* Go.                                                                     *)
(***************************************************************************)
IsCrlfAt(t, i) == i < Len(t) /\ t[i] = "r" /\ t[i + 1] = "n"
OpenGo(t) ==
  LET break == IF \E i \in DOMAIN t : IsCrlfAt(t, i) THEN <<"r", "n">> ELSE <<"n">>
      lf    == FlattenSeq([i \in DOMAIN t |-> IF IsCrlfAt(t, i) THEN <<>> ELSE <<t[i]>>])
      end   == BlankEnd(Tail(lf))
      body  == Lines(Before(Tail(lf), end))
      indent == IndentOf(body, {"b", "r"})
  IN  IF lf = <<>> \/ Head(lf) # "n"
        THEN [sql |-> lf, break |-> break, multiline |-> FALSE, closing |-> <<>>]
        ELSE [sql |-> Joined([k \in DOMAIN body |-> Dedented(body[k], indent)], <<"n">>),
              break |-> break, multiline |-> TRUE, closing |-> IF end = <<>> THEN <<>> ELSE Tail(end)]

WrapGo(e, formatted) ==
  LET ls == Lines(TrimFeeds(formatted))
  IN  IF e.multiline
        THEN e.break \o FlattenSeq([k \in DOMAIN ls |-> ls[k] \o e.break]) \o e.closing
        ELSE Joined(ls, e.break)

(***************************************************************************)
(* Rust, on the value of the literal.                                      *)
(***************************************************************************)
OpenRust(t) ==
  LET leading == t # <<>> /\ Head(t) = "n"
      body    == IF leading THEN Tail(t) ELSE t
      suffix  == BlankEnd(body)
      sql     == Before(body, suffix)
      indent  == IndentOf(Lines(sql), {"b"})
  IN  [sql |-> IF leading /\ indent # <<>>
                 THEN LET ls == Split(sql) IN Joined([k \in DOMAIN ls |-> Dedented(ls[k], indent)], <<"n">>)
                 ELSE SubSeq(sql, Len(LeadingOf(sql, {"b"})) + 1, Len(sql)),
       multiline |-> leading, closing |-> suffix]

WrapRust(e, formatted) == (IF e.multiline THEN <<"n">> ELSE <<>>) \o TrimFeeds(formatted) \o e.closing
=============================================================================
