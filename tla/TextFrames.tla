----------------------------- MODULE TextFrames -----------------------------
(***************************************************************************)
(* text.rs and the line-ending part of source.rs: byte offsets, lines and  *)
(* columns of a text, and the two frames a CRLF source is seen in, its own *)
(* and the LF text that is formatted in its place.                         *)
(*                                                                         *)
(* Offsets count bytes from 0, lines and columns count from 1.             *)
(***************************************************************************)
EXTENDS Integers, Sequences, SequencesExt, FiniteSetsExt

(* Line feed, carriage return, and a character of each length in UTF-8.    *)
LF == "n"
CR == "r"
Char == {LF, CR, "a", "w", "e", "u"}

Bytes == [c \in Char |-> IF c = "w" THEN 2 ELSE IF c = "e" THEN 3 ELSE IF c = "u" THEN 4 ELSE 1]
Feed  == [c \in Char |-> IF c = LF THEN 1 ELSE 0]

(* What the first characters of a text weigh together. *)
Sums(t, weight) ==
  LET upto[i \in 0 .. Len(t)] == IF i = 0 THEN 0 ELSE upto[i - 1] + weight[t[i]]
  IN  upto

Offset(t, i) == Sums(t, Bytes)[i]
ByteLen(t)  == Offset(t, Len(t))
Between(a, b) == [start |-> a, end |-> b]

(* `is_char_boundary`; the characters before an offset, without the one it lies in. *)
Boundaries(t) == {Offset(t, i) : i \in 0 .. Len(t)}
Reach(t, offset) == Max({i \in 0 .. Len(t) : Offset(t, i) <= offset})

(***************************************************************************)
(* SourceIndex.                                                            *)
(***************************************************************************)
LineStarts(t) ==
  LET upto[i \in 0 .. Len(t)] ==
        IF i = 0 THEN <<0>> ELSE upto[i - 1] \o IF t[i] = LF THEN <<Offset(t, i)>> ELSE <<>>
  IN  upto[Len(t)]

Location(t, offset) ==
  LET at     == Reach(t, offset)
      starts == LineStarts(t)
      line   == Max({k \in DOMAIN starts : starts[k] <= Offset(t, at)})
  IN  [line |-> line, column |-> at - Reach(t, starts[line]) + 1]

LineCount(t) ==
  LET starts == LineStarts(t)
  IN  Len(starts) - IF starts[Len(starts)] = ByteLen(t) THEN 1 ELSE 0

LineSpan(t, line) ==
  LET starts == LineStarts(t)
  IN  Between(starts[line], IF line < Len(starts) THEN starts[line + 1] ELSE ByteLen(t))

(* The character that ends at an offset. *)
EndsWith(t, offset, c) == \E i \in 1 .. Len(t) : Offset(t, i) = offset /\ t[i] = c

(* The line without its terminator, LF or CRLF. *)
LineRange(t, line) ==
  LET span == LineSpan(t, line)
      lf   == IF EndsWith(t, span.end, LF) THEN 1 ELSE 0
      cr   == IF lf = 1 /\ span.end - 1 > span.start /\ EndsWith(t, span.end - 1, CR) THEN 1 ELSE 0
  IN  Between(span.start, span.end - lf - cr)

LineWidth(t, line) == Reach(t, LineRange(t, line).end) - Reach(t, LineRange(t, line).start)

(***************************************************************************)
(* Line endings: a source whose every line feed follows a carriage return  *)
(* is formatted with LF and written back with CRLF; its findings' ranges   *)
(* move by the line feeds before them.                                     *)
(***************************************************************************)
Feeds(t) == {i \in 1 .. Len(t) : t[i] = LF}
AfterCR(t, i) == i > 1 /\ t[i - 1] = CR

IsCrlf(t) == Feeds(t) # {} /\ \A i \in Feeds(t) : AfterCR(t, i)

WithoutCR(t) ==
  FlattenSeq([i \in 1 .. Len(t) |-> IF i < Len(t) /\ t[i] = CR /\ t[i + 1] = LF THEN <<>> ELSE <<t[i]>>])
WithCR(t) == FlattenSeq([i \in 1 .. Len(t) |-> IF t[i] = LF THEN <<CR, LF>> ELSE <<t[i]>>])

NormalizeNewlines(t) ==
  IF IsCrlf(t) THEN [text |-> WithoutCR(t), crlf |-> TRUE] ELSE [text |-> t, crlf |-> FALSE]
RestoreNewlines(t, crlf) == IF crlf THEN WithCR(t) ELSE t

(* Seeded fault: a line feed that ends right at the offset is not counted. *)
FeedsBefore_Strict(t, offset) == IF offset = 0 THEN 0 ELSE Sums(t, Feed)[Reach(t, offset - 1)]

FeedsBefore(t, offset) == Sums(t, Feed)[Reach(t, offset)]

OriginalOffset(t, offset, crlf) == IF crlf THEN offset + FeedsBefore(t, offset) ELSE offset

(***************************************************************************)
(* A source is brought into the frame it is formatted in, and the places   *)
(* of that frame back.  One call of several functions: TextCalls has the   *)
(* other functions.                                                        *)
(***************************************************************************)
VARIABLES call, answer

Unanswered == [fn |-> "none"]
Fresh(fn) == call.fn = fn /\ answer = Unanswered /\ UNCHANGED call
Answered(fn) == call.fn = fn /\ answer # Unanswered

Locate ==
  /\ Fresh("frames")
  /\ LET lf == NormalizeNewlines(call.text)
     IN  answer' = [text |-> lf.text, crlf |-> lf.crlf, back |-> RestoreNewlines(lf.text, lf.crlf),
                    mapped |-> [i \in 0 .. Len(lf.text) |->
                                  OriginalOffset(lf.text, Offset(lf.text, i), lf.crlf)]]

FrameSpec ==
  /\ call \in [fn : {"frames"}, text : Seq(Char)] /\ answer = Unanswered
  /\ [][Locate]_<<call, answer>>

(* What is formatted in place of a source becomes that source again when   *)
(* nothing changes, mixed line endings included, and every place of it has *)
(* the line and column its original place has: a finding printed from      *)
(* either frame points to the same character.                              *)
FramesAgree ==
  Answered("frames") =>
    /\ answer.back = call.text
    /\ \A i \in 0 .. Len(answer.text) :
         /\ answer.mapped[i] \in Boundaries(call.text)
         /\ Location(call.text, answer.mapped[i]) = Location(answer.text, Offset(answer.text, i))
         /\ i < Len(answer.text) =>
              \E j \in 1 .. Len(call.text) :
                /\ Offset(call.text, j) - Bytes[call.text[j]] = answer.mapped[i]
                /\ call.text[j] = answer.text[i + 1] \/ (answer.text[i + 1] = LF /\ call.text[j] = CR)

(* The lines of a text are its bytes once and in order, each byte is       *)
(* located in the line that holds it, and the column behind a line's last  *)
(* character is its width and one.                                         *)
LinesTile ==
  Answered("frames") =>
    LET t == call.text
        n == LineCount(t)
    IN  /\ n = 0 <=> t = <<>>
        /\ \A l \in 1 .. n :
             LET span == LineSpan(t, l)  range == LineRange(t, l)
             IN  /\ span.start = (IF l = 1 THEN 0 ELSE LineSpan(t, l - 1).end)
                 /\ l = n => span.end = ByteLen(t)
                 /\ \A b \in Boundaries(t) : span.start <= b /\ b < span.end => Location(t, b).line = l
                 /\ Location(t, range.end) = [line |-> l, column |-> LineWidth(t, l) + 1]

(* A coordinate means one place: in either frame, and between offsets and  *)
(* lines.                                                                  *)
CoordinatesAgree == FramesAgree /\ LinesTile
=============================================================================
