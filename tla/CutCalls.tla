------------------------------ MODULE CutCalls ------------------------------
(***************************************************************************)
(* Where a document is cut before anything of it can be parsed             *)
(* (SqlLexing), against PostgreSQL's lexical grammar.                      *)
(***************************************************************************)
EXTENDS TextFrames

L == INSTANCE SqlLexing

Split ==
  /\ Fresh("split")
  /\ answer' = [semicolons |-> L!TopLevelSemicolons(call.text), copy |-> L!CopyRegion(call.text)]

CutSpec ==
  /\ call \in [fn : {"split"}, text : Seq(STRING)] /\ answer = Unanswered
  /\ [][Split]_<<call, answer>>

(***************************************************************************)
(* PostgreSQL's tokens: what starts at a place, where it ends, and whether *)
(* it is odd: one of the five constructs the formatter's own lexer reads   *)
(* otherwise than PostgreSQL does.                                         *)
(*   - an escape string with a backslash, in itself or in the string       *)
(*     that continues it on a later line;                                  *)
(*   - an identifier with a dollar in it;                                  *)
(*   - a parameter that looks like a dollar tag;                           *)
(*   - a comment that ends with its line at a lone carriage return;        *)
(*   - a dollar quote whose tag has a character beyond ASCII.              *)
(* Where an odd token ends is of no interest: nothing is claimed of its    *)
(* text.                                                                   *)
(***************************************************************************)
WordStart == {"a", "u", "E", "C"}
WordChar  == WordStart \cup {"1", "$"}
TagChar   == L!TagChar \cup {"u"}

Pair(t, i, first, second) == i < Len(t) /\ t[i] = first /\ t[i + 1] = second

FirstAfter(t, i, S) == Min({j \in i .. Len(t) : t[j] \notin S} \cup {Len(t) + 1})

(* A quote within a string is doubled.                                     *)
StringEnd(t, i, quote) ==
  LET end[k \in 1 .. Len(t) + 2] ==
        IF k > Len(t) THEN Len(t) + 1
        ELSE IF Pair(t, k, quote, quote) THEN end[k + 2]
        ELSE IF t[k] = quote THEN k + 1
        ELSE end[k + 1]
  IN  end[i]

(* A comment reaches to the end of its line, which a line feed, a carriage *)
(* return or both make.                                                    *)
Break(t, i) == Min({j \in i .. Len(t) : t[j] \in {"n", "r"}} \cup {Len(t)})

LoneReturn(t, i) == t[i] = "r" /\ ~ Pair(t, i, "r", "n")

BehindLine(t, i) ==
  IF Pair(t, Break(t, i), "r", "n") THEN Break(t, i) + 2 ELSE Break(t, i) + 1

(* A comment within a comment ends first.                                  *)
CommentEnd(t, i) ==
  LET end[k \in 1 .. Len(t) + 2] ==
        IF k > Len(t) THEN Len(t) + 1
        ELSE IF Pair(t, k, "/", "*") THEN end[end[k + 2]]
        ELSE IF Pair(t, k, "*", "/") THEN k + 2
        ELSE end[k + 1]
  IN  end[i]

(* A dollar quote ends with the first tag like the one it began with.      *)
DollarEnd(t, i, tag) ==
  LET S == {j \in i .. Len(t) - Len(tag) + 1 : SubSeq(t, j, j + Len(tag) - 1) = tag}
  IN  IF S = {} THEN Len(t) + 1 ELSE Min(S) + Len(tag)

Token(kind, to, odd) == [kind |-> kind, to |-> to, odd |-> odd]

TokenAt(t, i) ==
  LET string == StringEnd(t, IF Pair(t, i, "E", "q") THEN i + 2 ELSE i + 1, IF t[i] = "Q" THEN "Q" ELSE "q")
      word   == FirstAfter(t, i, WordChar)
      tag    == FirstAfter(t, i + 1, TagChar)
      tagged == L!At(t, tag) = "$"
  IN  CASE Pair(t, i, "E", "q") -> Token("word", string, \E j \in i .. string - 1 : t[j] = "B")
        [] t[i] \in WordStart /\ ~ Pair(t, i, "E", "q") -> Token("word", word, \E j \in i .. word - 1 : t[j] = "$")
        [] t[i] \in {"q", "Q"}  -> Token("word", string, FALSE)
        [] Pair(t, i, "-", "-") -> Token("space", BehindLine(t, i), LoneReturn(t, Break(t, i)))
        [] Pair(t, i, "/", "*") -> Token("space", CommentEnd(t, i + 2), FALSE)
        [] Pair(t, i, "$", "1") -> Token("word", FirstAfter(t, i + 1, {"1"}), tagged)
        [] t[i] = "$" /\ ~ Pair(t, i, "$", "1") ->
             Token("word", IF tagged THEN DollarEnd(t, tag + 1, SubSeq(t, i, tag)) ELSE i + 1,
                   tagged /\ \E j \in i .. tag : t[j] = "u")
        [] t[i] = "s"           -> Token("end", i + 1, FALSE)
        [] L!IsBlank(t[i])      -> Token("space", i + 1, FALSE)
        [] OTHER                -> Token("word", i + 1, FALSE)

(* The tokens that start up to a place: where the next one does, where     *)
(* statements end, the words with their ends, whether the last word is an  *)
(* escape string or continues one, and whether one is odd.                 *)
Unread == [next |-> 1, semis |-> <<>>, words |-> {}, escape |-> FALSE, odd |-> FALSE]

Escapes(read, t, i) ==
  \/ Pair(t, i, "E", "q")
  \/ read.escape /\ (t[i] = "q" \/ TokenAt(t, i).kind = "space")

ReadOn(read, t, i) ==
  LET token == TokenAt(t, i)
  IN  IF read.next # i THEN read
      ELSE [next   |-> token.to,
            semis  |-> IF token.kind = "end" THEN Append(read.semis, i) ELSE read.semis,
            words  |-> IF token.kind = "word" THEN read.words \cup {<<i, token.to>>} ELSE read.words,
            escape |-> Escapes(read, t, i),
            odd    |-> \/ read.odd \/ token.odd
                       \/ read.escape /\ t[i] = "q" /\ \E j \in i .. token.to - 1 : t[j] = "B"]

Grammar(t) ==
  LET upto[i \in 0 .. Len(t)] == IF i = 0 THEN Unread ELSE ReadOn(upto[i - 1], t, i)
  IN  upto[Len(t)]

(* The hand-written lexer sees the statements PostgreSQL sees, through     *)
(* quotes, nested comments, dollar quotes and their look-alikes, in every  *)
(* text without one of the five odd constructs.                            *)
SplitsLikePostgreSQL ==
  Answered("split") /\ ~ Grammar(call.text).odd => answer.semicolons = Grammar(call.text).semis

(***************************************************************************)
(* COPY payloads.                                                          *)
(***************************************************************************)
From(semis, k) == IF k = 1 THEN 1 ELSE semis[k - 1] + 1

(* The end lines behind a semicolon, whose line's rest may be one itself.  *)
EndLine(t, i)     == t[i] = "P" /\ \E j \in i .. Len(t) :
                       (\A k \in i + 1 .. j : t[k] = "r") /\ (j = Len(t) \/ t[j + 1] = "n")
Payload(t, semi)  == {i \in semi + 1 .. Len(t) : EndLine(t, i) /\ (i = semi + 1 \/ t[i - 1] = "n")}

(* The statement that ends with the k-th semicolon is a COPY FROM STDIN    *)
(* and no more, and an end line follows.                                   *)
IsCopy(t, semis, words, k) ==
  /\ Payload(t, semis[k]) # {}
  /\ \E c \in DOMAIN t : t[c] = "C" /\ {w \in words : From(semis, k) <= w[1] /\ w[1] < semis[k]} = {<<c, c + 1>>}

(* A payload is only looked for behind a COPY statement of its own - one   *)
(* quoted, commented out or part of another statement is none -, it is the *)
(* first COPY that has an end line, and it reaches to the first of these.  *)
CopyIsTopLevel ==
  Answered("split") /\ ~ Grammar(call.text).odd =>
    LET t      == call.text
        semis  == Grammar(t).semis
        copies == {k \in DOMAIN semis : IsCopy(t, semis, Grammar(t).words, k)}
        semi   == semis[Min(copies)]
    IN  answer.copy = IF copies = {} THEN <<0, 0>> ELSE <<semi, L!LineEnd(t, Min(Payload(t, semi)))>>

(* Where a document is cut before anything of it can be parsed: between    *)
(* statements and around COPY payloads, as PostgreSQL would.               *)
DocumentIsCut == SplitsLikePostgreSQL /\ CopyIsTopLevel
=============================================================================
