---------------------------- MODULE MCTextCalls ----------------------------
(***************************************************************************)
(* Bounded arguments for TextCalls.                                        *)
(***************************************************************************)
EXTENDS TextCalls

UpTo(S, n) == UNION {[1 .. k -> S] : k \in 0 .. n}

Texts(fn, S) == {[fn |-> fn, text |-> t] : t \in S}

(* Quotes, comments and dollar quotes with what looks like their end, each *)
(* around a semicolon; COPY headers and end lines in all of these.         *)
SplitTexts == <<
  Texts("split", UpTo({"q", "Q", "s", "n"}, 5)),
  Texts("split", UpTo({"-", "n", "/", "*", "s"}, 6)),
  Texts("split", UpTo({"-", "n", "r", "s"}, 6)),
  Texts("split", UpTo({"$", "a", "u", "s"}, 6)),
  Texts("split", UpTo({"$", "a", "1", "s", "q"}, 6)),
  Texts("split", UpTo({"E", "q", "B", "s"}, 5)),
  Texts("split", {<<"E", "q", "q", "n", "q">> \o u : u \in UpTo({"q", "B", "s"}, 4)}),
  Texts("split", {h \o <<"C", "s">> \o u : h \in UpTo({"q", "-", "n", "s", "a"}, 3), u \in UpTo({"n", "P", "r", "q"}, 3)}),
  Texts("split", {<<"C", "s", "n">> \o u \o <<"C", "s", "n", "P">> : u \in UpTo({"n", "P", "q", "a"}, 3)}),
  Texts("split", {<<"/", "*">> \o u \o <<"C", "s", "n", "P">> : u \in UpTo({"/", "*", "s", "n"}, 4)})>>

TokenTexts == <<
  Texts("shape", UpTo({"(", ")", "[", "]", "x"}, 6)),
  Texts("clauses", UpTo({"NATURAL", "LEFT", "OUTER", "JOIN", "comment"}, 5)),
  Texts("clauses", UpTo({"INNER", "NATURAL", "JOIN", "comment", "x"}, 4)),
  Texts("clauses", UpTo({".", "FROM", "GROUP", "BY", "comment", "ORDER"}, 4))>>

(***************************************************************************)
(* Types in every spelling, two of a statement, around a COPY payload and  *)
(* in declarations, under three preferences.                               *)
(***************************************************************************)
AllLong  == [f \in A!Family |-> CHOOSE w \in A!Accepts[f] : \A v \in A!Accepts[f] : Len(v) <= Len(w)]
AllShort == [f \in A!Family |-> CHOOSE w \in A!Accepts[f] : Len(w) = 1 /\ w # <<"float">>]
Float    == [f \in {"double_precision", "integer"} |-> IF f = "integer" THEN <<"int">> ELSE <<"float">>]
Preferences == {AllLong, AllShort, Float}

Spelled == {f.words : f \in Forms}
Few == {<<"int4">>, <<"float", "(">>, <<"character", "varying", "(">>, <<"varchar">>, <<"x">>, <<"as", "bool">>,
        <<"timestamptz">>, <<"timestamp", "(", "with", "time", "zone">>, <<"double", "precision">>}

Respelled(t, p, o) == [fn |-> "aliases", text |-> t, prefer |-> p, opaque |-> o]
TypeTexts == {s \o u : s \in Spelled, u \in Few} \cup {u \o s : s \in Spelled, u \in Few}
CopyTexts == {u \o <<"COPY">> \o h \o <<";", "int4", "END">> \o s \o r :
                 u \in Few, h \in {<<>>, <<"varchar">>}, s \in Few, r \in {<<>>, <<"COPY", ";", "varchar", "END", "float8">>}}

AliasTexts == <<
  {Respelled(t, p, {}) : t \in TypeTexts, p \in Preferences},
  {Respelled(t, p, {}) : t \in CopyTexts, p \in Preferences},
  {Respelled(u \o s, AllLong, {<<1, Len(u)>>}) : u \in Few, s \in Few},
  {Respelled(u \o <<"COPY", ";", "bool", "END">> \o s \o u, p, {<<Len(u) + 5, Len(u) + 4 + Len(s)>>}) :
           u \in Few, s \in Few, p \in {AllLong, AllShort}},
  {[fn |-> "declaration", text |-> <<"v">> \o c \o s, prefer |-> p] :
     c \in {<<>>, <<"constant">>}, s \in Spelled, p \in Preferences}>>

(* Literals, and what formatting may make of their SQL: a text that begins *)
(* with a statement or a comment and does not end in blanks.               *)
Formatted == {<<"a">> \o t : t \in {<<>>, <<"n">>, <<"n", "a">>, <<"n", "b", "a">>, <<"n", "n", "a", "n">>, <<"b", "n", "b", "b", "a">>}}
EnvelopeTexts == <<
  [fn : {"envelope"}, host : {"go", "rust"}, text : UpTo({"b", "n", "a"}, 6), formatted : Formatted],
  [fn : {"envelope"}, host : {"go", "rust"}, text : UpTo({"b", "n", "a", "r"}, 4), formatted : Formatted]>>

MCCalls == EnvelopeTexts \o <<Texts("frames", UpTo({"a", "w", "r", "n"}, 5) \cup UpTo(Char, 4)),
                              Texts("trim", UpTo({"b", "n", "r", "a"}, 6))>>
           \o SplitTexts \o TokenTexts \o AliasTexts
=============================================================================
