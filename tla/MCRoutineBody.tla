---------------------------- MODULE MCRoutineBody ----------------------------
(***************************************************************************)
(* Bodies built from the productions of PL/pgSQL's grammar: each with its  *)
(* units as the grammar divides it, and a text in which the layout of the  *)
(* words is free.                                                          *)
(***************************************************************************)
EXTENDS RoutineBody

U(ws)   == <<[before |-> ws, clause |-> <<>>, after |-> <<>>, depth |-> 0]>>
In(us)  == [i \in DOMAIN us |-> [us[i] EXCEPT !.depth = @ + 1]]
Header(w, c) == U(<<w>> \o c \o <<"THEN">>)

If(c, s)           == Header("IF", c) \o In(s) \o U(<<"END", "IF", ";">>)
IfElse(c, s, e, t) == Header("IF", c) \o In(s) \o e \o In(t) \o U(<<"END", "IF", ";">>)
Loop(h, s)         == U(h \o <<"LOOP">>) \o In(s) \o U(<<"END", "LOOP", ";">>)
Case(h, c, s, t)   == U(<<"CASE">> \o h) \o In(Header("WHEN", c) \o In(s))
                        \o In(IF t = <<>> THEN <<>> ELSE U(<<"ELSE">>) \o In(t)) \o U(<<"END", "CASE", ";">>)
Handlers(s, t)     == U(<<"EXCEPTION">>) \o In(Header("WHEN", <<"x">>) \o In(s))
                        \o (IF t = <<>> THEN <<>> ELSE In(Header("WHEN", <<"v">>) \o In(t)))
Block(d, s, h, e)  == (IF d = <<>> THEN <<>> ELSE U(<<"DECLARE">>) \o In(d))
                        \o U(<<"BEGIN">>) \o In(s) \o h \o U(<<"END">> \o e)

X       == <<"x">>
Chosen  == <<"CASE", "WHEN", "x", "THEN", "v", "END">>
Assign  == U(<<"x", ":=", "v", ";">>)
Select  == U(<<"SELECT", "x", ";">>)
Grant   == U(<<"GRANT", "x", ";">>)
Raise   == U(<<"RAISE", "x", ";">>)
Into(b, strict, a) ==
  <<[before |-> <<"SELECT">> \o b,
     clause |-> IF strict THEN <<"INTO", "STRICT", "x">> ELSE <<"INTO", "x">>,
     after |-> a \o <<";">>, depth |-> 0]>>
Declared == U(<<"x", "varchar", ":=", "v", ";">>)

(* Every structure around s, with t in its other branch. *)
Around(s, t) ==
  {If(X, s), IfElse(X, s, U(<<"ELSE">>), t), IfElse(X, s, Header("ELSIF", X), t),
   Loop(<<>>, s), Loop(<<"WHILE", "x">>, s), Case(X, X, s, t), Case(<<>>, X, s, <<>>),
   Block(<<>>, s, <<>>, <<";">>), Block(Declared, s, Handlers(t, s), <<";">>), Block(<<>>, t, Handlers(s, <<>>), <<"x", ";">>),
   U(<<"label">>) \o Loop(<<"FOR", "x">>, s)}

One    == Around(Select \o Grant, Raise)
Nested == UNION {Around(s, Raise) \cup Around(Assign, s) : s \in Around(Assign, Raise)}
Roots  == {Block(Declared \o Declared, s, Handlers(Raise, Assign), <<>>) : s \in One}
            \cup {Block(<<>>, s, <<>>, <<";">>) : s \in Nested}
            \cup {Block(<<>>, s \o t, <<>>, <<";">>) : s \in Around(Assign, Raise), t \in One}

Leaf == {Assign, Select, Grant, U(<<"CALL", "x", ";">>), U(<<"NULL", ";">>),
         U(<<"SELECT", "varchar", ";">>), U(<<"COMMIT", ";">>), U(<<"ROLLBACK", ";">>),
         U(<<"x", ":=">> \o Chosen \o <<";">>), U(<<"RETURN", ";">>), U(<<"RETURN", "QUERY", "SELECT", "x", ";">>),
         U(<<"ASSERT", "x", ";">>), U(<<"RETURN">> \o Chosen \o <<";">>)}
        \cup {Into(b, s, a) : b \in {<<>>, X, <<"varchar">>}, s \in BOOLEAN, a \in {<<>>, X, <<"v", "varchar">>}}

Simple(s)  == Block(<<>>, s, <<>>, <<";">>)
Queries    == {l \in Leaf : l[1].before[1] = "SELECT"}
LeafBodies == {Simple(a \o If(X, b)) : a, b \in Leaf} \cup {Simple(Select \o a \o Assign \o a) : a \in Queries}

(* Conditions with structures of their own, and an END that is not closed. *)
Paren == <<"(">> \o Chosen \o <<")">>
Conditions ==
  {Simple(s) : s \in UNION {
     {If(c, Assign), IfElse(X, Raise, Header("ELSIF", c), Assign), Loop(<<"WHILE">> \o c, Assign),
      Case(<<>>, c, Assign, Raise), Case(c, X, Assign, Raise), Case(<<>>, c, Raise, Assign),
      IfElse(X, Assign, Header("ELSEIF", c), Assign), IfElse(X, Assign, Header("ELSEIF", c), Raise)} : c \in {X, Chosen, Paren}}}
    \cup {Block(<<>>, Assign, <<>>, <<"x">>), Block(<<>>, Assign, <<>>, <<>>)}

-----------------------------------------------------------------------------
WordsOf(us) == FlattenSeq([i \in DOMAIN us |-> us[i].before \o us[i].clause \o us[i].after])
Tok(w, b, m) == [word |-> w, breaks |-> b, margin |-> m]

Compact(us) == LET ws == WordsOf(us) IN [i \in DOMAIN ws |-> Tok(ws[i], 0, 0)]
Spread(us)  == FlattenSeq([i \in DOMAIN us |->
                 LET ws == WordsOf(<<us[i]>>) IN [k \in DOMAIN ws |-> IF k = 1 THEN Tok(ws[k], 2, 3) ELSE Tok(ws[k], 0, 0)]])

Typed(uss) == UNION {{[units |-> us, text |-> t] : t \in {Compact(us), Spread(us)}} : us \in uss}

(* A comment anywhere, or two, with every distance to what is next to it.  *)
Noted(t, i, before, after) ==
  SubSeq(t, 1, i) \o <<Tok("note", before, before)>>
    \o IF i = Len(t) THEN <<>> ELSE <<Tok(t[i + 1].word, after, after)>> \o SubSeq(t, i + 2, Len(t))

OneNote(t)  == {Noted(t, i, b, a) : i \in 0 .. Len(t), b, a \in 0 .. 2}
TwoNotes(t) == UNION {{Noted(n, i, b, 1) : i \in 0 .. Len(n), b \in {0, 1}} : n \in {Noted(t, i, 0, 0) : i \in 0 .. Len(t)}}

Commented ==
  LET all  == Block(Declared, Into(<<"varchar">>, TRUE, X) \o Grant, Handlers(Raise, Assign), <<>>)
      some == {Simple(IfElse(X, Grant, U(<<"ELSE">>), U(<<"RETURN", "QUERY", "SELECT", "x", ";">>))),
               Simple(Case(X, X, Grant, Raise))}
      tiny == Simple(Loop(<<>>, Grant))
  IN  {[units |-> all, text |-> t] : t \in OneNote(Compact(all)) \cup OneNote(Spread(all))}
        \cup UNION {{[units |-> u, text |-> t] : t \in OneNote(Compact(u))} : u \in some}
        \cup {[units |-> tiny, text |-> t] : t \in TwoNotes(Compact(tiny))}

MCBodies == Typed(Roots \cup LeafBodies \cup Conditions) \cup Commented
=============================================================================
