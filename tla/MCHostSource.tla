---------------------------- MODULE MCHostSource ----------------------------
(***************************************************************************)
(* Sources of both languages in five families, each with the settings it  *)
(* is about: where directives and statements may stand, what a literal may *)
(* hold and what it is spelled as, and what may stand before the first     *)
(* item.                                                                   *)
(***************************************************************************)
EXTENDS HostSource

Setting(policy, auto, kinds, generated, style) ==
  [policy |-> policy, auto |-> auto, kinds |-> kinds, generated |-> generated, style |-> style]

Both    == {"raw", "quoted"}
Say(w)  == Tok("comment", w)
Default == Setting("skip", TRUE, Both, TRUE, "prefer_raw")

(* Statements and parts are closed, never before they are opened. *)
Balanced(d) ==
  LET Opened(i) == Cardinality({j \in 1 .. i : d[j].kind \in Opening})
      Shut(i)   == Cardinality({j \in 1 .. i : d[j].kind = "end"})
  IN  Opened(Len(d)) = Shut(Len(d)) /\ \A i \in DOMAIN d : Shut(i) <= Opened(i)

Flat(n, chunks) == {FlattenSeq(c) : c \in UNION {[1 .. m -> chunks] : m \in 0 .. n}}
Bodies(n, chunks) == {d \in Flat(n, chunks) : Balanced(d)}

(* Every arrangement of markers, gaps, statements and literals. *)
U == Tok("quoted", "ugly")
O == Mark("own")
E == Mark("end")
Arranged ==
  {<<Mark("code")>> \o d :
     d \in Bodies(5, {<<Say("sql")>>, <<Say("ignore")>>, <<Mark("gap")>>, <<O>>, <<O, U>>, <<U>>, <<E>>, <<U, E>>})}

(* Rust: markers above the parts of statements and of parts. *)
P == Mark("node")
Parted ==
  {<<Mark("code")>> \o d :
     d \in Bodies(5, {<<Say("sql")>>, <<Say("ignore")>>, <<O>>, <<P>>, <<P, U, E>>, <<U>>, <<E>>, <<E, E>>})}

(* Every kind and text, alone and next to another, marked or not. *)
Held == ([kind : {"raw"}, text : SqlText \ (BackQuoted \cup {"bytes"})]
          \cup [kind : {"quoted", "joined"}, text : SqlText] \cup {Mark("dyn")})
Beside == {Tok("quoted", "ugly"), Tok("raw", "nice"), Tok("quoted", "odd"), Tok("joined", "tidy"), Tok("raw", "half")}
Whole(t) == IF t = Mark("dyn") THEN <<t>> ELSE Spelled(t.kind, t.text)
HeldBodies ==
  {<<Mark("code")>> \o m \o <<O>> \o Whole(a) \o b \o <<E>> :
     m \in {<<>>, <<Say("sql")>>}, a \in Held, b \in {<<>>} \cup {Whole(t) : t \in Beside}}

(* Comments before and behind the first item. *)
Headed ==
  {h \o <<Mark("code"), O, U, E>> \o t :
     h \in Flat(3, {<<Say("file")>>, <<Say("made")>>, <<Say("byhand")>>, <<Say("bad")>>, <<Say("note")>>, <<Mark("gap")>>, <<Say("sql")>>}),
     t \in {<<>>, <<Say("file")>>, <<Say("byhand")>>, <<Say("sql")>>}}

Lang == {"go", "rust"}
Sources(docs, settings) == [lang : Lang, options : settings, doc : docs]

MCInputs ==
  Sources(Arranged, {Default, Setting("skip", FALSE, Both, TRUE, "prefer_raw")})
    \cup [lang : {"rust"}, options : {Default, Setting("skip", FALSE, Both, TRUE, "prefer_raw")}, doc : Parted]
    \cup Sources(HeldBodies, {Setting(p, a, k, TRUE, s) : p \in Policy, a \in BOOLEAN,
                               k \in {Both, {"raw"}, {"quoted"}}, s \in {"prefer_raw", "preserve"}})
    \cup Sources(Headed, {Default, Setting("skip", TRUE, Both, FALSE, "prefer_raw")})

HeldInputs == Sources(HeldBodies, {Setting(p, TRUE, k, TRUE, "prefer_raw") : p \in Policy, k \in {Both, {"quoted"}}})
=============================================================================
