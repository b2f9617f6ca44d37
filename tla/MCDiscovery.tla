---------------------------- MODULE MCDiscovery ----------------------------
(***************************************************************************)
(* A small tree: a directory d with a SQL file, a text file, an ignored    *)
(* directory and two subdirectories that may be unreadable, and a file     *)
(* beside it.                                                              *)
(***************************************************************************)
EXTENDS Discovery

Dir  == <<"d">>
Sub  == <<"d", "s">>
Other == <<"d", "t">>
Gone == <<"d", "build">>
InSub == <<"d", "s", "b.sql">>
InGone == <<"d", "build", "g.sql">>
Text == <<"d", "c.txt">>
Top  == <<"a.sql">>
One  == <<"d", "a.sql">>

MCNode == {<<>>, Dir, Sub, Other, Gone, InSub, InGone, Text, Top, One}

Tree(sub, other, one, top, inSub) == [n \in MCNode |->
  CASE n \in {<<>>, Dir} -> "dir"
    [] n = Sub   -> sub
    [] n = Other -> other
    [] n = Gone  -> other
    [] n = One   -> one
    [] n = Top   -> top
    [] n = InSub -> inSub
    [] OTHER     -> "file"]

MCTrees == {Tree(sub, other, one, top, inSub) :
  sub \in {"dir", "broken"}, other \in {"dir", "broken"}, top \in {"file", "link"},
  one \in {"file", "link", "dangling", "absent"}, inSub \in {"file", "absent"}}

MCIgnored   == {Gone}
MCSupported == {InSub, InGone, Top, One}
MCVolatile  == {One, InSub}

Named(as, n)  == [as |-> as, node |-> n]
Paths(s)      == [git |-> FALSE, paths |-> s]
Candidates(s) == [git |-> TRUE, paths |-> s]

MCRequests ==
  {Paths(<<Named("plain", n)>>) : n \in {Dir, Text, Top, Sub}}
  \cup {Paths(<<Named("plain", Dir), Named(as, n)>>) : as \in {"plain", "dotted"}, n \in {Dir, Sub, One, Top}}
  \cup {Candidates(<<Named("plain", m), Named(as, n)>>) :
           as \in {"plain", "outside"}, m \in {One, InGone}, n \in {InSub, Top, Text}}
=============================================================================
