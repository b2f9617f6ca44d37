----------------------------- MODULE TextCalls -----------------------------
(***************************************************************************)
(* The formatter's algorithms on texts and tokens, each against what it    *)
(* is for: one action per function, from its argument to its answer.       *)
(*                                                                         *)
(* The second definition a property uses is PostgreSQL's lexical or type   *)
(* grammar, or the meaning of the answer, never the code's way to it.      *)
(* The coordinates of a text and their action Locate are TextFrames'.      *)
(***************************************************************************)
EXTENDS TokenCalls, CutCalls

CONSTANT Calls     (* families of arguments: records with a field `fn`        *)

E == INSTANCE LiteralEnvelope

(***************************************************************************)
(* PostgreSQL's spellings of the types the project may respell: the forms  *)
(* without and with a modifier.  The word behind `as` is a name, whatever  *)
(* it is.                                                                  *)
(***************************************************************************)
Aliases == INSTANCE TypeAliases WITH Types <- LAMBDA t : {}, Parses <- LAMBDA t : TRUE

TakesModifier == {<<"numeric">>, <<"decimal">>, <<"character">>, <<"char">>, <<"character", "varying">>,
  <<"varchar">>, <<"bit", "varying">>, <<"varbit">>, <<"timestamp">>, <<"timestamptz">>, <<"timetz">>}

Form(w, f, m) == [words |-> w, family |-> f, modified |-> m]
Forms ==
  {Form(w, f, FALSE) : <<w, f>> \in UNION {Aliases!Accepts[f] \X {f} : f \in Aliases!Family}}
  \cup {Form(Append(w, "("), f, TRUE) :
           <<w, f>> \in UNION {(Aliases!Accepts[f] \cap TakesModifier) \X {f} : f \in Aliases!Family}}
  \cup {Form(<<"float", "(">>, "float_p", TRUE),
        Form(<<"time", "(", "with", "time", "zone">>, "time_with_time_zone", TRUE),
        Form(<<"timestamp", "(", "with", "time", "zone">>, "timestamp_with_time_zone", TRUE),
        Form(<<"timestamp", "(", "without", "time", "zone">>, "timestamp_without_time_zone", TRUE)}

FormsAt(t, i) == {f \in Forms : i + Len(f.words) - 1 <= Len(t) /\ SubSeq(t, i, i + Len(f.words) - 1) = f.words}
Longest(S) == CHOOSE f \in S : \A g \in S : Len(g.words) <= Len(f.words)

Word(at)      == [at |-> at, family |-> "none", modified |-> FALSE, words |-> <<>>]
TypeAt(at, f) == [at |-> at, family |-> f.family, modified |-> f.modified, words |-> f.words]
Error(at)     == [Word(at) EXCEPT !.family = "error"]

RECURSIVE Items(_, _)
Items(t, i) ==
  IF i > Len(t) THEN <<>>
  ELSE IF t[i] = "as" /\ i < Len(t) THEN <<Word(i), Word(i + 1)>> \o Items(t, i + 2)
  ELSE IF FormsAt(t, i) # {}
    THEN <<TypeAt(i, Longest(FormsAt(t, i)))>> \o Items(t, i + Len(Longest(FormsAt(t, i)).words))
  ELSE <<IF t[i] = "(" THEN Error(i) ELSE Word(i)>> \o Items(t, i + 1)

IsType(item)  == item.family \notin {"none", "error"}
TypesOf(t)    == {item.at : item \in {x \in Range(Items(t, 1)) : IsType(x)}}
Parses(t)     == \A item \in Range(Items(t, 1)) : item.family # "error"

A == INSTANCE TypeAliases WITH Types <- TypesOf, Parses <- Parses

(***************************************************************************)
(* The machine: an argument, then its answer.                              *)
(***************************************************************************)
vars == <<call, answer>>

Init == (\E k \in DOMAIN Calls : call \in Calls[k]) /\ answer = Unanswered

Trim ==
  /\ Fresh("trim")
  /\ answer' = [gap |-> L!NormalizeGap(call.text, TRUE), open |-> L!NormalizeGap(call.text, FALSE),
                comment |-> L!NormalizeComment(call.text)]

Respell ==
  /\ Fresh("aliases")
  /\ answer' = A!Normalize(call.text, call.prefer, call.opaque)

Declare ==
  /\ Fresh("declaration")
  /\ answer' = [text |-> A!NormalizeDeclaration(call.text, call.prefer)]

(* A literal's text opened, wrapped around what formatting made of it, and *)
(* opened again.                                                           *)
Open(text)    == IF call.host = "go" THEN E!OpenGo(text) ELSE E!OpenRust(text)
Wrap(e, text) == IF call.host = "go" THEN E!WrapGo(e, text) ELSE E!WrapRust(e, text)

Envelop ==
  /\ Fresh("envelope")
  /\ LET opened  == Open(call.text)
         wrapped == Wrap(opened, call.formatted)
     IN  answer' = [opened |-> opened, wrapped |-> wrapped, again |-> Open(wrapped)]

Next == Locate \/ Split \/ Trim \/ Index \/ Classify \/ Respell \/ Declare \/ Envelop

Spec == Init /\ [][Next]_vars

(* A gap between statements is trimmed like a comment: where both end, the *)
(* comment's text is the same, so that the comparison of comments before   *)
(* and after, which trims them itself, does not depend on whether one lies *)
(* within a statement or between two.  Trimming twice changes nothing, no  *)
(* line is lost, and the text directly before a statement is not touched.  *)
GapsLikeComments ==
  Answered("trim") =>
    LET t == call.text
        Lone == \E i \in DOMAIN t : t[i] = "r" /\ ~ L!IsCrlfAt(t, i)
        DropCR(u) == SelectSeq(u, LAMBDA c : c # "r")
        Lines(u) == Cardinality({i \in DOMAIN u : u[i] = "n"})
        LastLine(u) == SubSeq(u, 1 + Max({0} \cup {i \in DOMAIN u : u[i] = "n"}), Len(u))
    IN  /\ ~ Lone => answer.gap = DropCR(answer.comment)
        /\ L!NormalizeComment(answer.comment) = answer.comment
        /\ Lines(answer.gap) = Lines(t) /\ Lines(answer.open) = Lines(t) /\ Lines(answer.comment) = Lines(t)
        /\ LastLine(answer.open) = LastLine(t)
        /\ DropCR(SelectSeq(answer.comment, LAMBDA c : c # "b")) = DropCR(SelectSeq(t, LAMBDA c : c # "b"))

(* Opening a literal takes nothing off but line breaks and blanks: of each *)
(* line as much as the first one is indented, and nothing of a line that   *)
(* is indented otherwise.  What is wrapped around a formatted text is read *)
(* as that text again, in the same envelope, so that a literal's value     *)
(* changes with its first formatting and never again.                      *)
EnvelopeSettles ==
  Answered("envelope") =>
    LET said   == SelectSeq(call.text, LAMBDA c : ~ E!White(c))
        value(t) == IF call.host = "go" THEN E!WithoutCR(t) ELSE t
        Lines(t) == SelectSeq(E!Lines(E!WithoutCR(t)), LAMBDA l : ~ E!AllWhite(l))
        opened == Lines(answer.opened.sql)
        source == Lines(call.text)
    IN  /\ SelectSeq(answer.opened.sql, LAMBDA c : ~ E!White(c)) = said
        /\ answer.opened.multiline /\ "r" \notin Range(call.text) =>
             \A k \in DOMAIN source :
               /\ k = 1 => opened[k][1] # "b"
               /\ Len(source[k]) - Len(opened[k]) \in {0, Len(source[1]) - Len(opened[1])}
        /\ answer.again.sql = E!TrimFeeds(call.formatted)
        /\ value(Wrap(answer.again, call.formatted)) = value(answer.wrapped)

(* Trimming is done once and then for all: of gaps, comments and literals. *)
TrimmingSettles == GapsLikeComments /\ EnvelopeSettles

(***************************************************************************)
(* Type aliases.                                                           *)
(***************************************************************************)
(* The text outside of payloads.                                           *)
Rows(t) == {i \in DOMAIN t : \E c \in A!CopyAt(t) : c.rows <= i /\ i <= c.end}
Meanings(t) == [k \in DOMAIN SelectSeq(Items(t, 1), IsType) |->
                  LET item == SelectSeq(Items(t, 1), IsType)[k] IN <<item.family, item.modified>>]
Untouched(t, ranges) == {i \in DOMAIN t : \E r \in ranges : r[1] <= i /\ i <= r[2]}

(* A modifier is written between the words of a zoned type, which the      *)
(* respelling does not know: `timestamptz(3)` cannot become the longer     *)
(* spelling by replacing its word.                                         *)
ZoneFamily == {"time_with_time_zone", "timestamp_with_time_zone", "timestamp_without_time_zone"}
Stuck(t) == \E item \in Range(Items(t, 1)) : item.modified /\ item.family \in ZoneFamily

(* Respelling keeps every type, with its modifier, and every other word;   *)
(* afterwards each type outside the opaque ranges that carries no modifier *)
(* has the spelling asked for, so that respelling again finds nothing; and *)
(* it fails for nothing but a modifier on a zoned type.                    *)
TypesKept ==
  Answered("aliases") /\ A!CopyAt(call.text) = {} /\ Parses(call.text) =>
    LET t == call.text
        kept == Untouched(t, call.opaque)
    IN  IF answer.ok
          THEN /\ Parses(answer.text) /\ Meanings(answer.text) = Meanings(t)
               /\ \A item \in Range(Items(t, 1)) : item.family = "none" => \E i \in DOMAIN answer.text : answer.text[i] = t[item.at]
               /\ kept = {} => \A item \in Range(Items(answer.text, 1)) :
                    IsType(item) /\ ~ item.modified /\ item.family \in DOMAIN call.prefer =>
                      item.words = call.prefer[item.family]
          ELSE Stuck(t)

(* A boundary that ownership recorded before the respelling points to the  *)
(* same word behind it, also behind a COPY payload, whose rows are never   *)
(* respelled; opaque words come through unchanged.                         *)
BoundariesFollow ==
  Answered("aliases") /\ answer.ok =>
    LET t == call.text
        Replaced(i) == \E e \in answer.edits : e.first <= i /\ i <= e.last
    IN  /\ \A i \in DOMAIN t : ~ Replaced(i) =>
             LET at == A!MapBoundary(answer.edits, A!Start(i))
             IN  at % 2 = 0 /\ at \div 2 + 1 \in DOMAIN answer.text /\ answer.text[at \div 2 + 1] = t[i]
        /\ \A i \in Rows(t) \cup Untouched(t, call.opaque) : ~ Replaced(i)
        /\ A!MapBoundary(answer.edits, A!Length(Len(t))) = A!Length(Len(answer.text))

(* A declaration in a routine is respelled like the same type elsewhere.   *)
DeclaredAlike ==
  Answered("declaration") =>
    LET n == IF call.text[2] = "constant" THEN 2 ELSE 1
        alone == A!NormalizePlain(SubSeq(call.text, n + 1, Len(call.text)), call.prefer, {})
    IN  alone.ok => answer.text = SubSeq(call.text, 1, n) \o alone.text

(* Respelling changes spellings only: the types stay, recorded boundaries  *)
(* stay at their words, and declarations are respelled like everything.    *)
SpellingsOnly == TypesKept /\ BoundariesFollow /\ DeclaredAlike
=============================================================================
