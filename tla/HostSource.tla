----------------------------- MODULE HostSource -----------------------------
(***************************************************************************)
(* format_go_source and format_rust_source (src/src/host/go.rs, rust.rs):  *)
(* find the SQL literals of a source, decide by the directives attached to *)
(* them which are formatted, and put the new literals in place; then the   *)
(* second pass of the source facade over the output.                       *)
(*                                                                         *)
(* A unit is what directives attach to: in Go the statement that owns      *)
(* literals, in Rust the literal.                                          *)
(***************************************************************************)
EXTENDS HostText, SequencesExt, FiniteSets

CONSTANT Inputs    (* what is formatted: [lang, options, doc]              *)

Option == [policy : Policy, auto : BOOLEAN, kinds : SUBSET {"raw", "quoted"},
           generated : BOOLEAN, style : {"prefer_raw", "preserve"}]

ASSUME InputAssumption ==
  /\ Inputs \subseteq [lang : {"go", "rust"}, options : Option, doc : Seq(Token)]
  /\ \A i \in Inputs : i.lang = "go" => \A k \in DOMAIN i.doc : i.doc[k].kind # "node"

VARIABLES
  source, lang, options,
  doc,           (* the text of this pass: source, then its output         *)
  pass,
  state,         (* "start", "units", "splice" or "done"                   *)
  units,         (* the units still to be visited                          *)
  todo,          (* the literals of the unit still to be formatted         *)
  explicit,      (* the unit is marked as SQL                              *)
  consumed,      (* the directives attached to the units visited           *)
  replacements,  (* in the order they were found                           *)
  left,          (* those still to be put in place                         *)
  diags, output,
  result         (* "running", "ok" or the error                           *)

vars == <<source, lang, options, doc, pass, state, units, todo, explicit, consumed,
          replacements, left, diags, output, result>>
input == <<source, lang, options, doc, pass>>

Errors == {"malformed", "misplaced", "conflict", "disabled", "literal"}
Replacement == [first : Nat, last : Nat, text : Seq(Token)]

Begin ==
  /\ state = "start" /\ units = {} /\ todo = {} /\ explicit = FALSE /\ consumed = {}
  /\ replacements = <<>> /\ left = {} /\ diags = {} /\ output = <<>> /\ result = "running"

Init ==
  /\ \E i \in Inputs : source = i.doc /\ lang = i.lang /\ options = i.options /\ doc = i.doc
  /\ pass = 1
  /\ Begin

-----------------------------------------------------------------------------
Comments   == {i \in DOMAIN doc : doc[i].kind = "comment"}
Says(w)    == {i \in Comments : doc[i].text = w}
Directives == UNION {Says(w) : w \in Directive}

(* Comments before the package clause, or before the first item. *)
Leading(i) == \A j \in 1 .. i : doc[j].kind \in {"comment", "gap"}

Generated == \A w \in {"made", "byhand"} : \E i \in Says(w) : Leading(i)

(***************************************************************************)
(* The statements and parts around a token, and the innermost of them.     *)
(***************************************************************************)
Depth(i)       == Cardinality({j \in 1 .. i : doc[j].kind \in Opening}) - Cardinality({j \in 1 .. i : doc[j].kind = "end"})
Encloses(j, i) == doc[j].kind \in Opening /\ j < i /\ \A k \in j .. i : Depth(k) >= Depth(j)
Owners(i)      == {j \in 1 .. i : Encloses(j, i)}
Owns(j, i)     == Encloses(j, i) /\ \A k \in Owners(i) : k <= j

(***************************************************************************)
(* attached_directives: comments before a node, with white space alone in  *)
(* between - for Go without an empty line.  Go looks above the statement;  *)
(* Rust looks above the literal and climbs from node to node, up to the    *)
(* statement or item behind which a block, the file or a closure begins.   *)
(***************************************************************************)
Between == IF lang = "go" THEN {"comment"} ELSE {"comment", "gap"}
Before(i) == {j \in Comments : j < i /\ \A k \in j .. i - 1 : doc[k].kind \in Between}

Climbed(u) == {j \in Owners(u) : \A k \in Owners(u) : j < k => doc[k].kind = "node"}

Attached_Outer(u) ==
  Directives \cap UNION {Before(i) : i \in {u} \cup Owners(u)}
Attached(u) ==
  Directives \cap
    IF lang = "go" THEN Before(u) ELSE Before(u) \cup UNION {Before(j) : j \in Climbed(u)}

(***************************************************************************)
(* Expressions, dynamic expressions and units.                             *)
(***************************************************************************)
Expressions == {i \in DOMAIN doc : IF lang = "go" THEN doc[i].kind \in Literal /\ Owners(i) # {}
                                                  ELSE doc[i].kind \in {"raw", "quoted"}}
Dynamic     == {i \in DOMAIN doc : lang = "go" /\ doc[i].kind = "dyn" /\ Owners(i) # {}}

Units == IF lang = "go" THEN {j \in DOMAIN doc : \E i \in Expressions \cup Dynamic : Owns(j, i)}
                        ELSE Expressions
Within(u, S) == IF lang = "go" THEN {i \in S : Owns(u, i)} ELSE S \cap {u}

(* Units and literals are visited in source order. *)
Topmost(S) == CHOOSE i \in S : \A j \in S : i <= j

Stop(r) == state' = "done" /\ result' = r

(***************************************************************************)
(* Up to the loop over units.  Rust refuses a malformed directive as soon  *)
(* as it collects one.                                                     *)
(***************************************************************************)
Malformed == lang = "rust" /\ Says("bad") # {}

FileIgnored == (lang = "go" /\ options.generated /\ Generated) \/ \E i \in Says("file") : Leading(i)

Start ==
  /\ state = "start"
  /\ \/ /\ Malformed
        /\ Stop("malformed") /\ UNCHANGED <<output, units>>
     \/ /\ ~ Malformed /\ FileIgnored
        /\ Stop("ok") /\ output' = doc /\ UNCHANGED units
     \/ /\ ~ Malformed /\ ~ FileIgnored /\ Says("file") # {}
        /\ Stop("misplaced") /\ UNCHANGED <<output, units>>
     \/ /\ ~ Malformed /\ ~ FileIgnored /\ Says("file") = {}
        /\ state' = "units" /\ units' = Units /\ UNCHANGED <<output, result>>
  /\ UNCHANGED <<input, todo, explicit, consumed, replacements, left, diags>>

(***************************************************************************)
(* The next unit: its directives, and with an explicit marker a finding    *)
(* for each dynamic expression.                                            *)
(***************************************************************************)
Ignored(u)  == Attached(u) \cap Says("ignore") # {}
Explicit(u) == Attached(u) \cap Says("sql") # {}

UnsupportedHost(i) == Finding("unsupported", Severity(options.policy), FALSE, i, i)

Enter ==
  /\ state = "units" /\ todo = {} /\ units # {}
  /\ LET u == Topmost(units)
     IN  /\ units' = units \ {u}
         /\ consumed' = consumed \cup Attached(u)
         /\ explicit' = Explicit(u)
         /\ \/ /\ Ignored(u) /\ Explicit(u)
               /\ Stop("conflict") /\ UNCHANGED <<todo, diags>>
            \/ /\ (Ignored(u) /\ ~ Explicit(u)) \/ (~ Ignored(u) /\ ~ Explicit(u) /\ ~ options.auto)
               /\ UNCHANGED <<todo, diags, state, result>>
            \/ /\ ~ Ignored(u) /\ (Explicit(u) \/ options.auto)
               /\ todo' = Within(u, Expressions)
               /\ diags' = diags \cup IF Explicit(u) THEN {UnsupportedHost(i) : i \in Within(u, Dynamic)} ELSE {}
               /\ UNCHANGED <<state, result>>
  /\ UNCHANGED <<input, replacements, left, output>>

(***************************************************************************)
(* One literal of the unit: each way to leave the loop's body, in order.   *)
(***************************************************************************)
LastToken(i)  == IF i + 1 \in DOMAIN doc /\ doc[i + 1].kind = "tail" THEN i + 1 ELSE i
Parts(i) == IF doc[i].kind = "joined" THEN {"raw", "quoted"} ELSE {doc[i].kind}

Disabled(i)   == ~ (Parts(i) \subseteq options.kinds)
Unreadable(i) == doc[i].text = "bytes"
Skipped(i)    == doc[i].text \notin SqlPrefix \/ ParseFailure(doc[i].text)

Unchanged(i) ==
  Formatted(options.policy, doc[i].text) = doc[i].text /\ ~ (lang = "go" /\ doc[i].kind = "joined")

NewKind(i) ==
  LET t == Formatted(options.policy, doc[i].text)
  IN  IF lang = "go" THEN GoKind(options.style, doc[i].kind, t) ELSE RustKind(options.style, doc[i].kind, t)

NewText(i) ==
  LET t == Formatted(options.policy, doc[i].text)
  IN  IF lang = "go" THEN GoEncoded(NewKind(i), t) ELSE t

ReadsBack_Unchecked(i) == TRUE
ReadsBack(i) == NewText(i) = Formatted(options.policy, doc[i].text)

Rendered(i) == [first |-> i, last |-> LastToken(i), text |-> Spelled(NewKind(i), NewText(i))]

Refusal(i) ==
  CASE Disabled(i) -> IF explicit THEN "disabled" ELSE "none"
    [] ~ Disabled(i) /\ Unreadable(i) -> IF explicit \/ lang = "rust" THEN "literal" ELSE "none"
    [] OTHER -> "none"

Passed(i) == Disabled(i) \/ Unreadable(i) \/ (~ explicit /\ Skipped(i))

LiteralFindings(i) ==
  IF Fails(doc[i].text) THEN {Finding("failure", "error", FALSE, i, LastToken(i))}
                        ELSE FindingsOf(options.policy, doc[i].text, i, LastToken(i))

Take ==
  /\ state = "units" /\ todo # {}
  /\ todo' = todo \ {Topmost(todo)}
  /\ LET i == Topmost(todo)
     IN  \/ /\ Refusal(i) # "none"
            /\ Stop(Refusal(i)) /\ UNCHANGED <<diags, replacements>>
         \/ /\ Refusal(i) = "none" /\ Passed(i)
            /\ UNCHANGED <<state, result, diags, replacements>>
         \/ /\ ~ Passed(i)
            /\ diags' = diags \cup LiteralFindings(i)
            /\ \/ /\ Fails(doc[i].text) \/ Unchanged(i)
                  /\ UNCHANGED <<state, result, replacements>>
               \/ /\ ~ Fails(doc[i].text) /\ ~ Unchanged(i) /\ ~ ReadsBack(i)
                  /\ Stop("literal") /\ UNCHANGED replacements
               \/ /\ ~ Fails(doc[i].text) /\ ~ Unchanged(i) /\ ReadsBack(i)
                  /\ replacements' = Append(replacements, Rendered(i))
                  /\ UNCHANGED <<state, result>>
  /\ UNCHANGED <<input, units, explicit, consumed, left, output>>

(***************************************************************************)
(* Behind the loop: directives nothing consumed and the strict policy.     *)
(***************************************************************************)
Withheld_Unsupported == options.policy = "error" /\ \E d \in diags : d.rule = "unsupported"
Withheld == options.policy = "error" /\ \E d \in diags : d.severity = "error"

Unconsumed_Dropped == {}
Unconsumed == Directives \ consumed

Finish ==
  /\ state = "units" /\ todo = {} /\ units = {}
  /\ \/ /\ Unconsumed # {}
        /\ Stop("misplaced") /\ UNCHANGED <<left, output>>
     \/ /\ Unconsumed = {} /\ Withheld
        /\ output' = doc
        /\ Stop("ok") /\ UNCHANGED left
     \/ /\ Unconsumed = {} /\ ~ Withheld
        /\ output' = doc /\ left' = DOMAIN replacements
        /\ state' = "splice" /\ UNCHANGED result
  /\ UNCHANGED <<input, units, todo, explicit, consumed, replacements, diags>>

(***************************************************************************)
(* replace_range for each replacement, sorted by their start, from the     *)
(* last to the first.                                                      *)
(***************************************************************************)
Rightmost_AsFound(S) == CHOOSE k \in S : \A j \in S : j <= k
Rightmost(S) == CHOOSE k \in S : \A j \in S : replacements[j].first <= replacements[k].first

Replaced(text, r) == SubSeq(text, 1, r.first - 1) \o r.text \o SubSeq(text, r.last + 1, Len(text))

Splice ==
  /\ state = "splice"
  /\ \/ /\ left # {}
        /\ output' = Replaced(output, replacements[Rightmost(left)])
        /\ left' = left \ {Rightmost(left)} /\ UNCHANGED <<state, result>>
     \/ /\ left = {}
        /\ Stop("ok") /\ UNCHANGED <<left, output>>
  /\ UNCHANGED <<input, units, todo, explicit, consumed, replacements, diags>>

SecondPass ==
  /\ pass = 1 /\ state = "done" /\ result = "ok"
  /\ pass' = 2 /\ doc' = output
  /\ state' = "start" /\ units' = {} /\ todo' = {} /\ explicit' = FALSE /\ consumed' = {}
  /\ replacements' = <<>> /\ left' = {} /\ diags' = {} /\ output' = <<>> /\ result' = "running"
  /\ UNCHANGED <<source, lang, options>>

Next == Start \/ Enter \/ Take \/ Finish \/ Splice \/ SecondPass
Spec == Init /\ [][Next]_vars

-----------------------------------------------------------------------------
Accepted == state = "done" /\ result = "ok"

TypeOK ==
  /\ source \in Seq(Token) /\ doc \in Seq(Token) /\ output \in Seq(Token)
  /\ lang \in {"go", "rust"} /\ options \in Option /\ pass \in {1, 2}
  /\ state \in {"start", "units", "splice", "done"} /\ explicit \in BOOLEAN
  /\ units \subseteq DOMAIN doc /\ todo \subseteq DOMAIN doc
  /\ consumed \subseteq DOMAIN doc /\ diags \subseteq Diagnostic
  /\ replacements \in Seq(Replacement) /\ left \subseteq DOMAIN replacements
  /\ result \in Errors \cup {"running", "ok"}
  /\ result = "running" <=> state # "done"
-----------------------------------------------------------------------------
(***************************************************************************)
(* A reference: the source read once from its top.  above[i] are the       *)
(* comments with nothing between them and the token behind i; open[i] are  *)
(* the statements and parts open behind i, innermost last.                 *)
(***************************************************************************)
Above ==
  LET above[i \in 0 .. Len(doc)] ==
        CASE i > 0 /\ doc[i].kind = "comment" -> above[i - 1] \cup {i}
          [] i > 0 /\ doc[i].kind = "gap" /\ lang = "rust" -> above[i - 1]
          [] OTHER -> {}
  IN  above

Open ==
  LET open[i \in 0 .. Len(doc)] ==
        CASE i > 0 /\ doc[i].kind \in Opening -> Append(open[i - 1], i)
          [] i > 0 /\ doc[i].kind = "end" -> Front(open[i - 1])
          [] i > 0 /\ doc[i].kind \notin Opening \cup {"end"} -> open[i - 1]
          [] OTHER -> <<>>
  IN  open

(* The levels of a stack from the innermost statement inwards.             *)
Inner(text, open) == {a \in DOMAIN open : \A b \in DOMAIN open : a < b => text[open[b]].kind = "node"}

Governing(i) ==
  LET open == Open[i]
  IN  CASE lang = "rust" -> Above[i - 1] \cup UNION {Above[open[a] - 1] : a \in Inner(doc, open)}
        [] lang = "go" /\ open # <<>> -> Above[open[Len(open)] - 1]
        [] OTHER -> {}

Told(i, w) == \E c \in Governing(i) : doc[c].text = w

(* What a directive can be about. *)
Sites ==
  {i \in DOMAIN doc :
     \/ lang = "go" /\ doc[i].kind \in Literal \cup {"dyn"} /\ Open[i] # <<>>
     \/ lang = "rust" /\ doc[i].kind \in {"raw", "quoted"}}

Wanted(i) ==
  /\ i \in Sites /\ doc[i].kind # "dyn"
  /\ ~ Told(i, "ignore") /\ (Told(i, "sql") \/ options.auto)

AllowedKind(i) == IF doc[i].kind = "joined" THEN options.kinds = {"raw", "quoted"} ELSE doc[i].kind \in options.kinds

IsSql(i) ==
  /\ Wanted(i) /\ AllowedKind(i) /\ doc[i].text # "bytes"
  /\ Told(i, "sql") \/ doc[i].text \notin {"prose", "word"}

Differs(i) == doc[i].text # Formatted(options.policy, doc[i].text)
Rewritten(i) ==
  /\ IsSql(i) /\ ~ FileIgnored /\ ~ Fails(doc[i].text)
  /\ Differs(i) \/ doc[i].kind = "joined"

Becomes(i) ==
  CASE Rewritten(i) ->
         LET t == Formatted(options.policy, doc[i].text)
         IN  Spelled(IF lang = "go" THEN GoKind(options.style, doc[i].kind, t)
                                    ELSE RustKind(options.style, doc[i].kind, t), t)
    [] doc[i].kind = "tail" /\ Rewritten(i - 1) -> <<>>
    [] OTHER -> <<doc[i]>>

AllFormatted == output = FlattenSeq([i \in DOMAIN doc |-> Becomes(i)])

(* User guide: surrounding code is preserved, literals are formatted where *)
(* they stand.  Token by token, the output is the source with exactly the  *)
(* literals replaced that detection or a marker makes SQL, whatever the    *)
(* nesting of statements and however long the new literals are.            *)
TokenByToken == (Accepted /\ (options.policy = "error" => diags = {})) => AllFormatted

(***************************************************************************)
(* Why a source may be refused.                                            *)
(***************************************************************************)
Causes ==
  {e \in Errors :
     CASE e = "malformed" -> lang = "rust" /\ \E c \in DOMAIN doc : doc[c].text = "bad"
       [] e = "misplaced" -> \E c \in DOMAIN doc :
                               /\ doc[c].text \in Directive
                               /\ doc[c].text = "file" \/ \A i \in Sites : c \notin Governing(i)
       [] e = "conflict"  -> \E i \in Sites : Told(i, "sql") /\ Told(i, "ignore")
       [] e = "disabled"  -> \E i \in Sites : Wanted(i) /\ Told(i, "sql") /\ ~ AllowedKind(i)
       [] e = "literal"   -> \E i \in Sites :
                               \/ /\ Wanted(i) /\ AllowedKind(i) /\ doc[i].text = "bytes"
                                  /\ Told(i, "sql") \/ lang = "rust"
                               \/ /\ Rewritten(i) /\ lang = "go" /\ doc[i].kind # "raw"
                                  /\ doc[i].text \in {"ctrl", "bell"}}

(* formatter-design.md: "Unmatched, nested, conflicting, or misplaced      *)
(* directives fail the complete source", and nothing else about them does: *)
(* every directive of an accepted source is attached to a literal it       *)
(* decides about, and every refused source has the cause it is refused     *)
(* for.                                                                    *)
DirectivesJudged ==
  (state = "done" /\ (FileIgnored => result # "ok")) =>
    /\ result = "ok" <=> Causes = {}
    /\ result # "ok" => result \in Causes

(* formatter-design.md: explicit SQL that cannot be formatted is isolated  *)
(* and reported at its literal.  Every marked literal or dynamic           *)
(* expression that does not become formatted SQL is named by a finding,    *)
(* also when its siblings are formatted.                                   *)
MarkedIsAnswered ==
  (Accepted /\ ~ FileIgnored) =>
    \A i \in Sites : Told(i, "sql") =>
      \/ doc[i].kind # "dyn" /\ doc[i].text \notin Opaque /\ ~ Fails(doc[i].text)
      \/ \E d \in diags : d.first = i /\ d.rule # "style" /\ ~ d.fix

(* Host diagnostics identify the complete literal, and only of literals    *)
(* that are SQL by detection or by a marker, never of an ignored one.      *)
FindingsOnLiterals ==
  \A d \in diags :
    /\ d.last = IF d.last \in DOMAIN doc /\ doc[d.last].kind = "tail" THEN d.first + 1 ELSE d.first
    /\ d.first \in Sites /\ ~ Told(d.first, "ignore")
    /\ IF doc[d.first].kind = "dyn" THEN Told(d.first, "sql") ELSE IsSql(d.first)
    /\ d.rule = "failure" <=> doc[d.first].text \in {"word", "prose", "fails"}

(* Every variable has its type, every marked literal its answer, and every *)
(* finding its literal.                                                    *)
MarkersAnswered == TypeOK /\ MarkedIsAnswered /\ FindingsOnLiterals

(* formatter-design.md: "Strict unsupported policy restores the whole      *)
(* source": with one literal that is unsupported or cannot be formatted,   *)
(* no literal of the source is rewritten.                                  *)
StrictAllOrNothing ==
  (Accepted /\ options.policy = "error" /\ \E d \in diags : d.rule # "style") => output = doc

(* User guide: the source "must reparse and pass a second, byte-identical  *)
(* pass": what the first pass writes - literals of another kind, directives *)
(* in their places - the second accepts and leaves alone.  Claimed for     *)
(* both kinds of literals enabled: the style chooses the kind without      *)
(* looking at the settings.                                                *)
SecondPassAgrees ==
  (pass = 2 /\ state = "done" /\ options.kinds = {"raw", "quoted"}) => result = "ok" /\ output = doc

(* User guide: the strict policy makes unsupported and skipped statements  *)
(* fatal.  A source without either is formatted under it.                  *)
FixableIsFixed ==
  (Accepted /\ options.policy = "error" /\ \A d \in diags : d.fix) => AllFormatted

=============================================================================
