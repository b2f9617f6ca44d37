-------------------------- MODULE StatementPasses --------------------------
(***************************************************************************)
(* The two passes over a supported statement, whatever the planners plan   *)
(* (format_supported_statement of formatter/mod.rs, render_plan of         *)
(* semantic_block.rs): each pass renders some plan of what it read, and    *)
(* the gates judge the two results.  StatementFormat has the planners.     *)
(***************************************************************************)
EXTENDS Rendering

CONSTANTS Texts,       (* sequence of sets of texts, each a sequence of tokens *)
          Options      (* set of records of layout options *)

(* A line comment ends its line, and a semicolon either ends the statement *)
(* or separates what stands within it (statement_span).                    *)
OneStatement(tokens) ==
  /\ tokens \in Seq([k : STRING, w : Nat, lb : Nat])
  /\ \A i \in 1 .. Len(tokens) - 1 :
       /\ tokens[i].k = "--" => tokens[i + 1].lb > 0
       /\ tokens[i].k = ";"  => \E j \in i + 1 .. Len(tokens) : ~ IsComment(tokens[j]) /\ tokens[j].k # ";"

ASSUME TextsAssumption == \A n \in DOMAIN Texts : \A tokens \in Texts[n] : OneStatement(tokens)

VARIABLES text, options,
          laid,       (* what the passes made of it *)
          verdict
passed == <<text, options, laid, verdict>>

PassInit == /\ \E n \in DOMAIN Texts : text \in Texts[n]
            /\ options \in Options
            /\ laid = <<>> /\ verdict = "none"

(* What a pass may plan for n tokens: breaks of some lines before some of  *)
(* them and no indentation left of the margin.                             *)
Plans(n) == [lines   : [1 .. n -> Nat],              at      : [1 .. n -> Nat],
             indents : [1 .. n -> Nat \cup {None}],  offsets : [1 .. n -> Int]]

(* The first pass reads the text, the second what the first made of it.    *)
Given == IF laid = <<>> THEN text ELSE laid[Len(laid)]

Pass ==
  /\ Len(laid) < 2
  /\ \E plan \in Plans(Len(Given)) : laid' = Append(laid, RenderPlan(Read(Given, options), plan))
  /\ UNCHANGED <<text, options, verdict>>

(* The gates: the passes agree, and every line fits that can.              *)
Gate ==
  /\ Len(laid) = 2 /\ verdict = "none"
  /\ verdict' = IF laid[1] # laid[2] THEN "unstable" ELSE HardWidth(laid[1], options.hard)
  /\ UNCHANGED <<text, options, laid>>

PassSpec == PassInit /\ [][Pass \/ Gate]_passed

Judged == verdict # "none"
first  == laid[1]
BeginsLine(out, i) == i = 1 \/ out[i].lb > 0

(* A statement without the semicolon that ends it.                         *)
Bare(tokens) ==
  LET end == Terminal(tokens)
  IN  [i \in 1 .. Len(tokens) - (IF end = 0 THEN 0 ELSE 1) |-> tokens[IF end # 0 /\ end <= i THEN i + 1 ELSE i]]

(* Every token but the closing semicolon appears once and in order;        *)
(* nothing follows a line comment on its line, and a comment stays on the  *)
(* line of what precedes it or on a line of its own, as its author put it  *)
(* (render_plan).                                                          *)
CommentsStay ==
  Judged =>
    LET given == Bare(text)  made == Bare(first)
    IN  /\ Len(made) = Len(given)
        /\ \A i \in 1 .. Len(given) : made[i].k = given[i].k /\ made[i].w = given[i].w
        /\ \A i \in 1 .. Len(first) - 1 : first[i].k = "--" => BeginsLine(first, i + 1)
        /\ \A i \in 2 .. Len(given) : IsComment(given[i]) => (made[i].lb > 0) = (given[i].lb > 0)
=============================================================================
