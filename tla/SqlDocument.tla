---------------------------- MODULE SqlDocument ----------------------------
(***************************************************************************)
(* format_sql_document (src/src/directives.rs): the walk over the lines of *)
(* a SQL document that hands the active regions to the formatter and lets  *)
(* the ignored ones through, and the second pass the source facade makes   *)
(* over its output.                                                        *)
(*                                                                         *)
(* The formatter of a region is an operator of which nothing is assumed    *)
(* but that a success is a text with findings.                             *)
(***************************************************************************)
EXTENDS SqlFindings, FiniteSets

CONSTANTS
  Line,                        (* the texts of physical lines                *)
  OffLine, OnLine, IgnoreLine, (* the lines that trim to a directive         *)
  BlankLine,                   (* the lines that trim to nothing             *)
  Documents,                   (* the documents formatted                    *)
  Options,                     (* the settings a document is formatted with  *)
  FormatRegion(_, _)           (* format_sql: what it returns for a region   *)

ASSUME LineAssumption ==
  /\ OffLine \subseteq Line /\ OnLine \subseteq Line
  /\ IgnoreLine \subseteq Line /\ BlankLine \subseteq Line
  /\ OffLine \cap OnLine = {} /\ IgnoreLine \cap (OffLine \cup OnLine) = {}
  /\ BlankLine \cap (OffLine \cup OnLine \cup IgnoreLine) = {}
ASSUME DocumentAssumption == Documents \subseteq Seq(Line)

(* Ok of a Result; anything else format_sql returns is an Err. *)
FormattedSql == [out : Seq(Line), diags : SUBSET Diagnostic]

VARIABLES
  doc,      (* the text being formatted                                      *)
  options,  (* the settings, an argument of every call                       *)
  pass,     (* 1, then 2 over the output of the first                        *)
  state,    (* "start", "active", "ignored" or "done"                        *)
  at,       (* the line under the loop                                       *)
  from,     (* first line of the active region, or of the ignored text       *)
  output, diags,
  result,   (* "running", "ok" or the DirectiveError                         *)
  pieces    (* history: the span of doc each push to output stands for, and  *)
            (* the length of output before it                                *)

vars == <<doc, options, pass, state, at, from, output, diags, result, pieces>>

Errors == {"misplaced", "nested", "unmatched_on", "unmatched_off"}
Piece  == [verbatim : BOOLEAN, first : Nat, last : Nat, start : Nat]

Init ==
  /\ doc \in Documents /\ options \in Options
  /\ pass = 1
  /\ state = "start" /\ at = 1 /\ from = 1
  /\ output = <<>> /\ diags = {} /\ result = "running" /\ pieces = <<>>

Text(i, j)  == SubSeq(doc, i, j)
AllBlank(r) == \A i \in DOMAIN r : r[i] \in BlankLine
Markers     == {i \in DOMAIN doc : doc[i] \in IgnoreLine}

(* Is line i the first that is not blank? *)
Leads_FirstLine(i) == i = 1
Leads(i) == \A j \in 1 .. i : doc[j] \in BlankLine <=> j # i

Stop(r) == state' = "done" /\ result' = r

(* The end of line i is the start of the next line. *)
NextLine(i) == i + 1

ResumeAt_Skips(i) == NextLine(i) + 1
ResumeAt(i) == NextLine(i)

DirectiveText_Dropped(i) == <<>>
DirectiveText(i) == Text(i, i)

Span(verbatim, i, j, start) == [verbatim |-> verbatim, first |-> i, last |-> j, start |-> start]

(***************************************************************************)
(* The file-ignore marker, looked for before any line is processed.        *)
(***************************************************************************)
Start ==
  /\ state = "start"
  /\ \/ /\ \E i \in Markers : Leads(i)
        /\ output' = doc
        /\ pieces' = <<Span(TRUE, 1, Len(doc), 0)>>
        /\ Stop("ok")
     \/ /\ Markers # {} /\ \A i \in Markers : ~ Leads(i)
        /\ Stop("misplaced") /\ UNCHANGED <<output, pieces>>
     \/ /\ Markers = {}
        /\ state' = "active" /\ UNCHANGED <<output, result, pieces>>
  /\ UNCHANGED <<doc, options, pass, at, from, diags>>

(***************************************************************************)
(* append_formatted on lines i to j.  A blank region is pushed as it is; a *)
(* region that cannot be formatted is pushed as it is, with a diagnostic.  *)
(***************************************************************************)
Formats(r) == FormatRegion(options, r) \in FormattedSql

Preserved(r) == AllBlank(r) \/ ~ Formats(r)

RegionText(i, j) == IF Preserved(Text(i, j)) THEN Text(i, j) ELSE FormatRegion(options, Text(i, j)).out

Offset(i) == i - 1

RegionDiags(i, j) ==
  LET r == Text(i, j)
      own == CASE AllBlank(r) -> {}
               [] ~ AllBlank(r) /\ Formats(r) -> FormatRegion(options, r).diags
               [] OTHER -> {FailedRegion(r)}
  IN  {Shifted(d, Offset(i)) : d \in own}

RegionSpan(i, j) == Span(Preserved(Text(i, j)), i, j, Len(output))

(***************************************************************************)
(* The loop over the lines.                                                *)
(***************************************************************************)
Here(lines) == state \in {"active", "ignored"} /\ at \in DOMAIN doc /\ doc[at] \in lines

Off ==
  /\ Here(OffLine)
  /\ \/ /\ state = "ignored"
        /\ Stop("nested") /\ UNCHANGED <<at, from, output, diags, pieces>>
     \/ /\ state = "active"
        /\ output' = output \o RegionText(from, at - 1) \o DirectiveText(at)
        /\ diags' = diags \cup RegionDiags(from, at - 1)
        /\ pieces' = Append(Append(pieces, RegionSpan(from, at - 1)),
              Span(TRUE, at, at, Len(output \o RegionText(from, at - 1))))
        /\ state' = "ignored" /\ at' = NextLine(at) /\ from' = NextLine(at)
        /\ UNCHANGED result
  /\ UNCHANGED <<doc, options, pass>>

IgnoredText_Formatted(i, j) == RegionText(i, j)
IgnoredText(i, j) == Text(i, j)

On ==
  /\ Here(OnLine)
  /\ \/ /\ state = "active"
        /\ Stop("unmatched_on") /\ UNCHANGED <<at, from, output, pieces>>
     \/ /\ state = "ignored"
        /\ output' = output \o IgnoredText(from, at - 1) \o DirectiveText(at)
        /\ pieces' = Append(pieces, Span(TRUE, from, at, Len(output)))
        /\ state' = "active" /\ at' = NextLine(at) /\ from' = ResumeAt(at)
        /\ UNCHANGED result
  /\ UNCHANGED <<doc, options, pass, diags>>

OtherLine ==
  /\ Here(Line \ (OffLine \cup OnLine))
  /\ at' = NextLine(at)
  /\ UNCHANGED <<doc, options, pass, state, from, output, diags, result, pieces>>

End ==
  /\ state \in {"active", "ignored"} /\ at = Len(doc) + 1
  /\ \/ /\ state = "ignored"
        /\ Stop("unmatched_off") /\ UNCHANGED <<output, diags, pieces>>
     \/ /\ state = "active"
        /\ output' = output \o RegionText(from, Len(doc))
        /\ diags' = diags \cup RegionDiags(from, Len(doc))
        /\ pieces' = Append(pieces, RegionSpan(from, Len(doc)))
        /\ Stop("ok")
  /\ UNCHANGED <<doc, options, pass, at, from>>

(***************************************************************************)
(* format_source_with_rust: the output of a first pass that succeeded is   *)
(* formatted once more.                                                    *)
(***************************************************************************)
SecondPass ==
  /\ state = "done" /\ pass = 1 /\ result = "ok"
  /\ doc' = output /\ pass' = 2 /\ UNCHANGED options
  /\ state' = "start" /\ at' = 1 /\ from' = 1
  /\ output' = <<>> /\ diags' = {} /\ result' = "running" /\ pieces' = <<>>

Next == Start \/ Off \/ On \/ OtherLine \/ End \/ SecondPass
Spec == Init /\ [][Next]_vars

-----------------------------------------------------------------------------
(* Every variable keeps to the values the code can give it. *)
TypeOK ==
  /\ doc \in Seq(Line) /\ options \in Options /\ pass \in {1, 2}
  /\ state \in {"start", "active", "ignored", "done"}
  /\ at \in 1 .. Len(doc) + 1 /\ from \in 1 .. at
  /\ output \in Seq(Line) /\ diags \subseteq Diagnostic
  /\ result \in {"running", "ok"} \cup Errors
  /\ pieces \in Seq(Piece)

(* Line l is between an off line and the on line after it, or is one.  Stated   *)
(* over the whole text, with no notion of a loop.                          *)
Between(l) ==
  \E i \in 1 .. l : doc[i] \in OffLine /\ \A j \in i .. l - 1 : doc[j] \notin OnLine

(* Line l of doc is at place k of the output. *)
At(k, l) == k \in DOMAIN output /\ output[k] = doc[l]

(* The pushes account for every line of the document once and in order,    *)
(* and lie in the output one behind the other: no region is lost or pushed *)
(* twice, whatever the directives.                                         *)
PushedOnce ==
  /\ \A i \in 1 .. Len(pieces) - 1 :
       pieces[i + 1].first = pieces[i].last + 1 /\ pieces[i].start <= pieces[i + 1].start
  /\ (pieces # <<>>) => pieces[1].first = 1
  /\ (state = "done" /\ result = "ok") => pieces # <<>> /\ pieces[Len(pieces)].last = Len(doc)

(* The walk keeps its types and pushes every line once and in order.       *)
InOrder == TypeOK /\ PushedOnce

(* User guide: "Ignored source remains byte-identical."  In a document     *)
(* whose directives are accepted, each line of an ignored region, and each *)
(* directive, belongs to a push that copied it unchanged.                  *)
IgnoredKept ==
  (state = "done" /\ result = "ok") =>
    \A l \in DOMAIN doc : Between(l) =>
      \E i \in DOMAIN pieces :
        /\ pieces[i].first <= l /\ l <= pieces[i].last
        /\ At(pieces[i].start + l - pieces[i].first + 1, l)

(* What the directives among the lines S of a document make of it: a       *)
(* file-ignore must be the first text, and off and on must alternate,      *)
(* starting with off and ending with on.  The first line that is wrong     *)
(* names the error.                                                        *)
Balance(S, n) ==
  Cardinality({i \in 1 .. n : i \in S /\ doc[i] \in OffLine}) - Cardinality({i \in 1 .. n : i \in S /\ doc[i] \in OnLine})

Judgement(S) ==
  LET bad   == {i \in DOMAIN doc : Balance(S, i) \notin {0, 1}}
      first == CHOOSE i \in bad : \A j \in bad : i <= j
  IN  IF Markers \cap S # {}
      THEN IF \E i \in Markers \cap S : \A j \in 1 .. i - 1 : doc[j] \in BlankLine THEN "ok" ELSE "misplaced"
      ELSE CASE bad # {} -> IF Balance(S, first) = 2 THEN "nested" ELSE "unmatched_on"
             [] bad = {} /\ Balance(S, Len(doc)) = 1 -> "unmatched_off"
             [] OTHER -> "ok"

(* formatter-design.md: formatting is idempotent.  The second pass of the  *)
(* facade accepts every output of the first and returns it unchanged: the  *)
(* directives it finds are those the first pass saw.                       *)
SecondPassAgrees == (pass = 2 /\ state = "done") => result = "ok" /\ output = doc
=============================================================================
