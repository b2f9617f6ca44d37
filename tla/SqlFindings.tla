---------------------------- MODULE SqlFindings ----------------------------
(***************************************************************************)
(* Diagnostics of SQL text, located by lines of the text they are about    *)
(* (src/src/formatter/diagnostics.rs, src/src/text.rs).                    *)
(***************************************************************************)
EXTENDS Integers, Sequences

Rule       == {"unsupported", "skipped", "style", "alias", "failure"}
Diagnostic == [rule : Rule, severity : {"warning", "error"}, fix : BOOLEAN, first : Nat, last : Nat]

Finding(rule, severity, fix, i, j) ==
  [rule |-> rule, severity |-> severity, fix |-> fix, first |-> i, last |-> j]

Policy == {"skip", "error"}   (* UnsupportedPolicy *)
Severity(policy) == IF policy = "error" THEN "error" ELSE "warning"

Shifted(d, n) == Finding(d.rule, d.severity, d.fix, d.first + n, d.last + n)

(* A region that cannot be formatted as a whole is reported as a whole. *)
FailedRegion(r) == Finding("failure", "error", FALSE, 1, Len(r))
=============================================================================
