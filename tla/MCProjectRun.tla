---------------------------- MODULE MCProjectRun ----------------------------
(***************************************************************************)
(* Small instances of ProjectRun.  Eight texts cover every outcome of     *)
(* the formatter: two that change, one of them with a fixable error, the   *)
(* results they change to, one with a fatal diagnostic, one no pass        *)
(* accepts, one whose formatting is not stable, and one that is not UTF-8. *)
(***************************************************************************)
EXTENDS ProjectRun

Fixable == [severity |-> "error", fix |-> TRUE]
Fatal   == [severity |-> "error", fix |-> FALSE]
Note    == [severity |-> "warning", fix |-> FALSE]

MCContent == {"raw", "neat", "draft", "tidy", "faulty", "broken", "churn", "binary"}
MCUtf8    == MCContent \ {"binary"}

Result(text, diags) == [ok |-> TRUE, out |-> text, diags |-> diags]
NoResult            == [ok |-> FALSE, out |-> "broken", diags |-> {}]

MCPass == [c \in MCContent |->
  CASE c = "raw"    -> Result("neat", {Fixable, Note})
    [] c = "neat"   -> Result("neat", {Note})
    [] c = "draft"  -> Result("tidy", {})
    [] c = "tidy"   -> Result("tidy", {})
    [] c = "faulty" -> Result("neat", {Fatal})
    [] c = "churn"  -> Result("raw", {})
    [] OTHER        -> NoResult]

AllSql  == [f \in File |-> "sql"]
MixedLang == [f \in File |-> CASE f = 1 -> "go" [] f = 2 -> "sql" [] f = 3 -> "rust" [] OTHER -> "none"]

NewFiles == [f \in File |-> Absent]
OneKnown == [f \in File |-> IF f = 1 THEN "raw" ELSE Absent]
=============================================================================
