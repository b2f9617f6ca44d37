---------------------------- MODULE SourceFormat ----------------------------
(***************************************************************************)
(* The source facade of the formatter (src/src/source.rs): language        *)
(* selection, the single formatting pass, and the two-pass gate every      *)
(* caller of the formatter goes through.                                   *)
(*                                                                         *)
(* A file's text is a value of Content.  What one pass does with a text is *)
(* the constant Pass: any function at all, so nothing below depends on the *)
(* formatter proper being idempotent.  Idempotence of FormatSource is a    *)
(* consequence of the gate, not an assumption.                             *)
(***************************************************************************)
EXTENDS Integers

CONSTANTS
  File,      (* the paths of the project; ordered as the PathBuf sets are   *)
  Content,   (* complete file texts                                         *)
  Pass,      (* what format_source_once returns for each text               *)
  Lang,      (* what each path's extension says: "sql", "go", "rust", "none" *)
  Enabled    (* the host languages switched on in [go] and [rust]           *)

Language   == {"sql", "go", "rust"}
Diagnostic == [severity : {"warning", "error"}, fix : BOOLEAN]

(* A pass either fails or returns a text and the diagnostics of its input. *)
PassResult == [ok : BOOLEAN, out : Content, diags : SUBSET Diagnostic]

ASSUME FileAssumption == File \subseteq Nat
ASSUME FormatterAssumption ==
  /\ Pass \in [Content -> PassResult]
  /\ Lang \in [File -> Language \cup {"none"}]
  /\ Enabled \subseteq {"go", "rust"}

(***************************************************************************)
(* Exit codes of the command line.                                         *)
(***************************************************************************)
Success     == 0
WouldChange == 1
Usage       == 2
SourceFault == 3
FileFault   == 4
ErrorCode   == {Usage, SourceFault, FileFault}

(* An error with a fix attached is a finding, not a failure. *)
IsFatal(d) == d.severity = "error" /\ ~ d.fix

(* infer_language on the path and then the arm of format_source_once that  *)
(* refuses a disabled host: the exit code RunError::source_with_path gives *)
(* the refusal, or Success when the path has a usable language.            *)
LanguageCode(f) ==
  CASE Lang[f] = "none"                      -> Usage
    [] Lang[f] = "go" /\ "go" \notin Enabled     -> Usage
    [] Lang[f] = "rust" /\ "rust" \notin Enabled -> SourceFault
    [] OTHER                                 -> Success

(* accepts_with_rust under --language auto. *)
Accepts(f) == Lang[f] = "sql" \/ Lang[f] \in Enabled

(***************************************************************************)
(* The two-pass gate of format_source_with_rust: the second pass runs on   *)
(* the first one's output, must succeed and must return it unchanged.      *)
(***************************************************************************)
Formats_OnePass(c) == Pass[c].ok
Formats(c) ==
  LET first  == Pass[c]
      second == Pass[first.out]
  IN  first.ok /\ second.ok /\ second.out = first.out

Formatted(c) == Pass[c].out

(* Only the diagnostics of the first pass decide has_errors. *)
HasFatal(c) == \E d \in Pass[c].diags : IsFatal(d)

Changes(c) == Formatted(c) # c
=============================================================================
