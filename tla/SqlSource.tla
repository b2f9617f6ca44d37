----------------------------- MODULE SqlSource -----------------------------
(***************************************************************************)
(* A SQL document as a user sees it: the walk of SqlDocument with the      *)
(* region formatter of SqlRegion.                                          *)
(***************************************************************************)
EXTENDS SqlDocument, SqlRegion

Directives == {"off", "on", "ignore"}
SqlLine    == Kind \cup Directives

Accepted == state = "done" /\ result = "ok"

(* The statements that must come through as they are, and be reported.     *)
Unformattable == {"odd", "ODD", "skip"}

-----------------------------------------------------------------------------
(* What a line may hold for a finding of each rule to be about it.         *)
CausedBy(d, line) ==
  CASE d.rule = "unsupported" -> line \in {"odd", "ODD"}
    [] d.rule = "skipped"     -> line = "skip"
    [] d.rule = "style"       -> line \in {"raw", "pad", "copy", "blank"}
    [] d.rule = "alias"       -> line \in {"alias", "wide"}
    [] d.rule = "failure"     -> line \in SqlLine \ Directives

(* User guide: diagnostics refer to the original input.  Through regions,  *)
(* COPY payloads and recursion, every finding points at lines of the       *)
(* document its rule is about, and none at a directive or past the end.    *)
DiagnosticsOnCause ==
  \A d \in diags :
    /\ 1 <= d.first /\ d.last <= Len(doc)
    /\ \A i \in d.first .. d.last : CausedBy(d, doc[i])

(***************************************************************************)
(* A reference for whole documents: what becomes of each line, decided by  *)
(* looking at the document from that line, without regions, recursion or   *)
(* passes.                                                                 *)
(***************************************************************************)
SameRegion(i, j) ==
  \A k \in DOMAIN doc : (i <= k /\ k <= j) \/ (j <= k /\ k <= i) => doc[k] \notin Directives

RegionOf(l) == {i \in DOMAIN doc : SameRegion(i, l)}

(* psql reading the region: is it within COPY data when line l is over?    *)
StartsHere(l, data) ==
  LET before == {k \in RegionOf(l) : k < l /\ doc[k] \notin Gap}
      last   == CHOOSE k \in before : \A m \in before : m <= k
  IN  before = {} \/ doc[last] \in Statement \/ data[last - 1]

ReadingData ==
  LET data[l \in 0 .. Len(doc)] ==
        CASE l = 0 \/ (l > 0 /\ doc[l] \in Directives) -> FALSE
          [] l > 0 /\ doc[l] \notin Directives /\ data[l - 1] -> doc[l] # "end"
          [] OTHER -> /\ doc[l] \in {"copy", "COPY"} /\ StartsHere(l, data)
                      /\ \E e \in RegionOf(l) : l < e /\ doc[e] = "end"
  IN  data

InPayload(l) == ReadingData[l - 1] /\ doc[l] \notin Directives
IsHeader(l)  == ReadingData[l] /\ ~ InPayload(l)

(* The lines of l's region with no payload line or header in between.      *)
PartOf(l) ==
  {i \in RegionOf(l) :
     i = l \/ \A k \in DOMAIN doc :
       (i <= k /\ k <= l) \/ (l <= k /\ k <= i) => ~ InPayload(k) /\ ~ IsHeader(k)}

(* SQL outside payloads: a line the parser accepts where it stands.        *)
WellFormed(l) ==
  \/ InPayload(l)
  \/ doc[l] \in Gap \cup (Statement \ {"TAIL"})
  \/ doc[l] = "HEAD" /\ l + 1 \in PartOf(l) /\ doc[l + 1] = "TAIL"
  \/ doc[l] = "TAIL" /\ l - 1 \in PartOf(l) /\ doc[l - 1] = "HEAD"

Sound(l)   == \A i \in RegionOf(l) : WellFormed(i)
Blank(l)   == \A i \in RegionOf(l) : doc[i] \in Gap
Barred(l)  == options = "error" /\ \E i \in RegionOf(l) : doc[i] \in Unformattable /\ ~ InPayload(i)

Untouched(l) ==
  \/ doc[l] \in Directives \/ Between(l) \/ InPayload(l)
  \/ Blank(l) \/ ~ Sound(l) \/ Barred(l)
  \/ \E m \in Markers : TRUE

Becomes(l) ==
  CASE Untouched(l) -> <<doc[l]>>
    [] ~ Untouched(l) /\ \A i \in PartOf(l) : doc[i] \in Gap -> <<>>
    [] OTHER -> CASE doc[l] \in {"raw", "alias"} -> <<"HEAD", "TAIL">>
                  [] doc[l] = "copy"             -> <<"COPY">>
                  [] doc[l] = "pad"              -> <<"blank">>
                  [] doc[l] = "wide"             -> <<"skip">>
                  [] OTHER                       -> <<doc[l]>>

(* User guide and core spec 5.3: ignored source, the COPY payloads of a    *)
(* region, statements that cannot be formatted, and whole regions the      *)
(* parser does not accept come through byte for byte; every other          *)
(* statement is formatted in its place, whatever happened to its siblings. *)
(* A payload whose rows read as directives is cut into regions like any    *)
(* other text (see PayloadNotScanned).                                     *)
LineByLine == Accepted => output = FlattenSeq([l \in DOMAIN doc |-> Becomes(l)])

(***************************************************************************)
(* psql reading the whole document, to which directives are comments: the  *)
(* rows between a COPY header and the first end line behind it.            *)
(***************************************************************************)
DirectiveLine == OffLine \cup OnLine \cup IgnoreLine

Rows ==
  LET Begins(l, row) ==
        LET before == {k \in 1 .. l - 1 : doc[k] \notin Gap \cup DirectiveLine \/ row[k - 1]}
            last   == CHOOSE k \in before : \A m \in before : m <= k
        IN  /\ doc[l] \in {"copy", "COPY"}
            /\ before = {} \/ doc[last] \in Statement \/ row[last - 1]
            /\ \E e \in DOMAIN doc : l < e /\ doc[e] = "end"
      row[l \in 0 .. Len(doc)] ==
        l > 0 /\ IF row[l - 1] THEN doc[l] # "end" ELSE Begins(l, row)
  IN  {l \in DOMAIN doc : row[l - 1] /\ doc[l] # "end"}

(* formatter-design.md: the payload of a COPY is "never scanned".  Whether *)
(* a document is refused, and for what, is decided by the directives       *)
(* outside of rows.                                                        *)
PayloadNotScanned == state = "done" => result = Judgement(DOMAIN doc \ Rows)

(* A document whose rows hold nothing that reads as a directive is refused *)
(* exactly when its directives are misplaced, and for the first line that  *)
(* is.  Of other documents the code does not keep this (directives.rs:70). *)
DirectivesJudged == (\A l \in Rows : doc[l] \notin DirectiveLine) => PayloadNotScanned

(* Core spec 5.3: a statement preserved because it cannot be formatted is  *)
(* reported, at its own range when its siblings could be.                  *)
OpaqueReported ==
  Accepted =>
    \A l \in DOMAIN doc : (doc[l] \in Unformattable /\ ~ Between(l) /\ ~ InPayload(l) /\ Markers = {}) =>
      \E d \in diags :
        /\ d.rule = IF ~ Sound(l) THEN "failure" ELSE IF doc[l] = "skip" THEN "skipped" ELSE "unsupported"
        /\ d.first <= l /\ l <= d.last

(* Findings and causes correspond: every finding points at what it is      *)
(* about, and every statement that stayed as authored has one.             *)
FindingsOnCause == DiagnosticsOnCause /\ OpaqueReported

(* formatter-design.md: a statement that "cannot pass one of those         *)
(* formatter gates is also copied byte-for-byte and receives               *)
(* format.statement_skipped".  Whatever statement of the output is opaque, *)
(* the findings of the pass that wrote it name it.                         *)
OutputSkipsReported ==
  (Accepted /\ \E k \in DOMAIN output : output[k] = "skip") =>
    \/ \E l \in DOMAIN doc : doc[l] = "skip"
    \/ \E d \in diags : d.rule = "skipped"

(* formatter-design.md: strict mode "returns the complete original document *)
(* unchanged".  The code withholds a region at a time, so this is claimed   *)
(* of documents that are one region.                                       *)
StrictAllOrNothing ==
  (Accepted /\ (\A i \in DOMAIN doc : doc[i] \notin Directives) /\ options = "error" /\ \E d \in diags : d.severity = "error" /\ ~ d.fix) => output = doc
=============================================================================
