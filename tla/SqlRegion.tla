----------------------------- MODULE SqlRegion -----------------------------
(***************************************************************************)
(* format_sql on one region of a document (src/src/formatter/mod.rs):      *)
(* COPY payloads, statement-by-statement formatting with opaque fallback,  *)
(* type aliases, the strict policy and the region's own second pass.       *)
(*                                                                         *)
(* A region is a sequence of lines.  The kinds of line are what the        *)
(* control of this code tells apart; what the parser and the layout engine *)
(* make of each kind stands for them:                                      *)
(*   blank, pad    an empty line, a line of spaces                         *)
(*   raw           a statement whose layout is the two lines HEAD, TAIL    *)
(*   copy, COPY    COPY ... FROM STDIN as authored, and as laid out        *)
(*   end           the line \. that ends a payload                         *)
(*   data          text that is no SQL, and no end of a statement          *)
(*   odd, ODD      an unsupported statement with an authored type alias,   *)
(*                 and with the preferred spelling                         *)
(*   skip          a statement that fails one of the formatter's gates     *)
(*   alias         a laid-out statement; respelled, it must be laid out    *)
(*                 again                                                   *)
(*   wide          a laid-out statement; respelled, it fails a gate        *)
(***************************************************************************)
EXTENDS SequencesExt, SqlFindings

Gap       == {"blank", "pad"}
Statement == {"raw", "TAIL", "copy", "COPY", "odd", "ODD", "skip", "alias", "wide"}
Kind      == Gap \cup Statement \cup {"HEAD", "end", "data"}

(***************************************************************************)
(* format_regular_document_content: parse, lay out each statement, trim    *)
(* the gaps.  A region without statements becomes empty.                   *)
(***************************************************************************)
Parses(r) ==
  \A i \in DOMAIN r :
    /\ r[i] \in Gap \cup Statement \cup {"HEAD"}
    /\ r[i] = "HEAD" => i + 1 \in DOMAIN r /\ r[i + 1] = "TAIL"
    /\ r[i] = "TAIL" => i > 1 /\ r[i - 1] = "HEAD"

Opaque == {"odd", "ODD", "skip"}

Layout(l) ==
  CASE l = "raw"  -> <<"HEAD", "TAIL">>
    [] l = "copy" -> <<"COPY">>
    [] l = "pad"  -> <<"blank">>
    [] OTHER      -> <<l>>

Empty == [out |-> <<>>, diags |-> {}, opaqueSource |-> {}, opaqueOutput |-> {}]

Content(policy, r) ==
  LET laid     == [i \in DOMAIN r |-> Layout(r[i])]
      place(i) == Len(FlattenSeq(SubSeq(laid, 1, i - 1))) + 1
      opaque   == {i \in DOMAIN r : r[i] \in Opaque}
      reason(i) == IF r[i] = "skip" THEN "skipped" ELSE "unsupported"
  IN  IF \A i \in DOMAIN r : r[i] \in Gap
      THEN Empty
      ELSE [out          |-> FlattenSeq(laid),
            diags        |-> {Finding(reason(i), Severity(policy), FALSE, i, i) : i \in opaque},
            opaqueSource |-> opaque,
            opaqueOutput |-> {place(i) : i \in opaque}]

(***************************************************************************)
(* type_aliases::normalize, outside the opaque ranges.                     *)
(***************************************************************************)
Respelled == [l \in {"alias", "wide", "odd"} |->
               CASE l = "alias" -> "raw" [] l = "wide" -> "skip" [] OTHER -> "ODD"]

Aliases_Everywhere(r, opaque) == {i \in DOMAIN r : r[i] \in DOMAIN Respelled}
Aliases(r, opaque) == {i \in DOMAIN r \ opaque : r[i] \in DOMAIN Respelled}

Normalized(r, opaque) ==
  [i \in DOMAIN r |-> IF i \in Aliases(r, opaque) THEN Respelled[r[i]] ELSE r[i]]

(***************************************************************************)
(* format_regular_document_once.  Style findings compare the source with   *)
(* the laid-out text; the terminal semicolon rule looks at the source only *)
(* and so may meet an opaque statement.  Removed blank text is one finding. *)
(***************************************************************************)
StyleFindings(r) ==
  IF \A i \in DOMAIN r : r[i] \in Gap
  THEN {Finding("style", "error", TRUE, 1, i) : i \in {Len(r)} \ {0}}
  ELSE {Finding("style", "error", TRUE, i, i) :
          i \in {j \in DOMAIN r : r[j] \in {"raw", "pad", "copy"} \/ (j = Len(r) /\ r[j] = "odd")}}

StyleReported(r, opaque) == {d \in StyleFindings(r) : ~ d.first .. d.last \subseteq opaque}

RegularOnce(policy, r) ==
  LET content == Content(policy, r)
      aliased == Normalized(content.out, content.opaqueOutput)
      final   == IF aliased = content.out THEN content ELSE Content(policy, aliased)
  IN  [out   |-> final.out,
       diags |-> content.diags
                   \cup StyleReported(r, content.opaqueSource)
                   \cup {Finding("alias", "error", TRUE, i, i) : i \in Aliases(r, content.opaqueSource)}]

Regular(policy, r) ==
  LET once == RegularOnce(policy, r)
  IN  IF Parses(r) THEN [ok |-> TRUE, out |-> once.out, diags |-> once.diags]
                   ELSE [ok |-> FALSE, out |-> <<>>, diags |-> {}]

(***************************************************************************)
(* find_copy_stdin_region: the first COPY header that starts a statement   *)
(* and has an end line somewhere behind it, and the first such end line.   *)
(***************************************************************************)
StartsStatement(r, i) ==
  \A j \in 1 .. i - 1 :
    (\A k \in j + 1 .. i - 1 : r[k] \in Gap) => r[j] \in Gap \cup Statement

EndsAfter(r, i) == {j \in DOMAIN r : j > i /\ r[j] = "end"}

HasPayload(r, i) == r[i] \in {"copy", "COPY"} /\ StartsStatement(r, i) /\ EndsAfter(r, i) # {}
Headers(r)       == {i \in DOMAIN r : HasPayload(r, i)}
Least(S)         == CHOOSE i \in S : \A j \in S : i <= j

(***************************************************************************)
(* format_document_content_at: prefix, header, payload, suffix.            *)
(***************************************************************************)
SuffixOffset_HeaderEnd(header, end) == header
SuffixOffset(header, end) == end

Once(policy) ==
  LET once[r \in Seq(Kind)] ==
        IF Headers(r) = {} THEN Regular(policy, r)
        ELSE LET header == Least(Headers(r))
                 end    == Least(EndsAfter(r, header))
                 prefix == once[SubSeq(r, 1, header - 1)]
                 head   == Regular(policy, <<r[header]>>)
                 suffix == once[SubSeq(r, end + 1, Len(r))]
             IN  [ok    |-> prefix.ok /\ head.ok /\ suffix.ok,
                  out   |-> prefix.out \o head.out
                              \o SubSeq(r, header + 1, end) \o suffix.out,
                  diags |-> prefix.diags
                              \cup {Shifted(d, header - 1) : d \in head.diags}
                              \cup {Shifted(d, SuffixOffset(header, end)) : d \in suffix.diags}]
  IN  once
DocumentOnce(policy, r) == Once(policy)[r]

(***************************************************************************)
(* format_sql_content.                                                     *)
(***************************************************************************)
Withheld_Never(policy, diags) == FALSE
Withheld(policy, diags) ==
  policy = "error" /\ \E d \in diags : d.severity = "error" /\ d.rule \in {"unsupported", "skipped"}

Ok(formatted) == [out |-> formatted.out, diags |-> formatted.diags]
Err           == [error |-> "not formatted"]

FormatSql(policy, r) ==
  LET first  == DocumentOnce(policy, r)
      second == DocumentOnce(policy, first.out)
  IN  CASE first.ok /\ Withheld(policy, first.diags) -> Ok([first EXCEPT !.out = r])
        [] first.ok /\ ~ Withheld(policy, first.diags) /\ second.ok /\ second.out = first.out -> Ok(first)
        [] OTHER -> Err
=============================================================================
