---------------------------- MODULE MCSqlSource ----------------------------
(***************************************************************************)
(* Every document of up to five lines over families of kinds that interact. *)
(* A blank line within a statement is left out: HEAD is followed by its    *)
(* TAIL, by a directive, by text or by nothing.                            *)
(***************************************************************************)
EXTENDS SqlSource

Plain(d)     == \A i \in DOMAIN d : (d[i] = "HEAD" /\ i < Len(d)) => d[i + 1] \notin Gap
UpTo(n, set) == {d \in UNION {[1 .. m -> set] : m \in 0 .. n} : Plain(d)}

(* Every order of directives; COPY with text that is not SQL; regions next *)
(* to each other; statements that are kept as they are.                    *)
MCDocuments ==
  UpTo(5, {"off", "on", "ignore", "blank", "raw", "data"})
    \cup UpTo(5, {"copy", "end", "data", "pad", "raw", "HEAD", "TAIL"})
    \cup UpTo(4, {"off", "on", "copy", "end", "odd", "pad", "raw", "data"})
    \cup UpTo(4, {"odd", "skip", "alias", "wide", "raw", "copy", "end", "data"})

PayloadDocuments == UpTo(4, {"off", "on", "copy", "end", "data"})

RespelledDocuments == UpTo(4, {"alias", "wide", "raw"})
=============================================================================
