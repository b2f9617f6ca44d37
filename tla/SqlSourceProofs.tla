-------------------------- MODULE SqlSourceProofs --------------------------
(***************************************************************************)
(* What a user of the SQL formatter is promised for every document.        *)
(*                                                                         *)
(* First what the walk of SqlDocument promises for every formatter of      *)
(* regions: types, every line pushed once and in order, ignored text       *)
(* unchanged, a document refused exactly for its directives, and a second  *)
(* pass that changes nothing when the formatter of regions has settled.    *)
(*                                                                         *)
(* Then the walk with the region formatter of SqlRegion.  A region is      *)
(* formatted by a recursion over its COPY payloads, so what holds of a     *)
(* region is shown by induction over its length: that the second pass      *)
(* changes nothing; that findings are about the lines they point at; and   *)
(* that text and findings are what the reference of SqlSource, which looks *)
(* at each line of the document on its own, says of each line.             *)
(***************************************************************************)
EXTENDS SqlSource, DataInduction, FiniteSetTheorems

-----------------------------------------------------------------------------
(***************************************************************************)
(* The walk, whatever the formatter of regions returns.                    *)
(***************************************************************************)
(* The pushes ps lie in the text out one behind the other, each starting   *)
(* at the line after the one before, and the verbatim ones are copies.     *)
Copied(p, out) ==
  \A l \in p.first .. p.last :
    /\ l \in 1 .. Len(doc)
    /\ p.start + l - p.first + 1 \in 1 .. Len(out)
    /\ out[p.start + l - p.first + 1] = doc[l]

Laid(ps, out) ==
  /\ \A i \in 1 .. Len(ps) : ps[i].start <= Len(out) /\ (ps[i].verbatim => Copied(ps[i], out))
  /\ \A i \in 1 .. Len(ps) - 1 : ps[i + 1].first = ps[i].last + 1 /\ ps[i].start <= ps[i + 1].start
  /\ ps # <<>> => ps[1].first = 1

(* The pushes ps end with line n, and protect the ignored lines up to it. *)
Reaches(ps, n) == IF ps = <<>> THEN n = 0 ELSE ps[Len(ps)].last = n
Protects(ps, n) ==
  \A l \in 1 .. n : Between(l) =>
    \E i \in 1 .. Len(ps) : ps[i].verbatim /\ ps[i].first <= l /\ l <= ps[i].last

(* No directive since the open region began, and none left open before it. *)
Quiet  == \A j \in from .. at - 1 : doc[j] \notin OffLine \cup OnLine
Closed == \A i \in 1 .. from - 1 : doc[i] \in OffLine => \E j \in i .. from - 1 : doc[j] \in OnLine

IInv ==
  /\ TypeOK
  /\ Laid(pieces, output)
  /\ state = "start" => pieces = <<>> /\ output = <<>> /\ at = 1 /\ from = 1
  /\ state \in {"active", "ignored"} =>
       Quiet /\ Reaches(pieces, from - 1) /\ Protects(pieces, from - 1)
  /\ state = "active" => Closed
  /\ (state = "done" /\ result = "ok") =>
       pieces # <<>> /\ Reaches(pieces, Len(doc)) /\ Protects(pieces, Len(doc))

-----------------------------------------------------------------------------
(* Lines i to j of the document. *)
LEMMA TextLines ==
  ASSUME doc \in Seq(Line), NEW i \in 1 .. Len(doc) + 1, NEW j \in i - 1 .. Len(doc)
  PROVE  /\ Text(i, j) \in Seq(Line)
         /\ Len(Text(i, j)) = j - i + 1
         /\ \A l \in i .. j : Text(i, j)[l - i + 1] = doc[l]
BY DEF Text

(* Text pushed behind out leaves out in place. *)
LEMMA PushedText ==
  ASSUME NEW out \in Seq(Line), NEW t \in Seq(Line)
  PROVE  /\ out \o t \in Seq(Line)
         /\ Len(out \o t) = Len(out) + Len(t)
         /\ \A k \in 1 .. Len(out) : (out \o t)[k] = out[k]
         /\ \A k \in 1 .. Len(t) : (out \o t)[Len(out) + k] = t[k]
OBVIOUS

(* A region's text is a text, and findings stay findings. *)
LEMMA RegionTyped ==
  ASSUME doc \in Seq(Line), NEW i \in 1 .. Len(doc) + 1, NEW j \in i - 1 .. Len(doc)
  PROVE  RegionText(i, j) \in Seq(Line) /\ RegionDiags(i, j) \subseteq Diagnostic
<1>1. Text(i, j) \in Seq(Line) /\ Len(Text(i, j)) \in Nat
  BY TextLines
<1>2. RegionText(i, j) \in Seq(Line)
  BY <1>1 DEF RegionText, Preserved, Formats, FormattedSql
<1>3. FailedRegion(Text(i, j)) \in Diagnostic
  BY <1>1 DEF FailedRegion, Finding, Diagnostic, Rule
<1>4. Formats(Text(i, j)) => FormatRegion(options, Text(i, j)).diags \subseteq Diagnostic
  BY DEF Formats, FormattedSql
<1>5. \A d \in Diagnostic : Shifted(d, Offset(i)) \in Diagnostic
  BY DEF Shifted, Finding, Diagnostic, Offset
<1>6. QED BY <1>2, <1>3, <1>4, <1>5 DEF RegionDiags

(* One push: the span from the line after n to m, whose text - when it is  *)
(* a copy - was put behind out to make grown.                              *)
LEMMA Push ==
  ASSUME doc \in Seq(Line),
         NEW ps \in Seq(Piece), NEW out \in Seq(Line), NEW grown \in Seq(Line),
         NEW n \in Nat, NEW m \in n .. Len(doc), NEW v \in BOOLEAN,
         Laid(ps, out), Reaches(ps, n), Protects(ps, n),
         Len(out) <= Len(grown), \A k \in 1 .. Len(out) : grown[k] = out[k],
         v => /\ Len(out) + m - n <= Len(grown)
              /\ \A l \in n + 1 .. m : grown[Len(out) + l - n] = doc[l],
         ~ v => \A l \in n + 1 .. m : ~ Between(l)
  PROVE  LET qs == Append(ps, Span(v, n + 1, m, Len(out)))
         IN  qs \in Seq(Piece) /\ qs # <<>> /\ Laid(qs, grown) /\ Reaches(qs, m) /\ Protects(qs, m)
<1> DEFINE p  == Span(v, n + 1, m, Len(out))
           qs == Append(ps, p)
<1>1. p \in Piece /\ p.verbatim = v /\ p.first = n + 1 /\ p.last = m /\ p.start = Len(out)
  BY DEF Span, Piece
<1>2. /\ qs \in Seq(Piece) /\ Len(qs) = Len(ps) + 1
      /\ \A i \in 1 .. Len(ps) : qs[i] = ps[i]
      /\ qs[Len(ps) + 1] = p
  BY <1>1
<1>3. qs # <<>> /\ Reaches(qs, m)
  BY <1>1, <1>2 DEF Reaches
<1>4. \A i \in 1 .. Len(ps) : ps[i] \in Piece
  OBVIOUS
<1>5. ASSUME NEW i \in 1 .. Len(ps)
      PROVE  ps[i].start <= Len(grown) /\ (ps[i].verbatim => Copied(ps[i], grown))
  <2> DEFINE q == ps[i]
  <2>1. q.first \in Nat /\ q.last \in Nat /\ q.start \in Nat
    BY <1>4 DEF Piece
  <2>2. q.start <= Len(out) /\ (q.verbatim => Copied(q, out))
    BY DEF Laid
  <2>3. q.start <= Len(grown)
    BY <2>1, <2>2
  <2>4. ASSUME q.verbatim, NEW l \in q.first .. q.last
        PROVE  /\ l \in 1 .. Len(doc) /\ q.start + l - q.first + 1 \in 1 .. Len(grown)
               /\ grown[q.start + l - q.first + 1] = doc[l]
    <3>1. /\ l \in 1 .. Len(doc) /\ q.start + l - q.first + 1 \in 1 .. Len(out)
          /\ out[q.start + l - q.first + 1] = doc[l]
      BY <2>2, <2>4 DEF Copied
    <3>2. q.start + l - q.first + 1 \in 1 .. Len(grown)
      BY <3>1
    <3> HIDE DEF q
    <3>3. QED BY <3>1, <3>2
  <2>5. QED BY <2>3, <2>4 DEF Copied
<1>6. v => Copied(p, grown)
  <2> SUFFICES ASSUME v, NEW l \in n + 1 .. m
               PROVE  /\ l \in 1 .. Len(doc) /\ Len(out) + l - (n + 1) + 1 \in 1 .. Len(grown)
                      /\ grown[Len(out) + l - (n + 1) + 1] = doc[l]
    BY <1>1 DEF Copied
  <2>1. Len(out) \in Nat /\ Len(grown) \in Nat
    OBVIOUS
  <2>2. /\ Len(out) + l - (n + 1) + 1 = Len(out) + l - n /\ l \in 1 .. Len(doc)
        /\ Len(out) + l - n \in 1 .. Len(grown)
    BY <2>1
  <2>3. grown[Len(out) + l - n] = doc[l]
    OBVIOUS
  <2>4. QED BY <2>2, <2>3
<1>7. \A i \in 1 .. Len(qs) : qs[i].start <= Len(grown) /\ (qs[i].verbatim => Copied(qs[i], grown))
  <2> SUFFICES ASSUME NEW i \in 1 .. Len(qs)
               PROVE  qs[i].start <= Len(grown) /\ (qs[i].verbatim => Copied(qs[i], grown))
    OBVIOUS
  <2>1. CASE i \in 1 .. Len(ps)
    <3>1. qs[i] = ps[i]
      BY <2>1, <1>2
    <3> HIDE DEF qs
    <3>2. QED BY <3>1, <2>1, <1>5
  <2>2. CASE i = Len(ps) + 1
    <3>1. qs[i] = p
      BY <2>2, <1>2
    <3> HIDE DEF qs, p
    <3>2. QED BY <3>1, <1>1, <1>6
  <2>3. QED BY <2>1, <2>2, <1>2
<1>8. \A i \in 1 .. Len(qs) - 1 : qs[i + 1].first = qs[i].last + 1 /\ qs[i].start <= qs[i + 1].start
  <2> SUFFICES ASSUME NEW i \in 1 .. Len(qs) - 1
               PROVE  qs[i + 1].first = qs[i].last + 1 /\ qs[i].start <= qs[i + 1].start
    OBVIOUS
  <2>1. CASE i + 1 \in 1 .. Len(ps)
    BY <2>1, <1>2 DEF Laid
  <2>2. CASE i = Len(ps)
    <3>1. ps # <<>> /\ ps[Len(ps)].last = n
      BY <2>2 DEF Reaches
    <3>2. qs[i] = ps[i] /\ qs[i + 1] = p
      BY <2>2, <1>2
    <3>3. ps[i].start <= Len(out)
      BY <2>2 DEF Laid
    <3>4. QED BY <2>2, <3>1, <3>2, <3>3, <1>1
  <2>3. QED BY <2>1, <2>2, <1>2
<1>9. qs[1].first = 1
  <2>1. CASE ps = <<>>
    BY <2>1, <1>1, <1>2 DEF Reaches
  <2>2. CASE ps # <<>>
    BY <2>2, <1>2 DEF Laid
  <2>3. QED BY <2>1, <2>2
<1>10. Laid(qs, grown)
  BY <1>7, <1>8, <1>9 DEF Laid
<1>11. Protects(qs, m)
  <2> SUFFICES ASSUME NEW l \in 1 .. m, Between(l)
               PROVE  \E i \in 1 .. Len(qs) : qs[i].verbatim /\ qs[i].first <= l /\ l <= qs[i].last
    BY DEF Protects
  <2>1. CASE l \in 1 .. n
    <3>1. PICK i \in 1 .. Len(ps) : ps[i].verbatim /\ ps[i].first <= l /\ l <= ps[i].last
      BY <2>1 DEF Protects
    <3>2. i \in 1 .. Len(qs) /\ qs[i] = ps[i]
      BY <1>2
    <3>3. QED BY <3>1, <3>2
  <2>2. CASE l \in n + 1 .. m
    <3>1. v
      BY <2>2
    <3>2. Len(qs) \in 1 .. Len(qs) /\ qs[Len(qs)] = p
      BY <1>2
    <3>3. n + 1 <= l /\ l <= m
      BY <2>2
    <3> HIDE DEF qs, p
    <3>4. QED BY <3>1, <3>2, <3>3, <1>1
  <2>3. l \in 1 .. n \/ l \in n + 1 .. m
    OBVIOUS
  <2>4. QED BY <2>1, <2>2, <2>3
<1>12. QED BY <1>2, <1>3, <1>10, <1>11

(* A copy of the lines behind n. *)
LEMMA PushCopy ==
  ASSUME doc \in Seq(Line),
         NEW ps \in Seq(Piece), NEW out \in Seq(Line),
         NEW n \in Nat, NEW m \in n .. Len(doc),
         Laid(ps, out), Reaches(ps, n), Protects(ps, n)
  PROVE  LET qs    == Append(ps, Span(TRUE, n + 1, m, Len(out)))
             grown == out \o Text(n + 1, m)
         IN  /\ grown \in Seq(Line)
             /\ qs \in Seq(Piece) /\ qs # <<>> /\ Laid(qs, grown) /\ Reaches(qs, m) /\ Protects(qs, m)
<1> DEFINE t     == Text(n + 1, m)
           grown == out \o t
<1>1. n + 1 \in 1 .. Len(doc) + 1 /\ m \in n + 1 - 1 .. Len(doc)
  OBVIOUS
<1>2. t \in Seq(Line) /\ Len(t) = m - n /\ \A l \in n + 1 .. m : t[l - n] = doc[l]
  <2>1. ASSUME NEW i \in 1 .. Len(doc) + 1, NEW j \in i - 1 .. Len(doc), i = n + 1, j = m
        PROVE  t \in Seq(Line) /\ Len(t) = m - i + 1 /\ \A l \in i .. m : t[l - i + 1] = doc[l]
    BY <2>1, TextLines
  <2>2. \A l \in n + 1 .. m : l - (n + 1) + 1 = l - n
    OBVIOUS
  <2> HIDE DEF t
  <2>3. QED BY <1>1, <2>1, <2>2
<1> HIDE DEF t
<1>3. /\ grown \in Seq(Line) /\ Len(grown) = Len(out) + Len(t)
      /\ \A k \in 1 .. Len(out) : grown[k] = out[k]
      /\ \A k \in 1 .. Len(t) : grown[Len(out) + k] = t[k]
  BY <1>2, PushedText
<1> HIDE DEF grown
<1>4. \A l \in n + 1 .. m : grown[Len(out) + l - n] = doc[l]
  <2> SUFFICES ASSUME NEW l \in n + 1 .. m PROVE grown[Len(out) + l - n] = doc[l]
    OBVIOUS
  <2>1. l - n \in 1 .. Len(t) /\ Len(out) + (l - n) = Len(out) + l - n
    BY <1>2
  <2>2. QED BY <2>1, <1>2, <1>3
<1>5. Len(out) \in Nat /\ Len(out) <= Len(grown) /\ Len(out) + m - n <= Len(grown)
  BY <1>2, <1>3
<1>6. LET qs == Append(ps, Span(TRUE, n + 1, m, Len(out)))
      IN  qs \in Seq(Piece) /\ qs # <<>> /\ Laid(qs, grown) /\ Reaches(qs, m) /\ Protects(qs, m)
  BY <1>3, <1>4, <1>5, Push
<1>7. QED BY <1>3, <1>6 DEF grown, t

(* The open active region, formatted or not: none of its lines is ignored. *)
LEMMA PushRegion ==
  ASSUME IInv, state = "active"
  PROVE  LET qs    == Append(pieces, RegionSpan(from, at - 1))
             grown == output \o RegionText(from, at - 1)
         IN  /\ grown \in Seq(Line)
             /\ qs \in Seq(Piece) /\ qs # <<>> /\ Laid(qs, grown)
             /\ Reaches(qs, at - 1) /\ Protects(qs, at - 1)
<1> DEFINE v == Preserved(Text(from, at - 1))
           t == RegionText(from, at - 1)
<1>1. /\ doc \in Seq(Line) /\ pieces \in Seq(Piece) /\ output \in Seq(Line)
      /\ at \in 1 .. Len(doc) + 1 /\ from \in 1 .. at
      /\ Quiet /\ Closed
      /\ Laid(pieces, output) /\ Reaches(pieces, from - 1) /\ Protects(pieces, from - 1)
  BY DEF IInv, TypeOK
<1>2. /\ from - 1 \in Nat /\ at - 1 \in from - 1 .. Len(doc) /\ from = (from - 1) + 1
      /\ from \in 1 .. Len(doc) + 1
  BY <1>1
<1>3. v \in BOOLEAN
  BY DEF Preserved, AllBlank, Formats
<1>4. CASE v
  <2>1. t = Text(from, at - 1) /\ RegionSpan(from, at - 1) = Span(TRUE, from, at - 1, Len(output))
    BY <1>3, <1>4 DEF RegionText, RegionSpan, Span
  <2>2. QED BY <2>1, <1>1, <1>2, PushCopy
<1>5. CASE ~ v
  <2> DEFINE grown == output \o t
  <2>1. RegionSpan(from, at - 1) = Span(FALSE, from, at - 1, Len(output))
    BY <1>3, <1>5 DEF RegionSpan, Span
  <2>2. t \in Seq(Line)
    BY <1>1, <1>2, RegionTyped
  <2>3. /\ grown \in Seq(Line) /\ Len(grown) = Len(output) + Len(t)
        /\ \A k \in 1 .. Len(output) : grown[k] = output[k]
    BY <1>1, <2>2, PushedText
  <2>4. Len(output) <= Len(grown)
    BY <1>1, <2>2, <2>3
  <2>5. \A l \in from .. at - 1 : ~ Between(l)
    <3> SUFFICES ASSUME NEW l \in from .. at - 1, NEW i \in 1 .. l, doc[i] \in OffLine,
                        \A j \in i .. l - 1 : doc[j] \notin OnLine
                 PROVE  FALSE
      BY DEF Between
    <3>1. CASE i \in 1 .. from - 1
      <4>1. PICK j \in i .. from - 1 : doc[j] \in OnLine
        BY <3>1, <1>1 DEF Closed
      <4>2. QED BY <4>1, <1>1
    <3>2. CASE i \in from .. at - 1
      BY <3>2, <1>1 DEF Quiet
    <3>3. i \in 1 .. from - 1 \/ i \in from .. at - 1
      BY <1>1
    <3>4. QED BY <3>1, <3>2, <3>3
  <2> HIDE DEF grown
  <2>6. LET qs == Append(pieces, Span(FALSE, (from - 1) + 1, at - 1, Len(output)))
        IN  /\ qs \in Seq(Piece) /\ qs # <<>> /\ Laid(qs, grown)
            /\ Reaches(qs, at - 1) /\ Protects(qs, at - 1)
    BY <1>1, <1>2, <2>3, <2>4, <2>5, Push
  <2>7. QED BY <1>2, <2>1, <2>3, <2>6 DEF grown
<1>6. QED BY <1>3, <1>4, <1>5
-----------------------------------------------------------------------------

(* The walk starts within the invariant.                                   *)
LEMMA InitEstablishes == Init => IInv
<1> SUFFICES ASSUME Init PROVE IInv
  OBVIOUS
<1>1. doc \in Seq(Line) /\ Len(doc) \in Nat
  BY DocumentAssumption DEF Init
<1>2. TypeOK
  BY <1>1 DEF Init, TypeOK
<1>3. Laid(pieces, output)
  BY DEF Init, Laid
<1>4. QED BY <1>2, <1>3 DEF Init, IInv

(* While the document stays, what is said of the pushes is about them only. *)
LEMMA Framed ==
  ASSUME UNCHANGED doc
  PROVE  /\ Laid(pieces', output') => Laid(pieces, output)'
         /\ \A n : Protects(pieces', n) => Protects(pieces, n)'
<1>1. Laid(pieces', output') => Laid(pieces, output)'
  BY DEF Laid, Copied
<1>2. \A l : Between(l)' <=> Between(l)
  BY DEF Between
<1>3. QED BY <1>1, <1>2 DEF Protects

(* What the pieces protect depends on the document and the pieces alone.   *)
LEMMA Moved ==
  ASSUME UNCHANGED doc, NEW n, Protects(pieces', n), from' - 1 = n
  PROVE  Protects(pieces, from - 1)'
<1>1. \A l : Between(l)' <=> Between(l)
  BY DEF Between
<1>2. QED BY <1>1 DEF Protects

(* The decision about the whole document keeps the invariant.              *)
LEMMA StartKeeps == IInv /\ Start => IInv'
<1> SUFFICES ASSUME IInv, Start PROVE IInv'
  OBVIOUS
<1>1. /\ doc \in Seq(Line) /\ Len(doc) \in Nat /\ UNCHANGED doc
      /\ pieces = <<>> /\ output = <<>> /\ at = 1 /\ from = 1 /\ at' = 1 /\ from' = 1
  BY DEF IInv, TypeOK, Start
<1>2. CASE state' = "done" /\ result' = "ok" /\ output' = doc /\ pieces' = <<Span(TRUE, 1, Len(doc), 0)>>
  <2> DEFINE qs == Append(pieces, Span(TRUE, 0 + 1, Len(doc), Len(output)))
             grown == output \o Text(0 + 1, Len(doc))
  <2>1. Laid(pieces, output) /\ Reaches(pieces, 0) /\ Protects(pieces, 0)
    BY <1>1 DEF IInv, Reaches, Protects
  <2>2. /\ qs \in Seq(Piece) /\ qs # <<>> /\ Laid(qs, grown)
        /\ Reaches(qs, Len(doc)) /\ Protects(qs, Len(doc))
    <3>1. pieces \in Seq(Piece) /\ output \in Seq(Line) /\ 0 \in Nat /\ Len(doc) \in 0 .. Len(doc)
      BY <1>1
    <3>2. QED BY <1>1, <2>1, <3>1, PushCopy
  <2>3. qs = pieces' /\ grown = output'
    BY <1>1, <1>2 DEF Text, Span
  <2> HIDE DEF qs, grown
  <2>4. TypeOK'
    BY <1>1, <1>2, <2>2, <2>3 DEF IInv, TypeOK, Start
  <2>5. Laid(pieces, output)' /\ Protects(pieces, Len(doc))'
    BY <1>1, <2>2, <2>3, Framed
  <2>6. QED BY <1>1, <1>2, <2>2, <2>3, <2>4, <2>5 DEF IInv, Reaches
<1>3. CASE /\ state' = "active" \/ (state' = "done" /\ result' = "misplaced")
           /\ UNCHANGED <<output, pieces>>
  <2>1. TypeOK'
    BY <1>1, <1>3 DEF IInv, TypeOK, Start, Stop, Errors
  <2>2. Laid(pieces, output)'
    BY <1>1, <1>3, Framed DEF IInv
  <2>3. Quiet' /\ Closed' /\ Reaches(pieces, from - 1)' /\ Protects(pieces, from - 1)'
    BY <1>1, <1>3 DEF Quiet, Closed, Reaches, Protects
  <2>4. QED BY <1>3, <2>1, <2>2, <2>3 DEF IInv
<1>4. QED BY <1>2, <1>3 DEF Start, Stop

(* A line that is no directive keeps the invariant.                        *)
LEMMA OtherLineKeeps == IInv /\ OtherLine => IInv'
<1> SUFFICES ASSUME IInv, OtherLine PROVE IInv'
  OBVIOUS
<1>1. /\ UNCHANGED <<doc, state, from, output, pieces>> /\ at' = at + 1
      /\ state \in {"active", "ignored"}
      /\ at \in 1 .. Len(doc) /\ doc[at] \notin OffLine \cup OnLine
      /\ at \in Nat /\ from \in 1 .. at /\ Len(doc) \in Nat
  BY DEF IInv, TypeOK, OtherLine, Here, NextLine
<1>2. TypeOK'
  BY <1>1 DEF IInv, TypeOK, OtherLine
<1>3. Laid(pieces, output)' /\ Protects(pieces, from - 1)' /\ Reaches(pieces, from - 1)'
  BY <1>1, Framed DEF IInv, Reaches
<1>4. Quiet'
  <2>1. \A j \in from .. at : j \in from .. at - 1 \/ j = at
    BY <1>1
  <2>2. QED BY <1>1, <2>1 DEF IInv, Quiet
<1>5. (state = "active") => Closed'
  BY <1>1 DEF IInv, Closed
<1>6. QED BY <1>1, <1>2, <1>3, <1>4, <1>5 DEF IInv

(* The second pass starts within the invariant, on the output of the       *)
(* first.                                                                  *)
LEMMA SecondPassKeeps == IInv /\ SecondPass => IInv'
<1> SUFFICES ASSUME IInv, SecondPass PROVE IInv'
  OBVIOUS
<1>1. TypeOK'
  BY DEF IInv, TypeOK, SecondPass
<1>2. Laid(pieces, output)'
  BY DEF SecondPass, Laid
<1>3. QED BY <1>1, <1>2 DEF IInv, SecondPass

(* A marker that opens an ignored region keeps the invariant: what was     *)
(* pending is pushed first.                                                *)
LEMMA OffKeeps == IInv /\ Off => IInv'
<1> SUFFICES ASSUME IInv, Off PROVE IInv'
  OBVIOUS
<1>1. /\ doc \in Seq(Line) /\ Len(doc) \in Nat /\ UNCHANGED doc /\ UNCHANGED options /\ output \in Seq(Line)
      /\ at \in 1 .. Len(doc) /\ at \in Nat /\ from \in 1 .. at /\ doc[at] \in OffLine
  BY DEF IInv, TypeOK, Off, Here
<1>2. CASE state = "ignored"
  <2>1. /\ state' = "done" /\ result' = "nested" /\ UNCHANGED <<at, from, output, diags, pieces, pass>>
    BY <1>2 DEF Off, Stop
  <2>2. TypeOK'
    BY <1>1, <2>1 DEF IInv, TypeOK, Errors
  <2>3. Laid(pieces, output)'
    BY <1>1, <2>1, Framed DEF IInv
  <2>4. QED BY <2>1, <2>2, <2>3 DEF IInv
<1>3. CASE state = "active"
  <2> DEFINE ps  == Append(pieces, RegionSpan(from, at - 1))
             out == output \o RegionText(from, at - 1)
             qs  == Append(ps, Span(TRUE, (at - 1) + 1, at, Len(out)))
             grown == out \o Text((at - 1) + 1, at)
  <2>1. /\ state' = "ignored" /\ at' = at + 1 /\ from' = at + 1 /\ result' = result /\ pass' = pass
        /\ output' = out \o Text(at, at) /\ pieces' = Append(ps, Span(TRUE, at, at, Len(out)))
        /\ diags' = diags \cup RegionDiags(from, at - 1)
    BY <1>3 DEF Off, NextLine, DirectiveText
  <2>2. /\ out \in Seq(Line) /\ ps \in Seq(Piece)
        /\ Laid(ps, out) /\ Reaches(ps, at - 1) /\ Protects(ps, at - 1)
    BY <1>3, PushRegion
  <2>3. RegionDiags(from, at - 1) \subseteq Diagnostic
    <3>1. from \in 1 .. Len(doc) + 1 /\ at - 1 \in from - 1 .. Len(doc)
      BY <1>1
    <3>2. QED BY <1>1, <3>1, RegionTyped
  <2> HIDE DEF ps, out
  <2>4. /\ grown \in Seq(Line)
        /\ qs \in Seq(Piece) /\ qs # <<>> /\ Laid(qs, grown) /\ Reaches(qs, at) /\ Protects(qs, at)
    <3>1. at - 1 \in Nat /\ at \in at - 1 .. Len(doc)
      BY <1>1
    <3>2. QED BY <1>1, <2>2, <3>1, PushCopy
  <2>5. qs = pieces' /\ grown = output'
    BY <1>1, <2>1
  <2> HIDE DEF qs, grown
  <2>6. TypeOK'
    <3>1. at' \in 1 .. Len(doc') + 1 /\ from' \in 1 .. at'
      BY <1>1, <2>1
    <3>2. doc' \in Seq(Line) /\ output' \in Seq(Line) /\ pieces' \in Seq(Piece)
      BY <1>1, <2>4, <2>5
    <3>3. diags' \subseteq Diagnostic
      BY <2>1, <2>3 DEF IInv, TypeOK
    <3>4. QED BY <1>1, <2>1, <3>1, <3>2, <3>3 DEF IInv, TypeOK
  <2>7. from' - 1 = at
    BY <1>1, <2>1
  <2>8. Laid(pieces, output)' /\ Protects(pieces, from - 1)' /\ Reaches(pieces, from - 1)'
    BY <1>1, <2>4, <2>5, <2>7, Framed, Moved DEF Reaches
  <2>9. Quiet'
    BY <1>1, <2>1 DEF Quiet
  <2>10. QED BY <2>1, <2>6, <2>8, <2>9 DEF IInv
<1>4. QED BY <1>2, <1>3 DEF Off

(* The ignored text and the on line behind it are one copy. *)
LEMMA OnKeeps == IInv /\ On => IInv'
<1> SUFFICES ASSUME IInv, On PROVE IInv'
  OBVIOUS
<1>1. /\ doc \in Seq(Line) /\ Len(doc) \in Nat /\ UNCHANGED doc /\ UNCHANGED options /\ output \in Seq(Line)
      /\ pieces \in Seq(Piece)
      /\ at \in 1 .. Len(doc) /\ at \in Nat /\ from \in 1 .. at /\ doc[at] \in OnLine
  BY DEF IInv, TypeOK, On, Here
<1>2. CASE state = "active"
  <2>1. /\ state' = "done" /\ result' = "unmatched_on" /\ UNCHANGED <<at, from, output, diags, pieces, pass>>
    BY <1>2 DEF On, Stop
  <2>2. TypeOK'
    BY <1>1, <2>1 DEF IInv, TypeOK, Errors
  <2>3. Laid(pieces, output)'
    BY <1>1, <2>1, Framed DEF IInv
  <2>4. QED BY <2>1, <2>2, <2>3 DEF IInv
<1>3. CASE state = "ignored"
  <2> DEFINE n == from - 1
             qs == Append(pieces, Span(TRUE, n + 1, at, Len(output)))
             grown == output \o Text(n + 1, at)
  <2>1. /\ state' = "active" /\ at' = at + 1 /\ from' = at + 1 /\ result' = result /\ pass' = pass
        /\ output' = output \o Text(from, at - 1) \o Text(at, at)
        /\ pieces' = Append(pieces, Span(TRUE, from, at, Len(output))) /\ diags' = diags
    BY <1>3 DEF On, NextLine, ResumeAt, DirectiveText, IgnoredText
  <2>2. /\ grown \in Seq(Line)
        /\ qs \in Seq(Piece) /\ qs # <<>> /\ Laid(qs, grown) /\ Reaches(qs, at) /\ Protects(qs, at)
    <3>1. n \in Nat /\ at \in n .. Len(doc)
      BY <1>1
    <3>2. Laid(pieces, output) /\ Reaches(pieces, n) /\ Protects(pieces, n)
      BY <1>3 DEF IInv
    <3> HIDE DEF n
    <3>3. QED BY <1>1, <3>1, <3>2, PushCopy
  <2>3. qs = pieces' /\ grown = output'
    <3>1. n + 1 = from
      BY <1>1
    <3>2. qs = pieces'
      BY <2>1, <3>1
    <3>3. Text(from, at) = Text(from, at - 1) \o Text(at, at)
      BY <1>1 DEF Text
    <3>4. output \o (Text(from, at - 1) \o Text(at, at)) = output \o Text(from, at - 1) \o Text(at, at)
      <4>1. Text(from, at - 1) \in Seq(Line) /\ Text(at, at) \in Seq(Line)
        BY <1>1 DEF Text
      <4>2. \A s, t, u \in Seq(Line) : (s \o t) \o u = s \o (t \o u)
        BY ConcatAssociative
      <4>3. QED BY <1>1, <4>1, <4>2, Zenon
    <3>5. QED BY <2>1, <3>1, <3>2, <3>3, <3>4
  <2> HIDE DEF qs, grown, n
  <2>4. TypeOK'
    <3>1. at' \in 1 .. Len(doc') + 1 /\ from' \in 1 .. at'
      BY <1>1, <2>1
    <3>2. doc' \in Seq(Line) /\ output' \in Seq(Line) /\ pieces' \in Seq(Piece)
      BY <1>1, <2>2, <2>3
    <3>3. QED BY <1>1, <2>1, <3>1, <3>2 DEF IInv, TypeOK
  <2>5. from' - 1 = at
    BY <1>1, <2>1
  <2>6. Laid(pieces, output)' /\ Protects(pieces, from - 1)' /\ Reaches(pieces, from - 1)'
    BY <1>1, <2>2, <2>3, <2>5, Framed, Moved DEF Reaches
  <2>7. Quiet'
    BY <1>1, <2>1 DEF Quiet
  <2>8. Closed'
    <3>1. \A i \in 1 .. at : at \in i .. at
      BY <1>1
    <3>2. QED BY <1>1, <2>1, <2>5, <3>1 DEF Closed
  <2>9. QED BY <2>1, <2>4, <2>6, <2>7, <2>8 DEF IInv
<1>4. QED BY <1>2, <1>3 DEF On

(* The end of the document keeps the invariant: what is pending is pushed, *)
(* or the document refused.                                                *)
LEMMA EndKeeps == IInv /\ End => IInv'
<1> SUFFICES ASSUME IInv, End PROVE IInv'
  OBVIOUS
<1>1. /\ doc \in Seq(Line) /\ Len(doc) \in Nat /\ UNCHANGED <<doc, options, at, from, pass>>
      /\ at = Len(doc) + 1 /\ from \in 1 .. at /\ state' = "done"
  BY DEF IInv, TypeOK, End, Stop
<1>2. CASE state = "ignored"
  <2>1. result' = "unmatched_off" /\ UNCHANGED <<output, diags, pieces>>
    BY <1>2 DEF End, Stop
  <2>2. TypeOK'
    BY <1>1, <2>1 DEF IInv, TypeOK, Errors
  <2>3. Laid(pieces, output)'
    BY <1>1, <2>1, Framed DEF IInv
  <2>4. QED BY <1>1, <2>1, <2>2, <2>3 DEF IInv
<1>3. CASE state = "active"
  <2>1. /\ result' = "ok" /\ output' = output \o RegionText(from, Len(doc))
        /\ pieces' = Append(pieces, RegionSpan(from, Len(doc)))
        /\ diags' = diags \cup RegionDiags(from, Len(doc))
    BY <1>3 DEF End, Stop
  <2>2. Len(doc) = at - 1
    BY <1>1
  <2>3. /\ output' \in Seq(Line)
        /\ pieces' \in Seq(Piece) /\ pieces' # <<>> /\ Laid(pieces', output')
        /\ Reaches(pieces', Len(doc)) /\ Protects(pieces', Len(doc))
    BY <1>3, <2>1, <2>2, PushRegion
  <2>4. RegionDiags(from, Len(doc)) \subseteq Diagnostic
    <3>1. from \in 1 .. Len(doc) + 1 /\ Len(doc) \in from - 1 .. Len(doc)
      BY <1>1
    <3>2. QED BY <1>1, <3>1, RegionTyped
  <2>5. TypeOK'
    <3>1. diags' \subseteq Diagnostic
      BY <2>1, <2>4 DEF IInv, TypeOK
    <3>2. QED BY <1>1, <2>1, <2>3, <3>1 DEF IInv, TypeOK
  <2>6. Laid(pieces, output)' /\ Protects(pieces, Len(doc))' /\ Reaches(pieces, Len(doc))'
    BY <1>1, <2>3, Framed DEF Reaches
  <2>7. QED BY <1>1, <2>1, <2>3, <2>5, <2>6 DEF IInv
<1>4. QED BY <1>2, <1>3 DEF End

(* Every step keeps the invariant.                                         *)
LEMMA NextKeeps == IInv /\ [Next]_vars => IInv'
<1> SUFFICES ASSUME IInv, [Next]_vars PROVE IInv'
  OBVIOUS
<1>1. CASE UNCHANGED vars
  BY <1>1 DEF vars, IInv, TypeOK, Laid, Copied, Quiet, Closed, Reaches, Protects, Between
<1>2. CASE Next
  BY <1>2, StartKeeps, OffKeeps, OnKeeps, OtherLineKeeps, EndKeeps, SecondPassKeeps DEF Next
<1>3. QED BY <1>1, <1>2

(* The inductive invariant of the walk: the pieces pushed cover the lines  *)
(* before the cursor once and in order, and the output is what the pieces  *)
(* stand for.                                                              *)
THEOREM WalkInvariant == Spec => []IInv
BY InitEstablishes, NextKeeps, PTL DEF Spec

-----------------------------------------------------------------------------
(* Whatever the formatter of regions makes of a text, every variable keeps *)
(* to its type.                                                            *)
THEOREM WalkTypeCorrect == Spec => []TypeOK
<1>1. IInv => TypeOK
  BY DEF IInv
<1>2. QED BY <1>1, WalkInvariant, PTL

(* Whatever the directives and the formatter, no line is lost or pushed twice. *)
THEOREM EveryLineOnce == Spec => []InOrder
<1>1. IInv => InOrder
  BY DEF IInv, InOrder, PushedOnce, Laid, Reaches
<1>2. QED BY <1>1, WalkInvariant, PTL

(* Whatever the formatter, each line of an ignored region and each         *)
(* directive lies in the output unchanged, within its copied span.         *)
THEOREM IgnoredUnchanged == Spec => []IgnoredKept
<1>1. IInv => IgnoredKept
  <2> SUFFICES ASSUME IInv, state = "done", result = "ok", NEW l \in DOMAIN doc, Between(l)
               PROVE  \E i \in DOMAIN pieces :
                        /\ pieces[i].first <= l /\ l <= pieces[i].last
                        /\ At(pieces[i].start + l - pieces[i].first + 1, l)
    BY DEF IgnoredKept
  <2>1. /\ doc \in Seq(Line) /\ pieces \in Seq(Piece) /\ output \in Seq(Line)
        /\ DOMAIN doc = 1 .. Len(doc) /\ DOMAIN pieces = 1 .. Len(pieces)
        /\ DOMAIN output = 1 .. Len(output)
        /\ Laid(pieces, output) /\ Protects(pieces, Len(doc))
    BY DEF IInv, TypeOK
  <2>2. PICK i \in 1 .. Len(pieces) :
          pieces[i].verbatim /\ pieces[i].first <= l /\ l <= pieces[i].last
    BY <2>1 DEF Protects
  <2>3. Copied(pieces[i], output)
    BY <2>1, <2>2 DEF Laid
  <2>4. pieces[i].first \in Nat /\ pieces[i].last \in Nat
    <3>1. pieces[i] \in Piece
      BY <2>1
    <3>2. QED BY <3>1 DEF Piece
  <2>5. l \in pieces[i].first .. pieces[i].last
    BY <2>1, <2>2, <2>4
  <2>6. QED BY <2>1, <2>2, <2>3, <2>5 DEF Copied, At
<1>2. QED BY <1>1, WalkInvariant, PTL

-----------------------------------------------------------------------------
(***************************************************************************)
(* That the walk judges the directives of a document: it keeps no count of *)
(* them, only the name of the state it is in.  The invariant is that the   *)
(* state is the balance of the directives behind it.                       *)
(***************************************************************************)
Balanced(n) ==
  Cardinality({i \in 1 .. n : doc[i] \in OffLine}) - Cardinality({i \in 1 .. n : doc[i] \in OnLine})

(* The judgement of a document of which every line counts.                 *)
LinesJudged ==
  (state = "done") =>
    IF Markers # {}
    THEN result = IF \E i \in Markers : \A j \in 1 .. i - 1 : doc[j] \in BlankLine THEN "ok" ELSE "misplaced"
    ELSE LET bad == {i \in DOMAIN doc : Balanced(i) \notin {0, 1}}
         IN  CASE bad # {} -> LET i == CHOOSE i \in bad : \A j \in bad : i <= j
                              IN  result = IF Balanced(i) = 2 THEN "nested" ELSE "unmatched_on"
               [] bad = {} /\ Balanced(Len(doc)) = 1 -> result = "unmatched_off"
               [] OTHER -> result = "ok"

(* Every balance so far is one an accepted document has, and the state     *)
(* names the last of them.                                                 *)
BalanceInv ==
  state \in {"active", "ignored"} =>
    /\ Markers = {}
    /\ \A i \in 1 .. at - 1 : Balanced(i) \in {0, 1}
    /\ Balanced(at - 1) = IF state = "active" THEN 0 ELSE 1

JInv == BalanceInv /\ LinesJudged

-----------------------------------------------------------------------------
(* The lines up to n that lie in a set of lines, counted.                  *)
Upto(n, lines) == {i \in 1 .. n : doc[i] \in lines}

(* One line more adds one to the count of the sets it lies in.             *)
LEMMA CountLine ==
  ASSUME NEW n \in Nat, NEW lines
  PROVE  /\ Cardinality(Upto(n, lines)) \in Nat
         /\ Cardinality(Upto(n + 1, lines)) =
              Cardinality(Upto(n, lines)) + IF doc[n + 1] \in lines THEN 1 ELSE 0
<1>1. IsFiniteSet(Upto(n, lines))
  <2>1. IsFiniteSet(1 .. n)
    BY FS_Interval
  <2>2. Upto(n, lines) \subseteq 1 .. n
    BY DEF Upto
  <2>3. QED BY <2>1, <2>2, FS_Subset
<1>2. Cardinality(Upto(n, lines)) \in Nat
  BY <1>1, FS_CardinalityType
<1>3. CASE doc[n + 1] \in lines
  <2>1. Upto(n + 1, lines) = Upto(n, lines) \cup {n + 1}
    BY <1>3 DEF Upto
  <2>2. n + 1 \notin Upto(n, lines)
    BY DEF Upto
  <2>3. Cardinality(Upto(n + 1, lines)) = Cardinality(Upto(n, lines)) + 1
    BY <1>1, <2>1, <2>2, FS_AddElement
  <2>4. QED BY <1>2, <1>3, <2>3
<1>4. CASE doc[n + 1] \notin lines
  <2>1. Upto(n + 1, lines) = Upto(n, lines)
    BY <1>4 DEF Upto
  <2>2. QED BY <1>2, <1>4, <2>1
<1>5. QED BY <1>2, <1>3, <1>4

(* The balance before the first line, and what a line does to it.          *)
LEMMA NoLineBalanced == Balanced(0) = 0
<1>1. {i \in 1 .. 0 : doc[i] \in OffLine} = {} /\ {i \in 1 .. 0 : doc[i] \in OnLine} = {}
  OBVIOUS
<1>2. Cardinality({}) = 0
  BY FS_EmptySet
<1>3. QED BY <1>1, <1>2 DEF Balanced

(* What a line adds to the balance of markers that open and markers that   *)
(* close.                                                                  *)
LEMMA BalanceStep ==
  ASSUME NEW n \in Nat
  PROVE  /\ Balanced(n) \in Int
         /\ doc[n + 1] \in OffLine => Balanced(n + 1) = Balanced(n) + 1
         /\ doc[n + 1] \in OnLine => Balanced(n + 1) = Balanced(n) - 1
         /\ doc[n + 1] \notin OffLine \cup OnLine => Balanced(n + 1) = Balanced(n)
<1> DEFINE off(k) == Cardinality(Upto(k, OffLine))
           on(k)  == Cardinality(Upto(k, OnLine))
<1>1. Balanced(n) = off(n) - on(n) /\ Balanced(n + 1) = off(n + 1) - on(n + 1)
  BY DEF Balanced, Upto
<1>2. /\ off(n) \in Nat
      /\ off(n + 1) = off(n) + IF doc[n + 1] \in OffLine THEN 1 ELSE 0
  BY CountLine
<1>3. /\ on(n) \in Nat
      /\ on(n + 1) = on(n) + IF doc[n + 1] \in OnLine THEN 1 ELSE 0
  BY CountLine
<1>4. ~ (doc[n + 1] \in OffLine /\ doc[n + 1] \in OnLine)
  BY LineAssumption
<1> HIDE DEF off, on
<1>5. QED BY <1>1, <1>2, <1>3, <1>4

(* While the document stays, so does what is said of its directives.       *)
LEMMA JudgementFramed ==
  ASSUME UNCHANGED doc
  PROVE  Markers' = Markers /\ \A n : Balanced(n)' = Balanced(n)
BY DEF Markers, Balanced

(* The first line whose balance is wrong is the one an error is for.       *)
LEMMA FirstBad ==
  ASSUME NEW bad \in SUBSET Nat, NEW i \in bad, \A j \in bad : i <= j
  PROVE  (CHOOSE k \in bad : \A j \in bad : k <= j) = i
<1> DEFINE k == CHOOSE k \in bad : \A j \in bad : k <= j
<1>1. k \in bad /\ \A j \in bad : k <= j
  OBVIOUS
<1>2. k <= i /\ i <= k /\ k \in Nat /\ i \in Nat
  BY <1>1
<1> HIDE DEF k
<1>3. k = i
  BY <1>2
<1>4. QED BY <1>3 DEF k

(* The walk stops at a directive whose balance is the first wrong one.     *)
LEMMA RefusedHere ==
  ASSUME UNCHANGED doc, doc \in Seq(Line), Markers = {}, NEW i \in 1 .. Len(doc),
         \A j \in 1 .. i - 1 : Balanced(j) \in {0, 1},
         Balanced(i) \in {-1, 2},
         result' = IF Balanced(i) = 2 THEN "nested" ELSE "unmatched_on"
  PROVE  LinesJudged'
<1> DEFINE bad == {j \in DOMAIN doc : Balanced(j) \notin {0, 1}}
<1>1. DOMAIN doc = 1 .. Len(doc) /\ Len(doc) \in Nat
  OBVIOUS
<1>2. i \in bad
  BY <1>1
<1>3. \A j \in bad : i <= j
  BY <1>1
<1>4. bad \in SUBSET Nat
  BY <1>1
<1> HIDE DEF bad
<1>5. (CHOOSE k \in bad : \A j \in bad : k <= j) = i /\ bad # {}
  BY <1>2, <1>3, <1>4, FirstBad
<1>6. Markers' = {} /\ {j \in DOMAIN doc' : Balanced(j)' \notin {0, 1}} = bad
  BY JudgementFramed DEF bad
<1>7. Balanced(i)' = Balanced(i)
  BY JudgementFramed
<1>8. QED BY <1>5, <1>6, <1>7 DEF LinesJudged

(* The walk reached the end: no balance was wrong, and the last decides.   *)
LEMMA JudgedAtTheEnd ==
  ASSUME UNCHANGED doc, doc \in Seq(Line), Markers = {}, \A j \in 1 .. Len(doc) : Balanced(j) \in {0, 1},
         result' = IF Balanced(Len(doc)) = 1 THEN "unmatched_off" ELSE "ok"
  PROVE  LinesJudged'
<1>1. {j \in DOMAIN doc' : Balanced(j)' \notin {0, 1}} = {}
  BY JudgementFramed
<1>2. Markers' = {} /\ Balanced(Len(doc))' = Balanced(Len(doc)) /\ Len(doc') = Len(doc)
  BY JudgementFramed
<1>3. QED BY <1>1, <1>2 DEF LinesJudged

-----------------------------------------------------------------------------

(* At the start no line has been judged.                                   *)
LEMMA InitJudges == Init => JInv
BY DEF Init, JInv, BalanceInv, LinesJudged

(* A marker is judged by what is before it: a line that leads is one with  *)
(* only blank lines before it, since a marker is not blank itself.         *)
LEMMA StartJudges == IInv /\ Start => JInv'
<1> SUFFICES ASSUME IInv, Start PROVE JInv'
  OBVIOUS
<1>1. /\ doc \in Seq(Line) /\ Len(doc) \in Nat /\ UNCHANGED <<doc, at>>
      /\ DOMAIN doc = 1 .. Len(doc) /\ at = 1
  BY DEF IInv, TypeOK, Start
<1>2. Markers' = Markers /\ \A n : Balanced(n)' = Balanced(n)
  BY <1>1, JudgementFramed
<1>3. ASSUME NEW i \in Markers
      PROVE  Leads(i) <=> \A j \in 1 .. i - 1 : doc[j] \in BlankLine
  <2>1. i \in 1 .. Len(doc) /\ doc[i] \notin BlankLine
    BY <1>1, LineAssumption DEF Markers
  <2>2. \A j \in 1 .. i : j # i <=> j \in 1 .. i - 1
    BY <2>1
  <2>3. i \in 1 .. i /\ \A j \in 1 .. i - 1 : j \in 1 .. i
    BY <2>1
  <2>4. QED BY <2>1, <2>2, <2>3 DEF Leads
<1>4. CASE (\E i \in Markers : Leads(i)) /\ state' = "done" /\ result' = "ok"
  BY <1>1, <1>2, <1>3, <1>4 DEF JInv, BalanceInv, LinesJudged
<1>5. CASE Markers # {} /\ (\A i \in Markers : ~ Leads(i)) /\ state' = "done" /\ result' = "misplaced"
  BY <1>1, <1>2, <1>3, <1>5 DEF JInv, BalanceInv, LinesJudged
<1>6. CASE Markers = {} /\ state' = "active"
  <2>1. at' - 1 = 0 /\ Balanced(0) = 0
    BY <1>1, NoLineBalanced
  <2>2. Balanced(at - 1)' = 0
    <3>1. Balanced(at - 1)' = Balanced(0)'
      BY <2>1
    <3>2. Balanced(0)' = Balanced(0)
      BY <1>2
    <3>3. QED BY <2>1, <3>1, <3>2
  <2>3. \A i \in 1 .. at' - 1 : FALSE
    BY <2>1
  <2>4. BalanceInv'
    BY <1>2, <1>6, <2>2, <2>3 DEF BalanceInv
  <2>5. QED BY <1>6, <2>4 DEF JInv, LinesJudged
<1>7. QED BY <1>4, <1>5, <1>6 DEF Start, Stop

(* What one line does to the invariant: the walk goes on when the balance  *)
(* is one an accepted document has, and stops for the first that is not.   *)
LEMMA LineJudges ==
  ASSUME IInv, JInv, UNCHANGED doc,
         state \in {"active", "ignored"}, at \in 1 .. Len(doc),
         \/ /\ state' \in {"active", "ignored"} /\ at' = at + 1
            /\ Balanced(at) = IF state' = "active" THEN 0 ELSE 1
         \/ /\ state' = "done" /\ Balanced(at) \in {-1, 2}
            /\ result' = IF Balanced(at) = 2 THEN "nested" ELSE "unmatched_on"
  PROVE  JInv'
<1>1. /\ doc \in Seq(Line) /\ Len(doc) \in Nat /\ at \in Nat
      /\ Markers = {} /\ \A j \in 1 .. at - 1 : Balanced(j) \in {0, 1}
  BY DEF IInv, TypeOK, JInv, BalanceInv
<1>2. Markers' = Markers /\ \A n : Balanced(n)' = Balanced(n)
  BY JudgementFramed
<1>3. CASE /\ state' \in {"active", "ignored"} /\ at' = at + 1
           /\ Balanced(at) = IF state' = "active" THEN 0 ELSE 1
  <2>1. at' - 1 = at /\ Balanced(at) \in {0, 1}
    BY <1>1, <1>3
  <2>2. Balanced(at - 1)' = Balanced(at)
    <3>1. Balanced(at - 1)' = Balanced(at' - 1)
      BY DEF Balanced
    <3>2. QED BY <2>1, <3>1
  <2>3. \A j \in 1 .. at : Balanced(j) \in {0, 1}
    <3>1. \A j \in 1 .. at : j = at \/ j \in 1 .. at - 1
      BY <1>1
    <3>2. QED BY <1>1, <2>1, <3>1
  <2>4. \A j \in 1 .. at' - 1 : Balanced(j)' \in {0, 1}
    BY <1>2, <2>1, <2>3
  <2>5. BalanceInv'
    BY <1>1, <1>2, <1>3, <2>2, <2>4 DEF BalanceInv
  <2>6. QED BY <1>3, <2>5 DEF JInv, LinesJudged
<1>4. CASE /\ state' = "done" /\ Balanced(at) \in {-1, 2}
           /\ result' = IF Balanced(at) = 2 THEN "nested" ELSE "unmatched_on"
  <2>1. LinesJudged'
    BY <1>1, <1>2, <1>4, RefusedHere
  <2>2. QED BY <1>4, <2>1 DEF JInv, BalanceInv
<1>5. QED BY <1>3, <1>4

(* A marker that opens is judged by the balance before it: open already,   *)
(* it is nested.                                                           *)
LEMMA OffJudges == IInv /\ JInv /\ Off => JInv'
<1> SUFFICES ASSUME IInv, JInv, Off PROVE JInv'
  OBVIOUS
<1>1. /\ at \in 1 .. Len(doc) /\ at \in Nat /\ doc[at] \in OffLine /\ UNCHANGED doc
      /\ state \in {"active", "ignored"}
  BY DEF IInv, TypeOK, Off, Here
<1>2. Balanced(at) = Balanced(at - 1) + 1
  <2>1. at - 1 \in Nat /\ (at - 1) + 1 = at
    BY <1>1
  <2>2. QED BY <1>1, <2>1, BalanceStep
<1>3. CASE state = "ignored"
  <2>1. Balanced(at) = 2 /\ state' = "done" /\ result' = "nested"
    BY <1>1, <1>2, <1>3 DEF JInv, BalanceInv, Off, Stop
  <2>2. QED BY <1>1, <2>1, LineJudges
<1>4. CASE state = "active"
  <2>1. Balanced(at) = 1 /\ state' = "ignored" /\ at' = at + 1
    BY <1>1, <1>2, <1>4 DEF JInv, BalanceInv, Off, NextLine
  <2>2. QED BY <1>1, <2>1, LineJudges
<1>5. QED BY <1>1, <1>3, <1>4

(* A marker that closes is judged by the balance before it: nothing open,  *)
(* it is unmatched.                                                        *)
LEMMA OnJudges == IInv /\ JInv /\ On => JInv'
<1> SUFFICES ASSUME IInv, JInv, On PROVE JInv'
  OBVIOUS
<1>1. /\ at \in 1 .. Len(doc) /\ at \in Nat /\ doc[at] \in OnLine /\ UNCHANGED doc
      /\ state \in {"active", "ignored"}
  BY DEF IInv, TypeOK, On, Here
<1>2. Balanced(at) = Balanced(at - 1) - 1
  <2>1. at - 1 \in Nat /\ (at - 1) + 1 = at
    BY <1>1
  <2>2. QED BY <1>1, <2>1, BalanceStep
<1>3. CASE state = "active"
  <2>1. Balanced(at) = -1 /\ state' = "done" /\ result' = "unmatched_on"
    BY <1>1, <1>2, <1>3 DEF JInv, BalanceInv, On, Stop
  <2>2. QED BY <1>1, <2>1, LineJudges
<1>4. CASE state = "ignored"
  <2>1. Balanced(at) = 0 /\ state' = "active" /\ at' = at + 1
    BY <1>1, <1>2, <1>4 DEF JInv, BalanceInv, On, NextLine
  <2>2. QED BY <1>1, <2>1, LineJudges
<1>5. QED BY <1>1, <1>3, <1>4

(* A line without a marker leaves the balance as it is.                    *)
LEMMA OtherLineJudges == IInv /\ JInv /\ OtherLine => JInv'
<1> SUFFICES ASSUME IInv, JInv, OtherLine PROVE JInv'
  OBVIOUS
<1>1. /\ at \in 1 .. Len(doc) /\ at \in Nat /\ doc[at] \notin OffLine \cup OnLine
      /\ UNCHANGED <<doc, state>> /\ state \in {"active", "ignored"} /\ at' = at + 1
  BY DEF IInv, TypeOK, OtherLine, Here, NextLine
<1>2. Balanced(at) = Balanced(at - 1)
  <2>1. at - 1 \in Nat /\ (at - 1) + 1 = at
    BY <1>1
  <2>2. QED BY <1>1, <2>1, BalanceStep
<1>3. Balanced(at) = IF state' = "active" THEN 0 ELSE 1
  BY <1>1, <1>2 DEF JInv, BalanceInv
<1>4. QED BY <1>1, <1>3, LineJudges

(* At the end the balance says whether a region is still open.             *)
LEMMA EndJudges == IInv /\ JInv /\ End => JInv'
<1> SUFFICES ASSUME IInv, JInv, End PROVE JInv'
  OBVIOUS
<1>1. /\ doc \in Seq(Line) /\ Len(doc) \in Nat /\ UNCHANGED doc /\ at - 1 = Len(doc)
      /\ state \in {"active", "ignored"} /\ state' = "done"
      /\ result' = IF state = "active" THEN "ok" ELSE "unmatched_off"
  BY DEF IInv, TypeOK, End, Stop
<1>2. Markers = {} /\ \A j \in 1 .. Len(doc) : Balanced(j) \in {0, 1}
  BY <1>1 DEF JInv, BalanceInv
<1>3. result' = IF Balanced(Len(doc)) = 1 THEN "unmatched_off" ELSE "ok"
  BY <1>1 DEF JInv, BalanceInv
<1>4. Markers' = Markers /\ \A n : Balanced(n)' = Balanced(n)
  BY <1>1, JudgementFramed
<1>5. LinesJudged'
  BY <1>1, <1>2, <1>3, <1>4, JudgedAtTheEnd
<1>6. QED BY <1>1, <1>5 DEF JInv, BalanceInv

(* Every step keeps the state of the walk equal to the balance of the      *)
(* markers behind it.                                                      *)
LEMMA NextJudges == IInv /\ JInv /\ [Next]_vars => JInv'
<1> SUFFICES ASSUME IInv, JInv, [Next]_vars PROVE JInv'
  OBVIOUS
<1>1. CASE UNCHANGED vars
  <2>1. UNCHANGED <<doc, state, at, result>>
    BY <1>1 DEF vars
  <2>2. Markers' = Markers /\ \A n : Balanced(n)' = Balanced(n)
    BY <2>1, JudgementFramed
  <2>3. BalanceInv'
    <3>1. Balanced(at - 1)' = Balanced(at - 1)
      BY <2>1 DEF Balanced
    <3>2. QED BY <2>1, <2>2, <3>1 DEF JInv, BalanceInv
  <2>4. LinesJudged'
    <3>1. LinesJudged' <=> LinesJudged
      BY <2>1 DEF LinesJudged, Markers, Balanced
    <3>2. QED BY <3>1 DEF JInv
  <2>5. QED BY <2>3, <2>4 DEF JInv
<1>2. CASE SecondPass
  BY <1>2 DEF SecondPass, JInv, BalanceInv, LinesJudged
<1>3. CASE Next /\ ~ SecondPass
  BY <1>3, StartJudges, OffJudges, OnJudges, OtherLineJudges, EndJudges DEF Next
<1>4. QED BY <1>1, <1>2, <1>3

(* Whatever the lines of a document and the formatter of its regions: the  *)
(* balance of the directives behind the walk is the state it is in.        *)
THEOREM JudgementInvariant == Spec => []JInv
BY InitEstablishes, NextKeeps, InitJudges, NextJudges, PTL DEF Spec

(* Rows without directives do not change what the directives come to.      *)
LEMMA RowsDoNotCount ==
  ASSUME doc \in Seq(Line), \A l \in Rows : doc[l] \notin DirectiveLine
  PROVE  /\ Markers \cap (DOMAIN doc \ Rows) = Markers
         /\ \A n \in 0 .. Len(doc) : Balance(DOMAIN doc \ Rows, n) = Balanced(n)
<1> DEFINE S == DOMAIN doc \ Rows
<1>1. DOMAIN doc = 1 .. Len(doc) /\ Len(doc) \in Nat
  OBVIOUS
<1>2. \A i \in DOMAIN doc : doc[i] \in DirectiveLine => i \in S
  OBVIOUS
<1> HIDE DEF S
<1>3. Markers \cap S = Markers
  BY <1>2 DEF Markers, DirectiveLine
<1>4. ASSUME NEW n \in 0 .. Len(doc)
      PROVE  Balance(S, n) = Balanced(n)
  <2>1. \A i \in 1 .. n : i \in DOMAIN doc
    BY <1>1
  <2>2. {i \in 1 .. n : i \in S /\ doc[i] \in OffLine} = {i \in 1 .. n : doc[i] \in OffLine}
    BY <1>2, <2>1 DEF DirectiveLine
  <2>3. {i \in 1 .. n : i \in S /\ doc[i] \in OnLine} = {i \in 1 .. n : doc[i] \in OnLine}
    BY <1>2, <2>1 DEF DirectiveLine
  <2>4. QED BY <2>2, <2>3 DEF Balance, Balanced
<1>5. QED BY <1>3, <1>4 DEF S

(* A document of any length whose payloads hold no row that reads as a     *)
(* directive is refused exactly when its directives do not alternate from  *)
(* off to on, or its marker is not its first text, and with the error of   *)
(* the first line that is wrong: what format_sql_document decides from one *)
(* line and one state at a time.                                           *)
THEOREM DirectivesAnswered == Spec => []DirectivesJudged
<1>1. TypeOK /\ LinesJudged => DirectivesJudged
  <2> SUFFICES ASSUME TypeOK, LinesJudged, state = "done", \A l \in Rows : doc[l] \notin DirectiveLine
               PROVE  result = Judgement(DOMAIN doc \ Rows)
    BY DEF DirectivesJudged, PayloadNotScanned
  <2> DEFINE S == DOMAIN doc \ Rows
             bad == {i \in DOMAIN doc : Balanced(i) \notin {0, 1}}
             first == CHOOSE i \in bad : \A j \in bad : i <= j
  <2>1. doc \in Seq(Line) /\ DOMAIN doc = 1 .. Len(doc) /\ Len(doc) \in Nat
    BY DEF TypeOK
  <2>2. Markers \cap S = Markers /\ \A n \in 0 .. Len(doc) : Balance(S, n) = Balanced(n)
    BY <2>1, RowsDoNotCount
  <2> HIDE DEF S
  <2>3. {i \in DOMAIN doc : Balance(S, i) \notin {0, 1}} = bad /\ Balance(S, Len(doc)) = Balanced(Len(doc))
    BY <2>1, <2>2
  <2>4. bad # {} => Balance(S, first) = Balanced(first)
    <3>1. SUFFICES ASSUME bad # {} PROVE first \in 1 .. Len(doc)
      BY <2>2
    <3>2. \E i \in bad : \A j \in bad : i <= j
      <4>1. bad \in SUBSET Nat
        BY <2>1
      <4>2. QED BY <3>1, <4>1, LeastNatural
    <3>3. QED BY <2>1, <3>2
  <2>5. CASE Markers # {}
    BY <2>2, <2>5 DEF LinesJudged, Judgement, S
  <2>6. CASE Markers = {} /\ bad # {}
    BY <2>2, <2>3, <2>4, <2>6 DEF LinesJudged, Judgement, S
  <2>7. CASE Markers = {} /\ bad = {}
    BY <2>2, <2>3, <2>7 DEF LinesJudged, Judgement, S
  <2>8. QED BY <2>5, <2>6, <2>7
<1>2. JInv => LinesJudged
  BY DEF JInv
<1>3. QED BY <1>1, <1>2, WalkTypeCorrect, JudgementInvariant, PTL

-----------------------------------------------------------------------------
(***************************************************************************)
(* The second pass.  It is promised nothing by an arbitrary formatter: a   *)
(* formatter settles when it leaves its own output alone and writes no     *)
(* directive.                                                              *)
(***************************************************************************)
Plain == Line \ (OffLine \cup OnLine \cup IgnoreLine)

(* What is pushed for a region. *)
Printed(policy, r) ==
  IF AllBlank(r) \/ FormatRegion(policy, r) \notin FormattedSql THEN r ELSE FormatRegion(policy, r).out

FormatterSettles ==
  \A policy \in Options : \A r \in Seq(Plain) :
    Printed(policy, r) \in Seq(Plain) /\ Printed(policy, Printed(policy, r)) = Printed(policy, r)

(* Where a text may hold an off, or an on, before line i. *)
ClosedBefore(t, i) == \A j \in 1 .. i - 1 : t[j] \in OffLine => \E k \in j .. i - 1 : t[k] \in OnLine
OpenBefore(t, i)   == \E j \in 1 .. i - 1 : t[j] \in OffLine /\ \A k \in j .. i - 1 : t[k] \notin OnLine

Alternates(t) ==
  \A i \in 1 .. Len(t) : (t[i] \in OffLine => ClosedBefore(t, i)) /\ (t[i] \in OnLine => OpenBefore(t, i))

(* Lines i to j of a text lie behind an on, or at its start, and hold no   *)
(* directive.                                                              *)
Active(t, i, j)       == (i = 1 \/ t[i - 1] \in OnLine) /\ \A k \in i .. j : t[k] \notin OffLine \cup OnLine
Kept(policy, t, i, j) == Active(t, i, j) => Printed(policy, SubSeq(t, i, j)) = SubSeq(t, i, j)

(* The directives of a text alternate, and the formatter leaves its active *)
(* regions alone: those before an off, and the one at its end.             *)
Sealed(policy, t) ==
  /\ \A i \in 1 .. Len(t) : t[i] \notin IgnoreLine
  /\ Alternates(t)
  /\ \A i \in 1 .. Len(t), j \in 0 .. Len(t) - 1 : i <= j + 1 /\ t[j + 1] \in OffLine => Kept(policy, t, i, j)

SettledEnd(policy, t) ==
  ClosedBefore(t, Len(t) + 1) /\ \A i \in 1 .. Len(t) + 1 : Kept(policy, t, i, Len(t))

Led(t) == \E i \in 1 .. Len(t) : t[i] \in IgnoreLine /\ \A j \in 1 .. i - 1 : t[j] \in BlankLine

Settled(policy, t) == Led(t) \/ (Sealed(policy, t) /\ SettledEnd(policy, t))

OnBehind(t)  == t = <<>> \/ t[Len(t)] \in OnLine
OffBehind(t) == t # <<>> /\ t[Len(t)] \in OffLine

(* Text without directives behind a sealed text. *)
LEMMA PlainBehind ==
  ASSUME NEW policy, NEW t \in Seq(Line), NEW r \in Seq(Plain), Sealed(policy, t)
  PROVE  /\ t \o r \in Seq(Line) /\ Sealed(policy, t \o r)
         /\ OnBehind(t) /\ Printed(policy, r) = r => SettledEnd(policy, t \o r)
         /\ OffBehind(t) => OpenBefore(t \o r, Len(t \o r) + 1)
<1>1. PICK u, n, m : u = t \o r /\ n = Len(t) /\ m = Len(r)
  OBVIOUS
<1>2. /\ n \in Nat /\ m \in Nat /\ Len(u) = n + m
      /\ \A i \in 1 .. n : u[i] = t[i] /\ t[i] \in Line
      /\ \A i \in n + 1 .. n + m : u[i] = r[i - n] /\ r[i - n] \in Plain
      /\ u \in Seq(Line)
  <2>1. /\ n \in Nat /\ m \in Nat /\ \A i \in 1 .. m : r[i] \in Plain /\ r[i] \in Line
        /\ \A i \in 1 .. n : t[i] \in Line
    BY <1>1 DEF Plain
  <2>2. r \in Seq(Line)
    BY <1>1, <2>1
  <2>3. u \in Seq(Line) /\ Len(u) = n + m
    BY <1>1, <2>2
  <2>4. \A i \in 1 .. n : u[i] = t[i]
    BY <1>1, <2>2
  <2>5. \A i \in n + 1 .. n + m : u[i] = r[i - n] /\ i - n \in 1 .. m
    BY <1>1, <2>1, <2>2
  <2>6. QED BY <2>1, <2>3, <2>4, <2>5
<1>3. \A i \in n + 1 .. n + m : u[i] \notin OffLine \cup OnLine \cup IgnoreLine
  BY <1>2 DEF Plain
<1>4. Sealed(policy, u)
  <2>1. \A i \in 1 .. Len(u) : u[i] \notin IgnoreLine
    BY <1>1, <1>2, <1>3 DEF Sealed
  <2>2. ASSUME NEW i \in 1 .. Len(u), u[i] \in OffLine \cup OnLine PROVE i \in 1 .. n
    BY <1>2, <1>3, <2>2
  <2>3. ASSUME NEW i \in 1 .. n
        PROVE  (t[i] \in OffLine => ClosedBefore(u, i)) /\ (t[i] \in OnLine => OpenBefore(u, i))
    <3>1. \A j \in 1 .. i - 1 : u[j] = t[j] /\ \A k \in j .. i - 1 : u[k] = t[k]
      BY <1>2
    <3>2. (t[i] \in OffLine => ClosedBefore(t, i)) /\ (t[i] \in OnLine => OpenBefore(t, i))
      BY <1>1 DEF Sealed, Alternates
    <3>3. QED BY <3>1, <3>2 DEF ClosedBefore, OpenBefore
  <2>4. Alternates(u)
    BY <1>2, <2>2, <2>3 DEF Alternates
  <2>5. ASSUME NEW i \in 1 .. Len(u), NEW j \in 0 .. Len(u) - 1, i <= j + 1, u[j + 1] \in OffLine
        PROVE  Kept(policy, u, i, j)
    <3>1. j + 1 \in 1 .. n /\ i \in 1 .. n /\ j \in 0 .. n - 1
      BY <1>2, <2>2, <2>5
    <3>2. t[j + 1] \in OffLine /\ Kept(policy, t, i, j)
      BY <1>1, <1>2, <2>5, <3>1 DEF Sealed
    <3>3. \A k \in i .. j : u[k] = t[k] /\ t[k] \in Line
      BY <1>2, <3>1
    <3>4. i = 1 \/ u[i - 1] = t[i - 1]
      BY <1>2, <3>1
    <3>5. SubSeq(u, i, j) = SubSeq(t, i, j)
      BY <1>1, <1>2, <3>1, <3>3
    <3>6. QED BY <3>2, <3>3, <3>4, <3>5 DEF Kept, Active
  <2>6. QED BY <2>1, <2>4, <2>5 DEF Sealed
<1>5. ASSUME OnBehind(t), Printed(policy, r) = r PROVE SettledEnd(policy, u)
  <2>1. n = 0 \/ (n \in 1 .. n /\ u[n] \in OnLine)
    BY <1>1, <1>2, <1>5 DEF OnBehind
  <2>2. ClosedBefore(u, n + m + 1)
    <3>1. ASSUME NEW j \in 1 .. n + m, u[j] \in OffLine PROVE n \in j .. n + m /\ u[n] \in OnLine
      BY <1>2, <1>3, <2>1, <3>1
    <3>2. QED BY <1>2, <3>1 DEF ClosedBefore
  <2>3. ASSUME NEW i \in 1 .. n + m + 1, Active(u, i, n + m) PROVE Printed(policy, SubSeq(u, i, n + m)) = SubSeq(u, i, n + m)
    <3>1. i = n + 1
      <4>1. ~ (i <= n)
        BY <1>2, <2>1, <2>3 DEF Active
      <4>2. ~ (i > n + 1)
        <5>1. i > n + 1 => i - 1 \in n + 1 .. n + m /\ i # 1
          BY <1>2
        <5>2. QED BY <1>3, <2>3, <5>1 DEF Active
      <4>3. QED BY <1>2, <4>1, <4>2
    <3>2. SubSeq(u, n + 1, n + m) = r
      <4>1. PICK v : v = SubSeq(u, n + 1, n + m)
        OBVIOUS
      <4>2. v \in Seq(Line) /\ Len(v) = m /\ \A k \in 1 .. m : v[k] = u[n + k]
        BY <1>2, <4>1
      <4>3. \A k \in 1 .. m : n + k \in n + 1 .. n + m /\ (n + k) - n = k
        BY <1>2
      <4>4. \A k \in 1 .. m : v[k] = r[k]
        BY <1>2, <4>2, <4>3
      <4>5. v \in Seq(Line \cup Plain) /\ r \in Seq(Line \cup Plain) /\ Len(v) = Len(r)
        BY <1>1, <4>2
      <4>6. v = r
        BY <1>1, <4>4, <4>5, SeqEqual
      <4>7. QED BY <4>1, <4>6
    <3>3. QED BY <1>5, <3>1, <3>2
  <2>4. QED BY <1>2, <2>2, <2>3 DEF SettledEnd, Kept
<1>6. ASSUME OffBehind(t) PROVE OpenBefore(u, n + m + 1)
  <2>1. n \in 1 .. n + m /\ u[n] \in OffLine
    BY <1>1, <1>2, <1>6 DEF OffBehind
  <2>2. u[n] \notin OnLine
    BY <2>1, LineAssumption
  <2>3. \A k \in n .. n + m : u[k] \notin OnLine
    BY <1>2, <1>3, <2>2
  <2>4. PICK e : e = n + m + 1
    OBVIOUS
  <2>5. e - 1 = n + m
    BY <1>2, <2>4
  <2>6. OpenBefore(u, e)
    BY <2>1, <2>3, <2>5 DEF OpenBefore
  <2>7. QED BY <2>4, <2>6
<1>7. QED BY <1>1, <1>2, <1>4, <1>5, <1>6

(* A directive behind a sealed text, where it may stand. *)
LEMMA DirectiveBehind ==
  ASSUME NEW policy, NEW t \in Seq(Line), NEW l \in OffLine \cup OnLine, Sealed(policy, t),
         l \in OffLine => SettledEnd(policy, t), l \in OnLine => OpenBefore(t, Len(t) + 1)
  PROVE  /\ t \o <<l>> \in Seq(Line) /\ Sealed(policy, t \o <<l>>)
         /\ l \in OffLine => OffBehind(t \o <<l>>)
         /\ l \in OnLine => OnBehind(t \o <<l>>)
<1>1. PICK u, n : u = t \o <<l>> /\ n = Len(t)
  OBVIOUS
<1>2. /\ n \in Nat /\ Len(u) = n + 1 /\ u \in Seq(Line) /\ u # <<>>
      /\ \A i \in 1 .. n : u[i] = t[i] /\ t[i] \in Line
      /\ u[n + 1] = l
  BY <1>1, LineAssumption
<1>3. l \notin IgnoreLine /\ ~ (l \in OffLine /\ l \in OnLine)
  BY LineAssumption
<1>4. \A i \in 1 .. Len(u) : u[i] \notin IgnoreLine
  BY <1>1, <1>2, <1>3 DEF Sealed
<1>5. ASSUME NEW i \in 1 .. n + 1
      PROVE  (u[i] \in OffLine => ClosedBefore(u, i)) /\ (u[i] \in OnLine => OpenBefore(u, i))
  <2>1. \A j \in 1 .. i - 1 : u[j] = t[j] /\ \A k \in j .. i - 1 : u[k] = t[k]
    BY <1>2
  <2>2. (u[i] \in OffLine => ClosedBefore(t, i)) /\ (u[i] \in OnLine => OpenBefore(t, i))
    <3>1. CASE i = n + 1
      BY <1>1, <1>2, <3>1 DEF SettledEnd
    <3>2. CASE i # n + 1
      <4>1. i \in 1 .. n /\ u[i] = t[i]
        BY <1>2, <3>2
      <4>2. QED BY <1>1, <4>1 DEF Sealed, Alternates
    <3>3. QED BY <3>1, <3>2
  <2>3. QED BY <2>1, <2>2 DEF ClosedBefore, OpenBefore
<1>6. ASSUME NEW i \in 1 .. n + 1, NEW j \in 0 .. n, i <= j + 1, u[j + 1] \in OffLine
      PROVE  Kept(policy, u, i, j)
  <2>1. Kept(policy, t, i, j)
    <3>1. CASE j = n
      BY <1>1, <1>2, <1>6, <3>1 DEF SettledEnd
    <3>2. CASE j # n
      <4>1. j + 1 \in 1 .. n /\ j \in 0 .. n - 1 /\ i \in 1 .. n /\ t[j + 1] \in OffLine
        BY <1>2, <1>6, <3>2
      <4>2. QED BY <1>1, <1>6, <4>1 DEF Sealed
    <3>3. QED BY <3>1, <3>2
  <2>2. \A k \in i .. j : u[k] = t[k] /\ t[k] \in Line
    BY <1>2
  <2>3. i = 1 \/ u[i - 1] = t[i - 1]
    BY <1>2, <1>6
  <2>4. SubSeq(u, i, j) = SubSeq(t, i, j)
    BY <1>1, <1>2, <1>6, <2>2
  <2>5. QED BY <2>1, <2>2, <2>3, <2>4 DEF Kept, Active
<1>7. Sealed(policy, u)
  BY <1>2, <1>4, <1>5, <1>6 DEF Sealed, Alternates
<1>8. QED BY <1>1, <1>2, <1>7 DEF OffBehind, OnBehind

(* A text is its first lines with the lines behind them. *)
LEMMA TextsJoin ==
  ASSUME doc \in Seq(Line), NEW i \in 1 .. Len(doc) + 1, NEW j \in i - 1 .. Len(doc)
  PROVE  Text(1, i - 1) \o Text(i, j) = Text(1, j) /\ Text(1, Len(doc)) = doc
<1>1. PICK n, a, b, c : n = Len(doc) /\ a = SubSeq(doc, 1, i - 1) /\ b = SubSeq(doc, i, j) /\ c = SubSeq(doc, 1, j)
  OBVIOUS
<1>2. n \in Nat /\ i \in 1 .. n + 1 /\ j \in i - 1 .. n /\ \A k \in 1 .. n : doc[k] \in Line
  BY <1>1
<1>3. a \in Seq(Line) /\ Len(a) = i - 1 /\ \A k \in 1 .. i - 1 : a[k] = doc[k]
  BY <1>1, <1>2
<1>4. b \in Seq(Line) /\ Len(b) = j - i + 1 /\ \A k \in 1 .. j - i + 1 : b[k] = doc[i + k - 1]
  BY <1>1, <1>2
<1>5. c \in Seq(Line) /\ Len(c) = j /\ \A k \in 1 .. j : c[k] = doc[k]
  BY <1>1, <1>2
<1>6. PICK d, p, q : d = a \o b /\ p = i - 1 /\ q = j - i + 1
  OBVIOUS
<1>7. p \in Nat /\ q \in Nat /\ p + q = j /\ Len(a) = p /\ Len(b) = q
  BY <1>2, <1>3, <1>4, <1>6
<1>8. /\ d \in Seq(Line) /\ Len(d) = p + q
      /\ \A k \in 1 .. p : d[k] = a[k]
      /\ \A k \in p + 1 .. p + q : d[k] = b[k - p]
  <2>1. a \in Seq(Line) /\ b \in Seq(Line) /\ d = a \o b /\ Len(a) = p /\ Len(b) = q
    BY <1>3, <1>4, <1>6, <1>7
  <2>2. /\ a \o b \in Seq(Line) /\ Len(a \o b) = Len(a) + Len(b)
        /\ \A k \in 1 .. Len(a) + Len(b) : (a \o b)[k] = IF k <= Len(a) THEN a[k] ELSE b[k - Len(a)]
    BY <2>1, ConcatProperties
  <2>3. \A k \in 1 .. p + q : d[k] = IF k <= p THEN a[k] ELSE b[k - p]
    BY <2>1, <2>2
  <2>4. \A k \in 1 .. p : k \in 1 .. p + q /\ k <= p
    BY <1>7
  <2>5. \A k \in p + 1 .. p + q : k \in 1 .. p + q /\ ~ (k <= p)
    BY <1>7
  <2>6. QED BY <2>1, <2>2, <2>3, <2>4, <2>5
<1>9. ASSUME NEW k \in 1 .. j PROVE d[k] = c[k]
  <2>1. CASE k <= p
    <3>1. k \in 1 .. p
      BY <1>7, <2>1
    <3>2. QED BY <1>3, <1>5, <1>6, <1>8, <3>1
  <2>2. CASE ~ (k <= p)
    <3>1. PICK m : m = k - p
      OBVIOUS
    <3>2. m \in 1 .. q /\ i + m - 1 = k /\ k \in p + 1 .. p + q
      BY <1>2, <1>6, <1>7, <2>2, <3>1
    <3>3. d[k] = b[m]
      BY <1>8, <3>1, <3>2
    <3>4. b[m] = doc[k]
      BY <1>4, <1>6, <3>2
    <3>5. QED BY <1>5, <3>3, <3>4
  <2>3. QED BY <2>1, <2>2
<1>10. d = c
  BY <1>5, <1>7, <1>8, <1>9, SeqEqual
<1>11. Text(1, Len(doc)) = doc
  <2>1. PICK v : v = SubSeq(doc, 1, n)
    OBVIOUS
  <2>2. v \in Seq(Line) /\ Len(v) = n /\ \A k \in 1 .. n : v[k] = doc[k]
    BY <1>2, <2>1
  <2>3. v = doc
    BY <1>1, <2>2, SeqEqual
  <2>4. QED BY <1>1, <2>1, <2>3 DEF Text
<1>12. QED BY <1>1, <1>6, <1>10, <1>11 DEF Text

(* The text of one line, as a directive is copied to the output.           *)
LEMMA OneLine ==
  ASSUME doc \in Seq(Line), NEW i \in 1 .. Len(doc)
  PROVE  Text(i, i) = <<doc[i]>>
<1>1. PICK u, l : u = SubSeq(doc, i, i) /\ l = doc[i]
  OBVIOUS
<1>2. i \in Nat /\ i \in Int /\ i - i + 1 = 1 /\ l \in Line /\ i + 1 - 1 = i
  BY <1>1
<1>3. u \in Seq(Line) /\ Len(u) = 1 /\ u[1] = l
  BY <1>1, <1>2
<1>4. <<l>> \in Seq(Line) /\ Len(<<l>>) = 1 /\ <<l>>[1] = l
  BY <1>2
<1>5. u = <<l>>
  BY <1>3, <1>4, SeqEqual
<1>6. QED BY <1>1, <1>5 DEF Text

(* What the walk keeps: its output is sealed, and in a second pass it is   *)
(* the document so far.                                                    *)
SoFar ==
  /\ output = Text(1, from - 1)
  /\ state = "active" => from = 1 \/ doc[from - 1] \in OnLine
  /\ state = "ignored" => from # 1 /\ doc[from - 1] \in OffLine

Behind == IF state = "active" THEN OnBehind(output) ELSE OffBehind(output)

SettledInv ==
  /\ state \in {"active", "ignored"} => Sealed(options, output) /\ Behind
  /\ (state = "done" /\ result = "ok") => Settled(options, output)
  /\ pass = 2 => Settled(options, doc)
  /\ (pass = 2 /\ state \in {"active", "ignored"}) => SoFar
  /\ SecondPassAgrees

(* The lines of the open region hold no directive. *)
LEMMA OpenRegion ==
  ASSUME IInv, JInv, state \in {"active", "ignored"}
  PROVE  /\ Text(from, at - 1) \in Seq(Plain) /\ Text(1, at - 1) = Text(1, from - 1) \o Text(from, at - 1)
         /\ \A k \in from .. at - 1 : doc[k] \notin OffLine \cup OnLine
         /\ pass = 2 /\ Settled(options, doc) => Sealed(options, doc) /\ SettledEnd(options, doc)
<1>1. /\ doc \in Seq(Line) /\ Len(doc) \in Nat /\ at \in 1 .. Len(doc) + 1 /\ from \in 1 .. at /\ Quiet
      /\ at \in Nat /\ from \in Nat
  BY DEF IInv, TypeOK
<1>2. Markers = {}
  BY DEF JInv, BalanceInv
<1>3. ASSUME NEW k \in from .. at - 1 PROVE doc[k] \in Plain
  <2>1. k \in 1 .. Len(doc) /\ doc[k] \in Line
    BY <1>1
  <2>2. doc[k] \notin OffLine \cup OnLine
    BY <1>1 DEF Quiet
  <2>3. doc[k] \notin IgnoreLine
    BY <1>1, <1>2, <2>1 DEF Markers
  <2>4. QED BY <2>1, <2>2, <2>3 DEF Plain
<1>4. Text(from, at - 1) \in Seq(Plain)
  BY <1>1, <1>3 DEF Text
<1>5. Text(1, at - 1) = Text(1, from - 1) \o Text(from, at - 1)
  <2>1. from \in 1 .. Len(doc) + 1 /\ at - 1 \in from - 1 .. Len(doc)
    BY <1>1
  <2>2. QED BY <1>1, <2>1, TextsJoin
<1>6. ~ Led(doc)
  BY <1>1, <1>2 DEF Led, Markers
<1>7. QED BY <1>1, <1>4, <1>5, <1>6 DEF Quiet, Settled

(* What append_formatted writes for a region is a function of its text.    *)
LEMMA RegionIsPrinted ==
  ASSUME NEW i, NEW j
  PROVE  RegionText(i, j) = Printed(options, Text(i, j))
BY DEF RegionText, Preserved, Formats, Printed

(* Start: a file-wide ignore returns the document, which is settled; a     *)
(* misplaced one is not met in a second pass.                              *)
LEMMA StartSettles == IInv /\ JInv /\ SettledInv /\ Start => SettledInv'
<1> SUFFICES ASSUME IInv, JInv, SettledInv, Start PROVE SettledInv'
  OBVIOUS
<1>1. /\ doc \in Seq(Line) /\ DOMAIN doc = 1 .. Len(doc) /\ Len(doc) \in Nat
      /\ output = <<>> /\ from = 1 /\ state = "start" /\ UNCHANGED <<doc, options, pass, at, from>>
  BY DEF IInv, TypeOK, Start
<1>2. pass = 2 => Settled(options, doc)
  BY DEF SettledInv
<1>3. \A i \in Markers : Leads(i) => Led(doc)
  BY <1>1 DEF Markers, Leads, Led
<1>4. CASE (\E i \in Markers : Leads(i)) /\ output' = doc /\ state' = "done" /\ result' = "ok"
  <2>1. Settled(options, doc)
    BY <1>3, <1>4 DEF Settled
  <2>2. QED BY <1>1, <1>4, <2>1 DEF SettledInv, SecondPassAgrees
<1>5. CASE Markers # {} /\ (\A i \in Markers : ~ Leads(i)) /\ state' = "done" /\ result' = "misplaced"
  <2>1. ~ Led(doc)
    <3>1. ASSUME NEW i \in 1 .. Len(doc), doc[i] \in IgnoreLine, \A j \in 1 .. i - 1 : doc[j] \in BlankLine
          PROVE  i \in Markers /\ Leads(i)
      <4>1. doc[i] \notin BlankLine
        BY <3>1, LineAssumption
      <4>2. \A j \in 1 .. i : j # i => j \in 1 .. i - 1
        OBVIOUS
      <4>3. QED BY <1>1, <3>1, <4>1, <4>2 DEF Markers, Leads
    <3>2. QED BY <1>5, <3>1 DEF Led
  <2>2. ~ Sealed(options, doc)
    BY <1>1, <1>5 DEF Sealed, Markers
  <2>3. pass # 2
    BY <1>2, <2>1, <2>2 DEF Settled
  <2>4. QED BY <1>1, <1>5, <2>3 DEF SettledInv, SecondPassAgrees
<1>6. CASE state' = "active" /\ UNCHANGED <<output, result, pieces>>
  <2>1. Sealed(options, <<>>) /\ OnBehind(<<>>)
    BY DEF Sealed, Alternates, OnBehind
  <2>2. Text(1, 0) = <<>>
    BY <1>1 DEF Text
  <2>3. output' = Text(1, from' - 1)
    BY <1>1, <1>6, <2>2
  <2>4. SoFar'
    BY <1>1, <1>6, <2>3 DEF SoFar, Text
  <2>5. Behind' /\ Sealed(options', output')
    BY <1>1, <1>6, <2>1 DEF Behind
  <2>6. SecondPassAgrees'
    BY <1>6 DEF SecondPassAgrees
  <2>7. QED BY <1>1, <1>2, <1>6, <2>4, <2>5, <2>6 DEF SettledInv
<1>7. QED BY <1>4, <1>5, <1>6 DEF Start, Stop

(* Off prints the open region and seals it with the directive.             *)
LEMMA OffSettles == FormatterSettles /\ IInv /\ JInv /\ SettledInv /\ Off => SettledInv'
<1> SUFFICES ASSUME FormatterSettles, IInv, JInv, SettledInv, Off PROVE SettledInv'
  OBVIOUS
<1>1. /\ doc \in Seq(Line) /\ Len(doc) \in Nat /\ at \in 1 .. Len(doc) /\ from \in 1 .. at /\ at \in Nat /\ from \in Nat
      /\ doc[at] \in OffLine /\ doc[at] \notin OnLine /\ output \in Seq(Line) /\ options \in Options
      /\ state \in {"active", "ignored"} /\ UNCHANGED <<doc, options, pass>>
  BY LineAssumption DEF IInv, TypeOK, Off, Here
<1>2. PICK r, b : r = Text(from, at - 1) /\ b = Text(1, from - 1)
  OBVIOUS
<1>3. /\ r \in Seq(Plain) /\ Text(1, at - 1) = b \o r
      /\ \A k \in from .. at - 1 : doc[k] \notin OffLine \cup OnLine
      /\ pass = 2 => Sealed(options, doc) /\ SoFar
  BY <1>1, <1>2, OpenRegion DEF SettledInv
<1>4. CASE state = "ignored"
  <2>1. state' = "done" /\ result' = "nested"
    BY <1>4 DEF Off, Stop
  <2>2. ASSUME pass = 2 PROVE FALSE
    <3>1. from # 1 /\ doc[from - 1] \in OffLine /\ doc[from - 1] \notin OnLine
      BY <1>3, <1>4, <2>2, LineAssumption DEF SoFar
    <3>2. ClosedBefore(doc, at)
      BY <1>1, <1>3, <2>2 DEF Sealed, Alternates
    <3>3. from - 1 \in 1 .. at - 1 /\ \A k \in from - 1 .. at - 1 : k = from - 1 \/ k \in from .. at - 1
      BY <1>1, <3>1
    <3>4. QED BY <1>3, <3>1, <3>2, <3>3 DEF ClosedBefore
  <2>3. QED BY <1>1, <2>1, <2>2 DEF SettledInv, SecondPassAgrees
<1>5. CASE state = "active"
  <2>1. PICK t, l, p : t = output /\ l = doc[at] /\ p = Printed(options, r)
    OBVIOUS
  <2>2. /\ state' = "ignored" /\ from' = at + 1 /\ UNCHANGED result
        /\ output' = t \o p \o Text(at, at)
    BY <1>2, <1>5, <2>1, RegionIsPrinted DEF Off, NextLine, DirectiveText
  <2>3. Text(at, at) = <<l>>
    BY <1>1, <2>1, OneLine
  <2>4. p \in Seq(Plain) /\ Printed(options, p) = p
    BY <1>1, <1>3, <2>1 DEF FormatterSettles
  <2>5. t \in Seq(Line) /\ Sealed(options, t) /\ OnBehind(t)
    BY <1>1, <1>5, <2>1 DEF SettledInv, Behind
  <2>6. t \o p \in Seq(Line) /\ Sealed(options, t \o p) /\ SettledEnd(options, t \o p)
    BY <2>4, <2>5, PlainBehind
  <2>7. Sealed(options, (t \o p) \o <<l>>) /\ OffBehind((t \o p) \o <<l>>)
    <3>1. l \in OffLine \cup OnLine /\ l \notin OnLine /\ l \in OffLine
      BY <1>1, <2>1
    <3>2. QED BY <2>6, <3>1, DirectiveBehind
  <2>8. Sealed(options', output') /\ Behind'
    BY <1>1, <2>2, <2>3, <2>7 DEF Behind
  <2>9. ASSUME pass = 2 PROVE SoFar'
    <3>1. p = r
      <4>1. Active(doc, from, at - 1)
        BY <1>3, <1>5, <2>9 DEF SoFar, Active
      <4>2. from \in 1 .. Len(doc) /\ at - 1 \in 0 .. Len(doc) - 1 /\ from <= (at - 1) + 1 /\ (at - 1) + 1 = at
        BY <1>1
      <4>3. Kept(options, doc, from, at - 1)
        BY <1>1, <1>3, <2>9, <4>2 DEF Sealed
      <4>4. QED BY <1>2, <2>1, <4>1, <4>3 DEF Kept, Text
    <3>2. t \o p = Text(1, at - 1)
      BY <1>2, <1>3, <2>1, <2>9, <3>1 DEF SoFar
    <3>3. Text(1, at) = Text(1, at - 1) \o Text(at, at)
      <4>1. at \in 1 .. Len(doc) + 1 /\ at \in at - 1 .. Len(doc)
        BY <1>1
      <4>2. QED BY <1>1, <4>1, TextsJoin
    <3>4. output' = Text(1, at) /\ from' - 1 = at /\ from' # 1
      BY <1>1, <2>2, <3>2, <3>3
    <3>5. output' = Text(1, from - 1)'
      BY <1>1, <3>4 DEF Text
    <3>6. QED BY <1>1, <2>2, <3>4, <3>5 DEF SoFar
  <2>10. SecondPassAgrees'
    BY <2>2 DEF SecondPassAgrees
  <2>11. QED BY <1>1, <2>2, <2>8, <2>9, <2>10 DEF SettledInv
<1>6. QED BY <1>1, <1>4, <1>5

(* On copies the ignored region and its directive.                         *)
LEMMA OnSettles == IInv /\ JInv /\ SettledInv /\ On => SettledInv'
<1> SUFFICES ASSUME IInv, JInv, SettledInv, On PROVE SettledInv'
  OBVIOUS
<1>1. /\ doc \in Seq(Line) /\ Len(doc) \in Nat /\ at \in 1 .. Len(doc) /\ from \in 1 .. at /\ at \in Nat /\ from \in Nat
      /\ doc[at] \in OnLine /\ doc[at] \notin OffLine /\ output \in Seq(Line) /\ options \in Options
      /\ state \in {"active", "ignored"} /\ UNCHANGED <<doc, options, pass>>
  BY LineAssumption DEF IInv, TypeOK, On, Here
<1>2. PICK r, b : r = Text(from, at - 1) /\ b = Text(1, from - 1)
  OBVIOUS
<1>3. /\ r \in Seq(Plain) /\ Text(1, at - 1) = b \o r
      /\ \A k \in from .. at - 1 : doc[k] \notin OffLine \cup OnLine
      /\ pass = 2 => Sealed(options, doc) /\ SoFar
  BY <1>1, <1>2, OpenRegion DEF SettledInv
<1>4. CASE state = "active"
  <2>1. state' = "done" /\ result' = "unmatched_on"
    BY <1>4 DEF On, Stop
  <2>2. ASSUME pass = 2 PROVE FALSE
    <3>1. from = 1 \/ doc[from - 1] \in OnLine
      BY <1>3, <1>4, <2>2 DEF SoFar
    <3>2. PICK j \in 1 .. at - 1 : doc[j] \in OffLine /\ \A k \in j .. at - 1 : doc[k] \notin OnLine
      BY <1>1, <1>3, <2>2 DEF Sealed, Alternates, OpenBefore
    <3>3. j \notin from .. at - 1
      BY <1>3, <3>2
    <3>4. from # 1 /\ from - 1 \in j .. at - 1
      BY <1>1, <3>2, <3>3
    <3>5. QED BY <3>1, <3>2, <3>4
  <2>3. QED BY <1>1, <2>1, <2>2 DEF SettledInv, SecondPassAgrees
<1>5. CASE state = "ignored"
  <2>1. PICK t, l : t = output /\ l = doc[at]
    OBVIOUS
  <2>2. /\ state' = "active" /\ from' = at + 1 /\ UNCHANGED result
        /\ output' = t \o r \o Text(at, at)
    BY <1>2, <1>5, <2>1 DEF On, NextLine, ResumeAt, DirectiveText, IgnoredText
  <2>3. Text(at, at) = <<l>>
    BY <1>1, <2>1, OneLine
  <2>4. t \in Seq(Line) /\ Sealed(options, t) /\ OffBehind(t)
    BY <1>1, <1>5, <2>1 DEF SettledInv, Behind
  <2>5. t \o r \in Seq(Line) /\ Sealed(options, t \o r) /\ OpenBefore(t \o r, Len(t \o r) + 1)
    BY <1>3, <2>4, PlainBehind
  <2>6. Sealed(options, (t \o r) \o <<l>>) /\ OnBehind((t \o r) \o <<l>>)
    <3>1. l \in OffLine \cup OnLine /\ l \in OnLine /\ l \notin OffLine
      BY <1>1, <2>1
    <3>2. QED BY <2>5, <3>1, DirectiveBehind
  <2>7. Sealed(options', output') /\ Behind'
    BY <1>1, <2>2, <2>3, <2>6 DEF Behind
  <2>8. ASSUME pass = 2 PROVE SoFar'
    <3>1. t \o r = Text(1, at - 1)
      BY <1>2, <1>3, <2>1, <2>8 DEF SoFar
    <3>2. Text(1, at) = Text(1, at - 1) \o Text(at, at)
      <4>1. at \in 1 .. Len(doc) + 1 /\ at \in at - 1 .. Len(doc)
        BY <1>1
      <4>2. QED BY <1>1, <4>1, TextsJoin
    <3>3. output' = Text(1, at) /\ from' - 1 = at /\ from' # 1
      BY <1>1, <2>2, <3>1, <3>2
    <3>4. output' = Text(1, from - 1)'
      BY <1>1, <3>3 DEF Text
    <3>5. QED BY <1>1, <2>2, <3>3, <3>4 DEF SoFar
  <2>9. SecondPassAgrees'
    BY <2>2 DEF SecondPassAgrees
  <2>10. QED BY <1>1, <2>2, <2>7, <2>8, <2>9 DEF SettledInv
<1>6. QED BY <1>1, <1>4, <1>5

(* End writes the last region: the output is settled, or the walk fails,   *)
(* which a second pass over a settled document does not.                   *)
LEMMA EndSettles == FormatterSettles /\ IInv /\ JInv /\ SettledInv /\ End => SettledInv'
<1> SUFFICES ASSUME FormatterSettles, IInv, JInv, SettledInv, End PROVE SettledInv'
  OBVIOUS
<1>1. /\ doc \in Seq(Line) /\ Len(doc) \in Nat /\ at = Len(doc) + 1 /\ at - 1 = Len(doc) /\ from \in 1 .. at
      /\ at \in Nat /\ from \in Nat
      /\ output \in Seq(Line) /\ options \in Options
      /\ state \in {"active", "ignored"} /\ UNCHANGED <<doc, options, pass>> /\ state' = "done"
  BY DEF IInv, TypeOK, End, Stop
<1>2. PICK r, b : r = Text(from, Len(doc)) /\ b = Text(1, from - 1)
  OBVIOUS
<1>3. /\ r \in Seq(Plain) /\ Text(1, Len(doc)) = b \o r
      /\ \A k \in from .. Len(doc) : doc[k] \notin OffLine \cup OnLine
      /\ pass = 2 => SettledEnd(options, doc) /\ SoFar
  BY <1>1, <1>2, OpenRegion DEF SettledInv
<1>4. CASE state = "ignored"
  <2>1. result' = "unmatched_off"
    BY <1>4 DEF End, Stop
  <2>2. ASSUME pass = 2 PROVE FALSE
    <3>1. from # 1 /\ doc[from - 1] \in OffLine /\ doc[from - 1] \notin OnLine
      BY <1>3, <1>4, <2>2, LineAssumption DEF SoFar
    <3>2. \A j \in 1 .. Len(doc) : doc[j] \in OffLine => \E k \in j .. Len(doc) : doc[k] \in OnLine
      <4>1. ClosedBefore(doc, at)
        BY <1>1, <1>3, <2>2 DEF SettledEnd
      <4>2. QED BY <1>1, <4>1 DEF ClosedBefore
    <3>3. from - 1 \in 1 .. Len(doc) /\ \A k \in from - 1 .. Len(doc) : k = from - 1 \/ k \in from .. Len(doc)
      BY <1>1, <3>1
    <3>4. QED BY <1>3, <3>1, <3>2, <3>3
  <2>3. QED BY <1>1, <2>1, <2>2 DEF SettledInv, SecondPassAgrees
<1>5. CASE state = "active"
  <2>1. PICK t, p : t = output /\ p = Printed(options, r)
    OBVIOUS
  <2>2. result' = "ok" /\ output' = t \o p
    BY <1>2, <1>5, <2>1, RegionIsPrinted DEF End, Stop
  <2>3. p \in Seq(Plain) /\ Printed(options, p) = p
    BY <1>1, <1>3, <2>1 DEF FormatterSettles
  <2>4. t \in Seq(Line) /\ Sealed(options, t) /\ OnBehind(t)
    BY <1>1, <1>5, <2>1 DEF SettledInv, Behind
  <2>5. Settled(options', output')
    <3>1. Sealed(options, t \o p) /\ SettledEnd(options, t \o p)
      BY <2>3, <2>4, PlainBehind
    <3>2. QED BY <1>1, <2>2, <3>1 DEF Settled
  <2>6. ASSUME pass = 2 PROVE output' = doc
    <3>1. p = r
      <4>1. Active(doc, from, Len(doc))
        BY <1>3, <1>5, <2>6 DEF SoFar, Active
      <4>2. Kept(options, doc, from, Len(doc))
        BY <1>1, <1>3, <2>6 DEF SettledEnd
      <4>3. QED BY <1>2, <2>1, <4>1, <4>2 DEF Kept, Text
    <3>2. Text(1, Len(doc)) = doc
      <4>1. 1 \in 1 .. Len(doc) + 1 /\ Len(doc) \in 1 - 1 .. Len(doc)
        BY <1>1
      <4>2. QED BY <1>1, <4>1, TextsJoin
    <3>3. QED BY <1>2, <1>3, <2>1, <2>2, <2>6, <3>1, <3>2 DEF SoFar
  <2>7. SecondPassAgrees'
    BY <1>1, <2>2, <2>6 DEF SecondPassAgrees
  <2>8. QED BY <1>1, <2>2, <2>5, <2>7 DEF SettledInv
<1>6. QED BY <1>1, <1>4, <1>5

(* Every step of both passes keeps the invariant.                          *)
LEMMA NextSettles == FormatterSettles /\ IInv /\ JInv /\ SettledInv /\ [Next]_vars => SettledInv'
<1> SUFFICES ASSUME FormatterSettles, IInv, JInv, SettledInv, [Next]_vars PROVE SettledInv'
  OBVIOUS
<1>1. CASE UNCHANGED vars
  BY <1>1 DEF vars, SettledInv, SecondPassAgrees, SoFar, Behind, Text
<1>2. CASE OtherLine
  BY <1>2 DEF OtherLine, SettledInv, SecondPassAgrees, SoFar, Behind, Text
<1>3. CASE SecondPass
  BY <1>3 DEF SecondPass, SettledInv, SecondPassAgrees
<1>4. QED BY <1>1, <1>2, <1>3, StartSettles, OffSettles, OnSettles, EndSettles DEF Next

(* A formatter of regions that leaves its own output alone and writes no   *)
(* directive makes the whole walk settle: the second pass that             *)
(* format_source_with_rust makes finds the directives where the first pass *)
(* left them, accepts every output of the first and returns it unchanged.  *)
THEOREM SettledWalk == FormatterSettles => (Spec => []SettledInv)
<1> SUFFICES ASSUME FormatterSettles PROVE Spec => []SettledInv
  OBVIOUS
<1>1. Init => SettledInv
  BY DEF Init, SettledInv, SecondPassAgrees
<1>2. IInv /\ JInv /\ SettledInv /\ [Next]_vars => SettledInv'
  BY NextSettles
<1>3. QED BY <1>1, <1>2, WalkInvariant, JudgementInvariant, PTL DEF Spec

(* formatter-design.md: formatting is idempotent.  Whatever the document   *)
(* and its directives, the second pass over its output changes nothing,    *)
(* if the formatter of regions settles.                                    *)
THEOREM OutputIsSettled == FormatterSettles => (Spec => []SecondPassAgrees)
<1>1. SettledInv => SecondPassAgrees
  BY DEF SettledInv
<1>2. QED BY <1>1, SettledWalk, PTL

-----------------------------------------------------------------------------
(***************************************************************************)
(* The recursion over COPY payloads.                                       *)
(***************************************************************************)
Header(r)      == Least(Headers(r))
PayloadEnd(r)  == Least(EndsAfter(r, Header(r)))
BeforeCopy(r)  == SubSeq(r, 1, Header(r) - 1)
BehindCopy(r)  == SubSeq(r, PayloadEnd(r) + 1, Len(r))
HeaderLine(r)  == <<r[Header(r)]>>

(* What once is for r, when it is f for shorter regions. *)
OnceBody(policy, f, r) ==
  IF Headers(r) = {} THEN Regular(policy, r)
  ELSE LET prefix == f[BeforeCopy(r)]
           head   == Regular(policy, HeaderLine(r))
           suffix == f[BehindCopy(r)]
       IN  [ok    |-> prefix.ok /\ head.ok /\ suffix.ok,
            out   |-> prefix.out \o head.out
                        \o SubSeq(r, Header(r) + 1, PayloadEnd(r)) \o suffix.out,
            diags |-> prefix.diags
                        \cup {Shifted(d, Header(r) - 1) : d \in head.diags}
                        \cup {Shifted(d, SuffixOffset(Header(r), PayloadEnd(r))) : d \in suffix.diags}]

(* The header and the end line are lines of the region, in this order. *)
LEMMA HeaderInRegion ==
  ASSUME NEW S, NEW r \in Seq(S), Headers(r) # {}
  PROVE  /\ Header(r) \in 1 .. Len(r) /\ PayloadEnd(r) \in Header(r) + 1 .. Len(r)
         /\ HasPayload(r, Header(r)) /\ r[PayloadEnd(r)] = "end"
<1>1. Headers(r) \in SUBSET Nat /\ \A i \in Headers(r) : i \in 1 .. Len(r) /\ HasPayload(r, i)
  BY DEF Headers
<1>2. Header(r) \in Headers(r)
  BY <1>1, LeastChosen DEF Header, Least
<1>3. PICK h : h = Header(r)
  OBVIOUS
<1>4. h \in 1 .. Len(r) /\ HasPayload(r, h)
  BY <1>1, <1>2, <1>3
<1>5. EndsAfter(r, h) \in SUBSET Nat /\ EndsAfter(r, h) # {}
  BY <1>4 DEF HasPayload, EndsAfter
<1>6. PayloadEnd(r) \in EndsAfter(r, h)
  BY <1>3, <1>5, LeastChosen DEF PayloadEnd, Least
<1>7. PICK e : e = PayloadEnd(r)
  OBVIOUS
<1>8. e \in 1 .. Len(r) /\ e > h /\ r[e] = "end"
  BY <1>6, <1>7 DEF EndsAfter
<1>9. e \in h + 1 .. Len(r)
  BY <1>4, <1>8
<1>10. QED BY <1>3, <1>4, <1>7, <1>8, <1>9

(* What lies before the header and behind the payload is shorter. *)
LEMMA AroundCopy ==
  ASSUME NEW S, NEW r \in Seq(S), Headers(r) # {}
  PROVE  /\ BeforeCopy(r) \in Seq(S) /\ Len(BeforeCopy(r)) = Header(r) - 1
         /\ \A i \in 1 .. Header(r) - 1 : BeforeCopy(r)[i] = r[i]
         /\ BehindCopy(r) \in Seq(S) /\ Len(BehindCopy(r)) = Len(r) - PayloadEnd(r)
         /\ \A i \in 1 .. Len(r) - PayloadEnd(r) : BehindCopy(r)[i] = r[PayloadEnd(r) + i]
<1>1. PICK h, e : h = Header(r) /\ e = PayloadEnd(r)
  OBVIOUS
<1>2. h \in 1 .. Len(r) /\ e \in h + 1 .. Len(r) /\ Len(r) \in Nat
  BY <1>1, HeaderInRegion
<1>3. /\ SubSeq(r, 1, h - 1) \in Seq(S) /\ Len(SubSeq(r, 1, h - 1)) = h - 1
      /\ \A i \in 1 .. h - 1 : SubSeq(r, 1, h - 1)[i] = r[i]
  BY <1>2
<1>4. /\ SubSeq(r, e + 1, Len(r)) \in Seq(S) /\ Len(SubSeq(r, e + 1, Len(r))) = Len(r) - e
      /\ \A i \in 1 .. Len(r) - e : SubSeq(r, e + 1, Len(r))[i] = r[e + i]
  BY <1>2
<1>5. QED BY <1>1, <1>3, <1>4 DEF BeforeCopy, BehindCopy

(* So the recursion over COPY payloads, format_document_content_at calling *)
(* itself, always goes to shorter texts.                                   *)
LEMMA ShorterAround ==
  ASSUME NEW S, NEW r \in Seq(S), Headers(r) # {}
  PROVE  Len(BeforeCopy(r)) < Len(r) /\ Len(BehindCopy(r)) < Len(r)
<1>1. PICK h, e : h = Header(r) /\ e = PayloadEnd(r)
  OBVIOUS
<1>2. h \in 1 .. Len(r) /\ e \in h + 1 .. Len(r) /\ Len(r) \in Nat
  BY <1>1, HeaderInRegion
<1>3. Len(BeforeCopy(r)) = h - 1 /\ Len(BehindCopy(r)) = Len(r) - e
  BY <1>1, AroundCopy
<1>4. QED BY <1>2, <1>3

(* The body looks at f only for shorter regions. *)
LEMMA BodyAgrees ==
  ASSUME NEW policy, NEW f, NEW g, NEW r \in Seq(Kind),
         \A s \in Seq(Kind) : Len(s) < Len(r) => f[s] = g[s]
  PROVE  OnceBody(policy, f, r) = OnceBody(policy, g, r)
<1>1. CASE Headers(r) = {}
  BY <1>1 DEF OnceBody
<1>2. CASE Headers(r) # {}
  <2>1. f[BeforeCopy(r)] = g[BeforeCopy(r)] /\ f[BehindCopy(r)] = g[BehindCopy(r)]
    BY <1>2, AroundCopy, ShorterAround
  <2>2. QED BY <1>2, <2>1 DEF OnceBody
<1>3. QED BY <1>1, <1>2

(* Texts of up to n lines, and the functions that solve the recursion for  *)
(* them.                                                                   *)
Short(n) == {r \in Seq(Kind) : Len(r) <= n}
SolvesShort(policy, f, n) ==
  /\ f = [r \in Short(n) |-> f[r]]
  /\ \A r \in Short(n) : f[r] = OnceBody(policy, f, r)

(* Two solutions agree where both are defined: otherwise they differ for a *)
(* shortest text, and there the body tells them not apart.                 *)
LEMMA SolutionsAgree ==
  ASSUME NEW policy, NEW f, NEW g, NEW m \in Nat, NEW n \in Nat,
         SolvesShort(policy, f, m), SolvesShort(policy, g, n)
  PROVE  \A r \in Seq(Kind) : Len(r) <= m /\ Len(r) <= n => f[r] = g[r]
<1> DEFINE Differ == {r \in Seq(Kind) : Len(r) <= m /\ Len(r) <= n /\ f[r] # g[r]}
           L      == {Len(r) : r \in Differ}
<1> SUFFICES ASSUME Differ # {} PROVE FALSE
  OBVIOUS
<1>1. L \in SUBSET Nat /\ L # {}
  <2>1. \A r \in Differ : Len(r) \in Nat
    OBVIOUS
  <2> HIDE DEF Differ
  <2>2. QED BY <2>1
<1>2. PICK k \in L : \A j \in L : k <= j
  <2> HIDE DEF L
  <2>1. QED BY <1>1, LeastNatural
<1>3. PICK r \in Differ : Len(r) = k
  OBVIOUS
<1>4. ASSUME NEW s \in Seq(Kind), Len(s) < Len(r) PROVE f[s] = g[s]
  <2>1. Len(s) \in Nat /\ Len(r) \in Nat /\ Len(r) <= m /\ Len(r) <= n
    BY <1>3
  <2>2. Len(s) \notin L
    <3>1. ~ (k <= Len(s))
      <4> HIDE DEF L, Differ
      <4>1. QED BY <1>3, <1>4, <2>1
    <3>2. QED BY <1>2, <3>1
  <2>3. s \notin Differ
    BY <2>2
  <2>4. Len(s) <= m /\ Len(s) <= n
    BY <1>4, <2>1
  <2>5. QED BY <2>3, <2>4
<1>5. OnceBody(policy, f, r) = OnceBody(policy, g, r)
  <2> HIDE DEF L
  <2>1. r \in Seq(Kind)
    BY <1>3
  <2>2. QED BY <1>4, <2>1, BodyAgrees
<1>6. f[r] = OnceBody(policy, f, r) /\ g[r] = OnceBody(policy, g, r)
  BY <1>3 DEF SolvesShort, Short
<1>7. QED BY <1>3, <1>5, <1>6

(* There is a solution for the texts of up to n lines. *)
LEMMA ShortSolution ==
  ASSUME NEW policy, NEW n \in Nat
  PROVE  \E f : SolvesShort(policy, f, n)
<1> DEFINE T == {m \in 0 .. n : \E f : SolvesShort(policy, f, m)}
<1>1. ASSUME NEW m \in Nat, NEW f, \A s \in Seq(Kind) : Len(s) < m => f[s] = OnceBody(policy, f, s)
      PROVE  SolvesShort(policy, [r \in Short(m) |-> OnceBody(policy, f, r)], m)
  <2> DEFINE g == [r \in Short(m) |-> OnceBody(policy, f, r)]
  <2>1. ASSUME NEW r \in Short(m) PROVE g[r] = OnceBody(policy, g, r)
    <3>1. r \in Seq(Kind) /\ Len(r) \in Nat /\ Len(r) <= m
      BY DEF Short
    <3>2. ASSUME NEW s \in Seq(Kind), Len(s) < Len(r) PROVE f[s] = g[s]
      <4>1. Len(s) < m /\ s \in Short(m)
        BY <3>1, <3>2 DEF Short
      <4>2. QED BY <1>1, <4>1
    <3>3. OnceBody(policy, f, r) = OnceBody(policy, g, r)
      <4> HIDE DEF g
      <4>1. QED BY <3>1, <3>2, BodyAgrees
    <3>4. g[r] = OnceBody(policy, f, r)
      OBVIOUS
    <3>5. QED BY <3>3, <3>4
  <2>2. g = [r \in Short(m) |-> g[r]]
    OBVIOUS
  <2> HIDE DEF g
  <2>3. SolvesShort(policy, g, m)
    BY <2>1, <2>2 DEF SolvesShort
  <2>4. QED BY <2>3 DEF g
<1>2. 0 \in T
  <2>1. \A s \in Seq(Kind) : ~ (Len(s) < 0)
    OBVIOUS
  <2>2. SolvesShort(policy, [r \in Short(0) |-> OnceBody(policy, <<>>, r)], 0)
    BY <1>1, <2>1
  <2>3. QED BY <2>2
<1>3. ASSUME NEW m \in 0 .. n - 1, m \in T PROVE m + 1 \in T
  <2>1. PICK f : SolvesShort(policy, f, m)
    BY <1>3
  <2>2. ASSUME NEW s \in Seq(Kind), Len(s) < m + 1 PROVE f[s] = OnceBody(policy, f, s)
    <3>1. s \in Short(m)
      BY <2>2 DEF Short
    <3>2. QED BY <2>1, <3>1 DEF SolvesShort
  <2>3. m + 1 \in Nat /\ m + 1 \in 0 .. n
    OBVIOUS
  <2>4. SolvesShort(policy, [r \in Short(m + 1) |-> OnceBody(policy, f, r)], m + 1)
    BY <1>1, <2>2, <2>3
  <2>5. QED BY <2>3, <2>4
<1> HIDE DEF T
<1>4. n \in T
  <2>1. 0 .. n \subseteq T
    BY <1>2, <1>3, Ascent
  <2>2. QED BY <2>1
<1>5. QED BY <1>4 DEF T

(* The recursive function of SqlRegion is the one its equation describes.  *)
LEMMA OnceDefined ==
  ASSUME NEW policy
  PROVE  \A r \in Seq(Kind) : DocumentOnce(policy, r) = OnceBody(policy, Once(policy), r)
<1> DEFINE S(n)  == CHOOSE f : SolvesShort(policy, f, n)
           whole == [r \in Seq(Kind) |-> S(Len(r))[r]]
           R(f)  == f = [r \in Seq(Kind) |-> OnceBody(policy, f, r)]
<1>1. ASSUME NEW n \in Nat PROVE SolvesShort(policy, S(n), n)
  BY ShortSolution
<1>2. ASSUME NEW r \in Seq(Kind) PROVE whole[r] = OnceBody(policy, whole, r)
  <2>1. Len(r) \in Nat /\ r \in Short(Len(r))
    BY DEF Short
  <2>2. ASSUME NEW s \in Seq(Kind), Len(s) < Len(r) PROVE S(Len(r))[s] = whole[s]
    <3>1. Len(s) \in Nat /\ Len(s) <= Len(r) /\ Len(s) <= Len(s)
      BY <2>1, <2>2
    <3>2. S(Len(r))[s] = S(Len(s))[s]
      <4> HIDE DEF S
      <4>1. QED BY <1>1, <2>1, <3>1, SolutionsAgree
    <3>3. QED BY <3>2
  <2>3. OnceBody(policy, S(Len(r)), r) = OnceBody(policy, whole, r)
    <3> HIDE DEF S, whole
    <3>1. QED BY <2>2, BodyAgrees
  <2>4. S(Len(r))[r] = OnceBody(policy, S(Len(r)), r)
    <3> HIDE DEF S
    <3>1. QED BY <1>1, <2>1 DEF SolvesShort
  <2>5. whole[r] = S(Len(r))[r]
    BY DEF whole
  <2>6. QED BY <2>3, <2>4, <2>5
<1>3. R(whole)
  <2>1. whole = [r \in Seq(Kind) |-> whole[r]]
    OBVIOUS
  <2> HIDE DEF whole
  <2>2. QED BY <1>2, <2>1
<1>4. Once(policy) = CHOOSE f : R(f)
  BY DEF Once, OnceBody, Header, PayloadEnd, BeforeCopy, BehindCopy, HeaderLine
<1> HIDE DEF R
<1>5. R(Once(policy))
  BY <1>3, <1>4
<1>6. PICK once : once = Once(policy)
  OBVIOUS
<1>7. once = [r \in Seq(Kind) |-> OnceBody(policy, once, r)]
  BY <1>5, <1>6 DEF R
<1>8. \A r \in Seq(Kind) : once[r] = OnceBody(policy, once, r)
  BY <1>7
<1>9. QED BY <1>6, <1>8 DEF DocumentOnce

-----------------------------------------------------------------------------
(***************************************************************************)
(* What the region formatter makes of a region: lines of SQL, and findings *)
(* about the lines they point at.                                          *)
(***************************************************************************)
(* What a finding about a text promises: it points at lines its rule is    *)
(* about, and it is fixable unless it is what strict mode withholds for.   *)
Located(d, r) == 1 <= d.first /\ d.last <= Len(r) /\ \A i \in d.first .. d.last : CausedBy(d, r[i])
Withholds(d)  == d.rule \in {"unsupported", "skipped"}
Sane(F, r)    == \A d \in F : d \in Diagnostic /\ Located(d, r) /\ (d.fix \/ Withholds(d))

(* The lines of part are those of r behind line n. *)
PartBehind(part, r, n) ==
  /\ Len(part) \in Nat /\ Len(r) \in Nat /\ n \in Nat /\ n + Len(part) <= Len(r)
  /\ \A i \in 1 .. Len(part) : part[i] = r[n + i]

(* A finding about a part of a text, moved to where the part is. *)
LEMMA ShiftedLocated ==
  ASSUME NEW part, NEW r, NEW n, PartBehind(part, r, n), NEW d \in Diagnostic, Located(d, part)
  PROVE  /\ Shifted(d, n) \in Diagnostic /\ Located(Shifted(d, n), r)
         /\ Shifted(d, n).fix = d.fix /\ Shifted(d, n).rule = d.rule /\ Shifted(d, n).severity = d.severity
<1> DEFINE s == Shifted(d, n)
<1> USE DEF PartBehind
<1>1. /\ s \in Diagnostic /\ s.rule = d.rule /\ s.fix = d.fix /\ s.severity = d.severity
      /\ s.first = d.first + n /\ s.last = d.last + n
      /\ d.first \in Nat /\ d.last \in Nat
  BY DEF Shifted, Finding, Diagnostic
<1> HIDE DEF s
<1>2. 1 <= d.first /\ d.last <= Len(part)
  BY DEF Located
<1>3. 1 <= s.first /\ s.last <= Len(r)
  BY <1>1, <1>2
<1>4. ASSUME NEW i \in s.first .. s.last PROVE CausedBy(s, r[i])
  <2>1. PICK k : k = i - n
    OBVIOUS
  <2>2. k \in d.first .. d.last /\ k \in 1 .. Len(part) /\ n + k = i
    BY <1>1, <1>2, <2>1
  <2>3. part[k] = r[i]
    BY <2>2
  <2>4. CausedBy(d, part[k])
    BY <2>2 DEF Located
  <2>5. QED BY <1>1, <2>3, <2>4 DEF CausedBy
<1>5. QED BY <1>1, <1>3, <1>4 DEF s, Located

(* The same of all findings about a part, as the recursion moves them.     *)
LEMMA ShiftedSane ==
  ASSUME NEW part, NEW r, NEW n, PartBehind(part, r, n), NEW F, Sane(F, part)
  PROVE  Sane({Shifted(d, n) : d \in F}, r)
<1>1. \A d \in F : d \in Diagnostic /\ Located(d, part) /\ (d.fix \/ Withholds(d))
  BY DEF Sane
<1>2. ASSUME NEW d \in Diagnostic, Located(d, part)
      PROVE  /\ Shifted(d, n) \in Diagnostic /\ Located(Shifted(d, n), r)
             /\ Shifted(d, n).fix = d.fix /\ Shifted(d, n).rule = d.rule
  BY <1>2, ShiftedLocated
<1>3. QED BY <1>1, <1>2 DEF Sane, Withholds

(* A region is a function on its line numbers.                             *)
LEMMA KindText ==
  ASSUME NEW r \in Seq(Kind)
  PROVE  Len(r) \in Nat /\ DOMAIN r = 1 .. Len(r) /\ \A i \in 1 .. Len(r) : r[i] \in Kind
OBVIOUS

(* What layout makes of a region is lines of SQL. *)
LEMMA ContentTyped ==
  ASSUME NEW policy, NEW r \in Seq(Kind)
  PROVE  Content(policy, r).out \in Seq(Kind)
<1> DEFINE laid == [i \in DOMAIN r |-> Layout(r[i])]
<1>1. ASSUME NEW l \in Kind PROVE Layout(l) \in Seq(Kind)
  <2>1. {"HEAD", "TAIL", "COPY", "blank", l} \subseteq Kind
    BY DEF Kind, Gap, Statement
  <2>2. Layout(l) \in {<<"HEAD", "TAIL">>, <<"COPY">>, <<"blank">>, <<l>>}
    BY DEF Layout
  <2>3. <<"HEAD", "TAIL">> \in Seq(Kind) /\ <<"COPY">> \in Seq(Kind) /\ <<"blank">> \in Seq(Kind) /\ <<l>> \in Seq(Kind)
    BY <2>1
  <2>4. QED BY <2>2, <2>3
<1>2. laid \in Seq(Seq(Kind))
  <2>1. laid \in [1 .. Len(r) -> Seq(Kind)]
    BY <1>1, KindText
  <2> HIDE DEF laid
  <2>2. QED BY <2>1
<1>3. FlattenSeq(laid) \in Seq(Kind)
  <2> HIDE DEF laid
  <2>1. QED BY <1>2, FlattenTyped
<1>4. Content(policy, r).out = FlattenSeq(laid) \/ Content(policy, r).out = <<>>
  BY DEF Content, Empty
<1>5. <<>> \in Seq(Kind)
  OBVIOUS
<1> HIDE DEF laid
<1>6. QED BY <1>3, <1>4, <1>5

(* Respelling type aliases leaves lines of SQL.                            *)
LEMMA NormalizedTyped ==
  ASSUME NEW r \in Seq(Kind), NEW opaque
  PROVE  Normalized(r, opaque) \in Seq(Kind)
<1>1. ASSUME NEW i \in 1 .. Len(r)
      PROVE  (IF i \in Aliases(r, opaque) THEN Respelled[r[i]] ELSE r[i]) \in Kind
  BY KindText DEF Aliases, Respelled, Kind, Statement
<1>2. Normalized(r, opaque) \in [1 .. Len(r) -> Kind]
  BY <1>1, KindText DEF Normalized
<1>3. QED BY <1>2

(* The fields of a finding that a rule makes about lines i to j.           *)
LEMMA FindingFields ==
  ASSUME NEW rule \in Rule, NEW severity \in {"warning", "error"}, NEW fix \in BOOLEAN, NEW i \in Nat, NEW j \in Nat
  PROVE  /\ Finding(rule, severity, fix, i, j) \in Diagnostic
         /\ Finding(rule, severity, fix, i, j).rule = rule /\ Finding(rule, severity, fix, i, j).fix = fix
         /\ Finding(rule, severity, fix, i, j).first = i /\ Finding(rule, severity, fix, i, j).last = j
BY DEF Finding, Diagnostic

(* A region without COPY payloads: its findings are sane and its text is   *)
(* lines of SQL.                                                           *)
LEMMA RegularSane ==
  ASSUME NEW policy \in Policy, NEW r \in Seq(Kind)
  PROVE  Sane(Regular(policy, r).diags, r) /\ Regular(policy, r).out \in Seq(Kind)
<1>1. PICK n : n = Len(r)
  OBVIOUS
<1>2. DOMAIN r = 1 .. n /\ n \in Nat
  BY <1>1, KindText
<1>3. PICK content : content = Content(policy, r)
  OBVIOUS
<1>4. \/ /\ \A i \in 1 .. n : r[i] \in Gap
         /\ content.diags = {} /\ content.opaqueSource = {}
      \/ /\ ~ \A i \in 1 .. n : r[i] \in Gap
         /\ content.opaqueSource = {i \in 1 .. n : r[i] \in Opaque}
         /\ content.diags = {Finding(IF r[i] = "skip" THEN "skipped" ELSE "unsupported", Severity(policy), FALSE, i, i) :
                               i \in {i \in 1 .. n : r[i] \in Opaque}}
  BY <1>2, <1>3 DEF Content, Empty
<1>5. "error" \in {"warning", "error"} /\ TRUE \in BOOLEAN /\ "style" \in Rule /\ "alias" \in Rule
  BY DEF Rule
<1>6. ASSUME NEW rule \in Rule, NEW severity \in {"warning", "error"}, NEW fix \in BOOLEAN, NEW i \in 1 .. n,
             CausedBy(Finding(rule, severity, fix, i, i), r[i]), fix \/ rule \in {"unsupported", "skipped"}
      PROVE  Sane({Finding(rule, severity, fix, i, i)}, r)
  <2>1. PICK d : d = Finding(rule, severity, fix, i, i)
    OBVIOUS
  <2>2. d \in Diagnostic /\ d.rule = rule /\ d.fix = fix /\ d.first = i /\ d.last = i
    BY <1>2, <2>1, FindingFields
  <2>3. Located(d, r)
    BY <1>1, <1>2, <1>6, <2>1, <2>2 DEF Located
  <2>4. QED BY <1>6, <2>1, <2>2, <2>3 DEF Sane, Withholds
<1>7. Sane(content.diags, r)
  <2>1. ASSUME NEW i \in 1 .. n, r[i] \in Opaque
        PROVE  Sane({Finding(IF r[i] = "skip" THEN "skipped" ELSE "unsupported", Severity(policy), FALSE, i, i)}, r)
    <3>1. PICK rule : rule = IF r[i] = "skip" THEN "skipped" ELSE "unsupported"
      OBVIOUS
    <3>2. rule \in Rule /\ rule \in {"unsupported", "skipped"} /\ Severity(policy) \in {"warning", "error"}
      BY <3>1 DEF Rule, Severity
    <3>3. CausedBy(Finding(rule, Severity(policy), FALSE, i, i), r[i])
      BY <2>1, <3>1 DEF Opaque, CausedBy, Finding
    <3>4. QED BY <1>6, <3>1, <3>2, <3>3
  <2>2. \A i \in 1 .. n : r[i] \in Opaque =>
          LET d == Finding(IF r[i] = "skip" THEN "skipped" ELSE "unsupported", Severity(policy), FALSE, i, i)
          IN  d \in Diagnostic /\ Located(d, r) /\ (d.fix \/ Withholds(d))
    BY <2>1 DEF Sane
  <2>3. CASE content.diags = {}
    BY <2>3 DEF Sane
  <2>4. CASE content.diags # {}
    <3>1. \A d \in content.diags : \E i \in 1 .. n : r[i] \in Opaque
            /\ d = Finding(IF r[i] = "skip" THEN "skipped" ELSE "unsupported", Severity(policy), FALSE, i, i)
      BY <1>4, <2>4
    <3>2. QED BY <2>2, <3>1 DEF Sane
  <2>5. QED BY <2>3, <2>4
<1>8. Sane(StyleReported(r, content.opaqueSource), r)
  <2>1. ASSUME \A i \in 1 .. n : r[i] \in Gap, NEW d \in StyleFindings(r)
        PROVE  d \in Diagnostic /\ Located(d, r) /\ d.fix
    <3>1. n \in Nat \ {0} /\ d = Finding("style", "error", TRUE, 1, n)
      BY <1>1, <1>2, <2>1 DEF StyleFindings
    <3>2. d.rule = "style" /\ d.fix /\ d.first = 1 /\ d.last = n
      BY <3>1 DEF Finding
    <3>3. \A i \in 1 .. n : CausedBy(d, r[i])
      <4>1. Gap \subseteq {"pad", "blank"}
        BY DEF Gap
      <4>2. QED BY <2>1, <3>2, <4>1 DEF CausedBy
    <3>4. d \in Diagnostic
      BY <3>1 DEF Finding, Diagnostic, Rule
    <3>5. d.first .. d.last = 1 .. n /\ 1 <= d.first /\ d.last <= Len(r)
      <4>1. n \in Nat /\ 1 <= n /\ n <= n
        BY <3>1
      <4>2. QED BY <1>1, <3>2, <4>1
    <3>6. QED BY <3>2, <3>3, <3>4, <3>5 DEF Located
  <2>2. ASSUME ~ \A i \in 1 .. n : r[i] \in Gap, NEW d \in StyleReported(r, content.opaqueSource)
        PROVE  Sane({d}, r)
    <3>1. PICK i \in 1 .. n : /\ r[i] \in {"raw", "pad", "copy"} \/ (i = Len(r) /\ r[i] = "odd")
                             /\ d = Finding("style", "error", TRUE, i, i)
      BY <1>2, <2>2 DEF StyleReported, StyleFindings
    <3>2. d.first = i /\ d.last = i
      BY <3>1 DEF Finding
    <3>3. i \notin content.opaqueSource
      <4>1. ~ (i .. i \subseteq content.opaqueSource)
        BY <3>2 DEF StyleReported
      <4>2. i .. i = {i}
        BY <1>2
      <4>3. QED BY <4>1, <4>2
    <3>4. r[i] \in {"raw", "pad", "copy"}
      BY <1>4, <2>2, <3>1, <3>3 DEF Opaque
    <3>5. CausedBy(Finding("style", "error", TRUE, i, i), r[i])
      BY <3>4 DEF CausedBy, Finding
    <3>6. QED BY <1>6, <3>1, <3>5 DEF Rule
  <2>3. StyleReported(r, content.opaqueSource) \subseteq StyleFindings(r)
    BY DEF StyleReported
  <2>4. QED BY <2>1, <2>2, <2>3 DEF Sane
<1>9. Sane({Finding("alias", "error", TRUE, i, i) : i \in Aliases(r, content.opaqueSource)}, r)
  <2>1. ASSUME NEW i \in Aliases(r, content.opaqueSource)
        PROVE  Sane({Finding("alias", "error", TRUE, i, i)}, r)
    <3>1. i \in 1 .. n /\ i \notin content.opaqueSource /\ r[i] \in {"alias", "wide", "odd"}
      BY <1>2 DEF Aliases, Respelled
    <3>2. r[i] \in {"alias", "wide"}
      BY <1>4, <3>1 DEF Opaque, Gap
    <3>3. CausedBy(Finding("alias", "error", TRUE, i, i), r[i])
      BY <3>2 DEF CausedBy, Finding
    <3>4. QED BY <1>6, <3>1, <3>3 DEF Rule
  <2>2. QED BY <2>1 DEF Sane
<1>10. Sane(RegularOnce(policy, r).diags, r)
  <2>1. RegularOnce(policy, r).diags =
          content.diags \cup StyleReported(r, content.opaqueSource)
            \cup {Finding("alias", "error", TRUE, i, i) : i \in Aliases(r, content.opaqueSource)}
    BY <1>3 DEF RegularOnce
  <2>2. QED BY <1>7, <1>8, <1>9, <2>1 DEF Sane
<1>11. RegularOnce(policy, r).out \in Seq(Kind)
  <2>1. PICK aliased : aliased = Normalized(content.out, content.opaqueOutput)
    OBVIOUS
  <2>2. aliased \in Seq(Kind)
    BY <1>3, <2>1, ContentTyped, NormalizedTyped
  <2>3. RegularOnce(policy, r).out \in {content.out, Content(policy, aliased).out}
    BY <1>3, <2>1 DEF RegularOnce
  <2>4. QED BY <1>3, <2>2, <2>3, ContentTyped
<1>12. Regular(policy, r) = IF Parses(r)
                            THEN [ok |-> TRUE, out |-> RegularOnce(policy, r).out, diags |-> RegularOnce(policy, r).diags]
                            ELSE [ok |-> FALSE, out |-> <<>>, diags |-> {}]
  BY DEF Regular
<1>13. QED BY <1>10, <1>11, <1>12 DEF Sane

(* So of every region, whatever COPY payloads it holds: otherwise a         *)
(* shortest region of which it is false would hold a payload, and it is     *)
(* true of what lies before and behind.                                     *)
LEMMA OnceSane ==
  ASSUME NEW policy \in Policy, NEW r \in Seq(Kind)
  PROVE  Sane(DocumentOnce(policy, r).diags, r) /\ DocumentOnce(policy, r).out \in Seq(Kind)
<1> DEFINE Holds(s) == Sane(DocumentOnce(policy, s).diags, s) /\ DocumentOnce(policy, s).out \in Seq(Kind)
           Fails    == {s \in Seq(Kind) : ~ Holds(s)}
           L        == {Len(s) : s \in Fails}
<1>1. ASSUME NEW s \in Seq(Kind), \A t \in Seq(Kind) : Len(t) < Len(s) => Holds(t) PROVE Holds(s)
  <2>1. DocumentOnce(policy, s) = OnceBody(policy, Once(policy), s)
    BY OnceDefined
  <2>2. CASE Headers(s) = {}
    <3>1. DocumentOnce(policy, s) = Regular(policy, s)
      BY <2>1, <2>2 DEF OnceBody
    <3>2. QED BY <3>1, RegularSane
  <2>3. CASE Headers(s) # {}
    <3>1. PICK h, e : h = Header(s) /\ e = PayloadEnd(s)
      OBVIOUS
    <3>2. h \in 1 .. Len(s) /\ e \in h + 1 .. Len(s) /\ Len(s) \in Nat
      BY <2>3, <3>1, HeaderInRegion
    <3>3. PICK before, behind, line : before = BeforeCopy(s) /\ behind = BehindCopy(s) /\ line = HeaderLine(s)
      OBVIOUS
    <3>4. /\ before \in Seq(Kind) /\ Len(before) = h - 1 /\ \A i \in 1 .. h - 1 : before[i] = s[i]
          /\ behind \in Seq(Kind) /\ Len(behind) = Len(s) - e /\ \A i \in 1 .. Len(s) - e : behind[i] = s[e + i]
      BY <2>3, <3>1, <3>3, AroundCopy
    <3>5. line \in Seq(Kind) /\ Len(line) = 1 /\ line[1] = s[h]
      BY <3>1, <3>2, <3>3 DEF HeaderLine
    <3>6. Len(before) < Len(s) /\ Len(behind) < Len(s)
      BY <2>3, <3>3, ShorterAround
    <3>7. PICK prefix, head, suffix : /\ prefix = DocumentOnce(policy, before)
                                      /\ head = Regular(policy, line)
                                      /\ suffix = DocumentOnce(policy, behind)
      OBVIOUS
    <3>8. /\ Sane(prefix.diags, before) /\ prefix.out \in Seq(Kind)
          /\ Sane(suffix.diags, behind) /\ suffix.out \in Seq(Kind)
      BY <1>1, <3>4, <3>6, <3>7
    <3>9. Sane(head.diags, line) /\ head.out \in Seq(Kind)
      BY <3>5, <3>7, RegularSane
    <3>10. DocumentOnce(policy, s) =
             [ok    |-> prefix.ok /\ head.ok /\ suffix.ok,
              out   |-> prefix.out \o head.out \o SubSeq(s, h + 1, e) \o suffix.out,
              diags |-> prefix.diags \cup {Shifted(d, h - 1) : d \in head.diags}
                          \cup {Shifted(d, e) : d \in suffix.diags}]
      BY <2>1, <2>3, <3>1, <3>3, <3>7 DEF OnceBody, DocumentOnce, SuffixOffset
    <3>11. Sane(prefix.diags, s)
      <4>1. \A i \in 1 .. Len(before) : before[i] = s[i]
        BY <3>4
      <4>2. ASSUME NEW d \in prefix.diags PROVE Located(d, s)
        <5>1. d \in Diagnostic /\ Located(d, before)
          BY <3>8 DEF Sane
        <5>2. d.first \in Nat /\ d.last \in Nat
          BY <5>1 DEF Diagnostic
        <5>3. 1 <= d.first /\ d.last <= Len(before) /\ d.last <= Len(s)
          BY <3>2, <3>4, <5>1, <5>2 DEF Located
        <5>4. \A i \in d.first .. d.last : i \in 1 .. Len(before)
          BY <3>4, <5>2, <5>3
        <5>5. QED BY <4>1, <5>1, <5>3, <5>4 DEF Located
      <4>3. QED BY <3>8, <4>2 DEF Sane
    <3>12. Sane({Shifted(d, h - 1) : d \in head.diags}, s)
      <4>1. PartBehind(line, s, h - 1)
        BY <3>2, <3>5 DEF PartBehind
      <4>2. QED BY <3>9, <4>1, ShiftedSane
    <3>13. Sane({Shifted(d, e) : d \in suffix.diags}, s)
      <4>1. PartBehind(behind, s, e)
        BY <3>2, <3>4 DEF PartBehind
      <4>2. QED BY <3>8, <4>1, ShiftedSane
    <3>14. SubSeq(s, h + 1, e) \in Seq(Kind)
      BY <3>2
    <3>15. prefix.out \o head.out \o SubSeq(s, h + 1, e) \o suffix.out \in Seq(Kind)
      BY <3>8, <3>9, <3>14
    <3>16. QED BY <3>10, <3>11, <3>12, <3>13, <3>15 DEF Sane
  <2>4. QED BY <2>2, <2>3
<1> HIDE DEF Holds
<1> SUFFICES ASSUME Fails # {} PROVE FALSE
  BY DEF Holds
<1>2. L \in SUBSET Nat /\ L # {}
  <2>1. \A s \in Fails : Len(s) \in Nat
    OBVIOUS
  <2> HIDE DEF Fails
  <2>2. QED BY <2>1
<1> HIDE DEF L
<1>3. PICK k \in L : \A j \in L : k <= j
  BY <1>2, LeastNatural
<1>4. PICK s \in Fails : Len(s) = k
  BY <1>3 DEF L
<1>5. ASSUME NEW t \in Seq(Kind), Len(t) < Len(s) PROVE Holds(t)
  <2>1. Len(t) \notin L
    <3>1. Len(t) \in Nat /\ Len(s) \in Nat
      BY <1>4
    <3>2. ~ (k <= Len(t))
      <4> HIDE DEF Fails
      <4>1. QED BY <1>4, <1>5, <3>1
    <3>3. QED BY <1>3, <3>2
  <2>2. QED BY <1>5, <2>1 DEF L
<1>6. Holds(s)
  <2>1. s \in Seq(Kind)
    BY <1>4
  <2>2. QED BY <1>1, <1>5, <2>1
<1>7. QED BY <1>4, <1>6

-----------------------------------------------------------------------------
(***************************************************************************)
(* format_sql on a region.                                                 *)
(***************************************************************************)
(* A region comes back with its text settled and its findings sane; and in *)
(* strict mode a finding that cannot be fixed means it came back as it was. *)
Judged(policy, r, f) ==
  /\ f.out \in Seq(Kind) /\ Sane(f.diags, r)
  /\ (policy = "error" /\ \E d \in f.diags : d.severity = "error" /\ ~ d.fix) => f.out = r
  /\ FormatSql(policy, f.out) # Err /\ FormatSql(policy, f.out).out = f.out

(* The result of a pass over a region has these three fields.              *)
LEMMA OnceRecord ==
  ASSUME NEW policy, NEW r \in Seq(Kind)
  PROVE  \E ok, out, diagnostics : DocumentOnce(policy, r) = [ok |-> ok, out |-> out, diags |-> diagnostics]
<1>1. DocumentOnce(policy, r) = OnceBody(policy, Once(policy), r)
  BY OnceDefined
<1>2. \E ok, out, diagnostics : Regular(policy, r) = [ok |-> ok, out |-> out, diags |-> diagnostics]
  BY DEF Regular
<1>3. QED BY <1>1, <1>2 DEF OnceBody

(* format_sql keeps that promise, in every outcome that is not its error:   *)
(* withheld by the strict policy, or accepted by its own second pass.      *)
LEMMA FormatSqlJudged ==
  ASSUME NEW policy \in Policy, NEW r \in Seq(Kind), FormatSql(policy, r) # Err
  PROVE  Judged(policy, r, FormatSql(policy, r))
<1>1. PICK first, second, f : /\ first = DocumentOnce(policy, r) /\ second = DocumentOnce(policy, first.out)
                              /\ f = FormatSql(policy, r)
  OBVIOUS
<1>2. first.out \in Seq(Kind) /\ Sane(first.diags, r)
  BY <1>1, OnceSane
<1>3. /\ [first EXCEPT !.out = r].out = r /\ [first EXCEPT !.out = r].diags = first.diags
      /\ [second EXCEPT !.out = first.out].out = first.out
  BY <1>1, <1>2, OnceRecord
<1>4. \A x : Ok(x) # Err /\ Ok(x).out = x.out /\ Ok(x).diags = x.diags
  <2>1. \A x : "out" \in DOMAIN Ok(x) /\ "out" \notin DOMAIN Err
    BY DEF Ok, Err
  <2>2. QED BY <2>1 DEF Ok
<1>5. f = CASE first.ok /\ Withheld(policy, first.diags) -> Ok([first EXCEPT !.out = r])
            [] first.ok /\ ~ Withheld(policy, first.diags) /\ second.ok /\ second.out = first.out -> Ok(first)
            [] OTHER -> Err
  BY <1>1 DEF FormatSql
<1>6. CASE first.ok /\ Withheld(policy, first.diags)
  <2>1. f.out = r /\ f.diags = first.diags
    BY <1>3, <1>4, <1>5, <1>6
  <2>2. QED BY <1>1, <1>2, <2>1 DEF Judged
<1>7. CASE first.ok /\ ~ Withheld(policy, first.diags) /\ second.ok /\ second.out = first.out
  <2>1. f = Ok(first)
    BY <1>5, <1>7
  <2>2. f.out = first.out /\ f.diags = first.diags
    BY <1>4, <2>1
  <2>3. policy = "error" => \A d \in f.diags : d.severity = "error" => d.fix
    BY <1>2, <1>7, <2>2 DEF Sane, Withholds, Withheld
  <2>4. PICK g : g = FormatSql(policy, first.out)
    OBVIOUS
  <2>5. DocumentOnce(policy, second.out) = second
    BY <1>1, <1>7
  <2>6. g = CASE second.ok /\ Withheld(policy, second.diags) -> Ok([second EXCEPT !.out = first.out])
              [] second.ok /\ ~ Withheld(policy, second.diags) /\ second.ok /\ second.out = second.out -> Ok(second)
              [] OTHER -> Err
    BY <1>1, <2>4, <2>5 DEF FormatSql
  <2>7. g = Ok([second EXCEPT !.out = first.out]) \/ g = Ok(second)
    BY <1>7, <2>6
  <2>8. g # Err /\ g.out = first.out
    <3>1. PICK w : w = [second EXCEPT !.out = first.out]
      OBVIOUS
    <3>2. w.out = first.out
      BY <1>3, <3>1
    <3>3. g = Ok(w) \/ g = Ok(second)
      BY <2>7, <3>1
    <3>4. QED BY <1>4, <1>7, <3>2, <3>3
  <2>9. QED BY <1>1, <1>2, <2>2, <2>3, <2>4, <2>8 DEF Judged
<1>8. ~ (first.ok /\ Withheld(policy, first.diags))
      /\ ~ (first.ok /\ ~ Withheld(policy, first.diags) /\ second.ok /\ second.out = first.out) => f = Err
  BY <1>5
<1>9. QED BY <1>1, <1>6, <1>7, <1>8

-----------------------------------------------------------------------------
(***************************************************************************)
(* The walk with this formatter.                                           *)
(***************************************************************************)
(* format_sql is the formatter the walk is given. *)
Composed ==
  /\ OffLine = {"off"} /\ OnLine = {"on"} /\ IgnoreLine = {"ignore"} /\ BlankLine = Gap /\ Line = SqlLine
  /\ Options = Policy
  /\ \A policy \in Policy : \A r \in Seq(Kind) : FormatRegion(policy, r) = FormatSql(policy, r)

(* With these lines, the lines that are no directive are those of a region. *)
LEMMA PlainIsKind ==
  ASSUME Composed
  PROVE  Plain = Kind /\ Directives = OffLine \cup OnLine \cup IgnoreLine
<1>1. Kind \cap Directives = {}
  BY DEF Kind, Gap, Statement, Directives
<1>2. Directives = OffLine \cup OnLine \cup IgnoreLine
  BY DEF Composed, Directives
<1>3. QED BY <1>1, <1>2 DEF Plain, Composed, SqlLine

(* What format_sql returns is an Ok with findings, or the Err that         *)
(* append_formatted preserves the region for.                              *)
LEMMA FormatSqlReturns ==
  ASSUME Composed, NEW policy \in Options, NEW r \in Seq(Kind)
  PROVE  FormatRegion(policy, r) = FormatSql(policy, r)
         /\ (FormatRegion(policy, r) \in FormattedSql <=> FormatSql(policy, r) # Err)
<1>1. FormatRegion(policy, r) = FormatSql(policy, r) /\ policy \in Policy
  BY DEF Composed
<1>2. Err \notin FormattedSql
  <2>1. "out" \notin DOMAIN Err /\ \A f \in FormattedSql : "out" \in DOMAIN f
    BY DEF Err, FormattedSql
  <2>2. QED BY <2>1
<1>3. ASSUME FormatSql(policy, r) # Err PROVE FormatSql(policy, r) \in FormattedSql
  <2>1. PICK f : f = FormatSql(policy, r)
    OBVIOUS
  <2>2. f.out \in Seq(Kind) /\ Sane(f.diags, r)
    BY <1>1, <1>3, <2>1, FormatSqlJudged DEF Judged
  <2>3. \E x : f = Ok(x)
    BY <1>3, <2>1 DEF FormatSql
  <2>4. f.diags \subseteq Diagnostic
    BY <2>2 DEF Sane
  <2>5. f.out \in Seq(Line)
    <3>1. Kind \subseteq Line
      BY DEF Composed, SqlLine
    <3>2. QED BY <2>2, <3>1
  <2>6. f = [out |-> f.out, diags |-> f.diags]
    BY <2>3 DEF Ok
  <2>7. QED BY <2>1, <2>4, <2>5, <2>6 DEF FormattedSql
<1>4. QED BY <1>1, <1>2, <1>3

(* format_sql settles: the pass over its own output that it makes before   *)
(* it answers is the reason.                                               *)
LEMMA FormatSqlSettles == Composed => FormatterSettles
<1> SUFFICES ASSUME Composed, NEW policy \in Options, NEW r \in Seq(Kind)
             PROVE  Printed(policy, r) \in Seq(Kind) /\ Printed(policy, Printed(policy, r)) = Printed(policy, r)
  BY PlainIsKind DEF FormatterSettles
<1>1. PICK f, p : f = FormatSql(policy, r) /\ p = Printed(policy, r)
  OBVIOUS
<1>2. policy \in Policy
  BY DEF Composed
<1>3. CASE AllBlank(r) \/ f = Err
  BY <1>1, <1>3, FormatSqlReturns DEF Printed
<1>4. CASE ~ AllBlank(r) /\ f # Err
  <2>1. Judged(policy, r, f)
    BY <1>1, <1>2, <1>4, FormatSqlJudged
  <2>2. p = f.out /\ p \in Seq(Kind)
    BY <1>1, <1>4, <2>1, FormatSqlReturns DEF Printed, Judged
  <2>3. FormatRegion(policy, p) = FormatSql(policy, p) /\ FormatSql(policy, p).out = p
    BY <2>1, <2>2, FormatSqlReturns DEF Judged
  <2>4. Printed(policy, p) = p
    BY <2>3 DEF Printed
  <2>5. QED BY <1>1, <2>2, <2>4
<1>5. QED BY <1>3, <1>4

(* formatter-design.md: formatting is idempotent.  The second pass over    *)
(* what the first made of any document accepts it and changes nothing.     *)
THEOREM FormattingIsIdempotent == Composed => (Spec => []SecondPassAgrees)
BY FormatSqlSettles, OutputIsSettled

(* A finding of the open region, put in place, points at lines its rule is *)
(* about.                                                                  *)
LEMMA RegionOnCause ==
  ASSUME Composed, IInv, JInv, state \in {"active", "ignored"}, NEW d \in RegionDiags(from, at - 1)
  PROVE  d \in Diagnostic /\ Located(d, doc)
<1>1. /\ doc \in Seq(Line) /\ Len(doc) \in Nat /\ at \in 1 .. Len(doc) + 1 /\ from \in 1 .. at
      /\ at \in Nat /\ from \in Nat /\ options \in Options /\ options \in Policy
  BY DEF IInv, TypeOK, Composed
<1>2. PICK r, n : r = Text(from, at - 1) /\ n = from - 1
  OBVIOUS
<1>3. r \in Seq(Kind)
  BY <1>2, OpenRegion, PlainIsKind
<1>4. Len(r) \in Nat /\ PartBehind(r, doc, n)
  <2>1. from \in 1 .. Len(doc) + 1 /\ at - 1 \in from - 1 .. Len(doc)
    BY <1>1
  <2>2. Len(r) = (at - 1) - from + 1 /\ \A l \in from .. at - 1 : r[l - from + 1] = doc[l]
    BY <1>1, <1>2, <2>1, TextLines
  <2>3. ASSUME NEW i \in 1 .. Len(r) PROVE r[i] = doc[n + i]
    <3>1. PICK l : l = n + i
      OBVIOUS
    <3>2. l \in from .. at - 1 /\ l - from + 1 = i
      BY <1>1, <1>2, <2>2, <3>1
    <3>3. QED BY <2>2, <3>1, <3>2
  <2>4. n \in Nat /\ Len(r) \in Nat /\ n + Len(r) <= Len(doc)
    BY <1>1, <1>2, <2>2
  <2>5. QED BY <1>1, <2>3, <2>4 DEF PartBehind
<1>5. PICK e : /\ d = Shifted(e, n)
               /\ \/ Formats(r) /\ e \in FormatRegion(options, r).diags
                  \/ e = FailedRegion(r)
  BY <1>2 DEF RegionDiags, Offset
<1>6. e \in Diagnostic /\ Located(e, r)
  <2>1. CASE Formats(r) /\ e \in FormatRegion(options, r).diags
    <3>1. FormatSql(options, r) # Err /\ FormatRegion(options, r) = FormatSql(options, r)
      BY <1>1, <1>3, <2>1, FormatSqlReturns DEF Formats
    <3>2. Judged(options, r, FormatSql(options, r))
      BY <1>1, <1>3, <3>1, FormatSqlJudged
    <3>3. QED BY <2>1, <3>1, <3>2 DEF Judged, Sane
  <2>2. CASE e = FailedRegion(r)
    <3>1. e \in Diagnostic /\ e.rule = "failure" /\ e.first = 1 /\ e.last = Len(r)
      BY <1>4, <2>2 DEF FailedRegion, Finding, Diagnostic, Rule
    <3>2. Kind \subseteq SqlLine \ Directives
      BY DEF SqlLine, Kind, Gap, Statement, Directives
    <3>3. \A i \in 1 .. Len(r) : CausedBy(e, r[i])
      BY <1>3, <3>1, <3>2, KindText DEF CausedBy
    <3>4. e.first .. e.last = 1 .. Len(r) /\ 1 <= e.first /\ e.last <= Len(r)
      BY <1>4, <3>1
    <3>5. QED BY <3>1, <3>3, <3>4 DEF Located
  <2>3. QED BY <1>5, <2>1, <2>2
<1>7. QED BY <1>4, <1>5, <1>6, ShiftedLocated

(* Every finding points at lines its rule is about. *)
CauseInv == diags \subseteq Diagnostic /\ DiagnosticsOnCause

(* No step of the walk reports a finding away from its cause.              *)
LEMMA NextOnCause == Composed /\ IInv /\ JInv /\ CauseInv /\ [Next]_vars => CauseInv'
<1> SUFFICES ASSUME Composed, IInv, JInv, CauseInv, [Next]_vars PROVE CauseInv'
  OBVIOUS
<1>1. CASE UNCHANGED <<doc, diags>>
  BY <1>1 DEF CauseInv, DiagnosticsOnCause
<1>2. CASE diags' = {}
  BY <1>2 DEF CauseInv, DiagnosticsOnCause
<1>3. CASE /\ state \in {"active", "ignored"} /\ UNCHANGED doc
           /\ diags' = diags \cup RegionDiags(from, at - 1)
  <2>1. \A d \in RegionDiags(from, at - 1) : d \in Diagnostic /\ Located(d, doc)
    BY <1>3, RegionOnCause
  <2>2. QED BY <1>3, <2>1 DEF CauseInv, DiagnosticsOnCause, Located
<1>4. CASE Start \/ On \/ OtherLine \/ UNCHANGED vars
  BY <1>1, <1>4 DEF Start, On, OtherLine, vars
<1>5. CASE Off
  BY <1>1, <1>3, <1>5 DEF Off
<1>6. CASE End
  <2>1. at - 1 = Len(doc)
    BY <1>6 DEF End, IInv, TypeOK
  <2>2. QED BY <1>1, <1>3, <1>6, <2>1 DEF End
<1>7. CASE SecondPass
  BY <1>2, <1>7 DEF SecondPass
<1>8. QED BY <1>4, <1>5, <1>6, <1>7 DEF Next

(* User guide: diagnostics refer to the original input.  Through regions,  *)
(* COPY payloads nested to any depth and the shifts of each, every finding *)
(* points at lines of the document that its rule is about.                 *)
THEOREM FindingsPointAtCauses == Composed => (Spec => []DiagnosticsOnCause)
<1> SUFFICES ASSUME Composed PROVE Spec => []DiagnosticsOnCause
  OBVIOUS
<1>1. Init => CauseInv
  BY DEF Init, CauseInv, DiagnosticsOnCause
<1>2. IInv /\ JInv /\ CauseInv /\ [Next]_vars => CauseInv'
  BY NextOnCause
<1>3. CauseInv => DiagnosticsOnCause
  BY DEF CauseInv
<1>4. QED BY <1>1, <1>2, <1>3, WalkInvariant, JudgementInvariant, PTL DEF Spec

-----------------------------------------------------------------------------
(* A document without directives is one region, formatted at the end.      *)
OneRegion == \A i \in DOMAIN doc : doc[i] \notin Directives

StrictInv ==
  /\ state = "start" => diags = {}
  /\ OneRegion => state # "ignored" /\ (state = "active" => from = 1 /\ output = <<>> /\ diags = {})
  /\ StrictAllOrNothing

(* Every step keeps it: without directives there is one region, which End  *)
(* gives to format_sql whole.                                              *)
LEMMA NextIsStrict == Composed /\ IInv /\ JInv /\ StrictInv /\ [Next]_vars => StrictInv'
<1> SUFFICES ASSUME Composed, IInv, JInv, StrictInv, [Next]_vars PROVE StrictInv'
  OBVIOUS
<1>1. /\ doc \in Seq(Line) /\ DOMAIN doc = 1 .. Len(doc) /\ Len(doc) \in Nat
      /\ at \in 1 .. Len(doc) + 1 /\ from \in 1 .. at /\ options \in Options /\ options \in Policy
  BY DEF IInv, TypeOK, Composed
<1>2. ASSUME OneRegion, NEW i \in DOMAIN doc PROVE doc[i] \notin OffLine \cup OnLine \cup IgnoreLine
  BY <1>2, PlainIsKind DEF OneRegion
<1>3. CASE UNCHANGED vars \/ OtherLine
  BY <1>3 DEF vars, OtherLine, StrictInv, StrictAllOrNothing, OneRegion, Accepted
<1>4. CASE SecondPass
  BY <1>4 DEF SecondPass, StrictInv, StrictAllOrNothing, Accepted
<1>5. CASE Start
  <2>1. OneRegion => Markers = {}
    BY <1>2 DEF Markers
  <2>2. state = "start" /\ output = <<>> /\ from = 1 /\ diags = {} /\ UNCHANGED <<doc, options, from, diags>>
    BY <1>5 DEF Start, IInv, StrictInv
  <2>3. OneRegion => state' = "active" /\ output' = <<>>
    BY <1>5, <2>1, <2>2 DEF Start
  <2>4. state' # "start" /\ OneRegion' = OneRegion
    BY <1>5, <2>2 DEF Start, Stop, OneRegion
  <2>5. StrictAllOrNothing'
    BY <2>2 DEF StrictAllOrNothing
  <2>6. QED BY <2>2, <2>3, <2>4, <2>5 DEF StrictInv
<1>6. CASE Off \/ On
  <2>1. ~ OneRegion /\ state' # "start" /\ UNCHANGED doc
    BY <1>2, <1>6 DEF Off, On, Here, Stop
  <2>2. QED BY <2>1 DEF StrictInv, StrictAllOrNothing, OneRegion
<1>7. CASE End
  <2>1. state' = "done" /\ UNCHANGED <<doc, options>> /\ at - 1 = Len(doc)
    BY <1>1, <1>7 DEF End, Stop
  <2>2. ASSUME OneRegion, options = "error", NEW d \in diags', d.severity = "error", ~ d.fix, result' = "ok"
        PROVE  output' = doc
    <3>1. state = "active" /\ from = 1 /\ output = <<>> /\ diags = {}
      BY <1>7, <2>2 DEF End, StrictInv
    <3>2. Text(1, Len(doc)) = doc
      <4>1. 1 \in 1 .. Len(doc) + 1 /\ Len(doc) \in 1 - 1 .. Len(doc)
        BY <1>1
      <4>2. QED BY <1>1, <4>1, TextsJoin
    <3>3. doc \in Seq(Kind)
      <4>1. Text(from, at - 1) \in Seq(Plain)
        BY <3>1, OpenRegion
      <4>2. QED BY <2>1, <3>1, <3>2, <4>1, PlainIsKind
    <3>4. output' = <<>> \o Printed(options, doc) /\ d \in RegionDiags(1, Len(doc))
      BY <1>7, <3>1, <3>2, RegionIsPrinted DEF End
    <3>5. CASE Preserved(doc)
      BY <1>1, <3>4, <3>5 DEF Printed, Preserved, Formats
    <3>6. CASE ~ Preserved(doc)
      <4>1. PICK f : f = FormatSql(options, doc)
        OBVIOUS
      <4>2. f # Err /\ FormatRegion(options, doc) = f
        BY <1>1, <3>3, <3>6, <4>1, FormatSqlReturns DEF Preserved, Formats
      <4>3. Judged(options, doc, f)
        BY <1>1, <3>3, <4>1, <4>2, FormatSqlJudged
      <4>4. PICK e \in f.diags : d = Shifted(e, 1 - 1)
        BY <3>2, <3>4, <3>6, <4>2 DEF RegionDiags, Preserved, Offset
      <4>5. e.severity = "error" /\ ~ e.fix
        BY <2>2, <4>4 DEF Shifted, Finding
      <4>6. f.out = doc
        BY <2>2, <4>3, <4>5 DEF Judged
      <4>7. QED BY <1>1, <3>4, <3>6, <4>2, <4>6 DEF Printed, Preserved, Formats
    <3>7. QED BY <3>5, <3>6
  <2>3. StrictAllOrNothing'
    BY <2>1, <2>2 DEF StrictAllOrNothing, OneRegion, Accepted
  <2>4. QED BY <2>1, <2>3 DEF StrictInv
<1>8. QED BY <1>3, <1>4, <1>5, <1>6, <1>7 DEF Next

(* formatter-design.md: strict mode "returns the complete original         *)
(* document unchanged".  Of a document that is one region, of any length   *)
(* and with any COPY payloads: if any finding is an error that cannot be   *)
(* fixed, the output is the document.                                      *)
THEOREM StrictKeepsDocument == Composed => (Spec => []StrictAllOrNothing)
<1> SUFFICES ASSUME Composed PROVE Spec => []StrictAllOrNothing
  OBVIOUS
<1>1. Init => StrictInv
  BY DEF Init, StrictInv, StrictAllOrNothing, Accepted
<1>2. IInv /\ JInv /\ StrictInv /\ [Next]_vars => StrictInv'
  BY NextIsStrict
<1>3. StrictInv => StrictAllOrNothing
  BY DEF StrictInv
<1>4. QED BY <1>1, <1>2, <1>3, WalkInvariant, JudgementInvariant, PTL DEF Spec

-----------------------------------------------------------------------------
(***************************************************************************)
(* A region without COPY payloads, line by line.                           *)
(***************************************************************************)
(* What layout, the respelling between two layouts, and both layouts make  *)
(* of a line.                                                              *)
LayoutOf  == [l \in Kind |-> Layout(l)]
RespellOf == [l \in Kind |-> IF l \in {"alias", "wide"} THEN <<Respelled[l]>> ELSE <<l>>]
MiddleOf  == [l \in Kind |-> IF l \in {"alias", "wide"} THEN <<Respelled[l]>> ELSE Layout(l)]
New(l) ==
  CASE l \in {"raw", "alias"} -> <<"HEAD", "TAIL">>
    [] l = "copy"             -> <<"COPY">>
    [] l = "pad"              -> <<"blank">>
    [] l = "wide"             -> <<"skip">>
    [] OTHER                  -> <<l>>
NewOf == [l \in Kind |-> New(l)]

(* The kinds of line that layout and respelling write.                     *)
LEMMA KindOf ==
  /\ {"HEAD", "TAIL", "COPY", "blank", "skip", "raw", "alias", "wide", "copy", "pad", "odd", "ODD"} \subseteq Kind
  /\ Respelled["alias"] = "raw" /\ Respelled["wide"] = "skip"
BY DEF Kind, Gap, Statement, Respelled

(* What layout and respelling make of each kind of line.                   *)
LEMMA LayoutCases ==
  ASSUME NEW l \in Kind
  PROVE  /\ l = "raw" => LayoutOf[l] = <<"HEAD", "TAIL">> /\ NewOf[l] = <<"HEAD", "TAIL">>
         /\ l = "copy" => LayoutOf[l] = <<"COPY">> /\ NewOf[l] = <<"COPY">>
         /\ l = "pad" => LayoutOf[l] = <<"blank">> /\ NewOf[l] = <<"blank">>
         /\ l \notin {"raw", "copy", "pad"} => LayoutOf[l] = <<l>>
         /\ l \notin {"raw", "copy", "pad", "alias", "wide"} => NewOf[l] = <<l>>
         /\ l = "alias" => NewOf[l] = <<"HEAD", "TAIL">> /\ RespellOf[l] = <<"raw">> /\ MiddleOf[l] = <<"raw">>
         /\ l = "wide" => NewOf[l] = <<"skip">> /\ RespellOf[l] = <<"skip">> /\ MiddleOf[l] = <<"skip">>
         /\ l \notin {"alias", "wide"} => RespellOf[l] = <<l>> /\ MiddleOf[l] = LayoutOf[l]
<1>1. LayoutOf[l] = Layout(l) /\ NewOf[l] = New(l)
  BY DEF LayoutOf, NewOf
<1>2. RespellOf[l] = (IF l \in {"alias", "wide"} THEN <<Respelled[l]>> ELSE <<l>>)
  BY DEF RespellOf
<1>3. MiddleOf[l] = (IF l \in {"alias", "wide"} THEN <<Respelled[l]>> ELSE Layout(l))
  BY DEF MiddleOf
<1>4. /\ l = "raw" => Layout(l) = <<"HEAD", "TAIL">> /\ New(l) = <<"HEAD", "TAIL">>
      /\ l = "copy" => Layout(l) = <<"COPY">> /\ New(l) = <<"COPY">>
      /\ l = "pad" => Layout(l) = <<"blank">> /\ New(l) = <<"blank">>
  BY DEF Layout, New
<1>5. /\ l \notin {"raw", "copy", "pad"} => Layout(l) = <<l>>
      /\ l \notin {"raw", "copy", "pad", "alias", "wide"} => New(l) = <<l>>
      /\ l = "alias" => New(l) = <<"HEAD", "TAIL">>
      /\ l = "wide" => New(l) = <<"skip">>
  BY DEF Layout, New
<1>6. QED BY <1>1, <1>2, <1>3, <1>4, <1>5, KindOf

(* They are replacements of lines by texts.                                *)
LEMMA KindRewrites ==
  Rewrites(LayoutOf, Kind) /\ Rewrites(RespellOf, Kind) /\ Rewrites(MiddleOf, Kind) /\ Rewrites(NewOf, Kind)
<1>1. \A x \in Kind : <<x>> \in Seq(Kind)
  OBVIOUS
<1>2. <<"HEAD", "TAIL">> \in Seq(Kind)
  BY KindOf
<1>3. <<"COPY">> \in Seq(Kind) /\ <<"blank">> \in Seq(Kind) /\ <<"skip">> \in Seq(Kind) /\ <<"raw">> \in Seq(Kind)
  BY <1>1, KindOf
<1>4. ASSUME NEW l \in Kind
      PROVE  LayoutOf[l] \in Seq(Kind) /\ RespellOf[l] \in Seq(Kind) /\ MiddleOf[l] \in Seq(Kind) /\ NewOf[l] \in Seq(Kind)
  BY <1>1, <1>2, <1>3, LayoutCases
<1>5. LayoutOf = [l \in Kind |-> LayoutOf[l]] /\ RespellOf = [l \in Kind |-> RespellOf[l]]
  BY DEF LayoutOf, RespellOf
<1>6. MiddleOf = [l \in Kind |-> MiddleOf[l]] /\ NewOf = [l \in Kind |-> NewOf[l]]
  BY DEF MiddleOf, NewOf
<1>7. QED BY <1>4, <1>5, <1>6 DEF Rewrites

(* Layout leaves what it laid out; respelling works on laid-out lines; and *)
(* a second layout of what was respelled gives the new text, which both    *)
(* layouts and respelling leave alone.                                     *)
LEMMA LayoutComposes ==
  /\ Composes(LayoutOf, LayoutOf, LayoutOf, Kind)
  /\ Composes(MiddleOf, RespellOf, LayoutOf, Kind)
  /\ Composes(NewOf, LayoutOf, MiddleOf, Kind)
  /\ Composes(NewOf, NewOf, NewOf, Kind)
<1>1. ASSUME NEW x \in Kind
      PROVE  /\ Spread(LayoutOf, <<x>>) = LayoutOf[x] /\ Spread(RespellOf, <<x>>) = RespellOf[x]
             /\ Spread(NewOf, <<x>>) = NewOf[x]
  BY KindRewrites, SpreadOne
<1>2. /\ Spread(LayoutOf, <<"HEAD", "TAIL">>) = LayoutOf["HEAD"] \o LayoutOf["TAIL"]
      /\ Spread(RespellOf, <<"HEAD", "TAIL">>) = RespellOf["HEAD"] \o RespellOf["TAIL"]
      /\ Spread(NewOf, <<"HEAD", "TAIL">>) = NewOf["HEAD"] \o NewOf["TAIL"]
  <2>1. "HEAD" \in Kind /\ "TAIL" \in Kind
    BY KindOf
  <2>2. QED BY <2>1, KindRewrites, SpreadPair
<1>3. <<"HEAD">> \o <<"TAIL">> = <<"HEAD", "TAIL">>
  BY KindOf, PairJoined
<1>4. /\ Spread(LayoutOf, <<"HEAD", "TAIL">>) = <<"HEAD", "TAIL">>
      /\ Spread(RespellOf, <<"HEAD", "TAIL">>) = <<"HEAD", "TAIL">>
      /\ Spread(NewOf, <<"HEAD", "TAIL">>) = <<"HEAD", "TAIL">>
  <2>1. /\ LayoutOf["HEAD"] = <<"HEAD">> /\ RespellOf["HEAD"] = <<"HEAD">> /\ NewOf["HEAD"] = <<"HEAD">>
        /\ LayoutOf["TAIL"] = <<"TAIL">> /\ RespellOf["TAIL"] = <<"TAIL">> /\ NewOf["TAIL"] = <<"TAIL">>
    BY KindOf, LayoutCases
  <2>2. QED BY <1>2, <1>3, <2>1
<1>5. /\ Spread(LayoutOf, <<"COPY">>) = <<"COPY">> /\ Spread(RespellOf, <<"COPY">>) = <<"COPY">> /\ Spread(NewOf, <<"COPY">>) = <<"COPY">>
      /\ Spread(LayoutOf, <<"blank">>) = <<"blank">> /\ Spread(RespellOf, <<"blank">>) = <<"blank">> /\ Spread(NewOf, <<"blank">>) = <<"blank">>
      /\ Spread(LayoutOf, <<"skip">>) = <<"skip">> /\ Spread(NewOf, <<"skip">>) = <<"skip">>
      /\ Spread(LayoutOf, <<"raw">>) = <<"HEAD", "TAIL">>
  <2>1. "COPY" \in Kind /\ "blank" \in Kind /\ "skip" \in Kind /\ "raw" \in Kind
    BY KindOf
  <2>2. LayoutOf["COPY"] = <<"COPY">> /\ RespellOf["COPY"] = <<"COPY">> /\ NewOf["COPY"] = <<"COPY">>
    BY <2>1, LayoutCases
  <2>3. LayoutOf["blank"] = <<"blank">> /\ RespellOf["blank"] = <<"blank">> /\ NewOf["blank"] = <<"blank">>
    BY <2>1, LayoutCases
  <2>4. LayoutOf["skip"] = <<"skip">> /\ NewOf["skip"] = <<"skip">> /\ LayoutOf["raw"] = <<"HEAD", "TAIL">>
    BY <2>1, LayoutCases
  <2>5. QED BY <1>1, <2>1, <2>2, <2>3, <2>4
<1>6. ASSUME NEW x \in Kind
      PROVE  /\ LayoutOf[x] = Spread(LayoutOf, LayoutOf[x])
             /\ MiddleOf[x] = Spread(RespellOf, LayoutOf[x])
             /\ NewOf[x] = Spread(LayoutOf, MiddleOf[x])
             /\ NewOf[x] = Spread(NewOf, NewOf[x])
  <2>1. CASE x = "raw"
    BY <1>4, <2>1, LayoutCases
  <2>2. CASE x = "copy"
    BY <1>5, <2>2, LayoutCases
  <2>3. CASE x = "pad"
    BY <1>5, <2>3, LayoutCases
  <2>4. CASE x = "alias"
    BY <1>1, <1>4, <1>5, <2>4, LayoutCases
  <2>5. CASE x = "wide"
    BY <1>1, <1>5, <2>5, LayoutCases
  <2>6. CASE x \notin {"raw", "copy", "pad", "alias", "wide"}
    BY <1>1, <2>6, LayoutCases
  <2>7. QED BY <2>1, <2>2, <2>3, <2>4, <2>5, <2>6
<1>7. QED BY <1>6 DEF Composes

(* Blank lines and comments only. *)
AllGap(r) == \A i \in DOMAIN r : r[i] \in Gap

(* The text and the opaque ranges of a laid-out region.                    *)
LEMMA ContentText ==
  ASSUME NEW policy, NEW r \in Seq(Kind), ~ AllGap(r)
  PROVE  /\ Content(policy, r).out = Spread(LayoutOf, r)
         /\ Content(policy, r).opaqueSource = {i \in DOMAIN r : r[i] \in Opaque}
         /\ Content(policy, r).opaqueOutput =
              {Len(FlattenSeq(SubSeq(Replacements(LayoutOf, r), 1, i - 1))) + 1 : i \in {j \in DOMAIN r : r[j] \in Opaque}}
         /\ Content(policy, r).diags =
              {Finding(IF r[i] = "skip" THEN "skipped" ELSE "unsupported", Severity(policy), FALSE, i, i) :
                 i \in {j \in DOMAIN r : r[j] \in Opaque}}
<1>1. [i \in DOMAIN r |-> Layout(r[i])] = Replacements(LayoutOf, r)
  <2>1. ASSUME NEW i \in 1 .. Len(r) PROVE Layout(r[i]) = LayoutOf[r[i]]
    BY KindText DEF LayoutOf
  <2>2. QED BY <2>1, KindText DEF Replacements
<1>2. ~ \A i \in DOMAIN r : r[i] \in Gap
  BY DEF AllGap
<1>3. QED BY <1>1, <1>2 DEF Content, Spread


(* The opaque ranges recorded for the output are where the opaque lines    *)
(* lie in it, so that respelling meets exactly the other aliases.          *)
LEMMA AliasedText ==
  ASSUME NEW policy, NEW r \in Seq(Kind), ~ AllGap(r)
  PROVE  LET content == Content(policy, r)
         IN  Normalized(content.out, content.opaqueOutput) = Spread(RespellOf, content.out)
<1>1. PICK c, t, n : c = Content(policy, r) /\ t = c.out /\ n = Len(r)
  OBVIOUS
<1>2. t = Spread(LayoutOf, r) /\ t \in Seq(Kind)
  <2>1. Spread(LayoutOf, r) \in Seq(Kind)
    BY KindRewrites, SpreadTyped
  <2>2. QED BY <1>1, <2>1, ContentText
<1>3. Len(t) \in Nat /\ DOMAIN t = 1 .. Len(t) /\ (\A p \in 1 .. Len(t) : t[p] \in Kind)
  BY <1>2, KindText
<1>4. n \in Nat /\ DOMAIN r = 1 .. n /\ \A i \in 1 .. n : r[i] \in Kind
  BY <1>1, KindText
<1>5. PICK place : Places(place, LayoutOf, r)
  BY KindRewrites, SpreadPlaces
<1>6. c.opaqueOutput = {place[i] + 1 : i \in {j \in 1 .. n : r[j] \in Opaque}}
  <2>1. \A k \in 1 .. n : place[k] = Len(FlattenSeq(SubSeq(Replacements(LayoutOf, r), 1, k - 1)))
    BY <1>1, <1>5 DEF Places
  <2>2. c.opaqueOutput = {Len(FlattenSeq(SubSeq(Replacements(LayoutOf, r), 1, i - 1))) + 1 : i \in {j \in 1 .. n : r[j] \in Opaque}}
    BY <1>1, <1>4, ContentText
  <2>3. QED BY <2>1, <2>2
<1>7. ASSUME NEW i \in 1 .. n, r[i] \in Opaque PROVE place[i] + 1 \in 1 .. Len(t) /\ t[place[i] + 1] = r[i]
  <2>1. LayoutOf[r[i]] = <<r[i]>>
    BY <1>4, <1>7, LayoutCases DEF Opaque
  <2>2. 1 \in 1 .. Len(LayoutOf[r[i]]) /\ LayoutOf[r[i]][1] = r[i]
    BY <2>1
  <2>3. QED BY <1>1, <1>2, <1>5, <2>2 DEF Places
<1>8. ASSUME NEW p \in 1 .. Len(t), t[p] \in Opaque PROVE p \in c.opaqueOutput
  <2>1. PICK k \in 1 .. n : \E q \in 1 .. Len(LayoutOf[r[k]]) : p = place[k] + q
    BY <1>1, <1>2, <1>5, <1>8 DEF Places
  <2>2. PICK q \in 1 .. Len(LayoutOf[r[k]]) : p = place[k] + q
    BY <2>1
  <2>3. t[p] = LayoutOf[r[k]][q]
    BY <1>1, <1>2, <1>5, <2>2 DEF Places
  <2>4. CASE r[k] \in {"raw", "copy", "pad"}
    <3>1. LayoutOf[r[k]] \in {<<"HEAD", "TAIL">>, <<"COPY">>, <<"blank">>}
      BY <1>4, <2>4, LayoutCases
    <3>2. LayoutOf[r[k]][q] \in {"HEAD", "TAIL", "COPY", "blank"}
      BY <3>1
    <3>3. QED BY <1>8, <2>3, <3>2 DEF Opaque
  <2>5. CASE r[k] \notin {"raw", "copy", "pad"}
    <3>1. LayoutOf[r[k]] = <<r[k]>>
      BY <1>4, <2>5, LayoutCases
    <3>2. q = 1 /\ t[p] = r[k]
      BY <2>3, <3>1
    <3>3. QED BY <1>6, <1>8, <2>2, <3>2
  <2>6. QED BY <2>4, <2>5
<1>9. ASSUME NEW p \in 1 .. Len(t)
      PROVE  (IF p \in Aliases(t, c.opaqueOutput) THEN Respelled[t[p]] ELSE t[p])
               = (IF t[p] \in {"alias", "wide"} THEN Respelled[t[p]] ELSE t[p])
  <2>1. DOMAIN Respelled = {"alias", "wide", "odd"}
    BY DEF Respelled
  <2>2. p \in Aliases(t, c.opaqueOutput) <=> p \notin c.opaqueOutput /\ t[p] \in {"alias", "wide", "odd"}
    BY <1>3, <2>1 DEF Aliases
  <2>3. t[p] = "odd" => p \in c.opaqueOutput
    BY <1>8 DEF Opaque
  <2>4. p \in c.opaqueOutput => t[p] \in Opaque
    <3>1. SUFFICES ASSUME p \in c.opaqueOutput PROVE t[p] \in Opaque
      OBVIOUS
    <3>2. PICK i \in 1 .. n : r[i] \in Opaque /\ p = place[i] + 1
      BY <1>6, <3>1
    <3>3. QED BY <1>7, <3>2
  <2>5. QED BY <2>2, <2>3, <2>4 DEF Opaque
<1>10. PICK u, v : u = Normalized(t, c.opaqueOutput) /\ v = Replacements(RespellOf, t)
  OBVIOUS
<1>11. u \in Seq(Kind) /\ Len(u) = Len(t) /\ \A p \in 1 .. Len(t) : u[p] = (IF t[p] \in {"alias", "wide"} THEN Respelled[t[p]] ELSE t[p])
  <2>1. u = [p \in 1 .. Len(t) |-> IF p \in Aliases(t, c.opaqueOutput) THEN Respelled[t[p]] ELSE t[p]]
    BY <1>3, <1>10 DEF Normalized
  <2>2. u \in Seq(Kind)
    BY <1>2, <1>10, NormalizedTyped
  <2>3. DOMAIN u = 1 .. Len(t)
    BY <2>1
  <2>4. Len(u) = Len(t)
    BY <1>3, <2>2, <2>3
  <2>5. QED BY <1>9, <2>1, <2>2, <2>4
<1>12. v \in Seq(Seq(Kind)) /\ Len(v) = Len(t) /\ \A p \in 1 .. Len(t) : v[p] = RespellOf[t[p]]
  <2>1. \A s \in Seq(Kind) : /\ Replacements(RespellOf, s) \in Seq(Seq(Kind)) /\ Len(Replacements(RespellOf, s)) = Len(s)
                            /\ \A p \in 1 .. Len(s) : Replacements(RespellOf, s)[p] = RespellOf[s[p]]
    BY KindRewrites, ReplacedTyped
  <2>2. QED BY <1>2, <1>10, <2>1
<1>13. ASSUME NEW p \in 1 .. Len(u) PROVE v[p] = <<u[p]>>
  <2>1. p \in 1 .. Len(t) /\ t[p] \in Kind
    BY <1>3, <1>11, <1>13
  <2>2. RespellOf[t[p]] = IF t[p] \in {"alias", "wide"} THEN <<Respelled[t[p]]>> ELSE <<t[p]>>
    BY <2>1 DEF RespellOf
  <2>3. QED BY <1>11, <1>12, <2>1, <2>2
<1>14. FlattenSeq(v) = u
  <2>1. Singles(v, u)
    BY <1>11, <1>12, <1>13 DEF Singles
  <2>2. QED BY <1>11, <1>12, <2>1, SinglesFlatten
<1>15. QED BY <1>1, <1>10, <1>14 DEF Spread

(* A line that is no gap leaves one in its place. *)
LEMMA SomethingStays ==
  ASSUME NEW g, Rewrites(g, Kind), NEW r \in Seq(Kind), ~ AllGap(r),
         \A x \in Kind \ Gap : 1 \in 1 .. Len(g[x]) /\ g[x][1] \notin Gap
  PROVE  ~ AllGap(Spread(g, r))
<1>1. PICK t : t = Spread(g, r)
  OBVIOUS
<1>2. t \in Seq(Kind) /\ DOMAIN t = 1 .. Len(t)
  BY <1>1, SpreadTyped, KindText
<1>3. PICK place : Places(place, g, r)
  BY SpreadPlaces
<1>4. PICK k \in 1 .. Len(r) : r[k] \in Kind \ Gap
  BY KindText DEF AllGap
<1>5. 1 \in 1 .. Len(g[r[k]]) /\ g[r[k]][1] \notin Gap
  BY <1>4
<1>6. place[k] + 1 \in 1 .. Len(t) /\ t[place[k] + 1] = g[r[k]][1]
  BY <1>1, <1>3, <1>5 DEF Places
<1>7. QED BY <1>1, <1>2, <1>5, <1>6 DEF AllGap

(* A line that is no gap leaves one that is no gap.                        *)
LEMMA FirstLine ==
  ASSUME NEW x \in Kind \ Gap
  PROVE  /\ 1 \in 1 .. Len(MiddleOf[x]) /\ MiddleOf[x][1] \notin Gap
         /\ 1 \in 1 .. Len(NewOf[x]) /\ NewOf[x][1] \notin Gap
<1>1. \A y : 1 \in 1 .. Len(<<y>>) /\ <<y>>[1] = y
  OBVIOUS
<1>2. 1 \in 1 .. Len(<<"HEAD", "TAIL">>) /\ <<"HEAD", "TAIL">>[1] = "HEAD"
  OBVIOUS
<1>3. {"HEAD", "COPY", "raw", "skip"} \cap Gap = {} /\ x # "pad"
  BY DEF Gap
<1>4. CASE x \in {"raw", "copy", "alias", "wide"}
  BY <1>1, <1>2, <1>3, <1>4, LayoutCases
<1>5. CASE x \notin {"raw", "copy", "alias", "wide"}
  BY <1>1, <1>3, <1>5, LayoutCases
<1>6. QED BY <1>4, <1>5

(* A region without COPY payloads is replaced line by line, whichever of   *)
(* the two layouts its text comes from.                                    *)
LEMMA RegularText ==
  ASSUME NEW policy, NEW r \in Seq(Kind)
  PROVE  /\ AllGap(r) => RegularOnce(policy, r).out = <<>>
         /\ ~ AllGap(r) => RegularOnce(policy, r).out = Spread(NewOf, r)
<1>1. ASSUME AllGap(r) PROVE RegularOnce(policy, r).out = <<>>
  <2>1. Content(policy, r) = Empty
    BY <1>1 DEF Content, AllGap
  <2>2. Normalized(<<>>, {}) = <<>>
    BY DEF Normalized
  <2>3. Empty.out = <<>> /\ Empty.opaqueOutput = {}
    BY DEF Empty
  <2>4. QED BY <2>1, <2>2, <2>3 DEF RegularOnce
<1>2. ASSUME ~ AllGap(r) PROVE RegularOnce(policy, r).out = Spread(NewOf, r)
  <2>1. PICK c, t, u, m : c = Content(policy, r) /\ t = c.out /\ u = Normalized(t, c.opaqueOutput) /\ m = Spread(MiddleOf, r)
    OBVIOUS
  <2>2. t = Spread(LayoutOf, r)
    BY <1>2, <2>1, ContentText
  <2>3. u = Spread(RespellOf, t)
    BY <1>2, <2>1, AliasedText
  <2>4. Spread(RespellOf, Spread(LayoutOf, r)) = Spread(MiddleOf, r)
    BY KindRewrites, LayoutComposes, SpreadTwice
  <2>5. Spread(LayoutOf, Spread(MiddleOf, r)) = Spread(NewOf, r)
    BY KindRewrites, LayoutComposes, SpreadTwice
  <2>6. Spread(LayoutOf, Spread(LayoutOf, r)) = Spread(LayoutOf, r)
    BY KindRewrites, LayoutComposes, SpreadTwice
  <2>7. u = m /\ Spread(LayoutOf, u) = Spread(NewOf, r)
    BY <2>1, <2>2, <2>3, <2>4, <2>5
  <2>8. RegularOnce(policy, r).out = IF u = t THEN t ELSE Content(policy, u).out
    BY <2>1 DEF RegularOnce
  <2>9. CASE u = t
    BY <2>2, <2>6, <2>7, <2>8, <2>9
  <2>10. CASE u # t
    <3>1. u \in Seq(Kind)
      BY <2>1, <2>7, KindRewrites, SpreadTyped
    <3>2. ~ AllGap(u)
      BY <1>2, <2>1, <2>7, FirstLine, KindRewrites, SomethingStays
    <3>3. Content(policy, u).out = Spread(LayoutOf, u)
      BY <3>1, <3>2, ContentText
    <3>4. QED BY <2>7, <2>8, <2>10, <3>3
  <2>11. QED BY <2>9, <2>10
<1>3. QED BY <1>1, <1>2

(* The multi-line statements of a region stay whole. *)
LEMMA NewParses ==
  ASSUME NEW r \in Seq(Kind), Parses(r)
  PROVE  /\ Spread(NewOf, r) \in Seq(Kind) /\ Parses(Spread(NewOf, r))
         /\ (\A i \in DOMAIN r : r[i] \notin {"copy", "COPY"})
              => \A p \in DOMAIN Spread(NewOf, r) : Spread(NewOf, r)[p] \notin {"copy", "COPY"}
<1>1. PICK t, n : t = Spread(NewOf, r) /\ n = Len(r)
  OBVIOUS
<1>2. t \in Seq(Kind)
  BY <1>1, KindRewrites, SpreadTyped
<1>3. DOMAIN t = 1 .. Len(t) /\ Len(t) \in Nat /\ DOMAIN r = 1 .. n /\ n \in Nat /\ \A k \in 1 .. n : r[k] \in Kind
  BY <1>1, <1>2, KindText
<1>4. PICK place : Places(place, NewOf, r)
  BY KindRewrites, SpreadPlaces
<1>5. /\ \A k \in 1 .. n : /\ place[k] \in Nat
                           /\ \A q \in 1 .. Len(NewOf[r[k]]) : place[k] + q \in 1 .. Len(t) /\ t[place[k] + q] = NewOf[r[k]][q]
      /\ \A p \in 1 .. Len(t) : \E k \in 1 .. n : \E q \in 1 .. Len(NewOf[r[k]]) : p = place[k] + q
      /\ \A k \in 1 .. n - 1 : place[k + 1] = place[k] + Len(NewOf[r[k]])
  BY <1>1, <1>4 DEF Places
<1>6. \A y : Len(<<y>>) = 1 /\ <<y>>[1] = y
  OBVIOUS
<1>7. Len(<<"HEAD", "TAIL">>) = 2 /\ <<"HEAD", "TAIL">>[1] = "HEAD" /\ <<"HEAD", "TAIL">>[2] = "TAIL"
  OBVIOUS
<1>8. ASSUME NEW p \in 1 .. Len(t)
      PROVE  /\ t[p] \in Gap \cup Statement \cup {"HEAD"}
             /\ t[p] = "HEAD" => p + 1 \in 1 .. Len(t) /\ t[p + 1] = "TAIL"
             /\ t[p] = "TAIL" => p > 1 /\ t[p - 1] = "HEAD"
             /\ t[p] \in {"copy", "COPY"} => \E k \in 1 .. n : r[k] \in {"copy", "COPY"}
  <2>1. PICK k \in 1 .. n : \E q \in 1 .. Len(NewOf[r[k]]) : p = place[k] + q
    BY <1>5
  <2>2. PICK q \in 1 .. Len(NewOf[r[k]]) : p = place[k] + q
    BY <2>1
  <2>3. t[p] = NewOf[r[k]][q] /\ place[k] \in Nat /\ r[k] \in Kind
    BY <1>3, <1>5, <2>2
  <2>4. r[k] \in Gap \cup Statement \cup {"HEAD"}
    BY <1>3 DEF Parses
  <2>5. CASE r[k] \in {"raw", "alias"}
    <3>1. NewOf[r[k]] = <<"HEAD", "TAIL">>
      BY <2>3, <2>5, LayoutCases
    <3>2. place[k] + 1 \in 1 .. Len(t) /\ t[place[k] + 1] = "HEAD" /\ place[k] + 2 \in 1 .. Len(t) /\ t[place[k] + 2] = "TAIL"
      <4>1. 1 \in 1 .. Len(NewOf[r[k]]) /\ 2 \in 1 .. Len(NewOf[r[k]])
        BY <1>7, <3>1
      <4>2. NewOf[r[k]][1] = "HEAD" /\ NewOf[r[k]][2] = "TAIL"
        BY <1>7, <3>1
      <4>3. QED BY <1>5, <4>1, <4>2
    <3>3. (p = place[k] + 1 /\ p + 1 = place[k] + 2) \/ (p = place[k] + 2 /\ p - 1 = place[k] + 1 /\ p > 1)
      BY <1>7, <2>2, <2>3, <3>1
    <3>4. QED BY <3>2, <3>3 DEF Statement
  <2>6. CASE r[k] = "HEAD"
    <3>1. k + 1 \in 1 .. n /\ r[k + 1] = "TAIL"
      BY <1>3, <2>6 DEF Parses
    <3>2. NewOf[r[k]] = <<"HEAD">> /\ NewOf[r[k + 1]] = <<"TAIL">>
      BY <1>3, <2>6, <3>1, LayoutCases
    <3>3. place[k + 1] = place[k] + 1
      <4>1. k \in 1 .. n - 1
        BY <1>3, <3>1
      <4>2. QED BY <1>5, <1>6, <3>2, <4>1
    <3>4. q = 1 /\ t[p] = "HEAD"
      BY <1>6, <2>3, <3>2
    <3>5. place[k + 1] + 1 \in 1 .. Len(t) /\ t[place[k + 1] + 1] = "TAIL"
      <4>1. 1 \in 1 .. Len(NewOf[r[k + 1]]) /\ NewOf[r[k + 1]][1] = "TAIL"
        BY <1>6, <3>2
      <4>2. QED BY <1>5, <3>1, <4>1
    <3>6. place[k + 1] + 1 = p + 1
      BY <2>2, <3>3, <3>4
    <3>7. QED BY <3>4, <3>5, <3>6
  <2>7. CASE r[k] = "TAIL"
    <3>1. k > 1 /\ r[k - 1] = "HEAD"
      BY <1>3, <2>7 DEF Parses
    <3>2. PICK j : j = k - 1
      OBVIOUS
    <3>3. j \in 1 .. n - 1 /\ j \in 1 .. n /\ j + 1 = k /\ r[j] = "HEAD"
      BY <1>3, <3>1, <3>2
    <3>4. NewOf[r[j]] = <<"HEAD">> /\ NewOf[r[k]] = <<"TAIL">>
      BY <1>3, <2>7, <3>3, LayoutCases
    <3>5. place[k] = place[j] + 1 /\ place[j] \in Nat
      BY <1>5, <1>6, <3>3, <3>4
    <3>6. q = 1 /\ t[p] = "TAIL"
      BY <1>6, <2>3, <3>4
    <3>7. t[place[j] + 1] = "HEAD"
      <4>1. 1 \in 1 .. Len(NewOf[r[j]]) /\ NewOf[r[j]][1] = "HEAD"
        BY <1>6, <3>4
      <4>2. QED BY <1>5, <3>3, <4>1
    <3>8. p - 1 = place[j] + 1 /\ p > 1
      BY <2>2, <3>5, <3>6
    <3>9. QED BY <3>6, <3>7, <3>8 DEF Statement
  <2>8. CASE r[k] \in {"copy", "pad", "wide"}
    <3>1. \/ NewOf[r[k]] = <<"COPY">> /\ r[k] = "copy"
          \/ NewOf[r[k]] = <<"blank">>
          \/ NewOf[r[k]] = <<"skip">>
      BY <2>3, <2>8, LayoutCases
    <3>2. (t[p] = "COPY" /\ r[k] = "copy") \/ t[p] = "blank" \/ t[p] = "skip"
      BY <1>6, <2>3, <3>1
    <3>3. QED BY <3>2 DEF Gap, Statement
  <2>9. CASE r[k] \notin {"raw", "alias", "HEAD", "TAIL", "copy", "pad", "wide"}
    <3>1. NewOf[r[k]] = <<r[k]>>
      BY <2>3, <2>9, LayoutCases
    <3>2. t[p] = r[k]
      BY <1>6, <2>3, <3>1
    <3>3. QED BY <2>4, <2>9, <3>2
  <2>10. QED BY <2>5, <2>6, <2>7, <2>8, <2>9
<1>9. Parses(t)
  BY <1>3, <1>8 DEF Parses
<1>10. QED BY <1>1, <1>2, <1>3, <1>8, <1>9

(* A region without COPY payloads is left alone once it is formatted. *)
LEMMA RegularSettles ==
  ASSUME NEW policy, NEW r \in Seq(Kind), Parses(r)
  PROVE  LET t == Regular(policy, r).out
         IN  /\ t \in Seq(Kind) /\ Parses(t)
             /\ Regular(policy, t).ok /\ Regular(policy, t).out = t
             /\ (\A i \in DOMAIN r : r[i] \notin {"copy", "COPY"}) => \A p \in DOMAIN t : t[p] \notin {"copy", "COPY"}
<1>1. PICK t : t = Regular(policy, r).out
  OBVIOUS
<1>2. t = RegularOnce(policy, r).out
  BY <1>1 DEF Regular
<1>3. ASSUME Parses(t) PROVE Regular(policy, t).ok /\ Regular(policy, t).out = RegularOnce(policy, t).out
  BY <1>3 DEF Regular
<1>4. CASE AllGap(r)
  <2>1. t = <<>>
    BY <1>2, <1>4, RegularText
  <2>2. <<>> \in Seq(Kind) /\ DOMAIN <<>> = {}
    OBVIOUS
  <2>3. Parses(<<>>) /\ AllGap(<<>>)
    BY <2>2 DEF Parses, AllGap
  <2>4. RegularOnce(policy, <<>>).out = <<>>
    BY <2>2, <2>3, RegularText
  <2>5. QED BY <1>1, <1>3, <2>1, <2>2, <2>3, <2>4
<1>5. CASE ~ AllGap(r)
  <2>1. t = Spread(NewOf, r)
    BY <1>2, <1>5, RegularText
  <2>2. /\ t \in Seq(Kind) /\ Parses(t)
        /\ (\A i \in DOMAIN r : r[i] \notin {"copy", "COPY"}) => \A p \in DOMAIN t : t[p] \notin {"copy", "COPY"}
    BY <2>1, NewParses
  <2>3. ~ AllGap(t)
    BY <1>5, <2>1, FirstLine, KindRewrites, SomethingStays
  <2>4. RegularOnce(policy, t).out = Spread(NewOf, t)
    BY <2>2, <2>3, RegularText
  <2>5. Spread(NewOf, Spread(NewOf, r)) = Spread(NewOf, r)
    BY KindRewrites, LayoutComposes, SpreadTwice
  <2>6. QED BY <1>1, <1>3, <2>1, <2>2, <2>4, <2>5
<1>6. QED BY <1>4, <1>5

-----------------------------------------------------------------------------
(***************************************************************************)
(* A region with COPY payloads.                                            *)
(***************************************************************************)
(* Before the first header there is none, and if what is there parses, not *)
(* even a COPY line: one would start a statement, and the end is behind it. *)
LEMMA NoneBefore ==
  ASSUME NEW r \in Seq(Kind), Headers(r) # {}
  PROVE  /\ Headers(BeforeCopy(r)) = {}
         /\ Parses(BeforeCopy(r)) => \A i \in DOMAIN BeforeCopy(r) : BeforeCopy(r)[i] \notin {"copy", "COPY"}
<1>1. PICK b, h, e : b = BeforeCopy(r) /\ h = Header(r) /\ e = PayloadEnd(r)
  OBVIOUS
<1>2. h \in 1 .. Len(r) /\ e \in h + 1 .. Len(r) /\ r[e] = "end" /\ DOMAIN r = 1 .. Len(r) /\ Len(r) \in Nat
  BY <1>1, HeaderInRegion
<1>3. b \in Seq(Kind) /\ Len(b) = h - 1 /\ DOMAIN b = 1 .. h - 1 /\ \A i \in 1 .. h - 1 : b[i] = r[i]
  BY <1>1, <1>2, AroundCopy, KindText
<1>4. ASSUME NEW i \in 1 .. h - 1 PROVE i \notin Headers(r) /\ i \in 1 .. Len(r)
  <2>1. i \in 1 .. Len(r)
    BY <1>2
  <2>2. Headers(r) \in SUBSET Nat
    BY <1>2 DEF Headers
  <2>3. \A j \in Headers(r) : h <= j
    BY <1>1, <2>2, LeastChosen DEF Header, Least
  <2>4. ~ (h <= i)
    BY <1>2
  <2>5. QED BY <2>1, <2>3, <2>4
<1>5. ASSUME NEW i \in 1 .. h - 1, b[i] \in {"copy", "COPY"}, StartsStatement(b, i) PROVE FALSE
  <2>1. StartsStatement(r, i)
    <3>1. \A j \in 1 .. i - 1 : r[j] = b[j] /\ \A k \in j + 1 .. i - 1 : r[k] = b[k]
      BY <1>2, <1>3
    <3>2. QED BY <1>5, <3>1 DEF StartsStatement
  <2>2. e \in EndsAfter(r, i)
    <3>1. e \in 1 .. Len(r) /\ e > i
      BY <1>2
    <3>2. QED BY <1>2, <3>1 DEF EndsAfter
  <2>3. HasPayload(r, i)
    BY <1>3, <1>5, <2>1, <2>2 DEF HasPayload
  <2>4. QED BY <1>2, <1>4, <2>3 DEF Headers
<1>6. Headers(b) = {}
  BY <1>3, <1>5 DEF Headers, HasPayload
<1>7. ASSUME Parses(b), NEW i \in 1 .. h - 1 PROVE b[i] \notin {"copy", "COPY"}
  <2>1. SUFFICES ASSUME b[i] \in {"copy", "COPY"} PROVE StartsStatement(b, i)
    BY <1>5
  <2>2. SUFFICES ASSUME NEW j \in 1 .. i - 1, \A k \in j + 1 .. i - 1 : b[k] \in Gap PROVE b[j] \in Gap \cup Statement
    BY DEF StartsStatement
  <2>3. j \in 1 .. h - 1
    BY <1>2
  <2>4. b[j] \in Gap \cup Statement \cup {"HEAD"} /\ (b[j] = "HEAD" => b[j + 1] = "TAIL")
    BY <1>3, <1>7, <2>3 DEF Parses
  <2>5. b[j] # "HEAD"
    <3>1. CASE j + 1 = i
      BY <2>1, <2>4, <3>1
    <3>2. CASE j + 1 # i
      <4>1. j + 1 \in j + 1 .. i - 1
        BY <1>2, <3>2
      <4>2. b[j + 1] \in Gap
        BY <2>2, <4>1
      <4>3. QED BY <2>4, <4>2 DEF Gap
    <3>3. QED BY <3>1, <3>2
  <2>6. QED BY <2>4, <2>5
<1>8. QED BY <1>1, <1>3, <1>6, <1>7

(* The payload ends at its first end line. *)
Payload(r) == SubSeq(r, Header(r) + 1, PayloadEnd(r))
IsPayload(p) == Len(p) \in Nat \ {0} /\ p[Len(p)] = "end" /\ \A i \in 1 .. Len(p) - 1 : p[i] # "end"

(* The lines of the first payload of a text.                               *)
LEMMA PayloadLines ==
  ASSUME NEW S, NEW r \in Seq(S), Headers(r) # {}
  PROVE  /\ Payload(r) \in Seq(S) /\ IsPayload(Payload(r)) /\ Len(Payload(r)) = PayloadEnd(r) - Header(r)
         /\ \A i \in 1 .. PayloadEnd(r) - Header(r) : Payload(r)[i] = r[Header(r) + i]
<1>1. PICK p, h, e : p = Payload(r) /\ h = Header(r) /\ e = PayloadEnd(r)
  OBVIOUS
<1>2. h \in 1 .. Len(r) /\ e \in h + 1 .. Len(r) /\ r[e] = "end" /\ Len(r) \in Nat /\ HasPayload(r, h)
  BY <1>1, HeaderInRegion
<1>3. p \in Seq(S) /\ Len(p) = e - h /\ \A i \in 1 .. e - h : p[i] = r[h + i]
  <2>1. p = SubSeq(r, h + 1, e)
    BY <1>1 DEF Payload
  <2>2. QED BY <1>2, <2>1
<1>4. e - h \in Nat \ {0} /\ e - h \in 1 .. e - h /\ h + (e - h) = e
  BY <1>2
<1>5. p[Len(p)] = "end"
  BY <1>2, <1>3, <1>4
<1>6. ASSUME NEW i \in 1 .. Len(p) - 1 PROVE p[i] # "end"
  <2>1. i \in 1 .. e - h /\ h + i \in 1 .. Len(r) /\ h + i > h /\ ~ (e <= h + i)
    BY <1>2, <1>3
  <2>2. EndsAfter(r, h) \in SUBSET Nat /\ EndsAfter(r, h) # {}
    BY <1>2 DEF HasPayload, EndsAfter
  <2>3. \A j \in EndsAfter(r, h) : e <= j
    BY <1>1, <2>2, LeastChosen DEF PayloadEnd, Least
  <2>4. h + i \notin EndsAfter(r, h)
    BY <2>1, <2>3
  <2>5. r[h + i] # "end"
    BY <2>1, <2>4 DEF EndsAfter
  <2>6. QED BY <1>3, <2>1, <2>5
<1>7. IsPayload(p)
  BY <1>3, <1>4, <1>5, <1>6 DEF IsPayload
<1>8. QED BY <1>1, <1>3, <1>7

(* A text without COPY lines. *)
NoCopy(r) == \A i \in DOMAIN r : r[i] \notin {"copy", "COPY"}

(* Text t is these with a laid-out header between them. *)
Assembly(t, P, D, S) == t = P \o <<"COPY">> \o D \o S

(* A text put together from a formatted prefix, a header, a payload and a  *)
(* suffix falls into these parts again.                                    *)
LEMMA Assembled ==
  ASSUME NEW P \in Seq(Kind), Parses(P), NoCopy(P),
         NEW D \in Seq(Kind), IsPayload(D), NEW S \in Seq(Kind),
         NEW t, Assembly(t, P, D, S)
  PROVE  /\ t \in Seq(Kind) /\ Headers(t) # {}
         /\ BeforeCopy(t) = P /\ HeaderLine(t) = <<"COPY">> /\ Payload(t) = D /\ BehindCopy(t) = S
<1>1. PICK one, a, b, c, n : one = <<"COPY">> /\ a = Len(P) /\ b = Len(D) /\ c = Len(S) /\ n = Len(t)
  OBVIOUS
<1>2. one \in Seq(Kind) /\ Len(one) = 1 /\ one[1] = "COPY"
  BY <1>1, KindOf
<1>3. t \in Seq(Kind) /\ Line4(t, P, one, D, S)
  BY <1>1, <1>2, FourJoined DEF Assembly
<1>4. a \in Nat /\ b \in Nat \ {0} /\ c \in Nat /\ n \in Nat /\ n = a + 1 + b + c
  BY <1>1, <1>2, <1>3 DEF Line4, IsPayload
<1>5. HeldAt(t, 0, P) /\ HeldAt(t, a, one) /\ HeldAt(t, a + 1, D) /\ HeldAt(t, a + 1 + b, S)
  BY <1>1, <1>2, <1>3 DEF Line4
<1>6. PICK h, e : h = a + 1 /\ e = a + 1 + b
  OBVIOUS
<1>7. DOMAIN t = 1 .. n /\ DOMAIN P = 1 .. a
  BY <1>1, <1>3, KindText
<1>8. ASSUME NEW i \in 1 .. a PROVE t[i] = P[i] /\ P[i] \in Gap \cup Statement \cup {"HEAD"} /\ P[i] \notin {"copy", "COPY"}
  <2>1. t[0 + i] = P[i] /\ 0 + i = i
    BY <1>1, <1>4, <1>5 DEF HeldAt
  <2>2. QED BY <1>7, <2>1 DEF Parses, NoCopy
<1>9. t[h] = "COPY"
  <2>1. 1 \in 1 .. Len(one)
    BY <1>2
  <2>2. QED BY <1>2, <1>5, <1>6, <2>1 DEF HeldAt
<1>10. ASSUME NEW i \in 1 .. b PROVE t[h + i] = D[i]
  BY <1>1, <1>5, <1>6 DEF HeldAt
<1>11. StartsStatement(t, h)
  <2> SUFFICES ASSUME NEW j \in 1 .. h - 1, \A k \in j + 1 .. h - 1 : t[k] \in Gap PROVE t[j] \in Gap \cup Statement
    BY DEF StartsStatement
  <2>1. j \in 1 .. a
    BY <1>4, <1>6
  <2>2. t[j] # "HEAD"
    <3>1. SUFFICES ASSUME t[j] = "HEAD" PROVE FALSE
      OBVIOUS
    <3>2. j + 1 \in 1 .. a /\ P[j + 1] = "TAIL"
      <4>1. P[j] = "HEAD"
        BY <1>8, <2>1, <3>1
      <4>2. QED BY <1>7, <2>1, <4>1 DEF Parses
    <3>3. t[j + 1] = "TAIL"
      BY <1>8, <3>2
    <3>4. j + 1 \in j + 1 .. h - 1
      BY <1>4, <1>6, <3>2
    <3>5. QED BY <3>3, <3>4 DEF Gap
  <2>3. QED BY <1>8, <2>1, <2>2
<1>12. h \in 1 .. n /\ e \in h + 1 .. n /\ e > h /\ b = e - h /\ h + b = e /\ b \in 1 .. b
  BY <1>4, <1>6
<1>13. t[e] = "end"
  <2>1. D[b] = "end"
    BY <1>1 DEF IsPayload
  <2>2. t[h + b] = D[b]
    BY <1>10, <1>12
  <2>3. QED BY <1>12, <2>1, <2>2
<1>14. e \in EndsAfter(t, h)
  <2>1. e \in 1 .. n
    BY <1>12
  <2>2. QED BY <1>7, <1>12, <1>13, <2>1 DEF EndsAfter
<1>15. h \in Headers(t)
  BY <1>7, <1>9, <1>11, <1>12, <1>14 DEF Headers, HasPayload
<1>16. Header(t) = h
  <2>1. PICK m : m = Header(t)
    OBVIOUS
  <2>2. Headers(t) \in SUBSET Nat
    BY <1>7 DEF Headers
  <2>3. m \in Headers(t) /\ m <= h
    BY <1>15, <2>1, <2>2, LeastChosen DEF Header, Least
  <2>4. m \in 1 .. n /\ t[m] \in {"copy", "COPY"}
    BY <1>7, <2>3 DEF Headers, HasPayload
  <2>5. m \notin 1 .. a
    BY <1>8, <2>4
  <2>6. m = h
    BY <1>4, <1>6, <2>3, <2>4, <2>5
  <2>7. QED BY <2>1, <2>6
<1>17. PayloadEnd(t) = e
  <2>1. PICK m : m = PayloadEnd(t)
    OBVIOUS
  <2>2. EndsAfter(t, h) \in SUBSET Nat
    BY <1>7 DEF EndsAfter
  <2>3. m \in EndsAfter(t, h) /\ m <= e
    BY <1>14, <1>16, <2>1, <2>2, LeastChosen DEF PayloadEnd, Least
  <2>4. m \in 1 .. n /\ m > h /\ t[m] = "end"
    BY <1>7, <2>3 DEF EndsAfter
  <2>5. m - h \in 1 .. b /\ h + (m - h) = m
    BY <1>12, <2>3, <2>4
  <2>6. D[m - h] = "end"
    BY <1>10, <2>4, <2>5
  <2>7. m - h \notin 1 .. b - 1
    BY <1>1, <2>6 DEF IsPayload
  <2>8. m = e
    BY <1>4, <1>6, <2>4, <2>5, <2>7
  <2>9. QED BY <2>1, <2>8
<1>18. SubSeq(t, 0 + 1, 0 + a) = P
  BY <1>1, <1>3, <1>5, Cut
<1>19. SubSeq(t, h + 1, h + b) = D
  BY <1>1, <1>3, <1>5, <1>6, Cut
<1>20. SubSeq(t, e + 1, e + c) = S
  BY <1>1, <1>3, <1>5, <1>6, Cut
<1>21. 0 + 1 = 1 /\ 0 + a = h - 1 /\ h + b = e /\ e + c = n
  BY <1>4, <1>6
<1>22. BeforeCopy(t) = P /\ Payload(t) = D /\ BehindCopy(t) = S
  BY <1>1, <1>16, <1>17, <1>18, <1>19, <1>20, <1>21 DEF BeforeCopy, Payload, BehindCopy
<1>23. HeaderLine(t) = <<"COPY">>
  BY <1>9, <1>16 DEF HeaderLine
<1>24. QED BY <1>3, <1>15, <1>22, <1>23

(* What once makes of a region, in its parts. *)
LEMMA OnceParts ==
  ASSUME NEW policy, NEW r \in Seq(Kind)
  PROVE  LET x == DocumentOnce(policy, r)
             p == Regular(policy, BeforeCopy(r))
             g == Regular(policy, HeaderLine(r))
             s == DocumentOnce(policy, BehindCopy(r))
         IN  /\ Headers(r) = {} => x = Regular(policy, r)
             /\ Headers(r) # {} =>
                  /\ x.ok = (p.ok /\ g.ok /\ s.ok)
                  /\ x.out = p.out \o g.out \o Payload(r) \o s.out
                  /\ x.diags = p.diags \cup {Shifted(d, Header(r) - 1) : d \in g.diags}
                                 \cup {Shifted(d, PayloadEnd(r)) : d \in s.diags}
<1>1. DocumentOnce(policy, r) = OnceBody(policy, Once(policy), r)
  BY OnceDefined
<1>2. CASE Headers(r) = {}
  BY <1>1, <1>2 DEF OnceBody
<1>3. CASE Headers(r) # {}
  <2>1. BeforeCopy(r) \in Seq(Kind) /\ BehindCopy(r) \in Seq(Kind)
    BY <1>3, AroundCopy
  <2>2. Headers(BeforeCopy(r)) = {}
    BY <1>3, NoneBefore
  <2>3. DocumentOnce(policy, BeforeCopy(r)) = Regular(policy, BeforeCopy(r))
    BY <2>1, <2>2, OnceDefined DEF OnceBody
  <2>4. Once(policy)[BeforeCopy(r)] = Regular(policy, BeforeCopy(r)) /\ Once(policy)[BehindCopy(r)] = DocumentOnce(policy, BehindCopy(r))
    BY <2>3 DEF DocumentOnce
  <2>5. PICK x, p, g, s : /\ x = DocumentOnce(policy, r) /\ p = Regular(policy, BeforeCopy(r))
                          /\ g = Regular(policy, HeaderLine(r)) /\ s = DocumentOnce(policy, BehindCopy(r))
    OBVIOUS
  <2>6. x = [ok    |-> p.ok /\ g.ok /\ s.ok,
             out   |-> p.out \o g.out \o Payload(r) \o s.out,
             diags |-> p.diags \cup {Shifted(d, Header(r) - 1) : d \in g.diags}
                         \cup {Shifted(d, PayloadEnd(r)) : d \in s.diags}]
    BY <1>1, <1>3, <2>4, <2>5 DEF OnceBody, Payload, SuffixOffset
  <2>7. /\ x.ok = (p.ok /\ g.ok /\ s.ok)
        /\ x.out = p.out \o g.out \o Payload(r) \o s.out
        /\ x.diags = p.diags \cup {Shifted(d, Header(r) - 1) : d \in g.diags}
                       \cup {Shifted(d, PayloadEnd(r)) : d \in s.diags}
    BY <2>6
  <2>8. QED BY <1>3, <2>5, <2>7
<1>4. QED BY <1>2, <1>3

(* A header on its own is formatted to the laid-out header.                *)
LEMMA HeaderText ==
  ASSUME NEW policy, NEW x \in {"copy", "COPY"}
  PROVE  Regular(policy, <<x>>).ok /\ Regular(policy, <<x>>).out = <<"COPY">>
<1>1. x \in Kind /\ x \in Statement /\ x \notin Gap /\ x # "HEAD" /\ x # "TAIL"
  BY DEF Kind, Statement, Gap
<1>2. PICK r : r = <<x>>
  OBVIOUS
<1>3. r \in Seq(Kind) /\ DOMAIN r = {1} /\ r[1] = x
  BY <1>1, <1>2
<1>4. Parses(r) /\ ~ AllGap(r)
  BY <1>1, <1>3 DEF Parses, AllGap
<1>5. RegularOnce(policy, r).out = Spread(NewOf, r)
  BY <1>3, <1>4, RegularText
<1>6. Spread(NewOf, <<x>>) = NewOf[x]
  BY <1>1, KindRewrites, SpreadOne
<1>7. NewOf[x] = <<"COPY">>
  BY <1>1, LayoutCases
<1>8. QED BY <1>2, <1>4, <1>5, <1>6, <1>7 DEF Regular

(* A text without COPY lines has no header. *)
LEMMA NoHeaders ==
  ASSUME NEW r, \A i \in DOMAIN r : r[i] \notin {"copy", "COPY"}
  PROVE  Headers(r) = {}
BY DEF Headers, HasPayload

(* Text the parser accepts has no end line, so no payload.                 *)
LEMMA ParsedHasNone ==
  ASSUME NEW r \in Seq(Kind), Parses(r)
  PROVE  Headers(r) = {}
<1>1. \A i \in DOMAIN r : r[i] # "end"
  BY DEF Parses, Gap, Statement
<1>2. \A i \in DOMAIN r : EndsAfter(r, i) = {}
  BY <1>1 DEF EndsAfter
<1>3. QED BY <1>2 DEF Headers, HasPayload

(* format_regular_document_once and the recursion around it: what they     *)
(* accept they accept again, and leave alone.                              *)
OnceKeeps(policy, r) ==
  LET t == DocumentOnce(policy, r).out
  IN  t \in Seq(Kind) /\ DocumentOnce(policy, t).ok /\ DocumentOnce(policy, t).out = t

(* It holds of a text when it holds of shorter ones.                       *)
LEMMA OnceSettlesStep ==
  ASSUME NEW policy, NEW r \in Seq(Kind), DocumentOnce(policy, r).ok,
         \A s \in Seq(Kind) : Len(s) < Len(r) /\ DocumentOnce(policy, s).ok => OnceKeeps(policy, s)
  PROVE  OnceKeeps(policy, r)
<1>1. CASE Headers(r) = {}
  <2>1. DocumentOnce(policy, r) = Regular(policy, r)
    BY <1>1, OnceParts
  <2>2. Parses(r)
    BY <2>1 DEF Regular
  <2>3. PICK t : t = Regular(policy, r).out
    OBVIOUS
  <2>4. t \in Seq(Kind) /\ Parses(t) /\ Regular(policy, t).ok /\ Regular(policy, t).out = t
    BY <2>2, <2>3, RegularSettles
  <2>5. DocumentOnce(policy, t) = Regular(policy, t)
    BY <2>4, ParsedHasNone, OnceParts
  <2>6. QED BY <2>1, <2>3, <2>4, <2>5 DEF OnceKeeps
<1>2. CASE Headers(r) # {}
  <2>1. PICK b, l, s, D : b = BeforeCopy(r) /\ l = r[Header(r)] /\ s = BehindCopy(r) /\ D = Payload(r)
    OBVIOUS
  <2>2. b \in Seq(Kind) /\ s \in Seq(Kind) /\ Len(s) < Len(r)
    BY <1>2, <2>1, AroundCopy, ShorterAround
  <2>3. D \in Seq(Kind) /\ IsPayload(D)
    BY <1>2, <2>1, PayloadLines
  <2>4. l \in {"copy", "COPY"} /\ HeaderLine(r) = <<l>>
    BY <1>2, <2>1, HeaderInRegion DEF HasPayload, HeaderLine
  <2>5. PICK p, g, x, t : /\ p = Regular(policy, b) /\ g = Regular(policy, <<l>>) /\ x = DocumentOnce(policy, s)
                          /\ t = DocumentOnce(policy, r).out
    OBVIOUS
  <2>6. p.ok /\ g.ok /\ x.ok /\ t = p.out \o g.out \o D \o x.out
    BY <1>2, <2>1, <2>4, <2>5, OnceParts
  <2>7. g.out = <<"COPY">>
    BY <2>4, <2>5, HeaderText
  <2>8. Parses(b) /\ NoCopy(b)
    <3>1. Parses(b)
      BY <2>5, <2>6 DEF Regular
    <3>2. QED BY <1>2, <2>1, <3>1, NoneBefore DEF NoCopy
  <2>9. PICK P, S : P = p.out /\ S = x.out
    OBVIOUS
  <2>10. P \in Seq(Kind) /\ Parses(P) /\ Regular(policy, P).ok /\ Regular(policy, P).out = P /\ NoCopy(P)
    BY <2>2, <2>5, <2>8, <2>9, RegularSettles DEF NoCopy
  <2>11. S \in Seq(Kind) /\ DocumentOnce(policy, S).ok /\ DocumentOnce(policy, S).out = S
    BY <2>2, <2>5, <2>6, <2>9 DEF OnceKeeps
  <2>12. t = P \o <<"COPY">> \o D \o S
    BY <2>6, <2>7, <2>9
  <2>18. Assembly(t, P, D, S)
    BY <2>12 DEF Assembly
  <2>13. /\ t \in Seq(Kind) /\ Headers(t) # {}
         /\ BeforeCopy(t) = P /\ HeaderLine(t) = <<"COPY">> /\ Payload(t) = D /\ BehindCopy(t) = S
    BY <2>3, <2>10, <2>11, <2>18, Assembled
  <2>14. Regular(policy, <<"COPY">>).ok /\ Regular(policy, <<"COPY">>).out = <<"COPY">>
    BY HeaderText
  <2>15. /\ DocumentOnce(policy, t).ok = (Regular(policy, P).ok /\ Regular(policy, <<"COPY">>).ok /\ DocumentOnce(policy, S).ok)
         /\ DocumentOnce(policy, t).out = Regular(policy, P).out \o Regular(policy, <<"COPY">>).out \o D \o DocumentOnce(policy, S).out
    <3>1. /\ DocumentOnce(policy, t).ok = (Regular(policy, BeforeCopy(t)).ok /\ Regular(policy, HeaderLine(t)).ok /\ DocumentOnce(policy, BehindCopy(t)).ok)
          /\ DocumentOnce(policy, t).out = Regular(policy, BeforeCopy(t)).out \o Regular(policy, HeaderLine(t)).out \o Payload(t) \o DocumentOnce(policy, BehindCopy(t)).out
      BY <2>13, OnceParts
    <3>2. QED BY <2>13, <3>1
  <2>16. DocumentOnce(policy, t).ok /\ DocumentOnce(policy, t).out = t
    BY <2>10, <2>11, <2>12, <2>14, <2>15
  <2>17. QED BY <2>5, <2>13, <2>16 DEF OnceKeeps
<1>3. QED BY <1>1, <1>2

(* By induction over the length of a text: the second pass format_sql      *)
(* makes over its own output accepts it and changes nothing, whatever      *)
(* payloads the text has and however the lines were spelt.                 *)
LEMMA OnceSettles ==
  ASSUME NEW policy, NEW r \in Seq(Kind), DocumentOnce(policy, r).ok
  PROVE  OnceKeeps(policy, r)
<1> DEFINE Bad == {s \in Seq(Kind) : DocumentOnce(policy, s).ok /\ ~ OnceKeeps(policy, s)}
           L   == {Len(s) : s \in Bad}
<1> SUFFICES ASSUME Bad # {} PROVE FALSE
  OBVIOUS
<1>1. L \in SUBSET Nat /\ L # {}
  <2>1. \A s \in Bad : Len(s) \in Nat
    OBVIOUS
  <2> HIDE DEF Bad
  <2>2. QED BY <2>1
<1>2. PICK k \in L : \A j \in L : k <= j
  <2> HIDE DEF L
  <2>1. QED BY <1>1, LeastNatural
<1>3. PICK q \in Bad : Len(q) = k
  OBVIOUS
<1>4. q \in Seq(Kind) /\ DocumentOnce(policy, q).ok /\ ~ OnceKeeps(policy, q) /\ Len(q) \in Nat
  BY <1>3
<1>5. ASSUME NEW s \in Seq(Kind), Len(s) < Len(q), DocumentOnce(policy, s).ok PROVE OnceKeeps(policy, s)
  <2>1. Len(s) \in Nat /\ ~ (k <= Len(s))
    <3> HIDE DEF L, Bad
    <3>1. QED BY <1>3, <1>4, <1>5
  <2>2. s \notin Bad
    <3> HIDE DEF Bad
    <3>1. Len(s) \notin L
      BY <1>2, <2>1
    <3>2. QED BY <3>1
  <2>3. QED BY <1>5, <2>2
<1> HIDE DEF Bad, L
<1>6. QED BY <1>4, <1>5, OnceSettlesStep

-----------------------------------------------------------------------------
(***************************************************************************)
(* psql's reading of the document, line by line.                           *)
(***************************************************************************)
(* What data is at line l, in terms of what it is at earlier lines. *)
ReadingBody(data, l) ==
  CASE l = 0 \/ (l > 0 /\ doc[l] \in Directives) -> FALSE
    [] l > 0 /\ doc[l] \notin Directives /\ data[l - 1] -> doc[l] # "end"
    [] OTHER -> /\ doc[l] \in {"copy", "COPY"} /\ StartsHere(l, data)
                /\ \E e \in RegionOf(l) : l < e /\ doc[e] = "end"

(* The lines before l that are SQL, and the last of them. *)
TextBefore(l) == {k \in RegionOf(l) : k < l /\ doc[k] \notin Gap}
LastBefore(l) == CHOOSE k \in TextBefore(l) : \A m \in TextBefore(l) : m <= k

(* Whether a statement starts at l, by the last line before it.            *)
LEMMA StartsByLast ==
  ASSUME NEW l, NEW data
  PROVE  StartsHere(l, data) <=> TextBefore(l) = {} \/ doc[LastBefore(l)] \in Statement \/ data[LastBefore(l) - 1]
BY DEF StartsHere, TextBefore, LastBefore

(* That last line is one of those before l.                                *)
LEMMA LastIsBefore ==
  ASSUME doc \in Seq(Line), NEW l \in 0 .. Len(doc), TextBefore(l) # {}
  PROVE  /\ LastBefore(l) \in TextBefore(l) /\ \A m \in TextBefore(l) : m <= LastBefore(l)
         /\ LastBefore(l) \in 1 .. Len(doc) /\ LastBefore(l) < l
<1>1. Len(doc) \in Nat /\ DOMAIN doc = 1 .. Len(doc)
  OBVIOUS
<1>2. TextBefore(l) \in SUBSET (0 .. Len(doc)) /\ \A k \in TextBefore(l) : k \in 1 .. Len(doc) /\ k < l
  BY <1>1 DEF TextBefore, RegionOf
<1>3. \E m \in TextBefore(l) : \A k \in TextBefore(l) : k <= m
  BY <1>1, <1>2, GreatestNatural
<1>4. LastBefore(l) \in TextBefore(l) /\ \A m \in TextBefore(l) : m <= LastBefore(l)
  BY <1>3 DEF LastBefore
<1>5. QED BY <1>2, <1>4

(* Two readings of the lines before l that agree. *)
Agree(f, g, l) == \A k \in 0 .. l - 1 : f[k] = g[k]

(* The reading of a line depends on earlier lines only.                    *)
LEMMA ReadingLooksBack ==
  ASSUME doc \in Seq(Line), NEW f, NEW g, NEW l \in 0 .. Len(doc), Agree(f, g, l)
  PROVE  ReadingBody(f, l) = ReadingBody(g, l)
<1>1. Len(doc) \in Nat
  OBVIOUS
<1>2. l > 0 => f[l - 1] = g[l - 1]
  BY <1>1 DEF Agree
<1>3. StartsHere(l, f) <=> StartsHere(l, g)
  <2>1. CASE TextBefore(l) = {}
    BY <2>1, StartsByLast
  <2>2. CASE TextBefore(l) # {}
    <3>1. PICK k : k = LastBefore(l)
      OBVIOUS
    <3>2. k \in 1 .. Len(doc) /\ k < l
      BY <2>2, <3>1, LastIsBefore
    <3>3. k - 1 \in 0 .. l - 1
      BY <1>1, <3>2
    <3>4. f[k - 1] = g[k - 1]
      BY <3>3 DEF Agree
    <3>5. QED BY <3>1, <3>4, StartsByLast
  <2>3. QED BY <2>1, <2>2
<1>4. QED BY <1>2, <1>3 DEF ReadingBody

(* The reading of a line is a truth value.                                 *)
LEMMA ReadingIsBoolean ==
  ASSUME NEW f, NEW l
  PROVE  ReadingBody(f, l) \in BOOLEAN
BY DEF ReadingBody

(* There is a function that reads every line this way.                     *)
LEMMA ReadingExists ==
  ASSUME doc \in Seq(Line)
  PROVE  \E f : f = [l \in 0 .. Len(doc) |-> ReadingBody(f, l)]
<1> DEFINE n    == Len(doc)
           S    == [0 .. n -> BOOLEAN]
           base == [k \in 0 .. n |-> FALSE]
           step == [i \in 1 .. n |-> [g \in S |-> [g EXCEPT ![i] = ReadingBody(g, i)]]]
<1>1. n \in Nat
  OBVIOUS
<1>2. ASSUME NEW i \in 1 .. n, NEW g \in S PROVE [g EXCEPT ![i] = ReadingBody(g, i)] \in S
  <2>1. PICK b : b = ReadingBody(g, i)
    OBVIOUS
  <2>2. b \in BOOLEAN
    BY <2>1, ReadingIsBoolean
  <2>3. [g EXCEPT ![i] = b] \in S
    BY <2>2
  <2>4. QED BY <2>1, <2>3
<1>3. Recursion(n, S, base, step)
  <2>1. step \in [1 .. n -> [S -> S]]
    <3> HIDE DEF S, n
    <3>1. QED BY <1>2
  <2>2. base \in S
    OBVIOUS
  <2> HIDE DEF step, base, S, n
  <2>3. QED BY <1>1, <2>1, <2>2 DEF Recursion
<1>4. PICK G : Solves(G, n, S, base, step)
  <2> HIDE DEF step, base, S, n
  <2>1. QED BY <1>3, RecursionExists
<1>5. /\ \A i \in 0 .. n : G[i] \in S
      /\ \A i \in 1 .. n : G[i] = step[i][G[i - 1]]
  <2> HIDE DEF step, base, S, n
  <2>1. QED BY <1>4 DEF Solves
<1>6. G[0] = base
  <2> HIDE DEF step, base, S, n
  <2>1. QED BY <1>4 DEF Solves
<1>7. ASSUME NEW i \in 1 .. n
      PROVE  /\ G[i][i] = ReadingBody(G[i - 1], i)
             /\ \A k \in 0 .. n : k # i => G[i][k] = G[i - 1][k]
  <2>1. i - 1 \in 0 .. n /\ i \in 0 .. n
    BY <1>1
  <2>2. PICK g : g = G[i - 1]
    OBVIOUS
  <2>3. g \in S
    <3> HIDE DEF S, n
    <3>1. QED BY <1>5, <2>1, <2>2
  <2>4. step[i][g] = [g EXCEPT ![i] = ReadingBody(g, i)]
    <3> HIDE DEF S, n
    <3>1. QED BY <2>3
  <2>5. G[i] = [g EXCEPT ![i] = ReadingBody(g, i)]
    <3> HIDE DEF step, S, n
    <3>1. QED BY <1>5, <2>2, <2>4
  <2>6. QED BY <2>1, <2>2, <2>3, <2>5
<1> DEFINE f == [l \in 0 .. n |-> G[l][l]]
           T == {m \in 0 .. n : \A k \in 0 .. m : G[m][k] = f[k]}
<1>8. 0 \in T
  BY <1>1
<1>9. ASSUME NEW m \in 0 .. n - 1, m \in T PROVE m + 1 \in T
  <2>1. m + 1 \in 1 .. n /\ (m + 1) - 1 = m /\ m + 1 \in 0 .. n
    BY <1>1
  <2>2. ASSUME NEW k \in 0 .. m + 1 PROVE G[m + 1][k] = f[k]
    <3>1. k \in 0 .. n
      BY <1>1
    <3>2. CASE k = m + 1
      BY <3>1, <3>2
    <3>3. CASE k # m + 1
      <4>1. k \in 0 .. m
        BY <1>1, <3>3
      <4>2. G[m][k] = f[k]
        BY <1>9, <4>1
      <4>3. G[m + 1][k] = G[m][k]
        <5> HIDE DEF n
        <5>1. QED BY <1>7, <2>1, <3>1, <3>3
      <4>4. QED BY <4>2, <4>3
    <3>4. QED BY <3>2, <3>3
  <2> HIDE DEF f
  <2>3. QED BY <2>1, <2>2
<1>10. \A m \in 0 .. n : m \in T
  <2> HIDE DEF T, n
  <2>1. 0 .. n \subseteq T
    BY <1>1, <1>8, <1>9, Ascent
  <2>2. QED BY <2>1
<1>11. ASSUME NEW l \in 0 .. n PROVE f[l] = ReadingBody(f, l)
  <2>1. CASE l = 0
    <3>1. f[0] = FALSE
      BY <1>1, <1>6
    <3>2. ReadingBody(f, 0) = FALSE
      <4> HIDE DEF f
      <4>1. QED BY DEF ReadingBody
    <3>3. QED BY <2>1, <3>1, <3>2
  <2>2. CASE l # 0
    <3>1. l \in 1 .. n /\ l - 1 \in 0 .. n
      BY <1>1, <2>2
    <3>2. f[l] = ReadingBody(G[l - 1], l)
      BY <1>7, <3>1
    <3>3. Agree(G[l - 1], f, l)
      BY <1>10, <3>1 DEF Agree
    <3>4. ReadingBody(G[l - 1], l) = ReadingBody(f, l)
      <4> HIDE DEF f
      <4>1. QED BY <3>3, ReadingLooksBack
    <3>5. QED BY <3>2, <3>4
  <2>3. QED BY <2>1, <2>2
<1>12. f = [l \in 0 .. n |-> f[l]]
  OBVIOUS
<1> HIDE DEF f
<1>13. f = [l \in 0 .. n |-> ReadingBody(f, l)]
  BY <1>11, <1>12
<1>14. QED BY <1>13

(* The recursive function of the reading is the one its equation describes. *)
LEMMA ReadingDefined ==
  ASSUME doc \in Seq(Line)
  PROVE  \A l \in 0 .. Len(doc) : ReadingData[l] \in BOOLEAN /\ ReadingData[l] = ReadingBody(ReadingData, l)
<1> DEFINE R(f) == f = [l \in 0 .. Len(doc) |-> ReadingBody(f, l)]
<1>1. ReadingData = CHOOSE f : R(f)
  BY DEF ReadingData, ReadingBody
<1>2. \E f : R(f)
  BY ReadingExists
<1>3. R(ReadingData)
  <2> HIDE DEF R
  <2>1. QED BY <1>1, <1>2
<1>4. PICK d : d = ReadingData
  OBVIOUS
<1>5. d = [l \in 0 .. Len(doc) |-> ReadingBody(d, l)]
  BY <1>3, <1>4
<1>6. \A l \in 0 .. Len(doc) : d[l] = ReadingBody(d, l)
  BY <1>5
<1>7. QED BY <1>4, <1>6, ReadingIsBoolean

(* Lines a to z are a region: no directive among them, and one, or an end  *)
(* of the document, on either side.                                        *)
Region(a, z) ==
  /\ a \in 1 .. Len(doc) + 1 /\ z \in a - 1 .. Len(doc)
  /\ \A l \in a .. z : doc[l] \notin Directives
  /\ a = 1 \/ doc[a - 1] \in Directives
  /\ z = Len(doc) \/ doc[z + 1] \in Directives

(* The lines of a region are lines of the document.                        *)
LEMMA RegionBounds ==
  ASSUME doc \in Seq(Line), NEW a, NEW z, Region(a, z)
  PROVE  /\ DOMAIN doc = 1 .. Len(doc) /\ Len(doc) \in Nat /\ a \in Nat /\ z \in Nat
         /\ 1 <= a /\ a - 1 <= z /\ z <= Len(doc)
BY DEF Region

(* The region of each of its lines.                                        *)
LEMMA RegionLines ==
  ASSUME doc \in Seq(Line), NEW a, NEW z, Region(a, z), NEW l \in a .. z
  PROVE  RegionOf(l) = a .. z
<1>1. DOMAIN doc = 1 .. Len(doc) /\ Len(doc) \in Nat /\ a \in Nat /\ z \in Nat /\ 1 <= a /\ a - 1 <= z /\ z <= Len(doc)
  BY RegionBounds
<1>2. ASSUME NEW i \in a .. z PROVE i \in RegionOf(l)
  <2>1. \A k \in DOMAIN doc : ((i <= k /\ k <= l) \/ (l <= k /\ k <= i)) => k \in a .. z
    BY <1>1
  <2>2. SameRegion(i, l)
    BY <2>1 DEF SameRegion, Region
  <2>3. i \in DOMAIN doc
    BY <1>1
  <2>4. QED BY <2>2, <2>3 DEF RegionOf
<1>3. ASSUME NEW i \in RegionOf(l) PROVE i \in a .. z
  <2>1. i \in 1 .. Len(doc) /\ \A k \in 1 .. Len(doc) : ((i <= k /\ k <= l) \/ (l <= k /\ k <= i)) => doc[k] \notin Directives
    BY <1>1 DEF RegionOf, SameRegion
  <2>2. ~ (i < a)
    <3>1. SUFFICES ASSUME i < a PROVE FALSE
      OBVIOUS
    <3>2. PICK k : k = a - 1
      OBVIOUS
    <3>3. k \in 1 .. Len(doc) /\ i <= k /\ k <= l /\ a # 1
      BY <1>1, <2>1, <3>1, <3>2
    <3>4. QED BY <2>1, <3>2, <3>3 DEF Region
  <2>3. ~ (z < i)
    <3>1. SUFFICES ASSUME z < i PROVE FALSE
      OBVIOUS
    <3>2. PICK k : k = z + 1
      OBVIOUS
    <3>3. i \in 1 .. Len(doc) /\ l \in a .. z
      BY <2>1
    <3>6. PICK n : n = Len(doc)
      OBVIOUS
    <3>7. n \in Nat /\ a \in Nat /\ z \in Nat /\ i \in 1 .. n /\ l \in a .. z /\ z < i /\ k = z + 1
      BY <1>1, <3>1, <3>2, <3>3, <3>6
    <3>8. k \in 1 .. n /\ l <= k /\ k <= i /\ z # n
      BY <3>7
    <3>4. k \in 1 .. Len(doc) /\ l <= k /\ k <= i /\ z # Len(doc)
      BY <3>6, <3>8
    <3>5. QED BY <2>1, <3>2, <3>4 DEF Region
  <2>4. QED BY <1>1, <2>1, <2>2, <2>3
<1>4. QED BY <1>2, <1>3

(* Line s starts the region, or follows the end of a payload in it. *)
Stands(s, a, z) ==
  /\ s \in a .. z + 1 /\ ~ ReadingData[s - 1]
  /\ s = a \/ (s - 1 \in a .. z /\ doc[s - 1] = "end" /\ ReadingData[s - 2])

(* The reading may start at the first line of a region.                    *)
LEMMA RegionStands ==
  ASSUME doc \in Seq(Line), NEW a, NEW z, Region(a, z)
  PROVE  Stands(a, a, z)
<1>1. DOMAIN doc = 1 .. Len(doc) /\ Len(doc) \in Nat /\ a \in Nat /\ z \in Nat /\ 1 <= a /\ a - 1 <= z /\ z <= Len(doc)
  BY RegionBounds
<1>2. PICK p : p = a - 1
  OBVIOUS
<1>3. p \in 0 .. Len(doc) /\ a \in a .. z + 1
  BY <1>1, <1>2
<1>4. p = 0 \/ (p > 0 /\ doc[p] \in Directives)
  <2>1. a = 1 \/ doc[p] \in Directives
    BY <1>2 DEF Region
  <2>2. (a = 1 => p = 0) /\ (a # 1 => p > 0)
    BY <1>1, <1>2
  <2>3. QED BY <2>1, <2>2
<1>5. ReadingData[p] = ReadingBody(ReadingData, p)
  BY <1>3, ReadingDefined
<1>6. ReadingBody(ReadingData, p) = FALSE
  BY <1>4 DEF ReadingBody
<1>7. QED BY <1>2, <1>3, <1>5, <1>6 DEF Stands

(* The text from such a line on, place by place. *)
TextFrom(r, s, z) ==
  /\ Len(r) = z - s + 1 /\ DOMAIN r = 1 .. z - s + 1 /\ s \in Nat \ {0} /\ z \in Nat /\ s <= z + 1
  /\ \A i \in 1 .. z - s + 1 : r[i] = doc[s - 1 + i] /\ s - 1 + i \in s .. z
  /\ \A l \in s .. z : r[l - s + 1] = doc[l] /\ l - s + 1 \in 1 .. z - s + 1

(* Lines s to y as a text.                                                 *)
LEMMA TextFromIs ==
  ASSUME Composed, doc \in Seq(Line), NEW a, NEW z, Region(a, z), NEW s \in a .. z + 1, NEW y \in s - 1 .. z
  PROVE  Text(s, y) \in Seq(Kind) /\ TextFrom(Text(s, y), s, y)
<1>1. DOMAIN doc = 1 .. Len(doc) /\ Len(doc) \in Nat /\ a \in Nat /\ z \in Nat /\ 1 <= a /\ a - 1 <= z /\ z <= Len(doc)
  BY RegionBounds
<1>2. s \in 1 .. Len(doc) + 1 /\ y \in s - 1 .. Len(doc) /\ s \in Nat /\ y \in Nat /\ y - s + 1 \in Nat
  BY <1>1
<1>3. PICK r : r = Text(s, y)
  OBVIOUS
<1>4. r \in Seq(Line) /\ Len(r) = y - s + 1 /\ \A l \in s .. y : r[l - s + 1] = doc[l]
  BY <1>2, <1>3, TextLines
<1>5. DOMAIN r = 1 .. y - s + 1
  BY <1>2, <1>4
<1>6. ASSUME NEW i \in 1 .. y - s + 1 PROVE r[i] = doc[s - 1 + i] /\ s - 1 + i \in s .. y /\ r[i] \in Kind
  <2>1. PICK l : l = s - 1 + i
    OBVIOUS
  <2>2. l \in s .. y /\ l - s + 1 = i /\ l \in a .. z /\ l \in 1 .. Len(doc)
    BY <1>1, <1>2, <2>1
  <2>3. doc[l] \in Line /\ doc[l] \notin Directives
    BY <2>2 DEF Region
  <2>4. doc[l] \in Kind
    BY <2>3 DEF Composed, SqlLine
  <2>5. QED BY <1>4, <2>1, <2>2, <2>4
<1>7. r \in Seq(Kind)
  BY <1>4, <1>6, <1>2
<1>8. ASSUME NEW l \in s .. y PROVE r[l - s + 1] = doc[l] /\ l - s + 1 \in 1 .. y - s + 1
  BY <1>2, <1>4
<1>9. QED BY <1>2, <1>3, <1>4, <1>5, <1>6, <1>7, <1>8 DEF TextFrom

(* When no payload reaches to before line l, the line starts a statement   *)
(* of the whole region exactly when it does in the text from s on.         *)
LEMMA StartsAlike ==
  ASSUME Composed, doc \in Seq(Line), NEW a, NEW z, Region(a, z), NEW s, Stands(s, a, z),
         NEW r, TextFrom(r, s, z), NEW l \in s .. z, \A m \in s - 1 .. l - 1 : ~ ReadingData[m]
  PROVE  StartsHere(l, ReadingData) <=> StartsStatement(r, l - s + 1)
<1>1. DOMAIN doc = 1 .. Len(doc) /\ Len(doc) \in Nat /\ a \in Nat /\ z \in Nat /\ 1 <= a /\ a - 1 <= z /\ z <= Len(doc)
  BY RegionBounds
<1>2. s \in a .. z + 1 /\ s \in Nat /\ l \in Nat /\ l \in a .. z /\ s <= l /\ l \in 0 .. Len(doc)
  BY <1>1 DEF Stands
<1>3. TextBefore(l) = {k \in a .. l - 1 : doc[k] \notin Gap}
  <2>1. RegionOf(l) = a .. z
    BY <1>2, RegionLines
  <2>2. \A k \in a .. z : k < l <=> k \in a .. l - 1
    BY <1>1, <1>2
  <2>3. \A k \in a .. l - 1 : k \in a .. z /\ k < l
    BY <1>1, <1>2
  <2>4. QED BY <2>1, <2>2, <2>3 DEF TextBefore
<1>4. \A i \in 1 .. l - s : r[i] = doc[s - 1 + i] /\ s - 1 + i \in s .. l - 1
  <2>1. \A i \in 1 .. l - s : i \in 1 .. z - s + 1 /\ s - 1 + i \in s .. l - 1
    BY <1>1, <1>2
  <2>2. QED BY <2>1 DEF TextFrom
<1>5. (l - s + 1) - 1 = l - s
  BY <1>2
<1>6. CASE \E k \in s .. l - 1 : doc[k] \notin Gap
  <2>1. PICK k0 \in s .. l - 1 : doc[k0] \notin Gap
    BY <1>6
  <2>2. k0 \in TextBefore(l)
    <3>1. k0 \in a .. l - 1
      BY <1>1, <1>2
    <3>2. QED BY <1>3, <2>1, <3>1
  <2>3. PICK k : k = LastBefore(l)
    OBVIOUS
  <2>4. k \in TextBefore(l) /\ \A m \in TextBefore(l) : m <= k
    BY <1>2, <2>2, <2>3, LastIsBefore
  <2>5. k \in s .. l - 1 /\ doc[k] \notin Gap /\ k - 1 \in s - 1 .. l - 1
    <3>1. k \in a .. l - 1 /\ doc[k] \notin Gap /\ k0 <= k
      BY <1>3, <2>2, <2>4
    <3>2. QED BY <1>1, <1>2, <3>1
  <2>6. StartsHere(l, ReadingData) <=> doc[k] \in Statement
    BY <2>2, <2>3, <2>5, StartsByLast
  <2>7. PICK j : j = k - s + 1
    OBVIOUS
  <2>8. j \in 1 .. l - s /\ s - 1 + j = k /\ r[j] = doc[k]
    BY <1>2, <1>4, <2>5, <2>7
  <2>9. ASSUME NEW i \in j + 1 .. l - s PROVE r[i] \in Gap
    <3>1. i \in 1 .. l - s /\ s - 1 + i > k /\ s - 1 + i \in a .. l - 1
      BY <1>1, <1>2, <2>5, <2>8
    <3>2. s - 1 + i \notin TextBefore(l)
      BY <2>4, <2>5, <3>1
    <3>3. doc[s - 1 + i] \in Gap
      BY <1>3, <3>1, <3>2
    <3>4. QED BY <1>4, <3>1, <3>3
  <2>10. StartsStatement(r, l - s + 1) => doc[k] \in Statement
    <3>1. SUFFICES ASSUME StartsStatement(r, l - s + 1) PROVE doc[k] \in Statement
      OBVIOUS
    <3>2. r[j] \in Gap \cup Statement
      BY <1>5, <2>8, <2>9, <3>1 DEF StartsStatement
    <3>3. QED BY <2>5, <2>8, <3>2
  <2>11. doc[k] \in Statement => StartsStatement(r, l - s + 1)
    <3>1. SUFFICES ASSUME doc[k] \in Statement, NEW i \in 1 .. l - s, \A m \in i + 1 .. l - s : r[m] \in Gap
                   PROVE  r[i] \in Gap \cup Statement
      BY <1>5 DEF StartsStatement
    <3>2. CASE i = j
      BY <2>8, <3>1, <3>2
    <3>3. CASE i > j
      <4>1. i \in j + 1 .. l - s
        BY <1>2, <2>8, <3>3
      <4>2. QED BY <2>9, <4>1
    <3>4. CASE i < j
      <4>1. j \in i + 1 .. l - s
        BY <1>2, <2>8, <3>4
      <4>2. QED BY <2>5, <2>8, <3>1, <4>1
    <3>5. i \in Int /\ j \in Int
      BY <2>8
    <3>6. QED BY <3>2, <3>3, <3>4, <3>5
  <2>12. QED BY <2>6, <2>10, <2>11
<1>7. CASE \A k \in s .. l - 1 : doc[k] \in Gap
  <2>1. StartsStatement(r, l - s + 1)
    BY <1>4, <1>5, <1>7 DEF StartsStatement
  <2>2. StartsHere(l, ReadingData)
    <3>1. CASE s = a
      <4>1. TextBefore(l) = {}
        BY <1>3, <1>7, <3>1
      <4>2. QED BY <4>1, StartsByLast
    <3>2. CASE s # a
      <4>1. s - 1 \in a .. z /\ doc[s - 1] = "end" /\ ReadingData[s - 2]
        BY <3>2 DEF Stands
      <4>2. s - 1 \in a .. l - 1 /\ "end" \notin Gap
        BY <1>1, <1>2, <4>1 DEF Gap
      <4>3. s - 1 \in TextBefore(l)
        BY <1>3, <4>1, <4>2
      <4>4. PICK k : k = LastBefore(l)
        OBVIOUS
      <4>5. k \in TextBefore(l) /\ s - 1 <= k
        BY <1>2, <4>3, <4>4, LastIsBefore
      <4>6. k = s - 1
        <5>1. k \in a .. l - 1 /\ doc[k] \notin Gap
          BY <1>3, <4>5
        <5>2. k \notin s .. l - 1
          BY <1>7, <5>1
        <5>3. QED BY <1>1, <1>2, <4>5, <5>1, <5>2
      <4>7. ReadingData[k - 1]
        <5>1. k - 1 = s - 2
          BY <1>2, <4>6
        <5>2. QED BY <4>1, <5>1
      <4>8. QED BY <4>4, <4>7, StartsByLast
    <3>3. QED BY <3>1, <3>2
  <2>3. QED BY <2>1, <2>2
<1>8. QED BY <1>6, <1>7

(* ... so data begins behind l exactly when the line is a header there. *)
LEMMA DataBegins ==
  ASSUME Composed, doc \in Seq(Line), NEW a, NEW z, Region(a, z), NEW s, Stands(s, a, z),
         NEW r, TextFrom(r, s, z), NEW l \in s .. z, \A m \in s - 1 .. l - 1 : ~ ReadingData[m]
  PROVE  ReadingData[l] <=> HasPayload(r, l - s + 1)
<1>1. DOMAIN doc = 1 .. Len(doc) /\ Len(doc) \in Nat /\ a \in Nat /\ z \in Nat /\ 1 <= a /\ a - 1 <= z /\ z <= Len(doc)
  BY RegionBounds
<1>2. s \in a .. z + 1 /\ s \in Nat /\ l \in Nat /\ l \in a .. z /\ s <= l /\ l \in 0 .. Len(doc) /\ l > 0
  BY <1>1 DEF Stands
<1>3. ReadingData[l] = ReadingBody(ReadingData, l)
  BY <1>2, ReadingDefined
<1>4. doc[l] \notin Directives
  BY <1>2 DEF Region
<1>5. ~ ReadingData[l - 1]
  <2>1. l - 1 \in s - 1 .. l - 1
    BY <1>2
  <2>2. QED BY <2>1
<1>6. RegionOf(l) = a .. z
  BY <1>2, RegionLines
<1>7. ReadingBody(ReadingData, l) <=> /\ doc[l] \in {"copy", "COPY"} /\ StartsHere(l, ReadingData)
                                     /\ \E e \in a .. z : l < e /\ doc[e] = "end"
  BY <1>2, <1>4, <1>5, <1>6 DEF ReadingBody
<1>8. (\E e \in a .. z : l < e /\ doc[e] = "end") <=> EndsAfter(r, l - s + 1) # {}
  <2>1. ASSUME NEW e \in a .. z, l < e, doc[e] = "end" PROVE e - s + 1 \in EndsAfter(r, l - s + 1)
    <3>1. e \in s .. z /\ e - s + 1 > l - s + 1
      BY <1>1, <1>2, <2>1
    <3>2. r[e - s + 1] = doc[e] /\ e - s + 1 \in DOMAIN r
      BY <3>1 DEF TextFrom
    <3>3. QED BY <2>1, <3>1, <3>2 DEF EndsAfter
  <2>2. ASSUME NEW j \in EndsAfter(r, l - s + 1) PROVE \E e \in a .. z : l < e /\ doc[e] = "end"
    <3>1. j \in 1 .. z - s + 1 /\ j > l - s + 1 /\ r[j] = "end"
      BY <2>2 DEF EndsAfter, TextFrom
    <3>2. r[j] = doc[s - 1 + j] /\ s - 1 + j \in s .. z
      BY <3>1 DEF TextFrom
    <3>3. s - 1 + j \in a .. z /\ l < s - 1 + j
      BY <1>1, <1>2, <3>1, <3>2
    <3>4. QED BY <3>1, <3>2, <3>3
  <2>3. QED BY <2>1, <2>2
<1>9. r[l - s + 1] = doc[l]
  BY DEF TextFrom
<1>10. StartsHere(l, ReadingData) <=> StartsStatement(r, l - s + 1)
  BY StartsAlike
<1>11. QED BY <1>3, <1>7, <1>8, <1>9, <1>10 DEF HasPayload

(* Where the reading of the region from line s on meets its first payload. *)
NoData(s, y) == \A m \in s - 1 .. y : ~ ReadingData[m]

(* The region formatter's first payload is where psql's reading of the     *)
(* document first meets data: header, data and end are at the same lines.  *)
LEMMA ReadOn ==
  ASSUME Composed, doc \in Seq(Line), NEW a, NEW z, Region(a, z), NEW s, Stands(s, a, z),
         NEW r \in Seq(Kind), TextFrom(r, s, z)
  PROVE  /\ Headers(r) = {} => NoData(s, z)
         /\ Headers(r) # {} => LET h == s - 1 + Header(r)
                                   e == s - 1 + PayloadEnd(r)
                               IN  /\ NoData(s, h - 1)
                                   /\ \A m \in h .. e - 1 : ReadingData[m]
                                   /\ ~ ReadingData[e]
<1>1. DOMAIN doc = 1 .. Len(doc) /\ Len(doc) \in Nat /\ a \in Nat /\ z \in Nat /\ 1 <= a /\ a - 1 <= z /\ z <= Len(doc)
  BY RegionBounds
<1>2. s \in a .. z + 1 /\ s \in Nat /\ ~ ReadingData[s - 1]
  BY <1>1 DEF Stands
<1>3. DOMAIN r = 1 .. z - s + 1
  BY DEF TextFrom
<1>4. ASSUME NoData(s, z), Headers(r) # {} PROVE FALSE
  <2>1. PICK i \in 1 .. z - s + 1 : HasPayload(r, i)
    BY <1>3, <1>4 DEF Headers
  <2>2. PICK l : l = s - 1 + i
    OBVIOUS
  <2>3. l \in s .. z /\ l - s + 1 = i /\ l \in s - 1 .. z
    BY <1>1, <1>2, <2>1, <2>2
  <2>4. \A m \in s - 1 .. l - 1 : ~ ReadingData[m]
    <3>1. \A m \in s - 1 .. l - 1 : m \in s - 1 .. z
      BY <1>1, <1>2, <2>3
    <3>2. QED BY <1>4, <3>1 DEF NoData
  <2>5. ReadingData[l]
    BY <2>1, <2>3, <2>4, DataBegins
  <2>6. QED BY <1>4, <2>3, <2>5 DEF NoData
<1>5. ASSUME ~ NoData(s, z)
      PROVE  \E h \in s .. z : ReadingData[h] /\ NoData(s, h - 1)
  <2> DEFINE T == {m \in s .. z : ReadingData[m]}
  <2>1. T \in SUBSET Nat
    BY <1>1, <1>2
  <2>2. T # {}
    <3>1. PICK m \in s - 1 .. z : ReadingData[m]
      BY <1>5 DEF NoData
    <3>2. m # s - 1
      BY <1>2, <3>1
    <3>3. m \in s .. z
      BY <1>1, <1>2, <3>2
    <3>4. QED BY <3>1, <3>3
  <2>3. PICK h \in T : \A k \in T : h <= k
    <3> HIDE DEF T
    <3>1. QED BY <2>1, <2>2, LeastNatural
  <2>4. ASSUME NEW m \in s - 1 .. h - 1 PROVE ~ ReadingData[m]
    <3>1. h \in s .. z
      BY <2>3
    <3>2. m = s - 1 \/ (m \in s .. z /\ ~ (h <= m))
      BY <1>1, <1>2, <3>1
    <3>3. CASE m = s - 1
      BY <1>2, <3>3
    <3>4. CASE m \in s .. z /\ ~ (h <= m)
      <4>1. m \notin T
        BY <2>3, <3>4
      <4>2. QED BY <3>4, <4>1
    <3>5. QED BY <3>2, <3>3, <3>4
  <2>5. QED BY <2>3, <2>4 DEF NoData
<1>6. ASSUME ~ NoData(s, z)
      PROVE  /\ Headers(r) # {}
             /\ LET h == s - 1 + Header(r)
                    e == s - 1 + PayloadEnd(r)
                IN  /\ NoData(s, h - 1) /\ \A m \in h .. e - 1 : ReadingData[m]
                    /\ ~ ReadingData[e]
  <2>1. PICK h \in s .. z : ReadingData[h] /\ NoData(s, h - 1)
    BY <1>5, <1>6
  <2>2. HasPayload(r, h - s + 1)
    BY <2>1, DataBegins DEF NoData
  <2>3. h - s + 1 \in 1 .. z - s + 1 /\ h \in Nat
    BY <1>1, <1>2
  <2>4. h - s + 1 \in Headers(r)
    BY <1>3, <2>2, <2>3 DEF Headers
  <2>5. PICK i : i = Header(r)
    OBVIOUS
  <2>6. i \in Headers(r) /\ i <= h - s + 1
    <3>1. Headers(r) \in SUBSET Nat
      BY <1>3 DEF Headers
    <3>2. QED BY <2>4, <2>5, <3>1, LeastChosen DEF Header, Least
  <2>7. i \in 1 .. z - s + 1 /\ HasPayload(r, i)
    BY <1>3, <2>6 DEF Headers
  <2>8. i = h - s + 1
    <3>1. SUFFICES ASSUME i < h - s + 1 PROVE FALSE
      BY <2>3, <2>6, <2>7
    <3>2. PICK l : l = s - 1 + i
      OBVIOUS
    <3>3. l \in s .. z /\ l - s + 1 = i /\ l \in s - 1 .. h - 1
      BY <1>1, <1>2, <2>3, <2>7, <3>1, <3>2
    <3>4. \A m \in s - 1 .. l - 1 : m \in s - 1 .. h - 1
      BY <1>1, <1>2, <2>3, <3>3
    <3>5. ReadingData[l]
      BY <2>1, <2>7, <3>3, <3>4, DataBegins DEF NoData
    <3>6. QED BY <2>1, <3>3, <3>5 DEF NoData
  <2>9. s - 1 + i = h
    BY <1>2, <2>3, <2>8
  <2>10. PICK q, e : q = PayloadEnd(r) /\ e = s - 1 + q
    OBVIOUS
  <2>11. q \in i + 1 .. z - s + 1 /\ r[q] = "end" /\ \A j \in i + 1 .. q - 1 : r[j] # "end"
    <3>1. Len(r) = z - s + 1
      BY DEF TextFrom
    <3>2. q \in i + 1 .. z - s + 1 /\ r[q] = "end"
      BY <2>4, <2>5, <2>10, <3>1, HeaderInRegion
    <3>3. EndsAfter(r, i) \in SUBSET Nat /\ EndsAfter(r, i) # {}
      BY <1>3, <2>7 DEF EndsAfter, HasPayload
    <3>4. \A j \in EndsAfter(r, i) : q <= j
      BY <2>5, <2>10, <3>3, LeastChosen DEF PayloadEnd, Least
    <3>5. ASSUME NEW j \in i + 1 .. q - 1, r[j] = "end" PROVE FALSE
      <4>1. j \in 1 .. z - s + 1 /\ j > i /\ ~ (q <= j)
        BY <1>1, <1>2, <2>7, <3>2
      <4>2. j \in EndsAfter(r, i)
        BY <1>3, <3>5, <4>1 DEF EndsAfter
      <4>3. QED BY <3>4, <4>1, <4>2
    <3>6. QED BY <3>2, <3>5
  <2>12. e \in h + 1 .. z /\ e \in Nat /\ doc[e] = "end" /\ \A l \in h + 1 .. e - 1 : doc[l] # "end"
    <3>1. e \in h + 1 .. z /\ e \in Nat
      BY <1>1, <1>2, <2>7, <2>9, <2>10, <2>11
    <3>2. doc[e] = "end"
      <4>1. q \in 1 .. z - s + 1
        BY <2>7, <2>11
      <4>2. QED BY <2>10, <2>11, <4>1 DEF TextFrom
    <3>3. ASSUME NEW l \in h + 1 .. e - 1 PROVE doc[l] # "end"
      <4>1. l - s + 1 \in i + 1 .. q - 1 /\ l \in s .. z
        <5>1. q \in i + 1 .. z - s + 1 /\ i \in 1 .. z - s + 1
          BY <2>7, <2>11
        <5>2. l \in s .. z
          BY <1>1, <1>2, <2>3, <3>1
        <5>3. i \in Nat /\ q \in Nat /\ s \in Nat /\ h \in Nat /\ l \in Nat /\ l >= h + 1 /\ l <= e - 1 /\ e = s - 1 + q /\ s - 1 + i = h
          BY <1>1, <1>2, <2>3, <2>9, <2>10, <3>1, <5>1
        <5>4. l - s + 1 >= i + 1 /\ l - s + 1 <= q - 1 /\ l - s + 1 \in Int
          BY <5>3
        <5>5. QED BY <5>1, <5>2, <5>3, <5>4
      <4>2. r[l - s + 1] = doc[l]
        BY <4>1 DEF TextFrom
      <4>3. QED BY <2>11, <4>1, <4>2
    <3>4. QED BY <3>1, <3>2, <3>3
  <2>13. ASSUME NEW l \in h + 1 .. e, ReadingData[l - 1] PROVE ReadingData[l] <=> doc[l] # "end"
    <3>1. l \in a .. z /\ l \in 0 .. Len(doc) /\ l > 0
      BY <1>1, <1>2, <2>12
    <3>2. doc[l] \notin Directives
      BY <3>1 DEF Region
    <3>3. ReadingData[l] = ReadingBody(ReadingData, l)
      BY <3>1, ReadingDefined
    <3>4. ReadingBody(ReadingData, l) <=> doc[l] # "end"
      BY <2>13, <3>1, <3>2 DEF ReadingBody
    <3>5. QED BY <3>3, <3>4
  <2> DEFINE T == {k \in 0 .. e - 1 - h : ReadingData[h + k]}
  <2>14. 0 \in T
    <3>1. h + 0 = h /\ 0 \in 0 .. e - 1 - h
      BY <2>3, <2>12
    <3>2. QED BY <2>1, <3>1
  <2>15. ASSUME NEW k \in 0 .. (e - 1 - h) - 1, k \in T PROVE k + 1 \in T
    <3>1. PICK l : l = h + (k + 1)
      OBVIOUS
    <3>2. l \in h + 1 .. e - 1 /\ l \in h + 1 .. e /\ l - 1 = h + k /\ k + 1 \in 0 .. e - 1 - h
      BY <2>3, <2>12, <3>1
    <3>3. ReadingData[l - 1]
      BY <2>15, <3>2
    <3>4. ReadingData[l]
      BY <2>12, <2>13, <3>2, <3>3
    <3>5. QED BY <3>1, <3>2, <3>4
  <2>16. ASSUME NEW m \in h .. e - 1 PROVE ReadingData[m]
    <3>1. e - 1 - h \in Nat /\ m - h \in 0 .. e - 1 - h /\ h + (m - h) = m
      BY <2>3, <2>12
    <3>2. 0 .. e - 1 - h \subseteq T
      <4> HIDE DEF T
      <4>1. QED BY <2>14, <2>15, <3>1, Ascent
    <3>3. m - h \in T
      BY <3>1, <3>2
    <3>4. QED BY <3>1, <3>3
  <2>17. ~ ReadingData[e]
    <3>1. e - 1 \in h .. e - 1 /\ e \in h + 1 .. e
      BY <2>3, <2>12
    <3>2. ReadingData[e] <=> doc[e] # "end"
      BY <2>13, <2>16, <3>1
    <3>3. QED BY <2>12, <3>2
  <2>18. QED BY <2>1, <2>4, <2>5, <2>9, <2>10, <2>16, <2>17
<1>7. QED BY <1>4, <1>6

(* The findings about statements that could not be formatted. *)
Names(d, policy, x, i) ==
  /\ d.rule = IF x = "skip" THEN "skipped" ELSE "unsupported"
  /\ d.severity = Severity(policy) /\ d.first = i /\ d.last = i

OpaqueFindings(policy, r) ==
  {Finding(IF r[i] = "skip" THEN "skipped" ELSE "unsupported", Severity(policy), FALSE, i, i) :
     i \in {j \in DOMAIN r : r[j] \in Opaque}}

(* The findings of a region that is laid out.                              *)
LEMMA ContentDiags ==
  ASSUME NEW policy, NEW r, ~ AllGap(r)
  PROVE  Content(policy, r).diags = OpaqueFindings(policy, r)
BY DEF Content, AllGap, OpaqueFindings

(* Each unformattable statement of a region has a finding at its line, and *)
(* a finding that withholds means there is such a statement.               *)
LEMMA RegularReports ==
  ASSUME NEW policy, NEW q \in Seq(Kind), Regular(policy, q).ok
  PROVE  /\ \A i \in 1 .. Len(q) : q[i] \in Opaque => \E d \in Regular(policy, q).diags : Names(d, policy, q[i], i)
         /\ \A d \in Regular(policy, q).diags : Withholds(d) => \E i \in 1 .. Len(q) : q[i] \in Opaque
<1>1. DOMAIN q = 1 .. Len(q)
  BY KindText
<1>2. Regular(policy, q).diags = RegularOnce(policy, q).diags
  BY DEF Regular
<1>3. PICK c, F, A : /\ c = Content(policy, q) /\ F = StyleReported(q, c.opaqueSource)
                     /\ A = {Finding("alias", "error", TRUE, i, i) : i \in Aliases(q, c.opaqueSource)}
  OBVIOUS
<1>4. RegularOnce(policy, q).diags = c.diags \cup F \cup A
  BY <1>3 DEF RegularOnce
<1>5. \A d \in F : d.rule = "style"
  <2>1. \A d \in StyleFindings(q) : d.rule = "style"
    BY DEF StyleFindings, Finding
  <2>2. QED BY <1>3, <2>1 DEF StyleReported
<1>6. \A d \in A : d.rule = "alias"
  BY <1>3 DEF Finding
<1>11. ASSUME ~ AllGap(q) PROVE c.diags = OpaqueFindings(policy, q)
  BY <1>3, <1>11, ContentDiags
<1>7. ASSUME NEW i \in 1 .. Len(q), q[i] \in Opaque PROVE \E d \in c.diags : Names(d, policy, q[i], i)
  <2>1. ~ AllGap(q)
    BY <1>1, <1>7 DEF AllGap, Opaque, Gap
  <2>2. PICK d : d = Finding(IF q[i] = "skip" THEN "skipped" ELSE "unsupported", Severity(policy), FALSE, i, i)
    OBVIOUS
  <2>3. d \in c.diags
    <3>2. i \in {j \in DOMAIN q : q[j] \in Opaque}
      BY <1>1, <1>7
    <3>3. QED BY <1>11, <2>1, <2>2, <3>2 DEF OpaqueFindings
  <2>4. Names(d, policy, q[i], i)
    BY <2>2 DEF Names, Finding
  <2>5. QED BY <2>3, <2>4
<1>8. ASSUME NEW d \in c.diags PROVE \E i \in 1 .. Len(q) : q[i] \in Opaque
  <2>1. CASE AllGap(q)
    <3>1. c = Empty
      BY <1>3, <2>1 DEF Content, AllGap
    <3>2. QED BY <1>8, <3>1 DEF Empty
  <2>2. CASE ~ AllGap(q)
    BY <1>1, <1>8, <1>11, <2>2 DEF OpaqueFindings
  <2>3. QED BY <2>1, <2>2
<1>9. \A d \in F \cup A : ~ Withholds(d)
  BY <1>5, <1>6 DEF Withholds
<1>10. QED BY <1>2, <1>4, <1>7, <1>8, <1>9

-----------------------------------------------------------------------------
(***************************************************************************)
(* The stretches of SQL between payloads.                                  *)
(***************************************************************************)
(* Lines s to y of the region are SQL, up to the payload before and the    *)
(* header behind them.                                                     *)
Stretch(s, y, a, z) ==
  /\ s \in a .. z + 1 /\ y \in s - 1 .. z /\ NoData(s, y)
  /\ s = a \/ (s - 1 \in a .. z /\ InPayload(s - 1))
  /\ y = z \/ IsHeader(y + 1)

(* What the region formatter makes of line l, withheld or not. *)
Written(l) ==
  IF InPayload(l) THEN <<doc[l]>>
  ELSE IF \A i \in PartOf(l) : doc[i] \in Gap THEN <<>> ELSE New(doc[l])
WrittenLines == [l \in 1 .. Len(doc) |-> Written(l)]

(* Lines of a region, as numbers.                                          *)
LEMMA LineNumbers ==
  ASSUME doc \in Seq(Line), NEW a, NEW z, Region(a, z), NEW s \in a .. z + 1, NEW y \in s - 1 .. z
  PROVE  /\ SpanIn(s, y, Len(doc)) /\ s \in Nat /\ y \in Int /\ s >= 1
         /\ \A l \in s .. y : l \in a .. z /\ l \in 1 .. Len(doc) /\ l \in Nat
<1>1. PICK n : n = Len(doc)
  OBVIOUS
<1>2. n \in Nat /\ a \in Nat /\ z \in Nat /\ 1 <= a /\ a - 1 <= z /\ z <= n
  BY <1>1, RegionBounds
<1>3. s \in 1 .. n + 1 /\ y \in s - 1 .. n /\ s \in Nat /\ y \in Int /\ s >= 1
  BY <1>2
<1>4. \A l \in s .. y : l \in a .. z /\ l \in 1 .. n /\ l \in Nat
  BY <1>2, <1>3
<1>5. QED BY <1>1, <1>3, <1>4 DEF SpanIn

(* The lines of a stretch are one part of the document, outside payloads. *)
LEMMA StretchLines ==
  ASSUME doc \in Seq(Line), NEW a, NEW z, Region(a, z), NEW s, NEW y, Stretch(s, y, a, z), NEW l \in s .. y
  PROVE  PartOf(l) = s .. y /\ ~ InPayload(l) /\ ~ IsHeader(l)
<1>1. DOMAIN doc = 1 .. Len(doc) /\ Len(doc) \in Nat /\ a \in Nat /\ z \in Nat /\ 1 <= a /\ a - 1 <= z /\ z <= Len(doc)
  BY RegionBounds
<1>2. s \in a .. z + 1 /\ y \in s - 1 .. z /\ s \in Nat /\ y \in Int /\ l \in a .. z /\ l \in Nat
  BY <1>1 DEF Stretch
<1>3. ASSUME NEW k \in s .. y PROVE ~ InPayload(k) /\ ~ IsHeader(k)
  <2>1. k - 1 \in s - 1 .. y /\ k \in s - 1 .. y
    BY <1>2
  <2>2. ~ ReadingData[k - 1] /\ ~ ReadingData[k]
    BY <2>1 DEF Stretch, NoData
  <2>3. QED BY <2>2 DEF InPayload, IsHeader
<1>4. RegionOf(l) = a .. z
  BY <1>2, RegionLines
<1>5. ASSUME NEW i \in s .. y PROVE i \in PartOf(l)
  <2>1. \A k \in DOMAIN doc : (i <= k /\ k <= l) \/ (l <= k /\ k <= i) => k \in s .. y
    BY <1>1, <1>2
  <2>2. i \in a .. z
    BY <1>1, <1>2
  <2>3. QED BY <1>3, <1>4, <2>1, <2>2 DEF PartOf
<1>6. ASSUME NEW i \in PartOf(l) PROVE i \in s .. y
  <2>1. i \in a .. z
    BY <1>4 DEF PartOf
  <2>2. i = l \/ \A k \in DOMAIN doc : (i <= k /\ k <= l) \/ (l <= k /\ k <= i) => ~ InPayload(k) /\ ~ IsHeader(k)
    BY DEF PartOf
  <2>3. ~ (i < s)
    <3>1. SUFFICES ASSUME i < s PROVE FALSE
      OBVIOUS
    <3>2. PICK k : k = s - 1
      OBVIOUS
    <3>3. s # a /\ i # l /\ i <= k /\ k <= l /\ k \in DOMAIN doc
      BY <1>1, <1>2, <2>1, <3>1, <3>2
    <3>4. InPayload(k)
      BY <3>2, <3>3 DEF Stretch
    <3>5. QED BY <2>2, <3>3, <3>4
  <2>4. ~ (y < i)
    <3>1. SUFFICES ASSUME y < i PROVE FALSE
      OBVIOUS
    <3>2. PICK k : k = y + 1
      OBVIOUS
    <3>3. y # z /\ i # l /\ l <= k /\ k <= i /\ k \in DOMAIN doc
      BY <1>1, <1>2, <2>1, <3>1, <3>2
    <3>4. IsHeader(k)
      BY <3>2, <3>3 DEF Stretch
    <3>5. QED BY <2>2, <3>3, <3>4
  <2>5. QED BY <1>2, <2>1, <2>3, <2>4
<1>7. QED BY <1>3, <1>5, <1>6

(* A header is a part of its own.                                          *)
LEMMA HeaderAlone ==
  ASSUME doc \in Seq(Line), NEW a, NEW z, Region(a, z), NEW h \in a .. z, IsHeader(h)
  PROVE  PartOf(h) = {h}
<1>1. DOMAIN doc = 1 .. Len(doc) /\ Len(doc) \in Nat /\ a \in Nat /\ z \in Nat /\ 1 <= a /\ a - 1 <= z /\ z <= Len(doc)
  BY RegionBounds
<1>2. RegionOf(h) = a .. z /\ h \in DOMAIN doc
  BY <1>1, RegionLines
<1>3. ASSUME NEW i \in PartOf(h), i # h PROVE FALSE
  <2>1. \A k \in DOMAIN doc : (i <= k /\ k <= h) \/ (h <= k /\ k <= i) => ~ IsHeader(k)
    BY <1>3 DEF PartOf
  <2>2. i \in a .. z
    BY <1>2 DEF PartOf
  <2>3. (i <= h /\ h <= h) \/ (h <= h /\ h <= i)
    BY <1>1, <2>2
  <2>4. QED BY <1>2, <2>1, <2>3
<1>4. h \in PartOf(h)
  BY <1>2 DEF PartOf
<1>5. QED BY <1>3, <1>4

(* The kinds are lines, and what layout writes are lines.                  *)
LEMMA KindIsLine ==
  ASSUME Composed
  PROVE  Kind \subseteq Line /\ \A x \in Line : New(x) \in Seq(Line) /\ <<x>> \in Seq(Line)
<1>1. Line = Kind \cup Directives
  BY DEF Composed, SqlLine
<1>2. {"HEAD", "TAIL", "COPY", "blank", "skip"} \subseteq Line
  BY <1>1, KindOf
<1>3. ASSUME NEW x \in Line PROVE New(x) \in Seq(Line) /\ <<x>> \in Seq(Line)
  <2>1. <<x>> \in Seq(Line) /\ <<"HEAD", "TAIL">> \in Seq(Line) /\ <<"COPY">> \in Seq(Line) /\ <<"blank">> \in Seq(Line) /\ <<"skip">> \in Seq(Line)
    BY <1>2
  <2>2. QED BY <2>1 DEF New
<1>4. QED BY <1>1, <1>3

(* What is written for each line is a text.                                *)
LEMMA LinesWritten ==
  ASSUME Composed, doc \in Seq(Line)
  PROVE  Writes(WrittenLines, Len(doc), Line)
<1>1. ASSUME NEW l \in 1 .. Len(doc) PROVE Written(l) \in Seq(Line)
  <2>1. doc[l] \in Line
    OBVIOUS
  <2>2. New(doc[l]) \in Seq(Line) /\ <<doc[l]>> \in Seq(Line)
    BY <2>1, KindIsLine
  <2>3. <<>> \in Seq(Line)
    OBVIOUS
  <2>4. QED BY <2>2, <2>3 DEF Written
<1>2. Len(doc) \in Nat
  OBVIOUS
<1>3. QED BY <1>1, <1>2 DEF WrittenLines, Writes

(* What Parses asks of a line. *)
Fine(q, i) ==
  /\ q[i] \in Gap \cup Statement \cup {"HEAD"}
  /\ q[i] = "HEAD" => i + 1 \in DOMAIN q /\ q[i + 1] = "TAIL"
  /\ q[i] = "TAIL" => i > 1 /\ q[i - 1] = "HEAD"

(* What the parser asks of a line is what the reference asks of it.        *)
LEMMA StretchFine ==
  ASSUME Composed, doc \in Seq(Line), NEW a, NEW z, Region(a, z), NEW s, NEW y, Stretch(s, y, a, z),
         NEW q, TextFrom(q, s, y), NEW l \in s .. y
  PROVE  Fine(q, l - s + 1) <=> WellFormed(l)
<1>1. s \in Nat /\ y \in Nat /\ l \in Nat /\ s >= 1 /\ l \in a .. z /\ l \in 1 .. Len(doc)
  <2>1. s \in a .. z + 1 /\ y \in s - 1 .. z
    BY DEF Stretch
  <2>2. s \in Nat /\ y \in Int /\ s >= 1 /\ l \in a .. z /\ l \in 1 .. Len(doc) /\ l \in Nat
    BY <2>1, LineNumbers
  <2>3. QED BY <2>2
<1>2. PartOf(l) = s .. y /\ ~ InPayload(l)
  BY StretchLines
<1>3. PICK i, x : i = l - s + 1 /\ x = doc[l]
  OBVIOUS
<1>4. i \in 1 .. y - s + 1 /\ q[i] = x /\ DOMAIN q = 1 .. y - s + 1
  BY <1>3 DEF TextFrom
<1>5. ("HEAD" \notin Gap /\ "HEAD" \notin Statement) /\ ("TAIL" \in Statement /\ "TAIL" # "HEAD")
  BY DEF Gap, Statement
<1>6. (i + 1 \in DOMAIN q /\ q[i + 1] = "TAIL") <=> (l + 1 \in PartOf(l) /\ doc[l + 1] = "TAIL")
  <2>1. i + 1 \in DOMAIN q <=> l + 1 \in s .. y
    BY <1>1, <1>3, <1>4
  <2>2. ASSUME l + 1 \in s .. y PROVE q[i + 1] = doc[l + 1]
    <3>1. q[(l + 1) - s + 1] = doc[l + 1] /\ (l + 1) - s + 1 = i + 1
      <4>1. (l + 1) - s + 1 = i + 1
        BY <1>1, <1>3
      <4>2. QED BY <2>2, <4>1 DEF TextFrom
    <3>2. QED BY <3>1
  <2>3. QED BY <1>2, <2>1, <2>2
<1>7. (i > 1 /\ q[i - 1] = "HEAD") <=> (l - 1 \in PartOf(l) /\ doc[l - 1] = "HEAD")
  <2>1. i > 1 <=> l - 1 \in s .. y
    BY <1>1, <1>3, <1>4
  <2>2. ASSUME l - 1 \in s .. y PROVE q[i - 1] = doc[l - 1]
    <3>1. q[(l - 1) - s + 1] = doc[l - 1] /\ (l - 1) - s + 1 = i - 1
      <4>1. (l - 1) - s + 1 = i - 1
        BY <1>1, <1>3
      <4>2. QED BY <2>2, <4>1 DEF TextFrom
    <3>2. QED BY <3>1
  <2>3. QED BY <1>2, <2>1, <2>2
<1>8. Fine(q, i) <=> /\ x \in Gap \cup Statement \cup {"HEAD"}
                     /\ x = "HEAD" => l + 1 \in PartOf(l) /\ doc[l + 1] = "TAIL"
                     /\ x = "TAIL" => l - 1 \in PartOf(l) /\ doc[l - 1] = "HEAD"
  BY <1>4, <1>6, <1>7 DEF Fine
<1>9. WellFormed(l) <=> \/ x \in Gap \cup (Statement \ {"TAIL"})
                        \/ x = "HEAD" /\ l + 1 \in PartOf(l) /\ doc[l + 1] = "TAIL"
                        \/ x = "TAIL" /\ l - 1 \in PartOf(l) /\ doc[l - 1] = "HEAD"
  BY <1>2, <1>3 DEF WellFormed
<1>10. CASE x = "HEAD"
  BY <1>3, <1>5, <1>8, <1>9, <1>10
<1>11. CASE x = "TAIL"
  <2>1. "TAIL" \notin Gap
    BY DEF Gap
  <2>2. QED BY <1>3, <1>5, <1>8, <1>9, <1>11, <2>1
<1>12. CASE x \notin {"HEAD", "TAIL"}
  BY <1>3, <1>8, <1>9, <1>12
<1>13. QED BY <1>10, <1>11, <1>12

(* A stretch as the region formatter's caller sees it. *)
SoundLines(s, y) == \A l \in s .. y : WellFormed(l)

(* So the parser accepts a stretch when each of its lines is well formed.  *)
LEMMA StretchParses ==
  ASSUME Composed, doc \in Seq(Line), NEW a, NEW z, Region(a, z), NEW s, NEW y, Stretch(s, y, a, z),
         NEW q, TextFrom(q, s, y)
  PROVE  Parses(q) <=> SoundLines(s, y)
<1>1. Parses(q) <=> \A i \in 1 .. y - s + 1 : Fine(q, i)
  BY DEF Parses, Fine, TextFrom
<1>2. s \in Nat /\ y \in Nat
  <2>1. s \in a .. z + 1 /\ y \in s - 1 .. z
    BY DEF Stretch
  <2>2. s \in Nat /\ y \in Int /\ s >= 1
    BY <2>1, LineNumbers
  <2>3. QED BY <2>1, <2>2
<1>3. ASSUME \A i \in 1 .. y - s + 1 : Fine(q, i), NEW l \in s .. y PROVE WellFormed(l)
  <2>1. l - s + 1 \in 1 .. y - s + 1
    BY <1>2
  <2>2. Fine(q, l - s + 1)
    BY <1>3, <2>1
  <2>3. QED BY <2>2, StretchFine
<1>4. ASSUME SoundLines(s, y), NEW i \in 1 .. y - s + 1 PROVE Fine(q, i)
  <2>1. PICK l : l = s - 1 + i
    OBVIOUS
  <2>2. l \in s .. y /\ l - s + 1 = i
    BY <1>2, <2>1
  <2>3. WellFormed(l)
    BY <1>4, <2>2 DEF SoundLines
  <2>4. Fine(q, l - s + 1)
    BY <2>2, <2>3, StretchFine
  <2>5. QED BY <2>2, <2>4
<1>5. QED BY <1>1, <1>3, <1>4 DEF SoundLines

(* What the formatter writes for a stretch it accepts. *)
LEMMA StretchWritten ==
  ASSUME Composed, doc \in Seq(Line), NEW a, NEW z, Region(a, z), NEW s, NEW y, Stretch(s, y, a, z),
         NEW policy, NEW q \in Seq(Kind), TextFrom(q, s, y), Regular(policy, q).ok
  PROVE  Regular(policy, q).out = Part(WrittenLines, s, y)
<1>1. Regular(policy, q).out = RegularOnce(policy, q).out
  BY DEF Regular
<1>2. /\ SpanIn(s, y, Len(doc)) /\ s \in Nat /\ y \in Int /\ s >= 1
      /\ \A l \in s .. y : l \in a .. z /\ l \in 1 .. Len(doc) /\ l \in Nat
  <2>1. s \in a .. z + 1 /\ y \in s - 1 .. z
    BY DEF Stretch
  <2>2. QED BY <2>1, LineNumbers
<1>3. Writes(WrittenLines, Len(doc), Line)
  BY LinesWritten
<1>4. \A l \in s .. y : PartOf(l) = s .. y /\ ~ InPayload(l)
  BY StretchLines
<1>5. \A l \in s .. y : WrittenLines[l] = (IF \A i \in s .. y : doc[i] \in Gap THEN <<>> ELSE New(doc[l]))
  BY <1>2, <1>4 DEF WrittenLines, Written
<1>6. AllGap(q) <=> \A l \in s .. y : doc[l] \in Gap
  BY DEF AllGap, TextFrom
<1>7. CASE AllGap(q)
  <2>1. \A l \in s .. y : WrittenLines[l] = <<>>
    BY <1>5, <1>6, <1>7
  <2>2. Part(WrittenLines, s, y) = <<>>
    BY <1>2, <1>3, <2>1, PartNothing
  <2>3. QED BY <1>1, <1>7, <2>2, RegularText
<1>8. CASE ~ AllGap(q)
  <2>1. Regular(policy, q).out = FlattenSeq(Replacements(NewOf, q))
    BY <1>1, <1>8, RegularText DEF Spread
  <2>2. ASSUME NEW k \in 1 .. y - s + 1 PROVE WrittenLines[s + k - 1] = NewOf[q[k]]
    <3>1. PICK l : l = s + k - 1
      OBVIOUS
    <3>2. l \in s .. y /\ s - 1 + k = l
      BY <1>2, <3>1
    <3>3. WrittenLines[l] = New(doc[l])
      BY <1>5, <1>6, <1>8, <3>2
    <3>4. q[k] = doc[l] /\ q[k] \in Kind
      BY <3>2, KindText DEF TextFrom
    <3>5. NewOf[q[k]] = New(q[k])
      BY <3>4 DEF NewOf
    <3>6. QED BY <3>1, <3>3, <3>4, <3>5
  <2>3. Replacements(NewOf, q) = LinesAt(WrittenLines, s, y)
    <3>1. Len(q) = y - s + 1
      BY DEF TextFrom
    <3>2. QED BY <2>2, <3>1 DEF Replacements, LinesAt
  <2>4. QED BY <2>1, <2>3 DEF Part
<1>9. QED BY <1>7, <1>8

(* ... for a header ... *)
LEMMA HeaderWritten ==
  ASSUME Composed, doc \in Seq(Line), NEW a, NEW z, Region(a, z), NEW h \in a .. z, IsHeader(h), doc[h] \in {"copy", "COPY"}
  PROVE  Part(WrittenLines, h, h) = <<"COPY">> /\ WellFormed(h) /\ ~ InPayload(h) /\ doc[h] \notin Unformattable
<1>1. PartOf(h) = {h} /\ ~ InPayload(h)
  BY HeaderAlone DEF IsHeader
<1>2. doc[h] \notin Gap /\ doc[h] \in Statement /\ doc[h] # "TAIL" /\ doc[h] \notin Unformattable /\ New(doc[h]) = <<"COPY">>
  <2>1. doc[h] \notin Gap /\ doc[h] \in Statement /\ doc[h] # "TAIL" /\ doc[h] \notin Unformattable
    BY DEF Gap, Statement, Unformattable
  <2>2. CASE doc[h] = "copy"
    BY <2>1, <2>2 DEF New
  <2>3. CASE doc[h] = "COPY"
    BY <2>1, <2>3 DEF New
  <2>4. QED BY <2>1, <2>2, <2>3
<1>3. h \in 1 .. Len(doc) /\ h \in Nat /\ SpanIn(h, h, Len(doc))
  <2>1. Len(doc) \in Nat /\ a \in Nat /\ z \in Nat /\ 1 <= a /\ z <= Len(doc)
    BY RegionBounds
  <2>2. h \in Nat /\ h \in 1 .. Len(doc) /\ h \in 1 .. Len(doc) + 1 /\ h \in h - 1 .. Len(doc)
    BY <2>1
  <2>3. QED BY <2>2 DEF SpanIn
<1>4. WrittenLines[h] = <<"COPY">>
  BY <1>1, <1>2, <1>3 DEF WrittenLines, Written
<1>5. Part(WrittenLines, h, h) = <<"COPY">>
  <2>1. Writes(WrittenLines, Len(doc), Line)
    BY LinesWritten
  <2>2. "COPY" \in Line
    BY KindIsLine, KindOf
  <2>3. PICK t : t = <<"COPY">>
    OBVIOUS
  <2>4. t \in Seq(Line) /\ Len(t) = 1 /\ t[1] = "COPY"
    BY <2>2, <2>3
  <2>5. h - h + 1 = 1 /\ h + 1 - 1 = h
    BY <1>3
  <2>6. Copies(WrittenLines, h, h, t)
    BY <1>4, <2>4, <2>5 DEF Copies
  <2>7. Part(WrittenLines, h, h) = t
    BY <1>3, <2>1, <2>4, <2>6, PartCopied
  <2>8. QED BY <2>3, <2>7
<1>6. WellFormed(h)
  BY <1>2 DEF WellFormed
<1>7. QED BY <1>1, <1>2, <1>5, <1>6

(* ... and for payload lines, which come through.                          *)
LEMMA PayloadWritten ==
  ASSUME Composed, doc \in Seq(Line), NEW a, NEW z, Region(a, z), NEW i \in a .. z + 1, NEW j \in i - 1 .. z,
         NEW t \in Seq(Kind), TextFrom(t, i, j), \A l \in i .. j : InPayload(l)
  PROVE  Part(WrittenLines, i, j) = t
<1>1. /\ SpanIn(i, j, Len(doc)) /\ i \in Nat /\ j \in Int /\ i >= 1
      /\ \A l \in i .. j : l \in a .. z /\ l \in 1 .. Len(doc) /\ l \in Nat
  BY LineNumbers
<1>2. Writes(WrittenLines, Len(doc), Line) /\ t \in Seq(Line)
  BY LinesWritten, KindIsLine
<1>3. ASSUME NEW k \in 1 .. j - i + 1 PROVE WrittenLines[i + k - 1] = <<t[k]>>
  <2>1. PICK l : l = i + k - 1
    OBVIOUS
  <2>2. l \in i .. j /\ i - 1 + k = l
    BY <1>1, <2>1
  <2>3. WrittenLines[l] = <<doc[l]>>
    BY <1>1, <2>2 DEF WrittenLines, Written
  <2>4. t[k] = doc[l]
    BY <2>2 DEF TextFrom
  <2>5. QED BY <2>1, <2>3, <2>4
<1>4. Copies(WrittenLines, i, j, t)
  BY <1>3 DEF Copies, TextFrom
<1>5. QED BY <1>1, <1>2, <1>4, PartCopied

(* A statement of line l that cannot be formatted. *)
Loose(l) == doc[l] \in Unformattable /\ ~ InPayload(l)

(* Findings D of the text of lines s to y name its unformattable           *)
(* statements, at their lines of that text, and withhold it for no other.  *)
Reported(D, policy, s, y) ==
  /\ \A l \in s .. y : Loose(l) => \E d \in D : Names(d, policy, doc[l], l - s + 1)
  /\ \A d \in D : Withholds(d) => \E l \in s .. y : Loose(l)

(* What the region formatter makes of lines s to y: accepted when every    *)
(* line is SQL where it stands; then written line by line and reported.    *)
Told(policy, s, y) ==
  LET x == DocumentOnce(policy, Text(s, y))
  IN  /\ x.ok <=> SoundLines(s, y)
      /\ x.ok => x.out = Part(WrittenLines, s, y) /\ Reported(x.diags, policy, s, y)

(* The text of lines s to y is determined by them.                         *)
LEMMA SameText ==
  ASSUME NEW q \in Seq(Kind), NEW r \in Seq(Kind), NEW s, NEW y, TextFrom(q, s, y), TextFrom(r, s, y)
  PROVE  q = r
<1>1. Len(q) = Len(r) /\ DOMAIN q = 1 .. Len(q) /\ DOMAIN r = 1 .. Len(r)
  BY KindText DEF TextFrom
<1>2. \A i \in 1 .. Len(q) : q[i] = r[i]
  BY DEF TextFrom
<1>3. QED BY <1>1, <1>2

(* The findings of a stretch.                                              *)
LEMMA StretchReported ==
  ASSUME doc \in Seq(Line), NEW a, NEW z, Region(a, z), NEW s, NEW y, Stretch(s, y, a, z),
         NEW policy, NEW q \in Seq(Kind), TextFrom(q, s, y), Regular(policy, q).ok
  PROVE  Reported(Regular(policy, q).diags, policy, s, y)
<1>1. PICK D : D = Regular(policy, q).diags
  OBVIOUS
<1>2. /\ \A i \in 1 .. Len(q) : q[i] \in Opaque => \E d \in D : Names(d, policy, q[i], i)
      /\ \A d \in D : Withholds(d) => \E i \in 1 .. Len(q) : q[i] \in Opaque
  BY <1>1, RegularReports
<1>3. Opaque = Unformattable
  BY DEF Opaque, Unformattable
<1>4. Len(q) = y - s + 1
  BY DEF TextFrom
<1>5. ASSUME NEW l \in s .. y, Loose(l) PROVE \E d \in D : Names(d, policy, doc[l], l - s + 1)
  <2>1. l - s + 1 \in 1 .. Len(q) /\ q[l - s + 1] = doc[l]
    BY <1>4 DEF TextFrom
  <2>2. QED BY <1>2, <1>3, <1>5, <2>1 DEF Loose
<1>6. ASSUME NEW d \in D, Withholds(d) PROVE \E l \in s .. y : Loose(l)
  <2>1. PICK i \in 1 .. Len(q) : q[i] \in Opaque
    BY <1>2, <1>6
  <2>2. PICK l : l = s - 1 + i
    OBVIOUS
  <2>3. l \in s .. y /\ q[i] = doc[l]
    BY <1>4, <2>2 DEF TextFrom
  <2>4. ~ InPayload(l)
    BY <2>3, StretchLines
  <2>5. QED BY <1>3, <2>1, <2>3, <2>4 DEF Loose
<1>7. QED BY <1>1, <1>5, <1>6 DEF Reported

(* Findings shifted with their text. *)
Displaced(D, n) == {Shifted(d, n) : d \in D}

(* A shifted finding names the shifted line and withholds as before.       *)
LEMMA ShiftedNames ==
  ASSUME NEW d, NEW policy, NEW x, NEW i \in Int, NEW n \in Int
  PROVE  /\ Names(d, policy, x, i) => Names(Shifted(d, n), policy, x, i + n)
         /\ Withholds(Shifted(d, n)) <=> Withholds(d)
<1>1. /\ Shifted(d, n).rule = d.rule /\ Shifted(d, n).severity = d.severity
      /\ Shifted(d, n).first = d.first + n /\ Shifted(d, n).last = d.last + n
  BY DEF Shifted, Finding
<1>2. QED BY <1>1 DEF Names, Withholds

(* The findings of a later text, as findings of the whole.                 *)
LEMMA MovedReported ==
  ASSUME NEW s \in Int, NEW i \in Int, NEW j \in Int, NEW D, NEW policy, Reported(D, policy, i, j)
  PROVE  /\ \A l \in i .. j : Loose(l) => \E d \in Displaced(D, i - s) : Names(d, policy, doc[l], l - s + 1)
         /\ \A d \in Displaced(D, i - s) : Withholds(d) => \E l \in i .. j : Loose(l)
<1>1. i - s \in Int
  OBVIOUS
<1>2. ASSUME NEW l \in i .. j, Loose(l) PROVE \E d \in Displaced(D, i - s) : Names(d, policy, doc[l], l - s + 1)
  <2>1. PICK d \in D : Names(d, policy, doc[l], l - i + 1)
    BY <1>2 DEF Reported
  <2>2. Names(Shifted(d, i - s), policy, doc[l], (l - i + 1) + (i - s))
    <3>1. l - i + 1 \in Int
      OBVIOUS
    <3>2. QED BY <1>1, <2>1, <3>1, ShiftedNames
  <2>3. (l - i + 1) + (i - s) = l - s + 1
    OBVIOUS
  <2>4. Shifted(d, i - s) \in Displaced(D, i - s)
    BY DEF Displaced
  <2>5. QED BY <2>2, <2>3, <2>4
<1>3. ASSUME NEW d \in Displaced(D, i - s), Withholds(d) PROVE \E l \in i .. j : Loose(l)
  <2>1. PICK c \in D : d = Shifted(c, i - s)
    BY DEF Displaced
  <2>2. 0 \in Int /\ Withholds(c)
    BY <1>1, <1>3, <2>1, ShiftedNames
  <2>3. QED BY <2>2 DEF Reported
<1>4. QED BY <1>2, <1>3

(* A line the reading may start at begins a stretch.                       *)
LEMMA StandsStretch ==
  ASSUME doc \in Seq(Line), NEW a, NEW z, Region(a, z), NEW s, Stands(s, a, z)
  PROVE  s = a \/ (s - 1 \in a .. z /\ InPayload(s - 1))
<1>1. SUFFICES ASSUME s # a PROVE s - 1 \in a .. z /\ InPayload(s - 1)
  OBVIOUS
<1>2. s - 1 \in a .. z /\ ReadingData[s - 2]
  BY <1>1 DEF Stands
<1>3. s \in Int /\ (s - 1) - 1 = s - 2
  <2>1. a \in Nat /\ z \in Nat
    BY RegionBounds
  <2>2. s \in Int
    BY <2>1 DEF Stands
  <2>3. QED BY <2>2
<1>4. doc[s - 1] \notin Directives
  BY <1>2 DEF Region
<1>5. ReadingData[(s - 1) - 1]
  BY <1>2, <1>3
<1>6. QED BY <1>2, <1>4, <1>5 DEF InPayload

(* A text without payloads is one stretch.                                 *)
LEMMA ToldWithoutCopy ==
  ASSUME Composed, doc \in Seq(Line), NEW a, NEW z, Region(a, z), NEW s, Stands(s, a, z),
         NEW policy, Headers(Text(s, z)) = {}
  PROVE  Told(policy, s, z)
<1>1. s \in a .. z + 1 /\ z \in s - 1 .. z
  <2>1. a \in Nat /\ z \in Nat
    BY RegionBounds
  <2>2. QED BY <2>1 DEF Stands
<1>2. PICK r : r = Text(s, z)
  OBVIOUS
<1>3. r \in Seq(Kind) /\ TextFrom(r, s, z)
  BY <1>1, <1>2, TextFromIs
<1>4. NoData(s, z)
  BY <1>2, <1>3, ReadOn
<1>5. Stretch(s, z, a, z)
  BY <1>1, <1>4, StandsStretch DEF Stretch
<1>6. DocumentOnce(policy, r) = Regular(policy, r)
  BY <1>2, <1>3, OnceParts
<1>7. Regular(policy, r).ok <=> Parses(r)
  BY DEF Regular
<1>8. Parses(r) <=> SoundLines(s, z)
  BY <1>3, <1>5, StretchParses
<1>9. ASSUME Regular(policy, r).ok
      PROVE  Regular(policy, r).out = Part(WrittenLines, s, z) /\ Reported(Regular(policy, r).diags, policy, s, z)
  BY <1>3, <1>5, <1>9, StretchWritten, StretchReported
<1>10. QED BY <1>2, <1>6, <1>7, <1>8, <1>9 DEF Told

(* Where the first payload behind line s lies in the document. *)
Payloads(s, z, r, h, e) ==
  /\ h \in s .. z /\ e \in h + 1 .. z /\ h = s - 1 + Header(r) /\ e = s - 1 + PayloadEnd(r)
  /\ Header(r) = h - s + 1 /\ PayloadEnd(r) = e - s + 1

(* The first payload lies in the document where it lies in the text.       *)
LEMMA PayloadPlaces ==
  ASSUME NEW s, NEW z, NEW r \in Seq(Kind), TextFrom(r, s, z), Headers(r) # {}
  PROVE  \E h, e : /\ Payloads(s, z, r, h, e) /\ doc[h] \in {"copy", "COPY"} /\ doc[e] = "end"
                   /\ HeaderLine(r) = <<doc[h]>>
<1>1. PICK H, E, h, e : H = Header(r) /\ E = PayloadEnd(r) /\ h = s - 1 + H /\ e = s - 1 + E
  OBVIOUS
<1>2. Len(r) = z - s + 1 /\ s \in Nat /\ z \in Nat
  BY DEF TextFrom
<1>3. H \in 1 .. z - s + 1 /\ E \in H + 1 .. z - s + 1 /\ HasPayload(r, H) /\ r[E] = "end"
  BY <1>1, <1>2, HeaderInRegion
<1>4. h \in s .. z /\ e \in h + 1 .. z /\ H = h - s + 1 /\ E = e - s + 1 /\ E \in 1 .. z - s + 1
  <2>1. s \in Nat /\ z \in Nat /\ H \in 1 .. z - s + 1 /\ E \in H + 1 .. z - s + 1 /\ h = s - 1 + H /\ e = s - 1 + E
    BY <1>1, <1>2, <1>3
  <2>2. h \in s .. z /\ e \in Int /\ e >= h + 1 /\ e <= z
    BY <2>1
  <2>3. H = h - s + 1 /\ E = e - s + 1 /\ E \in 1 .. z - s + 1
    BY <2>1
  <2>4. QED BY <2>1, <2>2, <2>3
<1>5. r[H] = doc[h] /\ r[E] = doc[e]
  BY <1>1, <1>3, <1>4 DEF TextFrom
<1>6. r[H] \in {"copy", "COPY"}
  BY <1>3 DEF HasPayload
<1>7. Payloads(s, z, r, h, e)
  BY <1>1, <1>4 DEF Payloads
<1>8. QED BY <1>1, <1>3, <1>5, <1>6, <1>7 DEF HeaderLine

(* The parts of the text. *)
LEMMA PayloadTexts ==
  ASSUME NEW s, NEW z, NEW r \in Seq(Kind), TextFrom(r, s, z), Headers(r) # {}, NEW h, NEW e, Payloads(s, z, r, h, e)
  PROVE  /\ BeforeCopy(r) \in Seq(Kind) /\ TextFrom(BeforeCopy(r), s, h - 1)
         /\ Payload(r) \in Seq(Kind) /\ TextFrom(Payload(r), h + 1, e)
         /\ BehindCopy(r) \in Seq(Kind) /\ TextFrom(BehindCopy(r), e + 1, z)
<1>1. PICK H, E : H = Header(r) /\ E = PayloadEnd(r)
  OBVIOUS
<1>2. Len(r) = z - s + 1 /\ s \in Nat \ {0} /\ z \in Nat /\ \A i \in 1 .. z - s + 1 : r[i] = doc[s - 1 + i]
  BY DEF TextFrom
<1>3. h \in s .. z /\ e \in h + 1 .. z /\ H = h - s + 1 /\ E = e - s + 1 /\ h = s - 1 + H /\ e = s - 1 + E
  BY <1>1 DEF Payloads
<1>4. H \in 1 .. z - s + 1 /\ E \in H + 1 .. z - s + 1 /\ h \in Nat /\ e \in Nat
  BY <1>2, <1>3
<1>12. /\ s \in Nat /\ s >= 1 /\ z \in Nat /\ h \in Nat /\ e \in Nat /\ H \in Nat /\ E \in Nat
       /\ h >= s /\ h <= z /\ e >= h + 1 /\ e <= z /\ H = h - s + 1 /\ E = e - s + 1
  <2>1. s \in Nat \ {0} /\ z \in Nat /\ h \in s .. z /\ e \in h + 1 .. z /\ H \in 1 .. z - s + 1 /\ E \in H + 1 .. z - s + 1
    BY <1>2, <1>3, <1>4
  <2>2. QED BY <1>3, <2>1
<1>5. PICK p, q, b : p = BeforeCopy(r) /\ q = Payload(r) /\ b = BehindCopy(r)
  OBVIOUS
<1>6. /\ p \in Seq(Kind) /\ Len(p) = H - 1 /\ \A i \in 1 .. H - 1 : p[i] = r[i]
      /\ b \in Seq(Kind) /\ Len(b) = z - s + 1 - E /\ \A i \in 1 .. z - s + 1 - E : b[i] = r[E + i]
  <2>1. /\ p \in Seq(Kind) /\ Len(p) = H - 1 /\ \A i \in 1 .. H - 1 : p[i] = r[i]
        /\ b \in Seq(Kind) /\ Len(b) = Len(r) - E /\ \A i \in 1 .. Len(r) - E : b[i] = r[E + i]
    BY <1>1, <1>5, AroundCopy
  <2>2. PICK n : n = Len(r) - E
    OBVIOUS
  <2>3. n = z - s + 1 - E
    <3>1. PICK m : m = Len(r)
      OBVIOUS
    <3>2. m = z - s + 1
      BY <1>2, <3>1
    <3>3. QED BY <1>12, <2>2, <3>1, <3>2
  <2>4. QED BY <2>1, <2>2, <2>3
<1>7. q \in Seq(Kind) /\ Len(q) = E - H /\ \A i \in 1 .. E - H : q[i] = r[H + i]
  BY <1>1, <1>5, PayloadLines
<1>8. TextFrom(p, s, h - 1)
  <2>1. H - 1 = (h - 1) - s + 1 /\ h - 1 \in Nat /\ s <= (h - 1) + 1
    BY <1>12
  <2>2. ASSUME NEW i \in 1 .. H - 1 PROVE p[i] = doc[s - 1 + i] /\ s - 1 + i \in s .. h - 1
    <3>1. i \in 1 .. z - s + 1 /\ s - 1 + i \in s .. h - 1
      BY <1>2, <1>3, <1>4
    <3>2. QED BY <1>2, <1>6, <3>1
  <2>3. ASSUME NEW l \in s .. h - 1 PROVE p[l - s + 1] = doc[l] /\ l - s + 1 \in 1 .. H - 1
    <3>1. PICK i : i = l - s + 1
      OBVIOUS
    <3>2. i \in 1 .. H - 1 /\ s - 1 + i = l
      BY <1>2, <1>3, <1>4, <3>1
    <3>3. QED BY <2>2, <3>1, <3>2
  <2>4. Len(p) = (h - 1) - s + 1 /\ DOMAIN p = 1 .. (h - 1) - s + 1
    BY <1>6, <2>1, KindText
  <2>5. QED BY <1>2, <2>1, <2>2, <2>3, <2>4 DEF TextFrom
<1>9. TextFrom(q, h + 1, e)
  <2>1. E - H = e - (h + 1) + 1 /\ h + 1 \in Nat \ {0} /\ h + 1 <= e + 1
    BY <1>12
  <2>2. ASSUME NEW i \in 1 .. E - H PROVE q[i] = doc[(h + 1) - 1 + i] /\ (h + 1) - 1 + i \in h + 1 .. e
    <3>1. H + i \in 1 .. z - s + 1 /\ (h + 1) - 1 + i \in h + 1 .. e /\ s - 1 + (H + i) = (h + 1) - 1 + i
      BY <1>2, <1>3, <1>4
    <3>2. QED BY <1>2, <1>7, <3>1
  <2>3. ASSUME NEW l \in h + 1 .. e PROVE q[l - (h + 1) + 1] = doc[l] /\ l - (h + 1) + 1 \in 1 .. E - H
    <3>1. PICK i : i = l - (h + 1) + 1
      OBVIOUS
    <3>2. i \in 1 .. E - H /\ (h + 1) - 1 + i = l
      BY <1>2, <1>3, <1>4, <3>1
    <3>3. QED BY <2>2, <3>1, <3>2
  <2>4. Len(q) = e - (h + 1) + 1 /\ DOMAIN q = 1 .. e - (h + 1) + 1
    BY <1>7, <2>1, KindText
  <2>5. QED BY <1>4, <2>1, <2>2, <2>3, <2>4 DEF TextFrom
<1>10. TextFrom(b, e + 1, z)
  <2>1. z - s + 1 - E = z - (e + 1) + 1 /\ e + 1 \in Nat \ {0} /\ e + 1 <= z + 1
    BY <1>12
  <2>2. ASSUME NEW i \in 1 .. z - s + 1 - E PROVE b[i] = doc[(e + 1) - 1 + i] /\ (e + 1) - 1 + i \in e + 1 .. z
    <3>1. E + i \in 1 .. z - s + 1 /\ (e + 1) - 1 + i \in e + 1 .. z /\ s - 1 + (E + i) = (e + 1) - 1 + i
      BY <1>2, <1>3, <1>4
    <3>2. QED BY <1>2, <1>6, <3>1
  <2>3. ASSUME NEW l \in e + 1 .. z PROVE b[l - (e + 1) + 1] = doc[l] /\ l - (e + 1) + 1 \in 1 .. z - s + 1 - E
    <3>1. PICK i : i = l - (e + 1) + 1
      OBVIOUS
    <3>2. i \in 1 .. z - s + 1 - E /\ (e + 1) - 1 + i = l
      BY <1>2, <1>3, <1>4, <3>1
    <3>3. QED BY <2>2, <3>1, <3>2
  <2>4. Len(b) = z - (e + 1) + 1 /\ DOMAIN b = 1 .. z - (e + 1) + 1
    BY <1>6, <2>1, KindText
  <2>5. QED BY <1>2, <2>1, <2>2, <2>3, <2>4 DEF TextFrom
<1>11. QED BY <1>5, <1>6, <1>7, <1>8, <1>9, <1>10

(* ... and how the document reads at its lines. *)
LEMMA PayloadReads ==
  ASSUME Composed, doc \in Seq(Line), NEW a, NEW z, Region(a, z), NEW s, Stands(s, a, z),
         NEW r \in Seq(Kind), TextFrom(r, s, z), Headers(r) # {}, NEW h, NEW e, Payloads(s, z, r, h, e), doc[e] = "end"
  PROVE  /\ h \in a .. z /\ e \in a .. z /\ s \in a .. z + 1 /\ IsHeader(h) /\ Stretch(s, h - 1, a, z)
         /\ (\A l \in h + 1 .. e : InPayload(l)) /\ Stands(e + 1, a, z)
<1>1. DOMAIN doc = 1 .. Len(doc) /\ Len(doc) \in Nat /\ a \in Nat /\ z \in Nat /\ 1 <= a /\ a - 1 <= z /\ z <= Len(doc)
  BY RegionBounds
<1>2. s \in a .. z + 1 /\ h \in s .. z /\ e \in h + 1 .. z
  BY DEF Stands, Payloads
<1>3. h \in a .. z /\ e \in a .. z /\ h \in Nat /\ e \in Nat /\ s \in Nat
  BY <1>1, <1>2
<1>4. NoData(s, h - 1) /\ (\A m \in h .. e - 1 : ReadingData[m]) /\ ~ ReadingData[e]
  <2>1. h = s - 1 + Header(r) /\ e = s - 1 + PayloadEnd(r)
    BY DEF Payloads
  <2>2. QED BY <2>1, ReadOn
<1>5. IsHeader(h)
  <2>1. h - 1 \in s - 1 .. h - 1 /\ h \in h .. e - 1
    BY <1>2, <1>3
  <2>2. ~ ReadingData[h - 1] /\ ReadingData[h]
    BY <1>4, <2>1 DEF NoData
  <2>3. QED BY <2>2 DEF IsHeader, InPayload
<1>6. Stretch(s, h - 1, a, z)
  <2>1. h - 1 \in s - 1 .. z /\ (h - 1) + 1 = h
    <3>1. s \in Nat /\ z \in Nat /\ h \in Nat /\ h \in s .. z
      BY <1>1, <1>2, <1>3
    <3>2. QED BY <3>1
  <2>2. s = a \/ (s - 1 \in a .. z /\ InPayload(s - 1))
    BY StandsStretch
  <2>3. QED BY <1>2, <1>4, <1>5, <2>1, <2>2 DEF Stretch
<1>7. ASSUME NEW l \in h + 1 .. e PROVE InPayload(l)
  <2>1. l - 1 \in h .. e - 1 /\ l \in a .. z
    BY <1>1, <1>2, <1>3
  <2>2. ReadingData[l - 1] /\ doc[l] \notin Directives
    BY <1>4, <2>1 DEF Region
  <2>3. QED BY <2>2 DEF InPayload
<1>8. Stands(e + 1, a, z)
  <2>1. e + 1 \in a .. z + 1 /\ (e + 1) - 1 = e /\ (e + 1) - 2 = e - 1 /\ e - 1 \in h .. e - 1
    BY <1>1, <1>2, <1>3
  <2>2. ReadingData[e - 1]
    BY <1>4, <2>1
  <2>3. QED BY <1>3, <1>4, <2>1, <2>2 DEF Stands
<1>9. QED BY <1>2, <1>3, <1>5, <1>6, <1>7, <1>8

(* The lines of a text, in its parts.                                      *)
LEMMA PartsWritten ==
  ASSUME Composed, doc \in Seq(Line), NEW a, NEW z, Region(a, z), NEW s \in a .. z + 1, NEW h \in s .. z, NEW e \in h + 1 .. z
  PROVE  Part(WrittenLines, s, z) = Part(WrittenLines, s, h - 1) \o Part(WrittenLines, h, h)
                                      \o Part(WrittenLines, h + 1, e) \o Part(WrittenLines, e + 1, z)
<1>1. PICK f, n : f = WrittenLines /\ n = Len(doc)
  OBVIOUS
<1>2. Writes(f, n, Line)
  BY <1>1, LinesWritten
<1>3. n \in Nat /\ a \in Nat /\ z \in Nat /\ 1 <= a /\ a - 1 <= z /\ z <= n
  BY <1>1, RegionBounds
<1>4. PICK x : x = h - 1
  OBVIOUS
<1>5. /\ s \in Nat /\ h \in Nat /\ e \in Nat /\ s >= 1 /\ s <= h /\ h + 1 <= e /\ e <= n /\ z <= n /\ e <= z
  BY <1>3
<1>6. /\ SpanIn(s, x, n) /\ SpanIn(x + 1, z, n) /\ SpanIn(h, h, n) /\ SpanIn(h + 1, z, n)
      /\ SpanIn(h + 1, e, n) /\ SpanIn(e + 1, z, n) /\ x + 1 = h
  BY <1>3, <1>4, <1>5 DEF SpanIn
<1>7. Abuts(f, s, x, z)
  BY <1>2, <1>6, PartAbuts
<1>8. Abuts(f, h, h, z)
  BY <1>2, <1>6, PartAbuts
<1>9. Abuts(f, h + 1, e, z)
  BY <1>2, <1>6, PartAbuts
<1>10. PICK p, q, r, t : p = Part(f, s, x) /\ q = Part(f, h, h) /\ r = Part(f, h + 1, e) /\ t = Part(f, e + 1, z)
  OBVIOUS
<1>11. p \in Seq(Line) /\ q \in Seq(Line) /\ r \in Seq(Line) /\ t \in Seq(Line)
  BY <1>2, <1>6, <1>10, LinesTyped DEF LaidLines
<1>12. Chained(p, q, r, t)
  BY <1>11, JoinAcross
<1>13. QED BY <1>1, <1>4, <1>6, <1>7, <1>8, <1>9, <1>10, <1>12 DEF Abuts, Chained

(* A text is well formed when the lines outside its payload are.           *)
LEMMA SoundAcross ==
  ASSUME NEW s \in Int, NEW z \in Int, NEW h \in s .. z, NEW e \in h + 1 .. z, WellFormed(h), \A l \in h + 1 .. e : InPayload(l)
  PROVE  SoundLines(s, z) <=> SoundLines(s, h - 1) /\ SoundLines(e + 1, z)
<1>1. ASSUME NEW l \in h + 1 .. e PROVE WellFormed(l)
  BY DEF WellFormed
<1>2. \A l \in s .. z : l \in s .. h - 1 \/ l = h \/ l \in h + 1 .. e \/ l \in e + 1 .. z
  OBVIOUS
<1>3. (\A l \in s .. h - 1 : l \in s .. z) /\ \A l \in e + 1 .. z : l \in s .. z
  OBVIOUS
<1>4. ASSUME SoundLines(s, h - 1), SoundLines(e + 1, z) PROVE SoundLines(s, z)
  BY <1>1, <1>2, <1>4 DEF SoundLines
<1>5. ASSUME SoundLines(s, z) PROVE SoundLines(s, h - 1) /\ SoundLines(e + 1, z)
  BY <1>3, <1>5 DEF SoundLines
<1>6. QED BY <1>4, <1>5

(* The findings of a text are those of its parts. *)
LEMMA ReportedAcross ==
  ASSUME NEW s \in Int, NEW z \in Int, NEW h \in s .. z, NEW e \in h + 1 .. z,
         ~ Loose(h), \A l \in h + 1 .. e : InPayload(l),
         NEW policy, NEW D, NEW G, NEW F, Reported(D, policy, s, h - 1), \A d \in G : ~ Withholds(d), Reported(F, policy, e + 1, z)
  PROVE  Reported(D \cup Displaced(G, h - s) \cup Displaced(F, e - s + 1), policy, s, z)
<1>1. PICK all : all = D \cup Displaced(G, h - s) \cup Displaced(F, e - s + 1)
  OBVIOUS
<1>2. e + 1 \in Int /\ e + 1 - s = e - s + 1
  OBVIOUS
<1>3. /\ \A l \in e + 1 .. z : Loose(l) => \E d \in Displaced(F, e - s + 1) : Names(d, policy, doc[l], l - s + 1)
      /\ \A d \in Displaced(F, e - s + 1) : Withholds(d) => \E l \in e + 1 .. z : Loose(l)
  <2>1. PICK i : i = e + 1
    OBVIOUS
  <2>2. i \in Int /\ Reported(F, policy, i, z) /\ i - s = e - s + 1
    BY <1>2, <2>1
  <2>3. /\ \A l \in i .. z : Loose(l) => \E d \in Displaced(F, i - s) : Names(d, policy, doc[l], l - s + 1)
        /\ \A d \in Displaced(F, i - s) : Withholds(d) => \E l \in i .. z : Loose(l)
    BY <2>2, MovedReported
  <2>4. QED BY <2>1, <2>2, <2>3
<1>4. \A d \in Displaced(G, h - s) : ~ Withholds(d)
  <2>1. ASSUME NEW d \in Displaced(G, h - s) PROVE ~ Withholds(d)
    <3>1. PICK c \in G : d = Shifted(c, h - s)
      BY DEF Displaced
    <3>2. d.rule = c.rule
      BY <3>1 DEF Shifted, Finding
    <3>3. QED BY <3>2 DEF Withholds
  <2>2. QED BY <2>1
<1>5. \A l \in s .. z : l \in s .. h - 1 \/ l = h \/ l \in h + 1 .. e \/ l \in e + 1 .. z
  OBVIOUS
<1>6. (\A l \in s .. h - 1 : l \in s .. z) /\ \A l \in e + 1 .. z : l \in s .. z
  OBVIOUS
<1>7. \A l \in h + 1 .. e : ~ Loose(l)
  BY DEF Loose
<1>8. ASSUME NEW l \in s .. z, Loose(l) PROVE \E d \in all : Names(d, policy, doc[l], l - s + 1)
  <2>1. l \in s .. h - 1 \/ l \in e + 1 .. z
    BY <1>5, <1>7, <1>8
  <2>2. CASE l \in s .. h - 1
    BY <1>1, <1>8, <2>2 DEF Reported
  <2>3. CASE l \in e + 1 .. z
    BY <1>1, <1>3, <1>8, <2>3
  <2>4. QED BY <2>1, <2>2, <2>3
<1>9. ASSUME NEW d \in all, Withholds(d) PROVE \E l \in s .. z : Loose(l)
  <2>1. d \in D \/ d \in Displaced(F, e - s + 1)
    BY <1>1, <1>4, <1>9
  <2>2. CASE d \in D
    BY <1>6, <1>9, <2>2 DEF Reported
  <2>3. CASE d \in Displaced(F, e - s + 1)
    BY <1>3, <1>6, <1>9, <2>3
  <2>4. QED BY <2>1, <2>2, <2>3
<1>10. QED BY <1>1, <1>8, <1>9 DEF Reported

(* A header withholds nothing.                                             *)
LEMMA HeaderReports ==
  ASSUME NEW policy, NEW x \in {"copy", "COPY"}
  PROVE  \A d \in Regular(policy, <<x>>).diags : ~ Withholds(d)
<1>1. PICK q : q = <<x>>
  OBVIOUS
<1>2. x \in Kind
  BY DEF Kind, Statement
<1>3. q \in Seq(Kind) /\ Len(q) = 1 /\ q[1] = x
  BY <1>1, <1>2
<1>4. Regular(policy, q).ok
  BY <1>1, HeaderText
<1>5. \A i \in 1 .. Len(q) : q[i] \notin Opaque
  BY <1>3 DEF Opaque
<1>6. \A d \in Regular(policy, q).diags : Withholds(d) => \E i \in 1 .. Len(q) : q[i] \in Opaque
  BY <1>3, <1>4, RegularReports
<1>7. QED BY <1>1, <1>5, <1>6

(* What a pass makes of a text with a payload, in its parts.               *)
LEMMA OnceMoves ==
  ASSUME NEW policy, NEW r \in Seq(Kind), Headers(r) # {}
  PROVE  /\ DocumentOnce(policy, r).ok <=> /\ Regular(policy, BeforeCopy(r)).ok /\ Regular(policy, HeaderLine(r)).ok
                                            /\ DocumentOnce(policy, BehindCopy(r)).ok
         /\ DocumentOnce(policy, r).out = Regular(policy, BeforeCopy(r)).out \o Regular(policy, HeaderLine(r)).out
                                            \o Payload(r) \o DocumentOnce(policy, BehindCopy(r)).out
         /\ DocumentOnce(policy, r).diags = Regular(policy, BeforeCopy(r)).diags
              \cup Displaced(Regular(policy, HeaderLine(r)).diags, Header(r) - 1)
              \cup Displaced(DocumentOnce(policy, BehindCopy(r)).diags, PayloadEnd(r))
BY OnceParts DEF Displaced

(* A text with a payload, when what is left behind it is told.             *)
LEMMA ToldWithCopy ==
  ASSUME Composed, doc \in Seq(Line), NEW a, NEW z, Region(a, z), NEW s, Stands(s, a, z),
         NEW policy, Headers(Text(s, z)) # {},
         \A u \in s + 1 .. z + 1 : Stands(u, a, z) => Told(policy, u, z)
  PROVE  Told(policy, s, z)
<1>1. a \in Nat /\ z \in Nat /\ s \in a .. z + 1 /\ s \in Nat /\ z \in s - 1 .. z
  <2>1. a \in Nat /\ z \in Nat
    BY RegionBounds
  <2>2. QED BY <2>1 DEF Stands
<1>2. PICK r : r = Text(s, z)
  OBVIOUS
<1>3. r \in Seq(Kind) /\ TextFrom(r, s, z)
  BY <1>1, <1>2, TextFromIs
<1>4. PICK h, e : Payloads(s, z, r, h, e) /\ doc[h] \in {"copy", "COPY"} /\ doc[e] = "end" /\ HeaderLine(r) = <<doc[h]>>
  BY <1>2, <1>3, PayloadPlaces
<1>5. /\ BeforeCopy(r) \in Seq(Kind) /\ TextFrom(BeforeCopy(r), s, h - 1)
      /\ Payload(r) \in Seq(Kind) /\ TextFrom(Payload(r), h + 1, e)
      /\ BehindCopy(r) \in Seq(Kind) /\ TextFrom(BehindCopy(r), e + 1, z)
  BY <1>2, <1>3, <1>4, PayloadTexts
<1>6. /\ h \in a .. z /\ e \in a .. z /\ s \in a .. z + 1 /\ IsHeader(h) /\ Stretch(s, h - 1, a, z)
      /\ (\A l \in h + 1 .. e : InPayload(l)) /\ Stands(e + 1, a, z)
  BY <1>2, <1>3, <1>4, PayloadReads
<1>7. h \in s .. z /\ e \in h + 1 .. z /\ h \in Nat /\ e \in Nat
  <2>1. h \in s .. z /\ e \in h + 1 .. z
    BY <1>4 DEF Payloads
  <2>2. QED BY <1>1, <1>6, <2>1
<1>8. e + 1 \in s + 1 .. z + 1 /\ e + 1 \in a .. z + 1 /\ z \in (e + 1) - 1 .. z /\ h + 1 \in a .. z + 1 /\ e \in (h + 1) - 1 .. z
  BY <1>1, <1>6, <1>7
<1>9. Told(policy, e + 1, z)
  BY <1>6, <1>8
<1>10. PICK t : t = Text(e + 1, z)
  OBVIOUS
<1>11. t \in Seq(Kind) /\ TextFrom(t, e + 1, z)
  BY <1>8, <1>10, TextFromIs
<1>12. BehindCopy(r) = t
  BY <1>5, <1>11, SameText
<1>13. PICK b, p, g, x, o : /\ b = BeforeCopy(r) /\ p = Regular(policy, b) /\ g = Regular(policy, <<doc[h]>>)
                            /\ x = DocumentOnce(policy, t) /\ o = DocumentOnce(policy, r)
  OBVIOUS
<1>14. /\ o.ok <=> (p.ok /\ g.ok /\ x.ok)
       /\ o.out = p.out \o g.out \o Payload(r) \o x.out
       /\ o.diags = p.diags \cup Displaced(g.diags, Header(r) - 1) \cup Displaced(x.diags, PayloadEnd(r))
  <2>1. Headers(r) # {} /\ HeaderLine(r) = <<doc[h]>>
    BY <1>2, <1>4
  <2>2. /\ DocumentOnce(policy, r).ok <=> Regular(policy, BeforeCopy(r)).ok /\ Regular(policy, HeaderLine(r)).ok /\ DocumentOnce(policy, BehindCopy(r)).ok
        /\ DocumentOnce(policy, r).out = Regular(policy, BeforeCopy(r)).out \o Regular(policy, HeaderLine(r)).out
                                            \o Payload(r) \o DocumentOnce(policy, BehindCopy(r)).out
        /\ DocumentOnce(policy, r).diags = Regular(policy, BeforeCopy(r)).diags
              \cup Displaced(Regular(policy, HeaderLine(r)).diags, Header(r) - 1)
              \cup Displaced(DocumentOnce(policy, BehindCopy(r)).diags, PayloadEnd(r))
    BY <1>3, <2>1, OnceMoves
  <2>3. QED BY <1>12, <1>13, <2>1, <2>2
<1>15. g.ok /\ g.out = <<"COPY">> /\ \A d \in g.diags : ~ Withholds(d)
  BY <1>4, <1>13, HeaderText, HeaderReports
<1>16. p.ok <=> SoundLines(s, h - 1)
  <2>1. Parses(b) <=> SoundLines(s, h - 1)
    BY <1>5, <1>6, <1>13, StretchParses
  <2>2. p.ok <=> Parses(b)
    BY <1>13 DEF Regular
  <2>3. QED BY <2>1, <2>2
<1>17. /\ x.ok <=> SoundLines(e + 1, z)
       /\ x.ok => x.out = Part(WrittenLines, e + 1, z) /\ Reported(x.diags, policy, e + 1, z)
  BY <1>9, <1>10, <1>13 DEF Told
<1>18. Part(WrittenLines, h, h) = <<"COPY">> /\ WellFormed(h) /\ ~ InPayload(h) /\ doc[h] \notin Unformattable
  BY <1>4, <1>6, HeaderWritten
<1>19. SoundLines(s, z) <=> SoundLines(s, h - 1) /\ SoundLines(e + 1, z)
  <2>1. s \in Int /\ z \in Int
    BY <1>1
  <2>2. QED BY <1>6, <1>7, <1>18, <2>1, SoundAcross
<1>20. o.ok <=> SoundLines(s, z)
  BY <1>14, <1>15, <1>16, <1>17, <1>19
<1>21. ASSUME o.ok PROVE o.out = Part(WrittenLines, s, z) /\ Reported(o.diags, policy, s, z)
  <2>1. p.ok /\ x.ok
    BY <1>14, <1>21
  <2>2. p.out = Part(WrittenLines, s, h - 1) /\ Reported(p.diags, policy, s, h - 1)
    BY <1>5, <1>6, <1>13, <2>1, StretchWritten, StretchReported
  <2>3. Payload(r) = Part(WrittenLines, h + 1, e)
    BY <1>5, <1>6, <1>8, PayloadWritten
  <2>4. o.out = Part(WrittenLines, s, z)
    <3>1. Part(WrittenLines, s, z) = Part(WrittenLines, s, h - 1) \o Part(WrittenLines, h, h)
                                       \o Part(WrittenLines, h + 1, e) \o Part(WrittenLines, e + 1, z)
      BY <1>6, <1>7, PartsWritten
    <3>2. o.out = p.out \o g.out \o Payload(r) \o x.out
      BY <1>14
    <3>3. x.out = Part(WrittenLines, e + 1, z) /\ g.out = Part(WrittenLines, h, h)
      BY <1>15, <1>17, <1>18, <2>1
    <3>4. QED BY <2>2, <2>3, <3>1, <3>2, <3>3
  <2>5. Header(r) - 1 = h - s /\ PayloadEnd(r) = e - s + 1
    <3>1. Header(r) = h - s + 1 /\ PayloadEnd(r) = e - s + 1
      BY <1>4 DEF Payloads
    <3>2. QED BY <1>1, <1>7, <3>1
  <2>6. o.diags = p.diags \cup Displaced(g.diags, h - s) \cup Displaced(x.diags, e - s + 1)
    BY <1>14, <2>5
  <2>7. s \in Int /\ z \in Int /\ ~ Loose(h)
    BY <1>1, <1>18 DEF Loose
  <2>8. PICK D, G, F : D = p.diags /\ G = g.diags /\ F = x.diags
    OBVIOUS
  <2>9. Reported(D, policy, s, h - 1) /\ (\A d \in G : ~ Withholds(d)) /\ Reported(F, policy, e + 1, z)
    BY <1>15, <1>17, <2>1, <2>2, <2>8
  <2>10. Reported(D \cup Displaced(G, h - s) \cup Displaced(F, e - s + 1), policy, s, z)
    BY <1>6, <1>7, <2>7, <2>9, ReportedAcross
  <2>11. QED BY <2>4, <2>6, <2>8, <2>10
<1>22. QED BY <1>2, <1>13, <1>20, <1>21 DEF Told

(* format_document_content_at on what is left of a region. *)
LEMMA ToldAll ==
  ASSUME Composed, doc \in Seq(Line), NEW a, NEW z, Region(a, z), NEW policy
  PROVE  \A s \in a .. z + 1 : Stands(s, a, z) => Told(policy, s, z)
<1> DEFINE T == {s \in a .. z + 1 : Stands(s, a, z) /\ ~ Told(policy, s, z)}
<1> SUFFICES ASSUME T # {} PROVE FALSE
  OBVIOUS
<1>1. a \in Nat /\ z \in Nat
  BY RegionBounds
<1>2. z + 1 \in Nat /\ T \in SUBSET (0 .. z + 1)
  BY <1>1
<1>3. PICK s \in T : \A k \in T : k <= s
  <2> HIDE DEF T
  <2>1. QED BY <1>2, GreatestNatural
<1>4. s \in a .. z + 1 /\ Stands(s, a, z) /\ ~ Told(policy, s, z)
  BY <1>3
<1>5. ASSUME NEW u \in s + 1 .. z + 1, Stands(u, a, z) PROVE Told(policy, u, z)
  <2>1. u \in a .. z + 1 /\ ~ (u <= s)
    BY <1>1, <1>4
  <2>2. u \notin T
    <3> HIDE DEF T
    <3>1. QED BY <1>3, <2>1
  <2>3. QED BY <1>5, <2>1, <2>2
<1> HIDE DEF T
<1>6. CASE Headers(Text(s, z)) = {}
  BY <1>4, <1>6, ToldWithoutCopy
<1>7. CASE Headers(Text(s, z)) # {}
  BY <1>4, <1>5, <1>7, ToldWithCopy
<1>8. QED BY <1>4, <1>6, <1>7

(* So a whole region is.                                                   *)
LEMMA RegionTold ==
  ASSUME Composed, doc \in Seq(Line), NEW a, NEW z, Region(a, z), NEW policy
  PROVE  Told(policy, a, z)
<1>1. a \in a .. z + 1
  <2>1. a \in Nat /\ z \in Nat /\ a - 1 <= z
    BY RegionBounds
  <2>2. QED BY <2>1
<1>2. QED BY <1>1, RegionStands, ToldAll

(* What format_sql answers, by its first pass: the pass it makes over its  *)
(* own output never refuses. *)
LEMMA FormatSqlAnswers ==
  ASSUME NEW policy, NEW r \in Seq(Kind)
  PROVE  LET x == DocumentOnce(policy, r)
         IN  /\ FormatSql(policy, r) # Err <=> x.ok
             /\ x.ok => /\ FormatSql(policy, r).out = IF Withheld(policy, x.diags) THEN r ELSE x.out
                        /\ FormatSql(policy, r).diags = x.diags
<1>1. PICK x, y, f : x = DocumentOnce(policy, r) /\ y = DocumentOnce(policy, x.out) /\ f = FormatSql(policy, r)
  OBVIOUS
<1>2. x.ok => y.ok /\ y.out = x.out
  BY <1>1, OnceSettles DEF OnceKeeps
<1>3. [x EXCEPT !.out = r].out = r /\ [x EXCEPT !.out = r].diags = x.diags
  BY <1>1, OnceRecord
<1>4. \A w : Ok(w) # Err /\ Ok(w).out = w.out /\ Ok(w).diags = w.diags
  <2>1. \A w : "out" \in DOMAIN Ok(w) /\ "out" \notin DOMAIN Err
    BY DEF Ok, Err
  <2>2. QED BY <2>1 DEF Ok
<1>5. f = CASE x.ok /\ Withheld(policy, x.diags) -> Ok([x EXCEPT !.out = r])
            [] x.ok /\ ~ Withheld(policy, x.diags) /\ y.ok /\ y.out = x.out -> Ok(x)
            [] OTHER -> Err
  BY <1>1 DEF FormatSql
<1>6. CASE ~ x.ok
  <2>1. f = Err
    BY <1>5, <1>6
  <2>2. QED BY <1>1, <1>6, <2>1
<1>7. CASE x.ok /\ Withheld(policy, x.diags)
  <2>1. PICK w : w = [x EXCEPT !.out = r]
    OBVIOUS
  <2>2. f = Ok(w)
    BY <1>5, <1>7, <2>1
  <2>3. f # Err /\ f.out = r /\ f.diags = x.diags
    BY <1>3, <1>4, <2>1, <2>2
  <2>4. QED BY <1>1, <1>7, <2>3
<1>8. CASE x.ok /\ ~ Withheld(policy, x.diags)
  <2>1. f = Ok(x)
    BY <1>2, <1>5, <1>8
  <2>2. f # Err /\ f.out = x.out /\ f.diags = x.diags
    BY <1>4, <2>1
  <2>3. QED BY <1>1, <1>8, <2>2
<1>9. QED BY <1>6, <1>7, <1>8

(* Strict mode withholds a text for its unformattable statements. *)
LEMMA WithheldForLoose ==
  ASSUME NEW policy, NEW D, NEW s, NEW y, Reported(D, policy, s, y)
  PROVE  Withheld(policy, D) <=> policy = "error" /\ \E l \in s .. y : Loose(l)
<1>1. ASSUME Withheld(policy, D) PROVE policy = "error" /\ \E l \in s .. y : Loose(l)
  <2>1. policy = "error" /\ \E d \in D : Withholds(d)
    BY <1>1 DEF Withheld, Withholds
  <2>2. QED BY <2>1 DEF Reported
<1>2. ASSUME policy = "error", NEW l \in s .. y, Loose(l) PROVE Withheld(policy, D)
  <2>1. PICK d \in D : Names(d, policy, doc[l], l - s + 1)
    BY <1>2 DEF Reported
  <2>2. d.severity = "error" /\ d.rule \in {"unsupported", "skipped"}
    BY <1>2, <2>1 DEF Names, Severity
  <2>3. QED BY <1>2, <2>2 DEF Withheld
<1>3. QED BY <1>1, <1>2

(* What append_formatted pushes for a region, and what it reports of it. *)
Answered(r, a, z) ==
  LET x == DocumentOnce(options, r)
  IN  /\ Formats(r) <=> SoundLines(a, z)
      /\ SoundLines(a, z) =>
           /\ FormatRegion(options, r).out = IF Withheld(options, x.diags) THEN r ELSE Part(WrittenLines, a, z)
           /\ FormatRegion(options, r).diags = x.diags /\ Reported(x.diags, options, a, z)

(* Every region of a document is answered this way.                        *)
LEMMA RegionAnswered ==
  ASSUME Composed, TypeOK, NEW a, NEW z, Region(a, z)
  PROVE  Text(a, z) \in Seq(Kind) /\ TextFrom(Text(a, z), a, z) /\ Answered(Text(a, z), a, z)
<1>1. doc \in Seq(Line) /\ options \in Options
  BY DEF TypeOK
<1>2. a \in a .. z + 1 /\ z \in a - 1 .. z
  <2>1. a \in Nat /\ z \in Nat /\ a - 1 <= z
    BY <1>1, RegionBounds
  <2>2. QED BY <2>1
<1>3. Text(a, z) \in Seq(Kind) /\ TextFrom(Text(a, z), a, z)
  BY <1>1, <1>2, TextFromIs
<1>4. PICK r, x, f : r = Text(a, z) /\ x = DocumentOnce(options, r) /\ f = FormatSql(options, r)
  OBVIOUS
<1>5. FormatRegion(options, r) = f /\ (FormatRegion(options, r) \in FormattedSql <=> f # Err)
  BY <1>1, <1>3, <1>4, FormatSqlReturns
<1>6. (x.ok <=> SoundLines(a, z)) /\ (x.ok => x.out = Part(WrittenLines, a, z) /\ Reported(x.diags, options, a, z))
  <2>1. Told(options, a, z)
    BY <1>1, RegionTold
  <2>2. QED BY <1>4, <2>1 DEF Told
<1>7. (f # Err <=> x.ok) /\ (x.ok => f.out = (IF Withheld(options, x.diags) THEN r ELSE x.out) /\ f.diags = x.diags)
  BY <1>3, <1>4, FormatSqlAnswers
<1>8. Formats(r) <=> SoundLines(a, z)
  BY <1>5, <1>6, <1>7 DEF Formats
<1>9. SoundLines(a, z) => /\ FormatRegion(options, r).out = IF Withheld(options, x.diags) THEN r ELSE Part(WrittenLines, a, z)
                          /\ FormatRegion(options, r).diags = x.diags /\ Reported(x.diags, options, a, z)
  BY <1>5, <1>6, <1>7
<1>10. QED BY <1>3, <1>4, <1>8, <1>9 DEF Answered

(* What the reference makes of each line. *)
BecomesLines == [l \in 1 .. Len(doc) |-> Becomes(l)]

(* What becomes of each line is a text.                                    *)
LEMMA LinesBecome ==
  ASSUME Composed, doc \in Seq(Line)
  PROVE  Writes(BecomesLines, Len(doc), Line)
<1>1. ASSUME NEW l \in 1 .. Len(doc) PROVE Becomes(l) \in Seq(Line)
  <2>1. doc[l] \in Line
    OBVIOUS
  <2>2. New(doc[l]) \in Seq(Line) /\ <<doc[l]>> \in Seq(Line)
    BY <2>1, KindIsLine
  <2>3. <<>> \in Seq(Line)
    OBVIOUS
  <2>4. Becomes(l) = IF Untouched(l) THEN <<doc[l]>> ELSE IF \A i \in PartOf(l) : doc[i] \in Gap THEN <<>> ELSE New(doc[l])
    BY DEF Becomes, New
  <2>5. QED BY <2>2, <2>3, <2>4
<1>2. Len(doc) \in Nat
  OBVIOUS
<1>3. QED BY <1>1, <1>2 DEF BecomesLines, Writes

(* Lines that come through. *)
LEMMA KeptLines ==
  ASSUME Composed, doc \in Seq(Line), NEW i, NEW j, SpanIn(i, j, Len(doc)), \A l \in i .. j : Untouched(l)
  PROVE  Part(BecomesLines, i, j) = Text(i, j)
<1>1. Len(doc) \in Nat /\ i \in 1 .. Len(doc) + 1 /\ j \in i - 1 .. Len(doc) /\ i \in Nat /\ j \in Int /\ i >= 1 /\ j <= Len(doc)
  <2>1. PICK n : n = Len(doc)
    OBVIOUS
  <2>2. n \in Nat /\ i \in 1 .. n + 1 /\ j \in i - 1 .. n
    BY <2>1 DEF SpanIn
  <2>3. QED BY <2>1, <2>2
<1>2. PICK t : t = Text(i, j)
  OBVIOUS
<1>3. t \in Seq(Line) /\ Len(t) = j - i + 1 /\ \A l \in i .. j : t[l - i + 1] = doc[l]
  BY <1>1, <1>2, TextLines
<1>4. ASSUME NEW k \in 1 .. j - i + 1 PROVE BecomesLines[i + k - 1] = <<t[k]>>
  <2>1. PICK l : l = i + k - 1
    OBVIOUS
  <2>2. l \in i .. j /\ l - i + 1 = k /\ l \in 1 .. Len(doc)
    BY <1>1, <2>1
  <2>3. Becomes(l) = <<doc[l]>>
    BY <2>2 DEF Becomes
  <2>4. t[k] = doc[l]
    BY <1>3, <2>2
  <2>5. QED BY <2>1, <2>2, <2>3, <2>4 DEF BecomesLines
<1>5. Copies(BecomesLines, i, j, t)
  BY <1>3, <1>4 DEF Copies
<1>6. Writes(BecomesLines, Len(doc), Line)
  BY LinesBecome
<1>7. Part(BecomesLines, i, j) = t
  BY <1>3, <1>5, <1>6, PartCopied
<1>8. QED BY <1>2, <1>7

(* The state of a region, over all its lines. *)
LEMMA RegionJudged ==
  ASSUME doc \in Seq(Line), NEW a, NEW z, Region(a, z), NEW l \in a .. z
  PROVE  /\ Sound(l) <=> SoundLines(a, z)
         /\ Blank(l) <=> \A i \in a .. z : doc[i] \in Gap
         /\ Barred(l) <=> options = "error" /\ \E i \in a .. z : Loose(i)
<1>1. RegionOf(l) = a .. z
  BY RegionLines
<1>2. QED BY <1>1 DEF Sound, SoundLines, Blank, Barred, Loose

(* A region of SQL that is formatted, in a document without the file-ignore *)
(* marker. *)
ActiveStretch(a, z) == Markers = {} /\ Region(a, z) /\ \A l \in a .. z : ~ Between(l)

(* An active region is pushed as the reference says, line by line.         *)
LEMMA ActiveLines ==
  ASSUME Composed, TypeOK, NEW a, NEW z, ActiveStretch(a, z)
  PROVE  RegionText(a, z) = Part(BecomesLines, a, z)
<1>1. doc \in Seq(Line) /\ Region(a, z) /\ Markers = {}
  BY DEF TypeOK, ActiveStretch
<1>2. PICK r, x : r = Text(a, z) /\ x = DocumentOnce(options, r)
  OBVIOUS
<1>3. r \in Seq(Kind) /\ TextFrom(r, a, z) /\ Answered(r, a, z)
  BY <1>1, <1>2, RegionAnswered
<1>4. AllBlank(r) <=> \A l \in a .. z : doc[l] \in Gap
  <2>1. BlankLine = Gap
    BY DEF Composed
  <2>2. QED BY <1>3, <2>1 DEF AllBlank, TextFrom
<1>5. SpanIn(a, z, Len(doc))
  BY <1>1, RegionBounds DEF SpanIn, Region
<1>6. (\A l \in a .. z : Untouched(l)) => Part(BecomesLines, a, z) = r
  BY <1>1, <1>2, <1>5, KeptLines
<1>7. CASE AllBlank(r)
  <2>1. \A l \in a .. z : Untouched(l)
    BY <1>1, <1>4, <1>7, RegionJudged DEF Untouched
  <2>2. RegionText(a, z) = r
    BY <1>2, <1>7 DEF RegionText, Preserved
  <2>3. QED BY <1>6, <2>1, <2>2
<1>8. CASE ~ SoundLines(a, z)
  <2>1. \A l \in a .. z : Untouched(l)
    BY <1>1, <1>8, RegionJudged DEF Untouched
  <2>2. RegionText(a, z) = r
    BY <1>2, <1>3, <1>8 DEF RegionText, Preserved, Answered
  <2>3. QED BY <1>6, <2>1, <2>2
<1>9. CASE ~ AllBlank(r) /\ SoundLines(a, z)
  <2>1. RegionText(a, z) = IF Withheld(options, x.diags) THEN r ELSE Part(WrittenLines, a, z)
    BY <1>2, <1>3, <1>9 DEF RegionText, Preserved, Answered
  <2>2. Reported(x.diags, options, a, z)
    BY <1>2, <1>3, <1>9 DEF Answered
  <2>3. Withheld(options, x.diags) <=> options = "error" /\ \E l \in a .. z : Loose(l)
    BY <2>2, WithheldForLoose
  <2>4. CASE Withheld(options, x.diags)
    <3>1. \A l \in a .. z : Untouched(l)
      BY <1>1, <2>3, <2>4, RegionJudged DEF Untouched
    <3>2. QED BY <1>6, <2>1, <2>4, <3>1
  <2>5. CASE ~ Withheld(options, x.diags)
    <3>1. ASSUME NEW l \in a .. z PROVE Becomes(l) = Written(l)
      <4>1. ~ Barred(l) /\ Sound(l) /\ ~ Blank(l)
        BY <1>1, <1>4, <1>9, <2>3, <2>5, RegionJudged
      <4>2. ~ Between(l) /\ doc[l] \notin Directives
        BY DEF ActiveStretch, Region
      <4>3. Untouched(l) <=> InPayload(l)
        BY <1>1, <4>1, <4>2 DEF Untouched
      <4>4. Becomes(l) = IF Untouched(l) THEN <<doc[l]>> ELSE IF \A i \in PartOf(l) : doc[i] \in Gap THEN <<>> ELSE New(doc[l])
        BY DEF Becomes, New
      <4>5. QED BY <4>3, <4>4 DEF Written
    <3>2. \A l \in a .. z : BecomesLines[l] = WrittenLines[l]
      <4>1. \A l \in a .. z : l \in 1 .. Len(doc)
        BY <1>1, RegionBounds
      <4>2. QED BY <3>1, <4>1 DEF BecomesLines, WrittenLines
    <3>3. LinesAt(BecomesLines, a, z) = LinesAt(WrittenLines, a, z)
      <4>1. a \in Nat /\ z \in Nat
        BY <1>1, RegionBounds
      <4>2. \A k \in 1 .. z - a + 1 : a + k - 1 \in a .. z
        BY <4>1
      <4>3. QED BY <3>2, <4>2 DEF LinesAt
    <3>4. QED BY <2>1, <2>5, <3>3 DEF Part
  <2>6. QED BY <2>4, <2>5
<1>10. QED BY <1>7, <1>8, <1>9

(* The finding that reports line l. *)
Answers(d, l) ==
  /\ d.rule = IF ~ Sound(l) THEN "failure" ELSE IF doc[l] = "skip" THEN "skipped" ELSE "unsupported"
  /\ d.first <= l /\ l <= d.last

(* ... and each of its unformattable statements is reported at its line.   *)
LEMMA ActiveReports ==
  ASSUME Composed, TypeOK, NEW a, NEW z, ActiveStretch(a, z), NEW l \in a .. z, Loose(l)
  PROVE  \E d \in RegionDiags(a, z) : Answers(d, l)
<1>1. doc \in Seq(Line) /\ Region(a, z)
  BY DEF TypeOK, ActiveStretch
<1>2. PICK r, x : r = Text(a, z) /\ x = DocumentOnce(options, r)
  OBVIOUS
<1>3. r \in Seq(Kind) /\ TextFrom(r, a, z) /\ Answered(r, a, z)
  BY <1>1, <1>2, RegionAnswered
<1>4. a \in Nat /\ z \in Nat /\ l \in Int /\ a <= l /\ l <= z
  BY <1>1, RegionBounds
<1>5. ~ AllBlank(r)
  <2>1. BlankLine = Gap /\ doc[l] \notin Gap
    BY DEF Composed, Loose, Unformattable, Gap
  <2>2. r[l - a + 1] = doc[l] /\ l - a + 1 \in DOMAIN r
    BY <1>3 DEF TextFrom
  <2>3. QED BY <2>1, <2>2 DEF AllBlank
<1>6. Sound(l) <=> SoundLines(a, z)
  BY <1>1, RegionJudged
<1>7. CASE ~ SoundLines(a, z)
  <2>1. ~ Formats(r)
    BY <1>3, <1>7 DEF Answered
  <2>2. RegionDiags(a, z) = {Shifted(d, Offset(a)) : d \in {FailedRegion(r)}}
    BY <1>2, <1>5, <2>1 DEF RegionDiags
  <2>3. PICK d : d = Shifted(FailedRegion(r), Offset(a))
    OBVIOUS
  <2>4. d \in RegionDiags(a, z)
    BY <2>2, <2>3
  <2>5. d.rule = "failure" /\ d.first = 1 + (a - 1) /\ d.last = Len(r) + (a - 1)
    BY <2>3 DEF Shifted, FailedRegion, Finding, Offset
  <2>6. Len(r) = z - a + 1
    BY <1>3 DEF TextFrom
  <2>7. d.first <= l /\ l <= d.last
    BY <1>4, <2>5, <2>6
  <2>8. QED BY <1>6, <1>7, <2>4, <2>5, <2>7 DEF Answers
<1>8. CASE SoundLines(a, z)
  <2>1. Formats(r) /\ FormatRegion(options, r).diags = x.diags /\ Reported(x.diags, options, a, z)
    BY <1>2, <1>3, <1>8 DEF Answered
  <2>2. RegionDiags(a, z) = {Shifted(d, Offset(a)) : d \in x.diags}
    BY <1>2, <1>5, <2>1 DEF RegionDiags
  <2>3. PICK c \in x.diags : Names(c, options, doc[l], l - a + 1)
    BY <2>1 DEF Reported
  <2>4. PICK d : d = Shifted(c, Offset(a))
    OBVIOUS
  <2>5. d \in RegionDiags(a, z)
    BY <2>2, <2>4
  <2>6. d.rule = c.rule /\ d.first = (l - a + 1) + (a - 1) /\ d.last = (l - a + 1) + (a - 1)
    BY <2>3, <2>4 DEF Shifted, Finding, Offset, Names
  <2>7. d.first <= l /\ l <= d.last
    BY <1>4, <2>6
  <2>8. c.rule = IF doc[l] = "skip" THEN "skipped" ELSE "unsupported"
    BY <2>3 DEF Names
  <2>9. QED BY <1>6, <1>8, <2>5, <2>6, <2>7, <2>8 DEF Answers
<1>9. QED BY <1>7, <1>8

-----------------------------------------------------------------------------
(***************************************************************************)
(* The walk, line by line.                                                 *)
(***************************************************************************)
(* A directive, or the start, lies before the text the walk has not pushed. *)
EdgeInv ==
  /\ state = "active" => from = 1 \/ doc[from - 1] \in Directives
  /\ state = "ignored" => from > 1 /\ doc[from - 1] \in OffLine

WrittenInv ==
  /\ state \in {"active", "ignored"} => output = Part(BecomesLines, 1, from - 1)
  /\ (state = "done" /\ result = "ok") => output = Part(BecomesLines, 1, Len(doc))

ToReport(l) == Loose(l) /\ ~ Between(l)
ReportedUpto(n) == \A l \in 1 .. n : ToReport(l) => \E d \in diags : Answers(d, l)
ReportInv ==
  /\ state \in {"active", "ignored"} => ReportedUpto(from - 1)
  /\ (state = "done" /\ result = "ok" /\ Markers = {}) => ReportedUpto(Len(doc))

LineInv == EdgeInv /\ WrittenInv /\ ReportInv

(* Where a directive or the end of the document ends the active text, that *)
(* text is a region. *)
LEMMA ActiveRegion ==
  ASSUME Composed, IInv, JInv, EdgeInv, state = "active", at = Len(doc) + 1 \/ doc[at] \in Directives
  PROVE  ActiveStretch(from, at - 1)
<1>1. /\ doc \in Seq(Line) /\ Len(doc) \in Nat /\ DOMAIN doc = 1 .. Len(doc)
      /\ at \in 1 .. Len(doc) + 1 /\ from \in 1 .. at /\ at \in Nat /\ from \in Nat
  BY DEF IInv, TypeOK
<1>2. Quiet /\ Closed /\ Markers = {}
  BY DEF IInv, JInv, BalanceInv
<1>3. from \in 1 .. Len(doc) + 1 /\ at - 1 \in from - 1 .. Len(doc) /\ (at - 1) + 1 = at
  BY <1>1
<1>4. \A l \in from .. at - 1 : l \in 1 .. Len(doc)
  BY <1>1
<1>5. ASSUME NEW l \in from .. at - 1 PROVE doc[l] \notin Directives
  <2>1. doc[l] \notin OffLine \cup OnLine
    BY <1>2 DEF Quiet
  <2>2. doc[l] \notin IgnoreLine
    BY <1>1, <1>2, <1>4 DEF Markers
  <2>3. QED BY <2>1, <2>2, PlainIsKind
<1>6. from = 1 \/ doc[from - 1] \in Directives
  BY DEF EdgeInv
<1>7. at - 1 = Len(doc) \/ doc[(at - 1) + 1] \in Directives
  BY <1>1, <1>3
<1>8. Region(from, at - 1)
  BY <1>3, <1>5, <1>6, <1>7 DEF Region
<1>9. ASSUME NEW l \in from .. at - 1, Between(l) PROVE FALSE
  <2>1. PICK i \in 1 .. l : doc[i] \in OffLine /\ \A j \in i .. l - 1 : doc[j] \notin OnLine
    BY <1>9 DEF Between
  <2>2. i \notin from .. at - 1
    BY <1>2, <2>1 DEF Quiet
  <2>3. i \in 1 .. from - 1
    BY <1>1, <2>2
  <2>4. PICK j \in i .. from - 1 : doc[j] \in OnLine
    BY <1>2, <2>1, <2>3 DEF Closed
  <2>5. j \in i .. l - 1
    BY <1>1, <2>3
  <2>6. QED BY <2>1, <2>4, <2>5
<1>10. QED BY <1>2, <1>8, <1>9 DEF ActiveStretch

(* The ignored text lies behind an off line. *)
LEMMA IgnoredBetween ==
  ASSUME Composed, IInv, EdgeInv, state = "ignored", NEW l \in from .. at
  PROVE  Between(l)
<1>1. /\ Len(doc) \in Nat /\ at \in Nat /\ from \in Nat /\ from > 1 /\ doc[from - 1] \in OffLine /\ Quiet
  BY DEF IInv, TypeOK, EdgeInv
<1>2. OffLine \cap OnLine = {}
  BY DEF Composed
<1>3. PICK i : i = from - 1
  OBVIOUS
<1>4. i \in 1 .. l /\ doc[i] \in OffLine /\ doc[i] \notin OnLine
  BY <1>1, <1>2, <1>3
<1>5. ASSUME NEW j \in i .. l - 1 PROVE doc[j] \notin OnLine
  <2>1. j = i \/ j \in from .. at - 1
    BY <1>1, <1>3
  <2>2. QED BY <1>1, <1>4, <2>1 DEF Quiet
<1>6. QED BY <1>4, <1>5 DEF Between

(* The reference reads the document and the options, and nothing else.     *)
LEMMA LinesFramed ==
  ASSUME UNCHANGED <<doc, options>>
  PROVE  /\ BecomesLines' = BecomesLines /\ Len(doc)' = Len(doc) /\ Markers' = Markers
         /\ \A l : ToReport(l)' <=> ToReport(l)
         /\ \A d, l : Answers(d, l)' <=> Answers(d, l)
<1>1. ASSUME NEW l PROVE Becomes(l)' = Becomes(l) /\ (ToReport(l)' <=> ToReport(l))
  BY DEF ReadingData, StartsHere, RegionOf, SameRegion, Becomes, Untouched, Between, InPayload, Blank, Sound, Barred,
         Markers, WellFormed, PartOf, IsHeader, ToReport, Loose
<1>2. ASSUME NEW d, NEW l PROVE Answers(d, l)' <=> Answers(d, l)
  BY DEF ReadingData, StartsHere, RegionOf, SameRegion, InPayload, Sound, WellFormed, PartOf, IsHeader, Answers
<1>3. Markers' = Markers /\ Len(doc)' = Len(doc)
  BY DEF Markers
<1>4. BecomesLines' = BecomesLines
  BY <1>1 DEF BecomesLines
<1>5. QED BY <1>1, <1>2, <1>3, <1>4

(* The text of lines n + 1 to m behind that of the lines up to n. *)
LEMMA PushedLines ==
  ASSUME Composed, doc \in Seq(Line), NEW n \in Nat, NEW m \in n .. Len(doc), NEW out,
         out = Part(BecomesLines, 1, n) \o Part(BecomesLines, n + 1, m)
  PROVE  out = Part(BecomesLines, 1, m)
<1>1. Writes(BecomesLines, Len(doc), Line)
  BY LinesBecome
<1>2. SpanIn(1, n, Len(doc)) /\ SpanIn(n + 1, m, Len(doc))
  BY DEF SpanIn
<1>3. Abuts(BecomesLines, 1, n, m)
  BY <1>1, <1>2, PartAbuts
<1>4. QED BY <1>3 DEF Abuts

(* A directive comes through.                                              *)
LEMMA LineOfADirective ==
  ASSUME Composed, doc \in Seq(Line), NEW l \in 1 .. Len(doc), doc[l] \in Directives
  PROVE  Text(l, l) = Part(BecomesLines, l, l) /\ ~ ToReport(l)
<1>1. Untouched(l)
  BY DEF Untouched
<1>2. SpanIn(l, l, Len(doc)) /\ \A i \in l .. l : Untouched(i)
  <2>1. Len(doc) \in Nat
    OBVIOUS
  <2>2. QED BY <1>1, <2>1 DEF SpanIn
<1>3. ~ ToReport(l)
  BY DEF ToReport, Loose, Unformattable, Directives
<1>4. QED BY <1>2, <1>3, KeptLines

(* The walk is inside the document.                                        *)
LEMMA WalkBounds ==
  ASSUME IInv, state \in {"active", "ignored"}
  PROVE  /\ doc \in Seq(Line) /\ Len(doc) \in Nat /\ at \in Nat /\ from \in Nat /\ 1 <= from /\ from <= at
         /\ at <= Len(doc) + 1 /\ output \in Seq(Line)
BY DEF IInv, TypeOK

(* The file-ignore marker copies the document; otherwise nothing is pushed. *)
LEMMA StartLines == Composed /\ IInv /\ LineInv /\ Start => LineInv'
<1> SUFFICES ASSUME Composed, IInv, LineInv, Start PROVE LineInv'
  OBVIOUS
<1>1. doc \in Seq(Line) /\ Len(doc) \in Nat /\ UNCHANGED <<doc, options>> /\ at = 1 /\ from = 1 /\ output = <<>> /\ from' = 1
  BY DEF IInv, TypeOK, Start
<1>2. BecomesLines' = BecomesLines /\ Len(doc)' = Len(doc) /\ Markers' = Markers
  BY <1>1, LinesFramed
<1>3. CASE Markers # {}
  <2>1. state' = "done"
    BY <1>3 DEF Start, Stop
  <2>2. result' = "ok" => output' = doc
    BY <1>3 DEF Start, Stop
  <2>3. \A l \in 1 .. Len(doc) : Untouched(l)
    BY <1>3 DEF Untouched
  <2>4. SpanIn(1, Len(doc), Len(doc))
    BY <1>1 DEF SpanIn
  <2>5. Part(BecomesLines, 1, Len(doc)) = Text(1, Len(doc))
    BY <1>1, <2>3, <2>4, KeptLines
  <2>6. Text(1, Len(doc)) = doc
    BY <1>1 DEF Text
  <2>7. QED BY <1>2, <1>3, <2>1, <2>2, <2>5, <2>6 DEF LineInv, EdgeInv, WrittenInv, ReportInv
<1>4. CASE Markers = {}
  <2>1. state' = "active" /\ output' = <<>>
    BY <1>1, <1>4 DEF Start
  <2>2. Part(BecomesLines, 1, 0) = <<>>
    <3>1. Writes(BecomesLines, Len(doc), Line) /\ SpanIn(1, 0, Len(doc))
      BY <1>1, LinesBecome DEF SpanIn
    <3>2. \A l \in 1 .. 0 : BecomesLines[l] = <<>>
      OBVIOUS
    <3>3. QED BY <3>1, <3>2, PartNothing
  <2>3. from' - 1 = 0
    BY <1>1
  <2>4. EdgeInv'
    BY <1>1, <2>1 DEF EdgeInv
  <2>5. WrittenInv'
    BY <1>2, <2>1, <2>2, <2>3 DEF WrittenInv
  <2>6. ReportInv'
    BY <2>1, <2>3 DEF ReportInv, ReportedUpto
  <2>7. QED BY <2>4, <2>5, <2>6 DEF LineInv
<1>5. QED BY <1>3, <1>4

(* A line that is no off or on line is left for later.                     *)
LEMMA OtherLineLines == Composed /\ IInv /\ LineInv /\ OtherLine => LineInv'
<1> SUFFICES ASSUME Composed, IInv, LineInv, OtherLine PROVE LineInv'
  OBVIOUS
<1>1. UNCHANGED <<doc, options, state, from, output, diags, result>>
  BY DEF OtherLine
<1>2. /\ BecomesLines' = BecomesLines /\ Len(doc)' = Len(doc) /\ Markers' = Markers
      /\ \A l : ToReport(l)' <=> ToReport(l)
      /\ \A d, l : Answers(d, l)' <=> Answers(d, l)
  BY <1>1, LinesFramed
<1>3. EdgeInv'
  BY <1>1 DEF LineInv, EdgeInv
<1>4. WrittenInv'
  BY <1>1, <1>2 DEF LineInv, WrittenInv
<1>5. ReportInv'
  BY <1>1, <1>2 DEF LineInv, ReportInv, ReportedUpto
<1>6. QED BY <1>3, <1>4, <1>5 DEF LineInv

(* The second pass starts afresh.                                          *)
LEMMA SecondPassLines == SecondPass => LineInv'
<1> SUFFICES ASSUME SecondPass PROVE LineInv'
  OBVIOUS
<1>1. state' = "start"
  BY DEF SecondPass
<1>2. QED BY <1>1 DEF LineInv, EdgeInv, WrittenInv, ReportInv

(* The findings so far, with those of the region pushed. *)
LEMMA MoreReported ==
  ASSUME Composed, IInv, state = "active", ActiveStretch(from, at - 1), ReportedUpto(from - 1)
  PROVE  \A l \in 1 .. at - 1 : ToReport(l) => \E d \in diags \cup RegionDiags(from, at - 1) : Answers(d, l)
<1>1. at \in Nat /\ from \in Nat /\ 1 <= from /\ from <= at
  BY WalkBounds
<1>2. SUFFICES ASSUME NEW l \in 1 .. at - 1, ToReport(l) PROVE \E d \in diags \cup RegionDiags(from, at - 1) : Answers(d, l)
  OBVIOUS
<1>3. CASE l \in 1 .. from - 1
  BY <1>2, <1>3 DEF ReportedUpto
<1>4. CASE l \in from .. at - 1
  <2>1. TypeOK /\ Loose(l)
    BY <1>2 DEF IInv, ToReport
  <2>2. \E d \in RegionDiags(from, at - 1) : Answers(d, l)
    BY <1>4, <2>1, ActiveReports
  <2>3. QED BY <2>2
<1>5. QED BY <1>1, <1>3, <1>4

(* ... and the text. *)
LEMMA RegionPushed ==
  ASSUME Composed, IInv, state = "active", ActiveStretch(from, at - 1), output = Part(BecomesLines, 1, from - 1)
  PROVE  output \o RegionText(from, at - 1) = Part(BecomesLines, 1, at - 1)
<1>1. /\ doc \in Seq(Line) /\ Len(doc) \in Nat /\ at \in Nat /\ from \in Nat /\ 1 <= from /\ from <= at
      /\ at <= Len(doc) + 1
  BY WalkBounds
<1>2. PICK n, m : n = from - 1 /\ m = at - 1
  OBVIOUS
<1>3. n \in Nat /\ m \in n .. Len(doc) /\ n + 1 = from
  BY <1>1, <1>2
<1>4. RegionText(from, m) = Part(BecomesLines, n + 1, m)
  BY <1>2, <1>3, ActiveLines DEF IInv
<1>5. PICK out : out = output \o RegionText(from, m)
  OBVIOUS
<1>6. out = Part(BecomesLines, 1, n) \o Part(BecomesLines, n + 1, m)
  BY <1>2, <1>4, <1>5
<1>7. out = Part(BecomesLines, 1, m)
  BY <1>1, <1>3, <1>6, PushedLines
<1>8. QED BY <1>2, <1>5, <1>7

(* An off line: the region before it is formatted and reported.            *)
LEMMA OffLines == Composed /\ IInv /\ JInv /\ LineInv /\ Off => LineInv'
<1> SUFFICES ASSUME Composed, IInv, JInv, LineInv, Off PROVE LineInv'
  OBVIOUS
<1>1. /\ doc \in Seq(Line) /\ Len(doc) \in Nat /\ at \in Nat /\ from \in Nat /\ 1 <= from /\ from <= at
      /\ at <= Len(doc) + 1
  BY WalkBounds DEF Off, Here
<1>2. UNCHANGED <<doc, options>> /\ at \in DOMAIN doc /\ doc[at] \in OffLine
  BY DEF Off, Here
<1>3. /\ BecomesLines' = BecomesLines /\ Len(doc)' = Len(doc) /\ Markers' = Markers
      /\ \A l : ToReport(l)' <=> ToReport(l)
      /\ \A d, l : Answers(d, l)' <=> Answers(d, l)
  BY <1>2, LinesFramed
<1>4. CASE state = "ignored"
  <2>1. state' = "done" /\ result' = "nested"
    BY <1>4 DEF Off, Stop
  <2>2. QED BY <2>1 DEF LineInv, EdgeInv, WrittenInv, ReportInv
<1>5. CASE state = "active"
  <2>1. /\ output' = output \o RegionText(from, at - 1) \o Text(at, at)
        /\ diags' = diags \cup RegionDiags(from, at - 1)
        /\ state' = "ignored" /\ from' = at + 1
    BY <1>5 DEF Off, DirectiveText, NextLine
  <2>2. doc[at] \in Directives /\ at \in 1 .. Len(doc)
    BY <1>1, <1>2, PlainIsKind
  <2>3. ActiveStretch(from, at - 1)
    BY <1>5, <2>2, ActiveRegion DEF LineInv
  <2>4. output \o RegionText(from, at - 1) = Part(BecomesLines, 1, at - 1)
    BY <1>5, <2>3, RegionPushed DEF LineInv, WrittenInv
  <2>5. Text(at, at) = Part(BecomesLines, at, at) /\ ~ ToReport(at)
    BY <1>1, <2>2, LineOfADirective
  <2>6. output' = Part(BecomesLines, 1, at)
    <3>1. PICK n : n = at - 1
      OBVIOUS
    <3>2. n \in Nat /\ n + 1 = at /\ at \in n .. Len(doc)
      BY <1>1, <2>2, <3>1
    <3>3. output' = Part(BecomesLines, 1, n) \o Part(BecomesLines, n + 1, at)
      BY <2>1, <2>4, <2>5, <3>1, <3>2
    <3>4. PICK out : out = output'
      OBVIOUS
    <3>5. out = Part(BecomesLines, 1, at)
      BY <1>1, <3>2, <3>3, <3>4, PushedLines
    <3>6. QED BY <3>4, <3>5
  <2>7. from' - 1 = at /\ from' > 1
    BY <1>1, <2>1, <2>2
  <2>8. EdgeInv'
    BY <1>2, <2>1, <2>7 DEF EdgeInv
  <2>9. WrittenInv'
    BY <1>3, <2>1, <2>6, <2>7 DEF WrittenInv
  <2>10. ReportInv'
    <3>1. \A l \in 1 .. at - 1 : ToReport(l) => \E d \in diags' : Answers(d, l)
      BY <1>5, <2>1, <2>3, MoreReported DEF LineInv, ReportInv
    <3>2. \A l \in 1 .. at : l \in 1 .. at - 1 \/ l = at
      BY <1>1
    <3>3. \A l \in 1 .. at : ToReport(l) => \E d \in diags' : Answers(d, l)
      BY <2>5, <3>1, <3>2
    <3>4. ReportedUpto(from - 1)'
      BY <1>3, <2>7, <3>3 DEF ReportedUpto
    <3>5. QED BY <2>1, <3>4 DEF ReportInv
  <2>11. QED BY <2>8, <2>9, <2>10 DEF LineInv
<1>6. QED BY <1>4, <1>5 DEF Off

(* An on line: the ignored text before it is copied.                       *)
LEMMA OnLines == Composed /\ IInv /\ LineInv /\ On => LineInv'
<1> SUFFICES ASSUME Composed, IInv, LineInv, On PROVE LineInv'
  OBVIOUS
<1>1. /\ doc \in Seq(Line) /\ Len(doc) \in Nat /\ at \in Nat /\ from \in Nat /\ 1 <= from /\ from <= at
      /\ at <= Len(doc) + 1 /\ output \in Seq(Line)
  BY WalkBounds DEF On, Here
<1>2. UNCHANGED <<doc, options, diags>> /\ at \in DOMAIN doc /\ doc[at] \in OnLine
  BY DEF On, Here
<1>3. /\ BecomesLines' = BecomesLines /\ Len(doc)' = Len(doc) /\ Markers' = Markers
      /\ \A l : ToReport(l)' <=> ToReport(l)
      /\ \A d, l : Answers(d, l)' <=> Answers(d, l)
  BY <1>2, LinesFramed
<1>4. CASE state = "active"
  <2>1. state' = "done" /\ result' = "unmatched_on"
    BY <1>4 DEF On, Stop
  <2>2. QED BY <2>1 DEF LineInv, EdgeInv, WrittenInv, ReportInv
<1>5. CASE state = "ignored"
  <2>1. output' = output \o Text(from, at - 1) \o Text(at, at) /\ state' = "active" /\ from' = at + 1
    BY <1>5 DEF On, IgnoredText, DirectiveText, NextLine, ResumeAt
  <2>2. doc[at] \in Directives /\ at \in 1 .. Len(doc)
    BY <1>1, <1>2, PlainIsKind
  <2>3. \A l \in from .. at : Between(l)
    BY <1>5, IgnoredBetween DEF LineInv
  <2>4. \A l \in from .. at - 1 : Untouched(l)
    <3>1. \A l \in from .. at - 1 : l \in from .. at
      BY <1>1
    <3>2. QED BY <2>3, <3>1 DEF Untouched
  <2>5. SpanIn(from, at - 1, Len(doc))
    <3>1. PICK n : n = Len(doc)
      OBVIOUS
    <3>2. n \in Nat /\ at \in Nat /\ from \in Nat /\ 1 <= from /\ from <= at /\ at <= n + 1
      BY <1>1, <3>1
    <3>3. from \in 1 .. n + 1 /\ at - 1 \in from - 1 .. n
      BY <3>2
    <3>4. QED BY <3>1, <3>3 DEF SpanIn
  <2>6. Text(from, at - 1) = Part(BecomesLines, from, at - 1)
    BY <1>1, <2>4, <2>5, KeptLines
  <2>7. Text(at, at) = Part(BecomesLines, at, at)
    BY <1>1, <2>2, LineOfADirective
  <2>8. output' = Part(BecomesLines, 1, at)
    <3>1. PICK n, m, x, y : n = from - 1 /\ m = at - 1 /\ x = output \o Text(from, at - 1) /\ y = output'
      OBVIOUS
    <3>2. n \in Nat /\ n + 1 = from /\ m \in n .. Len(doc) /\ m \in Nat /\ m + 1 = at /\ at \in m .. Len(doc)
      BY <1>1, <2>2, <3>1
    <3>3. x = Part(BecomesLines, 1, n) \o Part(BecomesLines, n + 1, m)
      BY <1>5, <2>6, <3>1, <3>2 DEF LineInv, WrittenInv
    <3>4. x = Part(BecomesLines, 1, m)
      BY <1>1, <3>2, <3>3, PushedLines
    <3>5. y = Part(BecomesLines, 1, m) \o Part(BecomesLines, m + 1, at)
      BY <2>1, <2>7, <3>1, <3>2, <3>4
    <3>6. y = Part(BecomesLines, 1, at)
      BY <1>1, <3>2, <3>5, PushedLines
    <3>7. QED BY <3>1, <3>6
  <2>9. from' - 1 = at
    BY <1>1, <2>1
  <2>10. EdgeInv'
    BY <1>2, <2>1, <2>2, <2>9 DEF EdgeInv
  <2>11. WrittenInv'
    BY <1>3, <2>1, <2>8, <2>9 DEF WrittenInv
  <2>12. ReportInv'
    <3>1. ReportedUpto(from - 1)
      BY <1>5 DEF LineInv, ReportInv
    <3>2. \A l \in 1 .. at : l \in 1 .. from - 1 \/ l \in from .. at
      BY <1>1
    <3>3. \A l \in 1 .. at : ToReport(l) => \E d \in diags' : Answers(d, l)
      BY <1>2, <2>3, <3>1, <3>2 DEF ReportedUpto, ToReport
    <3>4. ReportedUpto(from - 1)'
      BY <1>3, <2>9, <3>3 DEF ReportedUpto
    <3>5. QED BY <2>1, <3>4 DEF ReportInv
  <2>13. QED BY <2>10, <2>11, <2>12 DEF LineInv
<1>6. QED BY <1>4, <1>5 DEF On

(* The end of the document: the last region is formatted and reported.     *)
LEMMA EndLines == Composed /\ IInv /\ JInv /\ LineInv /\ End => LineInv'
<1> SUFFICES ASSUME Composed, IInv, JInv, LineInv, End PROVE LineInv'
  OBVIOUS
<1>1. /\ doc \in Seq(Line) /\ Len(doc) \in Nat /\ at \in Nat /\ from \in Nat /\ 1 <= from /\ from <= at
      /\ at = Len(doc) + 1 /\ at - 1 = Len(doc)
  <2>1. at = Len(doc) + 1
    BY DEF End
  <2>2. QED BY <2>1, WalkBounds DEF End
<1>2. UNCHANGED <<doc, options>> /\ state' = "done"
  BY DEF End, Stop
<1>3. /\ BecomesLines' = BecomesLines /\ Len(doc)' = Len(doc) /\ Markers' = Markers
      /\ \A l : ToReport(l)' <=> ToReport(l)
      /\ \A d, l : Answers(d, l)' <=> Answers(d, l)
  BY <1>2, LinesFramed
<1>4. EdgeInv'
  BY <1>2 DEF EdgeInv
<1>5. CASE state = "ignored"
  <2>1. result' = "unmatched_off"
    BY <1>5 DEF End, Stop
  <2>2. QED BY <1>2, <1>4, <2>1 DEF LineInv, WrittenInv, ReportInv
<1>6. CASE state = "active"
  <2>1. output' = output \o RegionText(from, at - 1) /\ diags' = diags \cup RegionDiags(from, at - 1)
    BY <1>1, <1>6 DEF End
  <2>2. ActiveStretch(from, at - 1)
    BY <1>1, <1>6, ActiveRegion DEF LineInv
  <2>3. output' = Part(BecomesLines, 1, Len(doc))
    BY <1>1, <1>6, <2>1, <2>2, RegionPushed DEF LineInv, WrittenInv
  <2>4. WrittenInv'
    BY <1>2, <1>3, <2>3 DEF WrittenInv
  <2>5. \A l \in 1 .. Len(doc) : ToReport(l) => \E d \in diags' : Answers(d, l)
    BY <1>1, <1>6, <2>1, <2>2, MoreReported DEF LineInv, ReportInv
  <2>6. ReportedUpto(Len(doc))'
    BY <1>3, <2>5 DEF ReportedUpto
  <2>7. ReportInv'
    BY <1>2, <2>6 DEF ReportInv
  <2>8. QED BY <1>4, <2>4, <2>7 DEF LineInv
<1>7. QED BY <1>5, <1>6 DEF End

(* The walk starts with nothing pushed.                                    *)
LEMMA InitLines == Init => LineInv
<1> SUFFICES ASSUME Init PROVE LineInv
  OBVIOUS
<1>1. state = "start"
  BY DEF Init
<1>2. QED BY <1>1 DEF LineInv, EdgeInv, WrittenInv, ReportInv

(* Every step keeps what is pushed line by line, and reported.             *)
LEMMA NextLines == Composed /\ IInv /\ JInv /\ LineInv /\ [Next]_vars => LineInv'
<1> SUFFICES ASSUME Composed, IInv, JInv, LineInv, [Next]_vars PROVE LineInv'
  OBVIOUS
<1>1. CASE UNCHANGED vars
  <2>1. UNCHANGED <<doc, options, state, from, output, diags, result>>
    BY <1>1 DEF vars
  <2>2. /\ BecomesLines' = BecomesLines /\ Len(doc)' = Len(doc) /\ Markers' = Markers
        /\ \A l : ToReport(l)' <=> ToReport(l)
        /\ \A d, l : Answers(d, l)' <=> Answers(d, l)
    BY <2>1, LinesFramed
  <2>3. EdgeInv'
    BY <2>1 DEF LineInv, EdgeInv
  <2>4. WrittenInv'
    BY <2>1, <2>2 DEF LineInv, WrittenInv
  <2>5. ReportInv'
    BY <2>1, <2>2 DEF LineInv, ReportInv, ReportedUpto
  <2>6. QED BY <2>3, <2>4, <2>5 DEF LineInv
<1>2. CASE Next
  BY <1>2, StartLines, OffLines, OnLines, OtherLineLines, EndLines, SecondPassLines DEF Next
<1>3. QED BY <1>1, <1>2

(* User guide and core spec 5.3, for every document, of any length, with   *)
(* any regions, directives and COPY payloads: ignored source, payloads,    *)
(* unformattable statements and regions the parser does not accept come    *)
(* through, and every other statement is formatted in its place, as the    *)
(* reference that looks at each line without regions or passes says.       *)
THEOREM EachLineFormatted == Composed => (Spec => []LineByLine)
<1> SUFFICES ASSUME Composed PROVE Spec => []LineByLine
  OBVIOUS
<1>1. IInv /\ LineInv => LineByLine
  <2> SUFFICES ASSUME IInv, LineInv, Accepted PROVE output = FlattenSeq([l \in DOMAIN doc |-> Becomes(l)])
    BY DEF LineByLine
  <2>1. doc \in Seq(Line) /\ Len(doc) \in Nat /\ DOMAIN doc = 1 .. Len(doc)
    BY DEF IInv, TypeOK
  <2>2. output = Part(BecomesLines, 1, Len(doc))
    BY DEF LineInv, WrittenInv, Accepted
  <2>3. LinesAt(BecomesLines, 1, Len(doc)) = [l \in DOMAIN doc |-> Becomes(l)]
    <3>1. Len(doc) - 1 + 1 = Len(doc) /\ \A k \in 1 .. Len(doc) : 1 + k - 1 = k
      BY <2>1
    <3>2. QED BY <2>1, <3>1 DEF LinesAt, BecomesLines
  <2>4. QED BY <2>2, <2>3 DEF Part
<1>2. Init => LineInv
  BY InitLines
<1>3. IInv /\ JInv /\ LineInv /\ [Next]_vars => LineInv'
  BY NextLines
<1>4. QED BY <1>1, <1>2, <1>3, WalkInvariant, JudgementInvariant, PTL DEF Spec

(* Core spec 5.3: every statement preserved because it cannot be formatted *)
(* is reported at its line, or with its region when that was refused.      *)
THEOREM OpaqueAlwaysReported == Composed => (Spec => []OpaqueReported)
<1> SUFFICES ASSUME Composed PROVE Spec => []OpaqueReported
  OBVIOUS
<1>1. IInv /\ LineInv => OpaqueReported
  <2> SUFFICES ASSUME IInv, LineInv, Accepted, NEW l \in DOMAIN doc,
                      doc[l] \in Unformattable /\ ~ Between(l) /\ ~ InPayload(l) /\ Markers = {}
               PROVE  \E d \in diags : Answers(d, l)
    BY DEF OpaqueReported, Answers
  <2>1. l \in 1 .. Len(doc)
    BY DEF IInv, TypeOK
  <2>2. ReportedUpto(Len(doc))
    BY DEF LineInv, ReportInv, Accepted
  <2>3. QED BY <2>1, <2>2 DEF ReportedUpto, ToReport, Loose
<1>2. Init => LineInv
  BY InitLines
<1>3. IInv /\ JInv /\ LineInv /\ [Next]_vars => LineInv'
  BY NextLines
<1>4. QED BY <1>1, <1>2, <1>3, WalkInvariant, JudgementInvariant, PTL DEF Spec

(* Findings and causes correspond: with FindingsPointAtCauses, no finding  *)
(* without its cause and no cause without its finding.                     *)
THEOREM FindingsAndCauses == Composed => (Spec => []FindingsOnCause)
<1> SUFFICES ASSUME Composed PROVE Spec => []FindingsOnCause
  OBVIOUS
<1>1. (Spec => []DiagnosticsOnCause) /\ (Spec => []OpaqueReported)
  BY FindingsPointAtCauses, OpaqueAlwaysReported
<1>2. DiagnosticsOnCause /\ OpaqueReported => FindingsOnCause
  BY DEF FindingsOnCause
<1>3. QED BY <1>1, <1>2, PTL
=============================================================================
