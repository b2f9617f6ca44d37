# TLA+ models of semblock

`semblock` formats PostgreSQL text in `.sql` files and in string literals of
Go and Rust sources. This directory holds TLA+ modules translated from its
source, TLC configurations that check them on small instances, and TLAPS proofs
of theorems about them for every value of their constants. `PROJECT.json` lists
the runs, maps every modelling definition to the lines it stands for, and lists
the hazards the properties are for.

To check a run: `tlc -config MCProjectRun_schedule.cfg MCProjectRun`. To check the
proofs of a module: `tlapm HostSourceProofs.tla`, and so for each module of
section 2.8.

## 1. The system

| Part | Source | State | Operations |
|---|---|---|---|
| command line and project run | `cli.rs`, `cli/planning.rs` | the plans; otherwise the working tree itself | select inputs, preflight, plan in a thread pool, decide, replace |
| atomic replacement | `rewrite.rs` | one temporary file | stat, create, write, copy permissions, sync, rename |
| Git selection | `git.rs` | the index and the merge base (Git's) | list staged or changed paths, read staged blobs |
| discovery | `discover.rs` | the walk's channel, the explicit set | parallel walk with ignore rules, filter of Git candidates |
| source facade | `source.rs` | none | infer language, CRLF convention, two-pass gate |
| directives | `directives.rs` | ignored region or not | off / on / file-ignore lines of a SQL document |
| document | `formatter/mod.rs` | none | COPY payloads, statement ownership, per-statement fallback, strict policy |
| tokens and structure | `formatter/tokens.rs`, `structure.rs` | none | depths, parentheses, starts of clauses and joins |
| statement binding | `formatter/layout_ir*` | none | protobuf tree + tokens to the ranges a layout needs |
| statement layout | `formatter/semantic_block*` | the plan of line breaks | every owner plans in turn, the plan is rendered |
| ownership | `formatter/ownership.rs` | interval table | which comment and which token belongs to which node |
| validation | `formatter/validation*` | none | parse equivalence of output and source |
| routines | `routine_header`, `procedural/*`, `external_routine`, `sql_standard_routine` | frame stack of the PL/pgSQL reader | lay out routine bodies, preserve what is unsupported |
| type aliases | `type_aliases.rs` | none | respell types by preference, map positions |
| hosts | `host/go.rs`, `host/go_string.rs`, `host/rust.rs` | consumed directives, replacement list | find SQL literals, format them, splice them back |
| text coordinates, diagnostics | `text.rs`, `formatter/diagnostics.rs` | none | offsets, ranges, fixes |
| configuration, output | `config.rs`, `diff.rs`, `cli/output.rs` | none | settings, printing |

The parts call one another top-down: a run selects inputs (discovery or Git),
plans each in a worker (facade, then directives and document for SQL, or a host
adapter that calls the document formatter per literal), and only when every
plan is in does it replace files. They share no memory except the pool's result
slots; the shared state that makes the program hard is *outside* it: the
working tree and the index, which an author changes while it runs, and a disk
that may lose power.

What each part owes:

* **run** — nothing is written before every file is planned; the result does
  not depend on the schedule; exit codes tell the truth; an interrupted run
  leaves only complete texts and a later run finishes the work.
* **replacement** — readers see the old or the new file, never a part, with
  the old permission bits.
* **Git selection** — a staged `fmt` touches only fully staged files.
* **facade** — whatever is written is a fixed point of the formatter.
* **directives and document** — text the user or the formatter marked as
  untouchable comes through byte for byte, the rest is formatted, and strict
  mode is all or nothing.
* **hosts** — outside SQL literals no byte changes; a directive is obeyed or
  reported, never dropped.
* **discovery** — every selected file once and in order, every error reported
  or none lost, whatever the threads do and the author changes.
* **statement binding and layout** — no comment and no token is lost, blocks
  nest, clauses align, and the layout is its own fixed point.
* **ownership, validation** — no comment or token is duplicated or moved across
  a statement.

## 2. Modules

Operators whose name ends in `_` and a word (`FirstError_Last`,
`SyncTemp_Dropped`) are seeded faults: the form the definition would have with
a plausible mistake. `PROJECT.json` pairs each with the property that must
then fail; no specification uses them.

### 2.1 The project run

`SourceFormat` — the facade. A file's text is a value of `Content`; what one
pass does to a text is the constant function `Pass`, of which nothing is
assumed. `Formats` is the two-pass gate of `format_source_with_rust`.

`ProjectRun` (extends `SourceFormat`) — `Cli::run_paths`, `build_plans`,
`select_files`, `read_staged_files` and `atomic_replace` as one state machine:

| Code | Model |
|---|---|
| working tree, index | `worktree`, `access` (permission bits), `index` |
| what the disk may still give back | `older` (renames undone), `unsynced` (data lost) |
| `run_paths` program counter | `phase`: select, blobs, verify, plan, replace, done |
| loop over a `Vec` in path order | `pending`, consumed through `First` |
| the pool | `TakeFile` (read, bounded by `Workers`) and `PlanFile` (format) per input |
| first error in file order, fatal diagnostics, mode | `Decide` |
| `atomic_replace` | `CheckTarget`, `CreateTemp`, `WriteTemp`, `CopyAccess`, `SyncTemp`, `Persist` |
| every `map_err` to exit code 4 | `CallFails`, `ReadFails` |
| `kill -9`, power loss, an editor, `git add` | `Kill`, `PowerLoss`, `Save`, `Stage` |
| the shell starting the next run | `RunAgain` |

`RunContract` — what a run promises, without workers, temporary files or
staged loops: plan, then stop or commit to texts, then pay them in path order,
each in one step. `ProjectRun` implements it (`ContractKept`).

`MCProjectRun` — eight texts that cover every outcome of the formatter.

### 2.2 SQL documents

`SqlFindings` — diagnostics, located by lines of the text they are about.

`SqlDocument` (extends `SqlFindings`) — `format_sql_document` of
`directives.rs`: the walk over the lines and the facade's second pass over its
output. What `format_sql` returns for a region is the operator parameter
`FormatRegion`; nothing is assumed of it.

| Code | Model |
|---|---|
| the scan for a file-ignore marker | `Start` |
| the loop over physical lines | `Off`, `On`, `OtherLine`, with `at` the line, `from` the start of the open region |
| the end of the loop and its unmatched-off error | `End` |
| `append_formatted`: blank, formatted or preserved region, diagnostics shifted | `RegionText`, `RegionDiags` |
| `output.push_str` | `output`, and `pieces`, a history of which lines each push stands for |
| `format_source_with_rust` formatting its own output | `SecondPass` |

`SqlRegion` — `format_sql` on a region (`formatter/mod.rs`): the first COPY
header with an end line and the recursion on what follows
(`DocumentOnce`), statement by statement layout with opaque fallback
(`Content`), respelled types and the second layout they need (`RegularOnce`),
the strict policy and the region's own second pass (`FormatSql`). A line is one
of fourteen kinds that stand for what parser and layout make of it; the module
header lists them.

`SqlSource` — the two together, with the properties that read a whole document
as a user does: `LineByLine` decides what becomes of each line by looking at
the document from that line, without regions, recursion or passes.
`DirectivesJudged` reads the document as psql does (`Rows` are the rows of its
COPY payloads) and judges the directives outside of rows; it is claimed of
documents in which no row reads as a directive, and `PayloadNotScanned` is the
same of every document. `MCSqlSource` — the documents.

### 2.3 Go and Rust sources

`HostText` — tokens of a host source and what becomes of a literal: its text
formatted (`Formatted`), its new kind (`GoKind`, `RustKind`) and its spelling
(`GoEncoded`, where `\xNN` for U+0080–U+009F decodes to invalid UTF-8).

`HostSource` — `format_go_source` and `format_rust_source`, which share their
control: find units, attach directives, visit literals, splice.

| Code | Model |
|---|---|
| generated-file and file-ignore checks, Rust's eager malformed directive | `Start` |
| the loop over owners (Go) or literals (Rust): conflict, ignore, marker, detection | `Enter`, `units` still to be visited, `Topmost`, `consumed` |
| `innermost_owner`, `attached_directives` | `Owns`; `Before`, `Climbed`, `Attached` |
| the loop over a unit's literals: disabled kind, undecodable, not SQL, failure, unchanged, encode, decode check | `Take`, one disjunct per way out; `todo` the literals still to come |
| unconsumed directives, strict policy | `Finish` |
| the replacements, sorted, each put in place from the last to the first | `Splice`, `Rightmost`, `left` |
| the facade's second pass | `SecondPass` |

Its properties are stated against a second reading of the source, top-down
with a stack of open statements (`Open`) and the comments directly above
(`Above`), instead of the code's search for the innermost owner of a span.
Rust's `attached_directives` climbs from the literal through all its ancestors
up to a block, the file, a function or a closure, and takes the comments above
each of them. `own` marks the ancestor at which that climb ends - a statement
or item -, `node` any ancestor it passes: `Climbed` are the ancestors it looks
above, and the reference takes the levels of its stack from the innermost
statement inwards (`Inner`).
`MCHostSource` — the sources.

### 2.4 PL/pgSQL bodies

`RoutineBody` — `format_single_routine`: the body's scanner tokens are read
into nodes, aligned with what PostgreSQL's PL/pgSQL parser found, laid out by
a stack of frames, and the output read and laid out once more.

| Code | Model |
|---|---|
| the loop of `ir::parse` | `ReadComment`, `ReadNode`, with `at` the token and `inDeclare` its flag |
| header and statement boundaries, classification | `EndOf`, `FindKeyword`, `FindSemicolon`, `KindOf` |
| `validate_parser_alignment`, `capabilities::bind` | `Bind`, `Aligned`, `Binds`, `TakeSpec` |
| `layout_node` and its frames | `LayoutNode`, `frames` |
| the loop of `layout::format` with `format_leaf` | `Lay`, `LineOf`; `Restored` puts an INTO clause back |
| the second reading, the comparison of the two outputs | `SecondPass`, `End` |

A token is a word with the line boundaries before it and the margin of its
line; one word stands for each class the reader tells apart. `units` is what
the grammar of PL/pgSQL makes of the same text: the properties are stated
against it and never against the reader's own nodes. The order in which the
parser's JSON lists statements depends on how the build orders JSON objects
and is any order in the model (`Permuted`).
`MCRoutineBody` — bodies built from the grammar's productions.

### 2.5 Discovery

`Discovery` — `discover_with_rust` and `filter_candidates_with_rust`. A path is
the sequence of its names, the file system a function from paths to kinds, the
channel a sequence.

| Code | Model |
|---|---|
| the loop over the roots, their `metadata` | `InspectRoot` |
| the loop over Git's candidates, which may not leave the repository | `InspectCandidate` |
| `build_parallel`, `run`: threads with clones of the sender | `StartWalk`, `senders` |
| the walker (crate `ignore`, external) hands entries to threads | `Take`, with the type an entry was *listed* with |
| the visitor and its `sender.send` | `Visit`, `channel` |
| `run` returns, `drop(sender)` | `Joined` |
| the loop over the receiver | `Receive`, `Drained` |
| the second look at candidates the walk cannot have met | `Judge`, `Judged` |
| an editor that creates or deletes a file meanwhile | `Change`, at most `MaxChanges` times |

`SelectionEnds` is a liveness property under weak fairness of the process's own
steps, its threads included; nothing an author does is needed for it.
`MCDiscovery` — a tree of ten paths.

### 2.6 Algorithms on texts and tokens

`TextCalls` calls one function per action, from its argument to its answer, and
compares the answer with a second definition: the lexical grammar of
PostgreSQL (which the code reads otherwise in five constructs; section 4.8), its
type grammar, or the meaning of the answer (the number of line
feeds before an offset, the parentheses that enclose a token).

| Module | Code |
|---|---|
| `TextFrames` | `text.rs`, `source.rs`: offsets, lines, columns, LF and CRLF frames, ranges shifted and mapped; the machine's variables and its action `Locate` |
| `SqlLexing` | `top_level_semicolons` (`Lex`, one turn of its loop per step of a fold), `dollar_tag_at`, `find_copy_stdin_region`, `copy_stdin_payload_end`, `normalize_document_gap`, trimming of comments |
| `CutCalls` | its action `Split`, PostgreSQL's lexical grammar, and what a cut is for |
| `TokenShape` | `structure.rs` and the clause and join starts of `tokens.rs` |
| `TokenCalls` | its actions `Index` and `Classify`, and what they are for |
| `TypeAliases` | `type_aliases.rs`: tables, `alias_at`, replacement round COPY payloads and opaque ranges, the boundary map, declarations |
| `LiteralEnvelope` | `RawEnvelope` of `go.rs`, `Envelope` of `rust.rs` |

`MCTextCalls` — the arguments.

### 2.7 Binding and layout of a statement

The formatter's largest part: `LayoutDocument::bind` finds who owns which
tokens, then every owner plans line breaks and indentation over what the
earlier ones planned, and the plan is rendered. A token is a kind, a rendered
width and the line breaks its author put before it; the kinds are the keywords
and punctuation the planners look at, and `x` for every operand.

| Module | Code |
|---|---|
| `Rendering` | `geometry.rs`, `groups.rs`, the writer and the hard-width gate of `semantic_block.rs`; where `render.rs` puts a space |
| `ListLayout` | `lists.rs`: which lists expand, where items begin lines |
| `ExpressionLayout` | `expressions.rs` and the boolean and CASE planners |
| `QueryLayout` | clauses, relation sources, windows, set operations, CTEs |
| `StatementPlans` | `statements.rs` and `ddl.rs`: INSERT, UPDATE, DELETE, MERGE, VALUES, views, tables, indexes, ALTER TABLE, utilities |
| `StatementLayout` | `semantic_block::format`: the planners in the code's order |
| `QueryBinding`, `StatementBinding` | `layout_ir/*` and `LayoutDocument::bind` |
| `StatementPasses` | the two passes and the gates over any plan of breaks and indents: what rendering promises without the planners |
| `StatementFormat` | `format_supported_statement`: `Bind` and `LayOut`, twice each, and `Judge`, its gates; its plans are plans of `StatementPasses` |

What the parser says (which SELECT is a query, which name is called) is
external and read off the tokens in the binding modules. The tests of `src/`
served as a check of the translation: of the pairs of input and expected text
in `src/tests` that consist of modelled statements, 339 were turned into token
sequences and laid out by these modules, and the breaks and indentation agreed
with the expected text in each.
`MCStatementFormat` — the statements.

### 2.8 Proof modules

| Module | Proves about |
|---|---|
| `ProjectRunProofs` | `ProjectRun`: types, texts, permission bits, preflight; order of replacements, late saves, the refinement of `RunContract`; what a run that has ended left behind |
| `SqlSourceProofs` | `SqlDocument`: the walk, ignored text, markers, the second pass; `SqlSource`: the region formatter, and the walk with it |
| `DiscoveryProofs` | `Discovery`: files, candidates and failures of a selection |
| `HostSourceProofs` | `HostSource`: tokens, findings, refusals, strict policy, the second pass |
| `RoutineBodyProofs` | `RoutineBody`: types, every word and comment laid out once and in order |
| `TextCallsProofs` | `TextFrames`: coordinates, and the two frames of a CRLF source; `CutCalls`: where a document is cut |
| `TokenProofs` | `TokenCalls`: nesting, clause and join starts; `StatementPasses`: what rendering does to tokens and comments, whatever is planned |
| `DataInduction` | least and greatest numbers, induction on a range, functions defined by recursion; texts put together from parts, replaced element by element or cut |

See section 4.

## 3. Runs

| Run | Asks |
|---|---|
| `schedule` | three paths (Go, SQL, disabled Rust), one a link; named, discovered, `--staged`, `--changed-since`; every agreement of index and tree; one failing call: is the result of two workers, in every order, that of sequential planning, and does a clean exit last? |
| `disturbed` | two edits or `git add`s, one failing call, one kill or power loss, anywhere in two successive runs: what the tree holds, the refinement `ContractKept`, and does every run end? |
| `staged_race` | a violation: section 6 |
| `documents` | what becomes of each line of a SQL document, what is reported where, which documents are refused |
| `respelled_skip` | a violation: section 6 |
| `sources` | what becomes of each token of a Go or Rust source, what is reported where, which sources are refused |
| `strict_style` | a violation: section 6 |
| `bodies` | which PL/pgSQL bodies are accepted, where each statement, comment and blank line goes, and is the layout stable? |
| `discovery` | two threads, one or two roots or Git's candidates, one change by the author: is the selection that of the tree, whoever finds what when, and does it end? |
| `texts` | do the algorithms of section 2.6 agree with what they are for on every short argument? |
| `layout` | statements of some seventy shapes, unbroken, with one break anywhere and with a break everywhere, laid out twice at narrow widths: what is kept, what is planned, what is refused, what lines up? |
| `unsettled` | a violation: section 6 |

Some properties are conjunctions of named parts, each of which can be put into
a cfg by itself: `InOrder` of the types and
`PushedOnce`; `FindingsOnCause` of `DiagnosticsOnCause` and
`OpaqueReported`; `MarkersAnswered` of the types, `MarkedIsAnswered` and
`FindingsOnLiterals`; `TriviaKept` of the types and `WordsKept`;
`UnitPerLine` of `EachOnItsLine` and `BlankLinesKept`; `SelectionComplete` of the types, `PathsComplete` and
`ErrorsComplete`; `TrimmingSettles` has `EnvelopeSettles` as a part.

**Bounds of the run.** `MaxEdits`, `MaxFaults`, `MaxCrashes`, `MaxRuns` cap
what the environment does; the program itself is unbounded. Two files suffice
for order and interruption (one before, one after); the scheduling run takes
three so that two workers are both busy with an input left over and different
errors compete to be first. Deadlock checking is off where the modelled
function returns and nothing follows: a run ends, a document is formatted. The
two configurations of the layout check it, since their specification goes on
(`Done`) exactly when a verdict is given.
Liveness (`EveryRunEnds`) assumes only weak fairness of the process's own
steps: the operating system keeps scheduling a live process. Nothing makes the
author, a fault or another run happen.

**Bounds of the documents.** Four families of kinds that interact, each in
every order: five lines of directives, blanks, a statement and unparsable
text; five lines of COPY, end line, data, and a statement of two lines; four
lines of directives with COPY and unsupported statements; four lines of
everything that is kept or respelled. An error of the walk needs at most three
directives and text around them; a payload needs header, row and end with
something before and behind. Documents are the only thing bounded.

**Bounds of the sources.** Every balanced arrangement of up to five markers,
gaps, statement starts, ends and literals (two owners, one within the other,
with literals before, inside and after need five); in Rust, the same with two
kinds of enclosing parts - statements, where the climb of `attached_directives`
ends, and arguments or members, which it passes; every kind and text of a
literal alone and next to five others, marked or not, under every setting; and
up to three comments before and one behind the first item.

**Bounds of the bodies.** Three families. Structures: each of eleven control
structures around each other one with both branches filled, within a block
(frames interact with the two below them, so three deep is enough), and one
after another. Leaves: every pair of thirty-one leaves, one of them in an IF,
INTO before, within and behind the query with and without STRICT, and
conditions with a CASE expression bare and in parentheses. Comments: one at
every place of four bodies with every distance on both sides, two at every
pair of places of a small one. The first two families are written both on one
line and with every unit on its own line behind an empty one.

**Bounds of the discovery.** The tree has a directory that may be unreadable
beside one that may hold a file, an ignored directory, a file of no language,
a link and a dangling link: with two threads two directories are listed at
once and two errors race. One creation or deletion can fall between any two
steps, which is what "listed, then looked at" needs.

**Bounds of the texts.** Every text of up to five or six characters over the
alphabet of one hazard at a time: quotes, dollar tags with letters of either
kind, nested comments, comments whose line ends with a line feed, a carriage
return or both, escape strings and COPY each need an opening, something that
looks like a closing, a semicolon and a closing. Types come in every spelling,
two in a statement (the first moves the second), round up to two payloads.
Envelopes: every literal of up to six characters, round six formatted texts.

**Bounds of the layout.** 9,078 texts: each of about seventy statement shapes
in seven lists (queries, changes, statements that hold a breaking expression,
expressions, definitions, utilities, comments), with no break, a break at one
place, a break at every place, of one line and of three: a gap of two blank
lines, which a layout narrows to one. Widths are narrow
enough that lists, groups and calls both fit and do not fit. Interactions of
three owners in one statement are in the shapes; two authored breaks at
arbitrary places are not enumerated.

## 4. Proofs

Every theorem holds for every value of the constants. What is assumed of them
are the named `ASSUME`s of the modules: files are ordered like naturals, the
marks for absent and torn files are no texts, the constants have their types,
paths are sequences that can be cut. TLC evaluates each of them on a run.

### 4.1 The project run

`ProjectRunProofs`, for every set of files, formatter function, pool size, mode,
selection and bound:

* `TypeCorrect`: `Spec => []TypeOK`
* `NoForeignText`: `Spec => []AuthoredOrFormatted`
* `AccessBitsKept`: `Spec => []AccessKept`
* `WholeProjectPreflight`: `Spec => []PreflightComplete`

The argument is one inductive invariant `IInv`. The safety properties are not
inductive alone: that a renamed file is a formatting of an authored text needs
the temporary file's data to be the formatting of the current plan (`TempInv`),
which needs every plan to hold a text its author or an earlier run wrote
(`PlanInv`, over the set of admissible versions), which in turn needs every
version a power loss may bring back to be admissible (`TreeInv`), and lemma
`GateIdempotent`: a text that came through the gate, formatted again, is
itself. So the idempotence of the facade is derived from the gate and is
assumed nowhere. The lemmas go variable group by variable group (`TypesKept`,
`TreeKept`, `PlansKept`, `ProcessKept`), each with one step per action.

The module's second part adds to `IInv` where the run stands (`ProgressInv`: while
replacing, what is pending is what had to be rewritten and was not, and what was
done is its first part) and what the planner has seen (`SeenInv`: what was read
is what the file holds, or held until this run replaced it, unless its author
saved it since), and proves

* `PrefixReplaced`: `Spec => []InterruptedPrefix`
* `SavesReachThePlanner`: `Spec => OnlyLateSavesLost`, an action property
* `ContractImplemented`: `Spec => ContractKept`, the refinement. The mapping is
  that of `ProjectRun!Contract`; `StageNow` and `OwedNow` name what it makes of
  a state. Each step of the run maps to a step of the contract or to a stutter:
  the temporary file is invisible, `Decide` is the contract's commitment,
  `Persist` its payment, and the order of `pending` is the contract's path
  order.

The third part relates the end of a run to its beginning. `ExitInv` says
what an exit code means: success is reached only through the work of the
subcommand, a failed slot carries the code of a failure, links are not touched,
and nobody who has not acted has saved anything.

* `CleanExit`: `Spec => []CleanExitIsStable`
* `RecoveryComplete`: `Spec => []RecoveryConverges`
* `ScheduleNeverShows`: `Spec => []ScheduleIndependent` — for any number of
  workers, of which the model checker can try two. While a run is undisturbed
  (`QuietInv`), the tree is the one it started on with its replacements done,
  each filled slot is what planning that file alone gives, whoever filled it,
  and the preflight has passed; `Verdict` and `Applied` then name the sequential
  run's exit code and replacements without choosing a first rejected input.
* `StagedTextUndisturbed`: `Spec => [](Untouched => StagedTextFormatted)`. The
  hypothesis is needed: `staged_race` is a counterexample without it.

Of this component only liveness (`EveryRunEnds`) is left to TLC.

### 4.2 SQL documents

In the first part of `SqlSourceProofs`, for every document of any length, every
setting and whatever the region formatter returns:

* `WalkTypeCorrect`: `Spec => []TypeOK`
* `EveryLineOnce`: `Spec => []InOrder` — the pushes cover the lines in order
* `IgnoredUnchanged`: `Spec => []IgnoredKept` — ignored text is byte-identical
* `DirectivesAnswered`: `Spec => []DirectivesJudged`, which excepts rows that
  read as directives (section 6)

`IInv` adds to the types what the loop maintains: the pieces lie one behind the
other in the output (`Laid`) and reach up to the open region (`Reaches`); a
line between an off and an on that was already pushed is in a verbatim piece
that holds its text (`Protects`); there is no directive in the open region so
far (`Quiet`), and every off before an active region has its on (`Closed`),
so that no line of an active region is one to protect. The pushes
go through two lemmas, `PushCopy` and `PushRegion`, and no property of
`FormatRegion` is used but that a success is a text. `JInv` says that the
walk's state is the balance of markers behind the cursor: one open is
"ignored", none is "active", and any other balance has been refused. That
turns the code's two states into the reference's counting of markers.

The second pass. `FormatterSettles` says of a region formatter that it leaves
its own output alone and writes no directive. `OutputIsSettled` shows that then
`Spec => []SecondPassAgrees`, whatever the document and its directives. The
output has to be read again, so the invariant (`SettledInv`) describes it as
the second walk will find it: the directives alternate as the first walk met
them, every line between an off and an on is protected, and every stretch
between an on and an off is a fixed point of the formatter (`Sealed`). Two
lemmas extend a sealed text by a region (`PlainBehind`) and by a directive
(`DirectiveBehind`); in the second pass the output is the document so far
(`SoFar`).

`SqlSourceProofs` puts `format_sql` in the place of the region formatter.
`Composed` pins the constants of `SqlDocument` to what `SqlRegion` defines, as
`MCSqlSource_documents.cfg` does; documents keep any length.

* `FormattingIsIdempotent`: `Composed => (Spec => []SecondPassAgrees)`.
  `format_sql` settles because it makes a second pass over each region itself;
  that this is enough for the document, directives and all, is the theorem.
* `FindingsPointAtCauses`: `Composed => (Spec => []DiagnosticsOnCause)`
* `StrictKeepsDocument`: `Composed => (Spec => []StrictAllOrNothing)`
* `EachLineFormatted`: `Composed => (Spec => []LineByLine)`
* `OpaqueAlwaysReported`: `Composed => (Spec => []OpaqueReported)`
* `FindingsAndCauses`: `Composed => (Spec => []FindingsOnCause)`

A region is formatted by a recursion over its COPY payloads. `OnceDefined`
shows that this recursion has a solution for regions of every length: two
partial solutions agree (`SolutionsAgree`, by a shortest text on which they
differ), and there is one for every length (`ShortSolution`); the argument needs
only that the lines before a header and behind a payload are fewer. `OnceSane`
then goes through a region by a least counterexample and shows that the
findings, shifted at each level, lie where they should.

`OnceSettles` is why `format_sql` answers at all: the pass it makes over its own
output never refuses. Layout and respelling are replacements of lines by lines
(`Spread`), so that two passes are one replacement (`SpreadTwice`), and whether
each comes through a second time is decided on the fourteen kinds
(`LayoutComposes`); a text with payloads falls into the same parts after it was
formatted as before (`Assembled`).

What becomes of each line. The reference of `SqlSource` reads the document as
psql does, from the top, and asks of each line whether the payload-free part
around it parses; the code cuts regions at directives and calls itself on what
is left of a region. They meet in three steps.

1. *The same payloads* (`ReadOn`): from a line at which the reading may start,
   the first header, data and end of the recursion are the first of the
   document's reading. `StartsAlike` is the heart of it: whether a statement
   starts at a line does not depend on how far up one looks.
2. *The same text* (`ToldAll`, by induction on what is left of a region): the
   stretch before a payload is written line by line when each of its lines is
   well formed and refused otherwise; header and data are parts of their own;
   the rest is told already. `RegionAnswered` adds the strict policy and the
   preserved region.
3. *The walk* (`LineInv`): what has been pushed is what the reference says of
   the lines so far, and each unformattable one among them has its finding.

`LineInv` rests on `IInv` and `JInv` for where the regions are.

### 4.3 Discovery

`DiscoveryProofs`, for every tree, every set of threads, every interleaving and
any number of changes by the author:

* `NoFileMissed`: `Spec => []PathsComplete`
* `CandidatesAgree`: `Spec => []CandidatesJudged`
* `FailuresReported`: `Spec => []ErrorsComplete`
* `SelectionIsComplete`: `Spec => []SelectionComplete` (types and both)

The invariant `DInv` follows a file through the walk: what is selected is found,
or in the channel, or below a directory still to be walked, or an entry queued
or in a thread's hand leads to it, or a failure will refuse the selection
(`CompleteInv`). Completeness alone would let an entry travel twice, so that a
failure could be reported twice; the count of failures needs that no two
entries lead to one path (`ApartInv`). `CountInv` then equates the failures
received, those in the channel and those still to be met with what the tree
gives cause for. Paths that the author touches while the walk runs are outside
`steady`, and the theorems claim nothing of them but types.

### 4.4 Go and Rust sources

`HostSourceProofs`, for sources of any length, nesting and number of literals,
under every setting:

* `OutputIsTokenByToken`: `Spec => []TokenByToken`
* `DirectivesDecide`: `Spec => []DirectivesJudged`
* `MarkersAndFindings`: `Spec => []MarkersAnswered` (types included)
* `StrictRestores`: `Spec => []StrictAllOrNothing`
* `SecondPassSettles`: `Spec => []SecondPassAgrees`

Four arguments meet. The first is about the text alone: the comments above a
token found by walking back are those of the reading from the top
(`AboveIsBefore`), and the statements the tree has around a token are the
reference's stack, the innermost on top (`OpenIsStacked`, `InnermostIsTop`),
and Rust's climb meets the levels of that stack down to its innermost statement
(`ClimbIsInner`); from these, a directive is attached to the unit of a literal exactly when it
governs the literal (`DirectivesFound`). Unlike TLC's sources, the texts here
need not be balanced.

The second is the loop, `HInv`: of the units visited, every directive is
consumed and none contradicts itself (`Progress`); of the literals behind the
loop none had to be refused and each has its findings (`Answered`); the
replacements are those of the literals that are rewritten, one each (`Edited`).
Behind the loop nothing is left that could be a cause to refuse the source
(`NoCauseLeft`), and whatever stops the loop earlier is such a cause.

The third is the splicing. `Prefix[i]` is what the first `i` tokens become.
`PutInPlace` says that the text is the source up to some token `p`, behind it
the finished text, and that the replacements left are exactly those up to `p`.
`PlacingStep` takes the last of them and moves `p` before it; replacements put
in place in any other order break this, which is what the mutant of
`TokenByToken` does.

The fourth is the second pass. Its source is the output of the first, so the
top-down reading is traced from one text to the other: every token of the
output comes from a place of the source (`PlacesAscend`, `EveryPlaceTaken`),
and what is above it, the statements and parts around it and the directives that govern
it are those of that place (`AboveCarried`, `OpenCarried`, `SitesTraced`).
A text is `Settled` when it is ignored as a whole, when every literal in it
that would be formatted is already as the formatter leaves it, or when the
strict policy holds everything back because of a finding. `OutputIsSettled`
shows that an accepted output is one of the three, `SettledIsReturned` that a
settled text comes back unchanged, and `PassInv` carries this through the
second pass. As in the run, the property is about options that format both
kinds of literals; without raw strings the code's second pass may refuse
(section 6).

`Above`, `Open` and `Prefix` are functions defined by recursion over the
source. What they compute is proved by induction: `DataInduction` states
induction over a range of numbers for *sets* (`Ascent`), so that it has no
operator parameter and the provers can use it, and that a function defined step
by step exists (`RecursionExists`). The same induction shows what `FlattenSeq`
yields (`FlattenGrows`), and from it the lemmas on texts that section 4.2 uses.

### 4.5 PL/pgSQL bodies

`RoutineBodyProofs`, for bodies of any length and whatever the parser reports
of them:

* `WordsAndTypesKept`: `Spec => []TriviaKept`

`Init` takes its bodies from the constant `Bodies`, of which only the types are
assumed: the theorem does not need a body to be one PL/pgSQL accepts, nor the
reader to find the structure its author meant. The invariant is `BodyInv`, in
the order of the code's steps.

1. *Reading*: the nodes tile the tokens that were read (`Tiled`): each begins
   where the one before it and its trailing comment end, and a node's header
   ends within it (`EndFound`, for each of the reader's searches).
2. *Binding* takes the INTO clauses out of their leaves. Where a clause is was
   counted in the parser's token list of the whole statement (`ClausePlace`);
   that it lies in the leaf it was bound to (`ClauseWithin`) follows because a
   leaf takes a report only when its words without the clause are those of the
   report's query. The greedy binding is a recursion over the nodes, and
   `AllBound` goes through it.
3. *Laying out*: the words on the lines so far are those of the nodes so far
   (`Laid`). The formatter's text has types respelled to more words, and the
   clause is put back by counting words: `ClausePutBack` shows that cutting a
   leaf in two, respelling the halves and joining them round the clause is
   respelling the leaf. A line holds one node with its trailing comment,
   preserved leaves as they were (`LineHoldsNode`).
4. *The second reading* starts from the lines laid out instead of the source;
   respelling twice is respelling once (`RespelledTwice`), so the text laid out
   in the end still holds the words of the source.

That every unit stands on its own line (`UnitPerLine`) and which bodies are
accepted (`SupportedIsFormatted`) compare the reader with a grammar that builds
the text; only `MCRoutineBody` supplies it, so both stay with TLC.

### 4.6 Coordinates

`TextCallsProofs`, for texts of every length over line feeds, carriage returns
and characters of one to four bytes:

* `PlacesAgree`: `FrameSpec => []CoordinatesAgree`

`FrameSpec` is the machine of `TextCalls` for the calls that `Locate` answers,
with any text as the argument. What is scanned is a recursive function of the
text (`Sums`, `LineStarts`); `Counted` names what they are. The argument has
three parts.

1. *One text.* Offsets climb (`OffsetsClimb`), so the greatest boundary not
   behind an offset is its own (`ReachOffset`). The starts gathered up to a place
   are one more than the line feeds before it, ascend, and stay the first of all
   (`StartsAll`, `StartsExtend`), so the binary search of `location` finds the
   line the place is in: `Located`, from the line's head, and `InLine`, from the
   starts on either side.
2. *Two frames.* `FrameRestored`: taking the carriage return out of every pair
   and putting it back is the same text. `RestoredPlaces` pairs the i-th
   character of the LF text with the one at i and the line feeds up to it; the
   sums of both texts agree there (`SumsRestored`), heads of lines correspond
   (`HeadRestored`), and `OffsetRestored` is the property for one offset.
3. *Lines and columns.* `RangeEnds`: a line without its terminator ends at a
   character of the line, by cases of LF, CRLF and the end of the text. With
   `InLine`, `TilesOfText` follows.

### 4.7 Nesting, clauses and joins

`TokenProofs`, for token sequences of every length:

* `TokensAgree`: `TokenSpec => []StructureAgrees`

`TokenSpec` is the machine of `TextCalls` for the calls that `Index` and
`Classify` answer, with any tokens as the argument; parsed ones need not be
assumed, `Nested` is a premise of the property where it is needed.

1. *Heights.* In a balanced text as many brackets are open behind each token as
   `Heights` says, and the partner of an opening one is the first place as low
   as the place before it (`PartnerMatches`). Hence pairs nest or lie apart
   (`PairsNest`, `PairsApart`), and as many are around a token as are open
   there (`AroundIsOpen`, `OpenCount`).
2. *The pass.* `Stacked` is the invariant of `Indexed`: behind token `i` the
   depth is the height, the stack lists the parentheses open there, the least
   first, and the parent of each token so far is the greatest around it.
   `StackedNext` is one token, by cases of what it opens or closes. Square
   brackets change the depth and leave the stack alone; that the stack's last
   element is the partner of a `)` all the same rests on `KindsAgree`: a pair
   has one kind. For unbalanced tokens only `IndexedTyped` holds, which is what
   keeps depths from going below zero.
3. *Ancestors.* Parents are smaller than their tokens, so the chain that
   `ancestor_parentheses` follows ends (`ChainsExist`), and it lists the
   parentheses around the token, the nearest first (`AncestorsFall`).
4. *Words.* `Reading` numbers the tokens that are no comments; the nearest token
   before or behind one that is no comment is the previous or the next word
   (`WordsNeighbour`), wherever comments stand. With `JoinWordFound`,
   `is_join_start` becomes a condition on four neighbouring words
   (`JoinStartRead`). A word that begins a header is inside no other header
   exactly when the words before it say so (`HeadersThere`, `InsideHeader`,
   `StartsOutside`); this is where `OUTER` must stand within a header.

### 4.8 Where a document is cut

`TextCallsProofs`, for texts of every length:

* `CutsAgree`: `CutSpec => []DocumentIsCut`

`CutSpec` is the machine of `TextCalls` for the calls that `Split` answers, with
any text as the argument. Two readings of one text are compared: the loop of
`top_level_semicolons`, which takes one or two characters or a dollar tag per
turn and keeps a mode, and `Grammar`, which takes one token of PostgreSQL's at a
time, a whole string or comment at once. Nothing is claimed of a text with one
of the five constructs the two read otherwise; they are the premise of the
property (`odd`), not an assumption:

* an escape string with a backslash, in itself or in the string that continues
  it on a later line;
* an identifier with a dollar in it;
* a parameter that looks like a dollar tag (`$1$`);
* a comment that ends with its line at a lone carriage return, where the loop
  goes on to the line feed;
* a dollar quote whose tag has a character beyond ASCII, which is no tag to the
  loop.

Whether a candidate is a COPY header is for `pg_query`'s parser to say; the model
reads it off what the loop saw of the candidate (`IsCopyHeader`), which is what
the parser would find in a text without these constructs.

1. *Ends.* `StringEnd` and `CommentEnd` are defined from the end of the text
   backwards, a comment's through the end of the comments within it; that they
   are defined, lie behind their start and satisfy their equations is shown by
   descent (`Descent`, `EndsExist`, `StringsEnd`, `CommentsEnd`).
2. *One token.* `LexLoops` has the loop's states as a function of the place
   reached. `TokenFits`: where a token starts and the loop is outside everything,
   it is outside again where the token ends, pushed a semicolon exactly if the
   token is one, and saw nothing of it exactly if PostgreSQL skips it. One scan per
   construct (`StringScan`, `CommentScan`, `LineScan`, `DollarScan`,
   `PlainScan`), each by induction on the places within the token; a comment's
   line ends where the loop's does unless a lone carriage return ends it first
   (`LineBreaks`). Comments nest: within `d` of them the loop is at depth `d`, and
   the scan of one leads back to the depth it began with. A name ends where no tag can begin, which is where a
   dollar in a name and a parameter before a dollar have to be left out.
3. *Side by side.* `Related` is the invariant at the places where tokens start:
   the same semicolons so far, and the loop's code lies in the grammar's words
   and semicolons and shows the first character of each (`RelatedOn`,
   `BothRead`). At the end of the text this is `SplitsLikePostgreSQL`.
4. *A statement on its own.* The code lexes each candidate header again, cut out
   of the text. A turn that stays before the cut is the same turn (`TurnShifts`),
   and the loop is outside everything behind each semicolon, so what it sees in
   the candidate is what it saw in the document (`AloneSeen`). Hence a candidate
   reads as a COPY header exactly when the statement's only word is one
   (`CopySeenIs`, `CopyHeaderIs`).
5. *The payload.* The least end of a line that is an end line is the end of the
   least such line (`LineEndUp`, `PayloadEnds`), and the first header with one
   is the first `IsCopy`.

### 4.9 Rendering a statement

The planners of section 2.7 recurse, which puts them out of the provers' reach,
but what becomes of tokens and comments is decided by the renderer behind them.
`StatementPasses` therefore lets each pass choose any plan at all: line breaks
before any tokens, any indents that are set or not, any offsets. That the
passes of `StatementFormat` are such passes is checked: `PlansRendered` says of
every pass that its plan is one of `Plans`, and that its layout is
`RenderPlan` of that plan and of the text and options read. `StatementFormat`
changes `laid` and `verdict` in no other way, so what holds of `PassSpec` holds
of it.

`TokenProofs`, for statements of any length and any options:

* `RenderKeepsTokens`: a layout has every token but a closing semicolon once
  and in order; the line of a line comment ends behind it; a comment begins a
  line exactly when its author put it on one
* `CommentsStayHolds`: `PassSpec => []CommentsStay`

The state of the writer is described by the text `o` and the lines `l` that are
still pending. `Upto` says, once the first `i` tokens are rendered: `o` holds
them (`Holds`: token `j` is at `At(a, j)`, one further if the required
semicolon was put in behind token `a` before it), a line comment at the end of
`o` has `l > 0`, and `l > 0` only if the next token began a line when it was
read. The last part is what keeps an inline comment where it is: the only
breaks that wait for a token are those behind a comment, and they were its
author's (`OneStatement`: what follows a line comment is on a further line).
`UptoMore` is one token, through `PlacedAs` (breaks in front), `Fits` (the
token) and `ContinuedAs` (breaks behind); `UptoAll` puts them together by
induction on a range. The semicolon needs an argument of its own (`EndsAre`,
`MadeEnds`): one that ends a statement is its last token (`TerminalLast`, from
`OneStatement`: `statement_span` cuts there), so leaving it out uncovers no
other that would then be taken for the end, and one put in stands behind the
last token that is no comment, in front of trailing comments.

### 4.10 Only model-checked

* Liveness: `EveryRunEnds`, `SelectionEnds`.
* PL/pgSQL bodies: acceptance and the place of each unit.
* Layout: that the planners' plans are `Plans` (`PlansRendered`), which
  statements are refused, what lines up.
* Texts: trimming and envelopes, respelled types.

The modules of the last two declare RECURSIVE operators where the code
recurses, which puts them out of the provers' reach.

## 5. Plan

Done: `ProjectRun`, `SqlDocument`, `Discovery` and `HostSource` with the proofs
of their safety properties; `SqlRegion` and `SqlSource`; `RoutineBody`; the text
algorithms; binding and layout of statements.

To do, in this order:

1. Theorems: the frames of `RoutineBody`, that one closes only what it opened.
2. The rest of a routine: what the outer tokens own (`validate_outer`), headers
   and `BEGIN ATOMIC` bodies, external routines, cursors and dynamic SQL.
3. Style findings (`diagnostics.rs`): the alignment of source and output tokens
   and the rule found for each gap.
4. Ownership and validation over small trees; the Go string codec.

## 6. Where the code and its documents disagree

The quotations are in `findings` of `PROJECT.json`.

* `staged_race`: the staged comparison does not bind what is formatted: the
  planner reads the file again.
* `respelled_skip`: a statement that fails a gate only after its types were
  respelled is kept unformatted without a finding.
* `strict_style`: under the strict policy the hosts hold back every
  replacement for *any* error finding, fixable style findings included, while
  the SQL formatter does so only for the two rules the policy names.
* `unsettled`: an UPDATE or DELETE on one line that fits is left there although
  an expression inside it breaks; the second layout then breaks the clauses as
  well, and the statement is refused.

Narrower observations, which bound the properties above by a named exception
and have no run of their own:

In documents, hosts and bodies —

* A COPY row that reads as a directive is obeyed: `format_sql_document` asks
  every line (`directives.rs:70`) before payloads are told from SQL. A row that
  trims to `-- semblock:on` refuses the document; rows that read as `off` and
  `on` in order cut their payload into regions, each formatted on its own.
  Formatter-design (line 1080): "payload bytes are never scanned or rewritten".
  `DirectivesJudged` excepts such rows; without the exception it is
  `SqlSource!PayloadNotScanned`, for which TLC finds the refused document when
  it is put into the cfg of `respelled_skip` with `Documents <- PayloadDocuments`.
* The strict policy restores a *region*, so `SqlSource!StrictAllOrNothing` is
  claimed of documents without directives.
* With `semicolon_policy = omit` every statement loses its own semicolon
  (`semantic_block.rs:700`), the separator of the next one included; the
  alignment of tokens then fails (`diagnostics.rs:593`), and a region with a
  formatted statement that is not its last is refused. Core-spec: "remove only
  the terminal semicolon of the formatted unit". `SqlRegion` has the default
  policy, `preserve`.
* A zoned type with a precision cannot be respelled, and its region is refused
  (`type_aliases.rs:230`).
* Go's encoder spells U+0080–U+009F as a byte escape that does not decode to
  the same text; the decode check catches it, and the source is refused
  (`HostSource!DirectivesJudged` lists it as a cause).
* With raw strings disabled, a marked interpreted literal of several lines still
  becomes a raw one (`go.rs:503`, `rust.rs:437`), and the second pass then
  refuses the source for the literal the first pass made.
* Go leaves a raw literal whose SQL is formatted but whose lines are indented as
  it is (`go.rs:365` compares the SQL only); Rust writes it at the literal's
  indentation.
* The lexer that looks for COPY headers departs from PostgreSQL's: a `--`
  comment ends at a line feed only (`formatter/mod.rs:751`), where a lone
  carriage return ends it as well; a dollar tag is ASCII (`mod.rs:780`), where
  PostgreSQL admits any letter beyond it; and it knows neither the backslashes
  of escape strings nor identifiers with a dollar, nor that `$1$` begins with a
  parameter. `CutCalls!Grammar` marks a text with one of these as `odd`.
* The body reader knows neither `ELSEIF` (`ir.rs:235`; core-spec.md:518) nor
  where a WHEN or CASE header with a CASE expression ends, and lays out two
  statements as one. A leaf with INTO may read as another query of the body
  with a longer INTO clause; if the parser lists that one first, it is taken
  and the body refused (`RoutineBody!Ambiguous`). `RoutineBody!Unfollowed`
  lists the other constructs whose bodies are refused or kept.

* Of expression ranges that coincide, `expressions.rs:265` keeps the first after
  an unstable sort, which does not promise which one that is.
  `ExpressionLayout!InOrder` keeps the first collected, as the standard library
  does for up to twenty ranges; kept the other way round, the run `layout`
  has the same verdicts.

In the layout (`Accepted`, `ContentsInside` and `ClausesAlign` name these as
their exceptions) —

* A set operation inside a predicate on one line is surrounded by blank lines,
  which are a hard boundary for the predicate in the second layout: refused.
* An INSERT of several rows whose RETURNING or ON CONFLICT begins a line breaks
  its rows but not VALUES (`statements.rs:352`): refused.
* A blank line in a group of OR, in a CASE condition or in a list of JSON keys
  and values expands the group in the first layout and is not kept, so the
  second layout folds it again: refused (`groups.rs:52`).
* `UNION ALL (SELECT …)`: `predicate_subquery_nesting` (`query.rs:400`) takes
  `ALL` for the predicate of that name, and the clauses stand one level deeper
  than their SELECT.
* A set operation inside `IN (…)`, `EXISTS (…)` or `ANY (…)` moves its SELECTs,
  whose clauses the nesting of the predicate has already moved.
* A set operation in parentheses inside a list that was moved stands by its
  lexical depth (`plan_set_operations`; `CountedByDepth`).
* A comment on its own line in nested groups stands at its lexical depth, and
  the closing parenthesis of `MERGE … INSERT (` at that of the statement.

## 7. Not modelled

Parsing itself (PostgreSQL's parser is external, tree-sitter and syn likewise)
enters as what the formatter does with its verdict. `SqlRegion` abstracts the
statement formatter to what it hands back; the layout modules follow it, for
statements PostgreSQL accepts, so that the binder's error returns do not occur.
Casing of keywords and spelling of literals are widths. Routine headers,
`BEGIN ATOMIC` bodies and external routines; the ownership of tokens by nodes
and the comparison of two parses (`ownership.rs`, `validation*`), which walk
PostgreSQL's tree type by type; and the style findings of `diagnostics.rs` are
not modelled. The generated traversal of the tree has no control of its own.
Configuration files, argument parsing, diff rendering and printing carry no
state.
