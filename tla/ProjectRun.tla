----------------------------- MODULE ProjectRun -----------------------------
(***************************************************************************)
(* One invocation of `semblock fmt|check|diff` over paths or a Git         *)
(* selection: Cli::run_paths (src/src/cli.rs), the parallel planner        *)
(* (src/src/cli/planning.rs), the staged preflight (src/src/git.rs) and    *)
(* the atomic replacement of each file (src/src/rewrite.rs).               *)
(*                                                                         *)
(* The run shares the working tree with an author, who saves, deletes and  *)
(* stages files at any moment, and with the machine, which fails calls,    *)
(* kills the process and loses power.  After a run ends another may start, *)
(* so what an interrupted run leaves behind is what the next one meets.    *)
(***************************************************************************)
EXTENDS SourceFormat, FiniteSets

CONSTANTS
  Absent, Torn, NotStaged, NoText, (* marks that are not file texts          *)
  Utf8,          (* the texts read_to_string accepts                         *)
  Link,          (* the paths that are symbolic links                        *)
  Arguments,     (* the sets of file paths a command line may name           *)
  Base,          (* the merge base's tree, for --changed-since               *)
  Jobs,          (* --jobs                                                   *)
  Modes,         (* the subcommands considered                               *)
  Selections,    (* "paths", "staged" (--staged), "changed" (--changed-since) *)
  Initial,       (* texts a file may hold when the project is first seen     *)
  InitialStaged, (* the same for its index entry                             *)
  Saves,         (* what the author may save (Absent deletes the file)       *)
  MaxEdits, MaxFaults, MaxCrashes, MaxRuns   (* bounds of the exploration    *)

ASSUME MarksAssumption ==
  /\ Absent \notin Content /\ Torn \notin Content
  /\ NotStaged \notin Content /\ NoText \notin Content
  /\ Absent # Torn /\ Absent # NotStaged /\ Absent # NoText
ASSUME RunAssumption ==
  /\ Utf8 \subseteq Content /\ Link \subseteq File /\ Arguments \subseteq SUBSET File
  /\ Base \in [File -> Content \cup {Absent}]
  /\ Jobs \in Nat \ {0}
  /\ Modes \subseteq {"fmt", "check", "diff"}
  /\ Selections \subseteq {"paths", "staged", "changed"}
  /\ Initial \subseteq Content \cup {Absent}
  /\ Saves \subseteq Content \cup {Absent}
  /\ InitialStaged \subseteq Content \cup {NotStaged}
ASSUME BoundsAssumption ==
  /\ MaxEdits \in Nat /\ MaxFaults \in Nat /\ MaxCrashes \in Nat /\ MaxRuns \in Nat

VARIABLES
  (* the file system and the repository *)
  worktree,   (* what a reader of each path sees now                         *)
  access,     (* whose permission bits the path carries                      *)
  older,      (* earlier versions a power loss may still bring back          *)
  unsynced,   (* paths whose visible data never reached the disk             *)
  index,      (* staged blobs                                                *)
  (* the process *)
  phase, mode, selection,
  explicit,   (* the files named on the command line                         *)
  inputs,     (* the selected paths                                          *)
  pending,    (* paths the current sequential loop has still to visit        *)
  blob,       (* staged text read for each path                              *)
  plan,       (* the planner's slot for each path                            *)
  temp,       (* the temporary file of the replacement under way             *)
  written,    (* paths this run has replaced                                 *)
  code,       (* exit code, or Running, or Killed                            *)
  (* history and bounds *)
  saved,      (* every text each path was given by its author                *)
  start,      (* the working tree when this run started                      *)
  disturbed,  (* has the author acted, or a call failed, since then          *)
  late,       (* paths the author has saved since the planner read them      *)
  edits, faults, crashes, runs

tree    == <<worktree, access, older, unsynced>>
request == <<mode, selection, explicit>>
process == <<phase, request, inputs, pending, blob, plan, temp, written, code>>
bounds  == <<edits, faults, crashes, runs>>
history == <<saved, start, disturbed, late>>
vars    == <<tree, index, process, history, bounds>>

Running == 100
Killed  == 101
Codes   == {Running, Killed, Success, WouldChange} \cup ErrorCode

Phases == {"select", "blobs", "verify", "plan", "replace", "done"}
States == {"todo", "read", "ok", "err"}

Slot == [state : States, source : Content \cup {NoText}, code : ErrorCode \cup {Success}]
Todo == [state |-> "todo", source |-> NoText, code |-> Success]

(* The stages of atomic_replace; "none" is no replacement under way. *)
Stages == {"none", "checked", "created", "filled", "permitted", "synced"}
Temp   == [stage : Stages, data : Content \cup {NoText}, access : {"author", "private"}, synced : BOOLEAN]
NoTemp == [stage |-> "none", data |-> NoText, access |-> "private", synced |-> FALSE]

(* f is the first, or the last, of S in path order. *)
First(f, S) == f \in S /\ \A g \in S : f <= g
Last(f, S)  == f \in S /\ \A g \in S : g <= f

(***************************************************************************)
(* Initial states: a project at rest and a run about to start on it.       *)
(***************************************************************************)
Init ==
  /\ worktree \in [File -> Initial]
  /\ access = [f \in File |-> "author"]
  /\ older = [f \in File |-> {}]
  /\ unsynced = {}
  /\ index \in [File -> InitialStaged]
  /\ phase = "select" /\ mode \in Modes /\ selection \in Selections /\ explicit \in Arguments
  /\ inputs = {} /\ pending = {}
  /\ blob = [f \in File |-> NoText]
  /\ plan = [f \in File |-> Todo]
  /\ temp = NoTemp /\ written = {} /\ code = Running
  /\ saved = [f \in File |-> {worktree[f]} \ {Absent}]
  /\ start = worktree /\ disturbed = FALSE /\ late = {}
  /\ edits = 0 /\ faults = 0 /\ crashes = 0 /\ runs = 1

(* The process returns from main with exit code c; NamedTempFile's Drop    *)
(* removes the temporary file on every return.                             *)
Exit(c) == phase' = "done" /\ code' = c /\ temp' = NoTemp

(***************************************************************************)
(* Selection of the inputs.                                                *)
(***************************************************************************)
Present(f) == worktree[f] # Absent

(* Directories are walked without following links; named paths are taken   *)
(* as they are, whatever their language, and followed.                     *)
Discovered == {f \in File : f \in explicit \/ (Present(f) /\ f \notin Link /\ Accepts(f))}

(* git diff --cached, and git diff against the merge base plus the         *)
(* untracked files; filter_candidates then keeps the paths of an enabled   *)
(* language that are regular files, or that are no file at all (a staged   *)
(* path missing from the working tree, a dangling link).                   *)
Kept(f) == Accepts(f) /\ (f \in Link => ~ Present(f))
Staged  == {f \in File : index[f] # NotStaged /\ Kept(f)}
Changed == {f \in File : /\ Kept(f)
                         /\ IF f \in Link THEN Base[f] = Absent
                                          ELSE Present(f) /\ worktree[f] # Base[f]}

Begin(S, next) ==
  /\ inputs' = S
  /\ pending' = IF next = "blobs" THEN S ELSE {}
  /\ phase' = next
  /\ UNCHANGED <<code, temp>>

Select ==
  /\ phase = "select"
  /\ \/ /\ selection = "paths"
        /\ \E f \in explicit : ~ Present(f)
        /\ Exit(FileFault)
        /\ UNCHANGED <<inputs, pending>>
     \/ /\ selection = "paths"
        /\ \A f \in explicit : Present(f)
        /\ Begin(Discovered, "plan")
     \/ selection = "staged" /\ Begin(Staged, "blobs")
     \/ selection = "changed" /\ Begin(Changed, "plan")
  /\ UNCHANGED <<tree, index, request, blob, plan, written, history, bounds>>

(***************************************************************************)
(* The staged preflight.  Every selected blob is read first, one git       *)
(* process per path; `fmt` then compares each with its working file.       *)
(***************************************************************************)
ReadBlob(f) ==
  /\ phase = "blobs" /\ First(f, pending)
  /\ IF index[f] \in Utf8
     THEN /\ blob' = [blob EXCEPT ![f] = index[f]]
          /\ pending' = pending \ {f}
          /\ UNCHANGED <<phase, code, temp>>
     ELSE /\ Exit(FileFault)
          /\ UNCHANGED <<blob, pending>>
  /\ UNCHANGED <<tree, index, request, inputs, plan, written, history, bounds>>

BlobsRead ==
  /\ phase = "blobs" /\ pending = {}
  /\ IF mode = "fmt"
     THEN phase' = "verify" /\ pending' = inputs
     ELSE phase' = "plan" /\ UNCHANGED pending
  /\ UNCHANGED <<tree, index, request, inputs, blob, plan, temp, written, code, history, bounds>>

InSync_ExistsOnly(f) == Present(f)
InSync(f) == worktree[f] = blob[f]

(* The bytes compared here are dropped: the planner reads the path again.  *)
VerifyStaged(f) ==
  /\ phase = "verify" /\ First(f, pending)
  /\ IF InSync(f)
     THEN pending' = pending \ {f} /\ UNCHANGED <<phase, code, temp>>
     ELSE Exit(FileFault) /\ UNCHANGED pending
  /\ UNCHANGED <<tree, index, request, inputs, blob, plan, written, history, bounds>>

StagedVerified ==
  /\ phase = "verify" /\ pending = {}
  /\ phase' = "plan"
  /\ UNCHANGED <<tree, index, request, inputs, pending, blob, plan, temp, written, code, history, bounds>>

(***************************************************************************)
(* Planning.  A pool of at most Jobs threads, never more than there are    *)
(* inputs, takes the files in any order.  Reading the file and formatting  *)
(* it are separate steps: the text read may be stale when it is formatted. *)
(***************************************************************************)
Busy    == {f \in inputs : plan[f].state = "read"}
Workers_ReserveOne == (IF Jobs < Cardinality(inputs) THEN Jobs ELSE Cardinality(inputs)) - 1
Workers == IF Jobs < Cardinality(inputs) THEN Jobs ELSE Cardinality(inputs)

(* PlanInput::Provided carries its text; PlanInput::Worktree only a path.  *)
Provided_AllModes == selection = "staged"
Provided == selection = "staged" /\ mode # "fmt"

Reading_AnyBytes(text) == [state |-> "read", source |-> text, code |-> Success]
Reading(text) ==
  IF text \in Utf8
  THEN [state |-> "read", source |-> text, code |-> Success]
  ELSE [state |-> "err", source |-> NoText, code |-> FileFault]

TakeFile(f) ==
  /\ phase = "plan" /\ f \in inputs
  /\ plan[f].state = "todo"
  /\ Cardinality(Busy) < Workers
  /\ plan' = [plan EXCEPT ![f] = Reading(IF Provided THEN blob[f] ELSE worktree[f])]
  /\ late' = late \ {f}
  /\ UNCHANGED <<tree, index, phase, request, inputs, pending, blob, temp, written, code,
                 saved, start, disturbed, bounds>>

Planned(f, text) ==
  CASE LanguageCode(f) # Success -> [state |-> "err", source |-> text, code |-> LanguageCode(f)]
    [] LanguageCode(f) = Success /\ ~ Formats(text) -> [state |-> "err", source |-> text, code |-> SourceFault]
    [] OTHER -> [state |-> "ok", source |-> text, code |-> Success]

PlanFile(f) ==
  /\ phase = "plan" /\ f \in inputs
  /\ plan[f].state = "read"
  /\ plan' = [plan EXCEPT ![f] = Planned(f, plan[f].source)]
  /\ UNCHANGED <<tree, index, phase, request, inputs, pending, blob, temp, written, code, history, bounds>>

(***************************************************************************)
(* The decision, once every slot is filled: the error of the first failed  *)
(* input in path order, else 3 when any plan has a fatal diagnostic, else  *)
(* the work of the subcommand.                                             *)
(***************************************************************************)
Failed     == {f \in inputs : plan[f].state = "err"}
FirstError_Last(f) == Last(f, Failed)
FirstError(f) == First(f, Failed)
HasErrors_FirstPlan == \E f \in inputs : First(f, inputs) /\ HasFatal(plan[f].source)
HasErrors  == \E f \in inputs : HasFatal(plan[f].source)
ToRewrite  == {f \in inputs : Changes(plan[f].source)}

Decide ==
  /\ phase = "plan"
  /\ \A f \in inputs : plan[f].state \in {"ok", "err"}
  /\ \/ \E f \in Failed : FirstError(f) /\ Exit(plan[f].code) /\ UNCHANGED pending
     \/ Failed = {} /\ HasErrors /\ Exit(SourceFault) /\ UNCHANGED pending
     \/ /\ Failed = {} /\ ~ HasErrors /\ mode = "fmt"
        /\ phase' = "replace" /\ pending' = ToRewrite
        /\ UNCHANGED <<code, temp>>
     \/ /\ Failed = {} /\ ~ HasErrors /\ mode # "fmt"
        /\ Exit(IF ToRewrite = {} THEN Success ELSE WouldChange)
        /\ UNCHANGED pending
  /\ UNCHANGED <<tree, index, request, inputs, blob, plan, written, history, bounds>>

(***************************************************************************)
(* Replacement: the changed plans in path order, one atomic_replace each.  *)
(***************************************************************************)
Current_Backwards(f) == Last(f, pending)
Current(f) == First(f, pending)

Replacing(f, stage) == phase = "replace" /\ Current(f) /\ temp.stage = stage

CheckTarget(f) ==
  /\ Replacing(f, "none")
  /\ IF Present(f) /\ f \notin Link
     THEN temp' = [NoTemp EXCEPT !.stage = "checked"] /\ UNCHANGED <<phase, code>>
     ELSE Exit(FileFault)
  /\ UNCHANGED <<tree, index, request, inputs, pending, blob, plan, written, history, bounds>>

Replacement(f) == Formatted(plan[f].source)

CreateTemp(f) ==
  Replacing(f, "checked") /\ temp' = [temp EXCEPT !.stage = "created"]

WriteTemp(f) ==
  Replacing(f, "created") /\ temp' = [temp EXCEPT !.stage = "filled", !.data = Replacement(f)]

CopyAccess_Dropped(f) ==
  Replacing(f, "filled") /\ temp' = [temp EXCEPT !.stage = "permitted"]
CopyAccess(f) ==
  Replacing(f, "filled") /\ temp' = [temp EXCEPT !.stage = "permitted", !.access = "author"]

SyncTemp_Dropped(f) ==
  Replacing(f, "permitted") /\ temp' = [temp EXCEPT !.stage = "synced"]
SyncTemp(f) ==
  Replacing(f, "permitted") /\ temp' = [temp EXCEPT !.stage = "synced", !.synced = TRUE]

PrepareTemp(f) ==
  /\ CreateTemp(f) \/ WriteTemp(f) \/ CopyAccess(f) \/ SyncTemp(f)
  /\ UNCHANGED <<tree, index, phase, request, inputs, pending, blob, plan, written, code, history, bounds>>

(* The rename: readers see the old file or the new one.  The directory is  *)
(* not synced, so until the system writes it back a power loss may undo it. *)
Persist(f) ==
  /\ Replacing(f, "synced")
  /\ worktree' = [worktree EXCEPT ![f] = temp.data]
  /\ access' = [access EXCEPT ![f] = temp.access]
  /\ older' = [older EXCEPT ![f] = @ \cup {worktree[f]}]
  /\ unsynced' = IF temp.synced THEN unsynced \ {f} ELSE unsynced \cup {f}
  /\ written' = written \cup {f}
  /\ pending' = pending \ {f}
  /\ temp' = NoTemp
  /\ UNCHANGED <<index, phase, request, inputs, blob, plan, code, history, bounds>>

Finish ==
  /\ phase = "replace" /\ pending = {}
  /\ Exit(Success)
  /\ UNCHANGED <<tree, index, request, inputs, pending, blob, plan, written, history, bounds>>

(***************************************************************************)
(* The machine.  A call may fail wherever the code maps an I/O error to    *)
(* exit code 4; kill -9 stops the process between any two calls, running   *)
(* no destructor; a power loss also undoes renames the disk has not seen.  *)
(***************************************************************************)
Fault == faults < MaxFaults /\ faults' = faults + 1 /\ disturbed' = TRUE

CallFails ==
  /\ Fault
  /\ \/ phase \in {"select", "blobs", "verify"}
     \/ phase = "plan" /\ inputs # {} /\ \A f \in inputs : plan[f] = Todo
     \/ phase = "replace" /\ pending # {}
  /\ Exit(FileFault)
  /\ UNCHANGED <<tree, index, request, inputs, pending, blob, plan, written,
                 saved, start, late, edits, crashes, runs>>

ReadFails(f) ==
  /\ Fault
  /\ phase = "plan" /\ f \in inputs /\ plan[f].state = "todo" /\ ~ Provided
  /\ Cardinality(Busy) < Workers
  /\ plan' = [plan EXCEPT ![f] = Reading(Absent)]
  /\ UNCHANGED <<tree, index, phase, request, inputs, pending, blob, temp, written, code,
                 saved, start, late, edits, crashes, runs>>

Kill ==
  /\ crashes < MaxCrashes /\ crashes' = crashes + 1
  /\ phase # "done"
  /\ Exit(Killed)
  /\ UNCHANGED <<tree, index, request, inputs, pending, blob, plan, written, history,
                 edits, faults, runs>>

Surviving(f) == older[f] \cup {IF f \in unsynced THEN Torn ELSE worktree[f]}

PowerLoss ==
  /\ crashes < MaxCrashes /\ crashes' = crashes + 1
  /\ \E w \in [File -> UNION {Surviving(f) : f \in File}] :
       (\A f \in File : w[f] \in Surviving(f)) /\ worktree' = w
  /\ older' = [f \in File |-> {}] /\ unsynced' = {}
  /\ Exit(Killed)
  /\ UNCHANGED <<access, index, request, inputs, pending, blob, plan, written, history,
                 edits, faults, runs>>

(***************************************************************************)
(* The author.                                                             *)
(***************************************************************************)
Save(f, text) ==
  /\ edits < MaxEdits /\ edits' = edits + 1
  /\ text # worktree[f]
  /\ worktree' = [worktree EXCEPT ![f] = text]
  /\ access' = [access EXCEPT ![f] = "author"]
  /\ older' = [older EXCEPT ![f] = {}]
  /\ unsynced' = unsynced \ {f}
  /\ saved' = [saved EXCEPT ![f] = @ \cup ({text} \ {Absent})]
  /\ late' = late \cup {f}
  /\ disturbed' = TRUE
  /\ UNCHANGED <<index, process, start, faults, crashes, runs>>

Stage(f) ==
  /\ edits < MaxEdits /\ edits' = edits + 1
  /\ index' = [index EXCEPT ![f] = IF Present(f) THEN worktree[f] ELSE NotStaged]
  /\ index' # index
  /\ disturbed' = TRUE
  /\ UNCHANGED <<tree, process, saved, start, late, faults, crashes, runs>>

RunAgain ==
  /\ phase = "done" /\ runs < MaxRuns /\ runs' = runs + 1
  /\ phase' = "select" /\ mode' \in Modes /\ selection' \in Selections /\ explicit' \in Arguments
  /\ inputs' = {} /\ pending' = {}
  /\ blob' = [f \in File |-> NoText] /\ plan' = [f \in File |-> Todo]
  /\ temp' = NoTemp /\ written' = {} /\ code' = Running
  /\ start' = worktree /\ disturbed' = FALSE /\ late' = {}
  /\ UNCHANGED <<tree, index, saved, edits, faults, crashes>>

(***************************************************************************)
(* The specification.  The scheduler keeps running a live process; nothing *)
(* makes the author, the faults or the next invocation happen.             *)
(***************************************************************************)
RunStep ==
  \/ Select \/ BlobsRead \/ StagedVerified \/ Decide \/ Finish
  \/ \E f \in File :
       \/ ReadBlob(f) \/ VerifyStaged(f) \/ TakeFile(f) \/ PlanFile(f)
       \/ CheckTarget(f) \/ PrepareTemp(f) \/ Persist(f)

Machine == CallFails \/ (\E f \in File : ReadFails(f)) \/ Kill \/ PowerLoss
Author  == \E f \in File : (\E text \in Saves : Save(f, text)) \/ Stage(f)

Next == RunStep \/ Machine \/ Author \/ RunAgain

Spec     == Init /\ [][Next]_vars
FairSpec == Spec /\ WF_vars(RunStep)

-----------------------------------------------------------------------------
(* Every variable keeps to the values the code can give it. *)
TypeOK ==
  /\ worktree \in [File -> Content \cup {Absent, Torn}]
  /\ access \in [File -> {"author", "private"}]
  /\ older \in [File -> SUBSET (Content \cup {Absent, Torn})]
  /\ unsynced \subseteq File
  /\ index \in [File -> Content \cup {NotStaged, Torn}]
  /\ phase \in Phases /\ mode \in Modes /\ selection \in Selections /\ explicit \in Arguments
  /\ inputs \subseteq File /\ pending \subseteq inputs /\ written \subseteq inputs
  /\ blob \in [File -> Content \cup {NoText}]
  /\ plan \in [File -> Slot]
  /\ temp \in Temp
  /\ code \in Codes
  /\ saved \in [File -> SUBSET Content]
  /\ start \in [File -> Content \cup {Absent, Torn}]
  /\ disturbed \in BOOLEAN /\ late \subseteq File
  /\ edits \in 0 .. MaxEdits /\ faults \in 0 .. MaxFaults
  /\ crashes \in 0 .. MaxCrashes /\ runs \in Nat

(* At every moment - between the calls of a replacement, after kill -9,    *)
(* after a power loss that undid renames, however many runs later - a path *)
(* holds a complete text its author gave it or the formatting of one.      *)
(* Rests on write, sync, rename in that order and on the two-pass gate.    *)
AuthoredOrFormatted ==
  \A f \in File :
    \/ worktree[f] = Absent
    \/ \E c \in saved[f] : worktree[f] = c \/ (Formats(c) /\ worktree[f] = Formatted(c))

(* A file never becomes visible with the private bits of a temporary file.    *)
AccessKept == \A f \in File : access[f] = "author"

(* Whole-project preflight: a run that has replaced any file is a `fmt`    *)
(* whose every input was planned without an error or a fatal diagnostic.   *)
PreflightComplete ==
  written # {} => /\ mode = "fmt"
                  /\ \A f \in inputs : plan[f].state = "ok" /\ ~ HasFatal(plan[f].source)

(* However a run ends in the middle of its replacements, what it replaced  *)
(* is an initial segment, in path order, of what it had to replace.        *)
InterruptedPrefix ==
  \A f \in written : /\ f \in ToRewrite
                     /\ \A g \in ToRewrite \ written : f < g

(***************************************************************************)
(* The run as one sequential function of the tree it started on.           *)
(***************************************************************************)
SequentialText(f) == IF Provided THEN index[f] ELSE start[f]

SequentialCode(f) ==
  CASE SequentialText(f) \notin Utf8         -> FileFault
    [] SequentialText(f) \in Utf8 /\ LanguageCode(f) # Success -> LanguageCode(f)
    [] SequentialText(f) \in Utf8 /\ LanguageCode(f) = Success
         /\ ~ Formats(SequentialText(f))    -> SourceFault
    [] OTHER                                -> Success

Rejected  == {f \in inputs : SequentialCode(f) # Success}
Rewritten == {f \in inputs : Changes(SequentialText(f))}
Preceding(S, T) == {f \in S : \A g \in T : f < g}

Refused ==
  \/ selection = "paths" /\ \E f \in explicit : start[f] = Absent
  \/ selection = "staged" /\ \E f \in inputs :
       index[f] \notin Utf8 \/ (mode = "fmt" /\ start[f] # index[f])

SequentialExit ==
  CASE Refused                          -> FileFault
    [] ~ Refused /\ Rejected # {}       -> SequentialCode(CHOOSE f \in Rejected : First(f, Rejected))
    [] ~ Refused /\ Rejected = {}
         /\ (\E f \in inputs : HasFatal(SequentialText(f))) -> SourceFault
    [] OTHER -> IF mode = "fmt"
                THEN IF Rewritten \cap Link = {} THEN Success ELSE FileFault
                ELSE IF Rewritten = {} THEN Success ELSE WouldChange

SequentialTree ==
  LET applied == IF mode # "fmt" \/ Refused \/ Rejected # {}
                      \/ (\E f \in inputs : HasFatal(SequentialText(f)))
                 THEN {} ELSE Preceding(Rewritten, Rewritten \cap Link)
  IN  [f \in File |-> IF f \in applied THEN Formatted(start[f]) ELSE start[f]]

(* Whatever the number of workers and the order they finish in, an         *)
(* undisturbed run exits with the code, and leaves the tree, of planning   *)
(* its inputs one after the other.                                         *)
ScheduleIndependent ==
  (phase = "done" /\ code # Killed /\ ~ disturbed) =>
    code = SequentialExit /\ worktree = SequentialTree

(* Exit code 0 of an undisturbed run over working files is the truth:      *)
(* every input passes the gate and formatting it again changes nothing.    *)
CleanExitIsStable ==
  (phase = "done" /\ code = Success /\ ~ disturbed /\ ~ Provided) =>
    \A f \in inputs : Formats(worktree[f]) /\ ~ Changes(worktree[f])

(* However often earlier runs were killed or lost power part-way, a `fmt`  *)
(* that succeeds on files nobody edited leaves each input as one           *)
(* uninterrupted run would have: the formatting of the author's text.      *)
RecoveryConverges ==
  (phase = "done" /\ code = Success /\ mode = "fmt" /\ edits = 0) =>
    \A f \in inputs : \A c \in saved[f] : worktree[f] = Formatted(c)

(* User guide: "Staged fmt first requires each selected index blob to      *)
(* match its worktree file byte-for-byte.  Partially staged files are      *)
(* therefore rejected before formatting begins."  A staged `fmt` replaces  *)
(* only files whose formatted text was the staged one.                     *)
StagedTextFormatted ==
  selection = "staged" => \A f \in written : plan[f].source = blob[f]

(* A replacement discards a text that was never formatted only when the    *)
(* author saved it after the planner had read the file: every earlier save *)
(* reaches the formatter.                                                  *)
OnlyLateSavesLost ==
  [][\A f \in written' \ written : worktree[f] = plan[f].source \/ f \in late]_vars

(* The whole of it implements RunContract: nothing is written while        *)
(* planning, the texts are fixed when the last plan is in, and each file   *)
(* changes in one step, in path order, whatever the pool, the temporary    *)
(* files, the author and the machine do.                                   *)
Contract == INSTANCE RunContract WITH
  recoverable <- older,
  stage <- CASE phase = "done" -> "over" [] phase = "replace" -> "committed" [] OTHER -> "planning",
  owed <- [f \in (IF phase = "replace" THEN pending ELSE {}) |-> Formatted(plan[f].source)]

ContractKept == Contract!Spec

(* Every run ends: the pool, the staged loops and the replacement loop     *)
(* always have a step to take.                                             *)
EveryRunEnds == phase # "done" ~> phase = "done"
=============================================================================
