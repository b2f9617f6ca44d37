-------------------------- MODULE ProjectRunProofs --------------------------
(***************************************************************************)
(* Safety of ProjectRun for every project, formatter, command line and     *)
(* bound.  The invariant relates the visible tree to what the process has  *)
(* in its memory: the plans are formatted author texts, the temporary file *)
(* holds the formatting of the plan it stands for and is synced before the *)
(* rename.                                                                 *)
(***************************************************************************)
EXTENDS ProjectRun, TLAPS

Versions(f) ==
  {c \in Content : \E s \in saved[f] : c = s \/ (Formats(s) /\ c = Formatted(s))}

TreeInv ==
  /\ \A f \in File : worktree[f] \in Versions(f) \cup {Absent}
  /\ \A f \in File : older[f] \subseteq Versions(f) \cup {Absent}
  /\ unsynced = {}

PlanInv ==
  \A f \in File : /\ plan[f].state = "ok" => plan[f].source \in Content /\ Formats(plan[f].source)
                  /\ plan[f].state = "read" => plan[f].source \in Content
                  /\ mode = "fmt" /\ plan[f].state \in {"read", "ok"} => plan[f].source \in Versions(f)

ReplaceInv ==
  phase = "replace" => /\ mode = "fmt"
                       /\ \A f \in inputs : plan[f].state = "ok" /\ ~ HasFatal(plan[f].source)

TempInv ==
  /\ temp.stage # "none" => phase = "replace"
  /\ temp.stage \in {"filled", "permitted", "synced"} =>
       \A f \in pending : First(f, pending) => temp.data = Formatted(plan[f].source)
  /\ temp.stage \in {"permitted", "synced"} => temp.access = "author"
  /\ temp.stage = "synced" => temp.synced

WrittenInv == written # {} => phase \in {"replace", "done"}

IInv == TypeOK /\ WrittenInv /\ TreeInv /\ PlanInv /\ ReplaceInv /\ TempInv /\ AccessKept /\ PreflightComplete

-----------------------------------------------------------------------------
(* What the gate buys: the formatting of a text that passed it passes it   *)
(* too and is its own formatting (format_source_with_rust).                *)
LEMMA GateIdempotent ==
  ASSUME NEW c \in Content, Formats(c)
  PROVE  Formatted(c) \in Content /\ Formatted(Formatted(c)) = Formatted(c)
BY FormatterAssumption DEF Formats, Formatted, PassResult

(* Formatting a version of a file gives a version of it: the author's text *)
(* formats to its formatting, which formats to itself.                     *)
LEMMA VersionsClosed ==
  ASSUME NEW f \in File, NEW c \in Versions(f), TypeOK, Formats(c)
  PROVE  Formatted(c) \in Versions(f)
<1>1. PICK s \in saved[f] : c = s \/ (Formats(s) /\ c = Formatted(s))
  BY DEF Versions
<1>2. s \in Content /\ c \in Content
  BY DEF TypeOK, Versions
<1>3. CASE c = s
  BY <1>2, <1>3, GateIdempotent DEF Versions
<1>4. CASE Formats(s) /\ c = Formatted(s)
  BY <1>2, <1>4, GateIdempotent DEF Versions
<1>5. QED
  BY <1>1, <1>3, <1>4

(* A step that touches neither the tree nor the author's texts keeps what  *)
(* is known of the tree.                                                   *)
LEMMA TreeFramed ==
  ASSUME TreeInv, AccessKept, UNCHANGED <<tree, saved>>
  PROVE  TreeInv' /\ AccessKept' /\ (\A f \in File : Versions(f)' = Versions(f))
BY DEF TreeInv, AccessKept, tree, Versions

(* The values the process resets its slots to are well typed. *)
LEMMA ResetsTyped == NoTemp \in Temp /\ Todo \in Slot
BY DEF NoTemp, Temp, Stages, Todo, Slot, States

(* Returning from main with a known code keeps the types it touches. *)
LEMMA ExitTyped ==
  ASSUME NEW c \in Codes, Exit(c)
  PROVE  phase' \in Phases /\ code' \in Codes /\ temp' \in Temp
BY ResetsTyped DEF Exit, Phases

(* The initial states satisfy the invariant. *)
LEMMA InitEstablishes == Init => IInv
<1> SUFFICES ASSUME Init PROVE IInv
  OBVIOUS
<1>1. TypeOK
  <2>1. /\ worktree \in [File -> Content \cup {Absent, Torn}]
        /\ start \in [File -> Content \cup {Absent, Torn}]
        /\ index \in [File -> Content \cup {NotStaged, Torn}]
        /\ older \in [File -> SUBSET (Content \cup {Absent, Torn})]
    BY RunAssumption DEF Init
  <2>2. saved \in [File -> SUBSET Content]
    BY RunAssumption DEF Init
  <2>3. /\ access \in [File -> {"author", "private"}] /\ temp \in Temp
        /\ blob \in [File -> Content \cup {NoText}]
        /\ plan \in [File -> Slot]
    BY ResetsTyped DEF Init
  <2>4. /\ phase \in Phases /\ mode \in Modes
        /\ selection \in Selections /\ explicit \in Arguments
        /\ inputs \subseteq File /\ pending \subseteq inputs /\ written \subseteq inputs
        /\ unsynced \subseteq File /\ late \subseteq File
        /\ code \in Codes /\ disturbed \in BOOLEAN
    BY DEF Init, Phases, Codes
  <2>5. /\ edits \in 0 .. MaxEdits /\ faults \in 0 .. MaxFaults
        /\ crashes \in 0 .. MaxCrashes /\ runs \in Nat
    BY BoundsAssumption DEF Init
  <2>6. QED
    BY <2>1, <2>2, <2>3, <2>4, <2>5 DEF TypeOK
<1>2. TreeInv
  BY RunAssumption DEF Init, TreeInv, Versions
<1>3. WrittenInv /\ PlanInv /\ ReplaceInv /\ TempInv /\ AccessKept /\ PreflightComplete
  BY DEF Init, WrittenInv, PlanInv, ReplaceInv, TempInv, AccessKept, PreflightComplete, Todo, NoTemp
<1>4. QED
  BY <1>1, <1>2, <1>3 DEF IInv

(* Types are kept by every step. *)
LEMMA TypesKept ==
  ASSUME IInv, [Next]_vars
  PROVE  TypeOK'
<1> USE RunAssumption, BoundsAssumption, ResetsTyped DEF TypeOK, Phases, tree, request, bounds, history
<1>f. /\ FileFault \in Codes /\ SourceFault \in Codes /\ Killed \in Codes
      /\ Success \in Codes /\ WouldChange \in Codes /\ Running \in Codes
  BY DEF Codes, ErrorCode, FileFault, SourceFault
<1> TypeOK
  BY DEF IInv
<1>1. CASE Select
  <2>1. CASE Exit(FileFault) /\ UNCHANGED <<inputs, pending>>
    BY <1>1, <1>f, <2>1, ExitTyped DEF Select
  <2>2. ASSUME NEW S \in SUBSET File, NEW next \in {"blobs", "plan"}, Begin(S, next)
        PROVE  TypeOK'
    <3>1. inputs' \subseteq File /\ pending' \subseteq inputs' /\ phase' \in Phases /\ UNCHANGED <<code, temp>>
      BY <2>2 DEF Begin
    <3>2. UNCHANGED <<tree, index, request, blob, plan, history, bounds>> /\ written = {} /\ written' = {}
      BY <1>1 DEF Select, IInv, WrittenInv
    <3>3. QED
      BY <3>1, <3>2
  <2>3. Discovered \in SUBSET File /\ Staged \in SUBSET File /\ Changed \in SUBSET File
    BY DEF Discovered, Staged, Changed
  <2>4. QED
    BY <1>1, <2>1, <2>2, <2>3 DEF Select
<1>2. CASE BlobsRead
  BY <1>2 DEF BlobsRead
<1>3. CASE StagedVerified
  BY <1>3 DEF StagedVerified
<1>4. CASE Decide
  <2>1. ASSUME NEW c \in Codes, Exit(c), UNCHANGED pending PROVE TypeOK'
    BY <1>4, <2>1, ExitTyped DEF Decide
  <2>2. CASE phase' = "replace" /\ pending' = ToRewrite /\ UNCHANGED <<code, temp>>
    BY <1>4, <2>2 DEF Decide, ToRewrite
  <2>3. \A f \in Failed : plan[f].code \in Codes
    BY <1>f DEF Failed, Slot, Codes
  <2>4. QED
    BY <1>4, <1>f, <2>1, <2>2, <2>3 DEF Decide
<1>5. CASE Finish
  BY <1>5, <1>f, ExitTyped DEF Finish
<1>6. ASSUME NEW f \in File, ReadBlob(f) PROVE TypeOK'
  <2>1. CASE Exit(FileFault)
    BY <1>6, <2>1, <1>f, ExitTyped DEF ReadBlob
  <2>2. CASE ~ Exit(FileFault)
    BY <1>6, <2>2 DEF ReadBlob, First
  <2>3. QED
    BY <2>1, <2>2
<1>7. ASSUME NEW f \in File, VerifyStaged(f) PROVE TypeOK'
  <2>1. CASE Exit(FileFault)
    BY <1>7, <2>1, <1>f, ExitTyped DEF VerifyStaged
  <2>2. CASE ~ Exit(FileFault)
    BY <1>7, <2>2 DEF VerifyStaged, First
  <2>3. QED
    BY <2>1, <2>2
<1>8. ASSUME NEW f \in File, TakeFile(f) PROVE TypeOK'
  <2>1. \A text \in Content \cup {Absent, Torn, NoText} : Reading(text) \in Slot
    BY DEF Reading, Slot, States, ErrorCode, Success, FileFault
  <2>2. QED
    BY <1>8, <2>1 DEF TakeFile
<1>9. ASSUME NEW f \in File, PlanFile(f) PROVE TypeOK'
  <2>1. Planned(f, plan[f].source) \in Slot
    BY FormatterAssumption DEF Planned, LanguageCode, Slot, States, ErrorCode, Success, Usage, SourceFault, FileFault
  <2>2. QED
    BY <1>9, <2>1 DEF PlanFile
<1>10. ASSUME NEW f \in File, CheckTarget(f) PROVE TypeOK'
  <2>1. [NoTemp EXCEPT !.stage = "checked"] \in Temp
    BY DEF NoTemp, Temp, Stages
  <2>2. QED
    BY <1>10, <1>f, <2>1, ExitTyped DEF CheckTarget
<1>11. ASSUME NEW f \in File, PrepareTemp(f) PROVE TypeOK'
  <2>1. CASE WriteTemp(f)
    <3>1. plan[f].source \in Content
      BY <2>1 DEF WriteTemp, Replacing, Current, First, IInv, PlanInv, ReplaceInv
    <3>2. Replacement(f) \in Content
      BY <3>1, FormatterAssumption DEF Replacement, Formatted, PassResult
    <3>3. temp' \in Temp
      BY <2>1, <3>2 DEF WriteTemp, Temp, Stages
    <3>4. QED
      BY <1>11, <3>3 DEF PrepareTemp
  <2>2. CASE CreateTemp(f) \/ CopyAccess(f) \/ SyncTemp(f)
    <3>1. temp' \in Temp
      <4>1. CASE CreateTemp(f)
        BY <4>1 DEF CreateTemp, Temp, Stages
      <4>2. CASE CopyAccess(f)
        BY <4>2 DEF CopyAccess, Temp, Stages
      <4>3. CASE SyncTemp(f)
        BY <4>3 DEF SyncTemp, Temp, Stages
      <4>4. QED
        BY <2>2, <4>1, <4>2, <4>3
    <3>2. QED
      BY <1>11, <3>1 DEF PrepareTemp
  <2>3. QED
    BY <1>11, <2>1, <2>2 DEF PrepareTemp
<1>12. ASSUME NEW f \in File, Persist(f) PROVE TypeOK'
  <2>1. temp.data \in Content /\ f \in inputs
    BY <1>12, FormatterAssumption
    DEF Persist, Replacing, Current, First, IInv, TempInv, PlanInv, ReplaceInv, Formatted, PassResult
  <2>2. temp.access \in {"author", "private"}
    BY DEF Temp
  <2>3. /\ worktree' \in [File -> Content \cup {Absent, Torn}]
        /\ access' \in [File -> {"author", "private"}]
    BY <1>12, <2>1, <2>2 DEF Persist
  <2>4. older' \in [File -> SUBSET (Content \cup {Absent, Torn})]
    BY <1>12 DEF Persist
  <2>5. unsynced' \subseteq File /\ written' \subseteq inputs' /\ pending' \subseteq inputs'
    BY <1>12, <2>1 DEF Persist
  <2>6. QED
    BY <1>12, <2>3, <2>4, <2>5 DEF Persist
<1>13. CASE CallFails
  BY <1>13, <1>f, ExitTyped DEF CallFails, Fault
<1>14. ASSUME NEW f \in File, ReadFails(f) PROVE TypeOK'
  <2>1. Reading(Absent) \in Slot
    BY MarksAssumption DEF Reading, Slot, States, ErrorCode, Success, FileFault
  <2>2. QED
    BY <1>14, <2>1 DEF ReadFails, Fault
<1>15. CASE Kill
  BY <1>15, <1>f, ExitTyped DEF Kill
<1>16. CASE PowerLoss
  <2>1. worktree' \in [File -> Content \cup {Absent, Torn}]
    <3>1. PICK w \in [File -> UNION {Surviving(f) : f \in File}] :
            (\A f \in File : w[f] \in Surviving(f)) /\ worktree' = w
      BY <1>16 DEF PowerLoss
    <3>2. \A f \in File : Surviving(f) \subseteq Content \cup {Absent, Torn}
      BY DEF Surviving
    <3>3. QED
      BY <3>1, <3>2
  <2>2. QED
    BY <1>16, <1>f, <2>1, ExitTyped DEF PowerLoss
<1>17. ASSUME NEW f \in File, NEW text \in Saves, Save(f, text) PROVE TypeOK'
  BY <1>17 DEF Save, process
<1>18. ASSUME NEW f \in File, Stage(f) PROVE TypeOK'
  <2>1. index' \in [File -> Content \cup {NotStaged, Torn}]
    BY <1>18 DEF Stage, Present
  <2>2. QED
    BY <1>18, <2>1 DEF Stage, process
<1>19. CASE RunAgain
  <2>1. blob' \in [File -> Content \cup {NoText}] /\ plan' \in [File -> Slot] /\ temp' \in Temp
    BY <1>19 DEF RunAgain
  <2>2. runs' \in Nat /\ phase' \in Phases /\ code' \in Codes
    BY <1>19, <1>f DEF RunAgain
  <2>3. QED
    BY <1>19, <2>1, <2>2 DEF RunAgain
<1>20. CASE UNCHANGED vars
  BY <1>20 DEF vars, process
<1>21. QED
  BY <1>1, <1>2, <1>3, <1>4, <1>5, <1>6, <1>7, <1>8, <1>9, <1>10, <1>11, <1>12, <1>13, <1>14,
     <1>15, <1>16, <1>17, <1>18, <1>19, <1>20 DEF Next, RunStep, Machine, Author

(* The tree holds only versions of the author's texts: a replacement puts  *)
(* there the formatting of a plan read from the tree, and what a power     *)
(* loss brings back was there before.                                      *)
LEMMA TreeKept ==
  ASSUME IInv, [Next]_vars
  PROVE  TreeInv' /\ AccessKept'
<1> USE DEF process, request, bounds, history
<1>0. TypeOK /\ TreeInv /\ AccessKept
  BY DEF IInv
<1>1. CASE UNCHANGED <<tree, saved>>
  BY <1>0, <1>1, TreeFramed
<1>2. ASSUME NEW f \in File, Persist(f) PROVE TreeInv' /\ AccessKept'
  <2>1. f \in pending /\ f \in inputs /\ mode = "fmt" /\ plan[f].state = "ok" /\ temp.synced
        /\ temp.access = "author" /\ temp.data = Formatted(plan[f].source)
    BY <1>0, <1>2 DEF Persist, Replacing, Current, First, IInv, TempInv, ReplaceInv, TypeOK
  <2>2. plan[f].source \in Versions(f) /\ Formats(plan[f].source)
    BY <2>1 DEF IInv, PlanInv
  <2>3. temp.data \in Versions(f)
    BY <1>0, <2>1, <2>2, VersionsClosed
  <2>4. \A g \in File : Versions(g)' = Versions(g)
    BY <1>2 DEF Persist, Versions
  <2>5. worktree' = [worktree EXCEPT ![f] = temp.data] /\ older' = [older EXCEPT ![f] = @ \cup {worktree[f]}]
        /\ unsynced' = {} /\ access' = [access EXCEPT ![f] = "author"]
    BY <1>0, <1>2, <2>1 DEF Persist, TreeInv
  <2>6. AccessKept'
    BY <1>0, <2>5 DEF AccessKept, TypeOK
  <2>7. \A g \in File : worktree'[g] \in Versions(g) \cup {Absent}
    BY <1>0, <2>3, <2>5 DEF TreeInv, TypeOK
  <2>8. \A g \in File : older'[g] \subseteq Versions(g) \cup {Absent}
    BY <1>0, <2>5 DEF TreeInv, TypeOK
  <2>9. QED
    BY <2>4, <2>5, <2>6, <2>7, <2>8 DEF TreeInv
<1>3. CASE PowerLoss
  <2>1. \A f \in File : Versions(f)' = Versions(f)
    BY <1>3 DEF PowerLoss, Versions
  <2>2. \A f \in File : worktree'[f] \in older[f] \cup {worktree[f]}
    BY <1>0, <1>3 DEF PowerLoss, Surviving, TreeInv
  <2>3. \A f \in File : worktree'[f] \in Versions(f) \cup {Absent}
    BY <1>0, <2>2 DEF TreeInv
  <2>4. QED
    BY <1>0, <1>3, <2>1, <2>3 DEF PowerLoss, TreeInv, AccessKept
<1>4. ASSUME NEW f \in File, NEW text \in Saves, Save(f, text) PROVE TreeInv' /\ AccessKept'
  <2>1. saved' = [saved EXCEPT ![f] = @ \cup ({text} \ {Absent})]
        /\ worktree' = [worktree EXCEPT ![f] = text] /\ older' = [older EXCEPT ![f] = {}]
        /\ access' = [access EXCEPT ![f] = "author"] /\ unsynced' = unsynced \ {f}
    BY <1>4 DEF Save
  <2>2. \A g \in File : Versions(g) \subseteq Versions(g)'
    BY <1>0, <2>1 DEF Versions, TypeOK
  <2>3. text \in Versions(f)' \cup {Absent}
    BY <1>0, <2>1, RunAssumption DEF Versions, TypeOK
  <2>4. QED
    BY <1>0, <2>1, <2>2, <2>3 DEF TreeInv, AccessKept, TypeOK
<1>5. CASE RunStep /\ ~ \E f \in File : Persist(f)
  <2>1. UNCHANGED <<tree, saved>>
    BY <1>5 DEF RunStep, Select, BlobsRead, StagedVerified, Decide, Finish, ReadBlob, VerifyStaged,
                TakeFile, PlanFile, CheckTarget, PrepareTemp
  <2>2. QED
    BY <1>1, <2>1
<1>6. CASE CallFails \/ (\E f \in File : ReadFails(f)) \/ Kill \/ RunAgain \/ UNCHANGED vars
  <2>1. UNCHANGED <<tree, saved>>
    BY <1>6 DEF CallFails, ReadFails, Kill, RunAgain, vars
  <2>2. QED
    BY <1>1, <2>1
<1>7. ASSUME NEW f \in File, Stage(f) PROVE TreeInv' /\ AccessKept'
  BY <1>1, <1>7 DEF Stage
<1>8. QED
  BY <1>2, <1>3, <1>4, <1>5, <1>6, <1>7 DEF Next, Machine, Author

(* A filled slot names a text the planner may format; in a `fmt` run it is *)
(* a version of the file, read from the tree and not from the index.       *)
LEMMA PlansKept ==
  ASSUME IInv, [Next]_vars
  PROVE  PlanInv'
<1>0. TypeOK /\ TreeInv /\ PlanInv
  BY DEF IInv
<1>1. CASE UNCHANGED <<plan, mode, saved>>
  BY <1>0, <1>1 DEF PlanInv, Versions
<1>2. ASSUME NEW f \in File, TakeFile(f) PROVE PlanInv'
  <2>1. plan' = [plan EXCEPT ![f] = Reading(IF Provided THEN blob[f] ELSE worktree[f])]
        /\ mode' = mode /\ saved' = saved
    BY <1>2 DEF TakeFile, request
  <2>2. \A g \in File : Versions(g)' = Versions(g)
    BY <2>1 DEF Versions
  <2>3. CASE Provided
    BY <1>0, <2>1, <2>2, <2>3, RunAssumption DEF Provided, Reading, PlanInv, TypeOK
  <2>4. CASE ~ Provided
    <3>1. worktree[f] \in Utf8 => worktree[f] \in Versions(f) /\ worktree[f] \in Content
      BY <1>0, RunAssumption, MarksAssumption DEF TreeInv
    <3>2. QED
      BY <1>0, <2>1, <2>2, <2>4, <3>1 DEF Reading, PlanInv, TypeOK
  <2>5. QED
    BY <2>3, <2>4
<1>3. ASSUME NEW f \in File, PlanFile(f) PROVE PlanInv'
  <2>1. plan' = [plan EXCEPT ![f] = Planned(f, plan[f].source)] /\ plan[f].state = "read"
        /\ mode' = mode /\ saved' = saved
    BY <1>3 DEF PlanFile, request, history
  <2>2. Planned(f, plan[f].source).source = plan[f].source
        /\ (Planned(f, plan[f].source).state = "ok" => Formats(plan[f].source))
        /\ Planned(f, plan[f].source).state \in {"ok", "err"}
    BY DEF Planned
  <2>3. \A g \in File : Versions(g)' = Versions(g)
    BY <2>1 DEF Versions
  <2>4. QED
    BY <1>0, <2>1, <2>2, <2>3 DEF PlanInv, TypeOK
<1>4. ASSUME NEW f \in File, ReadFails(f) PROVE PlanInv'
  BY <1>0, <1>4, RunAssumption, MarksAssumption DEF ReadFails, Reading, PlanInv, Versions, TypeOK, request
<1>5. ASSUME NEW f \in File, NEW text \in Saves, Save(f, text) PROVE PlanInv'
  <2>1. plan' = plan /\ mode' = mode /\ saved' = [saved EXCEPT ![f] = @ \cup ({text} \ {Absent})]
    BY <1>5 DEF Save, process, request
  <2>2. \A g \in File : Versions(g) \subseteq Versions(g)'
    BY <1>0, <2>1 DEF Versions, TypeOK
  <2>3. QED
    BY <1>0, <2>1, <2>2 DEF PlanInv
<1>6. CASE RunAgain
  BY <1>6 DEF RunAgain, PlanInv, Todo
<1>7. CASE RunStep /\ ~ \E f \in File : TakeFile(f) \/ PlanFile(f)
  <2>1. UNCHANGED <<plan, mode, saved>>
    BY <1>7 DEF RunStep, Select, BlobsRead, StagedVerified, Decide, Finish, ReadBlob, VerifyStaged,
                CheckTarget, PrepareTemp, Persist, request, history
  <2>2. QED
    BY <1>1, <2>1
<1>8. CASE CallFails \/ Kill \/ PowerLoss \/ (\E f \in File : Stage(f)) \/ UNCHANGED vars
  <2>1. UNCHANGED <<plan, mode, saved>>
    BY <1>8 DEF CallFails, Kill, PowerLoss, Stage, vars, process, request, history
  <2>2. QED
    BY <1>1, <2>1
<1>9. QED
  BY <1>2, <1>3, <1>4, <1>5, <1>6, <1>7, <1>8 DEF Next, Machine, Author

(* What the decision settled stays settled: while replacing, and after it, *)
(* the run is a `fmt` whose every plan is good, and the temporary file is  *)
(* the one the current plan asks for.                                      *)
LEMMA ProcessKept ==
  ASSUME IInv, [Next]_vars
  PROVE  WrittenInv' /\ ReplaceInv' /\ TempInv' /\ PreflightComplete'
<1> DEFINE Goal == WrittenInv' /\ ReplaceInv' /\ TempInv' /\ PreflightComplete'
<1> USE DEF request, bounds, history, tree
<1>0. TypeOK /\ WrittenInv /\ ReplaceInv /\ TempInv /\ PreflightComplete
  BY DEF IInv
<1>1. CASE UNCHANGED process
  BY <1>0, <1>1 DEF process, WrittenInv, ReplaceInv, TempInv, PreflightComplete, First
<1>2. ASSUME NEW c, Exit(c), UNCHANGED <<mode, inputs, plan, written>> PROVE Goal
  BY <1>0, <1>2 DEF Exit, NoTemp, WrittenInv, ReplaceInv, TempInv, PreflightComplete
<1>3. ASSUME phase \notin {"replace", "done"}, phase' \notin {"replace", "done"},
             UNCHANGED <<temp, written>>
      PROVE  Goal
  BY <1>0, <1>3 DEF WrittenInv, ReplaceInv, TempInv, PreflightComplete
<1>4. CASE Select
  <2>1. UNCHANGED <<mode, plan, written>> /\ phase = "select" /\ written = {}
    BY <1>0, <1>4 DEF Select, WrittenInv
  <2>2. CASE Exit(FileFault) /\ UNCHANGED <<inputs, pending>>
    BY <1>2, <2>1, <2>2
  <2>3. CASE phase' \in {"plan", "blobs"} /\ UNCHANGED temp
    BY <1>3, <2>1, <2>3
  <2>4. QED
    BY <1>4, <2>2, <2>3 DEF Select, Begin
<1>5. CASE BlobsRead \/ StagedVerified
  BY <1>3, <1>5 DEF BlobsRead, StagedVerified
<1>6. CASE Decide
  <2>1. UNCHANGED <<mode, inputs, plan, written>> /\ phase = "plan"
    BY <1>6 DEF Decide
  <2>2. CASE \E c \in Nat : Exit(c)
    BY <1>2, <2>1, <2>2
  <2>3. CASE Failed = {} /\ ~ HasErrors /\ mode = "fmt" /\ phase' = "replace" /\ UNCHANGED temp
    <3>1. \A f \in inputs : plan[f].state = "ok" /\ ~ HasFatal(plan[f].source)
      BY <1>6, <2>3 DEF Decide, Failed, HasErrors
    <3>2. temp.stage = "none" /\ written = {}
      BY <1>0, <2>1 DEF TempInv, WrittenInv, TypeOK
    <3>3. QED
      BY <2>1, <2>3, <3>1, <3>2 DEF WrittenInv, ReplaceInv, TempInv, PreflightComplete
  <2>4. \A f \in Failed : plan[f].code \in Nat
    BY <1>0 DEF Failed, TypeOK, Slot, ErrorCode, Usage, SourceFault, FileFault, Success
  <2>5. SourceFault \in Nat /\ Success \in Nat /\ WouldChange \in Nat
    BY DEF SourceFault, Success, WouldChange
  <2>6. QED
    BY <1>6, <2>2, <2>3, <2>4, <2>5 DEF Decide
<1>7. CASE Finish
  BY <1>2, <1>7 DEF Finish
<1>8. ASSUME NEW f \in File, ReadBlob(f) \/ VerifyStaged(f) PROVE Goal
  <2>1. CASE Exit(FileFault)
    BY <1>2, <1>8, <2>1 DEF ReadBlob, VerifyStaged
  <2>2. CASE UNCHANGED <<phase, temp>>
    BY <1>3, <1>8, <2>2 DEF ReadBlob, VerifyStaged
  <2>3. QED
    BY <1>8, <2>1, <2>2 DEF ReadBlob, VerifyStaged
<1>9. ASSUME NEW f \in File, TakeFile(f) \/ PlanFile(f) \/ ReadFails(f) PROVE Goal
  BY <1>3, <1>9 DEF TakeFile, PlanFile, ReadFails
<1>10. ASSUME NEW f \in File, CheckTarget(f) PROVE Goal
  <2>1. CASE Exit(FileFault)
    BY <1>2, <1>10, <2>1 DEF CheckTarget
  <2>2. CASE temp' = [NoTemp EXCEPT !.stage = "checked"] /\ UNCHANGED <<phase, code>>
    BY <1>0, <1>10, <2>2
    DEF CheckTarget, Replacing, NoTemp, WrittenInv, ReplaceInv, TempInv, PreflightComplete
  <2>3. QED
    BY <1>10, <2>1, <2>2 DEF CheckTarget
<1>11. ASSUME NEW f \in File, PrepareTemp(f) PROVE Goal
  <2>1. /\ phase = "replace" /\ First(f, pending)
        /\ UNCHANGED <<phase, mode, inputs, pending, plan, written>>
    BY <1>11 DEF PrepareTemp, CreateTemp, WriteTemp, CopyAccess, SyncTemp, Replacing, Current
  <2>2. WrittenInv' /\ ReplaceInv' /\ PreflightComplete'
    BY <1>0, <2>1 DEF WrittenInv, ReplaceInv, PreflightComplete
  <2>3. \A g \in pending : First(g, pending) => g = f
    BY <1>0, <2>1, FileAssumption DEF First, TypeOK
  <2>4. CASE CreateTemp(f)
    <3>1. temp'.stage = "created"
      BY <1>0, <2>4 DEF CreateTemp, TypeOK, Temp
    <3>2. QED
      BY <2>1, <2>2, <3>1 DEF TempInv
  <2>5. CASE WriteTemp(f)
    <3>1. temp'.stage = "filled" /\ temp'.data = Formatted(plan[f].source)
      BY <1>0, <2>5 DEF WriteTemp, Replacement, TypeOK, Temp
    <3>2. \A g \in pending' : First(g, pending)' => temp'.data = Formatted(plan[g].source)'
      BY <2>1, <2>3, <3>1 DEF First, Formatted
    <3>3. QED
      BY <2>1, <2>2, <3>1, <3>2 DEF TempInv
  <2>6. CASE CopyAccess(f)
    <3>1. temp'.stage = "permitted" /\ temp'.data = temp.data /\ temp'.access = "author" /\ temp.stage = "filled"
      BY <1>0, <2>6 DEF CopyAccess, Replacing, TypeOK, Temp
    <3>2. \A g \in pending' : First(g, pending)' => temp'.data = Formatted(plan[g].source)'
      BY <1>0, <2>1, <3>1 DEF TempInv, First, Formatted
    <3>3. QED
      BY <1>0, <2>1, <2>2, <3>1, <3>2 DEF TempInv
  <2>7. CASE SyncTemp(f)
    <3>1. /\ temp'.stage = "synced" /\ temp'.data = temp.data /\ temp'.access = temp.access
          /\ temp'.synced = TRUE /\ temp.stage = "permitted"
      BY <1>0, <2>7 DEF SyncTemp, Replacing, TypeOK, Temp
    <3>2. \A g \in pending' : First(g, pending)' => temp'.data = Formatted(plan[g].source)'
      BY <1>0, <2>1, <3>1 DEF TempInv, First, Formatted
    <3>3. QED
      BY <1>0, <2>1, <2>2, <3>1, <3>2 DEF TempInv
  <2>8. QED
    BY <1>11, <2>2, <2>4, <2>5, <2>6, <2>7 DEF PrepareTemp
<1>12. ASSUME NEW f \in File, Persist(f) PROVE Goal
  BY <1>0, <1>12 DEF Persist, Replacing, NoTemp, WrittenInv, ReplaceInv, TempInv, PreflightComplete
<1>13. CASE CallFails \/ Kill \/ PowerLoss
  BY <1>2, <1>13 DEF CallFails, Kill, PowerLoss
<1>14. CASE Author \/ UNCHANGED vars
  BY <1>1, <1>14 DEF Author, Save, Stage, vars
<1>15. CASE RunAgain
  BY <1>15 DEF RunAgain, NoTemp, WrittenInv, ReplaceInv, TempInv, PreflightComplete
<1>16. QED
  BY <1>4, <1>5, <1>6, <1>7, <1>8, <1>9, <1>10, <1>11, <1>12, <1>13, <1>14, <1>15
  DEF Next, RunStep, Machine

-----------------------------------------------------------------------------
(* The invariant holds throughout every behaviour. *)
THEOREM Invariance == Spec => []IInv
<1>1. Init => IInv
  BY InitEstablishes
<1>2. IInv /\ [Next]_vars => IInv'
  BY TypesKept, TreeKept, PlansKept, ProcessKept DEF IInv
<1>3. QED
  BY <1>1, <1>2, PTL DEF Spec

(* Type correctness of the model, for every instance. *)
THEOREM TypeCorrect == Spec => []TypeOK
<1>1. IInv => TypeOK
  BY DEF IInv
<1>2. QED
  BY <1>1, Invariance, PTL

(* No interleaving of workers, author, failures, kills and power losses    *)
(* leaves a file with anything but a complete text of its author's or the  *)
(* formatting of one (atomic_replace, format_source_with_rust).            *)
THEOREM NoForeignText == Spec => []AuthoredOrFormatted
<1>1. IInv => AuthoredOrFormatted
  BY DEF IInv, TreeInv, Versions, AuthoredOrFormatted
<1>2. QED
  BY <1>1, Invariance, PTL

(* No file becomes visible with the private bits of a temporary file.      *)
THEOREM AccessBitsKept == Spec => []AccessKept
<1>1. IInv => AccessKept
  BY DEF IInv
<1>2. QED
  BY <1>1, Invariance, PTL

(* Whole-project preflight: nothing is replaced unless every input was     *)
(* planned without error or fatal diagnostic (run_paths).                  *)
THEOREM WholeProjectPreflight == Spec => []PreflightComplete
<1>1. IInv => PreflightComplete
  BY DEF IInv
<1>2. QED
  BY <1>1, Invariance, PTL

-----------------------------------------------------------------------------
(***************************************************************************)
(* The replacements of a run, for every project and bound: they go through *)
(* the plans in path order, discard nothing the planner has not read, and  *)
(* together with everything round them implement RunContract.              *)
(***************************************************************************)

(* Where the run stands: no slot is filled before planning, and while      *)
(* replacing what is left to do is what was not done.                      *)
ProgressInv ==
  /\ phase = "done" <=> code # Running
  /\ phase \in {"select", "blobs", "verify"} => \A f \in File : plan[f].state = "todo"
  /\ phase = "replace" => pending = ToRewrite \ written
  /\ InterruptedPrefix

(* What the planner has read is what the file holds, or held until this    *)
(* run replaced it, unless its author saved it since.                      *)
Seen(f) ==
  (plan[f].state \in {"read", "ok"} /\ f \notin late) =>
    worktree[f] = IF f \in written THEN Formatted(plan[f].source) ELSE plan[f].source

SeenInv == (code # Killed /\ ~ Provided) => \A f \in inputs : Seen(f)

RInv == IInv /\ ProgressInv /\ SeenInv

-----------------------------------------------------------------------------
(* The exit codes are not the marks for a run that goes on or was killed.  *)
LEMMA CodesDiffer ==
  /\ \A c \in ErrorCode \cup {Success, WouldChange} : c # Running /\ c # Killed
  /\ Killed # Running
BY DEF ErrorCode, Usage, SourceFault, FileFault, Success, WouldChange, Running, Killed

(* Returning from main with c, with the plans and the replacements as they *)
(* are, is progress. *)
LEMMA ExitProgress ==
  ASSUME ProgressInv, NEW c, c # Running, Exit(c), UNCHANGED <<inputs, plan, written>>
  PROVE  ProgressInv'
<1>1. phase' = "done" /\ code' = c
  BY DEF Exit
<1>2. InterruptedPrefix'
  BY DEF ProgressInv, InterruptedPrefix, ToRewrite, Changes, Formatted
<1>3. QED
  BY <1>1, <1>2 DEF ProgressInv

(* So is a step that neither replaces nor ends nor resets anything. *)
LEMMA EarlyProgress ==
  ASSUME ProgressInv, phase \in Phases \ {"done", "replace"}, phase' \in Phases \ {"done", "replace"},
         written = {}, UNCHANGED <<code, written>>,
         phase' \in {"select", "blobs", "verify"} => \A f \in File : plan'[f].state = "todo"
  PROVE  ProgressInv'
BY DEF ProgressInv, InterruptedPrefix, Phases

(* No step gives up the order of the replacements, whatever a crash, a     *)
(* signal or an author does between two of them.                           *)
LEMMA ProgressKept ==
  ASSUME IInv, ProgressInv, [Next]_vars
  PROVE  ProgressInv'
<1> USE DEF request, bounds, history, tree
<1>0. TypeOK /\ WrittenInv /\ TempInv
  BY DEF IInv
<1>c. /\ FileFault # Running /\ SourceFault # Running /\ Success # Running /\ WouldChange # Running
      /\ Killed # Running
  BY CodesDiffer DEF ErrorCode
<1>1. CASE UNCHANGED <<phase, inputs, pending, plan, written, code>>
  BY <1>1 DEF ProgressInv, InterruptedPrefix, ToRewrite, Changes, Formatted
<1>e. ASSUME phase \notin {"replace", "done"}
      PROVE  written = {} /\ phase \in Phases \ {"done", "replace"}
  BY <1>0, <1>e DEF WrittenInv, TypeOK
<1>2. CASE Select
  <2>1. phase = "select" /\ UNCHANGED <<plan, written>> /\ written = {}
    BY <1>2, <1>e DEF Select
  <2>2. CASE Exit(FileFault) /\ UNCHANGED <<inputs, pending>>
    BY <1>c, <2>1, <2>2, ExitProgress
  <2>3. CASE phase' \in {"plan", "blobs"} /\ UNCHANGED code
    BY <1>e, <2>1, <2>3, EarlyProgress DEF ProgressInv, Phases
  <2>4. QED
    BY <1>2, <2>2, <2>3 DEF Select, Begin
<1>3. CASE BlobsRead \/ StagedVerified
  <2>1. /\ phase \in {"blobs", "verify"} /\ phase' \in {"verify", "plan"}
        /\ UNCHANGED <<plan, written, code>>
    BY <1>3 DEF BlobsRead, StagedVerified
  <2>2. QED
    BY <1>e, <2>1, EarlyProgress DEF ProgressInv, Phases
<1>4. CASE Decide
  <2>1. UNCHANGED <<inputs, plan, written>> /\ phase = "plan" /\ written = {}
    BY <1>4, <1>e DEF Decide
  <2>2. ASSUME NEW f \in Failed, Exit(plan[f].code) PROVE ProgressInv'
    <3>1. plan[f].code \in ErrorCode \cup {Success, WouldChange}
      BY <1>0 DEF Failed, TypeOK, Slot
    <3>2. QED
      BY <2>1, <2>2, <3>1, CodesDiffer, ExitProgress
  <2>3. CASE Exit(SourceFault) \/ Exit(IF ToRewrite = {} THEN Success ELSE WouldChange)
    BY <1>c, <2>1, <2>3, ExitProgress
  <2>4. CASE phase' = "replace" /\ pending' = ToRewrite /\ UNCHANGED code
    BY <2>1, <2>4 DEF ProgressInv, InterruptedPrefix, ToRewrite, Changes, Formatted
  <2>5. QED
    BY <1>4, <2>2, <2>3, <2>4 DEF Decide
<1>5. CASE Finish
  BY <1>5, <1>c, ExitProgress DEF Finish
<1>6. ASSUME NEW f \in File, ReadBlob(f) \/ VerifyStaged(f) PROVE ProgressInv'
  <2>1. phase \in {"blobs", "verify"} /\ UNCHANGED <<inputs, plan, written>>
    BY <1>6 DEF ReadBlob, VerifyStaged
  <2>2. CASE Exit(FileFault)
    BY <1>c, <2>1, <2>2, ExitProgress
  <2>3. CASE UNCHANGED <<phase, code>>
    BY <1>e, <2>1, <2>3, EarlyProgress DEF ProgressInv, Phases
  <2>4. QED
    BY <1>6, <2>2, <2>3 DEF ReadBlob, VerifyStaged
<1>7. ASSUME NEW f \in File, TakeFile(f) \/ PlanFile(f) \/ ReadFails(f) PROVE ProgressInv'
  <2>1. phase = "plan" /\ phase' = "plan" /\ UNCHANGED <<code, written>>
    BY <1>7 DEF TakeFile, PlanFile, ReadFails
  <2>2. QED
    BY <1>e, <2>1, EarlyProgress DEF Phases
<1>8. ASSUME NEW f \in File, CheckTarget(f) PROVE ProgressInv'
  <2>1. CASE Exit(FileFault)
    BY <1>8, <1>c, <2>1, ExitProgress DEF CheckTarget
  <2>2. CASE UNCHANGED <<phase, code>>
    BY <1>1, <1>8, <2>2 DEF CheckTarget
  <2>3. QED
    BY <1>8, <2>1, <2>2 DEF CheckTarget
<1>9. ASSUME NEW f \in File, PrepareTemp(f) PROVE ProgressInv'
  BY <1>1, <1>9 DEF PrepareTemp
<1>10. ASSUME NEW f \in File, Persist(f) PROVE ProgressInv'
  <2>1. /\ phase = "replace" /\ First(f, pending) /\ pending = ToRewrite \ written
        /\ written' = written \cup {f} /\ pending' = pending \ {f}
        /\ UNCHANGED <<phase, inputs, plan, code>>
    BY <1>10 DEF Persist, Replacing, Current, ProgressInv
  <2>2. ToRewrite' = ToRewrite /\ ToRewrite \subseteq Nat
    BY <1>0, <2>1, FileAssumption DEF ToRewrite, Changes, Formatted, TypeOK
  <2>3. pending' = ToRewrite' \ written'
    BY <2>1, <2>2
  <2>4. ASSUME NEW g \in written', NEW h \in ToRewrite' \ written' PROVE g \in ToRewrite' /\ g < h
    <3>1. h \in pending /\ h # f /\ f <= h /\ f \in ToRewrite
      BY <2>1, <2>2, <2>4 DEF First
    <3>2. CASE g = f
      BY <2>2, <3>1, <3>2
    <3>3. CASE g \in written
      BY <2>1, <2>2, <2>4, <3>3 DEF ProgressInv, InterruptedPrefix
    <3>4. QED
      BY <2>1, <2>4, <3>2, <3>3
  <2>5. written' \subseteq ToRewrite'
    BY <2>1, <2>2 DEF ProgressInv, InterruptedPrefix, First
  <2>6. InterruptedPrefix'
    BY <2>4, <2>5 DEF InterruptedPrefix
  <2>7. QED
    BY <2>1, <2>3, <2>6 DEF ProgressInv
<1>11. CASE CallFails \/ Kill \/ PowerLoss
  BY <1>11, <1>c, ExitProgress DEF CallFails, Kill, PowerLoss
<1>12. CASE Author \/ UNCHANGED vars
  BY <1>1, <1>12 DEF Author, Save, Stage, vars, process
<1>13. CASE RunAgain
  BY <1>13 DEF RunAgain, ProgressInv, InterruptedPrefix, Todo, Running
<1>14. QED
  BY <1>2, <1>3, <1>4, <1>5, <1>6, <1>7, <1>8, <1>9, <1>10, <1>11, <1>12, <1>13
  DEF Next, RunStep, Machine

(* What was seen of each file stays among the texts it has had.            *)
LEMMA SeenKept ==
  ASSUME RInv, [Next]_vars
  PROVE  SeenInv'
<1> USE DEF request, bounds, history, tree
<1>0. TypeOK /\ WrittenInv /\ TempInv /\ ProgressInv /\ SeenInv
  BY DEF RInv, IInv
<1>r. phase # "done" => code = Running /\ code # Killed
  BY <1>0, CodesDiffer DEF ProgressInv
<1>1. ASSUME code # Killed \/ code' = Killed,
             UNCHANGED <<worktree, request, inputs, plan, written, late>>
      PROVE  SeenInv'
  BY <1>0, <1>1 DEF SeenInv, Seen, Provided, Formatted
<1>2. CASE Select
  <2>1. phase = "select" /\ UNCHANGED <<plan, written>>
    BY <1>2 DEF Select
  <2>2. inputs' \subseteq File
    BY <1>0, <1>2 DEF Select, Begin, Discovered, Staged, Changed, TypeOK
  <2>3. QED
    BY <1>0, <2>1, <2>2 DEF ProgressInv, SeenInv, Seen
<1>3. CASE BlobsRead \/ StagedVerified \/ Decide \/ Finish \/ CallFails
             \/ \E f \in File : ReadBlob(f) \/ VerifyStaged(f) \/ CheckTarget(f) \/ PrepareTemp(f)
  <2>1. phase # "done" /\ UNCHANGED <<worktree, request, inputs, plan, written, late>>
    BY <1>3 DEF BlobsRead, StagedVerified, Decide, Finish, CallFails, ReadBlob, VerifyStaged, CheckTarget,
                PrepareTemp, CreateTemp, WriteTemp, CopyAccess, SyncTemp, Replacing
  <2>2. QED
    BY <1>1, <1>r, <2>1
<1>4. ASSUME NEW f \in File, TakeFile(f) \/ ReadFails(f) PROVE SeenInv'
  <2>1. /\ phase = "plan" /\ written = {} /\ UNCHANGED <<worktree, request, inputs, written>>
        /\ late' \subseteq late /\ late \ late' \subseteq {f}
        /\ plan' = [plan EXCEPT ![f] = plan'[f]]
    BY <1>0, <1>4 DEF TakeFile, ReadFails, WrittenInv, TypeOK
  <2>2. ~ Provided /\ plan'[f].state \in {"read", "ok"} => plan'[f].source = worktree[f]
    <3>1. TakeFile(f) /\ ~ Provided => plan'[f] = Reading(worktree[f])
      BY <1>0 DEF TakeFile, TypeOK
    <3>2. ReadFails(f) => plan'[f] = Reading(Absent)
      BY <1>0 DEF ReadFails, TypeOK
    <3>3. Absent \notin Utf8
      BY RunAssumption, MarksAssumption
    <3>4. QED
      BY <1>4, <3>1, <3>2, <3>3 DEF Reading
  <2>3. ASSUME NEW g \in inputs', ~ Provided', plan'[g].state \in {"read", "ok"}, g \notin late'
        PROVE  worktree'[g] = IF g \in written' THEN Formatted(plan'[g].source) ELSE plan'[g].source
    <3>1. CASE g = f
      BY <2>1, <2>2, <2>3, <3>1 DEF Provided
    <3>2. CASE g # f
      BY <1>0, <1>r, <2>1, <2>3, <3>2 DEF SeenInv, Seen, Provided, TypeOK
    <3>3. QED
      BY <3>1, <3>2
  <2>4. QED
    BY <2>3 DEF SeenInv, Seen, Formatted
<1>5. ASSUME NEW f \in File, PlanFile(f) PROVE SeenInv'
  <2>1. /\ phase = "plan" /\ plan[f].state = "read"
        /\ UNCHANGED <<worktree, request, inputs, written, late>>
        /\ plan' = [plan EXCEPT ![f] = Planned(f, plan[f].source)]
    BY <1>5 DEF PlanFile
  <2>2. Planned(f, plan[f].source).source = plan[f].source
    BY DEF Planned
  <2>3. ASSUME NEW g \in inputs
        PROVE  plan'[g].source = plan[g].source /\ (plan'[g].state \in {"read", "ok"} => plan[g].state \in {"read", "ok"})
    BY <1>0, <2>1, <2>2 DEF TypeOK
  <2>4. QED
    BY <1>0, <1>r, <2>1, <2>3 DEF SeenInv, Seen, Provided, Formatted
<1>6. ASSUME NEW f \in File, Persist(f) PROVE SeenInv'
  <2>1. /\ phase = "replace" /\ First(f, pending) /\ f \in pending /\ f \in inputs /\ f \notin written
        /\ temp.data = Formatted(plan[f].source)
        /\ UNCHANGED <<request, inputs, plan, late>>
        /\ worktree' = [worktree EXCEPT ![f] = temp.data] /\ written' = written \cup {f}
    BY <1>0, <1>6 DEF Persist, Replacing, Current, First, TempInv, ProgressInv, TypeOK
  <2>2. ASSUME NEW g \in inputs, ~ Provided, plan[g].state \in {"read", "ok"}, g \notin late
        PROVE  worktree'[g] = IF g \in written' THEN Formatted(plan[g].source) ELSE plan[g].source
    <3>1. CASE g = f
      BY <1>0, <2>1, <3>1 DEF TypeOK
    <3>2. CASE g # f
      BY <1>0, <1>r, <2>1, <2>2, <3>2 DEF SeenInv, Seen, TypeOK
    <3>3. QED
      BY <3>1, <3>2
  <2>3. QED
    BY <2>1, <2>2 DEF SeenInv, Seen, Provided, Formatted
<1>7. CASE Kill \/ PowerLoss
  BY <1>7 DEF Kill, PowerLoss, Exit, SeenInv
<1>8. ASSUME NEW f \in File, NEW text \in Saves, Save(f, text) PROVE SeenInv'
  <2>1. /\ UNCHANGED <<request, inputs, plan, written, code>>
        /\ worktree' = [worktree EXCEPT ![f] = text] /\ late' = late \cup {f}
    BY <1>8 DEF Save, process
  <2>2. QED
    BY <1>0, <2>1 DEF SeenInv, Seen, Provided, Formatted, TypeOK
<1>9. CASE (\E f \in File : Stage(f)) \/ UNCHANGED vars
  <2>1. UNCHANGED <<worktree, request, inputs, plan, written, late, code>>
    BY <1>9 DEF Stage, vars, process
  <2>2. QED
    BY <1>0, <2>1 DEF SeenInv, Seen, Provided, Formatted
<1>10. CASE RunAgain
  BY <1>10 DEF RunAgain, SeenInv
<1>11. QED
  BY <1>2, <1>3, <1>4, <1>5, <1>6, <1>7, <1>8, <1>9, <1>10 DEF Next, RunStep, Machine, Author

(* The inductive invariant of the replacements: what has been replaced is  *)
(* the first part of the plan, and every text a plan rests on is one the   *)
(* file had.                                                               *)
THEOREM ReplacementInvariant == Spec => []RInv
<1>1. Init => ProgressInv /\ SeenInv
  BY DEF Init, ProgressInv, InterruptedPrefix, SeenInv, Todo, Running
<1>2. IInv /\ ProgressInv /\ SeenInv /\ [Next]_vars => (ProgressInv /\ SeenInv)'
  BY ProgressKept, SeenKept DEF RInv
<1>3. RInv <=> IInv /\ ProgressInv /\ SeenInv
  BY DEF RInv
<1>4. QED
  BY <1>1, <1>2, <1>3, Invariance, PTL DEF Spec

-----------------------------------------------------------------------------
(* Killed, failed or finished, what a run has replaced is an initial       *)
(* segment in path order of what it had to replace (run_paths).            *)
THEOREM PrefixReplaced == Spec => []InterruptedPrefix
<1>1. RInv => InterruptedPrefix
  BY DEF RInv, ProgressInv
<1>2. QED
  BY <1>1, ReplacementInvariant, PTL

(* A replacement discards nothing but the text the planner read, or a save *)
(* the author made after it read the file.                                 *)
THEOREM SavesReachThePlanner == Spec => OnlyLateSavesLost
<1> DEFINE Discards == \A f \in written' \ written : worktree[f] = plan[f].source \/ f \in late
<1>1. RInv /\ [Next]_vars => [Discards]_vars
  <2> SUFFICES ASSUME RInv, Next, NEW f \in written' \ written
               PROVE  worktree[f] = plan[f].source \/ f \in late
    BY DEF vars, process
  <2>1. Persist(f)
    BY DEF Next, RunStep, Machine, Author, Select, BlobsRead, StagedVerified, Decide, Finish, ReadBlob,
           VerifyStaged, TakeFile, PlanFile, CheckTarget, PrepareTemp, Persist, CallFails, ReadFails, Kill,
           PowerLoss, Save, Stage, RunAgain, process
  <2>2. phase = "replace" /\ f \in pending
    BY <2>1 DEF Persist, Replacing, Current, First
  <2>3. f \in inputs /\ ~ Provided /\ plan[f].state = "ok" /\ code # Killed
    BY <2>2, CodesDiffer DEF RInv, IInv, TypeOK, ReplaceInv, ProgressInv, Provided
  <2>4. QED
    BY <2>3 DEF RInv, SeenInv, Seen
<1>2. QED
  BY <1>1, ReplacementInvariant, PTL DEF Spec, OnlyLateSavesLost

-----------------------------------------------------------------------------
(* The refinement mapping of Contract, for the steps below to name.        *)
StageNow == CASE phase = "done" -> "over" [] phase = "replace" -> "committed" [] OTHER -> "planning"
OwedNow  == [f \in (IF phase = "replace" THEN pending ELSE {}) |-> Formatted(plan[f].source)]

(* Nothing is owed unless the run is replacing. *)
LEMMA NothingOwed ==
  /\ phase # "replace" => OwedNow = Contract!Nothing
  /\ phase' # "replace" => OwedNow' = Contract!Nothing
BY DEF OwedNow, Contract!Nothing

(* A step that moves nothing the contract sees is a stutter. *)
LEMMA Stutters ==
  ASSUME StageNow' = StageNow, OwedNow' = OwedNow, UNCHANGED <<worktree, older, code>>
  PROVE  UNCHANGED Contract!vars
BY DEF StageNow, OwedNow, Contract!vars

(* So is one that goes on with selecting, checking or planning. *)
LEMMA PlanningStutters ==
  ASSUME phase \notin {"done", "replace"}, phase' \notin {"done", "replace"}, UNCHANGED <<worktree, older, code>>
  PROVE  UNCHANGED Contract!vars
BY NothingOwed, Stutters DEF StageNow

(* Returning before anything was decided is Stop. *)
LEMMA StopsPlanning ==
  ASSUME NEW c \in 0 .. 4, Exit(c), phase \notin {"done", "replace"}, UNCHANGED <<worktree, older>>
  PROVE  Contract!Stop
<1>1. StageNow = "planning" /\ StageNow' = "over" /\ OwedNow' = Contract!Nothing /\ code' = c
  BY NothingOwed DEF StageNow, Exit
<1>2. QED
  BY <1>1 DEF StageNow, OwedNow, Contract!Stop, Contract!Over

(* The texts owed are formatted plans, and paid in path order. *)
LEMMA Owing ==
  ASSUME IInv, phase = "replace"
  PROVE  StageNow = "committed" /\ DOMAIN OwedNow = pending /\ OwedNow \in [pending -> Content]
<1>1. \A f \in pending : Formatted(plan[f].source) \in Content
  BY GateIdempotent DEF IInv, TypeOK, ReplaceInv, PlanInv
<1>2. QED
  BY <1>1 DEF StageNow, OwedNow

(* A run starts where the contract of a run starts.                        *)
LEMMA InitImplements == Init => Contract!Init
<1> SUFFICES ASSUME Init PROVE Contract!Init
  OBVIOUS
<1>1. worktree \in [File -> Content \cup {Absent}] /\ older = [f \in File |-> {}] /\ code = Running
  BY RunAssumption DEF Init
<1>2. StageNow = "planning" /\ OwedNow = Contract!Nothing
  BY NothingOwed DEF Init, StageNow
<1>3. QED
  BY <1>1, <1>2 DEF Contract!Init, StageNow, OwedNow

(* Every step of a run is a step of the contract, or changes nothing the   *)
(* contract speaks of.                                                     *)
LEMMA StepImplements ==
  ASSUME RInv, RInv', [Next]_vars
  PROVE  [Contract!Next]_(Contract!vars)
<1> DEFINE Goal == [Contract!Next]_(Contract!vars)
<1> USE DEF request, bounds, history, tree
<1>0. IInv /\ TypeOK /\ TempInv /\ ReplaceInv /\ ProgressInv
  BY DEF RInv, IInv
<1>c. FileFault \in 0 .. 4 /\ SourceFault \in 0 .. 4 /\ Success \in 0 .. 4 /\ WouldChange \in 0 .. 4
  BY DEF FileFault, SourceFault, Success, WouldChange
<1>1. CASE Select
  <2>1. phase = "select" /\ UNCHANGED <<worktree, older>>
    BY <1>1 DEF Select
  <2>2. CASE Exit(FileFault) /\ UNCHANGED <<inputs, pending>>
    BY <1>c, <2>1, <2>2, StopsPlanning DEF Contract!Next
  <2>3. CASE phase' \in {"plan", "blobs"} /\ UNCHANGED code
    BY <2>1, <2>3, PlanningStutters
  <2>4. QED
    BY <1>1, <2>2, <2>3 DEF Select, Begin
<1>2. CASE BlobsRead \/ StagedVerified
  <2>1. phase \in {"blobs", "verify"} /\ phase' \in {"verify", "plan"} /\ UNCHANGED <<worktree, older, code>>
    BY <1>2 DEF BlobsRead, StagedVerified
  <2>2. QED
    BY <2>1, PlanningStutters
<1>3. ASSUME NEW f \in File, ReadBlob(f) \/ VerifyStaged(f) PROVE Goal
  <2>1. phase \in {"blobs", "verify"} /\ UNCHANGED <<worktree, older>>
    BY <1>3 DEF ReadBlob, VerifyStaged
  <2>2. CASE Exit(FileFault)
    BY <1>c, <2>1, <2>2, StopsPlanning DEF Contract!Next
  <2>3. CASE UNCHANGED <<phase, code>>
    BY <2>1, <2>3, PlanningStutters
  <2>4. QED
    BY <1>3, <2>2, <2>3 DEF ReadBlob, VerifyStaged
<1>4. ASSUME NEW f \in File, TakeFile(f) \/ PlanFile(f) \/ ReadFails(f) PROVE Goal
  <2>1. phase = "plan" /\ UNCHANGED <<phase, worktree, older, code>>
    BY <1>4 DEF TakeFile, PlanFile, ReadFails
  <2>2. QED
    BY <2>1, PlanningStutters
<1>5. CASE Decide
  <2>1. phase = "plan" /\ UNCHANGED <<worktree, older, plan>>
    BY <1>5 DEF Decide
  <2>2. ASSUME NEW f \in Failed, Exit(plan[f].code) PROVE Goal
    <3>1. plan[f].code \in 0 .. 4
      BY <1>0 DEF Failed, TypeOK, Slot, ErrorCode, Usage, SourceFault, FileFault, Success
    <3>2. QED
      BY <2>1, <2>2, <3>1, StopsPlanning DEF Contract!Next
  <2>3. CASE Exit(SourceFault) \/ Exit(IF ToRewrite = {} THEN Success ELSE WouldChange)
    BY <1>c, <2>1, <2>3, StopsPlanning DEF Contract!Next
  <2>4. CASE phase' = "replace" /\ pending' = ToRewrite /\ UNCHANGED code
    <3>1. StageNow = "planning" /\ StageNow' = "committed" /\ OwedNow' \in [pending' -> Content]
      <4>1. IInv' => StageNow' = "committed" /\ OwedNow' \in [pending' -> Content]
        <5>1. IInv' => \A f \in pending' : Formatted(plan'[f].source) \in Content
          BY <2>4, GateIdempotent DEF IInv, TypeOK, ReplaceInv, PlanInv
        <5>2. QED
          BY <2>4, <5>1 DEF StageNow, OwedNow, Formatted
      <4>2. QED
        BY <2>1, <4>1 DEF StageNow, RInv
    <3>2. pending' \in SUBSET File
      BY <1>0, <2>4 DEF ToRewrite, TypeOK
    <3>3. Contract!Commit
      BY <2>1, <2>4, <3>1, <3>2 DEF Contract!Commit, StageNow, OwedNow
    <3>4. QED
      BY <3>3 DEF Contract!Next
  <2>5. QED
    BY <1>5, <2>2, <2>3, <2>4 DEF Decide
<1>6. CASE Finish
  <2>1. Contract!Complete
    BY <1>0, <1>6, Owing, NothingOwed
    DEF Finish, Exit, StageNow, OwedNow, Success, Contract!Complete, Contract!Over, Contract!Due
  <2>2. QED
    BY <2>1 DEF Contract!Next
<1>7. ASSUME phase = "replace", pending # {}, Exit(FileFault), UNCHANGED <<worktree, older>> PROVE Goal
  <2>1. Contract!Abort
    BY <1>0, <1>7, Owing, NothingOwed
    DEF Exit, StageNow, OwedNow, FileFault, Contract!Abort, Contract!Over, Contract!Due
  <2>2. QED
    BY <2>1 DEF Contract!Next
<1>8. ASSUME phase = "replace", UNCHANGED <<phase, pending, plan, worktree, older, code>> PROVE Goal
  BY <1>8, Stutters DEF StageNow, OwedNow, Formatted
<1>9. ASSUME NEW f \in File, CheckTarget(f) PROVE Goal
  <2>1. phase = "replace" /\ pending # {} /\ UNCHANGED <<worktree, older, pending, plan>>
    BY <1>9 DEF CheckTarget, Replacing, Current, First
  <2>2. QED
    BY <1>7, <1>8, <1>9, <2>1 DEF CheckTarget
<1>10. ASSUME NEW f \in File, PrepareTemp(f) PROVE Goal
  <2>1. phase = "replace" /\ UNCHANGED <<phase, pending, plan, worktree, older, code>>
    BY <1>10 DEF PrepareTemp, CreateTemp, WriteTemp, CopyAccess, SyncTemp, Replacing
  <2>2. QED
    BY <1>8, <2>1
<1>11. ASSUME NEW f \in File, Persist(f) PROVE Goal
  <2>1. /\ phase = "replace" /\ f \in pending /\ \A g \in pending : f <= g
        /\ temp.data = Formatted(plan[f].source)
    BY <1>0, <1>11 DEF Persist, Replacing, Current, First, TempInv
  <2>2. DOMAIN OwedNow = pending /\ OwedNow[f] = Formatted(plan[f].source)
    BY <2>1 DEF OwedNow
  <2>3. OwedNow' = [g \in pending \ {f} |-> OwedNow[g]]
    BY <1>11, <2>1 DEF Persist, OwedNow, Formatted
  <2>4. StageNow = "committed" /\ StageNow' = StageNow
    BY <1>11, <2>1 DEF Persist, StageNow
  <2>5. Contract!Rewrite(f)
    BY <1>11, <2>1, <2>2, <2>3, <2>4 DEF Persist, StageNow, OwedNow, Contract!Rewrite, Contract!Due
  <2>6. QED
    BY <2>5 DEF Contract!Next
<1>12. CASE CallFails
  <2>1. CASE phase = "replace"
    BY <1>7, <1>12, <2>1 DEF CallFails
  <2>2. CASE phase # "replace"
    BY <1>c, <1>12, <2>2, StopsPlanning DEF CallFails, Contract!Next
  <2>3. QED
    BY <2>1, <2>2
<1>13. CASE Kill
  <2>1. Contract!Die
    BY <1>13, NothingOwed DEF Kill, Exit, StageNow, OwedNow, Contract!Die, Contract!Over
  <2>2. QED
    BY <2>1 DEF Contract!Next
<1>14. CASE PowerLoss
  <2>1. worktree' \in [File -> Content \cup {Absent}]
    BY DEF RInv, IInv, TypeOK, TreeInv, Versions
  <2>2. \A f \in File : worktree'[f] \in older[f] \cup {worktree[f]}
    BY <1>0, <1>14 DEF PowerLoss, Surviving, IInv, TreeInv
  <2>3. StageNow' = "over" /\ OwedNow' = Contract!Nothing
    BY <1>14, NothingOwed DEF PowerLoss, Exit, StageNow
  <2>4. Contract!PowerLoss
    BY <1>14, <2>1, <2>2, <2>3 DEF PowerLoss, Exit, StageNow, OwedNow, Contract!PowerLoss, Contract!Over
  <2>5. QED
    BY <2>4 DEF Contract!Next
<1>15. ASSUME NEW f \in File, NEW text \in Saves, Save(f, text) PROVE Goal
  <2>1. StageNow' = StageNow /\ OwedNow' = OwedNow
    BY <1>15 DEF Save, process, StageNow, OwedNow, Formatted
  <2>2. Contract!Author
    BY <1>15, <2>1, RunAssumption DEF Save, process, StageNow, OwedNow, Contract!Author
  <2>3. QED
    BY <2>2 DEF Contract!Next
<1>16. CASE (\E f \in File : Stage(f)) \/ UNCHANGED vars
  <2>1. UNCHANGED <<phase, pending, plan, worktree, older, code>>
    BY <1>16 DEF Stage, vars, process
  <2>2. QED
    BY <2>1, Stutters DEF StageNow, OwedNow, Formatted
<1>17. CASE RunAgain
  <2>1. Contract!Again
    BY <1>17, NothingOwed DEF RunAgain, StageNow, OwedNow, Contract!Again
  <2>2. QED
    BY <2>1 DEF Contract!Next
<1>18. QED
  BY <1>1, <1>2, <1>3, <1>4, <1>5, <1>6, <1>9, <1>10, <1>11, <1>12, <1>13, <1>14, <1>15, <1>16, <1>17
  DEF Next, RunStep, Machine, Author

(* The run, with its preflight, its pool, its temporary files, its author  *)
(* and its machine, implements the contract of RunContract.                *)
THEOREM ContractImplemented == Spec => ContractKept
<1>1. Init => Contract!Init
  BY InitImplements
<1>2. RInv /\ RInv' /\ [Next]_vars => [Contract!Next]_(Contract!vars)
  BY StepImplements
<1>3. QED
  BY <1>1, <1>2, ReplacementInvariant, PTL DEF Spec, ContractKept, Contract!Spec

(***************************************************************************)
(* What the exit code of a run tells its caller, for every project and     *)
(* bound: 0 means every input is formatted, whatever killed the runs       *)
(* before; the code and the tree an undisturbed run leaves are those of    *)
(* planning the inputs one after the other; and a staged `fmt` nobody      *)
(* interferes with formats the staged text.                                *)
(***************************************************************************)

(* Success is reached only through the work of the subcommand. *)
VerdictInv ==
  (phase = "done" /\ code = Success) =>
    /\ \A f \in inputs : plan[f].state = "ok"
    /\ IF mode = "fmt" THEN ToRewrite \subseteq written ELSE ToRewrite = {}

(* A failed slot carries one of the exit codes of failures. *)
ErrorInv == \A f \in File : plan[f].state = "err" => plan[f].code \in ErrorCode

(* Nobody who has not acted has saved anything. *)
HistoryInv ==
  /\ edits = 0 \/ ~ disturbed => late = {}
  /\ edits = 0 => \A f \in File : \A c, d \in saved[f] : c = d

(* No symbolic link is replaced: the temporary file exists only once its   *)
(* target was seen not to be one.                                          *)
TargetInv ==
  /\ written \cap Link = {}
  /\ temp.stage # "none" => \A f \in pending : First(f, pending) => f \notin Link

ExitInv == VerdictInv /\ ErrorInv /\ HistoryInv /\ TargetInv

-----------------------------------------------------------------------------
(* The error codes are failures, and none of them is Success. *)
LEMMA FailuresDiffer ==
  /\ Success \notin ErrorCode /\ SourceFault \in ErrorCode /\ FileFault \in ErrorCode
  /\ Success # WouldChange /\ Success # Killed /\ Success # Running /\ Success # FileFault /\ Success # SourceFault
BY DEF Success, WouldChange, ErrorCode, Usage, SourceFault, FileFault, Killed, Running

(* The language refusals are failures. *)
LEMMA LanguageCodes ==
  ASSUME NEW f \in File
  PROVE  LanguageCode(f) \in ErrorCode \cup {Success}
BY FormatterAssumption DEF LanguageCode, ErrorCode

(* The exit code 0 says that the work was done. *)
LEMMA VerdictKept ==
  ASSUME RInv, ExitInv, [Next]_vars
  PROVE  VerdictInv'
<1> USE DEF request, bounds, history, tree
<1>0. TypeOK /\ ReplaceInv /\ ProgressInv /\ VerdictInv /\ ErrorInv
  BY DEF RInv, IInv, ExitInv
<1>1. ASSUME phase' # "done" \/ code' # Success PROVE VerdictInv'
  BY <1>1 DEF VerdictInv
<1>2. CASE UNCHANGED <<phase, code, mode, inputs, plan, written>>
  BY <1>0, <1>2 DEF VerdictInv, ToRewrite, Changes, Formatted
<1>3. CASE Decide
  <2>1. UNCHANGED <<mode, inputs, plan, written>> /\ \A f \in inputs : plan[f].state \in {"ok", "err"}
    BY <1>3 DEF Decide
  <2>2. ASSUME NEW f \in Failed, Exit(plan[f].code) PROVE VerdictInv'
    <3>1. plan[f].code # Success
      BY <1>0, FailuresDiffer DEF Failed, ErrorInv, TypeOK
    <3>2. QED
      BY <1>1, <2>2, <3>1 DEF Exit
  <2>3. CASE Exit(SourceFault)
    BY <1>1, <2>3, FailuresDiffer DEF Exit
  <2>4. CASE phase' = "replace"
    BY <1>1, <2>4
  <2>5. CASE Failed = {} /\ mode # "fmt" /\ Exit(IF ToRewrite = {} THEN Success ELSE WouldChange)
    BY <2>1, <2>5, FailuresDiffer DEF Exit, VerdictInv, Failed, ToRewrite, Changes, Formatted
  <2>6. QED
    BY <1>3, <2>2, <2>3, <2>4, <2>5 DEF Decide
<1>4. CASE Finish
  BY <1>0, <1>4 DEF Finish, Exit, ProgressInv, ReplaceInv, VerdictInv, ToRewrite, Changes, Formatted
<1>5. CASE Select \/ BlobsRead \/ StagedVerified \/ CallFails \/ Kill \/ PowerLoss
  BY <1>1, <1>5, FailuresDiffer DEF Select, Begin, BlobsRead, StagedVerified, CallFails, Kill, PowerLoss, Exit
<1>6. ASSUME NEW f \in File,
             ReadBlob(f) \/ VerifyStaged(f) \/ TakeFile(f) \/ PlanFile(f) \/ CheckTarget(f) \/ PrepareTemp(f)
               \/ Persist(f) \/ ReadFails(f)
      PROVE  VerdictInv'
  BY <1>1, <1>6, FailuresDiffer
  DEF ReadBlob, VerifyStaged, TakeFile, PlanFile, CheckTarget, PrepareTemp, CreateTemp, WriteTemp, CopyAccess,
      SyncTemp, Persist, Replacing, ReadFails, Exit
<1>7. CASE Author \/ UNCHANGED vars
  BY <1>2, <1>7 DEF Author, Save, Stage, vars, process
<1>8. CASE RunAgain
  BY <1>1, <1>8 DEF RunAgain
<1>9. QED
  BY <1>3, <1>4, <1>5, <1>6, <1>7, <1>8 DEF Next, RunStep, Machine

(* A slot fails only with a failure's code, and a save leaves its mark in  *)
(* the history.                                                            *)
LEMMA RecordsKept ==
  ASSUME RInv, ExitInv, [Next]_vars
  PROVE  ErrorInv' /\ HistoryInv'
<1> USE DEF request, bounds, history, tree
<1>0. TypeOK /\ ErrorInv /\ HistoryInv
  BY DEF RInv, IInv, ExitInv
<1>1. CASE UNCHANGED <<plan, edits, disturbed, late, saved>>
  BY <1>0, <1>1 DEF ErrorInv, HistoryInv
<1>2. ASSUME NEW f \in File, NEW slot, plan' = [plan EXCEPT ![f] = slot],
             slot.state = "err" => slot.code \in ErrorCode
      PROVE  ErrorInv'
  BY <1>0, <1>2 DEF ErrorInv, TypeOK
<1>3. \A text : Reading(text).state = "err" => Reading(text).code \in ErrorCode
  BY DEF Reading, ErrorCode
<1>4. ASSUME NEW f \in File, TakeFile(f) PROVE ErrorInv' /\ HistoryInv'
  BY <1>0, <1>2, <1>3, <1>4 DEF TakeFile, HistoryInv
<1>5. ASSUME NEW f \in File, ReadFails(f) PROVE ErrorInv' /\ HistoryInv'
  BY <1>0, <1>2, <1>3, <1>5 DEF ReadFails, Fault, HistoryInv
<1>6. ASSUME NEW f \in File, PlanFile(f) PROVE ErrorInv' /\ HistoryInv'
  <2>1. Planned(f, plan[f].source).state = "err" => Planned(f, plan[f].source).code \in ErrorCode
    BY LanguageCodes, FailuresDiffer DEF Planned
  <2>2. QED
    BY <1>0, <1>2, <1>6, <2>1 DEF PlanFile, HistoryInv
<1>7. ASSUME NEW f \in File, (\E text \in Saves : Save(f, text)) \/ Stage(f) PROVE ErrorInv' /\ HistoryInv'
  <2>1. plan' = plan /\ disturbed' = TRUE /\ edits' = edits + 1 /\ edits \in Nat
    BY <1>0, <1>7, BoundsAssumption DEF Save, Stage, process, TypeOK
  <2>2. QED
    BY <1>0, <2>1 DEF ErrorInv, HistoryInv
<1>8. CASE CallFails
  BY <1>0, <1>8 DEF CallFails, Fault, ErrorInv, HistoryInv
<1>9. CASE RunAgain
  BY <1>0, <1>9 DEF RunAgain, Todo, ErrorInv, HistoryInv
<1>10. CASE Kill \/ PowerLoss \/ Select \/ BlobsRead \/ StagedVerified \/ Decide \/ Finish \/ UNCHANGED vars
  BY <1>1, <1>10 DEF Kill, PowerLoss, Select, BlobsRead, StagedVerified, Decide, Finish, vars, process
<1>11. ASSUME NEW f \in File, ReadBlob(f) \/ VerifyStaged(f) \/ CheckTarget(f) \/ PrepareTemp(f) \/ Persist(f)
       PROVE  ErrorInv' /\ HistoryInv'
  BY <1>1, <1>11 DEF ReadBlob, VerifyStaged, CheckTarget, PrepareTemp, Persist
<1>12. QED
  BY <1>4, <1>5, <1>6, <1>7, <1>8, <1>9, <1>10, <1>11 DEF Next, RunStep, Machine, Author

(* A temporary file stands for a path that is no link. *)
LEMMA TargetsKept ==
  ASSUME RInv, ExitInv, [Next]_vars
  PROVE  TargetInv'
<1> USE DEF request, bounds, history, tree
<1>0. TypeOK /\ TempInv /\ WrittenInv /\ TargetInv
  BY DEF RInv, IInv, ExitInv
<1>1. CASE UNCHANGED <<pending, temp, written>>
  BY <1>0, <1>1 DEF TargetInv, First
<1>2. CASE temp' = NoTemp /\ (UNCHANGED written \/ written' = {})
  BY <1>0, <1>2 DEF TargetInv, NoTemp
<1>3. ASSUME phase # "replace", UNCHANGED <<temp, written>> PROVE TargetInv'
  BY <1>0, <1>3 DEF TargetInv, TempInv
<1>4. CASE Select \/ BlobsRead \/ StagedVerified \/ Decide \/ Finish \/ CallFails \/ Kill \/ PowerLoss
  BY <1>2, <1>3, <1>4
  DEF Select, Begin, BlobsRead, StagedVerified, Decide, Finish, CallFails, Kill, PowerLoss, Exit
<1>5. ASSUME NEW f \in File, ReadBlob(f) \/ VerifyStaged(f) \/ TakeFile(f) \/ PlanFile(f) \/ ReadFails(f)
      PROVE  TargetInv'
  BY <1>2, <1>3, <1>5 DEF ReadBlob, VerifyStaged, TakeFile, PlanFile, ReadFails, Exit
<1>6. ASSUME NEW f \in File, CheckTarget(f) PROVE TargetInv'
  <2>1. CASE Exit(FileFault)
    BY <1>2, <1>6, <2>1 DEF CheckTarget, Exit
  <2>2. CASE f \notin Link
    <3>1. First(f, pending) /\ UNCHANGED <<pending, written>>
      BY <1>6 DEF CheckTarget, Replacing, Current
    <3>2. \A g \in pending : First(g, pending) => g = f
      BY <1>0, <3>1, FileAssumption DEF First, TypeOK
    <3>3. QED
      BY <1>0, <2>2, <3>1, <3>2 DEF TargetInv, First
  <2>3. QED
    BY <1>6, <2>1, <2>2 DEF CheckTarget
<1>7. ASSUME NEW f \in File, PrepareTemp(f) PROVE TargetInv'
  <2>1. temp.stage # "none" /\ UNCHANGED <<pending, written>>
    BY <1>7 DEF PrepareTemp, CreateTemp, WriteTemp, CopyAccess, SyncTemp, Replacing
  <2>2. QED
    BY <1>0, <2>1 DEF TargetInv, First
<1>8. ASSUME NEW f \in File, Persist(f) PROVE TargetInv'
  <2>1. First(f, pending) /\ temp.stage = "synced" /\ temp' = NoTemp /\ written' = written \cup {f}
    BY <1>8 DEF Persist, Replacing, Current
  <2>2. f \notin Link
    BY <1>0, <2>1 DEF TargetInv, First
  <2>3. QED
    BY <1>0, <2>1, <2>2 DEF TargetInv, NoTemp
<1>9. CASE Author \/ UNCHANGED vars
  BY <1>1, <1>9 DEF Author, Save, Stage, vars, process
<1>10. CASE RunAgain
  BY <1>2, <1>10 DEF RunAgain
<1>11. QED
  BY <1>4, <1>5, <1>6, <1>7, <1>8, <1>9, <1>10 DEF Next, RunStep, Machine

(* The strengthening of the replacement invariant with what the exit code, *)
(* the failed slots, the history and the targets say.                      *)
THEOREM ExitInvariant == Spec => []ExitInv
<1>1. Init => ExitInv
  BY DEF Init, ExitInv, VerdictInv, ErrorInv, HistoryInv, TargetInv, Todo, NoTemp
<1>2. RInv /\ ExitInv /\ [Next]_vars => ExitInv'
  BY VerdictKept, RecordsKept, TargetsKept DEF ExitInv
<1>3. QED
  BY <1>1, <1>2, ReplacementInvariant, PTL DEF Spec

(* After exit code 0, with nothing saved behind its back, every input of a *)
(* run over working files holds the formatting of what the planner read.   *)
LEMMA CleanInputs ==
  ASSUME RInv, ExitInv, phase = "done", code = Success, ~ Provided, late = {}, NEW f \in inputs
  PROVE  /\ plan[f].state = "ok" /\ plan[f].source \in Content /\ Formats(plan[f].source)
         /\ worktree[f] = Formatted(plan[f].source)
<1>1. plan[f].state = "ok" /\ f \in File /\ Seen(f)
  BY FailuresDiffer DEF RInv, IInv, TypeOK, ExitInv, VerdictInv, SeenInv
<1>2. plan[f].source \in Content /\ Formats(plan[f].source)
  BY <1>1 DEF RInv, IInv, PlanInv
<1>3. f \in written \/ Formatted(plan[f].source) = plan[f].source
  BY DEF ExitInv, VerdictInv, ToRewrite, Changes
<1>4. QED
  BY <1>1, <1>2, <1>3 DEF Seen

(* Exit code 0 of an undisturbed run over working files is the truth: a    *)
(* second run would find every input acceptable and nothing to change.     *)
THEOREM CleanExit == Spec => []CleanExitIsStable
<1>1. ASSUME RInv, ExitInv, phase = "done", code = Success, ~ disturbed, ~ Provided, NEW f \in inputs
      PROVE  Formats(worktree[f]) /\ ~ Changes(worktree[f])
  <2>1. late = {}
    BY <1>1 DEF ExitInv, HistoryInv
  <2>2. plan[f].source \in Content /\ Formats(plan[f].source) /\ worktree[f] = Formatted(plan[f].source)
    BY <1>1, <2>1, CleanInputs
  <2>3. QED
    BY <2>2 DEF Formats, Formatted, Changes
<1>2. RInv /\ ExitInv => CleanExitIsStable
  BY <1>1 DEF CleanExitIsStable
<1>3. QED
  BY <1>2, ReplacementInvariant, ExitInvariant, PTL

(* However many runs were killed or lost power part-way before it, a `fmt` *)
(* that succeeds leaves what one uninterrupted run would have left.        *)
THEOREM RecoveryComplete == Spec => []RecoveryConverges
<1>1. ASSUME RInv, ExitInv, phase = "done", code = Success, mode = "fmt", edits = 0,
             NEW f \in inputs, NEW c \in saved[f]
      PROVE  worktree[f] = Formatted(c)
  <2>1. late = {} /\ ~ Provided
    BY <1>1 DEF ExitInv, HistoryInv, Provided
  <2>2. plan[f].state = "ok" /\ Formats(plan[f].source) /\ worktree[f] = Formatted(plan[f].source)
    BY <1>1, <2>1, CleanInputs
  <2>3. f \in File /\ saved[f] \subseteq Content
    BY <1>1 DEF RInv, IInv, TypeOK
  <2>4. plan[f].source \in Versions(f)
    BY <1>1, <2>2, <2>3 DEF RInv, IInv, PlanInv
  <2>5. PICK s \in saved[f] : plan[f].source = s \/ (Formats(s) /\ plan[f].source = Formatted(s))
    BY <2>4 DEF Versions
  <2>6. s = c
    BY <1>1, <2>3 DEF ExitInv, HistoryInv
  <2>7. QED
    BY <2>2, <2>3, <2>5, <2>6, GateIdempotent
<1>2. RInv /\ ExitInv => RecoveryConverges
  BY <1>1 DEF RecoveryConverges
<1>3. QED
  BY <1>2, ReplacementInvariant, ExitInvariant, PTL
-----------------------------------------------------------------------------
(* The preflight of a staged `fmt`: while nobody edits, each verified      *)
(* working file stays what its blob was, until the planner reads it.       *)
Untouched == edits = 0 \/ ~ disturbed

StagedInv ==
  /\ phase \in {"blobs", "verify"} => selection = "staged"
  /\ phase = "verify" => mode = "fmt"
  /\ (selection = "staged" /\ mode = "fmt" /\ Untouched) =>
       /\ phase = "verify" => \A f \in inputs \ pending : worktree[f] = blob[f]
       /\ phase = "plan" => \A f \in inputs : worktree[f] = blob[f]
       /\ \A f \in inputs : plan[f].state \in {"read", "ok"} => plan[f].source = blob[f]

(* No step parts the staged text from the plan that was made for it, as    *)
(* long as nobody touches the index or the file in between.                *)
LEMMA StagedKept ==
  ASSUME RInv, StagedInv, [Next]_vars
  PROVE  StagedInv'
<1> USE DEF request, bounds, history, tree
<1>0. TypeOK /\ ProgressInv /\ StagedInv
  BY DEF RInv, IInv
<1>t. phase \in {"select", "blobs", "verify"} => \A f \in File : plan[f].state = "todo"
  BY <1>0 DEF ProgressInv
<1>1. CASE UNCHANGED <<worktree, phase, mode, selection, inputs, pending, blob, plan, edits, disturbed>>
  BY <1>0, <1>1 DEF StagedInv, Untouched
<1>2. ASSUME phase' \in {"replace", "done"}, Untouched' => Untouched,
             UNCHANGED <<mode, selection, inputs, blob, plan>>
      PROVE  StagedInv'
  BY <1>0, <1>2 DEF StagedInv
<1>3. CASE Select
  <2>1. phase = "select" /\ UNCHANGED <<plan, mode, selection>>
    BY <1>3 DEF Select
  <2>2. inputs' \subseteq File
    BY <1>0, <1>3 DEF Select, Begin, Discovered, Staged, Changed, TypeOK
  <2>3. /\ phase' = "done" \/ (phase' = "plan" /\ selection # "staged") \/ (phase' = "blobs" /\ selection = "staged")
    BY <1>3 DEF Select, Begin, Exit
  <2>4. QED
    BY <1>t, <2>1, <2>2, <2>3 DEF StagedInv
<1>4. CASE BlobsRead \/ StagedVerified
  BY <1>0, <1>4 DEF BlobsRead, StagedVerified, StagedInv, Untouched
<1>5. CASE Decide \/ Finish \/ CallFails \/ Kill \/ PowerLoss
  BY <1>0, <1>2, <1>5 DEF Decide, Finish, CallFails, Fault, Kill, PowerLoss, Exit, Untouched
<1>6. ASSUME NEW f \in File, ReadBlob(f) PROVE StagedInv'
  BY <1>0, <1>t, <1>6 DEF ReadBlob, Exit, StagedInv, TypeOK
<1>7. ASSUME NEW f \in File, VerifyStaged(f) PROVE StagedInv'
  BY <1>0, <1>t, <1>7 DEF VerifyStaged, InSync, Exit, StagedInv, Untouched, TypeOK
<1>8. ASSUME NEW f \in File, TakeFile(f) \/ PlanFile(f) \/ ReadFails(f) PROVE StagedInv'
  <2>1. /\ phase = "plan" /\ UNCHANGED <<worktree, phase, mode, selection, inputs, pending, blob, edits>>
        /\ disturbed' \/ disturbed' = disturbed
        /\ plan' = [plan EXCEPT ![f] = plan'[f]]
    BY <1>0, <1>8 DEF TakeFile, PlanFile, ReadFails, Fault, TypeOK
  <2>2. ASSUME selection = "staged", mode = "fmt", Untouched, f \in inputs, plan'[f].state \in {"read", "ok"}
        PROVE  plan'[f].source = blob[f]
    <3>1. worktree[f] = blob[f] /\ (plan[f].state = "read" => plan[f].source = blob[f])
      BY <1>0, <2>1, <2>2 DEF StagedInv
    <3>2. CASE TakeFile(f)
      BY <1>0, <2>2, <3>1, <3>2 DEF TakeFile, Provided, Reading, TypeOK
    <3>3. CASE PlanFile(f)
      <4>1. Planned(f, plan[f].source).source = plan[f].source
        BY DEF Planned
      <4>2. QED
        BY <1>0, <3>1, <3>3, <4>1 DEF PlanFile, TypeOK
    <3>4. CASE ReadFails(f)
      BY <1>0, <2>2, <3>4, RunAssumption, MarksAssumption DEF ReadFails, Reading, TypeOK
    <3>5. QED
      BY <1>8, <3>2, <3>3, <3>4
  <2>3. ASSUME selection = "staged", mode = "fmt", Untouched, NEW g \in inputs, plan'[g].state \in {"read", "ok"}
        PROVE  plan'[g].source = blob[g]
    BY <1>0, <2>1, <2>2, <2>3 DEF StagedInv, TypeOK
  <2>4. QED
    BY <1>0, <2>1, <2>3 DEF StagedInv, Untouched
<1>9. ASSUME NEW f \in File, CheckTarget(f) \/ PrepareTemp(f) \/ Persist(f) PROVE StagedInv'
  BY <1>2, <1>9
  DEF CheckTarget, PrepareTemp, CreateTemp, WriteTemp, CopyAccess, SyncTemp, Persist, Replacing, Exit, Untouched
<1>10. CASE Author
  <2>1. ~ Untouched' /\ UNCHANGED <<phase, mode, selection>>
    BY <1>0, <1>10, BoundsAssumption DEF Author, Save, Stage, process, Untouched, TypeOK
  <2>2. QED
    BY <1>0, <2>1 DEF StagedInv
<1>11. CASE RunAgain
  BY <1>0, <1>11 DEF RunAgain, Todo, StagedInv
<1>12. CASE UNCHANGED vars
  BY <1>1, <1>12 DEF vars, process
<1>13. QED
  BY <1>3, <1>4, <1>5, <1>6, <1>7, <1>8, <1>9, <1>10, <1>11, <1>12 DEF Next, RunStep, Machine

(* A staged `fmt` nobody interferes with replaces only files whose         *)
(* formatted text was the staged one.  Without the hypothesis the promise  *)
(* of the user guide fails: the planner reads each file again.             *)
THEOREM StagedTextUndisturbed == Spec => [](Untouched => StagedTextFormatted)
<1>1. Init => StagedInv
  BY DEF Init, StagedInv, Todo
<1>2. RInv /\ StagedInv /\ [Next]_vars => StagedInv'
  BY StagedKept
<1>3. ASSUME RInv, StagedInv, Untouched, selection = "staged", NEW f \in written
      PROVE  plan[f].source = blob[f]
  <2>1. mode = "fmt" /\ f \in inputs /\ plan[f].state = "ok"
    BY <1>3 DEF RInv, IInv, TypeOK, PreflightComplete
  <2>2. QED
    BY <1>3, <2>1 DEF StagedInv
<1>4. RInv /\ StagedInv => (Untouched => StagedTextFormatted)
  BY <1>3 DEF StagedTextFormatted
<1>5. QED
  BY <1>1, <1>2, <1>4, ReplacementInvariant, PTL DEF Spec
-----------------------------------------------------------------------------
(***************************************************************************)
(* The run as a sequential function of the tree it started on.  While it   *)
(* is quiet - not killed, no call failed, no edit - the tree is the one it *)
(* started on with its replacements done, each filled slot is what         *)
(* planning that file alone gives, and the preflight has passed.           *)
(***************************************************************************)
Quiet == code # Killed /\ ~ disturbed

StartInv ==
  \A f \in File : worktree[f] = IF f \in written THEN Formatted(start[f]) ELSE start[f]

Judged(f) ==
  /\ plan[f].state \in {"read", "ok"} =>
       plan[f].source = SequentialText(f) /\ SequentialText(f) \in Utf8
  /\ plan[f].state = "ok" => SequentialCode(f) = Success
  /\ plan[f].state = "err" => SequentialCode(f) = plan[f].code

JudgedInv == \A f \in inputs : Judged(f)

StagedOK(f) == blob[f] = index[f] /\ index[f] \in Utf8

PreflightInv ==
  /\ phase = "blobs" => \A f \in inputs \ pending : StagedOK(f)
  /\ phase = "verify" => /\ \A f \in inputs : StagedOK(f)
                         /\ \A f \in inputs \ pending : worktree[f] = blob[f]
  /\ phase \in {"plan", "replace"} => ~ Refused /\ (Provided => \A f \in inputs : StagedOK(f))

Harmful == \E f \in inputs : HasFatal(SequentialText(f))

DecidedInv == phase = "replace" => Rejected = {} /\ ~ Harmful

(* The exit code and the replacements of the sequential run, each named    *)
(* without choosing the first rejected input.                              *)
Verdict(c) ==
  \/ Refused /\ c = FileFault
  \/ ~ Refused /\ \E f \in Rejected : First(f, Rejected) /\ c = SequentialCode(f)
  \/ ~ Refused /\ Rejected = {} /\ Harmful /\ c = SourceFault
  \/ /\ ~ Refused /\ Rejected = {} /\ ~ Harmful /\ mode = "fmt"
     /\ c = IF Rewritten \cap Link = {} THEN Success ELSE FileFault
  \/ /\ ~ Refused /\ Rejected = {} /\ ~ Harmful /\ mode # "fmt"
     /\ c = IF Rewritten = {} THEN Success ELSE WouldChange

Applied ==
  IF mode # "fmt" \/ Refused \/ Rejected # {} \/ Harmful
  THEN {} ELSE Preceding(Rewritten, Rewritten \cap Link)

OutcomeInv == phase = "done" => Verdict(code) /\ written = Applied

QuietInv == Quiet => StartInv /\ JudgedInv /\ PreflightInv /\ DecidedInv /\ OutcomeInv

(* Ending a quiet run with everything but phase and code as it was needs   *)
(* only the outcome. *)
LEMMA QuietExit ==
  ASSUME QuietInv, Quiet, NEW c, Exit(c),
         UNCHANGED <<worktree, index, request, inputs, blob, plan, written, start>>,
         Verdict(c), written = Applied
  PROVE  QuietInv'
<1> USE DEF request
<1>1. StartInv /\ JudgedInv
  BY DEF QuietInv
<1>2. StartInv'
  BY <1>1 DEF StartInv, Formatted
<1>3. \A f : SequentialText(f)' = SequentialText(f) /\ SequentialCode(f)' = SequentialCode(f)
  BY DEF SequentialText, SequentialCode, Provided, LanguageCode, Formats
<1>4. JudgedInv'
  BY <1>1, <1>3 DEF JudgedInv, Judged
<1>5. phase' = "done" /\ code' = c
  BY DEF Exit
<1>6. Applied' = Applied /\ Verdict(c)' = Verdict(c)
  BY <1>3 DEF Applied, Verdict, Refused, Rejected, Harmful, HasFatal, Preceding, Rewritten, Changes, Formatted, Provided
<1>7. PreflightInv' /\ DecidedInv' /\ OutcomeInv'
  BY <1>5, <1>6 DEF PreflightInv, DecidedInv, OutcomeInv
<1>8. QED
  BY <1>2, <1>4, <1>7 DEF QuietInv

(* Going on: a step that leaves the tree, the request, the inputs and the  *)
(* plans alone keeps what a quiet run knows of them. *)
LEMMA QuietGoesOn ==
  ASSUME StartInv, JudgedInv, UNCHANGED <<worktree, index, request, inputs, plan, written, start>>
  PROVE  /\ StartInv' /\ JudgedInv' /\ Refused' = Refused /\ Rejected' = Rejected /\ Harmful' = Harmful
         /\ Provided' = Provided
<1> USE DEF request
<1>1. StartInv'
  BY DEF StartInv, Formatted
<1>2. \A f : SequentialText(f)' = SequentialText(f) /\ SequentialCode(f)' = SequentialCode(f)
  BY DEF SequentialText, SequentialCode, Provided, LanguageCode, Formats
<1>3. JudgedInv'
  BY <1>2 DEF JudgedInv, Judged
<1>4. Refused' = Refused /\ Rejected' = Rejected /\ Harmful' = Harmful /\ Provided' = Provided
  BY <1>2 DEF Refused, Rejected, Harmful, HasFatal, Provided
<1>5. QED
  BY <1>1, <1>3, <1>4

(* The selection and the staged preflight refuse exactly what Refused says. *)
LEMMA QuietPreflight ==
  ASSUME RInv, StagedInv, QuietInv, Quiet,
         Select \/ BlobsRead \/ StagedVerified \/ \E f \in File : ReadBlob(f) \/ VerifyStaged(f)
  PROVE  QuietInv'
<1> USE DEF request, history, tree
<1>0. TypeOK /\ WrittenInv /\ ProgressInv /\ StartInv /\ JudgedInv /\ PreflightInv
  BY DEF RInv, IInv, QuietInv
<1>p. phase \in {"select", "blobs", "verify"}
  BY DEF Select, BlobsRead, StagedVerified, ReadBlob, VerifyStaged
<1>w. written = {} /\ \A g \in File : worktree[g] = start[g]
  BY <1>0, <1>p DEF WrittenInv, StartInv
<1>r. ASSUME Refused, Exit(FileFault),
             UNCHANGED <<worktree, index, request, inputs, blob, plan, written, start>>
      PROVE  QuietInv'
  BY <1>w, <1>r, QuietExit DEF Verdict, Applied
<1>1. CASE Select
  <2>1. CASE selection = "paths" /\ (\E g \in explicit : ~ Present(g)) /\ Exit(FileFault) /\ UNCHANGED inputs
    <3>1. explicit \subseteq File
      BY <1>0, RunAssumption DEF TypeOK
    <3>2. Refused
      BY <1>w, <2>1, <3>1 DEF Refused, Present
    <3>3. QED
      BY <1>1, <1>r, <2>1, <3>2 DEF Select
  <2>2. CASE (\A g \in explicit : selection = "paths" => Present(g)) /\ selection # "staged" /\ phase' = "plan"
    <3>1. ~ Refused' /\ ~ Provided'
      <4>1. explicit \subseteq File
        BY <1>0, RunAssumption DEF TypeOK
      <4>2. QED
        BY <1>1, <1>w, <2>2, <4>1 DEF Select, Refused, Present, Provided
    <3>2. inputs' \subseteq File /\ \A g \in File : plan'[g].state = "todo"
      BY <1>0, <1>p, <1>1, <2>2 DEF Select, Begin, Exit, Discovered, Changed, ProgressInv
    <3>3. StartInv' /\ JudgedInv' /\ PreflightInv'
      BY <1>0, <1>1, <2>2, <3>1, <3>2 DEF Select, StartInv, Formatted, JudgedInv, Judged, PreflightInv
    <3>4. QED
      BY <2>2, <3>3 DEF QuietInv, DecidedInv, OutcomeInv
  <2>3. CASE selection = "staged" /\ Begin(Staged, "blobs")
    <3>1. inputs' \subseteq File /\ inputs' \ pending' = {} /\ phase' = "blobs"
      BY <2>3 DEF Begin, Staged
    <3>2. \A g \in File : plan'[g].state = "todo"
      BY <1>0, <1>p, <1>1 DEF Select, ProgressInv
    <3>3. StartInv' /\ JudgedInv' /\ PreflightInv'
      BY <1>0, <1>1, <3>1, <3>2 DEF Select, StartInv, Formatted, JudgedInv, Judged, PreflightInv
    <3>4. QED
      BY <3>1, <3>3 DEF QuietInv, DecidedInv, OutcomeInv
  <2>4. QED
    BY <1>1, <2>1, <2>2, <2>3 DEF Select, Begin
<1>2. ASSUME phase' \in {"blobs", "verify", "plan"}, PreflightInv',
             UNCHANGED <<worktree, index, request, inputs, plan, written, start>>
      PROVE  QuietInv'
  BY <1>0, <1>2, QuietGoesOn DEF QuietInv, DecidedInv, OutcomeInv
<1>3. CASE BlobsRead
  <2>1. /\ phase = "blobs" /\ selection = "staged" /\ \A g \in inputs : StagedOK(g)
        /\ UNCHANGED <<worktree, index, request, inputs, blob, plan, written, start>>
        /\ phase' = IF mode = "fmt" THEN "verify" ELSE "plan"
        /\ mode = "fmt" => pending' = inputs
    BY <1>0, <1>3 DEF BlobsRead, PreflightInv, StagedInv
  <2>2. mode # "fmt" => ~ Refused
    BY <2>1 DEF Refused, StagedOK
  <2>3. Refused' = Refused
    BY <1>0, <2>1, QuietGoesOn
  <2>4. \A g \in inputs : StagedOK(g)'
    BY <2>1 DEF StagedOK
  <2>5. PreflightInv'
    BY <2>1, <2>2, <2>3, <2>4 DEF PreflightInv
  <2>6. QED
    BY <1>2, <2>1, <2>5
<1>4. CASE StagedVerified
  <2>1. /\ phase = "verify" /\ \A g \in inputs : StagedOK(g) /\ worktree[g] = blob[g]
        /\ UNCHANGED <<worktree, index, request, inputs, blob, plan, written, start>>
        /\ phase' = "plan" /\ selection = "staged"
    BY <1>0, <1>4 DEF StagedVerified, PreflightInv, StagedInv
  <2>2. ~ Refused
    BY <1>0, <1>w, <2>1 DEF Refused, StagedOK, TypeOK
  <2>3. Refused' = Refused
    BY <1>0, <2>1, QuietGoesOn
  <2>4. \A g \in inputs : StagedOK(g)'
    BY <2>1 DEF StagedOK
  <2>5. PreflightInv'
    BY <2>1, <2>2, <2>3, <2>4 DEF PreflightInv
  <2>6. QED
    BY <1>2, <2>1, <2>5
<1>5. ASSUME NEW f \in File, ReadBlob(f) PROVE QuietInv'
  <2>1. f \in inputs /\ phase = "blobs" /\ selection = "staged"
        /\ UNCHANGED <<worktree, index, request, inputs, plan, written, start>>
    BY <1>0, <1>5 DEF ReadBlob, First, TypeOK, StagedInv
  <2>2. CASE index[f] \in Utf8
    <3>1. \A g \in inputs \ pending' : StagedOK(g)'
      BY <1>0, <1>5, <2>2 DEF ReadBlob, StagedOK, PreflightInv, TypeOK
    <3>2. QED
      BY <1>2, <1>5, <2>1, <2>2, <3>1 DEF ReadBlob, PreflightInv
  <2>3. CASE index[f] \notin Utf8
    <3>1. Refused
      BY <2>1, <2>3 DEF Refused
    <3>2. QED
      BY <1>5, <1>r, <2>1, <2>3, <3>1 DEF ReadBlob
  <2>4. QED
    BY <2>2, <2>3
<1>6. ASSUME NEW f \in File, VerifyStaged(f) PROVE QuietInv'
  <2>1. /\ f \in inputs /\ phase = "verify" /\ selection = "staged" /\ mode = "fmt"
        /\ UNCHANGED <<worktree, index, request, inputs, blob, plan, written, start>>
    BY <1>0, <1>6 DEF VerifyStaged, First, TypeOK, StagedInv
  <2>2. CASE InSync(f)
    <3>1. phase' = "verify" /\ \A g \in inputs : StagedOK(g)' /\ (g \notin pending' => worktree'[g] = blob'[g])
      BY <1>0, <1>6, <2>1, <2>2 DEF VerifyStaged, InSync, StagedOK, PreflightInv
    <3>2. QED
      BY <1>2, <2>1, <3>1 DEF PreflightInv
  <2>3. CASE ~ InSync(f)
    <3>1. Refused
      BY <1>0, <1>w, <2>1, <2>3 DEF Refused, InSync, PreflightInv, StagedOK, TypeOK
    <3>2. QED
      BY <1>6, <1>r, <2>1, <2>3, <3>1 DEF VerifyStaged
  <2>4. QED
    BY <2>2, <2>3
<1>7. QED
  BY <1>1, <1>3, <1>4, <1>5, <1>6

(* What a slot is filled with is what planning its file alone gives.       *)
LEMMA QuietPlanning ==
  ASSUME RInv, QuietInv, Quiet, NEW f \in File, TakeFile(f) \/ PlanFile(f)
  PROVE  QuietInv'
<1> USE DEF request, history, tree
<1>0. TypeOK /\ StartInv /\ JudgedInv /\ PreflightInv
  BY DEF RInv, IInv, QuietInv
<1>1. /\ phase = "plan" /\ f \in inputs /\ written = {}
      /\ UNCHANGED <<worktree, index, phase, request, inputs, blob, written, start>>
      /\ plan' = [plan EXCEPT ![f] = plan'[f]]
  BY <1>0 DEF TakeFile, PlanFile, RInv, IInv, WrittenInv, TypeOK
<1>2. \A g : SequentialText(g)' = SequentialText(g) /\ SequentialCode(g)' = SequentialCode(g)
  BY <1>1 DEF SequentialText, SequentialCode, Provided, LanguageCode, Formats
<1>3. Refused' = Refused /\ Provided' = Provided /\ \A g \in inputs : StagedOK(g)' = StagedOK(g)
  BY <1>1 DEF Refused, Provided, StagedOK
<1>4. Judged(f)'
  <2>1. CASE TakeFile(f)
    <3>1. plan'[f] = Reading(SequentialText(f))
      BY <1>0, <1>1, <2>1 DEF TakeFile, StartInv, PreflightInv, StagedOK, SequentialText, TypeOK
    <3>2. SequentialText(f) \notin Utf8 => SequentialCode(f) = FileFault
      BY DEF SequentialCode
    <3>3. QED
      BY <1>2, <3>1, <3>2 DEF Judged, Reading
  <2>2. CASE PlanFile(f)
    <3>1. plan'[f] = Planned(f, SequentialText(f)) /\ SequentialText(f) \in Utf8
      BY <1>0, <1>1, <2>2 DEF PlanFile, JudgedInv, Judged, TypeOK
    <3>2. SequentialCode(f) = Planned(f, SequentialText(f)).code
          /\ Planned(f, SequentialText(f)).source = SequentialText(f)
          /\ (Planned(f, SequentialText(f)).state = "ok" => Planned(f, SequentialText(f)).code = Success)
      BY <3>1 DEF SequentialCode, Planned
    <3>3. QED
      BY <1>2, <3>1, <3>2 DEF Judged
  <2>3. QED
    BY <2>1, <2>2
<1>5. \A g \in inputs : g # f => Judged(g)'
  BY <1>0, <1>1, <1>2 DEF JudgedInv, Judged, TypeOK
<1>6. StartInv' /\ JudgedInv' /\ PreflightInv'
  BY <1>0, <1>1, <1>3, <1>4, <1>5 DEF StartInv, Formatted, JudgedInv, PreflightInv
<1>7. QED
  BY <1>1, <1>6 DEF QuietInv, DecidedInv, OutcomeInv

(* Once every slot is filled, the plans that failed are the rejected       *)
(* inputs, and the texts of the others are the sequential ones.            *)
LEMMA AllJudged ==
  ASSUME TypeOK, ErrorInv, JudgedInv, \A f \in inputs : plan[f].state \in {"ok", "err"}
  PROVE  /\ Failed = Rejected
         /\ \A f \in Failed : plan[f].code = SequentialCode(f)
         /\ Failed = {} => /\ HasErrors <=> Harmful
                           /\ ToRewrite = Rewritten
BY FailuresDiffer DEF JudgedInv, Judged, Failed, Rejected, ErrorInv, HasErrors, Harmful, ToRewrite, Rewritten, TypeOK

(* The decision is the sequential one.                                     *)
LEMMA QuietDecision ==
  ASSUME RInv, ExitInv, QuietInv, Quiet, Decide
  PROVE  QuietInv'
<1> USE DEF request, history, tree
<1>0. TypeOK /\ ErrorInv /\ StartInv /\ JudgedInv /\ PreflightInv
  BY DEF RInv, IInv, ExitInv, QuietInv
<1>1. /\ phase = "plan" /\ written = {} /\ ~ Refused
      /\ \A f \in inputs : plan[f].state \in {"ok", "err"}
      /\ UNCHANGED <<worktree, index, request, inputs, blob, plan, written, start>>
  BY <1>0 DEF Decide, RInv, IInv, WrittenInv, PreflightInv
<1>2. /\ Failed = Rejected
      /\ \A f \in Failed : plan[f].code = SequentialCode(f)
      /\ Failed = {} => (HasErrors <=> Harmful) /\ ToRewrite = Rewritten
  BY <1>0, <1>1, AllJudged
<1>3. ASSUME NEW f \in Failed, FirstError(f), Exit(plan[f].code) PROVE QuietInv'
  <2>1. Verdict(plan[f].code)
    BY <1>1, <1>2, <1>3 DEF Verdict, FirstError
  <2>2. Applied = {}
    BY <1>2, <1>3 DEF Applied
  <2>3. QED
    BY <1>1, <1>3, <2>1, <2>2, QuietExit
<1>4. CASE Failed = {} /\ HasErrors /\ Exit(SourceFault)
  <2>1. Verdict(SourceFault) /\ Applied = {}
    BY <1>1, <1>2, <1>4 DEF Verdict, Applied
  <2>2. QED
    BY <1>1, <1>4, <2>1, QuietExit
<1>5. CASE Failed = {} /\ ~ HasErrors /\ mode # "fmt" /\ Exit(IF ToRewrite = {} THEN Success ELSE WouldChange)
  <2>1. Verdict(IF ToRewrite = {} THEN Success ELSE WouldChange) /\ Applied = {}
    BY <1>1, <1>2, <1>5 DEF Verdict, Applied
  <2>2. QED
    BY <1>1, <1>5, <2>1, QuietExit
<1>6. CASE Failed = {} /\ ~ HasErrors /\ mode = "fmt" /\ phase' = "replace"
  <2>1. /\ StartInv' /\ JudgedInv' /\ Refused' = Refused /\ Rejected' = Rejected /\ Harmful' = Harmful
        /\ ~ Provided'
    BY <1>0, <1>1, <1>6, QuietGoesOn DEF Provided
  <2>2. PreflightInv' /\ DecidedInv' /\ OutcomeInv'
    BY <1>1, <1>2, <1>6, <2>1 DEF PreflightInv, DecidedInv, OutcomeInv
  <2>3. QED
    BY <2>1, <2>2 DEF QuietInv
<1>7. QED
  BY <1>3, <1>4, <1>5, <1>6 DEF Decide

(* While replacing, what is still to do are the rewritten inputs not yet   *)
(* replaced, all of them at or after the current one.                      *)
LEMMA QuietReplacing ==
  ASSUME RInv, ExitInv, QuietInv, Quiet, phase = "replace"
  PROVE  /\ ~ Provided /\ mode = "fmt" /\ ~ Refused /\ Rejected = {} /\ ~ Harmful
         /\ ToRewrite = Rewritten /\ pending = Rewritten \ written /\ written \subseteq Rewritten
         /\ \A f \in inputs : plan[f].source = start[f] /\ start[f] \in Utf8
         /\ written \cap Link = {}
         /\ \A f \in written : \A g \in pending : f < g
<1>1. mode = "fmt" /\ ~ Provided /\ pending = ToRewrite \ written /\ InterruptedPrefix
  BY DEF RInv, IInv, ReplaceInv, ProgressInv, Provided
<1>2. ~ Refused /\ Rejected = {} /\ ~ Harmful
  BY DEF QuietInv, PreflightInv, DecidedInv
<1>3. \A f \in inputs : plan[f].source = SequentialText(f) /\ SequentialText(f) \in Utf8
  BY DEF RInv, IInv, ReplaceInv, QuietInv, JudgedInv, Judged
<1>4. ToRewrite = Rewritten /\ \A f \in inputs : plan[f].source = start[f] /\ start[f] \in Utf8
  BY <1>1, <1>3 DEF ToRewrite, Rewritten, SequentialText
<1>5. written \cap Link = {}
  BY DEF ExitInv, TargetInv
<1>6. QED
  BY <1>1, <1>2, <1>4, <1>5 DEF InterruptedPrefix

(* The loop of replacements stops at the first link, or nowhere.           *)
LEMMA QuietReplacement ==
  ASSUME RInv, ExitInv, QuietInv, Quiet,
         Finish \/ \E f \in File : CheckTarget(f) \/ PrepareTemp(f) \/ Persist(f)
  PROVE  QuietInv'
<1> USE DEF request, history, tree
<1>0. TypeOK /\ TempInv /\ StartInv /\ JudgedInv /\ PreflightInv
  BY DEF RInv, IInv, QuietInv
<1>p. phase = "replace"
  BY DEF CheckTarget, PrepareTemp, CreateTemp, WriteTemp, CopyAccess, SyncTemp, Persist, Finish, Replacing
<1>q. /\ ~ Provided /\ mode = "fmt" /\ ~ Refused /\ Rejected = {} /\ ~ Harmful
      /\ ToRewrite = Rewritten /\ pending = Rewritten \ written /\ written \subseteq Rewritten
      /\ \A g \in inputs : plan[g].source = start[g] /\ start[g] \in Utf8
      /\ written \cap Link = {}
      /\ \A g \in written : \A h \in pending : g < h
  BY <1>p, QuietReplacing
<1>1. CASE UNCHANGED <<worktree, index, phase, request, inputs, plan, written, start>>
  <2>1. /\ StartInv' /\ JudgedInv' /\ Refused' = Refused /\ Rejected' = Rejected /\ Harmful' = Harmful
        /\ Provided' = Provided
    BY <1>0, <1>1, QuietGoesOn
  <2>2. PreflightInv' /\ DecidedInv' /\ OutcomeInv'
    BY <1>p, <1>q, <1>1, <2>1 DEF PreflightInv, DecidedInv, OutcomeInv
  <2>3. QED
    BY <2>1, <2>2 DEF QuietInv
<1>2. ASSUME NEW f \in File, PrepareTemp(f) PROVE QuietInv'
  BY <1>1, <1>2 DEF PrepareTemp
<1>3. ASSUME NEW f \in File, CheckTarget(f) PROVE QuietInv'
  <2>1. CASE Exit(FileFault) /\ ~ (Present(f) /\ f \notin Link)
    <3>1. f \in pending /\ \A g \in pending : f <= g
      BY <1>3 DEF CheckTarget, Replacing, Current, First
    <3>2. f \in Rewritten \cap Link
      <4>1. Present(f)
        BY <1>0, <1>q, <3>1, RunAssumption, MarksAssumption DEF StartInv, Present, Rewritten
      <4>2. QED
        BY <1>q, <2>1, <3>1, <4>1
    <3>3. written = Preceding(Rewritten, Rewritten \cap Link)
      <4>1. Rewritten \subseteq Nat
        BY <1>0, FileAssumption DEF Rewritten, TypeOK
      <4>2. ASSUME NEW g \in written PROVE g \in Preceding(Rewritten, Rewritten \cap Link)
        BY <1>q, <4>2 DEF Preceding
      <4>3. ASSUME NEW g \in Preceding(Rewritten, Rewritten \cap Link) PROVE g \in written
        <5>1. g \in Rewritten /\ g < f
          BY <3>2, <4>3 DEF Preceding
        <5>2. ~ (f <= g)
          BY <3>2, <4>1, <5>1
        <5>3. QED
          BY <1>q, <3>1, <5>1, <5>2
      <4>4. QED
        BY <4>2, <4>3
    <3>4. Verdict(FileFault) /\ written = Applied
      BY <1>q, <3>2, <3>3 DEF Verdict, Applied
    <3>5. QED
      BY <1>3, <2>1, <3>4, QuietExit DEF CheckTarget
  <2>2. CASE UNCHANGED phase
    BY <1>1, <1>3, <2>2 DEF CheckTarget
  <2>3. QED
    BY <1>3, <2>1, <2>2 DEF CheckTarget
<1>4. CASE Finish
  <2>1. written = Rewritten /\ Rewritten \cap Link = {}
    BY <1>q, <1>4 DEF Finish
  <2>2. Verdict(Success) /\ written = Applied
    BY <1>q, <2>1 DEF Verdict, Applied, Preceding
  <2>3. QED
    BY <1>4, <2>2, QuietExit DEF Finish
<1>5. ASSUME NEW f \in File, Persist(f) PROVE QuietInv'
  <2>1. /\ f \in pending /\ temp.data = Formatted(plan[f].source)
        /\ UNCHANGED <<index, phase, request, inputs, plan, start>>
        /\ worktree' = [worktree EXCEPT ![f] = temp.data] /\ written' = written \cup {f}
    BY <1>0, <1>5 DEF Persist, Replacing, Current, First, TempInv
  <2>2. StartInv'
    BY <1>0, <1>q, <2>1 DEF StartInv, Formatted, TypeOK
  <2>3. \A g : SequentialText(g)' = SequentialText(g) /\ SequentialCode(g)' = SequentialCode(g)
    BY <2>1 DEF SequentialText, SequentialCode, Provided, LanguageCode, Formats
  <2>4. JudgedInv' /\ Refused' = Refused /\ Rejected' = Rejected /\ Harmful' = Harmful /\ Provided' = Provided
    BY <1>0, <2>1, <2>3 DEF JudgedInv, Judged, Refused, Rejected, Harmful, HasFatal, Provided
  <2>5. PreflightInv' /\ DecidedInv' /\ OutcomeInv'
    BY <1>p, <1>q, <2>1, <2>4 DEF PreflightInv, DecidedInv, OutcomeInv
  <2>6. QED
    BY <2>2, <2>4, <2>5 DEF QuietInv
<1>6. QED
  BY <1>2, <1>3, <1>4, <1>5

(* Every other step ends the quiet, or starts another run.                 *)
LEMMA QuietKept ==
  ASSUME RInv, ExitInv, StagedInv, QuietInv, [Next]_vars
  PROVE  QuietInv'
<1> USE DEF request, history, bounds, tree
<1>0. TypeOK /\ ProgressInv
  BY DEF RInv, IInv
<1>r. phase # "done" => code # Killed
  BY <1>0, CodesDiffer DEF ProgressInv
<1>1. ASSUME code' = Killed \/ disturbed' PROVE QuietInv'
  BY <1>1 DEF QuietInv, Quiet
<1>2. CASE Machine
  BY <1>1, <1>2 DEF Machine, CallFails, ReadFails, Fault, Kill, PowerLoss, Exit
<1>3. CASE Author
  BY <1>1, <1>3 DEF Author, Save, Stage
<1>4. CASE RunStep
  <2>1. phase # "done" /\ UNCHANGED disturbed
    BY <1>4 DEF RunStep, Select, BlobsRead, StagedVerified, Decide, Finish, ReadBlob, VerifyStaged, TakeFile,
                PlanFile, CheckTarget, PrepareTemp, CreateTemp, WriteTemp, CopyAccess, SyncTemp, Persist, Replacing
  <2>2. CASE disturbed
    BY <1>1, <2>1, <2>2
  <2>3. CASE ~ disturbed
    BY <1>4, <1>r, <2>1, <2>3, QuietPreflight, QuietPlanning, QuietDecision, QuietReplacement DEF RunStep, Quiet
  <2>4. QED
    BY <2>2, <2>3
<1>5. CASE RunAgain
  <2>1. /\ phase' = "select" /\ inputs' = {} /\ written' = {} /\ start' = worktree' /\ worktree' = worktree
    BY <1>5 DEF RunAgain
  <2>2. StartInv' /\ JudgedInv' /\ PreflightInv' /\ DecidedInv' /\ OutcomeInv'
    BY <2>1 DEF StartInv, Formatted, JudgedInv, PreflightInv, DecidedInv, OutcomeInv
  <2>3. QED
    BY <2>2 DEF QuietInv
<1>6. CASE UNCHANGED vars
  <2>1. UNCHANGED <<worktree, index, phase, request, inputs, pending, blob, plan, written, start, code, disturbed>>
    BY <1>6 DEF vars, process
  <2>2. CASE Quiet
    <3>1. /\ StartInv' /\ JudgedInv' /\ Refused' = Refused /\ Rejected' = Rejected /\ Harmful' = Harmful
          /\ Provided' = Provided
      BY <2>1, <2>2, QuietGoesOn DEF QuietInv
    <3>2. \A f : SequentialText(f)' = SequentialText(f) /\ SequentialCode(f)' = SequentialCode(f)
      BY <2>1 DEF SequentialText, SequentialCode, Provided, LanguageCode, Formats
    <3>3. Verdict(code)' = Verdict(code) /\ Applied' = Applied
      BY <2>1, <3>1, <3>2 DEF Verdict, Applied, Preceding, Rewritten, Changes, Formatted
    <3>4. PreflightInv' /\ DecidedInv' /\ OutcomeInv'
      BY <2>1, <2>2, <3>1, <3>3 DEF QuietInv, PreflightInv, StagedOK, DecidedInv, OutcomeInv
    <3>5. QED
      BY <3>1, <3>4 DEF QuietInv
  <2>3. CASE ~ Quiet
    BY <2>1, <2>3 DEF QuietInv, Quiet
  <2>4. QED
    BY <2>2, <2>3
<1>7. QED
  BY <1>2, <1>3, <1>4, <1>5, <1>6 DEF Next

(* Whatever the number of workers and the order in which they take and     *)
(* finish their files, an undisturbed run exits with the code, and leaves  *)
(* the tree, of planning its inputs one after the other.                   *)
THEOREM ScheduleNeverShows == Spec => []ScheduleIndependent
<1>1. Init => StagedInv /\ QuietInv
  BY DEF Init, StagedInv, Todo, QuietInv, StartInv, JudgedInv, PreflightInv, DecidedInv, OutcomeInv
<1>2. RInv /\ ExitInv /\ StagedInv /\ QuietInv /\ [Next]_vars => StagedInv' /\ QuietInv'
  BY StagedKept, QuietKept
<1>3. ASSUME TypeOK, QuietInv, phase = "done", code # Killed, ~ disturbed
      PROVE  code = SequentialExit /\ worktree = SequentialTree
  <2>1. StartInv /\ Verdict(code) /\ written = Applied
    BY <1>3 DEF QuietInv, Quiet, OutcomeInv
  <2>2. ASSUME NEW f \in Rejected, First(f, Rejected)
        PROVE  (CHOOSE g \in Rejected : First(g, Rejected)) = f
    <3>1. \A g \in Rejected : First(g, Rejected) => g = f
      BY <1>3, <2>2, FileAssumption DEF First, Rejected, TypeOK
    <3>2. \E g \in Rejected : First(g, Rejected)
      BY <2>2
    <3>3. /\ (CHOOSE g \in Rejected : First(g, Rejected)) \in Rejected
          /\ First(CHOOSE g \in Rejected : First(g, Rejected), Rejected)
      BY <3>2, Zenon
    <3>4. QED
      BY <3>1, <3>3
  <2>3. code = SequentialExit
    <3> DEFINE first == CHOOSE g \in Rejected : First(g, Rejected)
    <3>1. /\ Refused => SequentialExit = FileFault
          /\ ~ Refused /\ Rejected # {} => SequentialExit = SequentialCode(first)
          /\ ~ Refused /\ Rejected = {} /\ Harmful => SequentialExit = SourceFault
          /\ ~ Refused /\ Rejected = {} /\ ~ Harmful /\ mode = "fmt" =>
               SequentialExit = IF Rewritten \cap Link = {} THEN Success ELSE FileFault
          /\ ~ Refused /\ Rejected = {} /\ ~ Harmful /\ mode # "fmt" =>
               SequentialExit = IF Rewritten = {} THEN Success ELSE WouldChange
      BY DEF SequentialExit, Harmful
    <3>2. \A f \in Rejected : First(f, Rejected) => first = f
      BY <2>2
    <3> HIDE DEF first
    <3>3. QED
      BY <2>1, <3>1, <3>2 DEF Verdict
  <2>4. Applied \subseteq File /\ worktree = [f \in File |-> IF f \in Applied THEN Formatted(start[f]) ELSE start[f]]
    BY <1>3, <2>1 DEF TypeOK, StartInv
  <2>5. worktree = SequentialTree
    BY <2>4 DEF SequentialTree, Applied, Harmful
  <2>6. QED
    BY <2>3, <2>5
<1>4. RInv /\ QuietInv => ScheduleIndependent
  BY <1>3 DEF ScheduleIndependent, RInv, IInv
<1>5. QED
  BY <1>1, <1>2, <1>4, ReplacementInvariant, ExitInvariant, PTL DEF Spec
=============================================================================
