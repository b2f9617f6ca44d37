SPECIFICATION Spec
CONSTANTS
  File = {1, 2, 3}
  Content <- MCContent
  Pass <- MCPass
  Lang <- MixedLang
  Enabled = {"go"}
  Absent = Absent
  Torn = Torn
  NotStaged = NotStaged
  NoText = NoText
  Utf8 <- MCUtf8
  Link = {2}
  Arguments = {{}, {1, 2}, {2, 3}}
  Base <- OneKnown
  Jobs = 2
  Modes = {"fmt", "check"}
  Selections = {"paths", "staged", "changed"}
  Initial = {"raw", "neat", "faulty", "broken", "churn", "binary", Absent}
  InitialStaged = {"raw", "faulty", NotStaged}
  Saves = {}
  MaxEdits = 0
  MaxFaults = 1
  MaxCrashes = 0
  MaxRuns = 1
CHECK_DEADLOCK FALSE
INVARIANTS
  ScheduleIndependent
  CleanExitIsStable
  StagedTextFormatted
