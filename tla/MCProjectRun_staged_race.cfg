SPECIFICATION Spec
CONSTANTS
  File = {1}
  Content <- MCContent
  Pass <- MCPass
  Lang <- AllSql
  Enabled = {"go"}
  Absent = Absent
  Torn = Torn
  NotStaged = NotStaged
  NoText = NoText
  Utf8 <- MCUtf8
  Link = {}
  Arguments = {{}}
  Base <- NewFiles
  Jobs = 1
  Modes = {"fmt"}
  Selections = {"staged"}
  Initial = {"raw", "neat"}
  InitialStaged = {"raw", "neat", NotStaged}
  Saves = {"raw", "churn"}
  MaxEdits = 1
  MaxFaults = 0
  MaxCrashes = 0
  MaxRuns = 1
CHECK_DEADLOCK FALSE
INVARIANT
  StagedTextFormatted
