SPECIFICATION FairSpec
CONSTANTS
  File = {1, 2}
  Content <- MCContent
  Pass <- MCPass
  Lang <- AllSql
  Enabled = {"go"}
  Absent = Absent
  Torn = Torn
  NotStaged = NotStaged
  NoText = NoText
  Utf8 <- MCUtf8
  Link = {}
  Arguments = {{}}
  Base <- NewFiles
  Jobs = 2
  Modes = {"fmt"}
  Selections = {"paths", "staged"}
  Initial = {"raw", "churn"}
  InitialStaged = {"raw", NotStaged}
  Saves = {"raw", "faulty", Absent}
  MaxEdits = 2
  MaxFaults = 1
  MaxCrashes = 1
  MaxRuns = 2
CHECK_DEADLOCK FALSE
INVARIANTS
  TypeOK
  AuthoredOrFormatted
  PreflightComplete
  AccessKept
  RecoveryConverges
  InterruptedPrefix
PROPERTIES
  OnlyLateSavesLost
  ContractKept
  EveryRunEnds
