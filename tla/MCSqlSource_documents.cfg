SPECIFICATION Spec
CONSTANTS
  Line <- SqlLine
  OffLine = {"off"}
  OnLine = {"on"}
  IgnoreLine = {"ignore"}
  BlankLine <- Gap
  Options <- Policy
  FormatRegion <- FormatSql
  Documents <- MCDocuments
CHECK_DEADLOCK FALSE
INVARIANTS
  InOrder
  IgnoredKept
  DirectivesJudged
  SecondPassAgrees
  LineByLine
  FindingsOnCause
  StrictAllOrNothing
