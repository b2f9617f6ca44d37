SPECIFICATION Spec
CONSTANTS
  Line <- SqlLine
  OffLine = {"off"}
  OnLine = {"on"}
  IgnoreLine = {"ignore"}
  BlankLine <- Gap
  Options = {"skip"}
  FormatRegion <- FormatSql
  Documents <- RespelledDocuments
CHECK_DEADLOCK FALSE
INVARIANTS
  OutputSkipsReported
