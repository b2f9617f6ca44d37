SPECIFICATION Spec
CONSTANT Bodies <- MCBodies
CHECK_DEADLOCK FALSE
INVARIANTS
  SupportedIsFormatted
  UnitPerLine
  TriviaKept
