SPECIFICATION Spec
CONSTANT Inputs <- MCInputs
CHECK_DEADLOCK FALSE
INVARIANTS
  TokenByToken
  DirectivesJudged
  MarkersAnswered
  StrictAllOrNothing
  SecondPassAgrees
