SPECIFICATION Spec
CONSTANTS
  Node <- MCNode
  Trees <- MCTrees
  Ignored <- MCIgnored
  Supported <- MCSupported
  Volatile <- MCVolatile
  MaxChanges = 1
  Worker = {"w1", "w2"}
  Requests <- MCRequests
CHECK_DEADLOCK FALSE
INVARIANTS
  SelectionComplete
  CandidatesJudged
PROPERTY
  SelectionEnds
