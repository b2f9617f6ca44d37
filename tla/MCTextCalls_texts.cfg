SPECIFICATION Spec
CONSTANT Calls <- MCCalls
CHECK_DEADLOCK FALSE
INVARIANTS
  CoordinatesAgree
  DocumentIsCut
  TrimmingSettles
  StructureAgrees
  SpellingsOnly
