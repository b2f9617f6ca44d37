SPECIFICATION Spec
CONSTANT Inputs <- HeldInputs
CHECK_DEADLOCK FALSE
INVARIANTS
  FixableIsFixed
