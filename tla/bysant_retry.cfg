SPECIFICATION Spec
CONSTANT CheckedParts = {"bysant"}
CHECK_DEADLOCK FALSE
INVARIANTS RetriedIsAccepted
