SPECIFICATION Spec
CONSTANT CheckedParts = {"digest"}
CHECK_DEADLOCK FALSE
INVARIANTS Sha1IsComputed
