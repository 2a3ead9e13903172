SPECIFICATION Spec
CONSTANTS Timeout = 5
INVARIANTS NoProcessLeft
CHECK_DEADLOCK FALSE
