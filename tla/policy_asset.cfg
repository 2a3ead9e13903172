SPECIFICATION Spec
CONSTANTS
    Assets = {a1}
    None = None
    Callers = {c1}
    Jobs = {j1}
    MaxRevision = 1
INVARIANTS ReferencedNeverDeleted
CHECK_DEADLOCK FALSE
