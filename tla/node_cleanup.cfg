SPECIFICATION Spec
CONSTANTS
    Jobs = {u1}
    Slots = {s1}
    MaxAttempts = 2
    NoJob = NoJob
    NoSlot = NoSlot
    Contents = {a}
    NoContent = NoContent
    Multipart = {}
    Cleaners = {c1, c2}
    NoCleaner = NoCleaner
    MaxCleanups = 2
    Requests = {r1}
    Deletions = {u1}
    ProcessOf <- OwnProcess
    MaxFaults = 2
    BatchSize = 1
    MaxStorageFaults = 1
SYMMETRY CleanerSymmetry
INVARIANTS TypeOK ReadyIsServable
PROPERTIES ImplementsLifecycle
CHECK_DEADLOCK FALSE
