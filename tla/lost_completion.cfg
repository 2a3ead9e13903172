SPECIFICATION Spec
CONSTANTS
    Jobs = {u1}
    Slots = {s1}
    MaxAttempts = 2
    NoJob = NoJob
    NoSlot = NoSlot
    Contents = {a}
    NoContent = NoContent
    Multipart = {u1}
    Cleaners = {c1}
    NoCleaner = NoCleaner
    MaxCleanups = 2
    Requests = {r1}
    Deletions = {}
    ProcessOf <- OwnProcess
    MaxFaults = 0
    BatchSize = 1
    MaxStorageFaults = 0
INVARIANTS CompletionRetriable
CHECK_DEADLOCK FALSE
