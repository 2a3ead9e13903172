SPECIFICATION Spec
CONSTANTS
    Jobs = {u1, u2}
    Slots = {s1, s2}
    MaxAttempts = 2
    NoJob = NoJob
    NoSlot = NoSlot
    Contents = {a, b}
    NoContent = NoContent
    Multipart = {u2}
    Cleaners = {}
    NoCleaner = NoCleaner
    MaxCleanups = 1
    Requests = {r1}
    Deletions = {}
    ProcessOf <- OneProcess
    MaxFaults = 1
    BatchSize = 1
    MaxStorageFaults = 0
SYMMETRY Symmetry
INVARIANTS JobsMatchUploads OneSourcePublished
CHECK_DEADLOCK FALSE
