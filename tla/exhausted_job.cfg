SPECIFICATION FairSpec
CONSTANTS
    Jobs = {u1}
    Slots = {s1}
    MaxAttempts = 2
    NoJob = NoJob
    NoSlot = NoSlot
    Contents = {a}
    NoContent = NoContent
    Multipart = {}
    Cleaners = {c1}
    NoCleaner = NoCleaner
    MaxCleanups = 2
    Requests = {r1}
    Deletions = {u1}
    ProcessOf <- OwnProcess
    MaxFaults = 1
    BatchSize = 1
    MaxStorageFaults = 0
PROPERTIES ExhaustedJobLeavesQueue
CHECK_DEADLOCK FALSE
