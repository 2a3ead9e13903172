SPECIFICATION FairSpec
CONSTANTS
    Jobs = {u1}
    Slots = {s1}
    MaxAttempts = 2
    NoJob = NoJob
    NoSlot = NoSlot
    Contents = {a}
    NoContent = NoContent
    Multipart = {u1}
    Cleaners = {c1}
    NoCleaner = NoCleaner
    MaxCleanups = 2
    Requests = {r1}
    Deletions = {u1}
    ProcessOf <- OwnProcess
    MaxFaults = 2
    BatchSize = 1
    MaxStorageFaults = 1
PROPERTIES EveryUploadDecided DeletionHonoured
CHECK_DEADLOCK FALSE
