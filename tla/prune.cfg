SPECIFICATION FairInventorySpec
CONSTANTS
    Jobs = {u1}
    Slots = {s1}
    MaxAttempts = 2
    NoJob = NoJob
    NoSlot = NoSlot
    Contents = {a}
    NoContent = NoContent
    Multipart = {}
    Cleaners = {}
    NoCleaner = NoCleaner
    MaxCleanups = 1
    Requests = {r1}
    Deletions = {}
    ProcessOf <- OwnProcess
    MaxFaults = 1
    BatchSize = 1
    MaxStorageFaults = 0
    Scanners = {i1}
    Modes = {TRUE}
    PageSize = 1
    MaxPages = 2
    RawRank <- RawOrder
    MediaRank <- MediaOrder
    MaxScanFaults = 1
    GraceOutlastsJobs = TRUE
 
PROPERTIES  OrphansDeleted
CHECK_DEADLOCK FALSE
