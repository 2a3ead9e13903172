SPECIFICATION Spec
CONSTANTS
    a1 = a1
    o1 = o1
    Admins = {a1, a2}
    Origins = {o1, o2}
    NoOrigins = NoOrigins
    CommandLines <- SomeCommandLines
    Buckets <- TwoBuckets
    Foreign = {f1}
    MaxRules = 2
    Editors = {f1}
    MaxOutages = 1
    MaxErrors = 3
    Inputs <- SomeInputs
    Credentials = {k1, k2}
    LiveCredentials = {k1}
    Forces = {FALSE, TRUE}
    None = None
    MaxChanges = 1
    MaxFaults = 1
    Versions = {r1, r2}
    Payload <- TwoFiles
    Units = {"g7mb-api", "g7mb-worker"}
    MaxDeaths = 1
    MaxCrashes = 1
    MaxUnpacks = 1
    Runs = {1, 2, 3, 4}
    Retain = 2
    MaxWrites = 1
    WorkerSlots = {1, 2, 3}
    Policies <- SomePolicies
    Sizes = {1, 3}
    Watermark = 2
    Unit = 2
    Defaults <- Working
    Values <- Edges
    MaxEdits = 2
    Word = 63
    DiskCap = 40
    WatermarkBytes = 1
    MinPart = 2
INVARIANTS
    OneManagedRule  PassIsWhole  RestorableKept
    DiskWithinLimit AcceptedStarts
PROPERTIES
      NobodyWaitsForever RepeatConverges
CHECK_DEADLOCK FALSE
