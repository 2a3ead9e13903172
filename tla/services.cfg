SPECIFICATION Spec
CONSTANTS
    Tenants = {t1, t2}
    BatchCalls = {c1, c2}
    Ids = {i1, i2, i3}
    Lengths = {1, 2}
    BatchLength = 2
    MaxFiles = 2
    MaxFileBytes = 3
    MaxBatchBytes = 4
    Threshold = 2
    MaxActive = 2
    MaxActiveOf = 2
    MaxBytes = 4
    MaxBytesOf = 3
    MaxProviderFaults = 1
    MaxCuts = 1
    MaxLength = 8
    MinPart = 2
    MaxParts = 4
    PartSizes = {1, 2, 3, 4, 5}
    ByteCap = 8
    MaxTries = 5
    Viewers = {c1, c2}
    UrlTtl = 2
    RequestTimeout = 1
    MaxServingTime = 3
    Timeout = 5
    Tracks <- SomeTracks
    Prefixes = {1, 2}
    Base = 3
    StartCode = 1
    MaxSamples = 2
    MaxSampleBytes = 4
    MaxDecodeBytes = 4
    MaxNals = 2
    MaxErrors = 1
    Edge = 5
    Margin = 1
    Percents = {1, 20, 50}
    MaxEdges = {1, 2, 3}
    Brands = 4
    Thousand = 9
    Kept = 2
    Ten = 3
    MaxSeconds = 3
    Calls = {1, 2, 3}
    Messages = {1, 2}
    MessageOf <- TwoAlike
    Stamps = {2}
    Rate = 1
    Burst = 1
    Second = 2
    MaxInFlight = 1
    Skew = 2
    Deadline = 2
    MaxTime = 4
    Assets = {a1}
    None = None
    Callers = {c1, c2}
    Jobs = {j1}
    MaxRevision = 2
SYMMETRY Symmetry
INVARIANTS
    CapacityKept  TransferExact DeletionEndsDelivery RenderingSound
     SizesSound ReadingsSound LimitsHold 
    AnswersHold PinnedPolicyDrawn
 
CHECK_DEADLOCK FALSE
