SPECIFICATION Spec
CONSTANTS
    p = p
    c = c
    Hash = {p, c}
    Refs <- PairRefs
    Rank <- PairRank
    LeaseDurations = {1}
    UploadSession = 1
    UploadCleanup = 1
    MaxActiveUploads = 2
    GcLimit = 2
    RootChanges <- PairRoots
    MaxRootCount = 1
    Contents = {"good"}
    MaxAttempts = 2
    DetachedRootRefs = FALSE
    MaxGen = 1
    MaxTime = 3
    MaxQueue = 1
    MaxFaults = 1
INVARIANTS CountsExact LiveSetReady
