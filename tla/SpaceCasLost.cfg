SPECIFICATION Spec
CONSTANTS
    p = p
    c = c
    Hash = {c}
    Refs <- LeafRefs
    Rank <- LeafRank
    LeaseDurations = {1}
    UploadSession = 1
    UploadCleanup = 1
    MaxActiveUploads = 2
    GcLimit = 2
    RootChanges <- LeafRoots
    MaxRootCount = 1
    Contents = {"good"}
    MaxAttempts = 2
    DetachedRootRefs = TRUE
    MaxGen = 1
    MaxTime = 2
    MaxQueue = 1
    MaxFaults = 1
INVARIANTS RootLedgerMatches
