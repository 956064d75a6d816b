SPECIFICATION FairSpec
CONSTANTS
    p = p
    c = c
    Hash = {c}
    Refs <- LeafRefs
    Rank <- LeafRank
    LeaseDurations = {1}
    UploadSession = 1
    UploadCleanup = 1
    MaxActiveUploads = 2
    GcLimit = 2
    RootChanges <- LeafRoots
    MaxRootCount = 1
    Contents = {"good"}
    MaxAttempts = 2
    DetachedRootRefs = FALSE
    MaxGen = 1
    MaxTime = 3
    MaxQueue = 1
    MaxFaults = 2
PROPERTIES LeaseServed GarbageReclaimed StuckUploadRecovers
