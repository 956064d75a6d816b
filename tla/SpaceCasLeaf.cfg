SPECIFICATION Spec
CONSTANTS
    p = p
    c = c
    Hash = {c}
    Refs <- LeafRefs
    Rank <- LeafRank
    LeaseDurations = {1, 2}
    UploadSession = 2
    UploadCleanup = 1
    MaxActiveUploads = 2
    GcLimit = 2
    RootChanges <- LeafRoots
    MaxRootCount = 1
    Contents = {"good", "bad"}
    MaxAttempts = 2
    DetachedRootRefs = TRUE
    MaxGen = 2
    MaxTime = 4
    MaxQueue = 1
    MaxFaults = 1
INVARIANTS ContentHolds UploadsAccounted
PROPERTIES GrantedIsKept
