CONSTANTS
    Path <- Paths
    Content <- Contents
    Directory = "dir"
    Worker = {w1, w2}
    Run = {r1, r2}
    FileRequest <- Requests
    None = "none"
    MaxRevision = 3
    MaxFaults = 1
    Attempt = {a1, a2}
    Callback = {c1, c2}
    MaxSessions = 2
    Sources <- Bytes
    chunkBytes = 2
    indexFanout = 2
    StartTree <- OneFile
    Workloads <- AllWorkloads
SPECIFICATION Spec
CHECK_DEADLOCK FALSE
INVARIANTS OneSessionPerAttempt BlobReadsBack 
PROPERTIES EditsBuildOnLatest QueuedReleaseCompletes
