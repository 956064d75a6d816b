CONSTANTS
    Space = {1, 2}
    Node <- Nodes
    Legacy <- LegacyNodes
    Null = Null
    MaxNodes = 1
    MaxSpaces = 1
    MaxWrites = 4
    Req = {q1, q2, q3}
    Guard = {"fence", "refs"}
    Fence = "fence"
    MaxJobs = 2
    MaxFailures = 2
    Isolate = {i1, i2}
    Entrance = {e1, e2}
    Visit <- Visits
    Statements = 2
    IssuerStatement = 2
    MaxTroubles = 2
    Workloads <- AllWorkloads
SPECIFICATION Spec
CHECK_DEADLOCK FALSE
INVARIANTS SummaryExact SweepVisitsSteady CutoverSafe WorksOnWholeSchema
PROPERTIES UsageSettled
