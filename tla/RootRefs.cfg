SPECIFICATION Spec
CONSTANTS
    a = a
    b = b
    Hash = {a, b}
    Worker = {w1, w2}
    Space = {s1, s2}
    RequestId = {r1, r2}
    Payloads <- TakeOrMove
    MaxCount = 2
    MaxAttempts = 2
    GatedSpaces = {s1}
    MaxRevision = 2
INVARIANTS RequestsAccounted
PROPERTIES LedgerSpec
