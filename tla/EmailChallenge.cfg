SPECIFICATION Spec
CHECK_DEADLOCK FALSE
CONSTANTS
  Requests = {r1, r2}
  MaxChallenges = 2
  MaxClock = 4
  Ttl = 3
  MaxAttempts = 1
  MinInterval = 1
  MaxSends = 2
  Retention = 3
SYMMETRY RequestSymmetry
INVARIANTS VerifiedByLatestCode EvidenceAccounted SendsLimitedBetweenCleanups
