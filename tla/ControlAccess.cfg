SPECIFICATION Spec
CONSTANTS
  Account = {1, 2}
  FirstAdmin = 1
  Request = {r1, r2}
  App = {x1, x2}
  Invitation = {i1, i2}
  Key = {k1}
  Field = {displayName, status}
  Value = {v1, v2}
  InitialValue = v1
  None = None
  InvitationTtl = 1
  KeyRetention = 1
  PageSize = 1
  MaxRevision = 2
  MaxClock = 2
  Workloads <- SomeWorkloads
SYMMETRY Symmetry
INVARIANTS AuthorityKept SingleUse ListingIsWhole AuditReplays
PROPERTIES PatchKeepsOtherFields
