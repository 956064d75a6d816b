SPECIFICATION Spec
CONSTANTS
  Account = {"a1", "a2"}
  Login = {"g1", "h1", "h2"}
  Identity = {"i1", "i2", "i3"}
  None = None
  MaxVersion = 3
  ProviderOf <- ByName
  Evidence <- SomeEvidence
  AppInvitation = {"app"}
  PlatformInvitation = {"platform"}
  Request = {r1, r2}
  MaxSession = 5
  SessionTtl = 2
  CodeTtl = 1
  FlowTtl = 1
  MaxClock = 3
  Start <- LinkedAtStart
  Workloads <- SomeWorkloads
  Grant = {"grant1", "grant2"}
  AskedScopes <- ReadOrAll
  AccessTtl = 1
  RefreshTtl = 1
  MutationsEnabled = TRUE
SYMMETRY Symmetry
CHECK_DEADLOCK FALSE
INVARIANTS AccountKeepsLogin  OneGrantPerConsent
