CONSTANTS
  Attempts = {a1, a2}
  SessionLifetime = 3
  ConfigLifetime = 2
  Window = 1
  MaximumFailures = 2
  BlockSeconds = 2
  Retention = 3
  MaxDelay = 1
  MaxNow = 4
  MaxSessions = 2
  MaxFails = 3
  Requests = {h1, h2}
  Keys = {k1, k2}
  Principals <- PrincipalsDef
  Groups <- GroupsDef
  Drivers <- DriversDef
  Tokens <- TokensDef
  Quotas <- QuotasDef
  Bootstrap = "root"
  InitialRows <- InitialRowsDef
  Workloads <- WorkloadsDef
  ValidationLifetime = 1
  PageLimit = 1
  MaxCalls = 3
SYMMETRY Symmetry
SPECIFICATION Spec
INVARIANTS ReceiptsHonest AnsweredByReceipt PagesContinuous
PROPERTIES BlockHolds
CHECK_DEADLOCK FALSE
