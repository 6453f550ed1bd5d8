SPECIFICATION Spec
CONSTANTS
  Clients = {c1, c2}
  Runs = {r1, r2}
  Contents = {"v1", "v2"}
  InitialContent = "v1"
  PartCount = 2
  Batch = 1
  Kinds = {"put", "r2", "s3", "aliyun", "local"}
  MaxAttempts = 2
  MaxEdits = 1
  MaxFaults = 1
INVARIANTS EvidenceExact CleanedReclaims
PROPERTY GrantedSettles
CHECK_DEADLOCK FALSE
