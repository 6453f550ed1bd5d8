SPECIFICATION Spec
CONSTANTS
  Clients = {c1}
  Runs = {r1}
  Contents = {"v1"}
  InitialContent = "v1"
  PartCount = 2
  Batch = 1
  Kinds = {"put", "r2", "s3", "aliyun", "local"}
  MaxAttempts = 2
  MaxEdits = 0
  MaxFaults = 0
INVARIANT ReplayIsServed
CHECK_DEADLOCK FALSE
