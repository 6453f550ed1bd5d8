SPECIFICATION Spec
CONSTANTS
  Root = "root"
  None = None
  Trees <- SmallTrees
  FirstTree <- Plain
  MaxRevision = 2
  Runs = {r1, r2}
  Claim = 1
  Grace = 1
  RetryBase = 1
  RetryCap = 1
  Limit = 1
  MaxFaults = 2
INVARIANT HeadDeliverable
PROPERTIES KeepsPromise Converges
