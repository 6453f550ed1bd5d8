SPECIFICATION Spec
CONSTANTS
  Locations = {x, y}
  Reads = {d1}
  Runs = {r1}
  None = None
  Retention = 1
  Grace = 1
  Claim = 1
  Delay = 1
  Limit = 1
  MaxTime = 3
  MaxDriver = 2
INVARIANTS LiveReadsKeepObject GraceKept
