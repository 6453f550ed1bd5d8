SPECIFICATION Spec
CONSTANTS
  Locations = {x}
  Reads = {d1}
  Runs = {r1, r2}
  None = None
  Retention = 1
  Grace = 1
  Claim = 1
  Delay = 1
  Limit = 1
  MaxTime = 4
  MaxDriver = 2
SYMMETRY Symmetry
INVARIANTS TypeOK LiveReadsKeepObject DeletedIsGone GraceKept
