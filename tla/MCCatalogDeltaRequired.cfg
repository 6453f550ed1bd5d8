SPECIFICATION ClientSpec
CONSTANTS
  Root = "root"
  None = None
  Trees <- SmallTrees
  FirstTree <- First
  MaxRevision = 2
  Syncs = {p1, p2}
  Source <- SourcePath
  Shards = 2
  MaxFaults = 1
SYMMETRY Symmetry
INVARIANT DeltaNeverRequired
