SPECIFICATION SyncSpec
CONSTANTS
  Paths = {"x", "y"}
  Versions = {"v1", "v2"}
  Encrypted = {"v1"}
  Absent = "absent"
  Foreign = "foreign"
  Nil = Nil
  Syncs = {s1, s2}
  Destinations = {d1, d2}
  Trees <- SmallTrees
  FirstTree <- Pair
  MaxRevision = 2
  MaxStarts = 3
  MaxFaults = 1
SYMMETRY Symmetry
INVARIANTS SyncedExactly
PROPERTIES OnlySourceContent
CHECK_DEADLOCK FALSE
