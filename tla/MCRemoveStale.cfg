SPECIFICATION Spec
CONSTANTS
  a = a
  x = x
  Dirs = {r}
  Root = r
  Seeds = {}
  SeedName <- NoSeeds
  Names = {x}
  Intents = {i1, i2}
  Keys = {k1, k2}
  Commits = {c1}
  Workers = {w1, w2}
  None = None
  MaxAttempts = 1
  MaxDepth = 3
INVARIANT NoOrphanedFile
SYMMETRY Symmetry
CHECK_DEADLOCK FALSE
