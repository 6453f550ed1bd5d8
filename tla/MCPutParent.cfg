SPECIFICATION FairSpec
CONSTANTS
  a = a
  x = x
  Dirs = {r}
  Root = r
  Seeds = {}
  SeedName <- NoSeeds
  Names = {x}
  Intents = {i1}
  Keys = {k1}
  Commits = {c1}
  Workers = {w1}
  None = None
  MaxAttempts = 1
  MaxDepth = 3
PROPERTY ChainFencesPuts
CHECK_DEADLOCK FALSE
