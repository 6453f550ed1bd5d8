SPECIFICATION FairSpec
CONSTANTS
  a = a
  x = x
  Dirs = {r, a}
  Root = r
  Seeds = {a}
  SeedName <- SeedA
  Names = {x}
  Intents = {i1}
  Keys = {k1}
  Commits = {c1, c2}
  Workers = {w1, w2}
  None = None
  MaxAttempts = 2
  MaxDepth = 3
PROPERTY RequestsTerminate
CHECK_DEADLOCK FALSE
