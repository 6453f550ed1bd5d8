SPECIFICATION Spec
CONSTANTS
  a = a
  x = x
  Dirs = {r, a, b}
  Root = r
  Seeds = {a}
  SeedName <- SeedA
  Names = {x, y}
  Intents = {i1}
  Keys = {k1, k2}
  Commits = {c1, c2}
  Workers = {w1, w2}
  None = None
  MaxAttempts = 2
  MaxDepth = 2
INVARIANTS
  NoDanglingEntries
  ReceiptsAreHistory
  PublishedAsEvidenced
PROPERTY AuthorityFence
SYMMETRY Symmetry
CHECK_DEADLOCK FALSE
