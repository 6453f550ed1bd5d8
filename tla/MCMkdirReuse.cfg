SPECIFICATION Spec
CONSTANTS
  a = a
  x = x
  Dirs = {r, a, b}
  Root = r
  Seeds = {a}
  SeedName <- SeedA
  Names = {x, y}
  Intents = {i1}
  Keys = {k1, k2}
  Commits = {c1}
  Workers = {w1, w2}
  None = None
  MaxAttempts = 1
  MaxDepth = 3
INVARIANT CurrentMkdirCommits
SYMMETRY Symmetry
CHECK_DEADLOCK FALSE
