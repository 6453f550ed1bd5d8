SPECIFICATION Spec
CONSTANTS
  a = a
  x = x
  Dirs = {r, a}
  Root = r
  Seeds = {a}
  SeedName <- SeedA
  Names = {x}
  Intents = {i1, i2, i3}
  Keys = {k1}
  Commits = {c1}
  Workers = {w1, w2}
  None = None
  MaxAttempts = 2
  MaxDepth = 3
INVARIANTS
  TypeOK
  MerkleConsistent
  NeverCorrupt
  NoLostUpdate
PROPERTY SettledIntentsStay
SYMMETRY Symmetry
CHECK_DEADLOCK FALSE
