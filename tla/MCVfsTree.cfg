SPECIFICATION MCSpec
CONSTANTS
  A = A
  B = B
  C = C
  R = R
  r1 = r1
  r2 = r2
  r3 = r3
  p1 = p1
  p2 = p2
  x1 = x1
  d1 = d1
  d2 = d2
  s1 = s1
  Nowhere = Nowhere
  Root = R
  Dirs = {R, A, B, C}
  Born = {A, B}
  Names = {1, 2}
  Named <- MCNamed
  Drivers = {d1, d2}
  Home = d1
  Subjects = {s1}
  Mutators = {r1, r2, r3}
  Policies = {p1, p2}
  Readers = {x1}
  Attempts = 2
  MaxDepth = 3
INVARIANTS
  TreeShape
  DriversAgree
  ReplacesWhatWasListed
  ReadIsSnapshot
CHECK_DEADLOCK FALSE
