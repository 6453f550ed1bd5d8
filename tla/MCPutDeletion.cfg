SPECIFICATION Spec
CONSTANTS
  Intents = {i}
  Clients = {c, k}
  Runs = {r}
  NoOne = NoOne
  Grace = 1
  Claim = 1
  Delay = 1
  Limit = 1
  Lifetimes = {1}
  MaxTime = 3
  MaxDriver = 2
  MaxFence = 4
SYMMETRY Symmetry
INVARIANTS TypeOK PublishedKept DeletedIsGone ClientFencesAreExclusive
