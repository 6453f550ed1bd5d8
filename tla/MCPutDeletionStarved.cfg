SPECIFICATION FairSpec
CONSTANTS
  Intents = {i, j}
  Clients = {c}
  Runs = {r}
  NoOne = NoOne
  Grace = 1
  Claim = 1
  Delay = 1
  Limit = 1
  Lifetimes = {1}
  MaxTime = 3
  MaxDriver = 1
  MaxFence = 0
PROPERTY AbandonedGetsTask
