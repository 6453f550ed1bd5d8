SPECIFICATION Spec
CONSTANTS
  Intents = {i}
  Clients = {c}
  Runs = {r}
  NoOne = NoOne
  Grace = 1
  Claim = 1
  Delay = 1
  Limit = 1
  Lifetimes = {1}
  MaxTime = 3
  MaxDriver = 1
  MaxFence = 3
INVARIANT ServerKeepsClaim
