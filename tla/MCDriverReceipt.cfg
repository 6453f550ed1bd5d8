SPECIFICATION ContendedSpec
CONSTANTS
  o1 = o1
  o2 = o2
  acme = acme
  Imported = acme
  Nobody = Nobody
  First = First
  other = other
  Workers = {w1, w2}
  Ops = {o1, o2}
  Accounts = {acme, other}
  OpAccount <- SameAccount
  ClaimSeconds = 2
  MinLifetime = 0
  Lead = 1
  Lifetime = 2
  RetryDelay = 1
  MaxDelay = 3
  Far = 100
  MaxRenewals = 2
  MaxFaults = 1
  MaxTries = 2
  MaxStates = 1
INVARIANT ReceiptSeals
CHECK_DEADLOCK FALSE
