SPECIFICATION RateLimitSpec
CONSTANTS
  r1 = r1
  r2 = r2
  r3 = r3
  r4 = r4
  alice = alice
  bob = bob
  Requests = {r1, r2, r3, r4}
  Client <- MCClient
  Limit = 1
  Second = 2
  Window = 4
  MaxTime = 5
SYMMETRY Alike
INVARIANTS RateLimitTypeOK BurstBounded OnlyBurstsAreLimited
PROPERTIES RetryAfterTells
CHECK_DEADLOCK FALSE
