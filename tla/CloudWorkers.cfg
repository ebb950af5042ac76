SPECIFICATION PartSpec
CONSTANTS
  Events = {e1, e2}
  Workers = {w1, w2}
  BatchSize = 2
  MaxAttempts = 2
  MaxExpiries = 1
  MaxCrashes = 1
  Tokens <- MCTokens
  Keys = {k1, k2}
  Inputs = {i1, i2}
  Reqs = {r1, r2}
  CredTtl = 2
  BodyTimeout = 1
  ExecTimeout = 1
  CacheTtl = 2
  MaxEntries = 1
  MaxClock = 3
  None = None
INVARIANTS OutboxInv RunInv
PROPERTIES RowsStayOwned OutboxSettles RequestsServed
CHECK_DEADLOCK FALSE
