SPECIFICATION FairSpec
CONSTANTS
  Reqs = {r1, r2, r3}
  Fallbacks = {r1}
  MaxRetries = 1
  Threshold = 1
  Cooldown = 1
  Window = 1
  Rate = 2
  Slots = 1
  Tokens = 1
  MaxClock = 1
  Faults = 1
  Nil = Nil
INVARIANTS GatewayInv
PROPERTIES RequestsEnd
CHECK_DEADLOCK FALSE
