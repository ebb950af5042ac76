SPECIFICATION FairSpec
CONSTANTS
  Ids = {d1, d2}
  Prints = {f1}
  Users = {u1, u2}
  Groups = {g1}
  Reqs = {r1, r2, r3}
  Mixes = {{"challenge", "pair", "revoke"}, {"register", "admin"}, {"rotate", "admin", "revoke"}}
  Preset = {d1}
  MaxTokens = 4
  MaxCodes = 3
  Nil = Nil
INVARIANTS PairingInv
PROPERTIES RequestsAnswered
CHECK_DEADLOCK FALSE
