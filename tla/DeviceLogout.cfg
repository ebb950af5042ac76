SPECIFICATION Spec
CONSTANTS
  Ids = {d1}
  Prints = {f1}
  Users = {u1}
  Groups = {g1}
  Reqs = {r1, r2}
  Mixes = {{"challenge", "revoke"}}
  Preset = {d1}
  MaxTokens = 1
  MaxCodes = 1
  Nil = Nil
INVARIANTS LogoutIsFinal
CHECK_DEADLOCK FALSE
