SPECIFICATION PartSpec
CONSTANTS
  Procs = {p1, p2}
  Requests = {r1, r2}
  MaxVersion = 3
  Budgets <- MCBudgets
  Versions = {1, 2, 3}
  MaxAttempts = 3
  Faults = 2
  PackVersions = {1, 2, 3}
  Runnable = {1, 2}
  Calls = 3
  PackFaults = 2
  MaxRestarts = 1
  Exits = 2
  Resumes = 2
INVARIANTS UpdateInv ClientUpdateInv PacksInv SupervisorInv
PROPERTIES ConclusionsAreEarned InstalledConcludes UpdateSettles RefinesSlot RevokedIsHidden PageRecovers
CHECK_DEADLOCK FALSE
