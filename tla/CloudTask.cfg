SPECIFICATION PartSpec
CONSTANTS
  r1 = r1
  r2 = r2
  Reqs = {r1, r2}
  Cancels = {c1}
  MaxTasks = 2
  Budgets <- MCBudgets
  Prints <- MCPrints
  AdmissionGates <- MCGates
  WorkerGates <- MCGates
  StreamProcess <- MCProcess
INVARIANTS TaskInv LogInv
PROPERTIES DecisionsStand TasksEnd OutcomeIsTold
CHECK_DEADLOCK FALSE
