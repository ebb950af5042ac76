SPECIFICATION PartSpec
CONSTANTS
  Calls = {"k1", "k2"}
  BridgeToolCalls = {"t1", "t2"}
  ConfirmIds = 2
  Pushes = 1
  WorkflowSteps = 1
  SkillVersions = {1, 2}
  SkillAgents = {"a", "b"}
  SkillCalls = 4
  SkillFaults = 2
  Requests = {"q1", "q2"}
  RtCalls = 2
  RtEvents = 2
  Savers = {"w1", "w2"}
  Configs = {"c1", "c2"}
  BackupIds = {"b1", "b2", "b3"}
  CfgCalls = 4
  CfgEvents = 2
  Bases = {"b1", "b2"}
  Regs = 2
  CFaults = 2
  Codes = {"c1"}
  Rivals = {"r1"}
  MaxUses = 1
  CodeLife = 2
  Tries = 1
  Window = 1
  Attempts = 2
  Validity = 2
  MaxClock = 3
  Edits = 1
  BFaults = 1
  PluginVersions = {1, 2}
  Devices = {"d1", "d2"}
  CliRuns = 4
  CliFaults = 1
  Callers = {"a1", "a2"}
  ToolSessions = {"s1", "s2"}
  ToolCalls = {"t1"}
  ToolInputs = {"i1", "i2"}
  PlCalls = 3
  PlFaults = 1
  Sessions = {"s1", "s2"}
  Nonces = {"n1", "n2"}
  TrashOps = {"o1", "o2"}
  TrashCalls = 3
  TrashFaults = 1
INVARIANTS CoreInv SkillsInv ManagerInv StartupInv LocalDataInv CloudClientInv
PROPERTIES NothingForeignDestroyed
CHECK_DEADLOCK FALSE
