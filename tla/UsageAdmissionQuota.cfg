SPECIFICATION Spec
CONSTANTS
  Tasks = {t1, t2}
  Subs = {s1}
  Devices = {d1}
  Skills = {k1}
  Limits <- MCQuotaLimits
  SubStart = 0
  SubEnd = 3
  LeaseTtl = 1
  Minute = 2
  MaxClock = 2
  NoRow = NoRow
  Procs = {p1, p2}
  NoProc = NoProc
INVARIANT CycleQuotaBound
CHECK_DEADLOCK FALSE
