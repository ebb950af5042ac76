SPECIFICATION Spec
CONSTANTS
  Tasks = {t1, t2}
  Subs = {s1}
  Devices = {d1}
  Skills = {k1}
  Limits <- MCLimits
  SubStart = 0
  SubEnd = 3
  LeaseTtl = 1
  Minute = 2
  MaxClock = 2
  NoRow = NoRow
  Procs = {p1, p2}
  NoProc = NoProc
SYMMETRY MCSymmetry
INVARIANTS AdmissionSafe
PROPERTIES RefinesLedger
CHECK_DEADLOCK FALSE
