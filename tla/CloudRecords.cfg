SPECIFICATION PartSpec
CONSTANTS
  Orders = {o1, o2}
  Keys = {k1, k2}
  Hashes = {h1}
  Stores = {"memory", "postgres"}
  MaxBalance = 1
  MaxAdjusts = 1
  Uploaders = {"u1", "u2"}
  Versions = {1, 2}
  Channels = {"stable", "beta"}
  MaxSeq = 3
  RlFaults = 1
  AdapterVersions = {1, 2}
  Contents = {"c1", "c2"}
  ManagerVersions = {1, 2}
  Hosts = {"h1", "h2"}
  MaxDepth = 8
  Legacy = TRUE
  MaxPackages = 1
  AdEvents = 1
  Tasks = {t1, t2, t3}
  Subs = {"s1"}
  Devices = {"d1", "d2"}
  Skills = {"k1"}
  Limits <- MCLimits
  SubStart = 0
  SubEnd = 4
  LeaseTtl = 2
  Minute = 2
  MaxClock = 4
  NoRow = NoRow
  MaxPolicies = 2
  Validity = 2
  Interval = 2
  MaxTime = 2
  MaxRevision = 3
  PolicyFaults = 1
INVARIANTS SettlementSafe WalletMatchesOrders PublishingInv PolicyInv ServiceInv
PROPERTIES LimitsHoldAndRefine OfferAdvances
CHECK_DEADLOCK FALSE
