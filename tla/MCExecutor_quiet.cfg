SPECIFICATION Spec
CONSTANTS
  Link = {"l1", "w1"}
  Unmanaged = {"w1"}
  Address <- MCAddress
  Group <- MCGroup
  KernelGroup = {"A", "B", "C"}
  Lifetime = {"forever", "hour"}
  Finite = {"hour"}
  Setting = {"low", "high"}
  Plans <- QuietPlans
  Lists <- PlainLists
  MaxMeddling = 0
  MaxFaults = 0
INVARIANTS
  SuccessReachesThePlan
  NothingWrittenLater
PROPERTIES
  QuietWritesVerify
