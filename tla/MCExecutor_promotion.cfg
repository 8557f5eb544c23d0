SPECIFICATION FairSpec
CONSTANTS
  Link = {"l1"}
  Unmanaged = {}
  Address <- ThreeAddresses
  KernelGroup = {"A", "B", "C"}
  Group <- ThreeGroup
  Lifetime = {"forever", "hour"}
  Finite = {"hour"}
  Setting = {"low", "high"}
  Plans <- MixedPlans
  Lists <- MixedLists
  MaxMeddling = 0
  MaxFaults = 0
PROPERTIES
  QuietWritesVerify
