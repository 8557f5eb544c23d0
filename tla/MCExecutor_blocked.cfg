SPECIFICATION Spec
CONSTANTS
  Link = {"l1"}
  Unmanaged = {}
  Address <- MCAddress
  KernelGroup = {"A", "B", "C"}
  Group <- MCGroup
  Lifetime = {"forever", "hour"}
  Finite = {"hour"}
  Setting = {"low", "high"}
  Plans <- HostilePlans
  Lists <- PeerLists
  MaxMeddling = 0
  MaxFaults = 1
INVARIANTS
  BlockedRemovalAuthorisesNothing
