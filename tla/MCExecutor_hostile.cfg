SPECIFICATION FairSpec
CONSTANTS
  Link = {"l1"}
  Unmanaged = {}
  Address <- MCAddress
  Group <- MCGroup
  KernelGroup = {"A", "B", "C"}
  Lifetime = {"forever", "hour"}
  Finite = {"hour"}
  Setting = {"low", "high"}
  Plans <- HostilePlans
  Lists <- PeerLists
  MaxMeddling = 1
  MaxFaults = 1
INVARIANTS
  TypeOK
  NoCollateralLoss
  ErrorsBeforeTheWrite
PROPERTIES
  DestroysOnlyAKnownGroup
  ImplementsPromise
  EveryOperationReported
