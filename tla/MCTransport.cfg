SPECIFICATION Spec
CONSTANTS
  Index = {i1}
  Name = {eth0, eth1}
  MaxIncarnation = 3
  MaxGeneration = 3
  MaxOverrun = 1
INVARIANTS
  IInv
  TypeOK
  TokenNamesOneIncarnation
  RecordMatchesTarget
  MisdirectedWriteIsNoticed
PROPERTIES
  ObservationIsCoherent
  WriteFollowsConfirmation
