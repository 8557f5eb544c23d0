SPECIFICATION Spec
CONSTANTS
  Cidr <- MCCidr
  Canonical <- MCCanonical
  V4 <- MCV4
  LowerCase <- MCLowerCase
  Netmask <- MCNetmask
  U32Max = 70000
  Directory <- MCDirectory
  Hidden <- MCHidden
  MinPriority <- MCMinPriority
  MaxPriority = 1000
  Inventories <- MCInventories
  Handwritten <- MCHandwritten
  Edits <- MCEdits
  Extensions <- MCExtensions
  QueryFile = "query"
  MaxDepth = 5
  MaxChanges = 2
  MaxExtensions = 1
  MaxLoads = 2
CHECK_DEADLOCK FALSE
INVARIANTS
  TypeOK
  QuerySurvivesTheFile
  UneditedQueryApplies
  PreparedSelectsItsDevice
  NothingDroppedSilently
  PreparedIsFinal
  SavedPoliciesAreStable
  EveryDocumentIsOnePolicy
  LoadedPoliciesProduce
  NothingLostInProduction
  ExecutorAgreesWithTheSchema
PROPERTIES
  ExtensionsOnlyAdd
