SPECIFICATION FairSpec
CONSTANTS
  Handle = {"h1", "h2"}
  First = "h1"
  Call = {"a", "p", "q"}
  Owner <- MCOwner
  Kind <- MCKind
  Plan <- MCPlan
  Capacity = 1
  NoCall = none
  MayStop = TRUE
  MaxNotifications = 1
  MaxTimeouts = 1
CHECK_DEADLOCK FALSE
INVARIANTS
  TypeOK
  DisconnectedMeansUnwritten
  FailedIsNeverWritten
  AtMostOneWriteAfterDrop
PROPERTIES
  EveryCallReturns
  NamespaceIsReleased
