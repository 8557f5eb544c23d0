SPECIFICATION Spec
CONSTANTS
  Handle = {"h1", "h2"}
  First = "h1"
  Call = {"a"}
  Owner <- MCOwner
  Kind <- MCKind
  Plan <- MCPlan
  Capacity = 1
  NoCall = none
  MayStop = TRUE
  MaxNotifications = 0
  MaxTimeouts = 0
CHECK_DEADLOCK FALSE
INVARIANTS
  BlockedIsNeverWritten
