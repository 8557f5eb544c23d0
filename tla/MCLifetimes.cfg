SPECIFICATION Spec
CONSTANTS
  Ticks = 2
  Forever = 6
  Requested = {0, 1, 5, 6}
  MaxTime = 8
CHECK_DEADLOCK FALSE
INVARIANTS
  TypeOK
  TimeAloneMatches
  ChangesAreSeen
