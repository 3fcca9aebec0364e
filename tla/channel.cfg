SPECIFICATION Spec
CONSTANTS
  W = 3
  MaxSend = 6
INVARIANTS
  TypeOK
  WindowIsExact
  RefusedOnlyIfOldOrSpoiled
PROPERTY ImplementsAtMostOnce
CHECK_DEADLOCK FALSE
