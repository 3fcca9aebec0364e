SPECIFICATION FairSpec
CONSTANTS
  Inbounds = {i1}
  Routed = {n1}
  Tasks = {"enforcer", "status", "assign", "unassign", "reconciler"}
  HandlersOverlap = FALSE
  MaxCrashes = 1
INVARIANTS
  TypeOK
  EveryClientHasItsRow
  NoPackageNoAccess
PROPERTIES
  CutOffRecordedOnlyWhenOut
  LiftedOnlyWhenWhole
  DisabledEventuallyOut
  CrossingEventuallyCutOff
  UnderLimitEventuallyRestored
  ExpiryEventuallyTakesEffect
