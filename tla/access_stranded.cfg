SPECIFICATION FairSpec
CONSTANTS
  Inbounds = {i1}
  Routed = {n1}
  Tasks = {"enforcer", "status"}
  HandlersOverlap = FALSE
  MaxCrashes = 0
PROPERTY DisabledEventuallyRemovedEverywhere
