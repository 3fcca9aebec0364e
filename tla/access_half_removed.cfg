SPECIFICATION Spec
CONSTANTS
  Inbounds = {i1}
  Routed = {n1}
  Tasks = {"enforcer"}
  HandlersOverlap = FALSE
  MaxCrashes = 0
PROPERTY LiftedOnlyWhenAllIsBack
