SPECIFICATION Spec
CONSTANTS
  Inbounds = {i1}
  Routed = {}
  Tasks = {"enforcer", "status", "reconciler"}
  HandlersOverlap = FALSE
  MaxCrashes = 0
INVARIANT DisabledStaysOut
