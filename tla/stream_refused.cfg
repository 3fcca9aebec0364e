\* The agent answers 404 or 409.
SPECIFICATION Spec
CONSTANTS
  Frames = 1
  Buffer = 2
  Candidates = 1
INVARIANTS
  RefusalIsAnError
CHECK_DEADLOCK FALSE
