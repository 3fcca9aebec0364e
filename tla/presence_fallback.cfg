\* One connection of a pushing server that falls silent.
SPECIFICATION MuteSpec
CONSTANTS
  c1 = c1
  c2 = c2
  Conns = {c1}
  NoConn = NoConn
  Modes = {"push"}
  Throttle = 1
  Threshold = 1
  Tolerance = 2
  FallbackAfter = 1
  FailLimit = 1
  StaleAfter = 1
  Delay = 1
  MaxRestarts = 0
PROPERTIES
  FallbackIsPulled
CHECK_DEADLOCK FALSE
