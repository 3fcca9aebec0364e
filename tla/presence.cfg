\* Two connections of one server, in either mode.
SPECIFICATION FairSpec
CONSTANTS
  c1 = c1
  c2 = c2
  Conns = {c1, c2}
  NoConn = NoConn
  Modes = {"push", "pull"}
  Throttle = 1
  Threshold = 1
  Tolerance = 2
  FallbackAfter = 1
  FailLimit = 1
  StaleAfter = 1
  Delay = 1
  MaxRestarts = 1
INVARIANTS
  TypeOK
  FlaggedWasChosen
  EntryHasHandler
PROPERTIES
  ChosenOnlyAfterSilence
  DeadServerIsTold
  ReportingServerShows
CHECK_DEADLOCK FALSE
