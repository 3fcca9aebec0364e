\* Two addresses, a channel smaller than what the command prints.
SPECIFICATION FairSpec
CONSTANTS
  Frames = 3
  Buffer = 2
  Candidates = 2
INVARIANTS
  TypeOK
  OutFromOneRun
  OkIsWhole
PROPERTIES
  LeavingEndsTheCall
  SocketPartEnds
CHECK_DEADLOCK FALSE
