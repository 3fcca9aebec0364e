\* Two calls at once, one of them with a body.
SPECIFICATION FairSpec
CONSTANTS
  c1 = c1
  c2 = c2
  Calls = {c1, c2}
  WithBody = {c1}
  Candidates = 2
  MayUseRPC = {c2}
  MaxExpiries = 1
  W = 4
INVARIANTS
  TypeOK
  TwiceOnlyIfUnread
  AnswersToBodiesOpen
PROPERTIES
  EveryCallEnds
CHECK_DEADLOCK FALSE
