\* The reporter's loop and the recovery loop.
SPECIFICATION FairSpec
CONSTANTS
  reporter = reporter
  recovery = recovery
  Workers = {reporter, recovery}
  MaxPushes = 4
  MaxFaults = 1
  W = 2
CONSTRAINT SettingMatters
INVARIANTS
  OkIsHandled
  LonePushHeals
  SealedWithCachedOpens
PROPERTIES
  ImplementsAtMostOnce
  PushesEnd
CHECK_DEADLOCK FALSE
