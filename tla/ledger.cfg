SPECIFICATION Spec
CONSTANTS
  Users = {alice}
  Reports = {r1}
  MaxBytes = 3
  MaxBoots = 2
  MaxResets = 1
  MaxCrashes = 1
CONSTRAINT NoResetWithBoot
INVARIANTS
  TypeOK
  NeverOverbills
  UserNeverOverbilled
  MissedRoundsAreRecovered
  TablesAgreeWhileIntact
  DailyLedgersAddUp
  ArchiveIsCovered
