SPECIFICATION Spec
CONSTANTS
  Users = {alice}
  Reports = {r1, r2}
  MaxBytes = 2
  MaxBoots = 1
  MaxResets = 0
  MaxCrashes = 0
SYMMETRY Slots
INVARIANT NeverOverbills
