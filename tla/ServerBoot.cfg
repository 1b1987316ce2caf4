SPECIFICATION FairSpec
CONSTANTS
  r1 = r1
  r2 = r2
  Rows = {r1, r2}
  LegacyRows = {r1}
  Interval = 3
  CopyTime = 1
  MaxSnaps = 2
  MaxHalts = 2
  MaxFails = 1
  MaxDamage = 1
INVARIANTS TypeOK NothingLost RestorePointAge
PROPERTIES RestoresNewest ComesBack
