SPECIFICATION Spec
CONSTANTS
  e1 = e1
  e2 = e2
  e3 = e3
  Size = 2
  Enemies <- MCEnemies
  LowOf <- MCLowOf
  Null = null
  End = end
  Taes = {t1, t2}
  Gone = gone
  Bullets = {b1, b2}
  NoBullet = none
  ScanPeriod = 2
SYMMETRY MCSymmetry
INVARIANTS
  TypeOK
  WalkStops
  NoDuplicates
  FlagsSound
  DrawnAttack
  TakesTwo
