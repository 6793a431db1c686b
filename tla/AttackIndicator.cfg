SPECIFICATION Spec
CONSTANTS
  Slots = 3
  Enemies = {e1, e2, e3, e4}
  NoEnemy = none
  RefreshTime = 2
INVARIANTS
  TypeOK
  OneSlot
  OwnDirection
PROPERTY
  Released
