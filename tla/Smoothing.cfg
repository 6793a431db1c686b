SPECIFICATION Spec
CONSTANTS
  Lanes = 4
  Window = 16
  Heights = {1, 2}
INVARIANT TypeOK
PROPERTY ImplementsMovingAverage
