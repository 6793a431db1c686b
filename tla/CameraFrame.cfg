SPECIFICATION Spec
CONSTANTS
  isTrackHit = TRUE
  Animations <- MCAnimations
  FrameTimes = {2}
  InteractHold = 3
  SyncTime = 3
  RunHold = 1
  WalkTime = 3
  isSmoothing = TRUE
INVARIANTS
  TypeOK
  TrackedNotSmooth
  CrossingHidden
PROPERTIES
  NegativeOnce
  LookFreed
