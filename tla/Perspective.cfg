SPECIFICATION Spec
CONSTANTS
  Ins = {i1}
  NoIns = none
  FrameTimes = {1}
  HoldTime = 1
  MenuTime = 1
  PressCap = 2
  HeadFrames <- MCHeadFrames
  ArmRepos = TRUE
INVARIANTS
  TypeOK
  FlagAgrees
  ThirdPersonClean
  TargetMatches
  PressOnce
PROPERTY
  ImplementsCameraView
