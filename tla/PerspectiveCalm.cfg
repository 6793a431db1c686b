SPECIFICATION CalmSpec
CONSTANTS
  Ins = {i1}
  NoIns = none
  FrameTimes = {1}
  HoldTime = 1
  MenuTime = 1
  PressCap = 2
  HeadFrames = {}
  ArmRepos = FALSE
  Busy = busy
PROPERTIES
  Reattaches
  GivenBack
  HoldRecognised
