SPECIFICATION Spec
CONSTANTS
  Parties = {p1, p2}
  Game = game
  Mod = mod
  Nothing = nothing
  Caller = caller
  Wild = wild
  Clearance <- MCClearance
  UnknownLength = 2
INVARIANTS
  OverwritesNoJump
CHECK_DEADLOCK FALSE
