SPECIFICATION Spec
CONSTANTS
  Parties = {p1, p2}
  Game = game
  Mod = mod
  Nothing = nothing
  Caller = caller
  Wild = wild
  Clearance <- MCClearance
  UnknownLength = 6
  Overlays = {crosshair, attacks}
  HookDirectX = directx
  Size = size
INVARIANTS
  TypeOK
  CallsReach
  DrawsWhatWasAsked
SYMMETRY MCSymmetry
PROPERTIES
  ImplementsPlaceHook
