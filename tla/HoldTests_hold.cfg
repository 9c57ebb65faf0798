SPECIFICATION HoldSpec
CONSTANTS
  Buttons = {"light", "release"}
  MaxPresses = 2
INVARIANT LeavingLetsGo
CHECK_DEADLOCK FALSE
