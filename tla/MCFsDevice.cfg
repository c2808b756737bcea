SPECIFICATION Spec
CONSTANTS
  Thread = {loop, transfer}
  Device = {slc, mlc, usb}
  Handle = {h1, h2}
  Fd = {f1, f2}
  Slots = 2
  Mode = {"a", "r+"}
  Lens = {0, 2}
  None = none
  MaxCalls = 3
INVARIANTS OneInside HeldInside HandlesAccounted PositionTrue ResultHonest FreedOnlyInUse
SYMMETRY Symmetry
CHECK_DEADLOCK FALSE
