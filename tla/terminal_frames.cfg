SPECIFICATION Spec
CONSTANTS
  Lines = {a}
  Blank = blank
  Junk = junk
  Height = 3
  MaxLines = 2
INVARIANTS
  OutsideIsRestored
  InsideIsOwned
  FrameIsShown
CHECK_DEADLOCK FALSE
