SPECIFICATION Spec
CONSTANTS
  MaxEntries = 7
  MaxForks = 1
  MaxAsides = 2
  Cap <- MCCap
INVARIANTS
  NothingForgotten
  SystemIsCurrent
  EditsStick
  CutIsClean
CHECK_DEADLOCK FALSE
