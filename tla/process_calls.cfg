SPECIFICATION HandleSpec
CONSTANTS
  PipeMax = 2
  Kept = 3
  Escalate = 1
  GiveUp = 2
  Deadline = TRUE
INVARIANTS
  ResultIsTrue
PROPERTIES
  CallsReturn
  TreeDies
CHECK_DEADLOCK FALSE
