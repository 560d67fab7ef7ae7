SPECIFICATION Spec
CONSTANTS
  Procs = {1, 2}
  Workloads <- MCWorkloads
  MaxCalls = 3
  Depth = 2
  MaxCuts = 1
INVARIANTS
  ReplacedWhole
  AppendsSurvive
  ResultsAreTrue
CHECK_DEADLOCK FALSE
