SPECIFICATION Spec
CONSTANTS
  Paths = {"p1"}
  LegacyPaths = {}
  Names = {}
  AppendKinds = {"user"}
  MaxId = 2
  RawAccess = FALSE
  ResumeMissing = FALSE
  CloneOver = TRUE
  Faults = FALSE
PROPERTY SaveTellsTheTruth
CHECK_DEADLOCK FALSE
