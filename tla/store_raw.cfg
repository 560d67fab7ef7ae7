SPECIFICATION Spec
CONSTANTS
  Paths = {"p1", "p2"}
  LegacyPaths = {"p1"}
  Names = {"n1"}
  AppendKinds = {"user"}
  MaxId = 2
  RawAccess = TRUE
  ResumeMissing = TRUE
  CloneOver = FALSE
  Faults = TRUE
INVARIANTS
  UuidsAreUnique
CHECK_DEADLOCK FALSE
