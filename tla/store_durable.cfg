SPECIFICATION Spec
CONSTANTS
  Paths = {"p1", "p2"}
  LegacyPaths = {}
  Names = {}
  AppendKinds = {"user"}
  MaxId = 3
  RawAccess = FALSE
  ResumeMissing = FALSE
  CloneOver = FALSE
  Faults = TRUE
INVARIANTS
  AckedIsDurable
  CursorMatchesFile
  TreesAreRooted
PROPERTIES
  MemoryMirrorsPath
  ImplementsLog
CHECK_DEADLOCK FALSE
