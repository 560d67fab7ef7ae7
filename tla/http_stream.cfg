SPECIFICATION Spec
CONSTANTS
  MaxChunks = 6
  Size <- MCSize
  TotalMax = 7
  QueueMax = 3
  Timeouts = {"none", "timed", "forever"}
  OutOfMemory = TRUE
INVARIANTS
  QueueIsSound
PROPERTIES
  ImplementsByteStream
  StreamCloses
CHECK_DEADLOCK FALSE
