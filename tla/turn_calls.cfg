SPECIFICATION TurnSpec
CONSTANTS
  Answers <- MCAnswers
  BadAnswers <- MCBadAnswers
  MaxRetries = 1
  DrainsAll = FALSE
  SavesPartial = TRUE
  InjectIn = {"idle", "stream", "backoff"}
  MaxItems = 4
  MaxRequests = 2
INVARIANTS
  CallsAreAnswered
PROPERTIES
  QueuedOnce
  AnswersAreWhole
  AbortEnds
CHECK_DEADLOCK FALSE
