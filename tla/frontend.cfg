SPECIFICATION Spec
CONSTANTS
  Operations = {"shell"}
  Files = {a}
  Ids = {i1, i2}
  MaxTyped = 2
INVARIANTS
  MessagesAreKept
  AbortIsOwn
  EventsPair
PROPERTIES
  SessionStandsStill
  QuitLeaves
CHECK_DEADLOCK FALSE
