SPECIFICATION TextSpec
CONSTANTS
  Alphabets <- MCAlphabets
  MaxLen = 5
  Widths = {1, 2, 3}
  BufferSize = 4
  Block = 2
  ReadMax = 4
  WriteMax = 8
  FirstCapacity = 1
  Asked <- MCAsked
  Cwd <- MCCwd
  Homes <- MCHomes
INVARIANTS
  LayoutIsTrue
  PagesCover
  PathsLead
  KeysAreTrue
  TokensAdd
  CommandIsTold
CHECK_DEADLOCK FALSE
