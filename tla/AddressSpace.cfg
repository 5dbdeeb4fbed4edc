\* Three contexts for two addresses, so that the table is found full, and a
\* configuration that is no multiple of a page, as in the code.
SPECIFICATION SpaceSpec
CONSTANTS
  NumPackets = 3
  NumRanges = 7
  Nil = Nil
  Pointer = Pointer
  Base = 2
  Size = 30
  Word = 64
  Structs = 40
  NumContexts = 3
  NumPairs = 2
  Page = 2
  ConfigSize = 1
  StackSize = 2
  ArenaSize = 3
  NoContext = NoContext
INVARIANTS
  RangesApart
  OnlyPacketsShared
  StrayedOnlyWhenExhausted
PROPERTY
  KeepsPromise
CHECK_DEADLOCK FALSE
