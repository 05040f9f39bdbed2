\* No items, one item, and up to four of them over one to four tokens: the
\* spawning loop blocks on the semaphore, and tokens are handed on while
\* results are still being stored. Zero stands for the default of four.
CONSTANTS
  Counts = {0, 1, 2, 3, 4}
  Settings = {0, 1, 2, 3}
  NoResult = NoResult
SPECIFICATION FairSpec
INVARIANTS
  TypeOK
  AtMostMaxConcurrency
  ReturnsAllInOrder
  IInv
PROPERTIES
  Terminates
  ImplementsBoundedMap
CHECK_DEADLOCK FALSE
