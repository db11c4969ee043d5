SPECIFICATION LiveSpec
CONSTANTS
  SET_SIZE = 2
  GROUP_NUM = 1
  LINE_WORDS = 2
  TAG_NUM = 2
  UW_FIFO_DEPTH = 2
  Vals = {0, 1}
  Requests <- MixedRequests
  PrefetchLines <- NoLines
INVARIANTS
  TypeOK
  UncachedReadInOrder
PROPERTIES
  ImplementsProgramMemory
  StalledRequestCompletes
  AcceptedRequestEnters
