SPECIFICATION SystemSpec
CONSTANTS
  SET_SIZE = 2
  GROUP_NUM = 1
  LINE_WORDS = 1
  TAG_NUM = 4
  UW_FIFO_DEPTH = 1
  Vals = {0}
  Requests <- LoadRequests
  PrefetchLines <- AllLines
INVARIANTS
  VictimIsNotNewest
PROPERTIES
  ImplementsDCache
  PrefetchRunsAhead
