SPECIFICATION SystemSpec
CONSTANTS
  SET_SIZE = 4
  GROUP_NUM = 1
  LINE_WORDS = 1
  TAG_NUM = 3
  UW_FIFO_DEPTH = 1
  Vals = {0, 1}
  Requests <- StreamRequests
  PrefetchLines <- AllLines
PROPERTIES
  ImplementsProgramMemory
