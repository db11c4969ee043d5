SPECIFICATION Spec
CONSTANTS
  SET_SIZE = 2
  GROUP_NUM = 1
  LINE_WORDS = 2
  TAG_NUM = 3
  UW_FIFO_DEPTH = 1
  Vals = {0, 1}
  Requests <- TwoDirtyAndOps
  PrefetchLines <- NoLines
INVARIANTS
  RefillOwnsPorts
  CleanMatchesMemory
PROPERTIES
  HitInvalidateRemoves
  ImplementsProgramMemory
