SPECIFICATION LiveSpec
CONSTANTS
  SET_SIZE = 2
  GROUP_NUM = 2
  LINE_WORDS = 4
  TAG_NUM = 2
  MaxVersion = 1
  WrittenLines <- MCWritten
  Requests <- MCRequests
  PrefetchLines <- MCPrefetch
INVARIANTS
  TypeOK
  FetchIsFresh
  NoDuplicateLine
  PortIsCurrent
PROPERTIES
  StalledFetchAnswered
  HeldRequestEnters
