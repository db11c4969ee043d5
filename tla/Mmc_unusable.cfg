CONSTANTS
  Cards <- MCCards
  Hosts <- MCOcsdcHosts
  Starts <- MCStarts
  Counts <- MCCounts
  Buffers <- MCBuffers
  BL = 2
  BMax = 2
  W = 16
  OpCondTries = 1
  MmcOpCondTries = 1
  StatusTries = 1
  StatusRetries = 1
  ScrTries = 1
  SwitchTries = 2
  MaxFaults = 0
SPECIFICATION Spec
CHECK_DEADLOCK FALSE
INVARIANT UnusableIsReported
