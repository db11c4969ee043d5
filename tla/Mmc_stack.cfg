CONSTANTS
  Cards <- MCCards
  Hosts <- MCHosts
  Starts <- MCStarts
  Counts <- MCCounts
  Buffers <- MCBuffers
  BL = 2
  BMax = 2
  W = 16
  OpCondTries = 1
  MmcOpCondTries = 1
  StatusTries = 1
  StatusRetries = 1
  ScrTries = 1
  SwitchTries = 2
  MaxFaults = 2
SPECIFICATION FairSpec
CHECK_DEADLOCK FALSE
INVARIANT TypeOK
INVARIANT InitAgrees
INVARIANT NoFaultNoHang
PROPERTY GoodCardInitialised
PROPERTY BreadDelivers
PROPERTY CallReturns
