SPECIFICATION Spec
CONSTANTS
  IQ_LENGTH = 3
  Regs <- MCRegs
  Instrs <- MCInstrs
  Slots <- MCSlots
  PairedOverflow = FALSE
  MaxInFlight = 4
  Rare <- MCRare
INVARIANTS TypeOK OperandsAreLatest RegisterFileIsCurrent RequestsMatchAccesses RequestsAreCommitted DrainedHeadIssues RingHoldsQueue
PROPERTY ImplementsIssueOrder
