SPECIFICATION Spec
CONSTANTS
  IQ_LENGTH = 3
  Regs <- MCRegs
  Instrs <- MCInstrs
  Slots <- MCLoadSlots
  PairedOverflow = FALSE
  MaxInFlight = 4
  Rare <- MCRare
INVARIANT RequestsAreCommitted
