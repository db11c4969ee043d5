CONSTANTS
  bufA = bufA
  bufB = bufB
  Commands <- MCCommands
  Dsts <- MCDsts
  Blks <- MCBlks
  MaxBlocks = 2
SPECIFICATION Spec
CHECK_DEADLOCK FALSE
INVARIANT OkMeansDelivered
