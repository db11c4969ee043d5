CONSTANTS
  bufA = bufA
  bufB = bufB
  Commands <- MCCommands
  Dsts <- MCDsts
  Blks <- MCBlks
  MaxBlocks = 2
SPECIFICATION FairSpec
INVARIANT TypeOK
INVARIANT StartNeverLost
PROPERTY ImplementsSendCmd
PROPERTY CommandTransactionEnds
CHECK_DEADLOCK FALSE
