CONSTANTS
  BlockSize = 2
  MaxBlock = 12
  Retries = 1
  Entries = 5
  Cards <- MCCards
  Transfers <- MCTransfers
  Erasures <- MCErasures
  Images <- MCImages
  Paths <- MCPaths
SPECIFICATION MCSpec
CONSTRAINT Followed
CHECK_DEADLOCK FALSE
INVARIANTS
  CardSound
  TransferWhole
  NothingMisplaced
  FoundIsNamed
  FoundAndPrinted
