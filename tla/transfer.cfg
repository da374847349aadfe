SPECIFICATION FairSpec
CONSTANTS
  Chunks = 3
  Window = 2
  MaxHandlers = 2
  MaxLosses = 2
  MaxExtra = 1
  NoHandler = NoHandler
INVARIANTS TypeOK FileIsPrefix AckedIsWritten FinishedIsComplete
PROPERTY TransferEnds
CHECK_DEADLOCK FALSE
