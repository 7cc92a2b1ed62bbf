SPECIFICATION FairSpec
CONSTANTS
  BufSize = 3
  Capacity = 2
  StdioSize = 2
  MaxSize = 7
  MaxSpace = 6
  DiskFails = TRUE
INVARIANT TypeOK
PROPERTIES CopiesReliably TransferEnds FileArrives
CHECK_DEADLOCK FALSE
