CONSTANTS
  Blocks <- Anything
  Notice <- SmallNotice
  DirectSizes = {1, 3}
  SignonSizes = {2}
  MaxSize = 5
  MAX_BACK_BUFFERS = 2
  MaxWrites = 4
  MaxDrops = 1
SPECIFICATION Spec
INVARIANTS TypeOK InOrder 
PROPERTY OverflowDisconnects
CHECK_DEADLOCK FALSE
