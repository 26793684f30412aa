SPECIFICATION LiveSpec
CONSTANTS
  p1 = p1
  p2 = p2
  p3 = p3
  Free = Free
  Procs <- TwoProcs
  Modes <- BothModes
  Ops <- AllOps
  Exits <- None
  MayFail = TRUE
  Droppable <- None
  MaxDb = 2
CHECK_DEADLOCK FALSE
INVARIANTS
  TypeOK
  RunHoldsTogether
  Reflected
PROPERTY
  RequestsReturn
