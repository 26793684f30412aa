SPECIFICATION Spec
CONSTANTS
  p1 = p1
  p2 = p2
  p3 = p3
  Free = Free
  Procs <- TwoProcs
  Modes <- OneMode
  Ops <- StopOnly
  Exits <- None
  MayFail = FALSE
  Droppable <- DropStop
  MaxDb = 1
CHECK_DEADLOCK FALSE
INVARIANT
  TransitionsEnd
