SPECIFICATION Spec
CONSTANTS
  p1 = p1
  p2 = p2
  p3 = p3
  Free = Free
  Procs <- ThreeProcs
  Modes <- OneMode
  Ops <- StopLive
  Exits <- None
  MayFail = FALSE
  Droppable <- None
  MaxDb = 2
CHECK_DEADLOCK FALSE
INVARIANT
  DroppedForLifecycle
