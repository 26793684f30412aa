SPECIFICATION Spec
CONSTANTS
  p1 = p1
  p2 = p2
  p3 = p3
  Free = Free
  Procs <- TwoProcs
  Modes <- OneMode
  Ops <- AllOps
  Exits <- BothExits
  MayFail = FALSE
  Droppable <- AllOps
  MaxDb = 1
CHECK_DEADLOCK FALSE
INVARIANTS
  QuitConsent
