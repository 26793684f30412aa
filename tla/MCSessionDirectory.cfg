SPECIFICATION LiveSpec
CONSTANTS
  a = a
  b = b
  k1 = k1
  k2 = k2
  Callers <- CallersDef
  Conns <- TwoConns
  Ops <- AllOps
  MaxTask = 2
CHECK_DEADLOCK FALSE
INVARIANTS
  TypeOK
  NoTaskOutOfReach
  OneLiveTask
PROPERTY
  OperationsReturn
