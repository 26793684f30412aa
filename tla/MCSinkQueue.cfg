SPECIFICATION LiveSpec
CONSTANTS
  t = t
  u = u
  a = a
  b = b
  x = x
  y = y
  f1 = f1
  f2 = f2
  None = None
  Tables <- TwoTables
  Specs <- TwoSpecs
  Conns <- TwoConns
  Flushers <- Two
  Initial <- First
  Settings <- Some
  MaxRows = 2
  Batch = 2
  Samples = 3
  Changes = 2
  Troubles = 1
CHECK_DEADLOCK FALSE
INVARIANTS
  TypeOK
  NothingVanishes
  StoredRight
PROPERTY
  Settles
