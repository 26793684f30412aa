SPECIFICATION Spec
CONSTANTS
    Names = {a, b}
    Contents = {x, y}
    None = None
    QueueCapacity = 2
    MaxRebinds = 1
    Disturbances = 3
INVARIANTS TypeOK NewsOnItsWay NothingLeftUnsaid
PROPERTY Settles
CHECK_DEADLOCK FALSE
