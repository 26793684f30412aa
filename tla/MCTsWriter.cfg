SPECIFICATION LiveSpec
CONSTANTS
    A = A
    B = B
    None = None
    Times <- TwoTimes
    Day = 2
    Offset = 1
    Configs <- Both
    Cells <- Widths
    MaxRetained = 8
    MaxBuffered = 2
    Retentions = {0}
    MaxRows = 2
    MaxOpens = 3
CHECK_DEADLOCK FALSE
INVARIANTS
    TypeOK
    RowsAreFound
    NothingVanishes
    NewestWins
PROPERTY
    OperationsReturn
