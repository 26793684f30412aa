SPECIFICATION Spec
CONSTANTS
    A = A
    B = B
    None = None
    Times <- TwoTimes
    Day = 2
    Offset = 1
    Configs <- OneConfig
    Cells <- Widths
    MaxRetained = 8
    MaxBuffered = 2
    Retentions = {0}
    MaxRows = 1
    MaxOpens = 1
CHECK_DEADLOCK FALSE
INVARIANT
    RetryRecovers
