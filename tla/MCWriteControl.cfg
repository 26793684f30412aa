SPECIFICATION LiveSpec
CONSTANTS
    p1 = p1
    p2 = p2
    Free = Free
    Procs <- TwoProcs
    MaxOps = 3
INVARIANTS
    TypeOK
    ResumeIsFinal
    SavedStopHolds
    NoWarningNoSurprise
PROPERTIES
    OnlyConfirmationEnables
    StopReturns
