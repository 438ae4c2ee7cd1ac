\* Saves, with the dialog closed and reopened while one is in flight.
CONSTANTS
    op1 = op1
    op2 = op2
    k1 = k1
    k2 = k2
    Absent = Absent
    NoOp = NoOp
    Operators <- MCOperators
    Configs <- MCConfigs
    DefaultConfig = k2
    InitialStore <- MCInitialStore
    ServerErrors = TRUE
    OtherAdmins = TRUE
    MaxRequests = 3
SPECIFICATION Spec
INVARIANT OneSaveAtATime
