\* The list after the page's own saves and deletes.
CONSTANTS
    op1 = op1
    op2 = op2
    k1 = k1
    k2 = k2
    Absent = Absent
    NoOp = NoOp
    Operators <- MCOperators
    Configs <- MCConfigs
    DefaultConfig = k2
    InitialStore <- MCInitialStore
    ServerErrors = FALSE
    OtherAdmins = FALSE
    MaxRequests = 3
SPECIFICATION Spec
INVARIANT ListMatchesServer
