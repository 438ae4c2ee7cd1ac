\* One console using both roles: can a success notice stand beside an error?
CONSTANTS
    t1 = t1
    t2 = t2
    CW = CW
    NoModal = NoModal
    Templates <- MCTemplates
    MaxVersion = 0
    MaxMutations = 2
    NetworkErrors = FALSE
    ServerErrors = TRUE
    MaxCreates = 1
SPECIFICATION Spec
INVARIANT BannersAgree
