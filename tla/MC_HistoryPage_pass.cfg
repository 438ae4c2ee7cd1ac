\* Three pages, failing requests, up to five requests: the spinner settles.
CONSTANTS
    fAll = fAll
    fDelivered = fDelivered
    m1 = m1
    m2 = m2
    NoData = NoData
    NoMsg = NoMsg
    Filters <- MCFilters
    AllFilter = fAll
    Count <- MCCount
    PageSize = 1
    Msgs <- MCMsgs
    MaxFetches = 5
    ServerErrors = TRUE
SPECIFICATION Spec
INVARIANT TypeOK
PROPERTY LoadingSettles
