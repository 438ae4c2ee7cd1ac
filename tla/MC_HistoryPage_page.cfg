\* No failing requests: can the rows shown belong to another page or
\* filter than the pager names and "Apply Filters" last applied?
CONSTANTS
    fAll = fAll
    fDelivered = fDelivered
    m1 = m1
    m2 = m2
    NoData = NoData
    NoMsg = NoMsg
    Filters <- MCFilters
    AllFilter = fAll
    Count <- MCCount
    PageSize = 1
    Msgs <- MCMsgs
    MaxFetches = 5
    ServerErrors = FALSE
SPECIFICATION Spec
INVARIANT ShownMatchesControls
