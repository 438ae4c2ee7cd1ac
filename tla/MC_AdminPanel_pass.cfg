\* Two visits to /admin, two fetchUser calls per visit, failing requests,
\* and the accounts or the overview page mounted inside the layout.  The only final states
\* are on /login after the last visit: the person need not log in again,
\* and nothing of the layout or the page is left to run.
CONSTANTS
    MaxMounts = 2
    MaxFetchesPerMount = 2
    ServerErrors = FALSE
    PageErrors = TRUE
    Chars <- MCChars
    Lower <- MCLower
    ServerList <- MCServerList
    Searches <- MCSearches
SPECIFICATION Spec
INVARIANT OneFetchUserAtATime ShownMatchesFilters OverviewNeverBlank
PROPERTY AdminResolves OverviewSettles
CHECK_DEADLOCK FALSE
