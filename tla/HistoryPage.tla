----------------------------- MODULE HistoryPage -----------------------------
(***************************************************************************)
(* The message history page of the client dashboard,                       *)
(* services/client-web/app/dashboard/history/page.tsx.                     *)
(*                                                                         *)
(* The page keeps the current page number, the filter controls, the        *)
(* messages of the last answer it applied and a single isLoading flag.     *)
(* Every list fetch reads page and filters at the moment it is issued;     *)
(* answers are applied in whatever order they arrive, and each one clears  *)
(* isLoading.  Clicking a row fetches that message's details the same way. *)
(*                                                                         *)
(* A list answer is abstracted to the (page, filter) it was asked for: the *)
(* messages themselves are what the server holds for that pair.  The       *)
(* status and date filters are one filter value.                           *)
(***************************************************************************)
EXTENDS Naturals, FiniteSets, TLC

CONSTANTS
    Filters,       \* filter settings the controls can hold (model values)
    AllFilter,     \* the initial setting: status "", no dates
    Count,         \* filter -> number of the account's messages it matches
    PageSize,      \* page_size of the request (50 in the code)
    Msgs,          \* message ids a row click can ask for
    MaxFetches,    \* bound on requests issued
    ServerErrors,  \* whether a request may fail
    NoData, NoMsg

ASSUME /\ AllFilter \in Filters
       /\ Count \in [Filters -> Nat]
       /\ PageSize \in Nat \ {0}
       /\ MaxFetches \in Nat
       /\ ServerErrors \in BOOLEAN

VARIABLES
    page,        \* page
    filters,     \* filters (the controls, applied or not)
    shown,       \* messages: [page, filter] of the answer shown, or NoData
    totalPages,  \* totalPages
    isLoading,   \* isLoading
    error,       \* error banner shown
    inflight,    \* list requests in flight: [id, page, filter]
    detailReqs,  \* message ids whose details are being fetched
    selected,    \* selectedMessage
    applied,     \* history: the filter setting of the last "Apply Filters"
    issued       \* requests issued so far (bounds the model)

vars == <<page, filters, shown, totalPages, isLoading, error, inflight,
          detailReqs, selected, applied, issued>>

\* total_pages the server reports for a filter.
TotalPages(f) == (Count[f] + PageSize - 1) \div PageSize

MaxPage == CHOOSE m \in {TotalPages(f) : f \in Filters} :
               \A f \in Filters : TotalPages(f) <= m

Pages == 1..MaxPage
ListRequest == [id : 1..MaxFetches, page : Pages, filter : Filters]

\* The messages shown are not the empty list.
HasRows == shown # NoData /\ 1 <= shown.page /\ shown.page <= TotalPages(shown.filter)

TypeOK ==
    /\ page \in Pages
    /\ filters \in Filters
    /\ shown \in {NoData} \union [page : Pages, filter : Filters]
    /\ totalPages \in 0..MaxPage
    /\ isLoading \in BOOLEAN
    /\ error \in BOOLEAN
    /\ inflight \subseteq ListRequest
    /\ detailReqs \subseteq Msgs
    /\ selected \in {NoMsg} \union Msgs
    /\ applied \in Filters
    /\ issued \in 0..MaxFetches

-----------------------------------------------------------------------------

\* fetchMessages(): isLoading and a cleared error, then the request for the
\* page and filters of the render the caller closed over.
Fetch(p, f) ==
    /\ isLoading' = TRUE
    /\ error' = FALSE
    /\ inflight' = inflight \union {[id |-> issued + 1, page |-> p, filter |-> f]}
    /\ issued' = issued + 1

\* Two requests issued in one handler: the caller's own, then the one the
\* [page] effect issues after setPage changed the page.
Fetch2(p1, p2, f) ==
    /\ isLoading' = TRUE
    /\ error' = FALSE
    /\ inflight' = inflight \union {[id |-> issued + 1, page |-> p1, filter |-> f],
                                    [id |-> issued + 2, page |-> p2, filter |-> f]}
    /\ issued' = issued + 2

\* The status select or a date input changes the filter controls.
SetFilter(f) ==
    /\ filters' = f
    /\ UNCHANGED <<page, shown, totalPages, isLoading, error, inflight,
                   detailReqs, selected, applied, issued>>

\* "Apply Filters" (handleFilter): setPage(1), then fetchMessages() with the
\* page of the current render; when the page was not 1 the effect on [page]
\* fetches page 1 as well.
ApplyFilters ==
    /\ \/ /\ page = 1
          /\ issued < MaxFetches
          /\ Fetch(page, filters)
          /\ UNCHANGED page
       \/ /\ page # 1
          /\ issued + 1 < MaxFetches
          /\ page' = 1
          /\ Fetch2(page, 1, filters)
    /\ applied' = filters
    /\ UNCHANGED <<filters, shown, totalPages, detailReqs, selected>>

\* The pagination is rendered only when not loading and rows are shown.
PaginationShown == ~isLoading /\ HasRows

\* "Next": disabled when page === totalPages; setPage(min(totalPages, p+1)),
\* and the effect fetches the new page if it changed.
NextPage ==
    LET np == IF totalPages < page + 1 THEN totalPages ELSE page + 1 IN
    /\ PaginationShown
    /\ page # totalPages
    /\ page' = np
    /\ IF np # page
          THEN issued < MaxFetches /\ Fetch(np, filters)
          ELSE UNCHANGED <<isLoading, error, inflight, issued>>
    /\ UNCHANGED <<filters, shown, totalPages, detailReqs, selected, applied>>

\* "Previous" without its disabled guard and without Math.max(1, ...).
PrevPageUnguarded ==
    LET np == page - 1 IN
    /\ PaginationShown
    /\ issued < MaxFetches
    /\ page' = np
    /\ Fetch(np, filters)
    /\ UNCHANGED <<filters, shown, totalPages, detailReqs, selected, applied>>

\* "Previous": disabled on page 1; setPage(max(1, p-1)) and the effect.
PrevPage ==
    LET np == IF page - 1 < 1 THEN 1 ELSE page - 1 IN
    /\ PaginationShown
    /\ page # 1
    /\ issued < MaxFetches
    /\ page' = np
    /\ Fetch(np, filters)
    /\ UNCHANGED <<filters, shown, totalPages, detailReqs, selected, applied>>

\* An answer arrives: setMessages, setTotalPages, then finally isLoading off.
ListAnswered(q) ==
    /\ q \in inflight
    /\ inflight' = inflight \ {q}
    /\ shown' = [page |-> q.page, filter |-> q.filter]
    /\ totalPages' = TotalPages(q.filter)
    /\ isLoading' = FALSE
    /\ UNCHANGED <<page, filters, error, detailReqs, selected, applied, issued>>

\* A failed fetch that leaves isLoading set (no finally block).
ListFailedKeepsLoading(q) ==
    /\ ServerErrors
    /\ q \in inflight
    /\ inflight' = inflight \ {q}
    /\ error' = TRUE
    /\ UNCHANGED <<page, filters, shown, totalPages, isLoading, detailReqs,
                   selected, applied, issued>>

\* A failed fetch: the error is shown, the old rows stay, isLoading off.
ListFailed(q) ==
    /\ ServerErrors
    /\ q \in inflight
    /\ inflight' = inflight \ {q}
    /\ error' = TRUE
    /\ isLoading' = FALSE
    /\ UNCHANGED <<page, filters, shown, totalPages, detailReqs, selected,
                   applied, issued>>

\* A row click (handleViewDetails) asks for that message.
ViewDetails(m) ==
    /\ PaginationShown
    /\ issued < MaxFetches
    /\ detailReqs' = detailReqs \union {m}
    /\ issued' = issued + 1
    /\ UNCHANGED <<page, filters, shown, totalPages, isLoading, error,
                   inflight, selected, applied>>

\* Its answer becomes selectedMessage, or its failure the error banner.
DetailAnswered(m) ==
    /\ m \in detailReqs
    /\ detailReqs' = detailReqs \ {m}
    /\ \/ selected' = m /\ UNCHANGED error
       \/ ServerErrors /\ error' = TRUE /\ UNCHANGED selected
    /\ UNCHANGED <<page, filters, shown, totalPages, isLoading, inflight,
                   applied, issued>>

-----------------------------------------------------------------------------

\* Mount: isLoading starts true and the [page] effect fetches page 1.
Init ==
    /\ page = 1
    /\ filters = AllFilter
    /\ shown = NoData
    /\ totalPages = 1
    /\ isLoading = TRUE
    /\ error = FALSE
    /\ inflight = {[id |-> 1, page |-> 1, filter |-> AllFilter]}
    /\ detailReqs = {}
    /\ selected = NoMsg
    /\ applied = AllFilter
    /\ issued = 1

Next ==
    \/ \E f \in Filters : SetFilter(f)
    \/ ApplyFilters
    \/ NextPage
    \/ PrevPage
    \/ \E q \in inflight : ListAnswered(q) \/ ListFailed(q)
    \/ \E m \in Msgs : ViewDetails(m) \/ DetailAnswered(m)

\* The server answers every request and the browser applies every answer;
\* the user need not click anything.
Fairness ==
    /\ \A q \in ListRequest : WF_vars(ListAnswered(q) \/ ListFailed(q))
    /\ \A m \in Msgs : WF_vars(DetailAnswered(m))

Spec == Init /\ [][Next]_vars /\ Fairness

-----------------------------------------------------------------------------
(* Properties                                                              *)

\* The spinner never stays forever: whatever requests are issued and however
\* they fail, the page eventually stops loading.
LoadingSettles == isLoading ~> ~isLoading

\* Once every list request has been answered, the rows shown are those of
\* the page the pagination says is current, filtered by the settings last
\* applied with "Apply Filters": neither an older answer landing last nor
\* a page turn after the controls were edited shows other rows.
ShownMatchesControls ==
    (inflight = {} /\ shown # NoData) => shown = [page |-> page, filter |-> applied]

=============================================================================
