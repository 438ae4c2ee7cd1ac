----------------------------- MODULE AccountsPage -----------------------------
(***************************************************************************)
(* The admin accounts page, services/admin-web/app/(admin)/accounts/      *)
(* page.tsx: one load of the account list on mount, three filter controls  *)
(* and filteredAccounts, which an effect on [accounts, filters] recomputes *)
(* after each render that changed either.                                  *)
(*                                                                         *)
(* A name, an email and a search text are sequences of characters from a  *)
(* small alphabet; Lower is toLowerCase on it.  The account's id, balance, *)
(* counters and dates are display only.                                    *)
(***************************************************************************)
EXTENDS Sequences, SequencesExt

CONSTANTS
    Chars,         \* the alphabet of names, emails and searches
    Lower,         \* toLowerCase on one character
    ServerList,    \* what GET /admin/accounts returns
    Searches,      \* texts the search input can hold ( <<>> is "" )
    ServerErrors   \* whether the load may fail

Types == {"client", "reseller"}
Statuses == {"active", "suspended", "inactive"}
Strings == Seq(Chars)
Account == [type : Types, status : Statuses, name : Strings, email : Strings]
Filters == [type : {"all"} \union Types, status : {"all"} \union Statuses,
            search : Searches]

ASSUME /\ Lower \in [Chars -> Chars]
       /\ ServerList \in Seq(Account)
       /\ <<>> \in Searches
       /\ ServerErrors \in BOOLEAN

VARIABLES
    accounts,       \* accounts
    filtered,       \* filteredAccounts
    isLoading,      \* isLoading
    error,          \* the error banner is shown
    filters,        \* filters
    load,           \* the mount's request: "sent" or "done"
    effectPending   \* the [accounts, filters] effect is due after this render

vars == <<accounts, filtered, isLoading, error, filters, load, effectPending>>

-----------------------------------------------------------------------------
(* filterAccounts                                                          *)

\* s.toLowerCase()
ToLower(s) == [i \in DOMAIN s |-> Lower[s[i]]]

\* s.includes(q): q occurs in s as a contiguous run.
Includes(s, q) == q \in SubSeqs(s)

\* The search compared with the name only case-sensitively.
MatchesSearchNameCased(acc, q) ==
    Includes(acc.name, ToLower(q)) \/ Includes(ToLower(acc.email), ToLower(q))

\* The search, lowercased, in the lowercased name or email.
MatchesSearch(acc, q) ==
    Includes(ToLower(acc.name), ToLower(q)) \/ Includes(ToLower(acc.email), ToLower(q))

\* The three filters applied one after the other, each skipped when it is
\* "all" or empty.
FilterAccounts(l, f) ==
    LET byType   == IF f.type # "all"
                      THEN SelectSeq(l, LAMBDA a : a.type = f.type) ELSE l
        byStatus == IF f.status # "all"
                      THEN SelectSeq(byType, LAMBDA a : a.status = f.status)
                      ELSE byType
    IN  IF f.search # <<>>
          THEN SelectSeq(byStatus, LAMBDA a : MatchesSearch(a, f.search))
          ELSE byStatus

-----------------------------------------------------------------------------

\* setFilters from one of the controls: a new render, after which the
\* effect recomputes the list.
SetFilters(f) ==
    /\ filters' = f
    /\ effectPending' = TRUE
    /\ UNCHANGED <<accounts, filtered, isLoading, error, load>>

\* The type select: setFilters({ ...filters, type: value }).
SetType(v) == SetFilters([filters EXCEPT !.type = v])

\* The status select: setFilters({ ...filters, status: value }).
SetStatus(v) == SetFilters([filters EXCEPT !.status = v])

\* The search input: setFilters({ ...filters, search: e.target.value }).
SetSearch(q) == SetFilters([filters EXCEPT !.search = q])

\* The effect: filterAccounts() over the state of the render it ran after.
FilterEffect ==
    /\ effectPending
    /\ filtered' = FilterAccounts(accounts, filters)
    /\ effectPending' = FALSE
    /\ UNCHANGED <<accounts, isLoading, error, filters, load>>

\* The list arrives: setAccounts, the error cleared, finally isLoading off.
LoadAnswered ==
    /\ load = "sent"
    /\ load' = "done"
    /\ accounts' = ServerList
    /\ error' = FALSE
    /\ isLoading' = FALSE
    /\ effectPending' = TRUE
    /\ UNCHANGED <<filtered, filters>>

\* The load fails: the message is shown, finally isLoading off.
LoadFailed ==
    /\ load = "sent" /\ ServerErrors
    /\ load' = "done"
    /\ error' = TRUE
    /\ isLoading' = FALSE
    /\ UNCHANGED <<accounts, filtered, filters, effectPending>>

-----------------------------------------------------------------------------

\* After the first render both effects have run: loadAccounts is awaiting
\* the list and filterAccounts has filtered the empty one.
Init ==
    /\ accounts = <<>> /\ filtered = <<>>
    /\ isLoading = TRUE /\ error = FALSE
    /\ filters = [type |-> "all", status |-> "all", search |-> <<>>]
    /\ load = "sent"
    /\ effectPending = FALSE

Next ==
    \/ \E v \in {"all"} \union Types : SetType(v)
    \/ \E v \in {"all"} \union Statuses : SetStatus(v)
    \/ \E q \in Searches : SetSearch(q)
    \/ FilterEffect
    \/ LoadAnswered
    \/ LoadFailed

\* React runs a due effect, and the request settles.
Fairness == WF_vars(FilterEffect) /\ WF_vars(LoadAnswered \/ LoadFailed)

Spec == Init /\ [][Next]_vars /\ Fairness

-----------------------------------------------------------------------------
(* Properties                                                              *)

\* Reference: an account is listed when its type and status match the
\* selected ones (or "all") and the search text occurs in its name or its
\* email ignoring case.
OccursIgnoringCase(s, q) ==
    \E i \in 0..(Len(s) - Len(q)) :
        \A k \in 1..Len(q) : Lower[s[i + k]] = Lower[q[k]]

Listed(acc, f) ==
    /\ f.type \in {"all", acc.type}
    /\ f.status \in {"all", acc.status}
    /\ OccursIgnoringCase(acc.name, f.search) \/ OccursIgnoringCase(acc.email, f.search)

\* Whenever the filter effect has caught up with the last render, the table
\* shows exactly the loaded accounts the filters select, in the server's
\* order: the hand-written dependency list of the effect and the search's
\* lowercasing both bear on it.
ShownMatchesFilters ==
    ~effectPending => filtered = SelectSeq(accounts, LAMBDA a : Listed(a, filters))
====
