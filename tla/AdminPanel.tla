----------------------------- MODULE AdminPanel -----------------------------
(***************************************************************************)
(* The admin panel's auth guard with its child page, the accounts page or  *)
(* the overview page:                                                      *)
(* services/admin-web/app/(admin)/layout.tsx renders {children} whenever   *)
(* the store holds a token, user loaded or not, and null without one.      *)
(*                                                                         *)
(* A visit opens one of the two pages (the sidebar's links point under     *)
(* /admin, outside this route group, so no link leads from one to the      *)
(* other).  The page mounts with the layout when there is a token, or when *)
(* a login gives the next visit one, and unmounts when the token is        *)
(* dropped; an unmounted page takes no step and an answer to its load is   *)
(* discarded.  A remount starts it afresh.  Its state and steps are those  *)
(* of AccountsPage or OverviewPage; the layout's are those of AdminLayout.  *)
(***************************************************************************)
CONSTANTS MaxMounts, MaxFetchesPerMount, ServerErrors,
          Chars, Lower, ServerList, Searches,
          PageErrors  \* whether a page's own load may fail

VARIABLES token, user, route, nav, mount, isLoadingUser, effectDue, fetches,
          fetched, loggingOut,
          accounts, filtered, isLoading, error, filters, load, effectPending,
          child,  \* the page this visit opened: "accounts" or "overview"
          ovStats, ovLoading, ovError, ovLoad

layoutVars == <<token, user, route, nav, mount, isLoadingUser, effectDue,
                fetches, fetched, loggingOut>>
accVars == <<accounts, filtered, isLoading, error, filters, load, effectPending>>
ovVars == <<ovStats, ovLoading, ovError, ovLoad>>
allVars == <<layoutVars, accVars, child, ovVars>>

Pages == {"accounts", "overview"}

Layout == INSTANCE AdminLayout
Acc == INSTANCE AccountsPage WITH ServerErrors <- PageErrors
Ov == INSTANCE OverviewPage
        WITH ServerErrors <- PageErrors, stats <- ovStats, isLoading <- ovLoading,
             error <- ovError, load <- ovLoad

\* The layout renders its children: the route is this layout's and the
\* store holds a token.
ChildMounted == Layout!Mounted /\ token # "none"
PageMounted(p) == ChildMounted /\ child = p

\* The child mounts afresh: the states AccountsPage!Init and
\* OverviewPage!Init describe.
Remount ==
    /\ ovStats' = FALSE /\ ovLoading' = TRUE /\ ovError' = FALSE
    /\ ovLoad' = "sent"
    /\ accounts' = <<>> /\ filtered' = <<>>
    /\ isLoading' = TRUE /\ error' = FALSE
    /\ filters' = [type |-> "all", status |-> "all", search |-> <<>>]
    /\ load' = "sent"
    /\ effectPending' = FALSE

\* A step of the layout; the child is unmounted, left as it is, or mounted
\* afresh by a login, which opens either page.
LayoutStep ==
    /\ Layout!Next
    /\ child' \in IF mount' # mount THEN Pages ELSE {child}
    /\ IF ChildMounted' /\ ~ChildMounted THEN Remount
                                         ELSE UNCHANGED <<accVars, ovVars>>

\* A step of the mounted child page.
ChildStep ==
    /\ \/ PageMounted("accounts") /\ Acc!Next /\ UNCHANGED ovVars
       \/ PageMounted("overview") /\ Ov!Next /\ UNCHANGED accVars
    /\ UNCHANGED <<layoutVars, child>>

Init == Layout!Init /\ Acc!Init /\ Ov!Init /\ child \in Pages

Next == LayoutStep \/ ChildStep

\* The layout's fairness, and the mounted page's effect runs and its load
\* settles.
Fairness ==
    /\ Layout!Fairness
    /\ WF_allVars(PageMounted("accounts") /\ Acc!FilterEffect
                    /\ UNCHANGED <<layoutVars, child, ovVars>>)
    /\ WF_allVars(PageMounted("accounts") /\ (Acc!LoadAnswered \/ Acc!LoadFailed)
                    /\ UNCHANGED <<layoutVars, child, ovVars>>)
    /\ WF_allVars(PageMounted("overview") /\ Ov!Next
                    /\ UNCHANGED <<layoutVars, child, accVars>>)

Spec == Init /\ [][Next]_allVars /\ Fairness

-----------------------------------------------------------------------------
(* Properties                                                              *)

\* One visit to /admin never has two fetchUser calls in flight, whatever
\* the accounts page does meanwhile (AdminLayout!OneFetchUserAtATime).
OneFetchUserAtATime == Layout!OneFetchUserAtATime

\* Every visit to /admin ends with a user loaded or on /login
\* (AdminLayout!AdminResolves).
AdminResolves == Layout!AdminResolves

\* The accounts table shows exactly what the filters select once the
\* effect has caught up, across unmounts and remounts by the layout
\* (AccountsPage!ShownMatchesFilters).
ShownMatchesFilters == Acc!ShownMatchesFilters

\* The overview page never shows a blank page after its load
\* (OverviewPage!NeverBlank).
OverviewNeverBlank == Ov!NeverBlank

\* An overview page still loading eventually stops, or is unmounted by the
\* layout: loadStats's finally always clears isLoading.
OverviewSettles ==
    PageMounted("overview") /\ ovLoading ~> (~ovLoading \/ ~PageMounted("overview"))
====
