----------------------------- MODULE OverviewPage -----------------------------
(***************************************************************************)
(* The admin overview page, services/admin-web/app/(admin)/page.tsx: one   *)
(* loadStats on mount.  It renders "Loading dashboard..." while isLoading, *)
(* else the error when there is one, else nothing without stats, else the  *)
(* cards, tables and charts of the stats.  The stats themselves are        *)
(* display only: stats is whether the page holds them.                     *)
(***************************************************************************)
CONSTANTS
    ServerErrors   \* whether GET of the overview stats may fail

VARIABLES
    stats,      \* stats holds an answer (it starts null)
    isLoading,  \* isLoading
    error,      \* error is set
    load        \* the mount's request: "sent" or "done"

vars == <<stats, isLoading, error, load>>

\* The stats arrive: setStats, setError(null), then finally isLoading off.
StatsAnswered ==
    /\ load = "sent"
    /\ load' = "done"
    /\ stats' = TRUE
    /\ error' = FALSE
    /\ isLoading' = FALSE

\* A catch that drops the failure without setting the error.
StatsFailedSwallowed ==
    /\ load = "sent" /\ ServerErrors
    /\ load' = "done"
    /\ isLoading' = FALSE
    /\ UNCHANGED <<stats, error>>

\* A failed load with no finally block.
StatsFailedNoFinally ==
    /\ load = "sent" /\ ServerErrors
    /\ load' = "done"
    /\ error' = TRUE
    /\ UNCHANGED <<stats, isLoading>>

\* The request fails: the message is set, then finally isLoading off.
StatsFailed ==
    /\ load = "sent" /\ ServerErrors
    /\ load' = "done"
    /\ error' = TRUE
    /\ isLoading' = FALSE
    /\ UNCHANGED stats

\* After the first render the mount effect has called loadStats, which set
\* isLoading (already true) and awaits the answer.
Init ==
    /\ stats = FALSE
    /\ isLoading = TRUE
    /\ error = FALSE
    /\ load = "sent"

Next == StatsAnswered \/ StatsFailed

\* What the page renders: the loading line, the error, null, or the stats.
Rendered ==
    CASE isLoading -> "loading"
      [] error     -> "error"
      [] ~stats    -> "blank"
      [] OTHER     -> "stats"

Spec == Init /\ [][Next]_vars /\ WF_vars(Next)

-----------------------------------------------------------------------------
(* Properties                                                              *)

\* Once loading is over the page shows the stats or the error: the branch
\* that renders null (no stats, no error) is never reached, so a failure
\* is never a blank page.
NeverBlank == Rendered # "blank"
====
