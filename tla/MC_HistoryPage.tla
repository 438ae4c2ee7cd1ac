--------------------------- MODULE MC_HistoryPage ---------------------------
(* Model-checking instance of HistoryPage: two filter settings, one that   *)
(* matches three messages and one that matches one, one message per page  *)
(* so that three pages exist, and two rows to click.                       *)
EXTENDS HistoryPage

CONSTANTS fAll, fDelivered, m1, m2

MCFilters == {fAll, fDelivered}
MCCount   == (fAll :> 3) @@ (fDelivered :> 1)
MCMsgs    == {m1, m2}
=============================================================================
