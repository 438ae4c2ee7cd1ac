----------------------------- MODULE MC_SendPage -----------------------------
(* Model values and finite functions for checking SendPage with TLC.       *)
EXTENDS SendPage, TLC

CONSTANTS x1, x2

\* x1 is the spec's 170-character GSM7 scenario (two parts); x2 is 500
\* Cyrillic characters, within the form's 1530 but eight UCS2 parts.
MCTexts == {x1, x2}
MCBody == (x1 :> <<[cls |-> "gsm", n |-> 170]>>)
       @@ (x2 :> <<[cls |-> "bmp", n |-> 500]>>)
MCOtpText == <<[cls |-> "gsm", n |-> 19]>>
\* +998 90 123 45 67, the destination of the spec's scenario and of the load test.
MCDest == <<9, 0, 1, 2, 3, 4, 5, 6, 7>>
\* Part of the console's price matrix (App.tsx priceMatrix), plus a
\* shorter generic prefix 9 that prefix 90 must win over.
MCRateTable == (<<9, 0>> :> [service |-> 115, promo |-> 300])
            @@ (<<9, 7>> :> [service |-> 95, promo |-> 175])
            @@ (<<9>> :> [service |-> 200, promo |-> 400])
====
