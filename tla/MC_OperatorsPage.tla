--------------------------- MODULE MC_OperatorsPage ---------------------------
(* Model values and the initial store for checking OperatorsPage with TLC. *)
EXTENDS OperatorsPage, TLC

CONSTANTS op1, op2, k1, k2

\* Two operator ids, one of them configured when the page opens.
MCOperators == {op1, op2}
MCConfigs == {k1, k2}
MCInitialStore == (op1 :> k1) @@ (op2 :> Absent)
====
