---------------------------- MODULE MC_WebConsole ----------------------------
(* One console, two template ids: one for the client's own create and one  *)
(* another account may submit.                                             *)
EXTENDS WebConsole

CONSTANTS t1, t2

MCTemplates == {t1, t2}
====
