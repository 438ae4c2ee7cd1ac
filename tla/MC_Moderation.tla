---------------------------- MODULE MC_Moderation ----------------------------
(* Model-checking instance of Moderation: one or two templates, one or two *)
(* consoles depending on the run.                                          *)
EXTENDS Moderation, TLC

CONSTANTS t1, t2, c1, c2

OneTemplate  == {t1}
TwoTemplates == {t1, t2}
OneConsole   == {c1}
TwoConsoles  == {c1, c2}

\* Consoles are interchangeable: none is named by any definition.
ConsoleSymmetry == Permutations(TwoConsoles)
=============================================================================
