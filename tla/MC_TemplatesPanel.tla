--------------------------- MODULE MC_TemplatesPanel ---------------------------
(* Two ids the server may give the panel's new templates.                  *)
EXTENDS TemplatesPanel

CONSTANTS tp1, tp2

MCTemplates == {tp1, tp2}
====
