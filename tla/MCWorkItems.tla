---------------------------- MODULE MCWorkItems ----------------------------
(* Two tasks, two attempts between them, one item.                          *)
EXTENDS WorkItems
============================================================================
