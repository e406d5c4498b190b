----------------------------- MODULE MCLayoutSync -----------------------------
(* Small instances of LayoutSync for TLC: three edits, a reset and a retry, *)
(* over any layout stored on an earlier visit.                             *)
EXTENDS LayoutSync
===============================================================================
