-------------------------- MODULE MCDashboardLayout ---------------------------
(* A scaled-down grid for TLC: 4 columns instead of 12, 3 widgets instead  *)
(* of 24, heights up to 2 instead of 24 and rows up to 4 instead of 1000.  *)
EXTENDS DashboardLayout

\* As DEFAULT_LAYOUT: a full-width panel over a half-width one.
MCStart == <<[x |-> 0, y |-> 0, w |-> 4, h |-> 2],
             [x |-> 2, y |-> 2, w |-> 2, h |-> 2]>>
===============================================================================
