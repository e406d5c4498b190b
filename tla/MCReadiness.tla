------------------------------ MODULE MCReadiness -----------------------------
(* Small instances of Readiness for TLC: one poller and at most one        *)
(* request, which ask again and again, over two faults from any health.    *)
EXTENDS Readiness
===============================================================================
