----------------------------- MODULE MCMetricViews ----------------------------
(* Small instances of MetricViews for TLC.                                   *)
EXTENDS MetricViews

CONSTANTS d1, d2

MCPlaceOf == [d \in Devices |-> IF d = d1 THEN 0 ELSE 1]
===============================================================================
