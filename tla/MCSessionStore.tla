---------------------------- MODULE MCSessionStore ----------------------------
(* Small instances of SessionStore for TLC.                                *)
EXTENDS SessionStore, TLC

\* Requests are interchangeable.
RequestSymmetry == Permutations(Requests)
===============================================================================
