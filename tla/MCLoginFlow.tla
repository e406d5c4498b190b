------------------------------ MODULE MCLoginFlow ------------------------------
(* Small instances of LoginFlow for TLC: one login whose state comes back  *)
(* with up to two codes, and two callbacks that race or replay one another. *)
EXTENDS LoginFlow
===============================================================================
