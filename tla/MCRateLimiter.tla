---------------------------- MODULE MCRateLimiter -----------------------------
(* Small instances of RateLimiter for TLC.                                 *)
EXTENDS RateLimiter, TLC

\* Addresses are interchangeable.
AddressSymmetry == Permutations(Addresses)
===============================================================================
