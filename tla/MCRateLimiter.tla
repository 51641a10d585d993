---------------------------- MODULE MCRateLimiter ----------------------------
(***************************************************************************)
(* A small instance of RateLimiter for TLC: the clients are                *)
(* interchangeable.                                                        *)
(***************************************************************************)
EXTENDS RateLimiter, TLC

Symmetry == Permutations(Clients)
=============================================================================
