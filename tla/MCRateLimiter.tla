----------------------------- MODULE MCRateLimiter -----------------------------
(* RateLimiter on a small instance; the Lambdas are alike.                     *)
EXTENDS RateLimiter, TLC

Alike == Permutations(Clients)
================================================================================
