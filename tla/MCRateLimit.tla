---------------------------- MODULE MCRateLimit -----------------------------
(* A small instance of the rate limiter for TLC. *)
EXTENDS RateLimit, TLC

AnyOrder == Permutations(Workers)   \* workers are interchangeable
=============================================================================
