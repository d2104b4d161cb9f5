----------------------------- MODULE MCRateLimiter -----------------------------
(* The limiter with four nodes, callers free to release what they never took. *)
EXTENDS RateLimiter
=============================================================================
