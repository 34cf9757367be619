----------------------------- MODULE MCRateLimiter -----------------------------
(* A small instance of RateLimiter.                                          *)
EXTENDS RateLimiter

CONSTANTS c1, c2
================================================================================
