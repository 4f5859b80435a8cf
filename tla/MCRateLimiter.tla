---------------------------- MODULE MCRateLimiter ----------------------------
(* Instance of RateLimiter for TLC.  Two thirds of a token come with each   *)
(* tick, so that refills leave fractions; three ticks fill the bucket.      *)
EXTENDS RateLimiter

CONSTANTS a, b
==============================================================================
