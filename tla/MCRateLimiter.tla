---------------------------- MODULE MCRateLimiter ----------------------------
(***************************************************************************)
(* Small instances of RateLimiter: two units buy a request, so that a      *)
(* bucket can hold half a token.                                           *)
(***************************************************************************)
EXTENDS RateLimiter

CONSTANTS k1, k2, k3
=============================================================================
