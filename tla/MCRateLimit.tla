---------------------------- MODULE MCRateLimit -----------------------------
(* Instances of RateLimit: more attempts at once than the limit allows.    *)
EXTENDS RateLimit

CONSTANTS a1, a2, a3
=============================================================================
