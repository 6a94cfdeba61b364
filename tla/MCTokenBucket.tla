--------------------------- MODULE MCTokenBucket ---------------------------
(* TokenBucket for TLC: one client, so there is nothing to permute.         *)
EXTENDS TokenBucket
=============================================================================
