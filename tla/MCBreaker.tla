----------------------------- MODULE MCBreaker -----------------------------
(***************************************************************************)
(* Breaker for TLC: callers are interchangeable.                           *)
(***************************************************************************)
EXTENDS Breaker, TLC

CallerSymmetry == Permutations(Callers)
=============================================================================
