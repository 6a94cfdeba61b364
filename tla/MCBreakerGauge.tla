--------------------------- MODULE MCBreakerGauge ---------------------------
(***************************************************************************)
(* BreakerGauge for TLC.                                                   *)
(***************************************************************************)
EXTENDS BreakerGauge
=============================================================================
