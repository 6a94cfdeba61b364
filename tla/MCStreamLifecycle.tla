-------------------------- MODULE MCStreamLifecycle --------------------------
(* StreamLifecycle for TLC: a single request, so there is nothing to permute. *)
EXTENDS StreamLifecycle
=============================================================================
