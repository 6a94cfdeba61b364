---------------------------- MODULE MCGovernance ----------------------------
(***************************************************************************)
(* Governance for TLC.  One upstream error per class of the retry and      *)
(* circuit decisions: retried and counted, final and counted, final and    *)
(* not counted.                                                            *)
(***************************************************************************)
EXTENDS Governance, TLC

MCUpstreamErrors == {HTTPError(503), HTTPError(500), HTTPError(400)}

CallSymmetry == Permutations(Streams) \union Permutations(Calls \ Streams)
=============================================================================
