--------------------------- MODULE MCGatewayChat ---------------------------
(* GatewayChat for TLC.                                                    *)
EXTENDS GatewayChat, TLC

RequestSymmetry == Permutations(Requests)
=============================================================================
