------------------------------ MODULE MCRouter ------------------------------
(* Router for TLC.                                                          *)
EXTENDS Router, TLC

RequestSymmetry == Permutations(Requests)

\* One target that outweighs the others, and two that do.
MCWeights == {[t \in Targets |-> v[t + 1]] : v \in {<<3, 1, 1>>, <<1, 2, 2>>}}
MCEqualWeights == {[t \in Targets |-> 1]}
=============================================================================
