-------------------------- MODULE MCComputeManager --------------------------
(* ComputeManager with two producers.                                       *)
EXTENDS ComputeManager, TLC

CONSTANTS p1, p2, a1, a2

Symmetric == Permutations(Producers) \cup Permutations(Addresses)
=============================================================================
