------------------------- MODULE MCAlgorithmHarness -------------------------
(* AlgorithmHarness with two transport threads.                             *)
EXTENDS AlgorithmHarness, TLC

CONSTANTS p1, p2, a1, a2

Symmetric == Permutations(Producers)
=============================================================================
