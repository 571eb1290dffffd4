----------------------------- MODULE MCPluginEnv -----------------------------
(* PluginEnv with two plugins.                                              *)
EXTENDS PluginEnv, TLC

CONSTANTS p1, p2

Symmetric == Permutations(Plugins)
=============================================================================
