--------------------------- MODULE MCGatewaySession ---------------------------
(* GatewaySession with two calls, which are interchangeable.                   *)
EXTENDS GatewaySession, TLC

CONSTANTS c1, c2

CallSymmetry == Permutations({c1, c2})
=============================================================================
