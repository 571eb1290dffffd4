--------------------------- MODULE MCGatewayClient ---------------------------
(* GatewayClient with two requests and two devices. *)
EXTENDS GatewayClient, TLC

CONSTANTS r1, r2, d1, d2

Symmetric == Permutations(Requests) \cup Permutations(Devices)
=============================================================================
