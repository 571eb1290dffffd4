---- MODULE MCGatewayAdapter ----
(* An instance of GatewayAdapter for TLC: two sensors, ids that are reused.  *)
EXTENDS GatewayAdapter

CONSTANTS i1, i2
====
