------------------------- MODULE MCIntermediateStage -------------------------
(* IntermediateStage with three sensors.                                    *)
EXTENDS IntermediateStage

CONSTANTS a1, a2, a3
=============================================================================
