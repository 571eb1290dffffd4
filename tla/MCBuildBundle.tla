---------------------------- MODULE MCBuildBundle ----------------------------
(* BuildBundle with a dependency beside the two wheels.                     *)
EXTENDS BuildBundle

CONSTANTS plugin, sdk, dep
=============================================================================
