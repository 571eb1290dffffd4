---- MODULE MCSystemTest ----
(* Instances of SystemTest for TLC.                                         *)
EXTENDS SystemTest
====
