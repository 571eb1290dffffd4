---- MODULE MCSensorHarness ----
(* Instances of SensorHarness for TLC: a sensor that is polled, one that    *)
(* pushes its samples until it is told to stop, and one that cannot be told.*)
EXTENDS SensorHarness

CONSTANTS s1, s2, s3
====
