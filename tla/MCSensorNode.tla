---------------------------- MODULE MCSensorNode ----------------------------
(* A sensor node with few orbits. *)
EXTENDS SensorNode
=============================================================================
