-------------------------- MODULE MCFlightComputer --------------------------
(* The flight computer with its five workers. *)
EXTENDS FlightComputer
=============================================================================
