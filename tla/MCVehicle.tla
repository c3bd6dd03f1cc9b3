----------------------------- MODULE MCVehicle -----------------------------
(* Instances of Vehicle for TLC. *)
EXTENDS Vehicle
=============================================================================
