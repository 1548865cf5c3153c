-------------------------- MODULE MCGymConnections --------------------------
(* Bounded instances of GymConnections for TLC. *)
EXTENDS GymConnections
=============================================================================
