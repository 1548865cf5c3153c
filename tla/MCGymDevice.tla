----------------------------- MODULE MCGymDevice -----------------------------
(* A bounded instance of GymDevice for TLC. *)
EXTENDS GymDevice
=============================================================================
