----------------------------- MODULE MCGymClient -----------------------------
(* Bounded instances of GymClient for TLC. *)
EXTENDS GymClient
=============================================================================
