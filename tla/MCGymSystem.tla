----------------------------- MODULE MCGymSystem -----------------------------
(* Bounded instances of GymSystem for TLC. *)
EXTENDS GymSystem

(* Users are interchangeable: no action tells them apart. *)
UserSymmetry == Permutations(Users)
=============================================================================
