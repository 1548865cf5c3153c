----------------------------- MODULE MCGymServer -----------------------------
(* Bounded instances of GymServer for TLC. *)
EXTENDS GymServer

(* A number below zero, and every count there may be. *)
AnyReply == {-1} \cup 0..USAGE_TIME

(* Users are interchangeable: no action tells them apart. *)
UserSymmetry == Permutations(Users)
=============================================================================
