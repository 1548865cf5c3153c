---------------------------- MODULE SearchRange ----------------------------
(* What the two programs of lab6 are started with. *)
EXTENDS Integers

CONSTANTS HIGH,     \* the upper bound guess.c gets
          Secrets   \* the numbers game.c may get

ASSUME RangeAssumption == HIGH \in Nat \ {0} /\ Secrets \subseteq 1..HIGH
=============================================================================
