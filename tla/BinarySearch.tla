---------------------------- MODULE BinarySearch ----------------------------
(***************************************************************************)
(* What the guesser of lab6 promises, without signals and shared memory:   *)
(* it halves the range low..high around a number that somebody else knows. *)
(***************************************************************************)
EXTENDS SearchRange

VARIABLES secret, low, high, found

vars == <<secret, low, high, found>>

Mid == low + (high - low) \div 2

Init == secret \in Secrets /\ low = 1 /\ high = HIGH /\ found = FALSE

TooSmall == Mid < secret /\ low' = Mid + 1 /\ UNCHANGED <<secret, high, found>>

TooLarge == Mid > secret /\ high' = Mid - 1 /\ UNCHANGED <<secret, low, found>>

Right == Mid = secret /\ found' = TRUE /\ UNCHANGED <<secret, low, high>>

Next == ~found /\ (TooSmall \/ TooLarge \/ Right)

Spec == Init /\ [][Next]_vars

-----------------------------------------------------------------------------
(* The number is never cut off, and so low and high never cross: a range    *)
(* that misses it would be searched for ever (guess.c 78-85).               *)
SecretInRange == low \in 1..secret /\ high \in secret..HIGH

(* Every wrong guess at least halves what is left: a range of 2^k - 1       *)
(* numbers is searched in k guesses, one a second (guess.c 64, 78-85).      *)
Halves ==
  [][<<low, high>>' # <<low, high>> => 2 * (high' - low' + 1) <= high - low + 1]_vars
=============================================================================
