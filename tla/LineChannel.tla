----------------------------- MODULE LineChannel -----------------------------
(***************************************************************************)
(* What the server's client_thread promises about one connection: lines    *)
(* come out whole, once each and in the order in which they were sent.     *)
(*                                                                         *)
(* The bytes of the stream are numbered from 1; ends are the numbers of    *)
(* the newlines, so a line is the interval of bytes up to one.             *)
(***************************************************************************)
EXTENDS Integers, Sequences

VARIABLES
  sent, ends,  \* bytes sent so far, and which of them end a line
  line         \* the line handled last, with its newline

(* The bytes after a up to b. *)
Interval(a, b) == [k \in 1..(b - a) |-> a + k]

LastByte == IF line = <<>> THEN 0 ELSE line[Len(line)]

Init == sent = 0 /\ ends = {} /\ line = <<>>

Write ==
  /\ sent' \in Nat /\ sent' > sent
  /\ ends' = ends \cup {sent'}
  /\ line' = line

Deliver ==
  \E end \in ends :
    /\ end > LastByte /\ \A e \in ends : e <= LastByte \/ e >= end
    /\ line' = Interval(LastByte, end)
    /\ UNCHANGED <<sent, ends>>

Next == Write \/ Deliver

Spec == Init /\ [][Next]_<<sent, ends, line>>
=============================================================================
