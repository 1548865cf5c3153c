------------------------------ MODULE GymLines -------------------------------
(***************************************************************************)
(* How client_thread of Final_project/integration/server.c puts lines      *)
(* together: recv returns any part of the stream that fits buf, the part   *)
(* is appended to the slot's inbuf (what does not fit is dropped), and     *)
(* every complete line is handled; the rest moves to the front.            *)
(*                                                                         *)
(* Bytes are numbers as in LineChannel, with one constraint: the peer ends *)
(* a line after at most MAX_LINE bytes, newline included.  inbuf holds     *)
(* LINE_BUF_SIZE - 1 bytes and buf RECV_SIZE (1024 and 512 in the code).   *)
(***************************************************************************)
EXTENDS Integers, Sequences

CONSTANTS LINE_BUF_SIZE, RECV_SIZE, MAX_LINE,
          STREAM      \* bound: bytes sent

ASSUME LinesAssumption ==
  /\ LINE_BUF_SIZE \in Nat /\ RECV_SIZE \in Nat \ {0} /\ MAX_LINE \in Nat
  /\ STREAM \in Nat
  /\ MAX_LINE + RECV_SIZE <= LINE_BUF_SIZE

VARIABLES sent, ends,   \* the peer
          received,     \* bytes that recv has taken
          inbuf,
          lineloop,     \* inside the loop over the lines of inbuf
          line          \* the line handled last

linesVars == <<sent, ends, received, inbuf, lineloop, line>>

Interval(a, b) == [k \in 1..(b - a) |-> a + k]

LinesInit ==
  /\ sent = 0 /\ ends = {} /\ received = 0
  /\ inbuf = <<>> /\ lineloop = FALSE /\ line = <<>>

(* The peer: LOGIN, RESERVE ..., one line at a time. *)
WriteLine ==
  \E size \in 1..MAX_LINE :
    /\ sent + size <= STREAM
    /\ sent' = sent + size /\ ends' = ends \cup {sent + size}
    /\ UNCHANGED <<received, inbuf, lineloop, line>>

(* recv and memcpy; n is cut to what is free in inbuf. *)
Fitting_BUG(n) ==                           \* a byte too early
  IF Len(inbuf) + n >= LINE_BUF_SIZE - 1 THEN LINE_BUF_SIZE - 2 - Len(inbuf) ELSE n

Fitting(n) ==
  IF Len(inbuf) + n >= LINE_BUF_SIZE THEN LINE_BUF_SIZE - 1 - Len(inbuf) ELSE n

RecvPart ==
  /\ ~lineloop
  /\ \E n \in 1..RECV_SIZE :
       /\ received + n <= sent
       /\ received' = received + n
       /\ inbuf' = inbuf \o Interval(received, received + Fitting(n))
  /\ lineloop' = TRUE
  /\ UNCHANGED <<sent, ends, line>>

(* strchr finds the first newline. *)
Newline(k) == inbuf[k] \in ends /\ \A j \in 1..(k - 1) : inbuf[j] \notin ends

HandleLine_BUG ==                           \* if, not while
  /\ lineloop
  /\ \E k \in 1..Len(inbuf) :
       /\ Newline(k)
       /\ line' = SubSeq(inbuf, 1, k)
       /\ inbuf' = SubSeq(inbuf, k + 1, Len(inbuf))
  /\ lineloop' = FALSE
  /\ UNCHANGED <<sent, ends, received>>

HandleLine ==
  /\ lineloop
  /\ \E k \in 1..Len(inbuf) :
       /\ Newline(k)
       /\ line' = SubSeq(inbuf, 1, k)
       /\ inbuf' = SubSeq(inbuf, k + 1, Len(inbuf))
  /\ UNCHANGED <<sent, ends, received, lineloop>>

(* No newline is left: the rest stays at the front. *)
KeepRest_BUG ==                             \* inbuf_len = 0
  /\ lineloop /\ \A k \in 1..Len(inbuf) : inbuf[k] \notin ends
  /\ lineloop' = FALSE /\ inbuf' = <<>>
  /\ UNCHANGED <<sent, ends, received, line>>

KeepRest ==
  /\ lineloop /\ \A k \in 1..Len(inbuf) : inbuf[k] \notin ends
  /\ lineloop' = FALSE
  /\ UNCHANGED <<sent, ends, received, inbuf, line>>

Thread == RecvPart \/ HandleLine \/ KeepRest
LinesNext == WriteLine \/ Thread

LinesSpec == LinesInit /\ [][LinesNext]_linesVars

(* The thread is blocked only while nothing is there to be received. *)
LinesFairSpec == LinesSpec /\ WF_linesVars(Thread)

-----------------------------------------------------------------------------
(* Properties. *)

LastByte == IF line = <<>> THEN 0 ELSE line[Len(line)]

LinesTypeOK ==
  /\ sent \in Nat /\ ends \in SUBSET Nat /\ received \in Nat
  /\ inbuf \in Seq(Nat) /\ lineloop \in BOOLEAN /\ line \in Seq(Nat)

(* inbuf holds the bytes between the line handled last and what recv took:  *)
(* nothing is dropped where n is cut (server.c:1187), because before a recv *)
(* there is only the beginning of one line.                                 *)
NothingDropped ==
  /\ inbuf = Interval(LastByte, received)
  /\ Len(inbuf) < LINE_BUF_SIZE
  /\ ~lineloop => Len(inbuf) < MAX_LINE \/ inbuf = <<>>

(* Lines come out whole, in order, however TCP cuts the stream.             *)
Channel == INSTANCE LineChannel
InOrder == Channel!Spec

(* And no line that was sent waits for ever.                                *)
Behind == \E e \in ends : e > LastByte
AllHandled == Behind ~> ~Behind
=============================================================================
