--------------------------- MODULE ProgramsProofs ---------------------------
(***************************************************************************)
(* Proofs about the smaller programs, for every value of their constants,  *)
(* each about the program's own specification.                             *)
(***************************************************************************)
EXTENDS MCPrograms, SequenceTheorems, FiniteSetTheorems, NaturalsInduction,
        WellFoundedInduction, TLAPS

-----------------------------------------------------------------------------
(* GymLines, for any sizes in which the longest line and one recv fit the   *)
(* buffer together: nothing is dropped, and the buffer of a connection      *)
(* implements LineChannel, which hands out whole lines.                     *)
(*                                                                          *)
(* The argument: between two calls of recv, inbuf has no newline, and as    *)
(* every byte is at most MAX_LINE before the end of its line, fewer than    *)
(* MAX_LINE bytes are there; so what recv brings fits.                      *)

(* Ends of lines are where the peer has put them, close to one another.     *)
LinesEnd ==
  /\ ends \subseteq 1..sent
  /\ \A x \in Nat : x < sent => \E e \in ends : x < e /\ e <= x + MAX_LINE

(* What has been handled, received and sent are prefixes of one another.    *)
StreamPrefixes ==
  /\ LastByte \in Nat /\ LastByte <= received /\ received <= sent
  /\ received - LastByte < LINE_BUF_SIZE
  /\ ~lineloop => \A e \in ends : e <= LastByte \/ received < e

LInv == LinesTypeOK /\ LinesEnd /\ StreamPrefixes /\ inbuf = Interval(LastByte, received)

-----------------------------------------------------------------------------
(* Intervals: length and elements, and concatenation.                       *)
LEMMA IntervalFacts ==
  ASSUME NEW a \in Nat, NEW b \in Nat, a <= b
  PROVE  /\ Interval(a, b) \in Seq(Nat) /\ Len(Interval(a, b)) = b - a
         /\ \A k \in 1..(b - a) : Interval(a, b)[k] = a + k
<1>1. b - a \in Nat /\ Interval(a, b) = [k \in 1..(b - a) |-> a + k] BY DEF Interval
<1>2. \A k \in 1..(b - a) : a + k \in Nat OBVIOUS
<1>3. Interval(a, b) \in [1..(b - a) -> Nat] BY <1>1, <1>2
<1>4. Interval(a, b) \in Seq(Nat) /\ DOMAIN Interval(a, b) = 1..(b - a)
  BY <1>1, <1>3
<1>5. Len(Interval(a, b)) = b - a BY <1>1, <1>4
<1> QED BY <1>1, <1>4, <1>5

LEMMA IntervalConcat ==
  ASSUME NEW a \in Nat, NEW b \in Nat, NEW c \in Nat, a <= b, b <= c
  PROVE  Interval(a, b) \o Interval(b, c) = Interval(a, c)
<1> DEFINE s == Interval(a, b)  t == Interval(b, c)  u == Interval(a, c)
<1>1. s \in Seq(Nat) /\ Len(s) = b - a /\ \A k \in 1..(b - a) : s[k] = a + k
  BY IntervalFacts
<1>2. t \in Seq(Nat) /\ Len(t) = c - b /\ \A k \in 1..(c - b) : t[k] = b + k
  BY IntervalFacts
<1>3. u \in Seq(Nat) /\ Len(u) = c - a /\ \A k \in 1..(c - a) : u[k] = a + k
  <2>1. a <= c OBVIOUS
  <2> QED BY <2>1, IntervalFacts
<1> HIDE DEF s, t, u
<1>4. /\ s \o t \in Seq(Nat) /\ Len(s \o t) = Len(s) + Len(t)
      /\ \A k \in 1..(Len(s) + Len(t)) :
           (s \o t)[k] = IF k <= Len(s) THEN s[k] ELSE t[k - Len(s)]
  BY <1>1, <1>2, ConcatProperties
<1>5. Len(s \o t) = Len(u) BY <1>1, <1>2, <1>3, <1>4
<1>6. ASSUME NEW k \in 1..Len(s \o t) PROVE (s \o t)[k] = u[k]
  <2>1. k \in 1..(c - a) /\ (s \o t)[k] = IF k <= b - a THEN s[k] ELSE t[k - (b - a)]
    BY <1>1, <1>2, <1>4, SMTT(30)
  <2>2. CASE k <= b - a BY <2>1, <2>2, <1>1, <1>3
  <2>3. CASE k > b - a
    <3>1. k - (b - a) \in 1..(c - b) BY <2>1, <2>3
    <3> QED BY <2>1, <2>3, <3>1, <1>2, <1>3
  <2> QED BY <2>1, <2>2, <2>3
<1>7. s \o t = u BY <1>3, <1>4, <1>5, <1>6, SeqEqual
<1> QED BY <1>7 DEF s, t, u

-----------------------------------------------------------------------------
(* The steps.                                                               *)

(* Between two calls of recv there is only the beginning of a line.         *)
LEMMA RestIsShort ==
  ASSUME LInv, ~lineloop
  PROVE  received - LastByte < MAX_LINE \/ received = LastByte
<1>1. CASE LastByte < received
  <2>1. LastByte \in Nat /\ received \in Nat /\ LastByte < sent
    BY <1>1 DEF LInv, LinesTypeOK, StreamPrefixes
  <2>2. PICK e \in ends : LastByte < e /\ e <= LastByte + MAX_LINE
    BY <2>1 DEF LInv, LinesEnd
  <2>3. e \in Nat /\ received < e BY <2>1, <2>2 DEF LInv, LinesTypeOK, StreamPrefixes
  <2> QED BY <2>1, <2>2, <2>3, LinesAssumption
<1> QED BY <1>1 DEF LInv, LinesTypeOK, StreamPrefixes

LEMMA InitLInv == LinesInit => LInv
<1> SUFFICES ASSUME LinesInit PROVE LInv
  OBVIOUS
<1>1. LastByte = 0 BY DEF LinesInit, LastByte
<1>2. Interval(0, 0) \in Seq(Nat) /\ Len(Interval(0, 0)) = 0 BY IntervalFacts
<1>3. inbuf = Interval(LastByte, received)
  <2>1. Interval(0, 0) = <<>> BY <1>2
  <2> QED BY <1>1, <2>1 DEF LinesInit
<1>4. LinesTypeOK /\ LinesEnd
  <2>1. \A x \in Nat : ~(x < 0) OBVIOUS
  <2>2. <<>> \in Seq(Nat) OBVIOUS
  <2> QED BY <2>1, <2>2 DEF LinesInit, LinesTypeOK, LinesEnd
<1>5. StreamPrefixes BY <1>1, LinesAssumption DEF LinesInit, StreamPrefixes
<1> QED BY <1>3, <1>4, <1>5 DEF LInv

LEMMA WriteLineKeeps ==
  ASSUME LInv, WriteLine
  PROVE  LInv'
<1>1. PICK size \in 1..MAX_LINE :
        sent' = sent + size /\ ends' = ends \cup {sent + size}
  BY DEF WriteLine
<1>2. /\ sent \in Nat /\ received \in Nat /\ size \in Nat \ {0} /\ MAX_LINE \in Nat
      /\ ends \subseteq Nat /\ size <= MAX_LINE
  BY LinesAssumption DEF LInv, LinesTypeOK
<1>3. LastByte' = LastByte /\ UNCHANGED <<received, inbuf, lineloop, line>>
  BY DEF WriteLine, LastByte
<1>4. LinesTypeOK' BY <1>1, <1>2, <1>3 DEF LInv, LinesTypeOK
<1>5. LinesEnd'
  <2>1. ends' \subseteq 1..sent' BY <1>1, <1>2 DEF LInv, LinesEnd
  <2>2. ASSUME NEW x \in Nat, x < sent' PROVE \E e \in ends' : x < e /\ e <= x + MAX_LINE
    <3>1. CASE x < sent BY <1>1, <3>1 DEF LInv, LinesEnd
    <3>2. CASE x >= sent
      <4>1. x < sent + size /\ sent + size <= x + MAX_LINE BY <1>1, <1>2, <2>2, <3>2
      <4> QED BY <1>1, <4>1
    <3> QED BY <1>2, <3>1, <3>2
  <2> QED BY <2>1, <2>2 DEF LinesEnd
<1>6. StreamPrefixes'
  <2>1. ~lineloop' => \A e \in ends' : e <= LastByte' \/ received' < e
    BY <1>1, <1>2, <1>3 DEF LInv, StreamPrefixes
  <2> QED BY <1>1, <1>2, <1>3, <2>1 DEF LInv, StreamPrefixes
<1>7. (inbuf = Interval(LastByte, received))'
  BY <1>3 DEF LInv
<1> QED BY <1>4, <1>5, <1>6, <1>7 DEF LInv

(* What recv brings is not cut.                                             *)
LEMMA RecvPartKeeps ==
  ASSUME LInv, RecvPart
  PROVE  LInv'
<1>1. PICK n \in 1..RECV_SIZE :
        /\ received + n <= sent /\ received' = received + n
        /\ inbuf' = inbuf \o Interval(received, received + Fitting(n))
  BY DEF RecvPart
<1>2. /\ sent \in Nat /\ received \in Nat /\ n \in Nat \ {0} /\ n <= RECV_SIZE
      /\ LastByte \in Nat /\ LastByte <= received /\ MAX_LINE \in Nat
      /\ LINE_BUF_SIZE \in Nat /\ RECV_SIZE \in Nat /\ MAX_LINE + RECV_SIZE <= LINE_BUF_SIZE
  BY LinesAssumption DEF LInv, LinesTypeOK, StreamPrefixes
<1>3. LastByte' = LastByte /\ UNCHANGED <<sent, ends, line>> /\ lineloop' = TRUE
  BY DEF RecvPart, LastByte
<1>4. received - LastByte + n < LINE_BUF_SIZE
  <2>1. received - LastByte < MAX_LINE \/ received = LastByte
    BY RestIsShort DEF RecvPart
  <2>2. PICK e \in ends : received < e /\ e <= received + MAX_LINE
    <3>1. received < sent BY <1>1, <1>2
    <3> QED BY <1>2, <3>1 DEF LInv, LinesEnd
  <2>3. MAX_LINE > 0 BY <1>2, <2>2 DEF LInv, LinesTypeOK
  <2> QED BY <1>2, <2>1, <2>3
<1>5. Len(inbuf) = received - LastByte
  BY <1>2, IntervalFacts DEF LInv
<1>6. Fitting(n) = n
  <2>1. ~(Len(inbuf) + n >= LINE_BUF_SIZE) BY <1>2, <1>4, <1>5
  <2> QED BY <2>1 DEF Fitting
<1>7. inbuf' = Interval(LastByte, received')
  <2>1. received + n \in Nat /\ received <= received + n BY <1>2
  <2>2. Interval(LastByte, received) \o Interval(received, received + n)
          = Interval(LastByte, received + n)
    BY <1>2, <2>1, IntervalConcat
  <2> QED BY <1>1, <1>6, <2>2 DEF LInv
<1>8. LinesTypeOK'
  <2>1. received' \in Nat /\ LastByte <= received' BY <1>1, <1>2
  <2>2. inbuf' \in Seq(Nat) BY <1>2, <1>7, <2>1, IntervalFacts
  <2> QED BY <1>3, <2>1, <2>2 DEF LInv, LinesTypeOK
<1>9. LinesEnd' BY <1>3 DEF LInv, LinesEnd
<1>10. StreamPrefixes' BY <1>1, <1>2, <1>3, <1>4 DEF StreamPrefixes
<1> QED BY <1>3, <1>7, <1>8, <1>9, <1>10 DEF LInv

(* The line that is handled: the bytes after LastByte up to the next end.   *)
LEMMA HandledLine ==
  ASSUME LInv, HandleLine
  PROVE  \E end \in ends :
           /\ end > LastByte /\ end <= received
           /\ \A e \in ends : e <= LastByte \/ e >= end
           /\ line' = Interval(LastByte, end) /\ LastByte' = end
           /\ inbuf' = Interval(end, received)
<1>1. PICK k \in 1..Len(inbuf) :
        /\ inbuf[k] \in ends /\ \A j \in 1..(k - 1) : inbuf[j] \notin ends
        /\ line' = SubSeq(inbuf, 1, k)
        /\ inbuf' = SubSeq(inbuf, k + 1, Len(inbuf))
  BY DEF HandleLine, Newline
<1>2. /\ received \in Nat /\ LastByte \in Nat /\ LastByte <= received /\ ends \subseteq Nat
  BY DEF LInv, LinesTypeOK, StreamPrefixes
<1>3. /\ Len(inbuf) = received - LastByte
      /\ \A j \in 1..(received - LastByte) : inbuf[j] = LastByte + j
  BY <1>2, IntervalFacts DEF LInv
<1> DEFINE end == LastByte + k
<1>4. /\ k \in Nat /\ 0 < k /\ k <= received - LastByte /\ end \in Nat /\ end = LastByte + k
      /\ LastByte < end /\ LastByte <= end /\ end <= received /\ end - LastByte = k
  BY <1>1, <1>2, <1>3
<1>5. end \in ends BY <1>1, <1>3
<1> HIDE DEF end
<1>6. ASSUME NEW e \in ends, ~(e <= LastByte), ~(e >= end) PROVE FALSE
  <2>1. e \in Nat BY <1>2
  <2>2. e - LastByte \in 1..(k - 1) /\ LastByte + (e - LastByte) = e
    BY <1>2, <1>4, <1>6, <2>1
  <2>3. inbuf[e - LastByte] = e BY <1>2, <1>3, <1>4, <2>1, <2>2
  <2> QED BY <1>1, <2>2, <2>3
<1>7. line' = Interval(LastByte, end)
  <2>1. /\ Interval(LastByte, end) \in Seq(Nat) /\ Len(Interval(LastByte, end)) = k
        /\ \A j \in 1..k : Interval(LastByte, end)[j] = LastByte + j
    BY <1>2, <1>4, IntervalFacts
  <2>2. \A j \in 1..k : inbuf[j] \in Nat BY <1>2, <1>3, <1>4
  <2>3. /\ line' \in Seq(Nat) /\ Len(line') = IF 1 <= k THEN k - 1 + 1 ELSE 0
        /\ \A j \in 1..(k - 1 + 1) : line'[j] = inbuf[1 + j - 1]
    BY <1>1, <1>4, <2>2, SubSeqProperties
  <2>4. Len(line') = k /\ \A j \in 1..k : line'[j] = inbuf[j] BY <1>4, <2>3
  <2>5. \A j \in 1..k : line'[j] = Interval(LastByte, end)[j] BY <1>3, <1>4, <2>1, <2>4
  <2> QED BY <2>1, <2>3, <2>4, <2>5, SeqEqual
<1>8. inbuf' = Interval(end, received)
  <2> DEFINE rest == received - end
  <2>1. rest \in Nat /\ rest = received - end /\ Len(inbuf) = k + rest BY <1>2, <1>3, <1>4
  <2> HIDE DEF rest
  <2>2. /\ Interval(end, received) \in Seq(Nat) /\ Len(Interval(end, received)) = rest
        /\ \A j \in 1..rest : Interval(end, received)[j] = end + j
    BY <1>2, <1>4, <2>1, IntervalFacts
  <2>3. \A j \in (k + 1)..(k + rest) : inbuf[j] \in Nat BY <1>2, <1>3, <1>4, <2>1
  <2>4. k + 1 \in Int /\ k + rest \in Int BY <1>4, <2>1
  <2>5. /\ inbuf' \in Seq(Nat)
        /\ Len(inbuf') = IF k + 1 <= k + rest THEN (k + rest) - (k + 1) + 1 ELSE 0
        /\ \A j \in 1..((k + rest) - (k + 1) + 1) : inbuf'[j] = inbuf[(k + 1) + j - 1]
    BY <1>1, <2>1, <2>3, <2>4, SubSeqProperties
  <2>6. Len(inbuf') = rest /\ \A j \in 1..rest : inbuf'[j] = inbuf[k + j]
    BY <1>4, <2>1, <2>5
  <2>7. ASSUME NEW j \in 1..rest PROVE inbuf'[j] = Interval(end, received)[j]
    <3>1. k + j \in 1..(received - LastByte) BY <1>2, <1>4, <2>1
    <3>2. inbuf[k + j] = LastByte + (k + j) BY <1>3, <3>1
    <3> QED BY <1>2, <1>4, <2>2, <2>6, <3>2
  <2> QED BY <2>2, <2>5, <2>6, <2>7, SeqEqual
<1>9. LastByte' = end
  <2>1. /\ Interval(LastByte, end) \in Seq(Nat) /\ Len(Interval(LastByte, end)) = k
        /\ \A j \in 1..k : Interval(LastByte, end)[j] = LastByte + j
    BY <1>2, <1>4, IntervalFacts
  <2>2. Len(line') = k /\ line'[k] = end /\ line' # <<>>
    BY <1>4, <1>7, <2>1
  <2> QED BY <2>2 DEF LastByte
<1> QED BY <1>4, <1>5, <1>6, <1>7, <1>8, <1>9

LEMMA HandleLineKeeps ==
  ASSUME LInv, HandleLine
  PROVE  LInv'
<1>1. PICK end \in ends :
        /\ end > LastByte /\ end <= received
        /\ line' = Interval(LastByte, end) /\ LastByte' = end
        /\ inbuf' = Interval(end, received)
  BY HandledLine
<1>2. /\ received \in Nat /\ LastByte \in Nat /\ end \in Nat /\ LINE_BUF_SIZE \in Nat
      /\ received - LastByte < LINE_BUF_SIZE /\ LastByte <= end
  BY <1>1, LinesAssumption DEF LInv, LinesTypeOK, StreamPrefixes
<1>3. UNCHANGED <<sent, ends, received, lineloop>> /\ lineloop = TRUE
  BY DEF HandleLine, LInv, LinesTypeOK
<1>4. line' \in Seq(Nat) /\ inbuf' \in Seq(Nat) BY <1>1, <1>2, IntervalFacts
<1>5. LinesTypeOK' BY <1>3, <1>4 DEF LInv, LinesTypeOK
<1>6. LinesEnd' BY <1>3 DEF LInv, LinesEnd
<1>7. StreamPrefixes' BY <1>1, <1>2, <1>3 DEF LInv, StreamPrefixes
<1> QED BY <1>1, <1>3, <1>5, <1>6, <1>7 DEF LInv

(* When no newline is left, no end is among the bytes received.             *)
LEMMA KeepRestKeeps ==
  ASSUME LInv, KeepRest
  PROVE  LInv'
<1>1. UNCHANGED <<sent, ends, received, inbuf, line>> /\ lineloop' = FALSE /\ LastByte' = LastByte
  BY DEF KeepRest, LastByte
<1>2. ASSUME NEW e \in ends, ~(e <= LastByte), ~(received < e) PROVE FALSE
  <2>1. e \in Nat /\ received \in Nat /\ LastByte \in Nat /\ LastByte <= received
    BY DEF LInv, LinesTypeOK, StreamPrefixes
  <2>2. e - LastByte \in 1..(received - LastByte) /\ LastByte + (e - LastByte) = e
    BY <1>2, <2>1
  <2>3. inbuf[e - LastByte] = e /\ Len(inbuf) = received - LastByte
    <3>1. /\ Len(inbuf) = received - LastByte
          /\ \A j \in 1..(received - LastByte) : inbuf[j] = LastByte + j
      BY <2>1, IntervalFacts DEF LInv
    <3> QED BY <2>2, <3>1
  <2> QED BY <2>2, <2>3 DEF KeepRest
<1>3. StreamPrefixes' BY <1>1, <1>2 DEF LInv, StreamPrefixes
<1>4. LinesTypeOK' /\ LinesEnd' BY <1>1 DEF LInv, LinesTypeOK, LinesEnd
<1> QED BY <1>1, <1>3, <1>4 DEF LInv

LEMMA NextLInv == LInv /\ [LinesNext]_linesVars => LInv'
<1> SUFFICES ASSUME LInv, [LinesNext]_linesVars PROVE LInv'
  OBVIOUS
<1>1. CASE WriteLine BY <1>1, WriteLineKeeps
<1>2. CASE RecvPart BY <1>2, RecvPartKeeps
<1>3. CASE HandleLine BY <1>3, HandleLineKeeps
<1>4. CASE KeepRest BY <1>4, KeepRestKeeps
<1>5. CASE UNCHANGED linesVars
  BY <1>5 DEF linesVars, LInv, LinesTypeOK, LinesEnd, StreamPrefixes, LastByte
<1> QED BY <1>1, <1>2, <1>3, <1>4, <1>5 DEF LinesNext, Thread

LEMMA LInvHolds == LinesSpec => []LInv
<1>1. LInv /\ [LinesNext]_linesVars => LInv' BY NextLInv
<1> QED BY <1>1, InitLInv, PTL DEF LinesSpec

(* Nothing is dropped where n is cut, for any MAX_LINE and RECV_SIZE that   *)
(* fit LINE_BUF_SIZE together (512 each into 1024): server.c:1187.          *)
THEOREM NothingIsDropped == LinesSpec => []NothingDropped
<1>1. LInv => NothingDropped
  <2> SUFFICES ASSUME LInv PROVE NothingDropped
    OBVIOUS
  <2>1. received \in Nat /\ LastByte \in Nat /\ LastByte <= received
    BY DEF LInv, LinesTypeOK, StreamPrefixes
  <2>2. Interval(LastByte, received) \in Seq(Nat)
        /\ Len(Interval(LastByte, received)) = received - LastByte
    BY <2>1, IntervalFacts
  <2>3. Len(inbuf) < LINE_BUF_SIZE BY <2>2 DEF LInv, StreamPrefixes
  <2>4. ASSUME ~lineloop PROVE Len(inbuf) < MAX_LINE \/ inbuf = <<>>
    <3>1. CASE received - LastByte < MAX_LINE BY <2>2, <3>1 DEF LInv
    <3>2. CASE received = LastByte
      <4>1. Len(inbuf) = 0 /\ inbuf \in Seq(Nat) BY <2>1, <2>2, <3>2 DEF LInv
      <4> QED BY <4>1
    <3> QED BY <2>4, <3>1, <3>2, RestIsShort
  <2> QED BY <2>3, <2>4 DEF NothingDropped, LInv
<1> QED BY <1>1, LInvHolds, PTL

(* However TCP cuts the stream, lines are handled whole, once each and in   *)
(* the order in which they were sent (client_thread, server.c:1182).        *)
THEOREM LinesInOrder == LinesSpec => InOrder
<1>1. LinesInit => Channel!Init BY DEF LinesInit, Channel!Init
<1>2. LInv /\ [LinesNext]_linesVars => [Channel!Next]_<<sent, ends, line>>
  <2> SUFFICES ASSUME LInv, [LinesNext]_linesVars
               PROVE  Channel!Next \/ UNCHANGED <<sent, ends, line>>
    OBVIOUS
  <2>1. CASE WriteLine
    <3>1. Channel!Write
      BY <2>1, LinesAssumption DEF WriteLine, Channel!Write, LInv, LinesTypeOK
    <3> QED BY <3>1 DEF Channel!Next
  <2>2. CASE HandleLine
    <3>1. Channel!LastByte = LastByte BY DEF Channel!LastByte, LastByte
    <3>2. \A a, b : Channel!Interval(a, b) = Interval(a, b) BY DEF Channel!Interval, Interval
    <3>3. Channel!Deliver
      BY <2>2, <3>1, <3>2, HandledLine DEF Channel!Deliver, HandleLine
    <3> QED BY <3>3 DEF Channel!Next
  <2>3. CASE RecvPart BY <2>3 DEF RecvPart
  <2>4. CASE KeepRest BY <2>4 DEF KeepRest
  <2>5. CASE UNCHANGED linesVars BY <2>5 DEF linesVars
  <2> QED BY <2>1, <2>2, <2>3, <2>4, <2>5 DEF LinesNext, Thread
<1> QED BY <1>1, <1>2, LInvHolds, PTL DEF LinesSpec, InOrder, Channel!Spec

-----------------------------------------------------------------------------
(* LedDriver.  A call that is alone has the driver to itself: while the     *)
(* module is loading that is gpio_on(0x00) of the loading, later a writer.  *)

(* What is registered when the loading is at a step: everything tried so    *)
(* far, short of what failed unnoticed; and what was undone at the end.     *)
HeldInv ==
  /\ module \in {"unloaded", "region"} => held = {}
  /\ module = "cdev" => held = {"region"}
  /\ module = "class" => held = {"region", "cdev"}
  /\ module \in {"device", "pins", "clear", "live"} =>
       {"region", "cdev"} \subseteq held /\ "class" \in held \cup failed
  /\ module \in {"pins", "clear", "live"} => "device" \in held \cup failed
  /\ module \in {"unloaded", "region", "cdev", "class", "device"} => requested = 0
  /\ module \notin {"unloaded", "oops"} => vain = {}
  /\ module = "unloaded" => vain \subseteq failed

Undisturbed ==
  /\ Busy(Loader) => module = "clear"
  /\ \A w \in Callers : Busy(w) /\ call[w].alone =>
       /\ \A v \in Callers \ {w} : ~Busy(v)
       /\ w = Loader \/ module = "live"

(* The pins that gpio_on has set show the character.                        *)
PinsSet ==
  \A w \in Callers : call[w].pc = "gpio_on" =>
    /\ call[w].text # <<>> /\ Head(call[w].text) \in DOMAIN seg_map
    /\ call[w].alone => \A i \in Pins : i < call[w].pin =>
         (i \in lit <=> i \in seg_map[Head(call[w].text)])

LedInv == LedTypeOK /\ HeldInv /\ Undisturbed /\ PinsSet

(* What the steps of a call change in its record.                           *)
LEMMA IdleCall == NoCall \in Calls /\ NoCall.pc = "none"
<1>1. <<>> \in Seq(Chars) /\ 0 \in 0..7 OBVIOUS
<1>2. QED BY <1>1 DEF NoCall, Calls

LEMMA NewCall ==
  ASSUME NEW p \in {"none", "next", "gpio_on"}, NEW t \in Seq(Chars), NEW n \in 0..7,
         NEW a \in BOOLEAN
  PROVE  [pc |-> p, text |-> t, pin |-> n, alone |-> a] \in Calls
  BY DEF Calls

LEMMA CallFields ==
  ASSUME NEW r \in Calls
  PROVE  /\ r.pc \in {"none", "next", "gpio_on"} /\ r.text \in Seq(Chars)
         /\ r.pin \in 0..7 /\ r.alone \in BOOLEAN
  BY DEF Calls

LEMMA TextUpdate ==
  ASSUME NEW r \in Calls, NEW t \in Seq(Chars)
  PROVE  LET u == [r EXCEPT !.text = t]
         IN  u \in Calls /\ u.pc = r.pc /\ u.text = t /\ u.pin = r.pin /\ u.alone = r.alone
  BY DEF Calls

LEMMA PinUpdate ==
  ASSUME NEW r \in Calls, NEW n \in 0..7
  PROVE  LET u == [r EXCEPT !.pin = n]
         IN  u \in Calls /\ u.pc = r.pc /\ u.text = r.text /\ u.pin = n /\ u.alone = r.alone
  BY DEF Calls

LEMMA AloneUpdate ==
  ASSUME NEW r \in Calls
  PROVE  LET u == [r EXCEPT !.alone = FALSE]
         IN  u \in Calls /\ u.pc = r.pc /\ u.text = r.text /\ u.pin = r.pin /\ u.alone = FALSE
  BY DEF Calls

LEMMA GpioUpdate ==
  ASSUME NEW r \in Calls
  PROVE  LET u == [r EXCEPT !.pc = "gpio_on", !.pin = 0]
         IN  u \in Calls /\ u.pc = "gpio_on" /\ u.text = r.text /\ u.pin = 0 /\ u.alone = r.alone
<1>1. 0 \in 0..7 OBVIOUS
<1>2. [r EXCEPT !.pc = "gpio_on"] \in Calls BY DEF Calls
<1>3. QED BY <1>1, <1>2, PinUpdate DEF Calls

LEMMA NextUpdate ==
  ASSUME NEW r \in Calls, NEW t \in Seq(Chars)
  PROVE  LET u == [r EXCEPT !.pc = "next", !.text = t]
         IN  u \in Calls /\ u.pc = "next" /\ u.text = t /\ u.pin = r.pin /\ u.alone = r.alone
  BY DEF Calls

(* Every character is a digit, E or dark, and lights some of the pins.      *)
LEMMA SegMapPins ==
  /\ DOMAIN seg_map = {"0", "1", "2", "3", "4", "5", "6", "7", "8", "9", "E", "?"}
  /\ \A c \in DOMAIN seg_map : seg_map[c] \subseteq Pins
  BY DEF seg_map, Pins

LEMMA LedInitInv == ASSUME LedInit PROVE LedInv
<1>2. LedTypeOK BY IdleCall, SegMapPins DEF LedInit, LedTypeOK
<1>3. \A w \in Callers : ~Busy(w) /\ call[w].pc # "gpio_on"
  BY DEF LedInit, Busy, NoCall
<1>4. QED
  BY <1>2, <1>3 DEF LedInit, LedInv, HeldInv, Undisturbed, PinsSet, Callers

(* A call that begins ends the solitude of every other, and is alone only   *)
(* if nobody else is there.                                                 *)
LEMMA StartKeeps ==
  ASSUME LedInv, NEW w \in Callers, NEW text \in Seq(Chars), ~Busy(w),
         Start(w, text), UNCHANGED lit,
         (w = Loader /\ module' = "clear") \/ (w # Loader /\ module' = module)
  PROVE  /\ call' \in [Callers -> Calls]
         /\ Undisturbed' /\ PinsSet'
<1> DEFINE new == [pc |-> "next", text |-> text, pin |-> 0,
                   alone |-> (w = Loader \/ module = "live") /\ Others(w) = {}]
<1>1. call \in [Callers -> Calls] BY DEF LedInv, LedTypeOK
<1>2. new \in Calls
  <2>1. new.alone \in BOOLEAN /\ 0 \in 0..7 OBVIOUS
  <2>2. QED BY <2>1, NewCall
<1>3. call' = [v \in Callers |-> IF v # w /\ Busy(v) THEN [call[v] EXCEPT !.alone = FALSE]
                                 ELSE IF v = w THEN new ELSE call[v]]
  BY <1>1 DEF Start, Meet
<1>4. /\ call'[w] = new
      /\ \A v \in Callers \ {w} : /\ ~Busy(v) => call'[v] = call[v]
                                  /\ Busy(v) => call'[v] = [call[v] EXCEPT !.alone = FALSE]
  BY <1>3
<1>5. call' \in [Callers -> Calls]
  <2>1. ASSUME NEW v \in Callers \ {w}, Busy(v) PROVE [call[v] EXCEPT !.alone = FALSE] \in Calls
    BY <1>1, AloneUpdate, CallFields
  <2>2. QED BY <1>1, <1>2, <1>3, <2>1
<1>6. \A v \in Callers \ {w} : /\ Busy(v)' <=> Busy(v)
                               /\ Busy(v) => ~call'[v].alone
                               /\ call'[v].pc = call[v].pc /\ call'[v].text = call[v].text
  <2>1. TAKE v \in Callers \ {w}
  <2>2. call[v] \in Calls BY <1>1
  <2>3. CASE Busy(v)
    <3>1. call'[v] = [call[v] EXCEPT !.alone = FALSE] BY <1>4, <2>3
    <3>2. call'[v].pc = call[v].pc /\ call'[v].text = call[v].text /\ ~call'[v].alone
      BY <2>2, <3>1, AloneUpdate, CallFields
    <3>3. QED BY <2>3, <3>2 DEF Busy
  <2>4. CASE ~Busy(v) BY <1>4, <2>4 DEF Busy
  <2>5. QED BY <2>3, <2>4
<1>7. new.alone => \A v \in Callers \ {w} : ~Busy(v)
  BY DEF Others
<1>8. Undisturbed'
  <2>1. Busy(Loader)' => module' = "clear"
    <3>1. Loader \in Callers BY DEF Callers
    <3>2. QED BY <1>6, <3>1 DEF LedInv, Undisturbed
  <2>2. ASSUME NEW v \in Callers, Busy(v)', call'[v].alone
        PROVE  /\ \A u \in Callers \ {v} : ~Busy(u)'
               /\ v = Loader \/ module' = "live"
    <3>1. v = w BY <1>6, <2>2
    <3>2. new.alone BY <1>4, <2>2, <3>1
    <3>3. \A u \in Callers \ {v} : ~Busy(u)' BY <1>6, <1>7, <3>1, <3>2
    <3>4. w = Loader \/ module = "live" BY <3>2
    <3>5. QED BY <3>1, <3>3, <3>4
  <2>3. QED BY <2>1, <2>2 DEF Undisturbed
<1>9. PinsSet'
  <2>1. call'[w].pc # "gpio_on" BY <1>4
  <2>2. ASSUME NEW v \in Callers \ {w}, call'[v].pc = "gpio_on"
        PROVE  Busy(v) /\ call[v].pc = "gpio_on" /\ ~call'[v].alone /\ call'[v].text = call[v].text
    BY <1>6, <2>2 DEF Busy
  <2>3. QED BY <2>1, <2>2 DEF LedInv, PinsSet
<1>10. QED BY <1>5, <1>8, <1>9

LEMMA LoadKeeps == ASSUME LedInv, Load PROVE LedInv'
<1> USE DEF LedInv
<1>1. \A w \in Callers : w \in Writers \/ w = Loader BY DEF Callers
(* Steps that leave the calls and the pins alone. *)
<1>2. ASSUME UNCHANGED <<call, lit>>, module \notin {"clear", "live"}
      PROVE  Undisturbed' /\ PinsSet'
  BY <1>2 DEF Undisturbed, PinsSet, Busy
<1>3. ASSUME NEW what, NEW next, NEW undone,
             \/ /\ module = "region" /\ next = "cdev" /\ what = "region" /\ undone = {"region"}
             \/ /\ module = "cdev" /\ next = "class" /\ what = "cdev"
                /\ undone = {"cdev", "region"},
             Register(module, what, next, undone)
      PROVE  LedInv'
  <2>1. Undisturbed' /\ PinsSet' BY <1>2, <1>3 DEF Register
  <2>2. LedTypeOK' BY <1>3 DEF Register, Take, Fail, Undo, LedTypeOK, Parts
  <2>3. HeldInv' BY <1>3 DEF Register, Take, Fail, Undo, HeldInv
  <2>4. QED BY <2>1, <2>2, <2>3
<1>4. CASE Insmod
  <2>1. Undisturbed' /\ PinsSet' BY <1>2, <1>4 DEF Insmod
  <2>2. QED BY <1>4, <2>1 DEF Insmod, LedTypeOK, HeldInv
<1>5. CASE CreateClass
  <2>1. Undisturbed' /\ PinsSet' BY <1>2, <1>5 DEF CreateClass
  <2>2. QED BY <1>5, <2>1 DEF CreateClass, Take, Fail, LedTypeOK, HeldInv, Parts
<1>6. CASE CreateDevice
  <2>1. Undisturbed' /\ PinsSet' BY <1>2, <1>6 DEF CreateDevice
  <2>2. QED BY <1>6, <2>1 DEF CreateDevice, Take, Fail, LedTypeOK, HeldInv, Parts
(* The removal of everything. *)
<1>14. ASSUME UndoAll, module \in {"pins", "live"}, UNCHANGED failed, requested' = 0
       PROVE  /\ held' \subseteq held /\ vain' \in SUBSET Parts
              /\ module' \in {"unloaded", "oops"} /\ HeldInv'
  <2>1. held \subseteq Parts /\ vain = {} BY <1>14 DEF LedTypeOK, HeldInv
  <2>2. CASE UNCHANGED <<held, vain>> /\ module' = "oops"
    BY <1>14, <2>1, <2>2 DEF HeldInv
  <2>3. CASE Undo(Parts) /\ module' \in {"unloaded", "oops"}
    <3>1. held' = {} /\ vain' = Parts \ held BY <2>1, <2>3 DEF Undo
    <3>2. vain' \subseteq failed BY <1>14, <3>1 DEF HeldInv, Parts
    <3>3. QED BY <1>14, <2>3, <3>1, <3>2 DEF HeldInv
  <2>4. QED BY <1>14, <2>2, <2>3 DEF UndoAll
<1>7. CASE RequestPin
  <2>1. module = "pins" /\ UNCHANGED <<call, last_digit, failed>> BY <1>7 DEF RequestPin
  <2>9. \/ /\ requested' = requested + 1 /\ requested \in Pins
           /\ UNCHANGED <<module, held, vain>>
        \/ UndoAll /\ requested' = 0
    BY <1>7 DEF RequestPin
  <2>10. /\ held' \subseteq held /\ vain' \in SUBSET Parts
         /\ module' \in {"pins", "unloaded", "oops"} /\ HeldInv'
    <3>1. CASE UndoAll /\ requested' = 0 BY <1>14, <2>1, <3>1
    <3>2. CASE requested' = requested + 1 /\ UNCHANGED <<module, held, vain>>
      BY <2>1, <3>2 DEF HeldInv, LedTypeOK
    <3>3. QED BY <2>9, <3>1, <3>2
  <2>2. \A w \in Callers : Busy(w) => ~call[w].alone BY <2>1, <1>1 DEF Undisturbed
  <2>3. ~Busy(Loader) BY <2>1 DEF Undisturbed
  <2>4. Undisturbed' BY <2>1, <2>2, <2>3 DEF Undisturbed, Busy
  <2>5. PinsSet' BY <2>1, <2>2 DEF PinsSet, Busy
  <2>6. LedTypeOK'
    <3>1. requested' \in 0..7 BY <2>9 DEF Pins
    <3>2. lit' \subseteq lit BY <1>7 DEF RequestPin
    <3>3. QED BY <2>1, <2>10, <3>1, <3>2 DEF LedTypeOK
  <2>8. QED BY <2>4, <2>5, <2>6, <2>10
<1>8. CASE ClearPins
  <2>1. Loader \in Callers /\ <<"?">> \in Seq(Chars) /\ ~Busy(Loader)
    BY <1>8, SegMapPins DEF ClearPins, Callers, Chars, Undisturbed
  <2>2. QED BY <1>8, <2>1, StartKeeps DEF ClearPins, LedTypeOK, HeldInv
<1>9. CASE Loaded
  <2>2. LedTypeOK' BY <1>9, IdleCall DEF Loaded, LedTypeOK
  <2>3. /\ \A w \in Callers \ {Loader} : call'[w] = call[w]
        /\ call'[Loader].pc = "none"
    BY <1>9, IdleCall DEF Loaded, LedTypeOK, Callers
  <2>4. Undisturbed' BY <1>9, <2>3 DEF Loaded, Undisturbed, Busy
  <2>5. PinsSet' BY <1>9, <2>3 DEF Loaded, PinsSet
  <2>6. HeldInv' BY <1>9 DEF Loaded, HeldInv
  <2>7. QED BY <2>2, <2>4, <2>5, <2>6
<1>10. CASE Rmmod
  <2>1. \A w \in Callers : ~Busy(w) BY <1>1, <1>10 DEF Rmmod, Undisturbed
  <2>2. Undisturbed' /\ PinsSet' BY <1>10, <2>1 DEF Rmmod, Undisturbed, PinsSet, Busy, Callers
  <2>3. /\ held' \subseteq held /\ vain' \in SUBSET Parts
        /\ module' \in {"unloaded", "oops"} /\ HeldInv'
    BY <1>10, <1>14 DEF Rmmod
  <2>4. LedTypeOK' BY <1>10, <2>3 DEF Rmmod, LedTypeOK
  <2>5. QED BY <2>2, <2>3, <2>4
<1>11. CASE Register("region", "region", "cdev", {"region"})
  <2>1. module = "region" BY <1>11 DEF Register
  <2>2. QED BY <1>3, <1>11, <2>1
<1>12. CASE Register("cdev", "cdev", "class", {"cdev", "region"})
  <2>1. module = "cdev" BY <1>12 DEF Register
  <2>2. QED BY <1>3, <1>12, <2>1
<1>13. QED
  BY <1>4, <1>5, <1>6, <1>7, <1>8, <1>9, <1>10, <1>11, <1>12 DEF Load

LEMMA WriteKeeps == ASSUME LedInv, NEW w \in Writers, Write(w) PROVE LedInv'
<1>1. PICK text \in Texts[w] : Start(w, text) BY DEF Write
<1>2. text \in Seq(Chars)
  <2>1. text \in Seq(Chars \ {"?"}) BY LedAssumption
  <2>2. QED BY <2>1
<1>3. w \in Callers /\ w # Loader BY LedAssumption DEF Callers
<1>4. UNCHANGED <<module, held, failed, vain, requested, lit, last_digit>> /\ ~Busy(w) BY DEF Write
<1>5. call' \in [Callers -> Calls] /\ Undisturbed' /\ PinsSet'
  BY <1>1, <1>2, <1>3, <1>4, StartKeeps
<1>6. QED BY <1>4, <1>5 DEF LedInv, LedTypeOK, HeldInv

(* A step of gpio_on by anybody who is not alone leaves the others, of whom *)
(* none is alone, as they are.                                              *)
LEMMA ProceedKeeps == ASSUME LedInv, NEW w \in Callers, Proceed(w) PROVE LedInv'
<1>1. call \in [Callers -> Calls] /\ lit \subseteq Pins BY DEF LedInv, LedTypeOK
<1>2. Busy(w) /\ UNCHANGED <<module, held, failed, vain, requested>>
  BY DEF Proceed, NextChar, SetPin, KeepDigit, Return, Busy
<1>3. HeldInv' BY <1>2 DEF HeldInv, LedInv
<1>4. \A v \in Callers \ {w} : Busy(v) => ~call[v].alone
  BY <1>2 DEF LedInv, Undisturbed
<1>11. /\ call[w].pc \in {"none", "next", "gpio_on"} /\ call[w].text \in Seq(Chars)
       /\ call[w].pin \in 0..7 /\ call[w].alone \in BOOLEAN /\ call[w] \in Calls
  BY <1>1, CallFields
(* What is left to show of a step. *)
<1>5. ASSUME NEW next \in Calls, call' = [call EXCEPT ![w] = next],
             next.pc # "none" => next.alone = call[w].alone,
             lit' \subseteq Pins, last_digit' \in DOMAIN seg_map,
             next.pc = "gpio_on" =>
               /\ next.text # <<>> /\ Head(next.text) \in DOMAIN seg_map
               /\ next.alone => \A i \in Pins : i < next.pin =>
                    (i \in lit' <=> i \in seg_map[Head(next.text)])
      PROVE  LedInv'
  <2>1. call' \in [Callers -> Calls] /\ call'[w] = next
        /\ \A v \in Callers \ {w} : call'[v] = call[v]
    BY <1>1, <1>5
  <2>2. LedTypeOK' BY <1>2, <1>5, <2>1 DEF LedInv, LedTypeOK
  <2>3. \A v \in Callers : Busy(v)' => Busy(v) BY <1>2, <2>1 DEF Busy
  <2>4. \A v \in Callers : Busy(v)' /\ call'[v].alone => call[v].alone
    BY <1>5, <2>1 DEF Busy
  <2>5. Undisturbed'
    <3>1. Busy(Loader)' => module' = "clear"
      BY <1>2, <2>3 DEF LedInv, Undisturbed, Callers
    <3>2. QED BY <1>2, <2>3, <2>4, <3>1 DEF LedInv, Undisturbed
  <2>6. PinsSet'
    <3>1. ASSUME NEW v \in Callers \ {w}, call'[v].pc = "gpio_on"
          PROVE  ~call'[v].alone /\ call'[v].text # <<>> /\ Head(call'[v].text) \in DOMAIN seg_map
      BY <1>4, <2>1, <3>1 DEF LedInv, PinsSet, Busy
    <3>2. QED BY <1>5, <2>1, <3>1 DEF PinsSet
  <2>7. QED BY <1>3, <2>2, <2>5, <2>6 DEF LedInv
<1>6. CASE NextChar(w)
  <2> DEFINE c == Head(call[w].text)
  <2>1. call[w].text \in Seq(Chars) /\ call[w].text # <<>> /\ Tail(call[w].text) \in Seq(Chars)
    BY <1>6, <1>11 DEF NextChar
  <2>2. UNCHANGED <<lit, last_digit>> /\ lit' \subseteq Pins /\ last_digit' \in DOMAIN seg_map
    BY <1>1, <1>6 DEF NextChar, LedInv, LedTypeOK
  <2>3. CASE c \in Skipped
    <3> DEFINE next == [call[w] EXCEPT !.text = Tail(@)]
    <3>1. next \in Calls /\ next.alone = call[w].alone /\ next.pc = "next"
      BY <1>6, <1>11, <2>1, TextUpdate DEF NextChar
    <3>2. call' = [call EXCEPT ![w] = next] BY <1>1, <1>6, <2>3 DEF NextChar
    <3>3. QED BY <1>5, <2>2, <3>1, <3>2
  <2>4. CASE c \notin Skipped /\ c \in DOMAIN seg_map
    <3> DEFINE next == [call[w] EXCEPT !.pc = "gpio_on", !.pin = 0]
    <3>1. next \in Calls /\ next.alone = call[w].alone /\ next.pin = 0 /\ next.text = call[w].text
               /\ next.pc = "gpio_on"
      BY <1>11, GpioUpdate
    <3>2. call' = [call EXCEPT ![w] = next] BY <1>1, <1>6, <2>4 DEF NextChar
    <3>3. \A i \in Pins : ~(i < 0) BY DEF Pins
    <3>4. QED BY <1>5, <2>1, <2>2, <2>4, <3>1, <3>2, <3>3
  <2>5. CASE c \notin Skipped /\ c \notin DOMAIN seg_map
    <3>1. call' = [call EXCEPT ![w] = NoCall] BY <1>6, <2>5 DEF NextChar
    <3>2. QED BY <1>5, <2>2, <3>1, IdleCall
  <2>6. QED BY <2>3, <2>4, <2>5
<1>7. CASE SetPin(w)
  <2> DEFINE c == Head(call[w].text)
             i == call[w].pin
             next == [call[w] EXCEPT !.pin = i + 1]
  <2>1. i \in 0..6 /\ call[w].pc = "gpio_on" /\ i \in Pins BY <1>7 DEF SetPin, Pins
  <2>2. next \in Calls /\ next.alone = call[w].alone /\ next.pin = i + 1 /\ next.text = call[w].text
        /\ next.pc = "gpio_on"
    <3>1. i + 1 \in 0..7 BY <2>1
    <3>2. QED BY <1>11, <2>1, <3>1, PinUpdate
  <2>3. call' = [call EXCEPT ![w] = next] BY <1>1, <1>7 DEF SetPin
  <2>4. lit' = IF i \in seg_map[c] THEN lit \cup {i} ELSE lit \ {i} BY <1>7 DEF SetPin
  <2>5. call[w].text # <<>> /\ c \in DOMAIN seg_map BY <2>1 DEF LedInv, PinsSet
  <2>6. ASSUME call[w].alone, NEW j \in Pins, j < i + 1
        PROVE  j \in lit' <=> j \in seg_map[c]
    <3>1. CASE j = i BY <2>4, <3>1
    <3>2. CASE j # i
      <4>1. j < i BY <2>1, <2>6, <3>2 DEF Pins
      <4>2. j \in lit <=> j \in seg_map[c] BY <2>1, <2>6, <4>1 DEF LedInv, PinsSet
      <4>3. QED BY <2>4, <3>2, <4>2
    <3>3. QED BY <3>1, <3>2
  <2>7. lit' \subseteq Pins BY <1>1, <2>1, <2>4
  <2>8. last_digit' \in DOMAIN seg_map BY <1>7 DEF SetPin, LedInv, LedTypeOK
  <2> HIDE DEF next, c, i
  <2>9. QED BY <1>5, <2>2, <2>3, <2>5, <2>6, <2>7, <2>8 DEF c
<1>8. CASE KeepDigit(w)
  <2> DEFINE next == [call[w] EXCEPT !.pc = "next", !.text = Tail(@)]
  <2>1. call[w].text # <<>> /\ Head(call[w].text) \in DOMAIN seg_map
    BY <1>8 DEF KeepDigit, LedInv, PinsSet
  <2>2. next \in Calls /\ next.alone = call[w].alone /\ next.pc = "next"
    <3>1. Tail(call[w].text) \in Seq(Chars) BY <1>11, <2>1
    <3>2. QED BY <1>11, <3>1, NextUpdate
  <2>3. call' = [call EXCEPT ![w] = next] BY <1>1, <1>8 DEF KeepDigit
  <2>4. lit' \subseteq Pins /\ last_digit' \in DOMAIN seg_map
    BY <1>1, <1>8, <2>1 DEF KeepDigit
  <2>5. QED BY <1>5, <2>2, <2>3, <2>4
<1>9. CASE Return(w)
  <2>1. call' = [call EXCEPT ![w] = NoCall] BY <1>9 DEF Return
  <2>2. lit' \subseteq Pins /\ last_digit' \in DOMAIN seg_map
    BY <1>1, <1>9 DEF Return, LedInv, LedTypeOK
  <2>3. QED BY <1>5, <2>1, <2>2, IdleCall
<1>10. QED BY <1>6, <1>7, <1>8, <1>9 DEF Proceed

LEMMA LedNextInv == ASSUME LedInv, [LedNext]_ledVars PROVE LedInv'
<1>1. CASE UNCHANGED ledVars
  BY <1>1 DEF ledVars, LedInv, LedTypeOK, HeldInv, Undisturbed, PinsSet, Busy
<1>2. QED BY <1>1, LoadKeeps, WriteKeeps, ProceedKeeps DEF LedNext

LEMMA LedInvHolds == LedSpec => []LedInv
  BY LedInitInv, LedNextInv, PTL DEF LedSpec

(* However loading ends, and after the removal, the driver keeps nothing,   *)
(* and it has undone nothing that it had not tried.                         *)
THEOREM LoadingIsUndone == LedSpec => []LoadingUndone
<1>1. LedInv => LoadingUndone BY DEF LedInv, HeldInv, LoadingUndone
<1>2. QED BY <1>1, LedInvHolds, PTL

(* A call of gpio_on that nobody disturbs shows its own character, for any  *)
(* number of processes and whatever they write.                             *)
THEOREM UndisturbedIsShown == LedSpec => []AloneIsShown
<1>1. ASSUME LedInv PROVE AloneIsShown
  <2>1. SUFFICES ASSUME NEW w \in Callers,
                        call[w].alone, call[w].pc = "gpio_on", call[w].pin = 7
                 PROVE  lit = seg_map[Head(call[w].text)]
    BY DEF AloneIsShown
  <2>2. /\ Head(call[w].text) \in DOMAIN seg_map
        /\ \A i \in Pins : i \in lit <=> i \in seg_map[Head(call[w].text)]
    BY <1>1, <2>1 DEF LedInv, PinsSet, Pins
  <2>3. lit \subseteq Pins /\ seg_map[Head(call[w].text)] \subseteq Pins
    BY <1>1, <2>2, SegMapPins DEF LedInv, LedTypeOK
  <2>4. QED BY <2>2, <2>3
<1>2. QED BY <1>1, LedInvHolds, PTL

-----------------------------------------------------------------------------
(* TrainServer and DeliveryMenu: what their variables may be. *)

LEMMA TrainNextType == ASSUME TrainTypeOK, [TrainNext]_trainVars PROVE TrainTypeOK'
<1> USE DEF TrainTypeOK
<1>1. CASE CtrlC BY <1>1 DEF CtrlC
<1>2. CASE CloseListening BY <1>2 DEF CloseListening
<1>3. CASE Reap BY <1>3 DEF Reap
<1>4. CASE AcceptFails BY <1>4 DEF AcceptFails
<1>5. CASE Fork BY <1>5 DEF Fork
<1>6. CASE CloseConnection BY <1>6 DEF CloseConnection
<1>7. ASSUME NEW t \in Trains, TakeConnection(t) PROVE TrainTypeOK'
  BY <1>7 DEF TakeConnection
<1>8. ASSUME NEW t \in Trains, Arrive(t) \/ Child(t) PROVE TrainTypeOK'
  BY <1>8 DEF Arrive, Child, Exec, Exit, Running
<1>9. CASE UNCHANGED trainVars BY <1>9 DEF trainVars
<1>10. QED
  BY <1>1, <1>2, <1>3, <1>4, <1>5, <1>6, <1>7, <1>8, <1>9 DEF TrainNext, Serve

LEMMA TrainTypes == TrainSpec => []TrainTypeOK
<1>1. TrainInit => TrainTypeOK BY DEF TrainInit, TrainTypeOK
<1>2. QED BY <1>1, TrainNextType, PTL DEF TrainSpec

-----------------------------------------------------------------------------
(* Delivery.  A customer waits in the queue once, and the one at hand not   *)
(* at all, so that main never answers somebody it has dismissed.            *)
Present == {"up", "closed", "reset", "aborted"}
AtHand == courier \in {"read", "deliver"}

Turns ==
  /\ \A i \in 1..Len(queue) : customer[queue[i]].end \in Present /\ queue[i] # whom
  /\ \A i, j \in 1..Len(queue) : queue[i] = queue[j] => i = j
  /\ AtHand => whom \in Customers /\ customer[whom].end \in Present
  /\ courier = "accept" => whom = NoShop

(* A connection fails, or is about to when the server answers what is still *)
(* unread, only for customers who left without waiting for an answer.       *)
FailsByLeaving ==
  \A c \in Customers :
    \/ customer[c].end \in {"reset", "aborted"}
    \/ customer[c].end = "closed" /\ customer[c].cmd # NoCmd
    => customer[c].left

(* The bill follows the quantities, and these are what is shown.            *)
Bills ==
  /\ \A c \in Customers : customer[c].end # "gone" => customer[c].bill = NoBill
  /\ AtHand =>
       /\ st.total_money = Cost(st.qty)
       /\ st.shop # NoShop /\ customer[whom].end = "up" =>
            customer[whom].order = Visible(st.qty)

DeliveryInv == DeliveryTypeOK /\ Turns /\ FailsByLeaving /\ Bills /\ EndedByLeaving

LEMMA StrangerFields ==
  ASSUME NEW r \in Strangers
  PROVE  /\ r.end \in {"away", "up", "closed", "reset", "aborted", "gone"}
         /\ r.cmd \in Commands /\ r.orders \in Nat /\ r.unread \in BOOLEAN
         /\ r.left \in BOOLEAN /\ r.order \in [Meals -> Nat] /\ r.bill \in SUBSET Int
  BY DEF Strangers

LEMMA StrangerTyped ==
  /\ Stranger \in Strangers /\ Stranger.end = "away" /\ Stranger.bill = NoBill
  /\ NoMeals \in [Meals -> Nat] /\ NoCmd \in Commands
<1>1. NoMeals \in [Meals -> Nat] /\ NoCmd \in Commands BY DEF NoMeals, Commands
<1>2. QED BY <1>1 DEF Stranger, Strangers, NoBill

(* The words of an order command.                                           *)
LEMMA OrderWords ==
  ASSUME NEW order \in Orders
  PROVE  LET cmd == <<"order">> \o order
         IN  /\ cmd \in Commands /\ cmd[1] = "order"
             /\ cmd[2] = order[1] /\ cmd[3] = order[2] /\ order[2] \in Int
<1>1. order \in STRING \X Int BY DeliveryAssumption
<1>2. order = <<order[1], order[2]>> /\ order[2] \in Int BY <1>1
<1>3. ASSUME NEW a, NEW b
      PROVE  <<"order">> \o <<a, b>> = <<"order", a, b>>
  <2> DEFINE S == {"order", a, b}  s == <<"order">>  t == <<a, b>>  u == <<"order", a, b>>
  <2>1. s \in Seq(S) /\ t \in Seq(S) /\ u \in Seq(S) OBVIOUS
  <2>2. Len(s) = 1 /\ Len(t) = 2 /\ Len(u) = 3 /\ s[1] = u[1] /\ t[1] = u[2] /\ t[2] = u[3]
    OBVIOUS
  <2> HIDE DEF S, s, t, u
  <2>3. /\ s \o t \in Seq(S) /\ Len(s \o t) = Len(s) + Len(t)
        /\ \A k \in 1..(Len(s) + Len(t)) :
             (s \o t)[k] = IF k <= Len(s) THEN s[k] ELSE t[k - Len(s)]
    BY <2>1, ConcatProperties
  <2>4. \A k \in 1..3 : (s \o t)[k] = u[k]
    <3>1. \A k \in 1..3 : k = 1 \/ k = 2 \/ k = 3 OBVIOUS
    <3>2. (s \o t)[1] = s[1] /\ (s \o t)[2] = t[1] /\ (s \o t)[3] = t[2] BY <2>2, <2>3
    <3>3. QED BY <2>2, <3>1, <3>2
  <2>5. s \o t = u BY <2>1, <2>2, <2>3, <2>4, SeqEqual
  <2>6. QED BY <2>5 DEF s, t, u
<1>4. <<"order">> \o order = <<"order", order[1], order[2]>> BY <1>2, <1>3
<1>5. <<"order">> \o order \in Commands BY DEF Commands
<1>6. QED BY <1>2, <1>4, <1>5

LEMMA OneCustomer ==
  ASSUME DeliveryTypeOK, NEW c \in Customers, NEW new \in Strangers,
         customer' = [customer EXCEPT ![c] = new]
  PROVE  /\ customer' \in [Customers -> Strangers] /\ customer'[c] = new
         /\ \A d \in Customers \ {c} : customer'[d] = customer[d]
  BY DEF DeliveryTypeOK

LEMMA DeliveryInitInv == ASSUME DeliveryInit PROVE DeliveryInv
<1>1. NoOrder \in [shop : {NoShop, "SHOP_DESSERT", "SHOP_BEVERAGE", "SHOP_DINER"},
                   qty : [Meals -> Int], total_money : Int]
  BY StrangerTyped DEF NoOrder
<1>2. DeliveryTypeOK
  BY <1>1, StrangerTyped DEF DeliveryInit, DeliveryTypeOK
<1>3. Turns /\ EndedByLeaving BY DEF DeliveryInit, Turns, AtHand, EndedByLeaving
<1>4. FailsByLeaving /\ Bills
  BY StrangerTyped DEF DeliveryInit, FailsByLeaving, Bills, AtHand
<1>5. QED BY <1>2, <1>3, <1>4 DEF DeliveryInv

-----------------------------------------------------------------------------
(* What customers do.                                                       *)
LEMMA CustomerActs ==
  ASSUME DeliveryInv, ~Ended, NEW c \in Customers, NEW new \in Strangers,
         customer' = [customer EXCEPT ![c] = new],
         UNCHANGED <<queue, courier, whom, st>>,
         customer[c].end = "up", new.end \in {"up", "closed", "aborted"}, new.bill = NoBill,
         new.end = "aborted" \/ (new.end = "closed" /\ new.cmd # NoCmd) => new.left,
         new.end = "up" => new.order = customer[c].order
  PROVE  DeliveryInv'
<1> USE DEF DeliveryInv
<1>1. /\ customer' \in [Customers -> Strangers] /\ customer'[c] = new
      /\ \A d \in Customers \ {c} : customer'[d] = customer[d]
  BY OneCustomer
<1>2. DeliveryTypeOK' BY <1>1 DEF DeliveryTypeOK
<1>3. \A d \in Customers : customer[d].end \in Present => customer'[d].end \in Present BY <1>1 DEF Present
<1>4. Turns'
  <2>1. \A i \in 1..Len(queue) : queue[i] \in Customers BY DEF DeliveryTypeOK
  <2>2. QED BY <1>3, <2>1 DEF Turns, AtHand
<1>5. FailsByLeaving' BY <1>1 DEF FailsByLeaving
<1>6. Bills'
  <2>1. \A d \in Customers : customer'[d].end # "gone" => customer'[d].bill = NoBill
    BY <1>1 DEF Bills
  <2>2. AtHand => whom \in Customers BY DEF Turns
  <2>3. QED BY <1>1, <2>1, <2>2 DEF Bills, AtHand
<1>7. EndedByLeaving' BY DEF Ended, EndedByLeaving
<1>8. QED BY <1>2, <1>4, <1>5, <1>6, <1>7

LEMMA SayKeeps == ASSUME DeliveryInv, ~Ended, NEW c \in Customers, Say(c) PROVE DeliveryInv'
<1>1. PICK cmd \in Commands, n \in Nat :
        customer' = [customer EXCEPT ![c] = [customer[c] EXCEPT !.cmd = cmd, !.orders = n]]
  <2>1. customer[c] \in Strangers /\ customer[c].orders \in Nat
        /\ customer \in [Customers -> Strangers]
    BY StrangerFields DEF DeliveryInv, DeliveryTypeOK
  <2>2. ASSUME NEW word \in {"shop list", "confirm", "cancel"},
               customer' = [customer EXCEPT ![c].cmd = <<word>>]
        PROVE  /\ <<word>> \in Commands
               /\ customer' = [customer EXCEPT ![c] =
                    [customer[c] EXCEPT !.cmd = <<word>>, !.orders = customer[c].orders]]
    <3>1. [customer[c] EXCEPT !.cmd = <<word>>]
            = [customer[c] EXCEPT !.cmd = <<word>>, !.orders = customer[c].orders]
      BY <2>1 DEF Strangers
    <3>2. QED BY <2>2, <3>1 DEF Commands
  <2>3. ASSUME NEW order \in Orders,
               customer' = [customer EXCEPT ![c].cmd = <<"order">> \o order, ![c].orders = @ + 1]
        PROVE  /\ <<"order">> \o order \in Commands /\ customer[c].orders + 1 \in Nat
               /\ customer' = [customer EXCEPT ![c] =
                    [customer[c] EXCEPT !.cmd = <<"order">> \o order,
                                        !.orders = customer[c].orders + 1]]
    <3>1. [customer EXCEPT ![c].cmd = <<"order">> \o order, ![c].orders = @ + 1]
            = [customer EXCEPT ![c] = [customer[c] EXCEPT !.cmd = <<"order">> \o order,
                                                          !.orders = customer[c].orders + 1]]
      BY <2>1
    <3>2. <<"order">> \o order \in Commands /\ customer[c].orders + 1 \in Nat
      BY <2>1, OrderWords
    <3>3. QED BY <2>3, <3>1, <3>2
  <2>4. QED BY <2>1, <2>2, <2>3, ZenonT(60) DEF Say
<1> DEFINE new == [customer[c] EXCEPT !.cmd = cmd, !.orders = n]
<1>2. customer[c] \in Strangers /\ customer[c].end = "up" /\ customer[c].bill = NoBill
  BY DEF Say, DeliveryInv, DeliveryTypeOK, Bills
<1>3. /\ new \in Strangers /\ new.end = "up" /\ new.bill = NoBill
      /\ new.order = customer[c].order
  BY <1>2 DEF Strangers
<1>4. UNCHANGED <<queue, courier, whom, st>> BY DEF Say
<1> HIDE DEF new
<1>5. QED BY <1>1, <1>2, <1>3, <1>4, CustomerActs DEF new

LEMMA ReadAnswerKeeps ==
  ASSUME DeliveryInv, ~Ended, NEW c \in Customers, ReadAnswer(c) PROVE DeliveryInv'
<1> DEFINE new == [customer[c] EXCEPT !.unread = FALSE]
<1>1. customer' = [customer EXCEPT ![c] = new] BY DEF ReadAnswer
<1>2. customer[c] \in Strangers /\ customer[c].end = "up" /\ customer[c].bill = NoBill
  BY DEF ReadAnswer, DeliveryInv, DeliveryTypeOK, Bills
<1>3. /\ new \in Strangers /\ new.end = "up" /\ new.bill = NoBill
      /\ new.order = customer[c].order
  BY <1>2 DEF Strangers
<1>4. UNCHANGED <<queue, courier, whom, st>> BY DEF ReadAnswer
<1> HIDE DEF new
<1>5. QED BY <1>1, <1>2, <1>3, <1>4, CustomerActs

LEMMA LeaveKeeps == ASSUME DeliveryInv, ~Ended, NEW c \in Customers, Leave(c) PROVE DeliveryInv'
<1> DEFINE new == [Stranger EXCEPT !.end = IF customer[c].unread THEN "aborted" ELSE "closed",
                                   !.cmd = customer[c].cmd, !.orders = customer[c].orders,
                                   !.left = Expects(c)]
<1>1. customer' = [customer EXCEPT ![c] = new] BY DEF Leave
<1>2. customer[c] \in Strangers /\ customer[c].end = "up"
  BY DEF Leave, DeliveryInv, DeliveryTypeOK
<1>3. Expects(c) \in BOOLEAN BY <1>2, StrangerFields DEF Expects
<1>4. /\ new \in Strangers /\ new.end = IF customer[c].unread THEN "aborted" ELSE "closed"
      /\ new.cmd = customer[c].cmd /\ new.left = Expects(c) /\ new.bill = NoBill
  BY <1>2, <1>3, StrangerTyped, StrangerFields DEF Strangers
<1>5. UNCHANGED <<queue, courier, whom, st>> BY DEF Leave
<1>6. new.end = "aborted" \/ new.cmd # NoCmd => new.left BY <1>4 DEF Expects
<1> HIDE DEF new
<1>7. QED BY <1>1, <1>2, <1>4, <1>5, <1>6, CustomerActs

(* Who was away is not in the queue yet.                                    *)
LEMMA ComeKeeps == ASSUME DeliveryInv, ~Ended, NEW c \in Customers, Come(c) PROVE DeliveryInv'
<1> USE DEF DeliveryInv
<1> DEFINE new == [customer[c] EXCEPT !.end = "up"]
<1>1. customer' = [customer EXCEPT ![c] = new] BY DEF Come
<1>2. customer[c] \in Strangers /\ customer[c].end = "away" /\ customer[c].bill = NoBill
  BY DEF Come, DeliveryTypeOK, Bills
<1>3. new \in Strangers /\ new.end = "up" /\ new.bill = NoBill BY <1>2 DEF Strangers
<1> HIDE DEF new
<1>4. /\ customer' \in [Customers -> Strangers] /\ customer'[c] = new
      /\ \A d \in Customers \ {c} : customer'[d] = customer[d]
  BY <1>1, <1>3, OneCustomer
<1>5. queue' = Append(queue, c) /\ UNCHANGED <<courier, whom, st>> BY DEF Come
<1>6. DeliveryTypeOK' BY <1>4, <1>5 DEF DeliveryTypeOK
<1>7. c # whom
  <2>1. CASE AtHand BY <1>2, <2>1 DEF Turns, Present
  <2>2. CASE courier = "accept" BY <2>2, DeliveryAssumption DEF Turns
  <2>3. QED BY <2>1, <2>2 DEF AtHand, Ended, DeliveryTypeOK
<1>8. Turns'
  <2>1. queue \in Seq(Customers) /\ Len(queue) \in Nat BY DEF DeliveryTypeOK
  <2>2. /\ Len(queue') = Len(queue) + 1 /\ queue'[Len(queue) + 1] = c
        /\ \A i \in 1..Len(queue) : queue'[i] = queue[i] /\ queue[i] \in Customers
    BY <1>5, <2>1
  <2>3. \A i \in 1..Len(queue) : queue[i] # c BY <1>2 DEF Turns, Present
  <2>4. \A d \in Customers : customer[d].end \in Present => customer'[d].end \in Present BY <1>4, <1>2 DEF Present
  <2>5. customer'[c].end \in Present BY <1>3, <1>4 DEF Present
  <2>6. \A i \in 1..Len(queue') : i = Len(queue) + 1 \/ i \in 1..Len(queue)
    BY <2>1, <2>2
  <2>7. \A i \in 1..Len(queue') : customer'[queue'[i]].end \in Present /\ queue'[i] # whom'
    BY <1>5, <1>7, <2>2, <2>4, <2>5, <2>6 DEF Turns
  <2>8. \A i, j \in 1..Len(queue') : queue'[i] = queue'[j] => i = j
    BY <2>2, <2>3, <2>6 DEF Turns
  <2>9. AtHand' => whom' \in Customers /\ customer'[whom'].end \in Present
    BY <1>5, <2>4 DEF Turns, AtHand
  <2>10. courier' = "accept" => whom' = NoShop BY <1>5 DEF Turns
  <2>11. QED BY <2>7, <2>8, <2>9, <2>10 DEF Turns
<1>9. FailsByLeaving' BY <1>3, <1>4 DEF FailsByLeaving
<1>10. Bills'
  <2>1. \A d \in Customers : customer'[d].end # "gone" => customer'[d].bill = NoBill
    BY <1>3, <1>4 DEF Bills
  <2>2. AtHand => whom \in Customers BY DEF Turns
  <2>3. QED BY <1>4, <1>5, <1>7, <2>1, <2>2 DEF Bills, AtHand
<1>11. EndedByLeaving' BY <1>5 DEF Ended, EndedByLeaving
<1>12. QED BY <1>6, <1>8, <1>9, <1>10, <1>11

-----------------------------------------------------------------------------
(* What main does.                                                          *)

(* The first of the queue is at hand, with an empty order. *)
LEMMA NextCustomerKeeps == ASSUME DeliveryInv, NextCustomer PROVE DeliveryInv'
<1> USE DEF DeliveryInv
<1>1. /\ courier = "accept" /\ courier' = "read" /\ whom' = Head(queue)
      /\ queue' = Tail(queue) /\ queue # <<>> /\ st' = NoOrder /\ customer' = customer
  BY DEF NextCustomer
<1>2. queue \in Seq(Customers) /\ Len(queue) \in Nat \ {0} BY <1>1 DEF DeliveryTypeOK
<1>3. /\ queue' \in Seq(Customers) /\ Len(queue') = Len(queue) - 1
      /\ \A i \in 1..Len(queue') : queue'[i] = queue[i + 1] /\ i + 1 \in 1..Len(queue)
      /\ whom' = queue[1] /\ whom' \in Customers /\ 1 \in 1..Len(queue)
  BY <1>1, <1>2
<1>4. /\ NoOrder \in [shop : {NoShop, "SHOP_DESSERT", "SHOP_BEVERAGE", "SHOP_DINER"},
                      qty : [Meals -> Int], total_money : Int]
      /\ NoOrder.shop = NoShop /\ NoOrder.total_money = 0 /\ NoOrder.qty = NoMeals
  BY StrangerTyped DEF NoOrder
<1>5. DeliveryTypeOK' BY <1>1, <1>3, <1>4 DEF DeliveryTypeOK
<1>6. Turns'
  <2>1. \A i \in 1..Len(queue') : customer'[queue'[i]].end \in Present /\ queue'[i] # whom'
    BY <1>1, <1>2, <1>3 DEF Turns, Present
  <2>2. \A i, j \in 1..Len(queue') : queue'[i] = queue'[j] => i = j
    <3>1. TAKE i, j \in 1..Len(queue')
    <3>2. HAVE queue'[i] = queue'[j]
    <3>3. i + 1 = j + 1 BY <1>3, <3>2, SMTT(30) DEF Turns
    <3>4. QED BY <3>3
  <2>3. customer'[whom'].end \in Present BY <1>1, <1>3 DEF Turns, Present
  <2>4. QED BY <1>1, <1>3, <2>1, <2>2, <2>3 DEF Turns
<1>7. FailsByLeaving' BY <1>1 DEF FailsByLeaving
<1>8. Bills'
  <2>1. Cost(NoMeals) = 0 BY DEF Cost, NoMeals, Meals
  <2>2. QED BY <1>1, <1>4, <2>1 DEF Bills
<1>9. EndedByLeaving' BY <1>1 DEF EndedByLeaving
<1>10. QED BY <1>5, <1>6, <1>7, <1>8, <1>9

(* The queue does not notice what happens to the customer at hand.          *)
LEMMA TurnsKept ==
  ASSUME DeliveryInv, AtHand, NEW new \in Strangers,
         customer' = [customer EXCEPT ![whom] = new], queue' = queue,
         \/ /\ whom' = whom /\ courier' # "accept"
            /\ new.end \in Present
         \/ whom' = NoShop /\ courier' = "accept"
  PROVE  Turns'
<1> USE DEF DeliveryInv
<1>1. whom \in Customers BY DEF Turns
<1>2. /\ customer' \in [Customers -> Strangers] /\ customer'[whom] = new
      /\ \A d \in Customers \ {whom} : customer'[d] = customer[d]
  BY <1>1, OneCustomer
<1>3. \A i \in 1..Len(queue) : queue[i] \in Customers BY DEF DeliveryTypeOK
<1>4. \A i \in 1..Len(queue) : customer'[queue[i]].end \in Present /\ queue[i] # whom'
  BY <1>2, <1>3, DeliveryAssumption DEF Turns, Present
<1>5. AtHand' => whom' \in Customers /\ customer'[whom'].end \in Present BY <1>1, <1>2 DEF Present, AtHand
<1>6. QED BY <1>4, <1>5 DEF Turns

(* A command is answered: the customer is as in shown, or the connection    *)
(* fails.                                                                   *)
LEMMA AnswerKeeps ==
  ASSUME DeliveryInv, courier = "read", Cmd # NoCmd, customer[whom].end # "aborted",
         NEW shown \in Strangers, NEW next \in {"read", "deliver"}, Answer(shown, next),
         shown.end = customer[whom].end, shown.bill = customer[whom].bill,
         st' \in [shop : {NoShop, "SHOP_DESSERT", "SHOP_BEVERAGE", "SHOP_DINER"},
                  qty : [Meals -> Int], total_money : Int],
         next = "deliver" => st'.shop # NoShop,
         st'.total_money = Cost(st'.qty),
         st'.shop # NoShop /\ shown.end = "up" => shown.order = Visible(st'.qty)
  PROVE  DeliveryInv' /\ customer'[whom].end # "gone"
<1> USE DEF DeliveryInv
<1> DEFINE end == customer[whom].end
           unsent == [customer[whom] EXCEPT !.cmd = NoCmd,
                                            !.end = IF end = "closed" THEN "reset" ELSE end]
           new == IF end = "up" THEN [shown EXCEPT !.unread = TRUE] ELSE unsent
<1>1. whom \in Customers /\ customer[whom] \in Strangers /\ AtHand
      /\ end \in {"up", "closed", "reset"}
  BY DEF Turns, AtHand, Present, DeliveryTypeOK
<1>2. customer' = [customer EXCEPT ![whom] = new]
  BY DEF Answer
<1>3. /\ courier' = IF end \in {"up", "closed"} THEN next ELSE "ended"
      /\ whom' = whom /\ queue' = queue
  BY DEF Answer
<1>4. /\ end = "up" => /\ new \in Strangers /\ new.end = "up"
                       /\ new.order = shown.order /\ new.bill = customer[whom].bill
      /\ end # "up" => /\ new \in Strangers /\ new.end = "reset" /\ new.cmd = NoCmd
                       /\ new.left = customer[whom].left /\ new.bill = customer[whom].bill
  <2>1. CASE end = "up" BY <2>1 DEF Strangers
  <2>2. CASE end # "up" BY <1>1, <2>2, StrangerTyped DEF Strangers
  <2>3. QED BY <2>1, <2>2
<1> HIDE DEF new
<1>5. /\ customer' \in [Customers -> Strangers] /\ customer'[whom] = new
      /\ \A d \in Customers \ {whom} : customer'[d] = customer[d]
  BY <1>1, <1>2, <1>4, OneCustomer
<1>6. DeliveryTypeOK'
  <2>1. courier' \in {"read", "deliver", "ended"} /\ (courier' = "deliver" => st'.shop # NoShop)
    BY <1>3
  <2>2. QED BY <1>3, <1>5, <2>1 DEF DeliveryTypeOK
<1>7. Turns'
  <2>1. new.end \in Present /\ courier' # "accept" BY <1>1, <1>3, <1>4 DEF Present
  <2>2. new \in Strangers BY <1>4
  <2>3. QED BY <1>1, <1>2, <1>3, <2>1, <2>2, TurnsKept
<1>8. end # "up" => customer[whom].left BY <1>1 DEF FailsByLeaving, Cmd
<1>9. FailsByLeaving' BY <1>4, <1>5, <1>8 DEF FailsByLeaving
<1>10. Bills'
  <2>1. \A d \in Customers : customer'[d].end # "gone" => customer'[d].bill = NoBill
    BY <1>1, <1>4, <1>5 DEF Bills
  <2>2. QED BY <1>1, <1>3, <1>4, <1>5, <2>1 DEF Bills
<1>11. EndedByLeaving'
  <2>1. courier' = "ended" => end # "up" BY <1>3
  <2>2. QED BY <1>1, <1>4, <1>5, <1>8, <2>1 DEF EndedByLeaving
<1>12. customer'[whom].end # "gone" BY <1>4, <1>5
<1>13. QED BY <1>6, <1>7, <1>9, <1>10, <1>11, <1>12

(* The connection is closed by the server.                                  *)
LEMMA DismissKeeps ==
  ASSUME DeliveryInv, AtHand, NEW bill \in SUBSET Int, Dismiss(bill), st' = st
  PROVE  DeliveryInv'
<1> USE DEF DeliveryInv
<1> DEFINE new == [Stranger EXCEPT !.end = "gone", !.orders = customer[whom].orders,
                                   !.left = customer[whom].left, !.bill = bill]
<1>1. whom \in Customers /\ customer[whom] \in Strangers BY DEF Turns, DeliveryTypeOK
<1>2. /\ customer' = [customer EXCEPT ![whom] = new]
      /\ courier' = "accept" /\ whom' = NoShop /\ queue' = queue
  BY DEF Dismiss
<1>3. new \in Strangers /\ new.end = "gone"
  BY <1>1, StrangerTyped, StrangerFields DEF Strangers
<1> HIDE DEF new
<1>4. /\ customer' \in [Customers -> Strangers] /\ customer'[whom] = new
      /\ \A d \in Customers \ {whom} : customer'[d] = customer[d]
  BY <1>1, <1>2, <1>3, OneCustomer
<1>5. DeliveryTypeOK' BY <1>2, <1>4 DEF DeliveryTypeOK
<1>6. Turns' BY <1>2, <1>3, TurnsKept
<1>7. FailsByLeaving' BY <1>3, <1>4 DEF FailsByLeaving
<1>8. Bills' BY <1>2, <1>3, <1>4 DEF Bills, AtHand
<1>9. EndedByLeaving' BY <1>2 DEF EndedByLeaving
<1>10. QED BY <1>5, <1>6, <1>7, <1>8, <1>9

(* Read or deliver, the other end is there; and there is nothing to read    *)
(* for a word.                                                              *)
LEMMA CommandRead ==
  ASSUME DeliveryInv, NEW word, word # "none", Reads(word)
  PROVE  /\ courier = "read" /\ whom \in Customers /\ customer[whom] \in Strangers
         /\ Cmd \in Commands /\ Cmd # NoCmd /\ customer[whom].end # "aborted"
         /\ Heard \in Strangers /\ Heard.end = customer[whom].end
         /\ Heard.bill = customer[whom].bill /\ Heard.order = customer[whom].order
<1>1. whom \in Customers /\ customer[whom] \in Strangers
  BY DEF Reads, DeliveryInv, Turns, AtHand, DeliveryTypeOK
<1>2. NoCmd[1] = "none" BY DEF NoCmd
<1>3. Cmd \in Commands BY <1>1, StrangerFields DEF Cmd
<1>4. /\ Heard \in Strangers /\ Heard.end = customer[whom].end
      /\ Heard.bill = customer[whom].bill /\ Heard.order = customer[whom].order
  BY <1>1, StrangerTyped DEF Heard, Strangers
<1>5. QED BY <1>1, <1>2, <1>3, <1>4 DEF Reads

LEMMA ShopListKeeps ==
  ASSUME DeliveryInv, ShopList PROVE DeliveryInv' /\ customer'[whom].end # "gone"
<1>1. Reads("shop list") /\ Answer(Heard, "read") /\ st' = st BY DEF ShopList
<1>2. /\ courier = "read" /\ Cmd # NoCmd /\ customer[whom].end # "aborted"
      /\ Heard \in Strangers /\ Heard.end = customer[whom].end
      /\ Heard.bill = customer[whom].bill /\ Heard.order = customer[whom].order
  BY <1>1, CommandRead
<1>3. /\ st' \in [shop : {NoShop, "SHOP_DESSERT", "SHOP_BEVERAGE", "SHOP_DINER"},
                  qty : [Meals -> Int], total_money : Int]
      /\ st'.total_money = Cost(st'.qty)
      /\ st'.shop # NoShop /\ Heard.end = "up" => Heard.order = Visible(st'.qty)
  BY <1>1, <1>2 DEF DeliveryInv, DeliveryTypeOK, Bills, AtHand
<1>4. QED BY <1>1, <1>2, <1>3, AnswerKeeps

LEMMA ConfirmKeeps ==
  ASSUME DeliveryInv, Confirm PROVE DeliveryInv' /\ customer'[whom].end # "gone"
<1> DEFINE next == IF st.shop = NoShop THEN "read" ELSE "deliver"
<1>1. Reads("confirm") /\ Answer(Heard, next) /\ st' = st BY DEF Confirm
<1>2. /\ courier = "read" /\ Cmd # NoCmd /\ customer[whom].end # "aborted"
      /\ Heard \in Strangers /\ Heard.end = customer[whom].end
      /\ Heard.bill = customer[whom].bill /\ Heard.order = customer[whom].order
  BY <1>1, CommandRead
<1>3. /\ st' \in [shop : {NoShop, "SHOP_DESSERT", "SHOP_BEVERAGE", "SHOP_DINER"},
                  qty : [Meals -> Int], total_money : Int]
      /\ st'.total_money = Cost(st'.qty)
      /\ st'.shop # NoShop /\ Heard.end = "up" => Heard.order = Visible(st'.qty)
  BY <1>1, <1>2 DEF DeliveryInv, DeliveryTypeOK, Bills, AtHand
<1>4. next \in {"read", "deliver"} /\ (next = "deliver" => st'.shop # NoShop) BY <1>1
<1> HIDE DEF next
<1>5. QED BY <1>1, <1>2, <1>3, <1>4, AnswerKeeps

(* A meal more or less changes the cost by its price.                       *)
LEMMA CostOfOneMore ==
  ASSUME NEW ordered \in [Meals -> Int], NEW meal \in Meals, NEW n \in Int
  PROVE  /\ [ordered EXCEPT ![meal] = @ + n] \in [Meals -> Int]
         /\ Cost([ordered EXCEPT ![meal] = @ + n]) = Cost(ordered) + meal_price[meal] * n
<1>1. /\ "cookie" \in Meals /\ "cake" \in Meals /\ "tea" \in Meals /\ "boba" \in Meals
      /\ "fried-rice" \in Meals /\ "Egg-drop-soup" \in Meals
      /\ meal \in {"cookie", "cake", "tea", "boba", "fried-rice", "Egg-drop-soup"}
  BY DEF Meals
<1>2. /\ meal_price["cookie"] = 60 /\ meal_price["cake"] = 80 /\ meal_price["tea"] = 40
      /\ meal_price["boba"] = 70 /\ meal_price["fried-rice"] = 120
      /\ meal_price["Egg-drop-soup"] = 50
  BY <1>1 DEF meal_price
<1> DEFINE new == [ordered EXCEPT ![meal] = @ + n]
<1>3. new \in [Meals -> Int] /\ new[meal] = ordered[meal] + n
      /\ \A m \in Meals \ {meal} : new[m] = ordered[m]
  OBVIOUS
<1>4. \A m \in Meals : ordered[m] \in Int /\ new[m] \in Int BY <1>3
<1> HIDE DEF new
<1>5. CASE meal = "cookie" BY <1>1, <1>2, <1>3, <1>4, <1>5 DEF Cost
<1>6. CASE meal = "cake" BY <1>1, <1>2, <1>3, <1>4, <1>6 DEF Cost
<1>7. CASE meal = "tea" BY <1>1, <1>2, <1>3, <1>4, <1>7 DEF Cost
<1>8. CASE meal = "boba" BY <1>1, <1>2, <1>3, <1>4, <1>8 DEF Cost
<1>9. CASE meal = "fried-rice" BY <1>1, <1>2, <1>3, <1>4, <1>9 DEF Cost
<1>10. CASE meal = "Egg-drop-soup" BY <1>1, <1>2, <1>3, <1>4, <1>10 DEF Cost
<1>11. \/ meal = "cookie" \/ meal = "cake" \/ meal = "tea" \/ meal = "boba"
       \/ meal = "fried-rice" \/ meal = "Egg-drop-soup"
  BY <1>1
<1>12. QED BY <1>5, <1>6, <1>7, <1>8, <1>9, <1>10, <1>11

LEMMA VisibleTyped == ASSUME NEW ordered \in [Meals -> Int] PROVE Visible(ordered) \in [Meals -> Nat]
  BY DEF Visible

LEMMA OrderKeeps ==
  ASSUME DeliveryInv, Order PROVE DeliveryInv' /\ customer'[whom].end # "gone"
<1> DEFINE StTypes == [shop : {NoShop, "SHOP_DESSERT", "SHOP_BEVERAGE", "SHOP_DINER"},
                       qty : [Meals -> Int], total_money : Int]
           meal == Cmd[2]
           wanted == Cmd[3]
           shop == IF st.shop = NoShop THEN ShopOf(meal) ELSE st.shop
           taken == shop # NoShop /\ ShopOf(meal) = shop
           after == [shop |-> shop,
                     qty |-> IF taken THEN [st.qty EXCEPT ![meal] = @ + wanted] ELSE st.qty,
                     total_money |-> IF taken THEN st.total_money + meal_price[meal] * wanted
                                     ELSE st.total_money]
           shown == [Heard EXCEPT !.order = Visible(after.qty)]
<1>1. /\ Reads("order") /\ st' = after
      /\ IF shop = NoShop
         THEN customer' = [customer EXCEPT ![whom] = Heard] /\ UNCHANGED <<queue, courier, whom>>
         ELSE Answer(shown, "read")
  BY DEF Order
<1>2. /\ courier = "read" /\ whom \in Customers /\ customer[whom] \in Strangers
      /\ Cmd \in Commands /\ Cmd # NoCmd /\ customer[whom].end # "aborted"
      /\ Heard \in Strangers /\ Heard.end = customer[whom].end
      /\ Heard.bill = customer[whom].bill /\ Heard.order = customer[whom].order
  BY <1>1, CommandRead
<1>3. /\ st \in StTypes /\ st.shop \in {NoShop, "SHOP_DESSERT", "SHOP_BEVERAGE", "SHOP_DINER"}
      /\ st.qty \in [Meals -> Int] /\ st.total_money \in Int /\ st.total_money = Cost(st.qty)
  BY <1>2 DEF DeliveryInv, DeliveryTypeOK, Bills, AtHand
<1>4. wanted \in Int
  <2>1. Cmd[1] = "order" BY <1>1 DEF Reads
  <2>2. PICK order \in Orders : Cmd = <<"order">> \o order
    <3>1. <<"shop list">>[1] # "order" /\ <<"confirm">>[1] # "order"
          /\ <<"cancel">>[1] # "order" /\ NoCmd[1] # "order"
      BY DEF NoCmd
    <3>2. QED BY <1>2, <2>1, <3>1 DEF Commands
  <2>3. QED BY <2>2, OrderWords
<1>5. /\ ShopOf(meal) \in {NoShop, "SHOP_DESSERT", "SHOP_BEVERAGE", "SHOP_DINER"}
      /\ ShopOf(meal) # NoShop => meal \in Meals
  BY DEF ShopOf, meal_to_shop, Meals
<1>6. shop \in {NoShop, "SHOP_DESSERT", "SHOP_BEVERAGE", "SHOP_DINER"} BY <1>3, <1>5
<1>7. after \in StTypes /\ after.total_money = Cost(after.qty)
  <2>1. CASE taken
    <3>1. meal \in Meals BY <1>5, <2>1
    <3>2. meal_price[meal] \in Int BY <3>1 DEF meal_price, Meals
    <3>3. /\ [st.qty EXCEPT ![meal] = @ + wanted] \in [Meals -> Int]
          /\ Cost([st.qty EXCEPT ![meal] = @ + wanted]) = Cost(st.qty) + meal_price[meal] * wanted
      BY <1>3, <1>4, <3>1, CostOfOneMore
    <3>4. st.total_money + meal_price[meal] * wanted \in Int BY <1>3, <1>4, <3>2
    <3>5. after = [shop |-> shop, qty |-> [st.qty EXCEPT ![meal] = @ + wanted],
                   total_money |-> st.total_money + meal_price[meal] * wanted]
      BY <2>1
    <3> HIDE DEF meal, wanted, shop, after, taken
    <3>6. QED BY <1>3, <1>6, <3>3, <3>4, <3>5
  <2>2. CASE ~taken
    <3>1. after = [shop |-> shop, qty |-> st.qty, total_money |-> st.total_money] BY <2>2
    <3> HIDE DEF shop, after, taken
    <3>2. QED BY <1>3, <1>6, <3>1
  <2>3. QED BY <2>1, <2>2
<1>8. after.shop = shop /\ after.qty \in [Meals -> Int] BY <1>7
<1> HIDE DEF meal, wanted, shop, taken, after
<1>9. Visible(after.qty) \in [Meals -> Nat] BY <1>8, VisibleTyped
<1>10. CASE shop = NoShop
  <2>1. customer' = [customer EXCEPT ![whom] = Heard] /\ UNCHANGED <<queue, courier, whom>>
    BY <1>1, <1>10
  <2>2. /\ customer' \in [Customers -> Strangers] /\ customer'[whom] = Heard
        /\ \A d \in Customers \ {whom} : customer'[d] = customer[d]
    BY <1>2, <2>1, OneCustomer DEF DeliveryInv
  <2>3. DeliveryTypeOK' BY <1>1, <1>2, <1>7, <2>1, <2>2 DEF DeliveryInv, DeliveryTypeOK
  <2>4. Turns'
    <3>1. Heard.end \in Present BY <1>2 DEF DeliveryInv, Turns, AtHand
    <3>2. QED BY <1>2, <2>1, <3>1, TurnsKept DEF AtHand
  <2>5. FailsByLeaving'
    <3>1. Heard.left = customer[whom].left /\ Heard.cmd = NoCmd
      BY <1>2 DEF Heard, Strangers
    <3>2. QED BY <1>2, <2>2, <3>1 DEF DeliveryInv, FailsByLeaving
  <2>6. Bills'
    <3>1. \A d \in Customers : customer'[d].end # "gone" => customer'[d].bill = NoBill
      BY <1>2, <2>2 DEF DeliveryInv, Bills
    <3>2. QED BY <1>1, <1>7, <1>8, <1>10, <3>1 DEF Bills
  <2>7. EndedByLeaving' BY <1>2, <2>1 DEF EndedByLeaving
  <2>8. customer'[whom].end # "gone" BY <1>2, <2>2 DEF DeliveryInv, Turns, AtHand, Present
  <2>9. QED BY <2>3, <2>4, <2>5, <2>6, <2>7, <2>8 DEF DeliveryInv
<1>11. CASE shop # NoShop
  <2>1. /\ shown \in Strangers /\ shown.end = Heard.end /\ shown.bill = Heard.bill
        /\ shown.order = Visible(after.qty)
    BY <1>2, <1>9 DEF Strangers
  <2>2. Answer(shown, "read") BY <1>1, <1>11
  <2> HIDE DEF shown
  <2>3. QED BY <1>1, <1>2, <1>7, <2>1, <2>2, AnswerKeeps
<1>12. QED BY <1>10, <1>11

(* After the sleep, and at the end of the customer's commands. *)
LEMMA DeliverKeeps == ASSUME DeliveryInv, Deliver PROVE DeliveryInv'
<1> DEFINE end == customer[whom].end
<1>1. courier = "deliver" /\ AtHand /\ whom \in Customers /\ st.total_money \in Int /\ st' = st
  BY DEF Deliver, AtHand, DeliveryInv, Turns, DeliveryTypeOK
<1>2. CASE end \in {"reset", "aborted"}
  <2>1. courier' = "ended" /\ UNCHANGED <<customer, queue, whom, st>> BY <1>2 DEF Deliver
  <2>2. customer[whom].left BY <1>1, <1>2 DEF DeliveryInv, FailsByLeaving
  <2>3. DeliveryTypeOK' BY <2>1 DEF DeliveryInv, DeliveryTypeOK
  <2>4. Turns' BY <2>1 DEF DeliveryInv, Turns, AtHand
  <2>5. FailsByLeaving' /\ Bills' BY <2>1 DEF DeliveryInv, FailsByLeaving, Bills, AtHand
  <2>6. EndedByLeaving' BY <1>1, <2>1, <2>2 DEF EndedByLeaving
  <2>7. QED BY <2>3, <2>4, <2>5, <2>6 DEF DeliveryInv
<1>3. CASE end \notin {"reset", "aborted"}
  <2> DEFINE bill == IF end = "up" THEN {st.total_money} ELSE NoBill
  <2>1. Dismiss(bill) BY <1>3 DEF Deliver
  <2>2. bill \in SUBSET Int BY <1>1 DEF NoBill
  <2> HIDE DEF bill
  <2>3. QED BY <1>1, <2>1, <2>2, DismissKeeps
<1>4. QED BY <1>2, <1>3

LEMMA CancelKeeps == ASSUME DeliveryInv, Cancel \/ EndOfInput PROVE DeliveryInv'
<1>1. AtHand /\ Dismiss(NoBill) /\ st' = st
  BY DEF Cancel, EndOfInput, Reads, NoInput, AtHand
<1>2. NoBill \in SUBSET Int BY DEF NoBill
<1>3. QED BY <1>1, <1>2, DismissKeeps

LEMMA ReadFailsKeeps == ASSUME DeliveryInv, ReadFails PROVE DeliveryInv'
<1>1. /\ courier' = "ended" /\ UNCHANGED <<customer, queue, whom, st>> /\ AtHand
      /\ customer[whom].end = "aborted"
  BY DEF ReadFails, AtHand
<1>2. whom \in Customers /\ customer[whom].left
  BY <1>1 DEF DeliveryInv, Turns, FailsByLeaving
<1>3. DeliveryTypeOK' BY <1>1 DEF DeliveryInv, DeliveryTypeOK
<1>4. Turns' BY <1>1 DEF DeliveryInv, Turns, AtHand
<1>5. FailsByLeaving' /\ Bills' BY <1>1 DEF DeliveryInv, FailsByLeaving, Bills, AtHand
<1>6. EndedByLeaving' BY <1>1, <1>2 DEF EndedByLeaving
<1>7. QED BY <1>3, <1>4, <1>5, <1>6 DEF DeliveryInv

LEMMA DeliveryNextInv == ASSUME DeliveryInv, [DeliveryNext]_deliveryVars PROVE DeliveryInv'
<1>1. CASE UNCHANGED deliveryVars
  BY <1>1 DEF deliveryVars, DeliveryInv, DeliveryTypeOK, Turns, AtHand, FailsByLeaving,
              Bills, EndedByLeaving
<1>2. CASE Interrupt
  BY <1>2 DEF Interrupt, DeliveryInv, DeliveryTypeOK, Turns, AtHand, FailsByLeaving,
              Bills, EndedByLeaving
<1>3. ASSUME ~Ended, NEW c \in Customers, Come(c) \/ Say(c) \/ ReadAnswer(c) \/ Leave(c)
      PROVE  DeliveryInv'
  BY <1>3, ComeKeeps, SayKeeps, ReadAnswerKeeps, LeaveKeeps
<1>4. CASE Serving
  BY <1>4, NextCustomerKeeps, ShopListKeeps, ConfirmKeeps, DeliverKeeps, CancelKeeps,
     OrderKeeps, ReadFailsKeeps DEF Serving
<1>5. QED BY <1>1, <1>2, <1>3, <1>4 DEF DeliveryNext

LEMMA DeliveryInvHolds == DeliverySpec => []DeliveryInv
  BY DeliveryInitInv, DeliveryNextInv, PTL DEF DeliverySpec

(* The platform dies of a write or read only when somebody has left without *)
(* waiting, however many customers there are and whatever they order.       *)
THEOREM OnlyLeavingEnds == DeliverySpec => []EndedByLeaving
<1>1. DeliveryInv => EndedByLeaving BY DEF DeliveryInv
<1>2. QED BY <1>1, DeliveryInvHolds, PTL

(* What is not shown makes the cost less, and nothing is hidden if nothing  *)
(* is below zero.                                                           *)
LEMMA VisibleCost ==
  ASSUME NEW ordered \in [Meals -> Int]
  PROVE  /\ Cost(ordered) <= Cost(Visible(ordered))
         /\ (\A m \in Meals : ordered[m] >= 0) => Cost(ordered) = Cost(Visible(ordered))
<1> DEFINE v == Visible(ordered)
<1>1. /\ "cookie" \in Meals /\ "cake" \in Meals /\ "tea" \in Meals /\ "boba" \in Meals
      /\ "fried-rice" \in Meals /\ "Egg-drop-soup" \in Meals
  BY DEF Meals
<1>2. \A m \in Meals : /\ ordered[m] \in Int /\ v[m] \in Int /\ ordered[m] <= v[m]
                       /\ ordered[m] >= 0 => v[m] = ordered[m]
  BY DEF Visible
<1> HIDE DEF v
<1>3. Cost(ordered) <= Cost(v) BY <1>1, <1>2 DEF Cost
<1>4. ASSUME \A m \in Meals : ordered[m] >= 0 PROVE Cost(ordered) = Cost(v)
  BY <1>1, <1>2, <1>4 DEF Cost
<1>5. QED BY <1>3, <1>4 DEF v

(* Only the delivery shows a bill. *)
LEMMA BillComes ==
  ASSUME DeliveryInv, DeliveryInv', DeliveryNext, NEW c \in Customers,
         customer'[c].bill # customer[c].bill
  PROVE  /\ Deliver /\ c = whom /\ customer[whom].end = "up"
         /\ customer'[c].bill = {st.total_money}
<1> USE DEF DeliveryInv
<1>1. customer \in [Customers -> Strangers] /\ customer' \in [Customers -> Strangers]
  BY DEF DeliveryTypeOK
<1>2. customer'[c].end = "gone" \/ customer[c].end = "gone" BY DEF Bills
<1>3. ASSUME NEW d \in Customers, Come(d) \/ Say(d) \/ ReadAnswer(d) \/ Leave(d) PROVE FALSE
  <2>1. customer[d].end \in {"away", "up"} /\ customer'[d].end \in {"up", "closed", "aborted"}
    <3>1. CASE Come(d) BY <1>1, <3>1 DEF Come, Strangers
    <3>2. CASE Say(d) BY <1>1, <3>2, ZenonT(60) DEF Say, Strangers
    <3>3. CASE ReadAnswer(d) BY <1>1, <3>3 DEF ReadAnswer, Strangers
    <3>4. CASE Leave(d) BY <1>1, <3>4 DEF Leave, Stranger
    <3>5. QED BY <1>3, <3>1, <3>2, <3>3, <3>4
  <2>2. \A e \in Customers \ {d} : customer'[e] = customer[e]
    BY <1>1, <1>3 DEF Come, Say, ReadAnswer, Leave
  <2>3. c = d BY <2>2
  <2>4. QED BY <1>2, <2>1, <2>3
<1>4. ASSUME Dismiss(NoBill), AtHand PROVE FALSE
  <2>1. whom \in Customers /\ customer[whom].end \in Present BY <1>4 DEF Turns
  <2>2. customer[whom].bill = NoBill BY <2>1 DEF Bills, Present
  <2>3. customer'[whom].bill = NoBill BY <1>1, <1>4, <2>1 DEF Dismiss, Stranger
  <2>4. \A e \in Customers \ {whom} : customer'[e] = customer[e] BY <1>1, <1>4 DEF Dismiss
  <2>5. QED BY <2>2, <2>3, <2>4
<1>5. CASE ShopList \/ Confirm \/ Order
  <2>1. courier = "read" BY <1>5 DEF ShopList, Confirm, Order, Reads
  <2>2. whom \in Customers /\ customer[whom].end \in Present BY <2>1 DEF Turns, AtHand
  <2>3. customer'[whom].end # "gone"
    BY <1>5, ShopListKeeps, ConfirmKeeps, OrderKeeps
  <2>4. PICK new : customer' = [customer EXCEPT ![whom] = new]
    BY <1>5, Zenon DEF ShopList, Confirm, Order, Answer
  <2>5. \A e \in Customers \ {whom} : customer'[e] = customer[e] BY <1>1, <2>4
  <2>6. c = whom BY <2>5
  <2>7. QED BY <1>2, <2>2, <2>3, <2>6 DEF Present
<1>6. CASE Cancel \/ EndOfInput BY <1>4, <1>6 DEF Cancel, EndOfInput, Reads, NoInput, AtHand
<1>7. CASE NextCustomer \/ ReadFails \/ Interrupt
  BY <1>7 DEF NextCustomer, ReadFails, Interrupt
<1>8. CASE Deliver
  <2>1. AtHand /\ whom \in Customers BY <1>8 DEF Deliver, Turns, AtHand
  <2>2. customer[whom].end = "up"
    <3>1. SUFFICES ASSUME customer[whom].end # "up" PROVE FALSE OBVIOUS
    <3>2. CASE customer[whom].end \in {"reset", "aborted"} BY <1>8, <3>2 DEF Deliver
    <3>3. CASE customer[whom].end \notin {"reset", "aborted"}
      BY <1>4, <1>8, <2>1, <3>1, <3>3 DEF Deliver
    <3>4. QED BY <3>2, <3>3
  <2>3. Dismiss({st.total_money}) BY <1>8, <2>2 DEF Deliver
  <2>4. \A e \in Customers \ {whom} : customer'[e] = customer[e] BY <1>1, <2>3 DEF Dismiss
  <2>5. customer'[whom].bill = {st.total_money} BY <1>1, <2>1, <2>3 DEF Dismiss, Stranger
  <2>6. QED BY <1>8, <2>2, <2>4, <2>5
<1>9. QED
  BY <1>3, <1>5, <1>6, <1>7, <1>8 DEF DeliveryNext, Serving

(* Who pays, pays for what he was shown last, and less only if he has       *)
(* ordered less than nothing of something.                                  *)
THEOREM BillIsForWhatWasShown == DeliverySpec => PaysWhatWasShown
<1> DEFINE Pays ==
      \A c \in Customers :
        customer'[c].bill # customer[c].bill =>
          /\ st.total_money <= Cost(customer[c].order)
          /\ (\A m \in Meals : st.qty[m] >= 0) =>
               customer'[c].bill = {Cost(customer[c].order)}
<1>1. ASSUME DeliveryInv, DeliveryInv', [DeliveryNext]_deliveryVars PROVE [Pays]_deliveryVars
  <2>1. SUFFICES ASSUME NEW c \in Customers, DeliveryNext,
                        customer'[c].bill # customer[c].bill
                 PROVE  /\ st.total_money <= Cost(customer[c].order)
                        /\ (\A m \in Meals : st.qty[m] >= 0) =>
                             customer'[c].bill = {Cost(customer[c].order)}
    BY <1>1
  <2>2. Deliver /\ c = whom /\ customer[whom].end = "up" /\ customer'[c].bill = {st.total_money}
    BY <1>1, <2>1, BillComes
  <2>3. /\ st.total_money = Cost(st.qty) /\ customer[c].order = Visible(st.qty)
        /\ st.qty \in [Meals -> Int]
    BY <1>1, <2>2 DEF Deliver, DeliveryInv, Bills, AtHand, DeliveryTypeOK
  <2>4. QED BY <2>2, <2>3, VisibleCost
<1>2. QED BY <1>1, DeliveryInvHolds, PTL DEF DeliverySpec, PaysWhatWasShown

-----------------------------------------------------------------------------
(* Whose the order is: the quantities are what the customer at hand has     *)
(* asked for from the shop of his first meal.  Before that he has asked for *)
(* nothing, so that nothing is missed when the shop is settled.             *)
HisOrder ==
  /\ placed \in [first : Meals \cup {NoShop}, asked : [Meals -> Int]]
  /\ placed.first = NoShop => placed.asked = NoMeals
  /\ whom # NoShop =>
       /\ st.shop = ShopOf(placed.first)
       /\ st.qty = OfOneShop(placed.asked, st.shop)
       /\ st.total_money = Cost(st.qty)

OwnInv == DeliveryInv /\ HisOrder

LEMMA ShopFacts ==
  /\ ShopOf(NoShop) = NoShop
  /\ \A m \in Meals : ShopOf(m) # NoShop
  /\ \A m : m \notin Meals => ShopOf(m) = NoShop
  /\ NoShop \notin Meals
  BY DEF ShopOf, meal_to_shop, Meals, NoShop

LEMMA NothingIsHis ==
  /\ NothingPlaced.first = NoShop /\ NothingPlaced.asked = NoMeals
  /\ NothingPlaced \in [first : Meals \cup {NoShop}, asked : [Meals -> Int]]
  /\ \A shop : OfOneShop(NoMeals, shop) = NoMeals
<1>1. NoMeals \in [Meals -> Int] BY DEF NoMeals
<1>2. QED BY <1>1 DEF NothingPlaced, OfOneShop, NoMeals

LEMMA NextCustomerOwns == ASSUME OwnInv, NextCustomer, DeliveryInv' PROVE HisOrder'
<1>1. st' = NoOrder /\ placed' = NothingPlaced BY DEF NextCustomer
<1>2. NoOrder.shop = NoShop /\ NoOrder.qty = NoMeals /\ NoOrder.total_money = 0
  BY DEF NoOrder
<1>3. Cost(NoMeals) = 0 BY DEF Cost, NoMeals, Meals
<1>4. QED BY <1>1, <1>2, <1>3, NothingIsHis, ShopFacts DEF HisOrder

(* One order more, of the shop's or of another's. *)
LEMMA OneShopMore ==
  ASSUME NEW asked \in [Meals -> Int], NEW meal \in Meals, NEW n \in Int, NEW shop
  PROVE  OfOneShop([asked EXCEPT ![meal] = @ + n], shop)
           = IF ShopOf(meal) = shop THEN [OfOneShop(asked, shop) EXCEPT ![meal] = @ + n]
             ELSE OfOneShop(asked, shop)
  BY DEF OfOneShop

LEMMA OrderOwns == ASSUME OwnInv, Order PROVE HisOrder'
<1> DEFINE meal == Cmd[2]
           wanted == Cmd[3]
           shop == IF st.shop = NoShop THEN ShopOf(meal) ELSE st.shop
           taken == shop # NoShop /\ ShopOf(meal) = shop
           after == [shop |-> shop,
                     qty |-> IF taken THEN [st.qty EXCEPT ![meal] = @ + wanted] ELSE st.qty,
                     total_money |-> IF taken THEN st.total_money + meal_price[meal] * wanted
                                     ELSE st.total_money]
<1>1. Reads("order") /\ st' = after /\ placed' = Recorded(meal, wanted) /\ whom' = whom
  BY DEF Order, Answer
<1>2. /\ whom # NoShop /\ wanted \in Int /\ st.qty \in [Meals -> Int]
      /\ placed.asked \in [Meals -> Int]
      /\ placed.first \in Meals \cup {NoShop}
  <2>1. whom \in Customers /\ Cmd \in Commands BY <1>1, CommandRead DEF OwnInv
  <2>2. whom # NoShop BY <2>1, DeliveryAssumption
  <2>3. Cmd[1] = "order" BY <1>1 DEF Reads
  <2>4. PICK order \in Orders : Cmd = <<"order">> \o order
    <3>1. <<"shop list">>[1] # "order" /\ <<"confirm">>[1] # "order"
          /\ <<"cancel">>[1] # "order" /\ NoCmd[1] # "order"
      BY DEF NoCmd
    <3>2. QED BY <2>1, <2>3, <3>1 DEF Commands
  <2>5. wanted \in Int BY <2>4, OrderWords
  <2>6. QED BY <2>2, <2>5 DEF OwnInv, DeliveryInv, DeliveryTypeOK, HisOrder
<1>3. /\ st.shop = ShopOf(placed.first) /\ st.qty = OfOneShop(placed.asked, st.shop)
      /\ st.total_money = Cost(st.qty) /\ (placed.first = NoShop => placed.asked = NoMeals)
  BY <1>2 DEF OwnInv, HisOrder
<1>4. CASE meal \notin Meals
  <2>1. ShopOf(meal) = NoShop /\ ~taken BY <1>4, ShopFacts
  <2>2. shop = st.shop BY <2>1
  <2>3. after.shop = st.shop /\ after.qty = st.qty /\ after.total_money = st.total_money
    BY <2>1, <2>2
  <2>4. placed' = placed BY <1>1, <1>4 DEF Recorded
  <2> HIDE DEF after
  <2>5. QED BY <1>1, <2>3, <2>4 DEF OwnInv, HisOrder
<1>5. CASE meal \in Meals
  <2> DEFINE first == IF placed.first = NoShop THEN meal ELSE placed.first
             asked == [placed.asked EXCEPT ![meal] = @ + wanted]
  <2>1. placed' = [first |-> first, asked |-> asked] BY <1>1, <1>5 DEF Recorded
  <2>2. /\ first \in Meals /\ asked \in [Meals -> Int] /\ first # NoShop
        /\ placed' \in [first : Meals \cup {NoShop}, asked : [Meals -> Int]]
        /\ placed'.first = first /\ placed'.asked = asked
    BY <1>2, <1>5, <2>1, ShopFacts
  <2>3. shop = ShopOf(first) /\ shop # NoShop
    <3>1. placed.first = NoShop <=> st.shop = NoShop BY <1>2, <1>3, ShopFacts
    <3>2. QED BY <1>3, <1>5, <3>1, ShopFacts
  <2>4. st.qty = OfOneShop(placed.asked, shop)
    <3>1. CASE placed.first = NoShop BY <1>3, <3>1, NothingIsHis
    <3>2. CASE placed.first # NoShop
      <4>1. shop = st.shop BY <1>3, <2>3, <3>2
      <4>2. QED BY <1>3, <4>1
    <3>3. QED BY <3>1, <3>2
  <2>5. after.shop = shop /\ after.qty = OfOneShop(asked, shop)
    <3>1. OfOneShop(asked, shop)
            = IF ShopOf(meal) = shop
              THEN [OfOneShop(placed.asked, shop) EXCEPT ![meal] = @ + wanted]
              ELSE OfOneShop(placed.asked, shop)
      <4>1. /\ placed.asked \in [Meals -> Int] /\ meal \in Meals /\ wanted \in Int
            /\ asked = [placed.asked EXCEPT ![meal] = @ + wanted]
        BY <1>2, <1>5
      <4> DEFINE was == placed.asked
      <4> HIDE DEF asked, meal, wanted, shop, taken, after, was
      <4>2. OfOneShop([was EXCEPT ![meal] = @ + wanted], shop)
              = IF ShopOf(meal) = shop THEN [OfOneShop(was, shop) EXCEPT ![meal] = @ + wanted]
                ELSE OfOneShop(was, shop)
        BY <4>1, OneShopMore DEF was
      <4>3. QED BY <4>1, <4>2 DEF was
    <3>2. /\ taken <=> ShopOf(meal) = shop
          /\ after.shop = shop
          /\ after.qty = IF taken THEN [st.qty EXCEPT ![meal] = @ + wanted] ELSE st.qty
      BY <2>3
    <3> HIDE DEF asked, meal, wanted, shop, taken, after
    <3>3. QED BY <2>4, <3>1, <3>2
  <2>6. after.total_money = Cost(after.qty)
    <3>1. Cost([st.qty EXCEPT ![meal] = @ + wanted]) = Cost(st.qty) + meal_price[meal] * wanted
      BY <1>2, <1>5, CostOfOneMore
    <3> HIDE DEF meal, wanted
    <3>2. QED BY <1>3, <3>1
  <2> HIDE DEF after, first, asked
  <2>7. QED BY <1>1, <2>2, <2>3, <2>5, <2>6 DEF HisOrder
<1>6. QED BY <1>4, <1>5

(* Nothing else touches an order, but to leave it behind with its customer. *)
LEMMA OthersKeepHisOrder ==
  ASSUME HisOrder, UNCHANGED <<st, placed>>, whom' \in {whom, NoShop}
  PROVE  HisOrder'
  BY DEF HisOrder

LEMMA OwnNextInv == ASSUME OwnInv, [DeliveryNext]_deliveryVars PROVE OwnInv'
<1>1. DeliveryInv' BY DeliveryNextInv DEF OwnInv
<1>2. CASE UNCHANGED deliveryVars
  BY <1>1, <1>2, OthersKeepHisOrder DEF deliveryVars, OwnInv
<1>3. CASE Interrupt BY <1>1, <1>3, OthersKeepHisOrder DEF Interrupt, OwnInv
<1>4. ASSUME NEW c \in Customers, Come(c) \/ Say(c) \/ ReadAnswer(c) \/ Leave(c)
      PROVE  OwnInv'
  <2>1. UNCHANGED <<whom, st, placed>> BY <1>4 DEF Come, Say, ReadAnswer, Leave
  <2>2. QED BY <1>1, <2>1, OthersKeepHisOrder DEF OwnInv
<1>5. CASE NextCustomer BY <1>1, <1>5, NextCustomerOwns DEF OwnInv
<1>6. CASE Order BY <1>1, <1>6, OrderOwns DEF OwnInv
<1>7. CASE ShopList \/ Confirm \/ Cancel \/ EndOfInput \/ ReadFails \/ Deliver
  <2>1. UNCHANGED <<st, placed>>
    BY <1>7 DEF ShopList, Confirm, Cancel, EndOfInput, ReadFails, Deliver
  <2>2. whom' \in {whom, NoShop}
    BY <1>7 DEF ShopList, Confirm, Cancel, EndOfInput, ReadFails, Deliver, Answer, Dismiss
  <2>3. QED BY <1>1, <2>1, <2>2, OthersKeepHisOrder DEF OwnInv
<1>8. QED
  BY <1>2, <1>3, <1>4, <1>5, <1>6, <1>7 DEF DeliveryNext, Serving

(* Nobody is charged for what another customer has ordered, or for meals of *)
(* another shop than that of his first.                                     *)
THEOREM OrderIsHisOwn == DeliverySpec => []OwnOrder
<1>1. DeliveryInit => OwnInv
  BY DeliveryInitInv, NothingIsHis DEF DeliveryInit, OwnInv, HisOrder
<1>2. OwnInv => OwnOrder BY DEF OwnInv, HisOrder, OwnOrder
<1>3. QED BY <1>1, <1>2, OwnNextInv, PTL DEF DeliverySpec

-----------------------------------------------------------------------------
(* DeliveryMenu.  Every price ends in a zero, and so does every total: that *)
(* is why the one digit of a negative total, which C may round below zero,  *)
(* is 0 and not an index before seg_map.                                    *)
MenuInv ==
  /\ MenuTypeOK
  /\ amount % 10 = 0
  /\ menu = "scale" => pow10 > 0
  /\ menu \in {"scale", "digits"} /\ amount < 0 => pow10 <= 1

LEMMA TotalOfTens ==
  ASSUME NEW shop, NEW q \in Int \X Int
  PROVE  Total(shop, q) \in Int /\ Total(shop, q) % 10 = 0
<1>1. PICK p1 \in Int, p2 \in Int : Prices(shop) = <<10 * p1, 10 * p2>>
  <2>1. CASE shop = 1
    <3>1. <<60, 80>> = <<10 * 6, 10 * 8>> OBVIOUS
    <3>2. QED BY <2>1, <3>1 DEF Prices
  <2>2. CASE shop = 2
    <3>1. <<40, 70>> = <<10 * 4, 10 * 7>> OBVIOUS
    <3>2. QED BY <2>2, <3>1 DEF Prices
  <2>3. CASE shop # 1 /\ shop # 2
    <3>1. <<120, 50>> = <<10 * 12, 10 * 5>> OBVIOUS
    <3>2. QED BY <2>3, <3>1 DEF Prices
  <2>4. QED BY <2>1, <2>2, <2>3
<1>2. q[1] \in Int /\ q[2] \in Int OBVIOUS
<1>3. Total(shop, q) = (10 * p1) * q[1] + (10 * p2) * q[2] BY <1>1 DEF Total
<1>4. PICK a \in Int, b \in Int : a = p1 * q[1] /\ b = p2 * q[2] BY <1>2
<1>5. (10 * p1) * q[1] = 10 * a /\ (10 * p2) * q[2] = 10 * b BY <1>2, <1>4
<1>6. Total(shop, q) = 10 * (a + b) /\ a + b \in Int BY <1>3, <1>5
<1>7. \A x \in Int : 10 * x \in Int /\ (10 * x) % 10 = 0 OBVIOUS
<1>8. QED BY <1>6, <1>7

(* An index of seg_map.                                                     *)
LEMMA DigitIsIndex ==
  ASSUME MenuInv, menu = "digits", pow10 > 0
  PROVE  DigitOf(amount) \in 0..9
<1>1. amount \in Int /\ pow10 \in Nat /\ amount % 10 = 0 BY DEF MenuInv, MenuTypeOK
<1>2. CASE amount >= 0
  <2>1. amount \div pow10 \in Int BY <1>1
  <2>2. \A x \in Int : x % 10 \in 0..9 OBVIOUS
  <2>3. DigitOf(amount) = (amount \div pow10) % 10 BY <1>2 DEF DigitOf
  <2>4. QED BY <2>1, <2>2, <2>3
<1>3. CASE amount < 0
  <2>1. pow10 = 1 BY <1>1, <1>3 DEF MenuInv
  <2>2. -amount \div 1 = -amount /\ (-amount) % 10 = 0 BY <1>1
  <2>3. ~(amount >= 0) BY <1>1, <1>3
  <2>4. DigitOf(amount) = -((-amount \div 1) % 10) BY <2>1, <2>3 DEF DigitOf
  <2>5. QED BY <2>2, <2>4
<1>4. QED BY <1>1, <1>2, <1>3

LEMMA MenuInitInv == ASSUME MenuInit PROVE MenuInv
  BY DEF MenuInit, MenuInv, MenuTypeOK

(* What is left of the input after a step is input.                         *)
LEMMA ScanfKeeps ==
  ASSUME stdin \in Seq(Characters), (\E n \in Numbers : Scanf(n)) \/ ScanfFails
  PROVE  stdin' \in Seq(Characters)
<1>1. ASSUME NEW i \in Nat, NEW k \in 1..Len(stdin), i >= k
      PROVE  SubSeq(stdin, i, Len(stdin)) \in Seq(Characters)
  BY <1>1
<1>2. CASE ScanfFails BY <1>1, <1>2 DEF ScanfFails
<1>3. ASSUME NEW n \in Numbers, Scanf(n) PROVE stdin' \in Seq(Characters)
  BY <1>1, <1>3 DEF Scanf
<1>4. QED BY <1>2, <1>3

LEMMA MenuNextInv == ASSUME MenuInv, [MenuNext]_menuVars PROVE MenuInv'
<1>1. /\ stdin \in Seq(Characters) /\ qty \in Int \X Int /\ amount \in Int /\ pow10 \in Nat
      /\ lit_leds \in 0..8 /\ digits \in Seq(0..9) /\ ordershop \in Numbers \cup {0}
      /\ typed \in Nat /\ amount % 10 = 0
  BY DEF MenuInv, MenuTypeOK
<1>2. Numbers \subseteq -9..9 BY MenuAssumption
<1>3. CASE Type
  <2>1. PICK text \in {<<c, NewLine>> : c \in Numbers \cup {LetterX}} \cup {<<NewLine>>} :
          stdin' = stdin \o text
    BY <1>3 DEF Type
  <2>2. Numbers \cup {LetterX} \subseteq Characters /\ NewLine \in Characters
    BY <1>2 DEF Characters
  <2>3. text \in Seq(Characters)
    <3>1. <<NewLine>> \in Seq(Characters) BY <2>2
    <3>2. ASSUME NEW c \in Characters PROVE <<c, NewLine>> \in Seq(Characters)
      BY <2>2
    <3>3. QED BY <2>2, <3>1, <3>2
  <2>4. stdin' \in Seq(Characters) BY <1>1, <2>1, <2>3
  <2>5. typed' \in Nat /\ UNCHANGED <<menu, ordershop, qty, amount, pow10, digits, lit_leds>>
    BY <1>1, <1>3 DEF Type
  <2>6. QED BY <2>4, <2>5 DEF MenuInv, MenuTypeOK
<1>4. ASSUME NEW n \in Numbers, Scanf(n) PROVE n \in Int /\ stdin' \in Seq(Characters)
  <2>1. stdin' \in Seq(Characters) BY <1>1, <1>4, ScanfKeeps
  <2>2. QED BY <1>2, <2>1
<1>5. ASSUME NEW n \in Numbers, MainMenu(n) PROVE MenuInv'
  <2>1. stdin' \in Seq(Characters) /\ menu' \in {"main", "list", "shop"}
        /\ UNCHANGED <<typed, ordershop, qty, amount, pow10, digits, lit_leds>>
    BY <1>4, <1>5 DEF MainMenu, Display
  <2>2. QED BY <2>1 DEF MenuInv, MenuTypeOK
<1>6. ASSUME NEW n \in Numbers, ChooseShop(n) PROVE MenuInv'
  <2>1. /\ stdin' \in Seq(Characters) /\ menu' = "items" /\ ordershop' = n /\ qty' = <<0, 0>>
        /\ UNCHANGED <<typed, amount, pow10, digits, lit_leds>>
    BY <1>4, <1>6 DEF ChooseShop, Display
  <2>2. qty' \in Int \X Int /\ ordershop' \in Numbers \cup {0} BY <2>1
  <2>3. QED BY <2>1, <2>2 DEF MenuInv, MenuTypeOK
<1>7. ASSUME NEW n \in Numbers, ChooseItem(n) PROVE MenuInv'
  <2>1. stdin' \in Seq(Characters) /\ UNCHANGED <<typed, ordershop>> /\ menu = "items"
    BY <1>4, <1>7 DEF ChooseItem
  <2>2. Total(ordershop, qty) \in Int /\ Total(ordershop, qty) % 10 = 0 BY <1>1, TotalOfTens
  <2>3. ASSUME UNCHANGED <<amount, pow10, digits, lit_leds>>, qty' \in Int \X Int,
               menu' \in {"main", "items", "how many 1", "how many 2"}
        PROVE  MenuInv'
    BY <2>1, <2>3 DEF MenuInv, MenuTypeOK
  <2>4. CASE n = 3
    <3>1. Finish(Total(ordershop, qty)) /\ qty' = qty BY <1>7, <2>4 DEF ChooseItem
    <3>2. Total(ordershop, qty) # -1
      <4>1. \A x \in Int : x % 10 = 0 => x # -1 OBVIOUS
      <4>2. QED BY <2>2, <4>1
    <3>3. /\ menu' = "scale" /\ amount' = Total(ordershop, qty) /\ pow10' = 1
          /\ digits' = <<>> /\ lit_leds' = lit_leds
      BY <3>1, <3>2 DEF Finish
    <3>4. /\ amount' \in Int /\ amount' % 10 = 0 /\ pow10' \in Nat /\ pow10' > 0 /\ pow10' <= 1
          /\ digits' \in Seq(0..9) /\ lit_leds' \in 0..8 /\ menu' = "scale"
          /\ qty' \in Int \X Int
      BY <1>1, <2>2, <3>1, <3>3
    <3>5. QED BY <2>1, <3>4 DEF MenuInv, MenuTypeOK
  <2>5. CASE n \in {1, 2}
    <3>1. n # 3 /\ n # 4 /\ n \in 1..4 BY <2>5
    <3>2. /\ menu' = (IF n = 1 THEN "how many 1" ELSE "how many 2")
          /\ UNCHANGED <<qty, Display>>
      BY <1>7, <3>1, Zenon DEF ChooseItem
    <3>3. menu' \in {"how many 1", "how many 2"} /\ UNCHANGED <<qty, Display>>
      BY <3>2
    <3>4. QED BY <1>1, <2>3, <3>3 DEF Display
  <2>6. CASE n = 4
    <3>1. menu' = "main" /\ UNCHANGED Display /\ qty' = <<0, 0>>
      BY <1>7, <2>6 DEF ChooseItem, Finish
    <3>2. QED BY <2>3, <3>1 DEF Display
  <2>7. CASE n \notin {1, 2} /\ n # 3 /\ n # 4
    <3>1. UNCHANGED <<menu, qty, Display>> BY <1>7, <2>7 DEF ChooseItem
    <3>2. QED BY <1>1, <2>1, <2>3, <3>1 DEF Display
  <2>8. QED BY <2>4, <2>5, <2>6, <2>7
<1>8. ASSUME NEW n \in Numbers, HowMany(n) PROVE MenuInv'
  <2>1. n \in Int /\ stdin' \in Seq(Characters) /\ menu' = "items"
        /\ UNCHANGED <<typed, ordershop, amount, pow10, digits, lit_leds>>
    BY <1>4, <1>8 DEF HowMany, Display
  <2>2. qty' \in Int \X Int
    <3>1. PICK i \in {1, 2} : qty' = [qty EXCEPT ![i] = @ + n] BY <1>8 DEF HowMany
    <3>2. PICK a \in Int, b \in Int : qty = <<a, b>> BY <1>1
    <3>3. CASE i = 1
      <4>1. qty' = <<a + n, b>> BY <3>1, <3>2, <3>3
      <4>2. QED BY <2>1, <4>1
    <3>4. CASE i = 2
      <4>1. qty' = <<a, b + n>> BY <3>1, <3>2, <3>4
      <4>2. QED BY <2>1, <4>1
    <3>5. QED BY <3>3, <3>4
  <2>3. QED BY <2>1, <2>2 DEF MenuInv, MenuTypeOK
<1>9. CASE Letter
  <2>1. stdin' \in Seq(Characters) /\ menu' \in {"main", "items"}
        /\ UNCHANGED <<typed, ordershop, qty, amount, pow10, digits, lit_leds>>
    BY <1>1, <1>9, ScanfKeeps DEF Letter, Display
  <2>2. QED BY <2>1 DEF MenuInv, MenuTypeOK
<1>10. CASE PressEnter
  <2>1. stdin # <<>> /\ menu' = "main"
        /\ UNCHANGED <<typed, ordershop, qty, amount, pow10, digits, lit_leds>>
    BY <1>10 DEF PressEnter, Display
  <2>2. stdin' \in Seq(Characters)
    <3>1. CASE Head(stdin) < 0
      <4>1. stdin[1] \in Characters /\ Head(stdin) = stdin[1] /\ 1 \in 1..Len(stdin)
        BY <1>1, <2>1
      <4>2. -stdin[1] \in Characters BY <3>1, <4>1, SMTT(30) DEF Characters, NewLine, LetterX
      <4>3. [stdin EXCEPT ![1] = -stdin[1]] \in Seq(Characters)
        BY <1>1, <4>1, <4>2
      <4>4. QED BY <1>10, <3>1, <4>3 DEF PressEnter
    <3>2. CASE ~(Head(stdin) < 0)
      <4>1. Tail(stdin) \in Seq(Characters) BY <1>1, <2>1
      <4>2. QED BY <1>10, <3>2, <4>1 DEF PressEnter
    <3>3. QED BY <3>1, <3>2
  <2>3. QED BY <2>1, <2>2 DEF MenuInv, MenuTypeOK
<1>11. CASE Scale
  <2>1. menu = "scale" /\ UNCHANGED <<stdin, typed, ordershop, qty, amount, digits, lit_leds>>
    BY <1>11 DEF Scale
  <2>2. pow10 > 0 /\ (amount < 0 => pow10 <= 1) BY <2>1 DEF MenuInv
  <2>3. CASE amount \div pow10 >= 10
    <3>1. pow10' = pow10 * 10 /\ menu' = menu BY <1>11, <2>3 DEF Scale
    <3>2. ~(amount < 0)
      <4>1. SUFFICES ASSUME amount < 0 PROVE FALSE OBVIOUS
      <4>2. pow10 = 1 /\ amount \div 1 = amount BY <1>1, <2>2, <4>1
      <4>3. QED BY <1>1, <2>3, <4>1, <4>2
    <3>3. pow10' \in Nat /\ pow10' > 0 BY <1>1, <2>2, <3>1
    <3>4. QED BY <2>1, <3>1, <3>2, <3>3 DEF MenuInv, MenuTypeOK
  <2>4. CASE ~(amount \div pow10 >= 10)
    <3>1. menu' = "digits" /\ pow10' = pow10 BY <1>11, <2>4 DEF Scale
    <3>2. QED BY <2>1, <2>2, <3>1 DEF MenuInv, MenuTypeOK
  <2>5. QED BY <2>3, <2>4
<1>12. CASE ShowDigit
  <2>1. menu = "digits" /\ UNCHANGED <<stdin, typed, ordershop, qty, amount>>
    BY <1>12 DEF ShowDigit
  <2>2. CASE pow10 > 0
    <3>1. digits' = Append(digits, DigitOf(amount)) /\ pow10' = pow10 \div 10
          /\ UNCHANGED <<menu, lit_leds>>
      BY <1>12, <2>2 DEF ShowDigit
    <3>2. digits' \in Seq(0..9)
      <4>1. DigitOf(amount) \in 0..9 BY <2>1, <2>2, DigitIsIndex
      <4>2. QED BY <1>1, <3>1, <4>1
    <3>3. pow10' \in Nat /\ pow10' <= pow10 BY <1>1, <3>1
    <3>4. amount < 0 => pow10' <= 1 BY <1>1, <2>1, <3>3 DEF MenuInv
    <3>5. QED BY <2>1, <3>1, <3>2, <3>3, <3>4 DEF MenuInv, MenuTypeOK
  <2>3. CASE ~(pow10 > 0)
    <3>1. menu' = "leds" /\ lit_leds' = Distance(ordershop) /\ UNCHANGED <<digits, pow10>>
      BY <1>12, <2>3 DEF ShowDigit
    <3>2. Distance(ordershop) \in {0, 3, 5, 8} BY DEF Distance
    <3>3. lit_leds' \in 0..8 BY <3>1, <3>2
    <3>4. QED BY <2>1, <3>1, <3>3 DEF MenuInv, MenuTypeOK
  <2>4. QED BY <2>2, <2>3
<1>13. CASE CountDown
  <2>1. lit_leds' \in 0..8
    <3>1. lit_leds \in 0..8 BY <1>1
    <3>2. CASE lit_leds > 0 BY <1>13, <3>1, <3>2 DEF CountDown
    <3>3. CASE ~(lit_leds > 0) BY <1>13, <3>1, <3>3 DEF CountDown
    <3>4. QED BY <3>2, <3>3
  <2>2. menu' \in {"leds", "pick up"}
        /\ UNCHANGED <<stdin, typed, ordershop, qty, amount, pow10, digits>>
    BY <1>13 DEF CountDown
  <2>3. QED BY <2>1, <2>2 DEF MenuInv, MenuTypeOK
<1>14. CASE UNCHANGED menuVars BY <1>14 DEF menuVars, MenuInv, MenuTypeOK
<1>15. QED
  BY <1>3, <1>5, <1>6, <1>7, <1>8, <1>9, <1>10, <1>11, <1>12, <1>13, <1>14
  DEF MenuNext, Program

LEMMA MenuTypes == MenuSpec => []MenuTypeOK
<1>1. MenuInv => MenuTypeOK BY DEF MenuInv
<1>2. QED BY <1>1, MenuInitInv, MenuNextInv, PTL DEF MenuSpec

-----------------------------------------------------------------------------
(* DeliveryMenu: what the digits spell.  The number is a fold over them,    *)
(* that is a recursive function on the sets of their places, which is       *)
(* unfolded here by an induction of its own.                                *)

(* Induction over the naturals, with a set for what is to be shown. *)
LEMMA NatsByInduction ==
  ASSUME NEW T, 0 \in T, \A n \in Nat : n \in T => n + 1 \in T
  PROVE  Nat \subseteq T
<1> DEFINE R == OpToRel(<, Nat)
<1>1. IsWellFoundedOn(R, Nat) BY NatLessThanWellFounded
<1>2. \A x, y \in Nat : y < x => <<y, x>> \in R BY Zenon DEF OpToRel
<1> HIDE DEF R
<1>3. SUFFICES ASSUME Nat \ T # {} PROVE FALSE OBVIOUS
<1>4. PICK x \in Nat \ T : \A y \in Nat \ T : ~ (<<y, x>> \in R)
  BY <1>1, <1>3, WFMin
<1>5. x # 0 /\ x - 1 \in Nat /\ x - 1 < x BY <1>4
<1>6. x - 1 \in T BY <1>2, <1>4, <1>5
<1>7. QED BY <1>4, <1>5, <1>6

(* f gives, for every t within 1..n, the number that the digits s[i] for i  *)
(* in t spell.                                                              *)
Spells(f, s, n) ==
  f = [t \in SUBSET (1..n) |-> IF t = {} THEN 0 ELSE LET x == Max(t) IN 10 * f[t \ {x}] + s[x]]

LEMMA SpellingIsFold ==
  ASSUME NEW n \in Nat, NEW s, DOMAIN s = 1..n
  PROVE  Spelling(s) = (CHOOSE f : Spells(f, s, n))[1..n]
  BY SMT DEF Spelling, FoldLeft, MapThenFoldSet, Spells

(* The last place is the greatest. *)
LEMMA LastPlace ==
  ASSUME NEW n \in Nat, NEW t \in SUBSET (1..(n + 1))
  PROVE  /\ n + 1 \in t => Max(t) = n + 1 /\ t \ {n + 1} \in SUBSET (1..n)
         /\ n + 1 \notin t => t \in SUBSET (1..n)
<1>1. CASE n + 1 \in t
  <2>1. \A x \in t : x \in Nat /\ n + 1 >= x OBVIOUS
  <2>2. \A x \in t : (\A y \in t : x >= y) => x = n + 1 BY <1>1, <2>1
  <2>3. Max(t) = n + 1 BY <1>1, <2>1, <2>2 DEF Max
  <2>4. \A x \in t \ {n + 1} : x \in 1..n OBVIOUS
  <2>5. QED BY <1>1, <2>3, <2>4
<1>2. CASE n + 1 \notin t
  <2>1. \A x \in t : x \in 1..n BY <1>2
  <2>2. QED BY <1>2, <2>1
<1>3. QED BY <1>1, <1>2

LEMMA SpellsExists ==
  ASSUME NEW s
  PROVE  \A n \in Nat : \E f : Spells(f, s, n)
<1> DEFINE T == {n \in Nat : \E f : Spells(f, s, n)}
<1>1. 0 \in T
  <2> DEFINE f == [t \in SUBSET (1..0) |-> 0]
  <2>1. \A t \in SUBSET (1..0) : t = {} OBVIOUS
  <2>2. Spells(f, s, 0) BY <2>1 DEF Spells
  <2>3. QED BY <2>2
<1>2. ASSUME NEW n \in Nat, n \in T PROVE n + 1 \in T
  <2>1. PICK f : Spells(f, s, n) BY <1>2
  <2> DEFINE g == [t \in SUBSET (1..(n + 1)) |->
                     IF n + 1 \in t THEN 10 * f[t \ {n + 1}] + s[n + 1] ELSE f[t]]
             Next10(h, t) == IF t = {} THEN 0 ELSE LET x == Max(t) IN 10 * h[t \ {x}] + s[x]
  <2>2. SUBSET (1..n) \subseteq SUBSET (1..(n + 1))
    <3>1. 1..n \subseteq 1..(n + 1) OBVIOUS
    <3>2. QED BY <3>1
  <2>3. \A t \in SUBSET (1..n) : n + 1 \notin t OBVIOUS
  <2>4. \A t \in SUBSET (1..n) : g[t] = f[t] BY <2>2, <2>3
  <2>5. ASSUME NEW t \in SUBSET (1..(n + 1)) PROVE g[t] = Next10(g, t)
    <3>1. CASE n + 1 \in t
      <4>1. Max(t) = n + 1 /\ t \ {n + 1} \in SUBSET (1..n) BY <3>1, LastPlace
      <4>2. g[t] = 10 * f[t \ {n + 1}] + s[n + 1] BY <3>1
      <4>3. f[t \ {n + 1}] = g[t \ {n + 1}] BY <2>4, <4>1
      <4> HIDE DEF g
      <4>4. QED BY <3>1, <4>1, <4>2, <4>3
    <3>2. CASE n + 1 \notin t
      <4>1. t \in SUBSET (1..n) BY <3>2, LastPlace
      <4>2. g[t] = f[t] BY <4>1, <2>4
      <4>3. f[t] = Next10(f, t) BY <2>1, <4>1, Zenon DEF Spells
      <4>4. ASSUME t # {} PROVE f[t \ {Max(t)}] = g[t \ {Max(t)}]
        <5>1. t \ {Max(t)} \in SUBSET (1..n) BY <4>1
        <5>2. QED BY <5>1, <2>4
      <4> HIDE DEF g
      <4>5. QED BY <4>2, <4>3, <4>4
    <3>3. QED BY <3>1, <3>2
  <2>6. g = [t \in SUBSET (1..(n + 1)) |-> Next10(g, t)]
    <3>1. g = [t \in SUBSET (1..(n + 1)) |-> g[t]] OBVIOUS
    <3> HIDE DEF g, Next10
    <3>2. QED BY <2>5, <3>1
  <2>7. Spells(g, s, n + 1) BY <2>6, Zenon DEF Spells
  <2>8. QED BY <2>7, <1>2
<1> HIDE DEF T
<1>3. Nat \subseteq T BY <1>1, <1>2, NatsByInduction
<1>4. QED BY <1>3 DEF T

(* What is spelled depends on the digits alone.                             *)
LEMMA SpellsAgree ==
  ASSUME NEW s, NEW u, NEW f, NEW g, NEW k \in Nat, NEW n \in Nat, k <= n,
         Spells(f, s, k), Spells(g, u, n),
         \A i \in 1..k : s[i] = u[i]
  PROVE  \A t \in SUBSET (1..k) : f[t] = g[t]
<1> DEFINE T == {j \in Nat : j <= k => \A t \in SUBSET (1..j) : f[t] = g[t]}
<1>1. ASSUME NEW t \in SUBSET (1..k)
      PROVE  /\ f[t] = IF t = {} THEN 0 ELSE LET x == Max(t) IN 10 * f[t \ {x}] + s[x]
             /\ g[t] = IF t = {} THEN 0 ELSE LET x == Max(t) IN 10 * g[t \ {x}] + u[x]
  <2>1. 1..k \subseteq 1..n OBVIOUS
  <2>2. t \in SUBSET (1..n) BY <2>1
  <2>3. QED BY <2>2, Zenon DEF Spells
<1>2. 0 \in T
  <2>1. ASSUME NEW t \in SUBSET (1..0) PROVE f[t] = g[t]
    <3>1. t = {} /\ t \in SUBSET (1..k) OBVIOUS
    <3>2. QED BY <1>1, <3>1
  <2>2. QED BY <2>1
<1>3. ASSUME NEW j \in Nat, j \in T PROVE j + 1 \in T
  <2>1. SUFFICES ASSUME j + 1 <= k, NEW t \in SUBSET (1..(j + 1)) PROVE f[t] = g[t]
    BY <1>3
  <2>2. \A v \in SUBSET (1..j) : f[v] = g[v] BY <1>3, <2>1
  <2>3. CASE j + 1 \in t
    <3>1. Max(t) = j + 1 /\ t \ {j + 1} \in SUBSET (1..j) BY <2>3, LastPlace
    <3>2. t \in SUBSET (1..k) /\ j + 1 \in 1..k
      <4>1. 1..(j + 1) \subseteq 1..k BY <2>1
      <4>2. QED BY <2>1, <4>1
    <3>3. t # {} /\ s[j + 1] = u[j + 1] BY <2>3, <3>2
    <3>4. f[t \ {j + 1}] = g[t \ {j + 1}] BY <2>2, <3>1
    <3> HIDE DEF T
    <3>5. QED BY <1>1, <3>1, <3>2, <3>3, <3>4
  <2>4. CASE j + 1 \notin t
    <3>1. t \in SUBSET (1..j) BY <2>4, LastPlace
    <3>2. QED BY <2>2, <3>1
  <2>5. QED BY <2>3, <2>4
<1> HIDE DEF T
<1>4. k \in T BY <1>2, <1>3, NatsByInduction
<1>5. QED BY <1>4 DEF T

(* The digits on the left weigh ten times more for each digit after them.   *)
LEMMA SpellingGrows ==
  /\ Spelling(<<>>) = 0
  /\ \A s \in Seq(0..9), d \in 0..9 :
       Spelling(Append(s, d)) = 10 * Spelling(s) + d
<1> DEFINE F(s, n) == CHOOSE f : Spells(f, s, n)
<1>1. \A s, n : n \in Nat => Spells(F(s, n), s, n)
  <2>1. ASSUME NEW s, NEW n \in Nat PROVE Spells(F(s, n), s, n)
    <3>1. \E f : Spells(f, s, n) BY SpellsExists
    <3>2. QED BY <3>1
  <2>2. QED BY <2>1
<1>2. \A s, n : n \in Nat /\ DOMAIN s = 1..n => Spelling(s) = F(s, n)[1..n]
  BY SpellingIsFold
<1> HIDE DEF F
<1>3. Spelling(<<>>) = 0
  <2>1. DOMAIN <<>> = 1..0 /\ 1..0 = {} OBVIOUS
  <2>2. Spelling(<<>>) = F(<<>>, 0)[1..0] BY <1>2, <2>1
  <2>3. Spells(F(<<>>, 0), <<>>, 0) BY <1>1
  <2>4. F(<<>>, 0)[1..0] = 0 BY <2>1, <2>3 DEF Spells
  <2>5. QED BY <2>2, <2>4
<1>4. ASSUME NEW s \in Seq(0..9), NEW d \in 0..9
      PROVE  Spelling(Append(s, d)) = 10 * Spelling(s) + d
  <2> DEFINE n == Len(s)  u == Append(s, d)
  <2>1. /\ n \in Nat /\ DOMAIN s = 1..n /\ DOMAIN u = 1..(n + 1) /\ u[n + 1] = d
        /\ \A i \in 1..n : s[i] = u[i]
    OBVIOUS
  <2> HIDE DEF n, u
  <2> DEFINE t == 1..(n + 1)  f == F(s, n)  g == F(u, n + 1)
  <2>2. n \in Nat /\ n + 1 \in Nat /\ n <= n + 1 BY <2>1
  <2>3. n + 1 \in t /\ t \in SUBSET (1..(n + 1)) /\ t # {}
    <3>1. n + 1 \in t BY <2>2
    <3>2. QED BY <3>1
  <2>4. /\ Max(t) = n + 1 /\ t \ {n + 1} = 1..n
    <3>1. Max(t) = n + 1 /\ t \ {n + 1} \in SUBSET (1..n) BY <2>1, <2>3, LastPlace
    <3>2. 1..n \subseteq t \ {n + 1} BY <2>1
    <3>3. QED BY <3>1, <3>2
  <2>5. Spells(f, s, n) /\ Spells(g, u, n + 1) BY <1>1, <2>1, <2>2
  <2>6. Spelling(s) = f[1..n] /\ Spelling(u) = g[t] BY <1>2, <2>1, <2>2
  <2> HIDE DEF f, g
  <2>7. f[1..n] = g[1..n]
    <3>1. \A i \in 1..n : s[i] = u[i] BY <2>1
    <3>2. \A v \in SUBSET (1..n) : f[v] = g[v] BY <2>2, <2>5, <3>1, SpellsAgree
    <3>3. QED BY <3>2
  <2>8. g[t] = 10 * g[t \ {n + 1}] + u[n + 1]
    <3>1. g[t] = IF t = {} THEN 0 ELSE LET x == Max(t) IN 10 * g[t \ {x}] + u[x]
      BY <2>3, <2>5, Zenon DEF Spells
    <3> HIDE DEF t
    <3>2. QED BY <2>3, <2>4, <3>1
  <2>9. QED BY <2>1, <2>4, <2>6, <2>7, <2>8 DEF u
<1>5. QED BY <1>3, <1>4

-----------------------------------------------------------------------------
(* The display takes its powers of ten from 1 up and down again.            *)
PowersOfTen ==
  {p \in Nat : \A T \in SUBSET Nat : 1 \in T /\ (\A q \in T : 10 * q \in T) => p \in T}

LEMMA Powers ==
  /\ 1 \in PowersOfTen
  /\ \A p \in PowersOfTen : /\ p \in Nat \ {0} /\ 10 * p \in PowersOfTen
                            /\ p = 1 \/ \E q \in PowersOfTen : p = 10 * q
<1>1. 1 \in PowersOfTen BY DEF PowersOfTen
<1>2. ASSUME NEW p \in PowersOfTen PROVE 10 * p \in PowersOfTen
  <2>1. p \in Nat /\ 10 * p \in Nat BY DEF PowersOfTen
  <2>2. ASSUME NEW T \in SUBSET Nat, 1 \in T, \A q \in T : 10 * q \in T PROVE 10 * p \in T
    <3>1. p \in T BY <2>2 DEF PowersOfTen
    <3>2. QED BY <2>2, <3>1
  <2>3. QED BY <2>1, <2>2 DEF PowersOfTen
<1>3. ASSUME NEW p \in PowersOfTen
      PROVE  p \in Nat \ {0} /\ (p = 1 \/ \E q \in PowersOfTen : p = 10 * q)
  <2> DEFINE T == {1} \cup {10 * q : q \in PowersOfTen}
  <2>1. PowersOfTen \subseteq Nat BY DEF PowersOfTen
  <2>2. T \in SUBSET Nat
    <3>1. \A q \in PowersOfTen : 10 * q \in Nat BY <2>1
    <3>2. QED BY <3>1
  <2>3. 1 \in T OBVIOUS
  <2>4. \A q \in T : 10 * q \in T
    <3>1. \A q \in T : q \in PowersOfTen BY <1>1, <1>2
    <3>2. QED BY <3>1
  <2>5. p \in T
    <3> HIDE DEF T
    <3>1. QED BY <2>2, <2>3, <2>4 DEF PowersOfTen
  <2>6. p = 1 \/ \E q \in PowersOfTen : p = 10 * q BY <2>5
  <2>7. p # 0
    <3> DEFINE U == Nat \ {0}
    <3>1. U \in SUBSET Nat /\ 1 \in U /\ \A q \in U : 10 * q \in U OBVIOUS
    <3> HIDE DEF U
    <3>2. p \in U BY <3>1 DEF PowersOfTen
    <3>3. QED BY <3>2 DEF U
  <2>8. QED BY <2>1, <2>6, <2>7
<1>4. QED BY <1>1, <1>2, <1>3

(* Where the digits come from.                                             *)
LEMMA DivTwice ==
  ASSUME NEW a \in Nat, NEW p \in Nat \ {0}
  PROVE  /\ a \div p \in Nat
         /\ a \div (10 * p) = (a \div p) \div 10
         /\ a \div p = 10 * (a \div (10 * p)) + ((a \div p) % 10)
<1> DEFINE q == a \div p
<1>1. q \in Nat OBVIOUS
<1>2. a \div (10 * p) = q \div 10 OBVIOUS
<1> HIDE DEF q
<1>3. q = 10 * (q \div 10) + (q % 10) BY <1>1
<1>4. QED BY <1>1, <1>2, <1>3 DEF q

LEMMA FirstDigit ==
  ASSUME NEW a \in Nat, NEW p \in Nat \ {0}, a < 10 * p
  PROVE  /\ a \div (10 * p) = 0
         /\ a >= p => (a \div p) % 10 # 0
<1>1. a \div (10 * p) = 0 OBVIOUS
<1>2. ASSUME a >= p PROVE (a \div p) % 10 # 0
  <2>1. a \div p \in Nat /\ a \div p >= 1 /\ a \div p < 10
    BY <1>2
  <2>2. \A x \in 1..9 : x % 10 # 0 OBVIOUS
  <2>3. QED BY <2>1, <2>2
<1>3. QED BY <1>1, <1>2

(* pow10 grows up to the first digit of the amount; then the digits shown   *)
(* are the amount but for the digits at pow10 and below.                    *)
Scaling ==
  menu = "scale" =>
    digits = <<>> /\ pow10 \in PowersOfTen /\ (pow10 = 1 \/ amount >= pow10)

Spelling10 ==
  menu = "digits" =>
    /\ pow10 \in PowersOfTen \cup {0}
    /\ digits = <<>> =>
         pow10 > 0 /\ amount < 10 * pow10 /\ (pow10 = 1 \/ amount >= pow10)
    /\ amount >= 0 =>
         Spelling(digits) = IF pow10 = 0 THEN amount ELSE amount \div (10 * pow10)
    /\ amount < 0 => Spelling(digits) = 0 /\ (digits # <<>> => pow10 = 0)
    /\ digits # <<>> /\ digits[1] = 0 => pow10 = 0 /\ Len(digits) = 1

ShowsTotal == menu \in {"scale", "digits", "leds", "pick up"} => amount = Total(ordershop, qty)

DigitsInv == MenuInv /\ Scaling /\ Spelling10 /\ ShowsTotal /\ DigitsSpellTotal

LEMMA ScaleSpells == ASSUME DigitsInv, Scale, MenuInv' PROVE DigitsInv'
<1>1. /\ menu = "scale" /\ UNCHANGED <<ordershop, qty, amount, digits>>
      /\ amount \in Int /\ digits = <<>> /\ pow10 \in PowersOfTen
      /\ (pow10 = 1 \/ amount >= pow10) /\ amount = Total(ordershop, qty)
      /\ amount < 0 => pow10 <= 1
  BY DEF Scale, DigitsInv, MenuInv, MenuTypeOK, Scaling, ShowsTotal
<1>2. pow10 \in Nat \ {0} /\ 10 * pow10 \in PowersOfTen BY <1>1, Powers
<1>3. CASE amount \div pow10 >= 10
  <2>1. pow10' = pow10 * 10 /\ menu' = "scale" BY <1>1, <1>3 DEF Scale
  <2>2. amount >= 0
    <3>1. SUFFICES ASSUME amount < 0 PROVE FALSE BY <1>1
    <3>2. pow10 = 1 /\ amount \div 1 = amount BY <1>1, <1>2, <3>1
    <3>3. QED BY <1>1, <1>3, <3>1, <3>2
  <2>3. amount >= pow10 * 10
    <3>1. amount \in Nat BY <1>1, <2>2
    <3>2. \A a \in Nat, p \in Nat \ {0} : a < 10 * p => a \div p < 10 OBVIOUS
    <3>3. QED BY <1>2, <1>3, <3>1, <3>2
  <2>4. pow10' \in PowersOfTen BY <1>2, <2>1
  <2>5. QED BY <1>1, <2>1, <2>3, <2>4
        DEF DigitsInv, Scaling, Spelling10, ShowsTotal, DigitsSpellTotal
<1>4. CASE ~(amount \div pow10 >= 10)
  <2>1. pow10' = pow10 /\ menu' = "digits" BY <1>1, <1>4 DEF Scale
  <2>2. amount < 10 * pow10
    <3>1. CASE amount < 0 BY <1>1, <1>2, <3>1
    <3>2. CASE amount >= 0
      <4>1. amount \in Nat BY <1>1, <3>2
      <4>2. \A a \in Nat, p \in Nat \ {0} : a >= 10 * p => a \div p >= 10 OBVIOUS
      <4>3. QED BY <1>1, <1>2, <1>4, <4>1, <4>2
    <3>3. QED BY <1>1, <3>1, <3>2
  <2>3. Spelling(digits) = 0 BY <1>1, SpellingGrows
  <2>4. amount >= 0 => amount \div (10 * pow10) = 0 BY <1>1, <1>2, <2>2, FirstDigit
  <2>5. pow10 > 0 BY <1>2
  <2>6. Spelling10'
    BY <1>1, <2>1, <2>2, <2>3, <2>4, <2>5 DEF Spelling10
  <2>7. QED BY <1>1, <2>1, <2>6 DEF DigitsInv, Scaling, ShowsTotal, DigitsSpellTotal
<1>5. QED BY <1>3, <1>4

LEMMA ShowDigitSpells == ASSUME DigitsInv, ShowDigit, MenuInv' PROVE DigitsInv'
<1>1. /\ menu = "digits" /\ UNCHANGED <<ordershop, qty, amount>> /\ Spelling10
      /\ amount \in Int /\ digits \in Seq(0..9) /\ amount = Total(ordershop, qty)
  BY DEF ShowDigit, DigitsInv, MenuInv, MenuTypeOK, ShowsTotal
<1>2. CASE pow10 = 0
  <2>1. menu' = "leds" /\ UNCHANGED <<digits, pow10>> BY <1>2 DEF ShowDigit
  <2>2. /\ Spelling(digits) = IF amount >= 0 THEN amount ELSE 0
        /\ digits # <<>> /\ (digits[1] = 0 => Len(digits) = 1)
    BY <1>1, <1>2 DEF Spelling10
  <2>3. QED BY <1>1, <2>1, <2>2 DEF DigitsInv, Scaling, Spelling10, ShowsTotal, DigitsSpellTotal
<1>3. CASE pow10 # 0
  <2> DEFINE d == DigitOf(amount)
  <2>1. pow10 \in PowersOfTen /\ pow10 \in Nat \ {0} BY <1>1, <1>3, Powers DEF Spelling10
  <2>2. digits' = Append(digits, d) /\ pow10' = pow10 \div 10 /\ menu' = "digits"
    BY <1>1, <2>1 DEF ShowDigit
  <2>3. d \in 0..9 BY <1>1, <2>1, DigitIsIndex DEF DigitsInv
  <2>4. Spelling(digits') = 10 * Spelling(digits) + d BY <1>1, <2>2, <2>3, SpellingGrows
  <2>5. /\ Len(digits') = Len(digits) + 1 /\ digits' # <<>>
        /\ digits = <<>> => digits'[1] = d /\ Len(digits') = 1
        /\ digits # <<>> => digits'[1] = digits[1]
    BY <1>1, <2>2, <2>3
  <2>6. /\ pow10' \in PowersOfTen \cup {0}
        /\ \/ pow10 = 1 /\ pow10' = 0
           \/ pow10 # 1 /\ pow10' # 0 /\ pow10 = 10 * pow10'
    <3>1. CASE pow10 = 1 BY <2>2, <3>1
    <3>2. ASSUME NEW q \in PowersOfTen, pow10 = 10 * q PROVE pow10' = q /\ q # 0 /\ pow10 # 1
      <4>1. q \in Nat \ {0} BY Powers
      <4>2. QED BY <2>2, <3>2, <4>1
    <3>3. QED BY <2>1, <3>1, <3>2, Powers
  <2>7. digits # <<>> => digits[1] # 0 BY <1>1, <1>3 DEF Spelling10
  <2> HIDE DEF d
  <2>8. CASE amount >= 0
    <3>1. amount \in Nat BY <1>1, <2>8
    <3>2. d = (amount \div pow10) % 10 BY <2>8 DEF d, DigitOf
    <3>3. Spelling(digits) = amount \div (10 * pow10) BY <1>1, <1>3, <2>8 DEF Spelling10
    <3>4. Spelling(digits') = amount \div pow10 BY <2>1, <2>4, <3>1, <3>2, <3>3, DivTwice
    <3>5. Spelling(digits') = IF pow10' = 0 THEN amount ELSE amount \div (10 * pow10')
      <4>1. amount \div 1 = amount BY <3>1
      <4>2. QED BY <2>6, <3>4, <4>1
    <3>6. digits = <<>> => d # 0 \/ pow10 = 1
      <4>1. digits = <<>> => amount < 10 * pow10 /\ (pow10 = 1 \/ amount >= pow10)
        BY <1>1 DEF Spelling10
      <4>2. QED BY <2>1, <3>1, <3>2, <4>1, FirstDigit
    <3>7. digits'[1] = 0 => pow10' = 0 /\ Len(digits') = 1 BY <2>5, <2>6, <2>7, <3>6
    <3>8. ~(amount < 0) BY <1>1, <2>8
    <3>9. Spelling10' BY <1>1, <2>2, <2>5, <2>6, <3>5, <3>7, <3>8 DEF Spelling10
    <3>10. QED BY <1>1, <2>2, <3>9 DEF DigitsInv, Scaling, ShowsTotal, DigitsSpellTotal
  <2>9. CASE amount < 0
    <3>1. digits = <<>> /\ Spelling(digits) = 0 BY <1>1, <1>3, <2>9 DEF Spelling10
    <3>2. pow10 = 1 BY <1>1, <2>1, <2>9 DEF DigitsInv, MenuInv
    <3>3. pow10' = 0 BY <2>6, <3>2
    <3>4. d = 0
      <4>1. -amount \div 1 = -amount /\ (-amount) % 10 = 0
        BY <1>1 DEF DigitsInv, MenuInv
      <4>2. ~(amount >= 0) BY <1>1, <2>9
      <4>3. d = -((-amount \div 1) % 10) BY <3>2, <4>2 DEF d, DigitOf
      <4>4. QED BY <4>1, <4>3
    <3>5. Spelling(digits') = 0 BY <2>4, <3>1, <3>4
    <3>6. Len(digits') = 1 BY <2>5, <3>1
    <3>7. ~(amount >= 0) BY <1>1, <2>9
    <3>8. Spelling10' BY <1>1, <2>2, <2>5, <3>3, <3>5, <3>6, <3>7 DEF Spelling10
    <3>9. QED BY <1>1, <2>2, <3>8 DEF DigitsInv, Scaling, ShowsTotal, DigitsSpellTotal
  <2>10. QED BY <1>1, <2>8, <2>9
<1>4. QED BY <1>2, <1>3

LEMMA DigitsNextInv == ASSUME DigitsInv, [MenuNext]_menuVars PROVE DigitsInv'
<1>1. MenuInv' BY MenuNextInv DEF DigitsInv
<1>2. ASSUME UNCHANGED <<menu, ordershop, qty, amount, pow10, digits>> PROVE DigitsInv'
  BY <1>1, <1>2 DEF DigitsInv, Scaling, Spelling10, ShowsTotal, DigitsSpellTotal
<1>3. ASSUME menu' \in {"main", "list", "shop", "items", "how many 1", "how many 2"}
      PROVE  DigitsInv'
  BY <1>1, <1>3 DEF DigitsInv, Scaling, Spelling10, ShowsTotal, DigitsSpellTotal
<1>4. CASE UNCHANGED menuVars BY <1>2, <1>4 DEF menuVars
<1>5. CASE Type BY <1>2, <1>5 DEF Type
<1>6. ASSUME NEW n \in Numbers, MainMenu(n) \/ ChooseShop(n) \/ HowMany(n) PROVE DigitsInv'
  BY <1>3, <1>6 DEF MainMenu, ChooseShop, HowMany
<1>7. ASSUME NEW n \in Numbers, ChooseItem(n) PROVE DigitsInv'
  <2>1. menu = "items" /\ ordershop' = ordershop BY <1>7 DEF ChooseItem
  <2>2. CASE n = 3
    <3>1. Finish(Total(ordershop, qty)) /\ qty' = qty BY <1>7, <2>2 DEF ChooseItem
    <3>2. CASE Total(ordershop, qty) = -1
      <4>1. menu' = "main" BY <3>1, <3>2 DEF Finish
      <4>2. QED BY <1>3, <4>1
    <3>3. CASE Total(ordershop, qty) # -1
      <4>1. /\ menu' = "scale" /\ amount' = Total(ordershop, qty) /\ pow10' = 1
            /\ digits' = <<>>
        BY <3>1, <3>3 DEF Finish
      <4>2. QED BY <1>1, <2>1, <3>1, <4>1, Powers
            DEF DigitsInv, Scaling, Spelling10, ShowsTotal, DigitsSpellTotal
    <3>4. QED BY <3>2, <3>3
  <2>3. CASE n # 3
    <3>1. menu' \in {"main", "items", "how many 1", "how many 2"}
      BY <1>7, <2>1, <2>3 DEF ChooseItem, Finish
    <3>2. QED BY <1>3, <3>1
  <2>4. QED BY <2>2, <2>3
<1>8. CASE Letter \/ PressEnter BY <1>3, <1>8 DEF Letter, PressEnter
<1>9. CASE Scale BY <1>1, <1>9, ScaleSpells
<1>10. CASE ShowDigit BY <1>1, <1>10, ShowDigitSpells
<1>11. CASE CountDown
  <2>1. /\ menu = "leds" /\ menu' \in {"leds", "pick up"}
        /\ UNCHANGED <<ordershop, qty, amount, pow10, digits>>
    BY <1>11 DEF CountDown
  <2>2. QED BY <1>1, <2>1 DEF DigitsInv, Scaling, Spelling10, ShowsTotal, DigitsSpellTotal
<1>12. QED
  BY <1>4, <1>5, <1>6, <1>7, <1>8, <1>9, <1>10, <1>11 DEF MenuNext, Program

(* Whatever is ordered, in whatever quantities: the display spells the      *)
(* total, no digit lost and no zero in front.                               *)
THEOREM DisplaySpellsTotal == MenuSpec => []DigitsSpellTotal
<1>1. MenuInit => DigitsInv
  BY MenuInitInv DEF MenuInit, DigitsInv, Scaling, Spelling10, ShowsTotal, DigitsSpellTotal
<1>2. DigitsInv => DigitsSpellTotal BY DEF DigitsInv
<1>3. QED BY <1>1, <1>2, DigitsNextInv, PTL DEF MenuSpec

-----------------------------------------------------------------------------
(* TowelWindow.  Results come in the order of their times, so what is young *)
(* enough is always the end of a sequence.                                  *)

(* Of the numbers 1..n, the last c.                                         *)
LEMMA LastOnes ==
  ASSUME NEW n \in Nat, NEW kept \in SUBSET (1..n),
         \A i \in kept : \A j \in i..n : j \in kept
  PROVE  LET c == Cardinality(kept)
         IN  /\ IsFiniteSet(kept) /\ c \in Nat /\ c <= n
             /\ kept = (n + 1 - c)..n
<1> DEFINE c == Cardinality(kept)
<1>1. IsFiniteSet(1..n) /\ Cardinality(1..n) = n
  BY FS_Interval
<1>2. IsFiniteSet(kept) /\ c <= n BY <1>1, FS_Subset, ZenonT(60)
<1>3. c \in Nat BY <1>2, FS_CardinalityType
<1>4. ASSUME NEW i \in kept PROVE i \in (n + 1 - c)..n
  <2>1. i \in 1..n /\ i..n \in SUBSET kept BY <1>4
  <2>2. Cardinality(i..n) = n - i + 1 BY <2>1, FS_Interval
  <2>3. Cardinality(i..n) <= c BY <1>2, <2>1, FS_Subset
  <2> HIDE DEF c
  <2>4. QED BY <1>3, <2>1, <2>2, <2>3
<1> HIDE DEF c
<1>5. IsFiniteSet((n + 1 - c)..n) /\ Cardinality((n + 1 - c)..n) = c
  <2>1. n + 1 - c \in Int /\ n \in Int BY <1>3
  <2>2. /\ IsFiniteSet((n + 1 - c)..n)
        /\ Cardinality((n + 1 - c)..n) = IF n + 1 - c > n THEN 0 ELSE n - (n + 1 - c) + 1
    BY <2>1, FS_Interval
  <2>3. (IF n + 1 - c > n THEN 0 ELSE n - (n + 1 - c) + 1) = c BY <1>3
  <2>4. QED BY <2>2, <2>3
<1>6. kept \in SUBSET ((n + 1 - c)..n) BY <1>4
<1>7. kept = (n + 1 - c)..n BY <1>5, <1>6, FS_Subset DEF c
<1>8. QED BY <1>2, <1>3, <1>7 DEF c

(* Moving the end of a sequence to its front leaves its end.                *)
LEMMA CompactedEnd ==
  ASSUME NEW S, NEW s \in Seq(S), NEW m \in 1..(Len(s) + 1), NEW kept, kept = m..Len(s)
  PROVE  Compacted(s, kept) = SubSeq(s, m, Len(s))
<1> DEFINE n == Len(s)
<1>1. n \in Nat /\ m \in Nat /\ m > 0 /\ m <= n + 1 OBVIOUS
<1>2. kept = m..n OBVIOUS
<1> HIDE DEF n
<1>3. Cardinality(kept) = n + 1 - m
  <2>1. m \in Int /\ n \in Int BY <1>1
  <2>2. Cardinality(m..n) = IF m > n THEN 0 ELSE n - m + 1 BY <2>1, FS_Interval
  <2>3. (IF m > n THEN 0 ELSE n - m + 1) = n + 1 - m BY <1>1
  <2>4. QED BY <1>2, <2>2, <2>3
<1>4. \A i \in kept : Cardinality({j \in kept : j <= i}) = i - m + 1
  <2>1. TAKE i \in kept
  <2>2. {j \in kept : j <= i} = m..i BY <1>1, <1>2
  <2>3. i \in Int /\ m \in Int /\ ~(m > i) BY <1>1, <1>2
  <2>4. Cardinality(m..i) = i - m + 1 BY <2>3, FS_Interval
  <2>5. QED BY <2>2, <2>4
<1>5. ASSUME NEW k \in 1..(n + 1 - m) PROVE PlaceOf(k, kept) = m + k - 1
  <2>1. m + k - 1 \in kept /\ (m + k - 1) - m + 1 = k BY <1>1, <1>2
  <2>2. \E i \in kept : Cardinality({j \in kept : j <= i}) = k BY <1>4, <2>1
  <2>3. /\ PlaceOf(k, kept) \in kept
        /\ Cardinality({j \in kept : j <= PlaceOf(k, kept)}) = k
    BY <2>2, Zenon DEF PlaceOf
  <2>4. PlaceOf(k, kept) - m + 1 = k BY <1>4, <2>3
  <2>5. PlaceOf(k, kept) \in Int BY <1>1, <1>2, <2>3
  <2>6. QED BY <1>1, <2>4, <2>5
<1>6. Compacted(s, kept) = [k \in 1..(n + 1 - m) |-> s[m + k - 1]]
  BY <1>3, <1>5 DEF Compacted
<1>7. SubSeq(s, m, n) = [k \in 1..(n + 1 - m) |-> s[m + k - 1]]
  BY <1>1 DEF n
<1>8. QED BY <1>6, <1>7 DEF n

(* The last e elements of a sequence.                                       *)
LEMMA EndOf ==
  ASSUME NEW S, NEW s \in Seq(S), NEW e \in 0..Len(s)
  PROVE  LET n == Len(s)
             end == SubSeq(s, n + 1 - e, n)
         IN  /\ end \in Seq(S) /\ Len(end) = e
             /\ end = [k \in 1..e |-> s[n - e + k]]
<1> DEFINE n == Len(s)
           end == SubSeq(s, n + 1 - e, n)
<1>1. n \in Nat /\ e \in Nat /\ e <= n OBVIOUS
<1>2. \A i \in 1..n : s[i] \in S BY ElementOfSeq
<1>3. end = [k \in 1..(n - (n + 1 - e) + 1) |-> s[n + 1 - e + k - 1]] OBVIOUS
<1> HIDE DEF n, end
<1>4. end = [k \in 1..e |-> s[n - e + k]]
  <2>1. n - (n + 1 - e) + 1 = e BY <1>1
  <2>2. \A k \in 1..e : n + 1 - e + k - 1 = n - e + k BY <1>1
  <2>3. QED BY <1>3, <2>1, <2>2
<1>5. \A k \in 1..e : n - e + k \in 1..n BY <1>1
<1>6. end \in Seq(S) /\ Len(end) = e BY <1>1, <1>2, <1>4, <1>5
<1>7. QED BY <1>4, <1>6 DEF n, end

(* A result, and results in the order of their times, none later than now.  *)
Results == [t : Nat, has : BOOLEAN]
Timely(results, time) ==
  /\ results \in Seq(Results)
  /\ \A i \in 1..Len(results) : results[i].t <= time
  /\ \A i, j \in 1..Len(results) : i <= j => results[i].t <= results[j].t

(* What the client does, at exactly two thirds too.                         *)
SaidExactly ==
  heard # <<>> /\ verdict # "closed" =>
    (verdict = "HasTowel" <=> Enough(Recent(heard), heard[Len(heard)].t))

TowelInv ==
  /\ now \in Nat /\ verdict \in {"none", "HasTowel", "closed"}
  /\ Timely(heard, now)
  /\ WindowExact /\ SaidExactly

(* What is recent is the end of what was heard, and what stays young now is *)
(* in it.                                                                   *)
LEMMA RecentIsEnd ==
  ASSUME NEW h, now \in Nat, Timely(h, now)
  PROVE  \E c \in 0..Len(h) :
           /\ Recent(h) = SubSeq(h, Len(h) + 1 - c, Len(h)) /\ c <= MAX_SAMPLES
           /\ \A i \in 1..Len(h) :
                h[i].t >= now - WINDOW_SECONDS /\ i > Len(h) - MAX_SAMPLES
                  => i > Len(h) - c
<1> DEFINE n == Len(h)
           c == Cardinality(Young(h))
<1>1. n \in Nat /\ h \in Seq(Results) BY DEF Timely
<1>2. \A i \in 1..n : h[i].t \in Nat
  <2>1. \A i \in 1..n : h[i] \in Results BY <1>1, ElementOfSeq
  <2>2. QED BY <2>1 DEF Results
<1>3. CASE n = 0
  <2>1. Recent(h) = <<>> BY <1>3 DEF Recent
  <2>2. SubSeq(h, n + 1 - 0, n) = <<>> BY <1>3, <1>1, SubSeqEmpty
  <2>3. QED BY <1>3, <2>1, <2>2, TowelAssumption
<1>4. CASE n # 0
  <2>1. /\ Young(h) \in SUBSET (1..n)
        /\ \A i \in 1..n : i \in Young(h) <=> /\ h[i].t >= h[n].t - WINDOW_SECONDS
                                            /\ i > n - MAX_SAMPLES
    BY DEF Young
  <2>2. ASSUME NEW i \in Young(h), NEW j \in i..n PROVE j \in Young(h)
    <3>1. i \in 1..n /\ j \in 1..n /\ i <= j BY <2>1
    <3>2. h[i].t <= h[j].t BY <3>1 DEF Timely
    <3>3. n \in 1..n BY <1>1, <1>4
    <3>4. QED BY <1>1, <1>2, <2>1, <3>1, <3>2, <3>3, TowelAssumption, SMTT(30)
  <2>3. c \in Nat /\ c <= n /\ Young(h) = (n + 1 - c)..n
    BY <1>1, <2>1, <2>2, LastOnes
  <2>4. Recent(h) = SubSeq(h, n + 1 - c, n) BY <1>4 DEF Recent
  <2> HIDE DEF c, n
  <2>5. c <= MAX_SAMPLES
    <3>1. CASE c = 0 BY <3>1, TowelAssumption
    <3>2. CASE c # 0
      <4>1. n + 1 - c \in 1..n /\ n + 1 - c \in Young(h) BY <1>1, <2>3, <3>2
      <4>2. n + 1 - c > n - MAX_SAMPLES BY <2>1, <4>1
      <4>3. QED BY <1>1, <2>3, <4>2, TowelAssumption
    <3>3. QED BY <3>1, <3>2
  <2>6. ASSUME NEW i \in 1..n, h[i].t >= now - WINDOW_SECONDS, i > n - MAX_SAMPLES
        PROVE  i > n - c
    <3>1. n \in 1..n BY <1>1, <1>4
    <3>2. h[n].t <= now BY <3>1 DEF Timely, n
    <3>3. h[i].t >= h[n].t - WINDOW_SECONDS
      BY <1>2, <2>6, <3>1, <3>2, TowelAssumption
    <3>4. i \in (n + 1 - c)..n BY <2>1, <2>3, <2>6, <3>3
    <3>5. QED BY <1>1, <2>3, <3>4
  <2>7. c \in 0..n BY <1>1, <2>3
  <2>8. QED BY <2>4, <2>5, <2>6, <2>7 DEF n
<1>5. QED BY <1>3, <1>4

(* The samples that the loop keeps are the end of what was heard, and they  *)
(* are all that is young now.                                               *)
LEMMA KeptIsEnd ==
  ASSUME NEW h, now \in Nat, Timely(h, now)
  PROVE  \E d \in 0..Len(h) :
           /\ InWindow(Recent(h)) = SubSeq(h, Len(h) + 1 - d, Len(h))
           /\ d <= MAX_SAMPLES
           /\ \A i \in 1..Len(h) :
                i > Len(h) - d <=> /\ h[i].t >= now - WINDOW_SECONDS
                                   /\ i > Len(h) - MAX_SAMPLES
<1> DEFINE n == Len(h)
<1>1. n \in Nat /\ h \in Seq(Results) BY DEF Timely
<1>2. \A i \in 1..n : h[i].t \in Nat
  <2>1. \A i \in 1..n : h[i] \in Results BY <1>1, ElementOfSeq
  <2>2. QED BY <2>1 DEF Results
<1>3. \A i, j \in 1..n : i <= j => h[i].t <= h[j].t BY DEF Timely
<1> DEFINE s == Recent(h)
<1> HIDE DEF n
<1>4. PICK c \in 0..n : /\ s = SubSeq(h, n + 1 - c, n) /\ c <= MAX_SAMPLES
                        /\ \A i \in 1..n :
                             h[i].t >= now - WINDOW_SECONDS /\ i > n - MAX_SAMPLES
                               => i > n - c
  BY RecentIsEnd DEF n
<1> HIDE DEF s
<1>5. c \in Nat /\ c <= n BY <1>1, <1>4
<1>6. s \in Seq(Results) /\ Len(s) = c /\ s = [k \in 1..c |-> h[n - c + k]]
  BY <1>1, <1>4, EndOf DEF n
<1> DEFINE kept == {i \in 1..c : s[i].t >= now - WINDOW_SECONDS}
           d == Cardinality(kept)
<1>7. \A k \in 1..c : n - c + k \in 1..n /\ s[k] = h[n - c + k] BY <1>1, <1>5, <1>6
<1>8. ASSUME NEW i \in kept, NEW j \in i..c PROVE j \in kept
  <2>1. i \in 1..c /\ j \in 1..c /\ i <= j BY <1>5
  <2>2. n - c + i <= n - c + j BY <1>1, <1>5, <2>1
  <2>3. s[i].t <= s[j].t BY <1>3, <1>7, <2>1, <2>2
  <2>4. s[i].t \in Nat /\ s[j].t \in Nat BY <1>2, <1>7, <2>1
  <2>5. QED BY <2>1, <2>3, <2>4, TowelAssumption
<1>9. d \in Nat /\ d <= c /\ kept = (c + 1 - d)..c
  <2> HIDE DEF d
  <2>1. kept \in SUBSET (1..c) OBVIOUS
  <2>2. QED BY <1>5, <1>8, <2>1, LastOnes DEF d
<1>10. InWindow(s) = Compacted(s, kept)
  <2>1. DOMAIN s = 1..c BY <1>6
  <2>2. QED BY <2>1 DEF InWindow
<1>11. \A k \in 1..c : s[k].t >= now - WINDOW_SECONDS <=> k \in (c + 1 - d)..c BY <1>9
<1> HIDE DEF kept, d
<1>12. InWindow(s) = SubSeq(s, c + 1 - d, c)
  <2>1. c + 1 - d \in 1..(Len(s) + 1) BY <1>5, <1>6, <1>9
  <2>2. QED BY <1>6, <1>9, <1>10, <2>1, CompactedEnd
<1>13. SubSeq(s, c + 1 - d, c) = [k \in 1..d |-> s[c - d + k]]
  <2>1. d \in 0..Len(s) BY <1>5, <1>6, <1>9
  <2>2. QED BY <1>6, <2>1, EndOf
<1>14. SubSeq(h, n + 1 - d, n) = [k \in 1..d |-> h[n - d + k]]
  <2>1. d \in 0..Len(h) BY <1>1, <1>5, <1>9 DEF n
  <2>2. QED BY <1>1, <2>1, EndOf DEF n
<1>15. \A k \in 1..d : s[c - d + k] = h[n - d + k]
  <2>1. TAKE k \in 1..d
  <2>2. c - d + k \in 1..c /\ n - c + (c - d + k) = n - d + k BY <1>1, <1>5, <1>9
  <2>3. QED BY <1>7, <2>2
<1>16. InWindow(s) = SubSeq(h, n + 1 - d, n) BY <1>12, <1>13, <1>14, <1>15
<1>17. ASSUME NEW i \in 1..n
       PROVE  i > n - d <=> h[i].t >= now - WINDOW_SECONDS /\ i > n - MAX_SAMPLES
  <2>1. CASE i > n - c
    <3>1. i - (n - c) \in 1..c /\ n - c + (i - (n - c)) = i BY <1>1, <1>5, <2>1
    <3>2. s[i - (n - c)] = h[i] BY <1>7, <3>1
    <3>3. h[i].t >= now - WINDOW_SECONDS <=> i - (n - c) \in (c + 1 - d)..c
      BY <1>11, <3>1, <3>2
    <3>4. i > n - MAX_SAMPLES BY <1>1, <1>4, <1>5, <2>1, TowelAssumption
    <3>5. i - (n - c) \in (c + 1 - d)..c <=> i > n - d BY <1>1, <1>5, <1>9, <3>1
    <3>6. QED BY <3>3, <3>4, <3>5
  <2>2. CASE ~(i > n - c)
    <3>1. ~(i > n - d) BY <1>1, <1>5, <1>9, <2>2
    <3>2. QED BY <1>4, <2>2, <3>1
  <2>3. QED BY <2>1, <2>2
<1>18. d \in 0..n /\ d <= MAX_SAMPLES BY <1>1, <1>4, <1>5, <1>9, TowelAssumption
<1>19. QED BY <1>16, <1>17, <1>18 DEF n, s

(* One more result: the array after the line is what is recent then.        *)
RoomIn(recent) == IF Len(recent) >= MAX_SAMPLES THEN Tail(recent) ELSE recent

LEMMA OneMore ==
  ASSUME NEW h, NEW r \in Results, now \in Nat, Timely(h, now), r.t = now
  PROVE  /\ Timely(Append(h, r), now)
         /\ Append(RoomIn(InWindow(Recent(h))), r) = Recent(Append(h, r))
<1> DEFINE n == Len(h)
           g == Append(h, r)
<1>1. n \in Nat /\ h \in Seq(Results) BY DEF Timely
<1>2. \A i \in 1..n : h[i].t \in Nat
  <2>1. \A i \in 1..n : h[i] \in Results BY <1>1, ElementOfSeq
  <2>2. QED BY <2>1 DEF Results
<1>3. /\ g \in Seq(Results) /\ Len(g) = n + 1
      /\ \A i \in 1..n : g[i] = h[i]
      /\ g[n + 1] = r
  BY <1>1, AppendProperties
<1>4. \A i \in 1..n : h[i].t <= now BY DEF Timely
<1>5. \A i, j \in 1..n : i <= j => h[i].t <= h[j].t BY DEF Timely
<1> DEFINE s == InWindow(Recent(h))
<1>6. PICK d \in 0..n : /\ s = SubSeq(h, n + 1 - d, n)
                        /\ d <= MAX_SAMPLES
                        /\ \A i \in 1..n :
                             i > n - d <=> /\ h[i].t >= now - WINDOW_SECONDS
                                           /\ i > n - MAX_SAMPLES
  BY KeptIsEnd
<1> HIDE DEF n, g, s
<1>7. Timely(g, now)
  <2>1. \A i \in 1..(n + 1) : g[i].t <= now
    <3>1. TAKE i \in 1..(n + 1)
    <3>2. CASE i = n + 1 BY <1>3, <3>2
    <3>3. CASE i # n + 1
      <4>1. i \in 1..n BY <1>1, <3>3
      <4>2. QED BY <1>3, <1>4, <4>1
    <3>4. QED BY <3>2, <3>3
  <2>2. \A i, j \in 1..(n + 1) : i <= j => g[i].t <= g[j].t
    <3>1. SUFFICES ASSUME NEW i \in 1..(n + 1), NEW j \in 1..(n + 1), i <= j
                   PROVE  g[i].t <= g[j].t
      OBVIOUS
    <3>2. CASE j = n + 1 BY <1>3, <2>1, <3>2
    <3>3. CASE j # n + 1
      <4>1. i \in 1..n /\ j \in 1..n BY <1>1, <3>1, <3>3
      <4>2. QED BY <1>3, <1>5, <3>1, <4>1
    <3>4. QED BY <3>2, <3>3
  <2>3. QED BY <1>3, <2>1, <2>2 DEF Timely
<1> DEFINE e == IF d >= MAX_SAMPLES THEN d - 1 ELSE d
<1>8. e \in 0..n /\ e \in Nat /\ e <= n BY <1>1, <1>6, TowelAssumption
<1>9. d \in 0..Len(h) BY <1>6 DEF n
<1>10. s \in Seq(Results) /\ Len(s) = d /\ s = [k \in 1..d |-> h[n - d + k]]
  BY <1>1, <1>6, <1>9, EndOf DEF n
<1>11. RoomIn(s) \in Seq(Results) /\ Len(RoomIn(s)) = e
       /\ \A k \in 1..e : RoomIn(s)[k] = h[n - e + k]
  <2>1. CASE d >= MAX_SAMPLES
    <3>1. d # 0 /\ e = d - 1 BY <1>6, <2>1, TowelAssumption
    <3> HIDE DEF e
    <3>2. s # <<>> BY <1>10, <3>1
    <3>3. /\ Tail(s) \in Seq(Results) /\ Len(Tail(s)) = Len(s) - 1
          /\ \A k \in 1..Len(Tail(s)) : Tail(s)[k] = s[k + 1]
      BY <1>10, <3>2, HeadTailProperties
    <3>4. RoomIn(s) = Tail(s) BY <1>10, <2>1 DEF RoomIn
    <3>5. \A k \in 1..e : s[k + 1] = h[n - e + k]
      <4>1. TAKE k \in 1..e
      <4>2. k + 1 \in 1..d /\ n - d + (k + 1) = n - e + k BY <1>1, <1>6, <3>1
      <4>3. QED BY <1>10, <4>2
    <3>6. Len(Tail(s)) = e BY <1>10, <3>1, <3>3
    <3>7. QED BY <3>3, <3>4, <3>5, <3>6
  <2>2. CASE ~(d >= MAX_SAMPLES)
    <3>1. RoomIn(s) = s /\ e = d BY <1>10, <2>2 DEF RoomIn
    <3>2. QED BY <1>10, <3>1
  <2>3. QED BY <2>1, <2>2
<1> DEFINE a == Append(RoomIn(s), r)
<1>12. /\ a \in Seq(Results) /\ Len(a) = e + 1
       /\ \A k \in 1..e : a[k] = h[n - e + k]
       /\ a[e + 1] = r
  BY <1>11, AppendProperties
<1>13. Young(g) = (n + 1 - e)..(n + 1)
  <2>1. /\ Young(g) \in SUBSET (1..(n + 1))
        /\ \A i \in 1..(n + 1) : i \in Young(g) <=> /\ g[i].t >= now - WINDOW_SECONDS
                                                  /\ i > (n + 1) - MAX_SAMPLES
    <3>1. Len(g) = n + 1 /\ g[Len(g)].t = now BY <1>3
    <3>2. /\ Young(g) \in SUBSET (1..Len(g))
          /\ \A i \in 1..Len(g) :
               i \in Young(g) <=> /\ g[i].t >= g[Len(g)].t - WINDOW_SECONDS
                                 /\ i > Len(g) - MAX_SAMPLES
      BY DEF Young
    <3>3. QED BY <3>1, <3>2
  <2>2. ASSUME NEW i \in 1..(n + 1)
        PROVE  i >= n + 1 - e <=> g[i].t >= now - WINDOW_SECONDS /\ i > (n + 1) - MAX_SAMPLES
    <3>1. CASE i = n + 1
      <4>1. g[i].t >= now - WINDOW_SECONDS BY <1>3, <3>1, TowelAssumption
      <4>2. QED BY <1>1, <1>8, <3>1, <4>1, TowelAssumption
    <3>2. CASE i # n + 1
      <4>1. i \in 1..n /\ g[i] = h[i] BY <1>1, <1>3, <3>2
      <4>2. i > n - d <=> h[i].t >= now - WINDOW_SECONDS /\ i > n - MAX_SAMPLES
        BY <1>6, <4>1
      <4>3. i > (n + 1) - MAX_SAMPLES => i > n - MAX_SAMPLES BY <1>1, <4>1, TowelAssumption
      <4>4. i >= n + 1 - e <=> i > n - d /\ i > (n + 1) - MAX_SAMPLES
        BY <1>1, <1>6, <4>1, TowelAssumption
      <4>5. QED BY <4>1, <4>2, <4>3, <4>4
    <3>3. QED BY <3>1, <3>2
  <2> HIDE DEF e
  <2>3. (n + 1 - e)..(n + 1) = {i \in 1..(n + 1) : i >= n + 1 - e} BY <1>1, <1>8
  <2>4. QED BY <2>1, <2>2, <2>3
<1> HIDE DEF e, a
<1>14. Cardinality(Young(g)) = e + 1
  <2>1. n + 1 - e \in Int /\ n + 1 \in Int /\ ~(n + 1 - e > n + 1) BY <1>1, <1>8
  <2>2. Cardinality((n + 1 - e)..(n + 1)) = (n + 1) - (n + 1 - e) + 1 BY <2>1, FS_Interval
  <2>3. QED BY <1>1, <1>8, <1>13, <2>2
<1>15. Recent(g) = SubSeq(g, (n + 1) + 1 - (e + 1), n + 1)
  <2>1. n + 1 # 0 BY <1>1
  <2>2. QED BY <1>3, <1>14, <2>1 DEF Recent
<1>16. Recent(g) = [k \in 1..(e + 1) |-> g[(n + 1) - (e + 1) + k]]
  <2>1. e + 1 \in 0..Len(g) BY <1>1, <1>3, <1>8
  <2>2. QED BY <1>3, <1>15, <2>1, EndOf, SMTT(30)
<1>17. \A k \in 1..(e + 1) : a[k] = g[(n + 1) - (e + 1) + k]
  <2>1. TAKE k \in 1..(e + 1)
  <2>2. CASE k = e + 1 BY <1>1, <1>3, <1>8, <1>12, <2>2
  <2>3. CASE k # e + 1
    <3>1. k \in 1..e BY <1>8, <2>3
    <3>2. n - e + k \in 1..n /\ (n + 1) - (e + 1) + k = n - e + k BY <1>1, <1>8, <3>1
    <3>3. QED BY <1>3, <1>12, <3>1, <3>2
  <2>4. QED BY <2>2, <2>3
<1>18. a = [k \in 1..(e + 1) |-> a[k]] BY <1>8, <1>12
<1>19. a = Recent(g) BY <1>16, <1>17, <1>18
<1>20. QED BY <1>7, <1>19 DEF a, g, s

LEMMA InitTowelInv == TowelInit => TowelInv
  BY DEF TowelInit, TowelInv, Timely, WindowExact, SaidExactly, Recent

(* A line.  The ratio was not enough at the result before, or else the      *)
(* client would have said so and stopped.                                   *)
LEMMA ResultKeeps ==
  ASSUME TowelInv, verdict = "none", NEW has \in BOOLEAN, Result(has)
  PROVE  TowelInv'
<1> DEFINE r == [t |-> now, has |-> has]
<1>1. now \in Nat /\ Timely(heard, now) /\ samples = Recent(heard)
  BY DEF TowelInv, WindowExact
<1>2. r \in Results /\ r.t = now BY <1>1 DEF Results
<1>3. /\ heard' = Append(heard, r) /\ now' = now
      /\ samples' = Append(RoomIn(InWindow(samples)), r)
      /\ verdict' = IF Enough(samples', now) THEN "HasTowel" ELSE verdict
  BY DEF Result, RoomIn
<1> HIDE DEF r
<1>4. Timely(heard', now') /\ samples' = Recent(heard')
  BY <1>1, <1>2, <1>3, OneMore
<1>5. heard'[Len(heard')] = r
  <2>1. heard \in Seq(Results) BY <1>1 DEF Timely
  <2>2. QED BY <1>2, <1>3, <2>1, AppendProperties
<1>6. SaidExactly'
  <2>1. verdict' = "HasTowel" <=> Enough(Recent(heard'), heard'[Len(heard')].t)
    BY <1>2, <1>3, <1>4, <1>5
  <2>2. QED BY <2>1 DEF SaidExactly
<1>7. verdict' \in {"none", "HasTowel", "closed"} BY <1>3
<1>8. QED BY <1>1, <1>3, <1>4, <1>6, <1>7 DEF TowelInv, WindowExact

LEMMA NextTowelInv == TowelInv /\ [TowelNext]_towelVars => TowelInv'
<1> SUFFICES ASSUME TowelInv, [TowelNext]_towelVars PROVE TowelInv' OBVIOUS
<1>1. CASE Clock
  <2>1. \A i \in 1..Len(heard) : heard[i].t \in Nat
    <3>1. \A i \in 1..Len(heard) : heard[i] \in Results
      BY ElementOfSeq DEF TowelInv, Timely
    <3>2. QED BY <3>1 DEF Results
  <2>2. now' \in Nat /\ Timely(heard', now')
    BY <1>1, <2>1 DEF Clock, TowelInv, Timely
  <2>3. WindowExact' /\ SaidExactly' /\ verdict' = verdict
    BY <1>1 DEF Clock, TowelInv, WindowExact, SaidExactly
  <2>4. QED BY <2>2, <2>3 DEF TowelInv
<1>2. CASE Disconnect
  BY <1>2 DEF Disconnect, TowelInv, Timely, WindowExact, SaidExactly
<1>3. CASE verdict = "none" /\ \E has \in BOOLEAN : Result(has)
  BY <1>3, ResultKeeps
<1>4. CASE UNCHANGED towelVars
  BY <1>4 DEF towelVars, TowelInv, Timely, WindowExact, SaidExactly
<1>5. QED BY <1>1, <1>2, <1>3, <1>4 DEF TowelNext

LEMMA TowelInvHolds == TowelSpec => []TowelInv
<1>1. QED BY InitTowelInv, NextTowelInv, PTL DEF TowelSpec

(* Towel_client.c: the array that is compacted in place and loses its       *)
(* oldest when it is full holds exactly the results that the window         *)
(* promises, whatever the window, the array and the times of the results.   *)
THEOREM WindowIsExact == TowelSpec => []WindowExact
<1>1. TowelInv => WindowExact BY DEF TowelInv
<1>2. QED BY <1>1, TowelInvHolds, PTL

(* HasTowel is said at the first result whose window is complete and above  *)
(* two thirds, and never below.                                             *)
THEOREM TowelIsSaidAtOnce == TowelSpec => []SaidAtOnce
<1>1. ASSUME TowelInv, heard # <<>> PROVE HasCount(Recent(heard)) \in Nat
  <2> DEFINE window == Recent(heard)
             has == {i \in DOMAIN window : window[i].has}
  <2>1. heard \in Seq(Results) BY <1>1 DEF TowelInv, Timely
  <2>2. PICK c \in 0..Len(heard) :
               window = SubSeq(heard, Len(heard) + 1 - c, Len(heard))
    BY <1>1, RecentIsEnd DEF TowelInv
  <2>3. window \in Seq(Results) /\ Len(window) = c BY <2>1, <2>2, EndOf
  <2> HIDE DEF window
  <2>4. c \in Nat /\ DOMAIN window = 1..c /\ has \in SUBSET (1..c) BY <2>1, <2>3
  <2>5. IsFiniteSet(1..c) BY <2>4, FS_Interval
  <2> HIDE DEF has
  <2>6. IsFiniteSet(has) BY <2>4, <2>5, FS_Subset, ZenonT(60)
  <2>7. Cardinality(has) \in Nat BY <2>6, FS_CardinalityType
  <2>8. QED BY <2>7 DEF HasCount, has, window
<1>2. ASSUME TowelInv PROVE SaidAtOnce
  <2>1. SUFFICES ASSUME heard # <<>>, verdict # "closed" PROVE SaidAtOnce
    BY DEF SaidAtOnce
  <2> DEFINE window == Recent(heard)
             a == 3 * HasCount(window)
             b == 2 * Len(window)
             ready == heard[Len(heard)].t >= WINDOW_SECONDS /\ Len(window) >= MIN_SAMPLES
  <2>2. HasCount(window) \in Nat BY <1>1, <1>2, <2>1
  <2>3. window \in Seq(Results)
    <3>1. heard \in Seq(Results) BY <1>2 DEF TowelInv, Timely
    <3>2. PICK c \in 0..Len(heard) :
                 window = SubSeq(heard, Len(heard) + 1 - c, Len(heard))
      BY <1>2, RecentIsEnd DEF TowelInv
    <3>3. QED BY <3>1, <3>2, EndOf
  <2>4. a \in Int /\ b \in Int
    <3> HIDE DEF window
    <3>1. Len(window) \in Nat BY <2>3
    <3>2. QED BY <2>2, <3>1
  <2>5. verdict = "HasTowel" <=> ready /\ a >= b
    BY <1>2, <2>1 DEF TowelInv, SaidExactly, Enough
  <2> HIDE DEF a, b, ready
  <2>6. a > b => a >= b BY <2>4
  <2>7. QED BY <2>5, <2>6 DEF SaidAtOnce, a, b, ready
<1>3. QED BY <1>2, TowelInvHolds, PTL

-----------------------------------------------------------------------------
(* A behaviour of MCPrograms is one of each program, of which all but one   *)
(* never start; so that what holds of a program holds in the run.           *)
LEMMA EachProgram ==
  FairSpec => LinesSpec /\ LedSpec /\ TrainSpec /\ DeliverySpec /\ MenuSpec /\ TowelSpec
<1>1. Init => LinesInit /\ LedInit /\ TrainInit /\ DeliveryInit /\ MenuInit /\ TowelInit
  BY DEF Init
<1>2. ASSUME [Next]_vars
      PROVE  /\ [LinesNext]_linesVars /\ [LedNext]_ledVars /\ [TrainNext]_trainVars
             /\ [DeliveryNext]_deliveryVars /\ [MenuNext]_menuVars /\ [TowelNext]_towelVars
  <2>1. CASE UNCHANGED vars BY <2>1 DEF vars
  <2>2. CASE Next BY <2>2 DEF Next, Only
  <2>3. QED BY <1>2, <2>1, <2>2
<1>3. QED
  BY <1>1, <1>2, PTL DEF FairSpec, LinesSpec, LedSpec, TrainSpec, DeliverySpec, MenuSpec, TowelSpec

(* No variable of the driver, of the servers or of the menus leaves its     *)
(* type; among them, no index of hw1.c's seg_map is out of bounds.          *)
THEOREM ProgramTypes == FairSpec => []TypeOK
<1>1. LedInv => LedTypeOK BY DEF LedInv
<1>2. DeliveryInv => DeliveryTypeOK BY DEF DeliveryInv
<1>3. QED
  BY <1>1, <1>2, EachProgram, LedInvHolds, TrainTypes, DeliveryInvHolds, MenuTypes, PTL
  DEF TypeOK
=============================================================================
