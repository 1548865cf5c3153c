--------------------------- MODULE GymDeviceProofs ---------------------------
(* The types of GymDevice, and that its loop always reports somebody: for   *)
(* every number of machines and users, every count and every card.          *)
EXTENDS GymDevice, TLAPS

Contexts ==
  [state : {"IDLE", "CHECKIN", "COUNTDOWN"}, current_user : Ids \cup {NoUser},
   remaining : Int, stop : BOOLEAN, verified : BOOLEAN,
   queued : Events, sent : Events,
   pc : {"top"} \cup Blocked \cup Sections, lag : 0..MAX_LAG]

(* Who is counted, or is about to be reported, is somebody.                 *)
Named(d) ==
  d.state # "IDLE" \/ d.pc \in {"missed", "verify", "end", "finish"}
    => d.current_user # NoUser

Good == {d \in Contexts : Named(d)}

IInv == dev \in [Equips -> Good] /\ card \in [Equips -> Users \cup {NoUser}]

LEMMA Markers == NoUser \notin Ids /\ NoEvent \in Events /\ 0 \in 0..MAX_LAG
BY DeviceAssumption DEF DeviceAssumption, Ids, Events

LEMMA SomeEvent ==
  \A op \in {"missed", "finished", "checkedIn"}, u \in Ids : Event(op, u) \in Events
BY DEF Event, Events

LEMMA OneMachine ==
  ASSUME IInv, NEW e \in Equips, NEW d \in Good, dev' = [dev EXCEPT ![e] = d], card' = card
  PROVE  IInv'
BY DEF IInv

(* The machine becomes idle and the loop begins again. *)
LEMMA IdleAgain ==
  ASSUME NEW d \in Contexts, NEW event \in Events
  PROVE  [d EXCEPT !.queued = event, !.state = "IDLE", !.current_user = NoUser,
                   !.remaining = 0, !.verified = FALSE, !.pc = "top"] \in Good
<1> DEFINE counted == [d EXCEPT !.queued = event, !.state = "IDLE", !.current_user = NoUser]
           rested == [counted EXCEPT !.remaining = 0]
           idle == [rested EXCEPT !.verified = FALSE]
           again == [idle EXCEPT !.pc = "top"]
<1>1. counted \in Contexts /\ counted.state = "IDLE" BY DEF Contexts
<1> HIDE DEF counted
<1>2. rested \in Contexts /\ rested.state = "IDLE" BY <1>1 DEF Contexts
<1> HIDE DEF rested
<1>3. idle \in Contexts /\ idle.state = "IDLE" BY <1>2 DEF Contexts
<1> HIDE DEF idle
<1>4. again \in Contexts /\ again.state = "IDLE" /\ again.pc = "top" BY <1>3 DEF Contexts
<1>5. again \in Good BY <1>4 DEF Good, Named
<1> QED BY <1>5 DEF counted, rested, idle

(* parse_command *)
LEMMA CommandGood ==
  ASSUME NEW d \in Good, NEW u \in Ids, NEW v \in Ids \cup {NoUser}, NEW secs \in Int
  PROVE  /\ StartCheckin(d, u, secs) \in Good /\ StartUsage(d, v, secs) \in Good
         /\ Stop(d) \in Good /\ [d EXCEPT !.sent = NoEvent] \in Good
<1>0. d \in Contexts /\ Named(d) BY DEF Good
<1>1. ASSUME NEW w \in Ids PROVE StartCheckin(d, w, secs) \in Good
  <2> DEFINE started == [d EXCEPT !.state = "CHECKIN", !.current_user = w,
                                  !.remaining = secs, !.verified = FALSE, !.stop = FALSE]
  <2>1. started \in Contexts BY <1>0 DEF Contexts
  <2>2. started.current_user = w BY <1>0 DEF Contexts
  <2>3. w # NoUser BY Markers
  <2> QED BY <2>1, <2>2, <2>3 DEF StartCheckin, Good, Named
<1>2. StartUsage(d, v, secs) \in Good
  <2>1. CASE v = NoUser BY <1>1, <2>1 DEF StartUsage, Ids
  <2>2. CASE v # NoUser /\ d.state = "CHECKIN" /\ d.verified
    <3> DEFINE used == [d EXCEPT !.state = "COUNTDOWN", !.remaining = secs,
                                 !.verified = FALSE, !.stop = FALSE]
    <3>1. used \in Contexts BY <1>0 DEF Contexts
    <3>2. used.current_user = d.current_user /\ d.current_user # NoUser
      BY <1>0, <2>2 DEF Contexts, Named
    <3>3. used \in Good BY <3>1, <3>2 DEF Good, Named
    <3> QED BY <2>2, <3>3 DEF StartUsage
  <2>3. CASE v # NoUser /\ ~(d.state = "CHECKIN" /\ d.verified) BY <2>3 DEF StartUsage
  <2> QED BY <2>1, <2>2, <2>3
<1>3. Stop(d) \in Good BY DEF Stop, Good, Contexts, Named
<1>4. [d EXCEPT !.sent = NoEvent] \in Good BY Markers DEF Good, Contexts, Named
<1> QED BY <1>1, <1>2, <1>3, <1>4

(* A command: the context it leaves, and no event left in the socket. *)
LEMMA ReplyGood ==
  ASSUME IInv, NEW e \in Equips, NEW after \in Good, Command(e, after), card' = card
  PROVE  IInv'
<1> DEFINE replied == [after EXCEPT !.sent = NoEvent]
           misled == [replied EXCEPT !.lag = 0, !.pc = "expel"]
<1>1. replied \in Good BY Markers DEF Good, Contexts, Named
<1>2. \/ dev' = [dev EXCEPT ![e] = replied]
      \/ dev' = [dev EXCEPT ![e] = misled]
  BY DEF Command
<1> HIDE DEF replied
<1>3. misled \in Good BY <1>1, Markers DEF Good, Contexts, Named, Blocked
<1> HIDE DEF misled
<1> QED BY <1>1, <1>2, <1>3, OneMachine

LEMMA AnyCommandGood == ASSUME IInv, NEW e \in Equips, AnyCommand(e) PROVE IInv'
<1> DEFINE d == dev[e]
<1>1. d \in Good BY DEF IInv
<1>2. ASSUME NEW after \in Good, Command(e, after) PROVE IInv'
  BY <1>2, ReplyGood DEF AnyCommand
<1>3. Periods \subseteq Int /\ Keyword \in Ids
  BY DeviceAssumption DEF DeviceAssumption, Ids
<1>4. CASE \E u \in Ids, secs \in Periods : Command(e, StartCheckin(d, u, secs))
  <2>1. PICK u \in Ids, secs \in Periods : Command(e, StartCheckin(d, u, secs)) BY <1>4
  <2>2. StartCheckin(d, u, secs) \in Good BY <1>1, <1>3, CommandGood
  <2> QED BY <1>2, <2>1, <2>2
<1>5. CASE \E u \in Ids \cup {NoUser}, secs \in Periods : Command(e, StartUsage(d, u, secs))
  <2>1. PICK u \in Ids \cup {NoUser}, secs \in Periods : Command(e, StartUsage(d, u, secs))
    BY <1>5
  <2>2. StartUsage(d, u, secs) \in Good BY <1>1, <1>3, CommandGood
  <2> QED BY <1>2, <2>1, <2>2
<1>6. CASE Command(e, Stop(d))
  <2>1. Keyword \in Ids /\ 0 \in Int BY DEF Ids
  <2>2. Stop(d) \in Good BY <1>1, <2>1, CommandGood
  <2> QED BY <1>2, <1>6, <2>2
<1>7. CASE Command(e, d) BY <1>1, <1>2, <1>7
<1> QED BY <1>4, <1>5, <1>6, <1>7 DEF AnyCommand

-----------------------------------------------------------------------------
(* hardware_loop *)

LEMMA LoopGood == ASSUME IInv, NEW e \in Equips, DeviceStep(e) PROVE IInv'
<1> DEFINE d == dev[e]
<1>1. d \in Good /\ card[e] \in Users \cup {NoUser} BY DEF IInv
<1>2. d \in Contexts /\ Named(d) BY <1>1 DEF Good
<1>3. CASE Flush(e)
  <2> DEFINE after == [d EXCEPT !.sent = d.queued, !.queued = NoEvent]
  <2>1. dev' = [dev EXCEPT ![e] = after] /\ card' = card BY <1>3 DEF Flush, IInv
  <2>2. after \in Good BY <1>2, Markers DEF Good, Contexts, Named
  <2> HIDE DEF after
  <2> QED BY <2>1, <2>2, OneMachine
<1>4. CASE Stopping(e) \/ Idling(e)
  <2>1. PICK next \in {"top", "expel", "reset", "alarm"} :
          dev' = [dev EXCEPT ![e] = [d EXCEPT !.lag = 0, !.pc = next]] /\ card' = card
    BY <1>4 DEF Stopping, Idling, IInv
  <2> DEFINE after == [d EXCEPT !.lag = 0, !.pc = next]
  <2>2. after \in Good BY <1>2, Markers DEF Good, Contexts, Named, Blocked, Sections
  <2> HIDE DEF after
  <2> QED BY <2>1, <2>2, OneMachine DEF after
<1>5. CASE CheckingIn(e)
  <2> DEFINE left == IF d.remaining > d.lag THEN d.remaining - d.lag ELSE 0
  <2>1. PICK next \in {"missed", "verify", "alarm", "top"} :
          /\ dev' = [dev EXCEPT ![e] = [d EXCEPT !.pc = next, !.remaining = left, !.lag = 0]]
          /\ card' = card
    <3>1. PICK next \in {"missed", "verify", "alarm", "top"} :
            dev' = [dev EXCEPT ![e].pc = next, ![e].remaining = left, ![e].lag = 0]
      BY <1>5 DEF CheckingIn
    <3>2. card' = card BY <1>5 DEF CheckingIn
    <3> HIDE DEF left
    <3> QED BY <3>1, <3>2 DEF IInv
  <2> DEFINE after == [d EXCEPT !.pc = next, !.remaining = left, !.lag = 0]
  <2>2. d.state = "CHECKIN" BY <1>5 DEF CheckingIn
  <2>3. left \in Int BY <1>2 DEF Contexts
  <2> HIDE DEF left
  <2>4. after \in Good BY <1>2, <2>2, <2>3, Markers DEF Good, Contexts, Named, Blocked, Sections
  <2> HIDE DEF after
  <2> QED BY <2>1, <2>4, OneMachine DEF after
<1>6. CASE CountingDown(e)
  <2> DEFINE left == d.remaining - d.lag
  <2>1. PICK next \in {"top", "end", "finish"} :
          /\ dev' = [dev EXCEPT ![e] = [d EXCEPT !.remaining = left, !.lag = 0, !.pc = next]]
          /\ card' = card
    BY <1>6 DEF CountingDown, IInv
  <2> DEFINE after == [d EXCEPT !.remaining = left, !.lag = 0, !.pc = next]
  <2>2. d.state = "COUNTDOWN" BY <1>6 DEF CountingDown
  <2>3. left \in Int BY <1>2 DEF Contexts
  <2> HIDE DEF left
  <2>4. after \in Good BY <1>2, <2>2, <2>3, Markers DEF Good, Contexts, Named, Blocked, Sections
  <2> HIDE DEF after
  <2> QED BY <2>1, <2>4, OneMachine DEF after
<1>7. CASE CardGone(e)
  <2> DEFINE next == CASE d.pc = "alarm" -> "top" [] d.pc = "expel" -> "reset"
                       [] d.pc = "end" -> "finish"
             after == [d EXCEPT !.pc = next]
  <2>1. dev' = [dev EXCEPT ![e] = after] /\ card' = card BY <1>7 DEF CardGone, IInv
  <2>2. d.pc \in Blocked BY <1>7 DEF CardGone
  <2>3. next \in {"top", "reset", "finish"} /\ (next = "finish" => d.pc = "end")
    BY <2>2 DEF Blocked
  <2> HIDE DEF next
  <2>4. after \in Good BY <1>2, <2>3 DEF Good, Contexts, Named, Sections
  <2> HIDE DEF after
  <2> QED BY <2>1, <2>4, OneMachine
<1>8. CASE ReportMissed(e) \/ ReportFinished(e)
  <2>1. PICK op \in {"missed", "finished"} :
          ReportAndIdle(e, op) /\ card' = card /\ d.pc \in {"missed", "finish"}
    BY <1>8 DEF ReportMissed, ReportFinished
  <2> DEFINE after == [d EXCEPT !.queued = Event(op, d.current_user),
                                !.state = "IDLE", !.current_user = NoUser,
                                !.remaining = 0, !.verified = FALSE, !.pc = "top"]
  <2>2. dev' = [dev EXCEPT ![e] = after] BY <2>1 DEF ReportAndIdle, IInv
  <2>3. Event(op, d.current_user) \in Events
    <3>1. d.current_user \in Ids BY <1>2, <2>1 DEF Named, Contexts
    <3> QED BY <3>1, SomeEvent
  <2>4. after \in Good BY <1>2, <2>3, IdleAgain
  <2> HIDE DEF after
  <2> QED BY <2>1, <2>2, <2>4, OneMachine
<1>9. CASE ReportCheckedIn(e)
  <2> DEFINE after == [d EXCEPT !.queued = Event("checkedIn", d.current_user),
                                !.verified = TRUE, !.pc = "top"]
  <2>1. dev' = [dev EXCEPT ![e] = after] /\ card' = card /\ d.pc = "verify"
    BY <1>9 DEF ReportCheckedIn, IInv
  <2>2. Event("checkedIn", d.current_user) \in Events
    <3>1. d.current_user \in Ids BY <1>2, <2>1 DEF Named, Contexts
    <3> QED BY <3>1, SomeEvent
  <2>3. after \in Good BY <1>2, <2>2 DEF Good, Contexts, Named
  <2> HIDE DEF after
  <2> QED BY <2>1, <2>3, OneMachine
<1>10. CASE Reset(e)
  <2> DEFINE after == [d EXCEPT !.state = "IDLE", !.current_user = NoUser,
                                !.remaining = 0, !.stop = FALSE,
                                !.verified = FALSE, !.pc = "top"]
  <2>1. dev' = [dev EXCEPT ![e] = after] /\ card' = card BY <1>10 DEF Reset, IInv
  <2> DEFINE before == [d EXCEPT !.stop = FALSE]
  <2>2. before \in Contexts BY <1>2 DEF Contexts
  <2>3. before.queued \in Events BY <2>2 DEF Contexts
  <2> HIDE DEF before
  <2>4. [before EXCEPT !.queued = before.queued, !.state = "IDLE", !.current_user = NoUser,
                       !.remaining = 0, !.verified = FALSE, !.pc = "top"] \in Good
    BY <2>2, <2>3, IdleAgain
  <2>5. after = [before EXCEPT !.queued = before.queued, !.state = "IDLE",
                               !.current_user = NoUser, !.remaining = 0,
                               !.verified = FALSE, !.pc = "top"]
    BY <1>2 DEF Contexts, before
  <2>6. after \in Good BY <2>4, <2>5
  <2> HIDE DEF after
  <2> QED BY <2>1, <2>6, OneMachine
<1> QED BY <1>3, <1>4, <1>5, <1>6, <1>7, <1>8, <1>9, <1>10 DEF DeviceStep

(* The clock moves remaining and lag only. *)
LEMMA SecondGood == ASSUME IInv, Second PROVE IInv'
<1>1. ASSUME NEW d \in Good PROVE Older(d) \in Good
  <2>1. d \in Contexts /\ Named(d) /\ MAX_LAG \in Nat
    BY <1>1, DeviceAssumption DEF Good, DeviceAssumption
  <2>2. CASE d.pc # "top"
    <3> DEFINE lag == IF d.lag < MAX_LAG THEN d.lag + 1 ELSE d.lag
    <3>1. lag \in 0..MAX_LAG BY <2>1 DEF Contexts
    <3>2. Older(d) = [d EXCEPT !.lag = lag] BY <2>2 DEF Older
    <3> HIDE DEF lag
    <3> QED BY <2>1, <3>1, <3>2 DEF Good, Contexts, Named
  <2>3. CASE d.pc = "top" /\ (d.stop \/ d.state = "IDLE") BY <2>3 DEF Older
  <2>4. CASE d.pc = "top" /\ ~(d.stop \/ d.state = "IDLE")
    <3>1. Older(d) = [d EXCEPT !.remaining = d.remaining - 1] BY <2>4 DEF Older
    <3>2. d.remaining - 1 \in Int BY <2>1 DEF Contexts
    <3> QED BY <2>1, <3>1, <3>2 DEF Good, Contexts, Named
  <2> QED BY <2>2, <2>3, <2>4
<1> QED BY <1>1 DEF Second, IInv

LEMMA CardsGood == ASSUME IInv, NEW e \in Equips, CardStep(e) PROVE IInv'
BY DEF CardStep, Place, Remove, IInv

LEMMA InitGood == Init => IInv
<1>1. IdleDevice \in Good
  BY Markers DEF IdleDevice, Good, Contexts, Named
<1> QED BY <1>1 DEF Init, IInv

LEMMA NextGood == ASSUME IInv, [Next]_vars PROVE IInv'
<1>1. CASE UNCHANGED vars BY <1>1 DEF vars, IInv
<1> QED BY <1>1, SecondGood, LoopGood, AnyCommandGood, CardsGood DEF Next

-----------------------------------------------------------------------------
(* ctx, the events and the sections of the loop keep their types.           *)
THEOREM TypeCorrect == Spec => []TypeOK
<1>1. IInv => TypeOK
  <2>1. Good \subseteq Contexts BY DEF Good
  <2> QED BY <2>1 DEF IInv, TypeOK, Contexts
<1>2. IInv /\ [Next]_vars => IInv' BY NextGood
<1> QED BY <1>1, <1>2, InitGood, PTL DEF Spec

(* No command that lands between the decision of the loop and its report    *)
(* leaves it with nobody to report (device_main.py:357-450).                *)
THEOREM ReportsSomebody == Spec => []SomebodyReported
<1>1. IInv => SomebodyReported BY DEF IInv, Good, Named, SomebodyReported
<1>2. IInv /\ [Next]_vars => IInv' BY NextGood
<1> QED BY <1>1, <1>2, InitGood, PTL DEF Spec
=============================================================================
