------------------------------ MODULE GymSystem ------------------------------
(***************************************************************************)
(* The server of GymServer joined to the drivers of GymDevice: a driver    *)
(* call on top of the server's agenda is answered by the machine's own     *)
(* parse_command, with the last event its socket thread has flushed, and   *)
(* one second is the same second for the timer thread and the drivers.     *)
(*                                                                         *)
(* Between two driver calls a handler touches only the server's data, so   *)
(* drivers and people move only when g_lock is free or its holder waits    *)
(* for a reply.                                                            *)
(***************************************************************************)
EXTENDS Integers, SequencesExt

CONSTANTS Users, NoUser, ByRef, Keyword,
  EQUIP_COUNT, MAX_CLIENTS, MAX_QUEUE,
  CHECKIN_WINDOW, QUICK_CHECKIN_WINDOW, USAGE_TIME, BAN_TIME,
  CONTINUE_DECISION_WINDOW, MAX_LAG,
  MAX_MOVES         \* bound: what people do, with cards and clients, in a second

ASSUME SystemAssumption ==
  /\ {EQUIP_COUNT, MAX_CLIENTS} \subseteq Nat \ {0}
  /\ {MAX_QUEUE, CHECKIN_WINDOW, QUICK_CHECKIN_WINDOW, USAGE_TIME, BAN_TIME,
      CONTINUE_DECISION_WINDOW, MAX_LAG, MAX_MOVES} \subseteq Nat
  /\ {NoUser, ByRef, Keyword} \cap Users = {}
  /\ NoUser # ByRef /\ NoUser # Keyword /\ ByRef # Keyword

VARIABLES eq, client, agenda, out, dev, card,
  moves             \* what they did in this second

vars == <<eq, client, agenda, out, dev, card, moves>>

Server == INSTANCE GymServer WITH Replies <- Int, MAX_NEST <- -1
Device == INSTANCE GymDevice WITH Periods <- Int

Equips == Device!Equips
Free == agenda = <<>>
Calling == ~Free /\ Head(agenda).op \in Server!CallOps
Reachable(e) == Free \/ (Calling /\ Head(agenda).e = e)

Init == Server!Init /\ Device!Init /\ moves = 0

(* A driver call: the command reaches parse_command, the reply comes back.  *)
DriverCall ==
  LET t == Head(agenda)  d == dev[t.e] IN
  /\ Calling
  /\ Server!Answer(d.sent, Device!StatusUser(d), Device!StatusLeft(d))
  /\ Device!Command(t.e,
       CASE t.op = "start" -> Device!StartCheckin(d, t.u, t.n)
         [] t.op = "startUsage" -> Device!StartUsage(d, t.u, t.n)
         [] t.op = "stop" -> Device!Stop(d)
         [] OTHER -> d)
  /\ UNCHANGED <<card, moves>>

HandlerStep == Server!HandlerStep /\ UNCHANGED <<dev, card, moves>>

DriverStep(e) ==
  /\ Reachable(e)
  /\ Device!DeviceStep(e)
  /\ UNCHANGED <<eq, client, agenda, out, moves>>

(* What goes on by itself within a second. *)
SystemStep == HandlerStep \/ DriverCall \/ \E e \in Equips : DriverStep(e)

Second == Server!TimerRound /\ Device!Second /\ moves' = 0

Move == moves < MAX_MOVES /\ moves' = moves + 1
Connect == Move /\ Server!ConnectionStep /\ UNCHANGED <<dev, card>>
Command == Move /\ Server!CommandStep /\ UNCHANGED <<dev, card>>
PutCard(e) ==
  /\ Move /\ Reachable(e) /\ \E u \in Users : Device!Place(e, u)
  /\ UNCHANGED <<eq, client, agenda, out>>
TakeCard(e) ==
  /\ Move /\ Reachable(e) /\ Device!Remove(e)
  /\ UNCHANGED <<eq, client, agenda, out>>

SessionStep ==
  SystemStep \/ Second \/ Command \/ \E e \in Equips : PutCard(e) \/ TakeCard(e)

Next == SessionStep \/ Connect

Spec == Init /\ [][Next]_vars

(* Every user logged in, in one slot each, and nobody disconnects: the      *)
(* smaller state space for what does not depend on connections.             *)
LoggedIn ==
  /\ Device!Init /\ moves = 0
  /\ eq = [e \in Equips |-> Server!IdleEquipment] /\ agenda = <<>> /\ out = Server!Silent
  /\ client \in [Server!Slots -> [role : {"USER"}, user_id : Users, ban_end : {0}]]
  /\ \A s, t \in Server!Slots : client[s].user_id = client[t].user_id => s = t

SpecLoggedIn == LoggedIn /\ [][SessionStep]_vars

(* The threads run and the clock goes on; clients and cards may rest.       *)
Fairness == WF_vars(SystemStep) /\ WF_vars(Second)
FairSpecLoggedIn == SpecLoggedIn /\ Fairness
FairSpec == Spec /\ Fairness

(* No card lies on a reader for good: an assumption of three properties.    *)
CardsGo == \A e \in Equips : SF_vars(TakeCard(e))

-----------------------------------------------------------------------------
(* Properties. *)

TypeOK == Server!TypeOK /\ Device!TypeOK /\ moves \in 0..MAX_MOVES

Awaited(e, u) == eq[e].state = "WAITING_CHECKIN" /\ eq[e].wait_user = u
Holds(u) == \E e \in Equips : Server!InEquipment(e, u)

(* Every handler comes to its end and gives g_lock back, although a driver  *)
(* call inside it may start the handler of an event, which calls again.     *)
LockReleased == []<>Free

(* Nobody is awaited for ever: if the driver's USER_MISSED is lost or       *)
(* overwritten, update_equipment_state's own deadline ends the wait.        *)
WaitEnds == \A e \in Equips, u \in Users : Awaited(e, u) ~> ~Awaited(e, u)

(* "Time Up: release_usage_and_promote" (README.md:156): every use ends, if *)
(* cards are taken away.  While one is left lying the driver's count stands *)
(* still, and the server follows it (server.c:783-785).                     *)
UseEnds ==
  CardsGo => \A e \in Equips : eq[e].state = "IN_USE" ~> eq[e].state # "IN_USE"

(* Whoever queues leaves the queue in the end, one way or another.          *)
QueueMoves ==
  CardsGo => \A e \in Equips, u \in Users :
    Contains(eq[e].queue, u) ~> ~Contains(eq[e].queue, u)

(* What a user who has left still holds, because a late event gave it to    *)
(* him after cleanup_client took it away, is freed unless he comes back.    *)
LeftBehind ==
  CardsGo => \A u \in Users :
    Holds(u) /\ ~Server!Connected(u) ~> ~Holds(u) \/ Server!Connected(u)

-----------------------------------------------------------------------------
(* What the documents say and the code does not do: each is violated.       *)

(* CHECKIN_OK tells a user that the card was accepted and the use begins    *)
(* (README.md:116).                                                         *)
CheckinIsTold ==
  [][\A e \in Equips :
       eq[e].state # "IN_USE" /\ eq'[e].state = "IN_USE" /\ Server!Connected(eq'[e].use_user)
         => out' = Server!Line("CHECKIN_OK", e, eq'[e].use_user)]_vars
=============================================================================
