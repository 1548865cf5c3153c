------------------------------ MODULE GymDevice ------------------------------
(***************************************************************************)
(* The equipment drivers of Final_project/integration/device_main.py, one  *)
(* process per machine with two threads that share ctx under ctx.lock: the *)
(* socket thread runs parse_command and flushes msg_queue, hardware_loop   *)
(* polls the card reader.  The loop takes a snapshot under the lock and    *)
(* acts on it later, so pc says which lock section its iteration is going  *)
(* to, and commands may arrive in between.                                 *)
(*                                                                         *)
(* remaining counts whole seconds.  A command arrives somewhere inside a   *)
(* second, so a count that is due at the end of a second may or may not be *)
(* due now.  lag is the dt of a loop that was held up by a card: it is     *)
(* subtracted at once in the next iteration, from whatever then counts.    *)
(*                                                                         *)
(* Of several events the server reads before a reply only the last counts  *)
(* (server.c:662), so msg_queue and the socket each keep their last event. *)
(* The 0.8 s for which a removed card still counts as present, the LED and *)
(* the display are left out; all Users have a bound card.                  *)
(***************************************************************************)
EXTENDS Integers

CONSTANTS Users, NoUser, Keyword, EQUIP_COUNT,
          Periods,    \* the seconds a server may ask for; the code takes any int
          MAX_LAG     \* bound: seconds of dt that are told apart

ASSUME DeviceAssumption ==
  /\ NoUser \notin Users /\ Keyword \notin Users /\ Keyword # NoUser
  /\ EQUIP_COUNT \in Nat \ {0} /\ MAX_LAG \in Nat /\ Periods \subseteq Int

VARIABLES
  dev,              \* per machine: DeviceContext, the socket and the loop
  card              \* per machine: whose card lies on its reader

vars == <<dev, card>>

Equips == 0..(EQUIP_COUNT - 1)
Ids == Users \cup {Keyword}
NoEvent == [op |-> "none", u |-> NoUser]
Event(op, u) == [op |-> op, u |-> u]
Events == {NoEvent} \cup [op : {"missed", "finished", "checkedIn"}, u : Ids]

Blocked == {"alarm", "expel", "end"}    \* loops that wait for the card to go
Sections == {"missed", "verify", "finish", "reset"}

IdleDevice ==
  [state |-> "IDLE", current_user |-> NoUser, remaining |-> 0, stop |-> FALSE,
   verified |-> FALSE, queued |-> NoEvent, sent |-> NoEvent, pc |-> "top", lag |-> 0]

Init == dev = [e \in Equips |-> IdleDevice] /\ card = [e \in Equips |-> NoUser]

-----------------------------------------------------------------------------
(* parse_command: ctx after a command, and what GETSTATUS replies. *)

StartCheckin(d, u, secs) ==
  [d EXCEPT !.state = "CHECKIN", !.current_user = u, !.remaining = secs,
            !.verified = FALSE, !.stop = FALSE]

(* Refused (ACK 0) unless the check-in was verified.  Without a user id the *)
(* word USAGE is read as the user id and the phase defaults to CHECKIN.     *)
StartUsage(d, u, secs) ==
  IF u = NoUser THEN StartCheckin(d, Keyword, secs)
  ELSE IF d.state = "CHECKIN" /\ d.verified
  THEN [d EXCEPT !.state = "COUNTDOWN", !.remaining = secs,
                 !.verified = FALSE, !.stop = FALSE]
  ELSE d

(* Operators whose name ends in _BUG are mutants: the definition after them *)
(* with a mistake in it, to show that a property would notice.              *)
StopState_BUG(d) == [d EXCEPT !.state = "STOPPED"]
StopAtOnce_BUG(d) ==
  [d EXCEPT !.state = "IDLE", !.current_user = NoUser, !.remaining = 0, !.verified = FALSE]

Stop(d) == [d EXCEPT !.stop = TRUE]

Reported(d) == d.state = "COUNTDOWN" \/ (d.state = "CHECKIN" /\ d.verified)
StatusUser(d) == IF Reported(d) THEN d.current_user ELSE NoUser
StatusLeft(d) == IF d.state = "COUNTDOWN" THEN d.remaining ELSE 0

(* The loop takes its snapshot of a stop in one lock section and reads       *)
(* checkin_verified in the next (lines 254 and 263).  A command between the  *)
(* two that clears the mark makes it drive out a card that it had just left  *)
(* alone; whatever else may fall between them falls as well before or after. *)
Misled(e, after) ==
  LET d == dev[e] IN
  /\ d.pc = "top" /\ d.stop /\ d.state # "IDLE" /\ card[e] # NoUser
  /\ d.verified /\ ~after.verified

(* The server reads every event flushed so far on its way to the reply.     *)
Command(e, after) ==
  LET replied == [after EXCEPT !.sent = NoEvent] IN
  \/ dev' = [dev EXCEPT ![e] = replied]
  \/ /\ Misled(e, after)
     /\ dev' = [dev EXCEPT ![e] = [replied EXCEPT !.lag = 0, !.pc = "expel"]]

(* The socket thread sends what msg_queue holds. *)
Flush(e) ==
  /\ dev[e].queued # NoEvent
  /\ dev' = [dev EXCEPT ![e].sent = dev[e].queued, ![e].queued = NoEvent]
  /\ UNCHANGED card

-----------------------------------------------------------------------------
(* hardware_loop *)

(* A check-in that is reported already is not queued a second time: only    *)
(* the last event counts, and it would be the same.                         *)
Waiting(d, event) == d.queued = event \/ (d.queued = NoEvent /\ d.sent = event)

Stopping_BUG(e) ==                          \* waits though the card is gone
  LET d == dev[e]  present == card[e] # NoUser IN
  /\ d.pc = "top" /\ d.stop /\ d.state # "IDLE"
  /\ dev' = [dev EXCEPT ![e].lag = 0,
       ![e].pc = IF d.verified THEN "top" ELSE IF present THEN "expel" ELSE "reset"]
  /\ UNCHANGED card

(* One iteration up to its lock section: poll, snapshot, stop check, and    *)
(* the read of checkin_verified when no command came in between.            *)
Stopping(e) ==
  LET d == dev[e]  present == card[e] # NoUser IN
  /\ d.pc = "top" /\ d.stop /\ d.state # "IDLE"
  /\ dev' = [dev EXCEPT ![e].lag = 0,
       ![e].pc = IF present /\ d.verified THEN "top"
                 ELSE IF present THEN "expel" ELSE "reset"]
  /\ UNCHANGED card

Idling(e) ==
  LET d == dev[e] IN
  /\ d.pc = "top" /\ d.state = "IDLE"
  /\ dev' = [dev EXCEPT ![e].lag = 0,
                        ![e].pc = IF card[e] # NoUser THEN "alarm" ELSE "top"]
  /\ UNCHANGED card

CheckingIn(e) ==
  LET d == dev[e]  c == card[e]
      left == IF d.remaining > d.lag THEN d.remaining - d.lag ELSE 0
  IN
  /\ d.pc = "top" /\ ~d.stop /\ d.state = "CHECKIN"
  /\ \E next \in {"missed", "verify", "alarm", "top"} :
       /\ CASE next = "missed" -> left <= 1
            [] next = "verify" -> left >= 1 /\ c # NoUser /\ c = d.current_user
            [] next = "alarm" -> left >= 1 /\ c # NoUser /\ d.current_user \in Users \ {c}
            [] next = "top" -> left >= 1 /\ (c = NoUser \/ d.current_user \notin Users)
       /\ next = "verify" => ~(d.verified /\ d.lag = 0 /\ Waiting(d, Event("checkedIn", c)))
       /\ dev' = [dev EXCEPT ![e].pc = next, ![e].remaining = left, ![e].lag = 0]
  /\ UNCHANGED card

CountingDown(e) ==
  LET d == dev[e]  present == card[e] # NoUser
      left == d.remaining - d.lag
  IN
  /\ d.pc = "top" /\ ~d.stop /\ d.state = "COUNTDOWN"
  /\ \E time_up \in BOOLEAN :
       /\ time_up => left <= 0
       /\ ~time_up => left >= 0
       /\ dev' = [dev EXCEPT ![e].remaining = left, ![e].lag = 0,
            ![e].pc = IF ~time_up /\ present THEN "top"
                      ELSE IF present THEN "end" ELSE "finish"]
  /\ UNCHANGED card

(* The card is gone: a waiting loop ends. *)
CardGone(e) ==
  /\ dev[e].pc \in Blocked /\ card[e] = NoUser
  /\ dev' = [dev EXCEPT ![e].pc = CASE @ = "alarm" -> "top" [] @ = "expel" -> "reset"
                                    [] @ = "end" -> "finish"]
  /\ UNCHANGED card

ReportFinished_BUG(e) ==                    \* stays in COUNTDOWN
  /\ dev[e].pc = "finish"
  /\ dev' = [dev EXCEPT ![e].queued = Event("finished", dev[e].current_user),
                        ![e].remaining = 0, ![e].verified = FALSE, ![e].pc = "top"]
  /\ UNCHANGED card

(* The lock sections that end an iteration. *)
ReportAndIdle(e, op) ==
  dev' = [dev EXCEPT ![e].queued = Event(op, dev[e].current_user),
                     ![e].state = "IDLE", ![e].current_user = NoUser,
                     ![e].remaining = 0, ![e].verified = FALSE, ![e].pc = "top"]

ReportMissed(e) == dev[e].pc = "missed" /\ ReportAndIdle(e, "missed") /\ UNCHANGED card
ReportFinished(e) == dev[e].pc = "finish" /\ ReportAndIdle(e, "finished") /\ UNCHANGED card

ReportCheckedIn(e) ==
  /\ dev[e].pc = "verify"
  /\ dev' = [dev EXCEPT ![e].queued = Event("checkedIn", dev[e].current_user),
                        ![e].verified = TRUE, ![e].pc = "top"]
  /\ UNCHANGED card

Reset(e) ==
  /\ dev[e].pc = "reset"
  /\ dev' = [dev EXCEPT ![e].state = "IDLE", ![e].current_user = NoUser,
                        ![e].remaining = 0, ![e].stop = FALSE,
                        ![e].verified = FALSE, ![e].pc = "top"]
  /\ UNCHANGED card

DeviceStep(e) ==
  \/ Flush(e) \/ Stopping(e) \/ Idling(e) \/ CheckingIn(e) \/ CountingDown(e)
  \/ CardGone(e) \/ ReportMissed(e) \/ ReportFinished(e) \/ ReportCheckedIn(e) \/ Reset(e)

-----------------------------------------------------------------------------
(* People: one card each, on one reader at a time. *)

Place(e, u) ==
  /\ card[e] = NoUser /\ \A d \in Equips : card[d] # u
  /\ card' = [card EXCEPT ![e] = u]
  /\ UNCHANGED dev

Remove(e) ==
  /\ card[e] # NoUser
  /\ card' = [card EXCEPT ![e] = NoUser]
  /\ UNCHANGED dev

(* A second passes.  The threads poll every 50 and 100 ms, so by then the   *)
(* loop has done all it could do and msg_queue has been sent.               *)
Settled(e) ==
  LET d == dev[e]  c == card[e] IN
  /\ d.queued = NoEvent
  /\ \/ d.pc \in Blocked /\ c # NoUser
     \/ /\ d.pc = "top" /\ d.lag = 0
        /\ CASE d.stop /\ d.state # "IDLE" -> d.verified /\ c # NoUser
             [] d.state = "IDLE" -> c = NoUser
             [] ~d.stop /\ d.state = "CHECKIN" ->
                  /\ d.remaining >= 1
                  /\ \/ c = NoUser \/ d.current_user \notin Users
                     \/ c = d.current_user /\ d.verified /\ d.sent = Event("checkedIn", c)
             [] ~d.stop /\ d.state = "COUNTDOWN" -> c # NoUser /\ d.remaining >= 0

Older(d) ==
  IF d.pc # "top"
  THEN [d EXCEPT !.lag = IF @ < MAX_LAG THEN @ + 1 ELSE @]
  ELSE IF d.stop \/ d.state = "IDLE" THEN d
  ELSE [d EXCEPT !.remaining = @ - 1]

Second ==
  /\ \A e \in Equips : Settled(e)
  /\ dev' = [e \in Equips |-> Older(dev[e])]
  /\ UNCHANGED card

-----------------------------------------------------------------------------
(* The drivers by themselves: the server sends any command at any time.     *)

AnyCommand(e) ==
  LET d == dev[e] IN
  /\ \/ \E u \in Ids, secs \in Periods : Command(e, StartCheckin(d, u, secs))
     \/ \E u \in Ids \cup {NoUser}, secs \in Periods : Command(e, StartUsage(d, u, secs))
     \/ Command(e, Stop(d))
     \/ Command(e, d)                                           \* GETSTATUS
  /\ UNCHANGED card

CardStep(e) == Remove(e) \/ \E u \in Users : Place(e, u)

Next == Second \/ \E e \in Equips : DeviceStep(e) \/ AnyCommand(e) \/ CardStep(e)

Spec == Init /\ [][Next]_vars

(* The loop runs many times a second, and a card that is taken away is gone *)
(* for longer than one round: hence strong fairness.  No card stays for good.*)
FairSpec ==
  Spec /\ WF_vars(Second) /\ \A e \in Equips : SF_vars(DeviceStep(e)) /\ SF_vars(Remove(e))

-----------------------------------------------------------------------------
(* Properties. *)

(* The context, the events under way and the section the loop is in.        *)
TypeOK ==
  /\ dev \in [Equips ->
       [state : {"IDLE", "CHECKIN", "COUNTDOWN"}, current_user : Ids \cup {NoUser},
        remaining : Int, stop : BOOLEAN, verified : BOOLEAN,
        queued : Events, sent : Events,
        pc : {"top"} \cup Blocked \cup Sections, lag : 0..MAX_LAG]]
  /\ card \in [Equips -> Users \cup {NoUser}]

(* The loop decides to report first and reads ctx.current_user later, in    *)
(* another lock section: no command in between may empty it, or the server  *)
(* would get a USER_MISSED, USER_FINISHED or USER_CHECKEDIN of "NONE".      *)
SomebodyReported ==
  \A e \in Equips :
    dev[e].pc \in {"missed", "verify", "end", "finish"} => dev[e].current_user # NoUser

(* STOPCOUNTDOWN is heeded: the machine becomes idle, unless the server     *)
(* starts a new count first.                                                *)
StopHeeded ==
  \A e \in Equips :
    dev[e].stop /\ dev[e].state # "IDLE" ~> ~dev[e].stop \/ dev[e].state = "IDLE"

(* Every use comes to an end, whatever the server sends and whether or not  *)
(* a mark of an earlier check-in is left over in checkin_verified.          *)
UsageOver ==
  \A e \in Equips : dev[e].state = "COUNTDOWN" ~> dev[e].state # "COUNTDOWN"
=============================================================================
