------------------------------ MODULE GymServer ------------------------------
(***************************************************************************)
(* The reservation server of Final_project/integration/server.c: equipment *)
(* records, client slots, and the handlers that run under g_lock.          *)
(*                                                                         *)
(* A handler is not atomic.  equip_start_countdown, equip_stop_countdown   *)
(* and equip_get_status block for the driver's reply, and an event the     *)
(* driver pushed before that reply is handled inside the call, in the      *)
(* middle of the calling handler.  The call stack of the thread that holds *)
(* g_lock is therefore a variable: agenda is the sequence of tasks still   *)
(* to run, the innermost first, and g_lock is free when it is empty.       *)
(*                                                                         *)
(* A deadline is kept as the number of seconds left.  Zero is "now or      *)
(* earlier", all that ">=" asks; wait_deadline, compared with ">", goes on *)
(* to Past.  memset and "= 0" leave a deadline in the past.                *)
(*                                                                         *)
(* Here the driver is any driver: it answers anything and pushes any event *)
(* (GymSystem puts the real one in its place).  Left out: losing a driver  *)
(* connection, the bytes of lines, refused commands (they change nothing), *)
(* and the empty user id.                                                  *)
(***************************************************************************)
EXTENDS Integers, FiniteSets, SequencesExt

CONSTANTS
  Users,            \* user ids that log in
  NoUser,           \* the empty user id, and the driver's "NONE"
  ByRef,            \* a user_id argument that points at eq->wait_user itself
  Keyword,          \* the word USAGE where the driver expects a user id
  EQUIP_COUNT, MAX_CLIENTS, MAX_QUEUE,
  CHECKIN_WINDOW, QUICK_CHECKIN_WINDOW, USAGE_TIME, BAN_TIME,
  CONTINUE_DECISION_WINDOW,
  Replies,          \* the seconds a driver may answer; below zero all are alike
  MAX_NEST          \* bound: no event arrives in a call while more tasks are
                    \* pending, the call included

Unbounded == -1     \* a MAX_NEST that is no bound, as in the code

ASSUME SizeAssumption ==
  /\ EQUIP_COUNT \in Nat \ {0} /\ MAX_CLIENTS \in Nat \ {0}
  /\ MAX_QUEUE \in Nat /\ MAX_NEST \in Nat \cup {Unbounded}
ASSUME ReplyAssumption == Replies \subseteq Int
ASSUME TimeAssumption ==
  {CHECKIN_WINDOW, QUICK_CHECKIN_WINDOW, USAGE_TIME, BAN_TIME,
   CONTINUE_DECISION_WINDOW} \subseteq Nat
ASSUME NameAssumption ==
  /\ NoUser \notin Users /\ ByRef \notin Users /\ Keyword \notin Users
  /\ NoUser # ByRef /\ NoUser # Keyword /\ ByRef # Keyword

VARIABLES
  eq,               \* g_eqs
  client,           \* g_clients; role FREE is fd == 0
  agenda,           \* what the holder of g_lock still has to run
  out               \* the line the last step sent to a user's client

vars == <<eq, client, agenda, out>>

Equips == 0..(EQUIP_COUNT - 1)
Slots == 1..MAX_CLIENTS
Ids == Users \cup {Keyword}
Past == -1
Seconds == Nat \cup {Past}

(* Operators whose name ends in _BUG are mutants: the definition after them *)
(* with a mistake in it, to show that a property would notice.              *)
Down(left, floor) == IF left > floor THEN left - 1 ELSE floor

(***************************************************************************)
(* Tasks.  The first six are calls of the driver; the next three are the   *)
(* cases of process_driver_event_if_pending; the rest are what a function  *)
(* still does after a call returned, or a function called from a loop.     *)
(***************************************************************************)
CallOps == {"start", "startUsage", "stop", "pollWait", "pollUse", "query"}
EventOps == {"missed", "finished", "checkedIn"}
GiveOps == {"giveTurn", "decline", "banStopped", "quickStopped", "released",
            "cancelled", "dupStopped"}
RestOps == {"dup", "inUse", "waitPolled", "usePolled", "update", "updateUse",
            "leaveUse", "leaveWait", "leaveQueue", "close"}
TellOps == {"YOUR_TURN", "CONTINUE_YES", "RESERVE_FIRST", "CANCEL_OK"}
Ops == CallOps \cup EventOps \cup GiveOps \cup RestOps \cup TellOps

Task(op, e, u, n) == [op |-> op, e |-> e, u |-> u, n |-> n]
AliasOps == {"dup", "inUse", "quickStopped"}
Tasks ==                                    \* a check-in is for somebody
  [op : {"start"}, e : Equips, u : Ids, n : Int]
    \cup [op : Ops \ {"start"}, e : Equips, u : Ids \cup {NoUser}, n : Int]
    \cup [op : AliasOps, e : Equips, u : {ByRef}, n : Int]

Lines == TellOps \cup {"none", "RESERVE_QUEUE", "CHECKIN_OK", "BANNED",
                       "REQUEUE_LAST", "CONTINUE_PROMPT", "CONTINUE_NO"}
Line(kind, e, u) == [kind |-> kind, e |-> e, u |-> u]
Silent == Line("none", 0, NoUser)

FreeSlot == [role |-> "FREE", user_id |-> NoUser, ban_end |-> 0]

IdleEquipment ==
  [state |-> "IDLE", wait_user |-> NoUser, wait_deadline |-> Past,
   use_user |-> NoUser, use_end_time |-> 0, queue |-> <<>>,
   continue_user |-> NoUser, continue_deadline |-> 0,
   wait_quick_checkin |-> FALSE]

Init ==
  /\ eq = [e \in Equips |-> IdleEquipment]
  /\ client = [s \in Slots |-> FreeSlot]
  /\ agenda = <<>>
  /\ out = Silent

-----------------------------------------------------------------------------
(* Helpers. *)

Free == agenda = <<>>
At(op) == ~Free /\ Head(agenda).op = op
Top == Head(agenda)
Run(tasks) == agenda' = tasks \o Tail(agenda)
Becomes(e, record) == eq' = [eq EXCEPT ![e] = record]

(* find_client_by_user: the lowest of u's slots. *)
FirstSlot(u, s) ==
  /\ client[s].role = "USER" /\ client[s].user_id = u
  /\ \A t \in 1..(s - 1) : ~(client[t].role = "USER" /\ client[t].user_id = u)

(* send_to_user: nothing is sent when no such user is connected. *)
Connected(u) == \E s \in Slots : client[s].role = "USER" /\ client[s].user_id = u
Tell(kind, e, u) == out' = IF Connected(u) THEN Line(kind, e, u) ELSE Silent

(* The string a user_id argument denotes now: a pointer at eq->wait_user   *)
(* reads as whatever that buffer holds at the time of the access.          *)
Deref(u, e) == IF u = ByRef THEN eq[e].wait_user ELSE u

InEquipment(e, u) ==
  \/ eq[e].state = "WAITING_CHECKIN" /\ eq[e].wait_user = u
  \/ eq[e].state = "IN_USE" /\ eq[e].use_user = u
  \/ Contains(eq[e].queue, u)

CurrentlyUsing(u) == \E e \in Equips : eq[e].state = "IN_USE" /\ eq[e].use_user = u

(* enqueue_user: refused when the queue is full. *)
Enqueue(queue, u) == IF Len(queue) < MAX_QUEUE THEN Append(queue, u) ELSE queue

(* release_usage_and_promote up to its driver call. *)
Release(e, prompt) ==
  IF eq[e].state = "IN_USE"
  THEN <<Task("stop", e, NoUser, 0), Task("released", e, eq[e].use_user, prompt)>>
  ELSE <<>>

-----------------------------------------------------------------------------
(* Commands of clients: each starts a handler and so needs g_lock free. *)

(* The accept loop of main: the lowest free slot, or "Server full". *)
Accept(s) ==
  /\ Free
  /\ client[s].role = "FREE" /\ \A t \in 1..(s - 1) : client[t].role # "FREE"
  /\ client' = [client EXCEPT ![s] = [FreeSlot EXCEPT !.role = "NONE"]]
  /\ out' = Silent
  /\ UNCHANGED <<eq, agenda>>

(* The first line of a connection. *)
Login(s, u) ==
  /\ Free /\ client[s].role = "NONE"
  /\ client' = [client EXCEPT ![s].role = "USER", ![s].user_id = u]
  /\ out' = Silent
  /\ UNCHANGED <<eq, agenda>>

LoginDriver(s) ==
  /\ Free /\ client[s].role = "NONE"
  /\ client' = [client EXCEPT ![s].role = "DRIVER"]
  /\ out' = Silent
  /\ UNCHANGED <<eq, agenda>>

(* cleanup_client, for a closed socket or an INVALID_FIRST_LINE.  Its loop *)
(* visits the machines in order and does three things at each.             *)
CleanupSteps(u) ==
  [i \in 1..(3 * EQUIP_COUNT) |->
     Task(CASE i % 3 = 1 -> "leaveUse" [] i % 3 = 2 -> "leaveWait"
            [] OTHER -> "leaveQueue", (i - 1) \div 3, u, 0)]

Disconnect(s) ==
  /\ Free /\ client[s].role # "FREE"
  /\ agenda' = (IF client[s].role = "USER" THEN CleanupSteps(client[s].user_id)
                                           ELSE <<>>) \o <<Task("close", 0, NoUser, s)>>
  /\ out' = Silent
  /\ UNCHANGED <<eq, client>>

(* RESERVE of a user who is not banned, is new at e, and holds fewer        *)
(* machines than there are; an idle machine is his at once.                 *)
MayReserve(s, e) ==
  LET u == client[s].user_id IN
  /\ Free /\ client[s].role = "USER"
  /\ client[s].ban_end = 0
  /\ ~InEquipment(e, u)
  /\ Cardinality({d \in Equips : InEquipment(d, u)}) < EQUIP_COUNT

ReserveFirst(s, e) ==
  LET u == client[s].user_id IN
  /\ MayReserve(s, e)
  /\ eq[e].state = "IDLE"
  /\ Becomes(e, [eq[e] EXCEPT !.state = "WAITING_CHECKIN", !.wait_user = u,
       !.wait_deadline = CHECKIN_WINDOW, !.queue = <<>>])
  /\ agenda' = <<Task("start", e, u, CHECKIN_WINDOW), Task("RESERVE_FIRST", e, u, 0)>>
  /\ out' = Silent
  /\ UNCHANGED client

ReserveQueue_BUG(s, e) ==                   \* leaves the question open
  LET u == client[s].user_id IN
  /\ MayReserve(s, e)
  /\ eq[e].state # "IDLE" /\ Len(eq[e].queue) < MAX_QUEUE
  /\ Becomes(e, [eq[e] EXCEPT !.queue = Enqueue(@, u)])
  /\ agenda' = <<>>
  /\ out' = Line("RESERVE_QUEUE", e, u)
  /\ UNCHANGED client

ReserveQueue(s, e) ==
  LET u == client[s].user_id IN
  /\ MayReserve(s, e)
  /\ eq[e].state # "IDLE" /\ Len(eq[e].queue) < MAX_QUEUE
  /\ Becomes(e, [eq[e] EXCEPT !.queue = Enqueue(@, u)])
  /\ agenda' = IF eq[e].state = "WAITING_CONTINUE" /\ eq[e].continue_user # NoUser
               THEN <<Task("decline", e, eq[e].continue_user, 0)>> ELSE <<>>
  /\ out' = Line("RESERVE_QUEUE", e, u)
  /\ UNCHANGED client

CancelWait(s, e) ==
  LET u == client[s].user_id IN
  /\ Free /\ client[s].role = "USER"
  /\ eq[e].state = "WAITING_CHECKIN" /\ eq[e].wait_user = u
  /\ agenda' = <<Task("stop", e, NoUser, 0), Task("cancelled", e, u, 0)>>
  /\ out' = Silent
  /\ UNCHANGED <<eq, client>>

(* remove_from_queue drops the first entry that is u. *)
FirstAt(queue, u, i) == queue[i] = u /\ \A j \in 1..(i - 1) : queue[j] # u

CancelQueued(s, e) ==
  LET u == client[s].user_id IN
  /\ Free /\ client[s].role = "USER"
  /\ ~(eq[e].state = "WAITING_CHECKIN" /\ eq[e].wait_user = u)
  /\ \E i \in 1..Len(eq[e].queue) :
       /\ FirstAt(eq[e].queue, u, i)
       /\ Becomes(e, [eq[e] EXCEPT !.queue = RemoveAt(@, i)])
  /\ out' = Line("CANCEL_OK", e, u)
  /\ UNCHANGED <<client, agenda>>

(* QUERY_EQUIP changes nothing itself, but it calls the driver. *)
QueryEquip(s, e) ==
  /\ Free /\ client[s].role = "USER"
  /\ agenda' = <<Task("query", e, NoUser, 0)>>
  /\ out' = Silent
  /\ UNCHANGED <<eq, client>>

(* CONTINUE_RESPONSE <e> 1: start_continue_checkin up to its driver call. *)
ContinueYes(s, e) ==
  LET u == client[s].user_id IN
  /\ Free /\ client[s].role = "USER"
  /\ eq[e].state = "WAITING_CONTINUE" /\ eq[e].continue_user = u
  /\ Becomes(e, [eq[e] EXCEPT !.state = "WAITING_CHECKIN", !.wait_user = u,
       !.wait_deadline = CHECKIN_WINDOW, !.continue_user = NoUser,
       !.continue_deadline = 0])
  /\ agenda' = <<Task("start", e, u, CHECKIN_WINDOW), Task("CONTINUE_YES", e, u, 0)>>
  /\ out' = Silent
  /\ UNCHANGED client

(* CONTINUE_RESPONSE <e> 0 *)
ContinueNo(s, e) ==
  /\ Free /\ client[s].role = "USER"
  /\ eq[e].state = "WAITING_CONTINUE" /\ eq[e].continue_user = client[s].user_id
  /\ agenda' = <<Task("decline", e, client[s].user_id, 0)>>
  /\ out' = Silent
  /\ UNCHANGED <<eq, client>>

ConnectionStep ==
  \E s \in Slots :
    Accept(s) \/ LoginDriver(s) \/ Disconnect(s) \/ \E u \in Users : Login(s, u)

CommandStep ==
  \E s \in Slots, e \in Equips :
    \/ ReserveFirst(s, e) \/ ReserveQueue(s, e) \/ CancelWait(s, e) \/ CancelQueued(s, e)
    \/ QueryEquip(s, e) \/ ContinueYes(s, e) \/ ContinueNo(s, e)

-----------------------------------------------------------------------------
(* Tasks of the handlers. *)

(* give_turn_to_next; prompt and u are for release_usage_and_promote, which *)
(* prompts the user who finished when nobody is queued.                    *)
GiveTurnQueued ==
  LET e == Top.e  u == Head(eq[e].queue)
      quick == CurrentlyUsing(u)
      secs == IF quick THEN QUICK_CHECKIN_WINDOW ELSE CHECKIN_WINDOW
  IN
  /\ At("giveTurn") /\ eq[e].queue # <<>>
  /\ Becomes(e, [eq[e] EXCEPT !.state = "WAITING_CHECKIN", !.wait_user = u,
       !.wait_deadline = secs, !.wait_quick_checkin = quick, !.queue = Tail(@)])
  /\ Run(<<Task("start", e, u, secs), Task("YOUR_TURN", e, u, 0)>>)
  /\ out' = Silent
  /\ UNCHANGED client

GiveTurnNobody ==
  LET e == Top.e  prompt == Top.n = 1 /\ Top.u # NoUser IN
  /\ At("giveTurn") /\ eq[e].queue = <<>>
  /\ Becomes(e, [eq[e] EXCEPT
       !.state = IF prompt THEN "WAITING_CONTINUE" ELSE "IDLE",
       !.wait_user = NoUser, !.wait_deadline = Past, !.wait_quick_checkin = FALSE,
       !.continue_user = IF prompt THEN Top.u ELSE @,
       !.continue_deadline = IF prompt THEN CONTINUE_DECISION_WINDOW ELSE @])
  /\ IF prompt THEN Tell("CONTINUE_PROMPT", e, Top.u) ELSE out' = Silent
  /\ Run(<<>>)
  /\ UNCHANGED client

(* A line sent after the call before it returned. *)
Say ==
  /\ ~Free /\ Top.op \in TellOps
  /\ Tell(Top.op, Top.e, Top.u)
  /\ Run(<<>>)
  /\ UNCHANGED <<eq, client>>

Decline_BUG ==                              \* promotes nobody
  LET e == Top.e IN
  /\ At("decline")
  /\ Becomes(e, [eq[e] EXCEPT !.state = "IDLE", !.continue_user = NoUser,
       !.continue_deadline = 0])
  /\ Tell("CONTINUE_NO", e, Top.u)
  /\ Run(<<>>)
  /\ UNCHANGED client

(* decline_continue; u is NoUser when update_equipment_state passed        *)
(* eq->continue_user, which clear_continue_prompt has emptied.             *)
Decline ==
  LET e == Top.e IN
  /\ At("decline")
  /\ Becomes(e, [eq[e] EXCEPT !.state = "IDLE", !.continue_user = NoUser,
       !.continue_deadline = 0])
  /\ Tell("CONTINUE_NO", e, Top.u)
  /\ Run(<<Task("giveTurn", e, NoUser, 0)>>)
  /\ UNCHANGED client

(* ban_user_for_missing, before and after its driver call. *)
Ban(e, u, after) ==
  /\ client' = [s \in Slots |-> IF FirstSlot(u, s)
                                THEN [client[s] EXCEPT !.ban_end = BAN_TIME]
                                ELSE client[s]]
  /\ Tell("BANNED", e, u)
  /\ Becomes(e, [eq[e] EXCEPT !.state = "IDLE", !.wait_user = NoUser,
       !.wait_deadline = Past, !.wait_quick_checkin = FALSE])
  /\ Run(<<Task("stop", e, NoUser, 0), Task("banStopped", e, u, 0)>> \o after)

BanStopped_BUG ==                           \* promotes nobody
  LET e == Top.e IN
  /\ At("banStopped")
  /\ Becomes(e, [eq[e] EXCEPT !.continue_user = NoUser, !.continue_deadline = 0])
  /\ Run(<<>>)
  /\ out' = Silent
  /\ UNCHANGED client

BanStopped ==
  LET e == Top.e IN
  /\ At("banStopped")
  /\ Becomes(e, [eq[e] EXCEPT !.continue_user = NoUser, !.continue_deadline = 0])
  /\ Run(<<Task("giveTurn", e, NoUser, 0)>>)
  /\ out' = Silent
  /\ UNCHANGED client

(* handle_quick_checkin_timeout, before and after its driver call. *)
QuickTimeout(e, u, after) ==
  /\ Becomes(e, [eq[e] EXCEPT !.wait_quick_checkin = FALSE, !.wait_user = NoUser,
       !.wait_deadline = Past])
  /\ Run(<<Task("stop", e, NoUser, 0), Task("quickStopped", e, u, 0)>> \o after)
  /\ out' = Silent
  /\ UNCHANGED client

QuickStopped ==
  LET e == Top.e  u == Deref(Top.u, e)
      room == u # NoUser /\ Len(eq[e].queue) < MAX_QUEUE
  IN
  /\ At("quickStopped")
  /\ Becomes(e, [eq[e] EXCEPT !.queue = IF u # NoUser THEN Enqueue(@, u) ELSE @])
  /\ IF room THEN Tell("REQUEUE_LAST", e, u) ELSE out' = Silent
  /\ Run(<<Task("giveTurn", e, NoUser, 0)>>)
  /\ UNCHANGED client

(* mark_user_checked_in up to the loop of cancel_duplicate_waiting_checkin, *)
(* one round of that loop, what the round does after its driver call, and   *)
(* the rest of mark_user_checked_in.                                        *)
MarkSteps(e, u) ==
  [i \in 1..EQUIP_COUNT |-> Task("dup", i - 1, u, e)] \o <<Task("inUse", e, u, 0)>>

Dup ==
  LET i == Top.e  active == Top.n IN
  /\ At("dup")
  /\ Run(IF /\ i # active /\ eq[i].state = "WAITING_CHECKIN"
            /\ eq[i].wait_user = Deref(Top.u, active)
         THEN <<Task("stop", i, NoUser, 0), Task("dupStopped", i, NoUser, 0)>>
         ELSE <<>>)
  /\ out' = Silent
  /\ UNCHANGED <<eq, client>>

DupStopped ==
  LET i == Top.e IN
  /\ At("dupStopped")
  /\ Becomes(i, [eq[i] EXCEPT !.state = "IDLE", !.wait_user = NoUser,
       !.wait_deadline = Past])
  /\ Run(<<Task("giveTurn", i, NoUser, 0)>>)
  /\ out' = Silent
  /\ UNCHANGED client

InUse_BUG ==                                \* keeps the quick window
  LET e == Top.e  u == Top.u  later == IF u = ByRef THEN NoUser ELSE u IN
  /\ At("inUse")
  /\ Becomes(e, [eq[e] EXCEPT !.state = "IN_USE", !.use_user = Deref(u, e),
       !.use_end_time = USAGE_TIME, !.wait_user = NoUser, !.wait_deadline = Past])
  /\ Tell("CHECKIN_OK", e, later)
  /\ Run(<<Task("startUsage", e, later, USAGE_TIME)>>)
  /\ UNCHANGED client

(* After wait_user is emptied an aliased user_id is the empty string: the  *)
(* line goes to nobody and the driver gets no user id.                     *)
InUse ==
  LET e == Top.e  u == Top.u  later == IF u = ByRef THEN NoUser ELSE u IN
  /\ At("inUse")
  /\ Becomes(e, [eq[e] EXCEPT !.state = "IN_USE", !.use_user = Deref(u, e),
       !.use_end_time = USAGE_TIME, !.wait_user = NoUser, !.wait_deadline = Past,
       !.wait_quick_checkin = FALSE])
  /\ Tell("CHECKIN_OK", e, later)
  /\ Run(<<Task("startUsage", e, later, USAGE_TIME)>>)
  /\ UNCHANGED client

Released_BUG ==                             \* promotes nobody
  LET e == Top.e IN
  /\ At("released")
  /\ Becomes(e, [eq[e] EXCEPT !.state = "IDLE", !.use_user = NoUser,
       !.use_end_time = 0, !.wait_quick_checkin = FALSE])
  /\ Run(<<>>)
  /\ out' = Silent
  /\ UNCHANGED client

(* release_usage_and_promote after its driver call. *)
Released ==
  LET e == Top.e IN
  /\ At("released")
  /\ Becomes(e, [eq[e] EXCEPT !.state = "IDLE", !.use_user = NoUser,
       !.use_end_time = 0, !.wait_quick_checkin = FALSE])
  /\ Run(<<Task("giveTurn", e, Top.u, Top.n)>>)
  /\ out' = Silent
  /\ UNCHANGED client

Cancelled_BUG ==                            \* promotes nobody
  LET e == Top.e IN
  /\ At("cancelled")
  /\ Becomes(e, [eq[e] EXCEPT !.wait_user = NoUser, !.wait_deadline = Past])
  /\ Run(<<Task("CANCEL_OK", e, Top.u, 0)>>)
  /\ out' = Silent
  /\ UNCHANGED client

(* CANCEL from WAITING_CHECKIN after its driver call. *)
Cancelled ==
  LET e == Top.e IN
  /\ At("cancelled")
  /\ Becomes(e, [eq[e] EXCEPT !.wait_user = NoUser, !.wait_deadline = Past])
  /\ Run(<<Task("giveTurn", e, NoUser, 0), Task("CANCEL_OK", e, Top.u, 0)>>)
  /\ out' = Silent
  /\ UNCHANGED client

(* One machine's turn in cleanup_client: its user, its awaited user, its    *)
(* queue; and the slot at the end.                                         *)
LeaveUse ==
  LET e == Top.e IN
  /\ At("leaveUse")
  /\ Run(IF eq[e].use_user = Top.u THEN Release(e, 0) ELSE <<>>)
  /\ out' = Silent
  /\ UNCHANGED <<eq, client>>

LeaveWait ==
  LET e == Top.e  waiting == eq[e].state = "WAITING_CHECKIN" /\ eq[e].wait_user = Top.u IN
  /\ At("leaveWait")
  /\ IF waiting
     THEN /\ Becomes(e, [eq[e] EXCEPT !.wait_user = NoUser,
                     !.wait_deadline = Past])
          /\ Run(<<Task("stop", e, NoUser, 0), Task("giveTurn", e, NoUser, 0)>>)
     ELSE UNCHANGED eq /\ Run(<<>>)
  /\ out' = Silent
  /\ UNCHANGED client

LeaveQueue ==
  LET e == Top.e  u == Top.u IN
  /\ At("leaveQueue")
  /\ IF Contains(eq[e].queue, u)
     THEN \E i \in 1..Len(eq[e].queue) :
            FirstAt(eq[e].queue, u, i) /\ Becomes(e, [eq[e] EXCEPT !.queue = RemoveAt(@, i)])
     ELSE UNCHANGED eq
  /\ Run(<<>>)
  /\ out' = Silent
  /\ UNCHANGED client

Close ==
  /\ At("close")
  /\ client' = [client EXCEPT ![Top.n] = FreeSlot]
  /\ Run(<<>>)
  /\ out' = Silent
  /\ UNCHANGED eq

-----------------------------------------------------------------------------
(* process_driver_event_if_pending: the event a driver call picked up.      *)

Missed ==
  /\ At("missed")
  /\ IF eq[Top.e].wait_quick_checkin THEN QuickTimeout(Top.e, Top.u, <<>>)
                                     ELSE Ban(Top.e, Top.u, <<>>)

Finished ==
  /\ At("finished")
  /\ Run(IF eq[Top.e].use_user = Top.u THEN Release(Top.e, 0) ELSE <<>>)
  /\ out' = Silent
  /\ UNCHANGED <<eq, client>>

CheckedIn ==
  /\ At("checkedIn")
  /\ Run(MarkSteps(Top.e, Top.u))
  /\ out' = Silent
  /\ UNCHANGED <<eq, client>>

-----------------------------------------------------------------------------
(* update_equipment_state, once a second for each machine. *)

Update ==
  LET e == Top.e  state == eq[e].state
      decline == /\ state = "WAITING_CONTINUE"
                 /\ eq[e].continue_deadline = 0 /\ eq[e].continue_user # NoUser
  IN
  /\ At("update")
  /\ Run(CASE decline -> <<Task("decline", e, NoUser, 0)>>
           [] state = "WAITING_CHECKIN" -> <<Task("pollWait", e, NoUser, 0)>>
           [] state = "IN_USE" -> <<Task("pollUse", e, NoUser, 0)>>
           [] OTHER -> <<>>)
  /\ out' = Silent
  /\ UNCHANGED <<eq, client>>

WaitPolled_BUG ==                           \* relies on the driver's USER_MISSED
  LET e == Top.e  u == eq[e].wait_user  here == u # NoUser /\ Top.u = u IN
  /\ At("waitPolled")
  /\ Run(IF here THEN MarkSteps(e, ByRef) ELSE <<Task("updateUse", e, NoUser, 0)>>)
  /\ out' = Silent
  /\ UNCHANGED <<eq, client>>

(* The check-in half after GETSTATUS answered that user Top.u is on the     *)
(* machine.  The events picked up by the call have been handled and the     *)
(* second check for one finds none, so the code goes on with the record as  *)
(* it is now and the answer as it was then.                                 *)
WaitPolled ==
  LET e == Top.e  u == eq[e].wait_user
      here == u # NoUser /\ Top.u = u
      late == u # NoUser /\ eq[e].wait_deadline < 0
      after == <<Task("updateUse", e, NoUser, 0)>>
  IN
  /\ At("waitPolled")
  /\ \/ here /\ Run(MarkSteps(e, ByRef)) /\ out' = Silent /\ UNCHANGED <<eq, client>>
     \/ ~here /\ late /\ eq[e].wait_quick_checkin /\ QuickTimeout(e, ByRef, after)
     \/ ~here /\ late /\ ~eq[e].wait_quick_checkin /\ Ban(e, u, after)
     \/ ~here /\ ~late /\ Run(after) /\ out' = Silent /\ UNCHANGED <<eq, client>>

UpdateUse_BUG ==                            \* polls until the use is over
  /\ At("updateUse")
  /\ Run(IF eq[Top.e].state = "IN_USE"
         THEN <<Task("pollUse", Top.e, NoUser, 0), Top>> ELSE <<>>)
  /\ out' = Silent
  /\ UNCHANGED <<eq, client>>

UpdateUse ==
  /\ At("updateUse")
  /\ Run(IF eq[Top.e].state = "IN_USE" THEN <<Task("pollUse", Top.e, NoUser, 0)>> ELSE <<>>)
  /\ out' = Silent
  /\ UNCHANGED <<eq, client>>

UsePolled_BUG ==                            \* relies on the driver's USER_FINISHED
  LET e == Top.e  sync == Top.u # NoUser /\ Top.u = eq[e].use_user /\ Top.n >= 0 IN
  /\ At("usePolled")
  /\ Becomes(e, [eq[e] EXCEPT !.use_end_time = IF sync THEN Top.n ELSE @])
  /\ Run(<<>>)
  /\ out' = Silent
  /\ UNCHANGED client

(* The usage half after GETSTATUS answered user Top.u with Top.n seconds. *)
UsePolled ==
  LET e == Top.e
      sync == Top.u # NoUser /\ Top.u = eq[e].use_user /\ Top.n >= 0
      left == IF sync THEN Top.n ELSE eq[e].use_end_time
  IN
  /\ At("usePolled")
  /\ Becomes(e, [eq[e] EXCEPT !.use_end_time = left])
  /\ Run(CASE Top.u = NoUser -> Release(e, 0)
           [] Top.u # NoUser /\ left = 0 -> Release(e, 1)
           [] OTHER -> <<>>)
  /\ out' = Silent
  /\ UNCHANGED client

-----------------------------------------------------------------------------
(* A call of the driver on top of the agenda returns: ev is the last event  *)
(* the driver pushed before its reply (handle_driver_event keeps only one), *)
(* and (u, n) the reply of GETSTATUS.                                       *)

NoEvent == [op |-> "none", u |-> NoUser]
Events == {NoEvent} \cup [op : EventOps, u : Ids]

AfterCall(e, u, n) ==
  CASE Top.op = "pollWait" -> <<Task("waitPolled", e, u, 0)>>
    [] Top.op = "pollUse" -> <<Task("usePolled", e, u, n)>>
    [] OTHER -> <<>>

Answer(ev, u, n) ==
  LET e == Top.e IN
  /\ ~Free /\ Top.op \in CallOps
  /\ Run((IF ev = NoEvent THEN <<>> ELSE <<Task(ev.op, e, ev.u, 0)>>) \o AfterCall(e, u, n))
  /\ out' = Silent
  /\ UNCHANGED <<eq, client>>

(* What any driver may answer. *)
AnyAnswer ==
  \E ev \in Events, u \in Ids \cup {NoUser}, n \in Replies :
    /\ ev = NoEvent \/ MAX_NEST = Unbounded \/ Len(agenda) <= MAX_NEST
    /\ Answer(ev, u, n)

(* A second passes and timer_thread begins its round: g_lock is free, as no *)
(* handler is modelled to run across the end of a second.                   *)
TimerRound ==
  /\ Free
  /\ eq' = [e \in Equips |-> [eq[e] EXCEPT !.wait_deadline = Down(@, Past),
               !.use_end_time = Down(@, 0), !.continue_deadline = Down(@, 0)]]
  /\ client' = [s \in Slots |-> [client[s] EXCEPT !.ban_end = Down(@, 0)]]
  /\ agenda' = [i \in 1..EQUIP_COUNT |-> Task("update", i - 1, NoUser, 0)]
  /\ out' = Silent

(* What the holder of g_lock does by itself. *)
HandlerStep ==
  \/ GiveTurnQueued \/ GiveTurnNobody \/ Say \/ Decline \/ BanStopped
  \/ QuickStopped \/ Dup \/ DupStopped \/ InUse \/ Released \/ Cancelled
  \/ LeaveUse \/ LeaveWait \/ LeaveQueue \/ Close
  \/ Missed \/ Finished \/ CheckedIn
  \/ Update \/ WaitPolled \/ UpdateUse \/ UsePolled

Next == ConnectionStep \/ CommandStep \/ HandlerStep \/ AnyAnswer \/ TimerRound

Spec == Init /\ [][Next]_vars

-----------------------------------------------------------------------------
(* Properties. *)

(* Every record, slot and pending task has the shape the code declares.     *)
Equipments ==
  [state : {"IDLE", "WAITING_CHECKIN", "IN_USE", "WAITING_CONTINUE"},
   wait_user : Ids \cup {NoUser}, wait_deadline : Seconds,
   use_user : Ids \cup {NoUser}, use_end_time : Nat,
   queue : Seq(Ids),
   continue_user : Ids \cup {NoUser}, continue_deadline : Nat,
   wait_quick_checkin : BOOLEAN]
Clients ==
  [role : {"FREE", "NONE", "USER", "DRIVER"}, user_id : Users \cup {NoUser}, ban_end : Nat]

TypeOK ==
  /\ eq \in [Equips -> Equipments]
  /\ client \in [Slots -> Clients]
  /\ \A s \in Slots : client[s].role = "USER" => client[s].user_id \in Users
  /\ agenda \in Seq(Tasks)
  /\ out \in [kind : Lines, e : Nat, u : Ids \cup {NoUser}]

(* A pending task will still hand e to the next user or set it idle. *)
Owed(e) == \E i \in 1..Len(agenda) : agenda[i].op \in GiveOps /\ agenda[i].e = e

(* Nobody queues behind an idle machine, unless the handler running now is  *)
(* about to hand it over: RESERVE of an idle machine sets queue_len = 0     *)
(* (server.c:844) and would drop whoever queues there.                      *)
NoIdleQueue ==
  \A e \in Equips : eq[e].state = "IDLE" /\ eq[e].queue # <<>> => Owed(e)

(* A machine never waits for nobody: update_equipment_state neither times   *)
(* out nor promotes a machine whose wait_user is empty (server.c:759-765),  *)
(* so it would be blocked for good.                                         *)
SomebodyAwaited ==
  \A e \in Equips :
    eq[e].state = "WAITING_CHECKIN" /\ eq[e].wait_user = NoUser => Owed(e)

(* A machine that asks "once more?" asks somebody and keeps nobody waiting: *)
(* otherwise the queue would stand still until the question expires.        *)
PromptAlone ==
  \A e \in Equips :
    eq[e].state = "WAITING_CONTINUE" =>
      eq[e].continue_user # NoUser /\ (eq[e].queue = <<>> \/ Owed(e))

(* The quick window is only ever set on a machine that awaits a check-in.   *)
(* RESERVE and start_continue_checkin rely on finding the flag clear: they  *)
(* do not reset it, and a missed check-in would then go unpunished.         *)
QuickOnlyWaiting ==
  \A e \in Equips :
    eq[e].wait_quick_checkin => eq[e].state = "WAITING_CHECKIN" \/ Owed(e)

(* While somebody queues for a machine nobody but the first of the queue    *)
(* gets a turn there: not RESERVE, not CONTINUE_RESPONSE, not a requeue.    *)
NoOvertaking ==
  [][\A e \in Equips :
       eq[e].queue # <<>> /\ eq'[e].wait_user \notin {NoUser, eq[e].wait_user}
         => eq'[e].wait_user = Head(eq[e].queue)]_vars
=============================================================================
