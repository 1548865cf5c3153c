--------------------------- MODULE GymServerProofs ---------------------------
(* Theorems about GymServer, for every number of users, machines, clients   *)
(* and pending calls, and for any driver.                                   *)
EXTENDS GymServer, SequenceTheorems, TLAPS

(* A task built from values of the right kind is a task. *)
LEMMA TaskType ==
  /\ \A op \in Ops \ {"start"}, e \in Equips, u \in Ids \cup {NoUser}, n \in Int :
       Task(op, e, u, n) \in Tasks
  /\ \A e \in Equips, u \in Ids, n \in Int : Task("start", e, u, n) \in Tasks
  /\ \A op \in AliasOps, e \in Equips, n \in Int : Task(op, e, ByRef, n) \in Tasks
  BY DEF Task, Tasks

(* Sequences of up to two tasks, which most handlers push.                  *)
LEMMA ShortSeqType ==
  ASSUME NEW S
  PROVE  /\ <<>> \in Seq(S)
         /\ \A a \in S : <<a>> \in Seq(S)
         /\ \A a, b \in S : <<a, b>> \in Seq(S)
  OBVIOUS

(* Run puts tasks in place of the one on top. *)
LEMMA RunType ==
  ASSUME agenda \in Seq(Tasks), ~Free, NEW tasks \in Seq(Tasks), Run(tasks)
  PROVE  agenda' \in Seq(Tasks)
  BY ConcatProperties, HeadTailProperties DEF Run, Free

(* The task on top; only three calls are handed a pointer argument.         *)
LEMMA TopType ==
  ASSUME agenda \in Seq(Tasks), ~Free
  PROVE  /\ Top \in Tasks /\ Top.op \in Ops /\ Top.e \in Equips /\ Top.n \in Int
         /\ Top.u \in Ids \cup {NoUser, ByRef}
         /\ Top.u = ByRef => Top.op \in AliasOps
         /\ Top.op = "start" => Top.u \in Ids
  <1>1. Top \in Tasks
    BY HeadTailProperties DEF Top, Free
  <1>. QED
    BY <1>1, NameAssumption DEF Tasks, AliasOps, Ops, CallOps, RestOps, GiveOps, Ids

(* A line is only ever sent to a user who is connected.                     *)
LEMMA TellType ==
  ASSUME TypeOK, NEW kind \in Lines, NEW e \in Equips, NEW u, Tell(kind, e, u)
  PROVE  out' \in [kind : Lines, e : Nat, u : Ids \cup {NoUser}]
  <1>1. Connected(u) => u \in Ids \cup {NoUser}
    BY DEF Connected, TypeOK, Clients, Ids
  <1>2. e \in Nat
    BY SizeAssumption DEF Equips
  <1>3. Silent \in [kind : Lines, e : Nat, u : Ids \cup {NoUser}]
    BY DEF Silent, Line, Lines
  <1>. QED
    BY <1>1, <1>2, <1>3 DEF Tell, Line

(* Sending nothing is a line of the right kind.                             *)
LEMMA SilentType == Silent \in [kind : Lines, e : Nat, u : Ids \cup {NoUser}]
  BY DEF Silent, Line, Lines

(* The same facts for the three ways a handler goes on: nothing more to do, *)
(* one task more, two tasks more.                                           *)
LEMMA RunShortType ==
  ASSUME agenda \in Seq(Tasks), ~Free
  PROVE  /\ Run(<<>>) => agenda' \in Seq(Tasks)
         /\ \A a \in Tasks : Run(<<a>>) => agenda' \in Seq(Tasks)
         /\ \A a, b \in Tasks : Run(<<a, b>>) => agenda' \in Seq(Tasks)
  BY RunType, ShortSeqType

(* A client slot may be replaced by another of the right kind.              *)
LEMMA ClientUpdateType ==
  ASSUME TypeOK, NEW s \in Slots, NEW c \in Clients, c.role = "USER" => c.user_id \in Users,
         client' = [client EXCEPT ![s] = c]
  PROVE  /\ client' \in [Slots -> Clients]
         /\ \A t \in Slots : client'[t].role = "USER" => client'[t].user_id \in Users
  BY DEF TypeOK

(* Connecting, logging in and leaving keep the types.                       *)
LEMMA ConnectionType ==
  ASSUME TypeOK, ConnectionStep
  PROVE  TypeOK'
  <1>. USE SilentType
  <1>1. FreeSlot \in Clients
    BY DEF FreeSlot, Clients
  <1>2. ASSUME NEW s \in Slots, Accept(s)  PROVE TypeOK'
    <2>1. [FreeSlot EXCEPT !.role = "NONE"] \in Clients
      BY DEF FreeSlot, Clients
    <2>. QED
      BY <1>2, <2>1, ClientUpdateType, SMTT(30) DEF Accept, TypeOK, FreeSlot
  <1>3. ASSUME NEW s \in Slots, LoginDriver(s)  PROVE TypeOK'
    BY <1>3 DEF LoginDriver, TypeOK, Clients
  <1>4. ASSUME NEW s \in Slots, NEW u \in Users, Login(s, u)  PROVE TypeOK'
    BY <1>4 DEF Login, TypeOK, Clients
  <1>5. ASSUME NEW s \in Slots, Disconnect(s)  PROVE TypeOK'
    <2>1. Task("close", 0, NoUser, s) \in Tasks
      <3>1. "close" \in Ops
        BY DEF Ops, RestOps
      <3>2. 0 \in Equips /\ s \in Int
        BY SizeAssumption DEF Equips, Slots
      <3>. QED
        BY <3>1, <3>2, TaskType
    <2>2. client[s].role = "USER" => CleanupSteps(client[s].user_id) \in Seq(Tasks)
      <3>. SUFFICES ASSUME client[s].role = "USER"
                    PROVE  CleanupSteps(client[s].user_id) \in Seq(Tasks)
        OBVIOUS
      <3>. DEFINE u == client[s].user_id
      <3>1. u \in Ids \cup {NoUser}
        BY DEF TypeOK, Ids
      <3>2. \A i \in 1..(3 * EQUIP_COUNT) : (i - 1) \div 3 \in Equips
        BY SizeAssumption DEF Equips
      <3>3. \A i \in 1..(3 * EQUIP_COUNT) : CleanupSteps(u)[i] \in Tasks
        <4>. SUFFICES ASSUME NEW i \in 1..(3 * EQUIP_COUNT)  PROVE CleanupSteps(u)[i] \in Tasks
          OBVIOUS
        <4>. DEFINE op == CASE i % 3 = 1 -> "leaveUse" [] i % 3 = 2 -> "leaveWait"
                            [] OTHER -> "leaveQueue"
        <4>1. op \in Ops \ {"start"}
          BY DEF Ops, RestOps
        <4>2. Task(op, (i - 1) \div 3, u, 0) \in Tasks
          <5>. HIDE DEF op, u
          <5>. QED
            BY <3>1, <3>2, <4>1, TaskType
        <4>. QED
          BY <4>2 DEF CleanupSteps
      <3>4. 3 * EQUIP_COUNT \in Nat
        BY SizeAssumption
      <3>. QED
        BY <3>3, <3>4, SeqDef DEF CleanupSteps
    <2>3. agenda' \in Seq(Tasks)
      BY <1>5, <2>1, <2>2, ShortSeqType, ConcatProperties DEF Disconnect
    <2>. QED
      BY <1>5, <2>3 DEF Disconnect, TypeOK
  <1>. QED
    BY <1>2, <1>3, <1>4, <1>5 DEF ConnectionStep

(* The tasks that are pushed by name are tasks.                             *)
LEMMA OpNames ==
  /\ CallOps \subseteq Ops /\ EventOps \subseteq Ops /\ GiveOps \subseteq Ops
  /\ RestOps \subseteq Ops /\ TellOps \subseteq Ops
  BY DEF Ops

(* What enqueue_user and remove_from_queue leave is a queue.                *)
LEMMA QueueType ==
  ASSUME NEW queue \in Seq(Ids)
  PROVE  /\ \A u \in Ids : Enqueue(queue, u) \in Seq(Ids)
         /\ \A i \in 1..Len(queue) : RemoveAt(queue, i) \in Seq(Ids)
         /\ queue # <<>> => Head(queue) \in Ids /\ Tail(queue) \in Seq(Ids)
  <1>1. \A u \in Ids : Enqueue(queue, u) \in Seq(Ids)
    BY AppendProperties DEF Enqueue
  <1>2. ASSUME NEW i \in 1..Len(queue)  PROVE RemoveAt(queue, i) \in Seq(Ids)
    <2>1. SubSeq(queue, 1, i - 1) \in Seq(Ids) /\ SubSeq(queue, i + 1, Len(queue)) \in Seq(Ids)
      BY SubSeqProperties, ElementOfSeq, LenProperties
    <2>. QED
      BY <2>1, ConcatProperties DEF RemoveAt
  <1>. QED
    BY <1>1, <1>2, HeadTailProperties

(* The windows are seconds, and a second less is a deadline again.          *)
LEMMA TimeTypes ==
  /\ CHECKIN_WINDOW \in Seconds \cap Int /\ QUICK_CHECKIN_WINDOW \in Seconds \cap Int
  /\ USAGE_TIME \in Nat /\ BAN_TIME \in Nat /\ CONTINUE_DECISION_WINDOW \in Nat
  /\ Past \in Seconds
  BY TimeAssumption DEF Seconds, Past

(* Changing the record of one machine. *)
LEMMA BecomesType ==
  ASSUME TypeOK, NEW e \in Equips, NEW r \in Equipments, Becomes(e, r)
  PROVE  eq' \in [Equips -> Equipments]
  BY DEF Becomes, TypeOK

(* The type of one machine's record, and of what a handler puts into it. *)
LEMMA RecordType ==
  ASSUME TypeOK, NEW e \in Equips
  PROVE  /\ eq[e] \in Equipments /\ eq[e].queue \in Seq(Ids)
         /\ eq[e].wait_user \in Ids \cup {NoUser}
         /\ eq[e].use_user \in Ids \cup {NoUser}
         /\ eq[e].continue_user \in Ids \cup {NoUser}
         /\ eq[e].use_end_time \in Nat
         /\ eq[e].wait_quick_checkin \in BOOLEAN
  BY DEF TypeOK, Equipments

(* Every command of a client keeps the types.                               *)
LEMMA CommandType ==
  ASSUME TypeOK, CommandStep
  PROVE  TypeOK'
  <1>. USE SilentType
  <1>1. PICK s \in Slots, e \in Equips :
          \/ ReserveFirst(s, e) \/ ReserveQueue(s, e) \/ CancelWait(s, e) \/ CancelQueued(s, e)
          \/ QueryEquip(s, e) \/ ContinueYes(s, e) \/ ContinueNo(s, e)
    BY DEF CommandStep
  <1>. DEFINE u == client[s].user_id
  <1>2. u \in Users /\ u \in Ids /\ client[s].role = "USER"
    BY <1>1 DEF TypeOK, Ids, ReserveFirst, ReserveQueue, MayReserve, CancelWait, CancelQueued,
                QueryEquip, ContinueYes, ContinueNo
  <1>3. \A kind \in Lines : Line(kind, e, u) \in [kind : Lines, e : Nat, u : Ids \cup {NoUser}]
    BY <1>2, SizeAssumption DEF Line, Equips
  <1>4. /\ Task("start", e, u, CHECKIN_WINDOW) \in Tasks
        /\ Task("RESERVE_FIRST", e, u, 0) \in Tasks
        /\ Task("CONTINUE_YES", e, u, 0) \in Tasks
        /\ Task("decline", e, u, 0) \in Tasks
        /\ Task("decline", e, eq[e].continue_user, 0) \in Tasks
        /\ Task("stop", e, NoUser, 0) \in Tasks
        /\ Task("cancelled", e, u, 0) \in Tasks
        /\ Task("query", e, NoUser, 0) \in Tasks
    <2>1. eq[e].continue_user \in Ids \cup {NoUser}
      BY RecordType
    <2>2. {"RESERVE_FIRST", "CONTINUE_YES", "decline", "stop", "cancelled", "query"}
            \subseteq Ops \ {"start"}
      BY DEF Ops, CallOps, GiveOps, TellOps
    <2>3. u \in Ids /\ u \in Ids \cup {NoUser} /\ NoUser \in Ids \cup {NoUser}
      BY <1>2
    <2>4. 0 \in Int /\ CHECKIN_WINDOW \in Int
      BY TimeTypes
    <2>. HIDE DEF u
    <2>. QED
      BY <2>1, <2>2, <2>3, <2>4, TaskType
  <1>5. eq[e] \in Equipments /\ eq[e].queue \in Seq(Ids)
    BY RecordType
  <1>. HIDE DEF u
  <1>6. CASE ReserveFirst(s, e)
    <2>. DEFINE r == [eq[e] EXCEPT !.state = "WAITING_CHECKIN", !.wait_user = u,
                        !.wait_deadline = CHECKIN_WINDOW, !.queue = <<>>]
    <2>1. r \in Equipments
      BY <1>2, <1>5, TimeTypes, EmptySeq DEF Equipments
    <2>2. Becomes(e, r)
      BY <1>6 DEF ReserveFirst, u
    <2>3. eq' \in [Equips -> Equipments]
      <3>. HIDE DEF r
      <3>. QED
        BY <2>1, <2>2, BecomesType
    <2>4. agenda' \in Seq(Tasks)
      BY <1>4, <1>6, ShortSeqType DEF ReserveFirst, u
    <2>. QED
      BY <1>6, <2>3, <2>4 DEF ReserveFirst, TypeOK
  <1>7. CASE ReserveQueue(s, e)
    <2>. DEFINE r == [eq[e] EXCEPT !.queue = Enqueue(@, u)]
    <2>1. r \in Equipments
      <3>1. Enqueue(eq[e].queue, u) \in Seq(Ids)
        BY <1>2, <1>5, QueueType
      <3>. QED
        BY <1>5, <3>1 DEF Equipments
    <2>2. Becomes(e, r)
      BY <1>7 DEF ReserveQueue, u
    <2>3. eq' \in [Equips -> Equipments]
      <3>. HIDE DEF r
      <3>. QED
        BY <2>1, <2>2, BecomesType
    <2>4. agenda' \in Seq(Tasks)
      BY <1>4, <1>7, ShortSeqType DEF ReserveQueue
    <2>5. out' \in [kind : Lines, e : Nat, u : Ids \cup {NoUser}]
      BY <1>3, <1>7 DEF ReserveQueue, Lines, u
    <2>. QED
      BY <1>7, <2>3, <2>4, <2>5 DEF ReserveQueue, TypeOK
  <1>8. CASE CancelWait(s, e)
    BY <1>4, <1>8, ShortSeqType DEF CancelWait, TypeOK, u
  <1>9. CASE CancelQueued(s, e)
    <2>1. PICK i \in 1..Len(eq[e].queue) :
            Becomes(e, [eq[e] EXCEPT !.queue = RemoveAt(@, i)])
      BY <1>9 DEF CancelQueued
    <2>. DEFINE r == [eq[e] EXCEPT !.queue = RemoveAt(@, i)]
    <2>2. r \in Equipments
      <3>1. RemoveAt(eq[e].queue, i) \in Seq(Ids)
        BY <1>5, QueueType
      <3>. QED
        BY <1>5, <3>1 DEF Equipments
    <2>3. eq' \in [Equips -> Equipments]
      <3>1. Becomes(e, r)
        BY <2>1
      <3>. HIDE DEF r
      <3>. QED
        BY <2>2, <3>1, BecomesType
    <2>4. out' \in [kind : Lines, e : Nat, u : Ids \cup {NoUser}]
      BY <1>3, <1>9 DEF CancelQueued, Lines, TellOps, u
    <2>. QED
      BY <1>9, <2>3, <2>4 DEF CancelQueued, TypeOK
  <1>10. CASE QueryEquip(s, e)
    BY <1>4, <1>10, ShortSeqType DEF QueryEquip, TypeOK
  <1>11. CASE ContinueYes(s, e)
    <2>. DEFINE r == [eq[e] EXCEPT !.state = "WAITING_CHECKIN", !.wait_user = u,
                        !.wait_deadline = CHECKIN_WINDOW, !.continue_user = NoUser,
                        !.continue_deadline = 0]
    <2>1. r \in Equipments
      BY <1>2, <1>5, TimeTypes DEF Equipments
    <2>2. Becomes(e, r)
      BY <1>11 DEF ContinueYes, u
    <2>3. eq' \in [Equips -> Equipments]
      <3>. HIDE DEF r
      <3>. QED
        BY <2>1, <2>2, BecomesType
    <2>4. agenda' \in Seq(Tasks)
      BY <1>4, <1>11, ShortSeqType DEF ContinueYes, u
    <2>. QED
      BY <1>11, <2>3, <2>4 DEF ContinueYes, TypeOK
  <1>12. CASE ContinueNo(s, e)
    BY <1>4, <1>12, ShortSeqType DEF ContinueNo, TypeOK, u
  <1>. QED
    BY <1>1, <1>6, <1>7, <1>8, <1>9, <1>10, <1>11, <1>12

(* A handler step that leaves the slots alone is typed when what it writes  *)
(* to the record, to the agenda and to the client is.                       *)
LEMMA StepType ==
  ASSUME TypeOK, ~Free, NEW tasks \in Seq(Tasks), Run(tasks), UNCHANGED client,
         eq' \in [Equips -> Equipments],
         out' \in [kind : Lines, e : Nat, u : Ids \cup {NoUser}]
  PROVE  TypeOK'
  BY RunType DEF TypeOK

(* A call of the driver names no user, and most tasks no number. *)
LEMMA Nobody ==
  0 \in Int /\ 1 \in Int /\ NoUser \in Ids \cup {NoUser} /\ NoUser \in Ids \cup {NoUser, ByRef}
  OBVIOUS

(* What release_usage_and_promote pushes are tasks.                         *)
LEMMA ReleaseType ==
  ASSUME TypeOK, NEW e \in Equips, NEW n \in Int
  PROVE  Release(e, n) \in Seq(Tasks)
  <1>1. "stop" \in Ops /\ "released" \in Ops
    BY DEF Ops, CallOps, GiveOps
  <1>2. eq[e].use_user \in Ids \cup {NoUser}
    BY RecordType
  <1>3. Task("stop", e, NoUser, 0) \in Tasks /\ Task("released", e, eq[e].use_user, n) \in Tasks
    BY <1>1, <1>2, TaskType, Nobody
  <1>. QED
    BY <1>3, ShortSeqType DEF Release

(* What mark_user_checked_in pushes are tasks.                              *)
LEMMA MarkType ==
  ASSUME NEW e \in Equips, NEW u \in Ids \cup {NoUser, ByRef}
  PROVE  MarkSteps(e, u) \in Seq(Tasks)
  <1>1. "dup" \in Ops \cap AliasOps /\ "inUse" \in Ops \cap AliasOps
    BY DEF Ops, RestOps, AliasOps
  <1>2. \A i \in 1..EQUIP_COUNT : i - 1 \in Equips
    BY SizeAssumption DEF Equips
  <1>3. e \in Int /\ EQUIP_COUNT \in Nat
    BY SizeAssumption DEF Equips
  <1>4. \A i \in 1..EQUIP_COUNT : Task("dup", i - 1, u, e) \in Tasks
    BY <1>1, <1>2, <1>3, TaskType
  <1>5. Task("inUse", e, u, 0) \in Tasks
    BY <1>1, TaskType, Nobody
  <1>6. [i \in 1..EQUIP_COUNT |-> Task("dup", i - 1, u, e)] \in Seq(Tasks)
    BY <1>3, <1>4, SeqDef
  <1>. QED
    BY <1>5, <1>6, ShortSeqType, ConcatProperties DEF MarkSteps

(* ban_user_for_missing keeps the types.                                    *)
LEMMA BanType ==
  ASSUME TypeOK, ~Free, NEW e \in Equips, NEW u \in Ids \cup {NoUser},
         NEW after \in Seq(Tasks), Ban(e, u, after)
  PROVE  TypeOK'
  <1>. DEFINE r == [eq[e] EXCEPT !.state = "IDLE", !.wait_user = NoUser,
                      !.wait_deadline = Past, !.wait_quick_checkin = FALSE]
  <1>1. eq' \in [Equips -> Equipments]
    <2>1. r \in Equipments
      BY RecordType, TimeTypes DEF Equipments
    <2>2. Becomes(e, r)
      BY DEF Ban
    <2>. HIDE DEF r
    <2>. QED
      BY <2>1, <2>2, BecomesType
  <1>2. agenda' \in Seq(Tasks)
    <2>1. "stop" \in Ops /\ "banStopped" \in Ops
      BY DEF Ops, CallOps, GiveOps
    <2>2. Task("stop", e, NoUser, 0) \in Tasks /\ Task("banStopped", e, u, 0) \in Tasks
      BY <2>1, TaskType, Nobody
    <2>3. <<Task("stop", e, NoUser, 0), Task("banStopped", e, u, 0)>> \o after \in Seq(Tasks)
      BY <2>2, ShortSeqType, ConcatProperties
    <2>. QED
      BY <2>3, RunType DEF Ban, TypeOK
  <1>3. /\ client' \in [Slots -> Clients]
        /\ \A s \in Slots : client'[s].role = "USER" => client'[s].user_id \in Users
    <2>1. \A s \in Slots : [client[s] EXCEPT !.ban_end = BAN_TIME] \in Clients
      BY TimeTypes DEF TypeOK, Clients
    <2>2. \A s \in Slots : /\ client'[s] \in Clients
                           /\ client'[s].role = client[s].role
                           /\ client'[s].user_id = client[s].user_id
      BY <2>1 DEF Ban, TypeOK, Clients
    <2>3. client' = [s \in Slots |-> client'[s]]
      BY DEF Ban
    <2>. QED
      BY <2>2, <2>3 DEF TypeOK
  <1>4. out' \in [kind : Lines, e : Nat, u : Ids \cup {NoUser}]
    <2>1. "BANNED" \in Lines
      BY DEF Lines
    <2>. QED
      BY <2>1, TellType DEF Ban
  <1>. QED
    BY <1>1, <1>2, <1>3, <1>4 DEF TypeOK

(* handle_quick_checkin_timeout keeps the types.                            *)
LEMMA QuickTimeoutType ==
  ASSUME TypeOK, ~Free, NEW e \in Equips, NEW u \in Ids \cup {NoUser, ByRef},
         NEW after \in Seq(Tasks), QuickTimeout(e, u, after)
  PROVE  TypeOK'
  <1>. DEFINE r == [eq[e] EXCEPT !.wait_quick_checkin = FALSE, !.wait_user = NoUser,
                      !.wait_deadline = Past]
  <1>1. eq' \in [Equips -> Equipments]
    <2>1. r \in Equipments
      BY RecordType, TimeTypes DEF Equipments
    <2>2. Becomes(e, r)
      BY DEF QuickTimeout
    <2>. HIDE DEF r
    <2>. QED
      BY <2>1, <2>2, BecomesType
  <1>2. <<Task("stop", e, NoUser, 0), Task("quickStopped", e, u, 0)>> \o after \in Seq(Tasks)
    <2>1. "stop" \in Ops /\ "quickStopped" \in Ops \cap AliasOps
      BY DEF Ops, CallOps, GiveOps, AliasOps
    <2>2. Task("stop", e, NoUser, 0) \in Tasks
      BY <2>1, TaskType, Nobody
    <2>3. Task("quickStopped", e, u, 0) \in Tasks
      <3>1. CASE u = ByRef
        BY <2>1, <3>1, TaskType, Nobody
      <3>2. CASE u \in Ids \cup {NoUser}
        BY <2>1, <3>2, TaskType, Nobody
      <3>. QED
        BY <3>1, <3>2
    <2>. QED
      BY <2>2, <2>3, ShortSeqType, ConcatProperties
  <1>. QED
    BY <1>1, <1>2, StepType, SilentType DEF QuickTimeout

(* What a handler step knows of the task on top. *)
LEMMA TopOK ==
  ASSUME TypeOK, NEW op, At(op)
  PROVE  /\ ~Free /\ Top.e \in Equips /\ Top.n \in Int /\ Top.op = op
         /\ Top.u \in Ids \cup {NoUser, ByRef}
         /\ op \notin AliasOps => Top.u \in Ids \cup {NoUser}
  BY TopType DEF At, TypeOK, Top

(* The task most handler steps leave behind. *)
LEMMA GiveTurnTask ==
  ASSUME NEW e \in Equips
  PROVE  Task("giveTurn", e, NoUser, 0) \in Tasks
  <1>1. "giveTurn" \in Ops
    BY DEF Ops, GiveOps
  <1>. QED
    BY <1>1, TaskType, Nobody

(* give_turn_to_next keeps the types.                                       *)
LEMMA GiveTurnType ==
  ASSUME TypeOK, GiveTurnQueued \/ GiveTurnNobody
  PROVE  TypeOK'
  <1>. DEFINE e == Top.e
  <1>1. ~Free /\ e \in Equips /\ Top.u \in Ids \cup {NoUser}
    BY TopOK DEF GiveTurnQueued, GiveTurnNobody, AliasOps
  <1>2. eq[e] \in Equipments /\ eq[e].queue \in Seq(Ids) /\ eq[e].continue_user \in Ids \cup {NoUser}
    BY <1>1, RecordType
  <1>3. CASE GiveTurnQueued
    <2>. DEFINE u == Head(eq[e].queue)
                quick == CurrentlyUsing(u)
                secs == IF quick THEN QUICK_CHECKIN_WINDOW ELSE CHECKIN_WINDOW
                r == [eq[e] EXCEPT !.state = "WAITING_CHECKIN", !.wait_user = u,
                        !.wait_deadline = secs, !.wait_quick_checkin = quick,
                        !.queue = Tail(@)]
    <2>1. u \in Ids /\ Tail(eq[e].queue) \in Seq(Ids)
      BY <1>2, <1>3, QueueType DEF GiveTurnQueued
    <2>2. secs \in Seconds \cap Int /\ quick \in BOOLEAN
      BY TimeTypes DEF CurrentlyUsing
    <2>3. eq' \in [Equips -> Equipments]
      <3>1. r \in Equipments
        <4>. HIDE DEF secs, quick, u
        <4>. QED
          BY <1>2, <2>1, <2>2 DEF Equipments
      <3>2. Becomes(e, r)
        BY <1>3 DEF GiveTurnQueued
      <3>. HIDE DEF r, e
      <3>. QED
        BY <1>1, <3>1, <3>2, BecomesType
    <2>4. Task("start", e, u, secs) \in Tasks /\ Task("YOUR_TURN", e, u, 0) \in Tasks
      <3>1. "YOUR_TURN" \in Ops
        BY DEF Ops, TellOps
      <3>2. u \in Ids /\ u \in Ids \cup {NoUser} /\ secs \in Int
        BY <2>1, <2>2
      <3>. HIDE DEF secs, u, e
      <3>. QED
        BY <1>1, <3>1, <3>2, TaskType, Nobody
    <2>5. Run(<<Task("start", e, u, secs), Task("YOUR_TURN", e, u, 0)>>)
      BY <1>3 DEF GiveTurnQueued
    <2>6. UNCHANGED client /\ out' = Silent
      BY <1>3 DEF GiveTurnQueued
    <2>. HIDE DEF u, secs, e
    <2>. QED
      BY <1>1, <2>3, <2>4, <2>5, <2>6, ShortSeqType, StepType, SilentType
  <1>4. CASE GiveTurnNobody
    <2>. DEFINE prompt == Top.n = 1 /\ Top.u # NoUser
                r == [eq[e] EXCEPT
                        !.state = IF prompt THEN "WAITING_CONTINUE" ELSE "IDLE",
                        !.wait_user = NoUser, !.wait_deadline = Past,
                        !.wait_quick_checkin = FALSE,
                        !.continue_user = IF prompt THEN Top.u ELSE @,
                        !.continue_deadline =
                           IF prompt THEN CONTINUE_DECISION_WINDOW ELSE @]
    <2>1. eq' \in [Equips -> Equipments]
      <3>1. r \in Equipments
        <4>. DEFINE uu == IF prompt THEN Top.u ELSE eq[e].continue_user
                    st == IF prompt THEN "WAITING_CONTINUE" ELSE "IDLE"
                    cd == IF prompt THEN CONTINUE_DECISION_WINDOW ELSE eq[e].continue_deadline
        <4>1. uu \in Ids \cup {NoUser} /\ st \in {"IDLE", "WAITING_CONTINUE"} /\ cd \in Nat
          BY <1>1, <1>2, TimeTypes DEF Equipments
        <4>2. r = [eq[e] EXCEPT !.state = st, !.wait_user = NoUser, !.wait_deadline = Past,
                     !.wait_quick_checkin = FALSE, !.continue_user = uu,
                     !.continue_deadline = cd]
          OBVIOUS
        <4>. HIDE DEF uu, st, cd, r
        <4>. QED
          BY <1>2, <4>1, <4>2, TimeTypes DEF Equipments
      <3>2. Becomes(e, r)
        BY <1>4 DEF GiveTurnNobody
      <3>. HIDE DEF r, e
      <3>. QED
        BY <1>1, <3>1, <3>2, BecomesType
    <2>2. out' \in [kind : Lines, e : Nat, u : Ids \cup {NoUser}]
      <3>1. "CONTINUE_PROMPT" \in Lines
        BY DEF Lines
      <3>2. Tell("CONTINUE_PROMPT", e, Top.u) \/ out' = Silent
        BY <1>4 DEF GiveTurnNobody
      <3>. HIDE DEF e
      <3>. QED
        BY <1>1, <3>1, <3>2, TellType, SilentType
    <2>3. Run(<<>>) /\ UNCHANGED client
      BY <1>4 DEF GiveTurnNobody
    <2>. QED
      BY <1>1, <2>1, <2>2, <2>3, ShortSeqType, StepType
  <1>. QED
    BY <1>3, <1>4

(* So do the handlers that end in give_turn_to_next.                        *)
LEMMA PromotingType ==
  ASSUME TypeOK, Decline \/ BanStopped \/ QuickStopped \/ DupStopped \/ Released \/ Cancelled
  PROVE  TypeOK'
  <1>. DEFINE e == Top.e
  <1>1. ~Free /\ e \in Equips /\ Top.n \in Int /\ Top.u \in Ids \cup {NoUser, ByRef}
    BY TopOK DEF Decline, BanStopped, QuickStopped, DupStopped, Released, Cancelled
  <1>2. /\ eq[e] \in Equipments /\ eq[e].queue \in Seq(Ids)
        /\ eq[e].wait_user \in Ids \cup {NoUser}
    BY <1>1, RecordType
  <1>3. <<Task("giveTurn", e, NoUser, 0)>> \in Seq(Tasks)
    <2>. HIDE DEF e
    <2>. QED
      BY <1>1, GiveTurnTask, ShortSeqType
  <1>4. CASE Decline
    <2>. DEFINE r == [eq[e] EXCEPT !.state = "IDLE", !.continue_user = NoUser,
                        !.continue_deadline = 0]
    <2>1. r \in Equipments
      BY <1>2 DEF Equipments
    <2>2. Becomes(e, r) /\ Tell("CONTINUE_NO", e, Top.u)
      BY <1>4 DEF Decline
    <2>3. Run(<<Task("giveTurn", e, NoUser, 0)>>) /\ UNCHANGED client
      BY <1>4 DEF Decline
    <2>4. "CONTINUE_NO" \in Lines
      BY DEF Lines
    <2>. HIDE DEF r, e
    <2>. QED
      BY <1>1, <1>3, <2>1, <2>2, <2>3, <2>4, BecomesType, TellType, StepType
  <1>5. CASE BanStopped
    <2>. DEFINE r == [eq[e] EXCEPT !.continue_user = NoUser, !.continue_deadline = 0]
    <2>1. r \in Equipments
      BY <1>2 DEF Equipments
    <2>2. Becomes(e, r) /\ out' = Silent
      BY <1>5 DEF BanStopped
    <2>3. Run(<<Task("giveTurn", e, NoUser, 0)>>) /\ UNCHANGED client
      BY <1>5 DEF BanStopped
    <2>. HIDE DEF r, e
    <2>. QED
      BY <1>1, <1>3, <2>1, <2>2, <2>3, BecomesType, SilentType, StepType
  <1>6. CASE QuickStopped
    <2>. DEFINE u == Deref(Top.u, e)
                q == IF u # NoUser THEN Enqueue(eq[e].queue, u) ELSE eq[e].queue
                r == [eq[e] EXCEPT !.queue = q]
    <2>1. u \in Ids \cup {NoUser}
      BY <1>1, <1>2 DEF Deref
    <2>2. r \in Equipments
      <3>1. q \in Seq(Ids)
        BY <1>2, <2>1, QueueType
      <3>. HIDE DEF q
      <3>. QED
        BY <1>2, <3>1 DEF Equipments
    <2>3. Becomes(e, r) /\ (Tell("REQUEUE_LAST", e, u) \/ out' = Silent)
      BY <1>6 DEF QuickStopped
    <2>4. Run(<<Task("giveTurn", e, NoUser, 0)>>) /\ UNCHANGED client
      BY <1>6 DEF QuickStopped
    <2>5. "REQUEUE_LAST" \in Lines
      BY DEF Lines
    <2>. HIDE DEF r, e, u
    <2>. QED
      BY <1>1, <1>3, <2>2, <2>3, <2>4, <2>5, BecomesType, TellType, SilentType, StepType
  <1>7. CASE DupStopped
    <2>. DEFINE r == [eq[e] EXCEPT !.state = "IDLE", !.wait_user = NoUser,
                        !.wait_deadline = Past]
    <2>1. r \in Equipments
      BY <1>2, TimeTypes DEF Equipments
    <2>2. Becomes(e, r) /\ out' = Silent
      BY <1>7 DEF DupStopped
    <2>3. Run(<<Task("giveTurn", e, NoUser, 0)>>) /\ UNCHANGED client
      BY <1>7 DEF DupStopped
    <2>. HIDE DEF r, e
    <2>. QED
      BY <1>1, <1>3, <2>1, <2>2, <2>3, BecomesType, SilentType, StepType
  <1>8. CASE Released
    <2>. DEFINE r == [eq[e] EXCEPT !.state = "IDLE", !.use_user = NoUser,
                        !.use_end_time = 0, !.wait_quick_checkin = FALSE]
    <2>1. r \in Equipments
      BY <1>2 DEF Equipments
    <2>2. Becomes(e, r) /\ out' = Silent
      BY <1>8 DEF Released
    <2>3. Run(<<Task("giveTurn", e, Top.u, Top.n)>>) /\ UNCHANGED client
      BY <1>8 DEF Released
    <2>4. Task("giveTurn", e, Top.u, Top.n) \in Tasks
      <3>1. "giveTurn" \in Ops
        BY DEF Ops, GiveOps
      <3>2. Top.u \in Ids \cup {NoUser}
        BY <1>8, TopOK DEF Released, AliasOps
      <3>. HIDE DEF e
      <3>. QED
        BY <1>1, <3>1, <3>2, TaskType
    <2>. HIDE DEF r, e
    <2>. QED
      BY <1>1, <2>1, <2>2, <2>3, <2>4, ShortSeqType, BecomesType, SilentType, StepType
  <1>9. CASE Cancelled
    <2>. DEFINE r == [eq[e] EXCEPT !.wait_user = NoUser, !.wait_deadline = Past]
    <2>1. r \in Equipments
      BY <1>2, TimeTypes DEF Equipments
    <2>2. Becomes(e, r) /\ out' = Silent
      BY <1>9 DEF Cancelled
    <2>3. Run(<<Task("giveTurn", e, NoUser, 0), Task("CANCEL_OK", e, Top.u, 0)>>)
          /\ UNCHANGED client
      BY <1>9 DEF Cancelled
    <2>4. Task("CANCEL_OK", e, Top.u, 0) \in Tasks
      <3>1. "CANCEL_OK" \in Ops
        BY DEF Ops, TellOps
      <3>2. Top.u \in Ids \cup {NoUser}
        BY <1>9, TopOK DEF Cancelled, AliasOps
      <3>. HIDE DEF e
      <3>. QED
        BY <1>1, <3>1, <3>2, TaskType, Nobody
    <2>. HIDE DEF r, e
    <2>. QED
      BY <1>1, <2>1, <2>2, <2>3, <2>4, GiveTurnTask, ShortSeqType, BecomesType, SilentType,
         StepType
  <1>. QED
    BY <1>4, <1>5, <1>6, <1>7, <1>8, <1>9

(* mark_user_checked_in keeps the types.                                    *)
LEMMA CheckinType ==
  ASSUME TypeOK, Dup \/ InUse \/ CheckedIn
  PROVE  TypeOK'
  <1>. DEFINE e == Top.e
  <1>1. ~Free /\ e \in Equips /\ Top.u \in Ids \cup {NoUser, ByRef}
    BY TopOK DEF Dup, InUse, CheckedIn
  <1>2. eq[e] \in Equipments /\ eq[e].wait_user \in Ids \cup {NoUser}
    BY <1>1, RecordType
  <1>3. CASE Dup
    <2>1. <<Task("stop", e, NoUser, 0), Task("dupStopped", e, NoUser, 0)>> \in Seq(Tasks)
      <3>1. "stop" \in Ops /\ "dupStopped" \in Ops
        BY DEF Ops, CallOps, GiveOps
      <3>. HIDE DEF e
      <3>. QED
        BY <1>1, <3>1, TaskType, Nobody, ShortSeqType
    <2>2. \/ Run(<<Task("stop", e, NoUser, 0), Task("dupStopped", e, NoUser, 0)>>)
          \/ Run(<<>>)
      BY <1>3 DEF Dup
    <2>3. out' = Silent /\ UNCHANGED client /\ eq' \in [Equips -> Equipments]
      BY <1>3 DEF Dup, TypeOK
    <2>. HIDE DEF e
    <2>. QED
      BY <1>1, <2>1, <2>2, <2>3, ShortSeqType, SilentType, StepType
  <1>4. CASE InUse
    <2>. DEFINE u == Deref(Top.u, e)
                later == IF Top.u = ByRef THEN NoUser ELSE Top.u
                r == [eq[e] EXCEPT !.state = "IN_USE", !.use_user = u,
                        !.use_end_time = USAGE_TIME, !.wait_user = NoUser,
                        !.wait_deadline = Past, !.wait_quick_checkin = FALSE]
    <2>1. u \in Ids \cup {NoUser} /\ later \in Ids \cup {NoUser}
      BY <1>1, <1>2 DEF Deref
    <2>2. r \in Equipments
      <3>. HIDE DEF u
      <3>. QED
        BY <1>2, <2>1, TimeTypes DEF Equipments
    <2>3. Task("startUsage", e, later, USAGE_TIME) \in Tasks
      <3>1. "startUsage" \in Ops /\ USAGE_TIME \in Int
        BY TimeTypes DEF Ops, CallOps
      <3>. HIDE DEF e, later
      <3>. QED
        BY <1>1, <2>1, <3>1, TaskType
    <2>4. Becomes(e, r) /\ Tell("CHECKIN_OK", e, later)
      BY <1>4 DEF InUse
    <2>5. Run(<<Task("startUsage", e, later, USAGE_TIME)>>) /\ UNCHANGED client
      BY <1>4 DEF InUse
    <2>6. "CHECKIN_OK" \in Lines
      BY DEF Lines
    <2>. HIDE DEF e, u, later, r
    <2>. QED
      BY <1>1, <2>2, <2>3, <2>4, <2>5, <2>6, BecomesType, TellType, ShortSeqType, StepType
  <1>5. CASE CheckedIn
    <2>1. Run(MarkSteps(e, Top.u)) /\ out' = Silent /\ UNCHANGED client
      BY <1>5 DEF CheckedIn
    <2>2. eq' \in [Equips -> Equipments]
      BY <1>5 DEF CheckedIn, TypeOK
    <2>3. MarkSteps(e, Top.u) \in Seq(Tasks)
      <3>. HIDE DEF e
      <3>. QED
        BY <1>1, MarkType
    <2>. HIDE DEF e
    <2>. QED
      BY <1>1, <2>1, <2>2, <2>3, SilentType, StepType
  <1>. QED
    BY <1>3, <1>4, <1>5

(* cleanup_client keeps the types.                                          *)
LEMMA LeaveType ==
  ASSUME TypeOK, Say \/ LeaveUse \/ LeaveWait \/ LeaveQueue \/ Close
  PROVE  TypeOK'
  <1>. DEFINE e == Top.e
  <1>1. ~Free /\ e \in Equips /\ Top.u \in Ids \cup {NoUser, ByRef}
    BY TopType DEF At, TypeOK, Say, LeaveUse, LeaveWait, LeaveQueue, Close
  <1>2. eq[e] \in Equipments /\ eq[e].queue \in Seq(Ids) /\ eq \in [Equips -> Equipments]
    BY <1>1, RecordType DEF TypeOK
  <1>3. CASE Say
    <2>1. out' \in [kind : Lines, e : Nat, u : Ids \cup {NoUser}]
      <3>1. Top.op \in Lines /\ Tell(Top.op, e, Top.u)
        BY <1>3 DEF Say, Lines
      <3>. HIDE DEF e
      <3>. QED
        BY <1>1, <3>1, TellType
    <2>. QED
      BY <1>1, <1>2, <1>3, <2>1, ShortSeqType, StepType DEF Say
  <1>4. CASE LeaveUse
    <2>1. Release(e, 0) \in Seq(Tasks)
      <3>. HIDE DEF e
      <3>. QED
        BY <1>1, ReleaseType, Nobody
    <2>2. (Run(Release(e, 0)) \/ Run(<<>>)) /\ out' = Silent /\ UNCHANGED <<eq, client>>
      BY <1>4 DEF LeaveUse
    <2>. HIDE DEF e
    <2>. QED
      BY <1>1, <1>2, <2>1, <2>2, ShortSeqType, SilentType, StepType
  <1>5. CASE LeaveWait
    <2>. DEFINE r == [eq[e] EXCEPT !.wait_user = NoUser, !.wait_deadline = Past]
    <2>1. r \in Equipments
      BY <1>2, TimeTypes DEF Equipments
    <2>2. <<Task("stop", e, NoUser, 0), Task("giveTurn", e, NoUser, 0)>> \in Seq(Tasks)
      <3>1. "stop" \in Ops
        BY DEF Ops, CallOps
      <3>. HIDE DEF e
      <3>. QED
        BY <1>1, <3>1, TaskType, GiveTurnTask, Nobody, ShortSeqType
    <2>3. \/ /\ Becomes(e, r)
             /\ Run(<<Task("stop", e, NoUser, 0), Task("giveTurn", e, NoUser, 0)>>)
          \/ UNCHANGED eq /\ Run(<<>>)
      BY <1>5 DEF LeaveWait
    <2>4. out' = Silent /\ UNCHANGED client
      BY <1>5 DEF LeaveWait
    <2>. HIDE DEF e, r
    <2>. QED
      BY <1>1, <1>2, <2>1, <2>2, <2>3, <2>4, BecomesType, ShortSeqType, SilentType, StepType
  <1>6. CASE LeaveQueue
    <2>1. eq' \in [Equips -> Equipments]
      <3>1. CASE UNCHANGED eq
        BY <1>2, <3>1
      <3>2. CASE \E i \in 1..Len(eq[e].queue) :
                   Becomes(e, [eq[e] EXCEPT !.queue = RemoveAt(@, i)])
        <4>1. PICK i \in 1..Len(eq[e].queue) :
                Becomes(e, [eq[e] EXCEPT !.queue = RemoveAt(@, i)])
          BY <3>2
        <4>. DEFINE r == [eq[e] EXCEPT !.queue = RemoveAt(@, i)]
        <4>2. r \in Equipments
          <5>1. RemoveAt(eq[e].queue, i) \in Seq(Ids)
            BY <1>2, QueueType
          <5>. QED
            BY <1>2, <5>1 DEF Equipments
        <4>3. Becomes(e, r)
          BY <4>1
        <4>. HIDE DEF r, e
        <4>. QED
          BY <1>1, <4>2, <4>3, BecomesType
      <3>. QED
        BY <1>6, <3>1, <3>2 DEF LeaveQueue
    <2>2. Run(<<>>) /\ out' = Silent /\ UNCHANGED client
      BY <1>6 DEF LeaveQueue
    <2>. QED
      BY <1>1, <2>1, <2>2, ShortSeqType, SilentType, StepType
  <1>7. CASE Close
    <2>1. agenda' \in Seq(Tasks)
      BY <1>1, <1>7, RunShortType DEF Close, TypeOK
    <2>2. FreeSlot \in Clients /\ FreeSlot.role # "USER"
      BY DEF FreeSlot, Clients
    <2>. QED
      BY <1>7, <2>1, <2>2, SilentType DEF Close, TypeOK
  <1>. QED
    BY <1>3, <1>4, <1>5, <1>6, <1>7

(* The three events of a driver keep the types.                             *)
LEMMA EventType ==
  ASSUME TypeOK, Missed \/ Finished
  PROVE  TypeOK'
  <1>. DEFINE e == Top.e
  <1>1. ~Free /\ e \in Equips /\ Top.u \in Ids \cup {NoUser}
    BY TopOK DEF Missed, Finished, AliasOps
  <1>2. CASE Missed
    <2>1. QuickTimeout(e, Top.u, <<>>) \/ Ban(e, Top.u, <<>>)
      BY <1>2 DEF Missed
    <2>. HIDE DEF e
    <2>. QED
      BY <1>1, <2>1, ShortSeqType, BanType, QuickTimeoutType
  <1>3. CASE Finished
    <2>1. Release(e, 0) \in Seq(Tasks)
      <3>. HIDE DEF e
      <3>. QED
        BY <1>1, ReleaseType, Nobody
    <2>2. (Run(Release(e, 0)) \/ Run(<<>>)) /\ out' = Silent /\ UNCHANGED <<eq, client>>
      BY <1>3 DEF Finished
    <2>3. eq' \in [Equips -> Equipments]
      BY <2>2 DEF TypeOK
    <2>. HIDE DEF e
    <2>. QED
      BY <1>1, <2>1, <2>2, <2>3, ShortSeqType, SilentType, StepType
  <1>. QED
    BY <1>2, <1>3

(* update_equipment_state keeps the types.                                  *)
LEMMA UpdateType ==
  ASSUME TypeOK, Update \/ WaitPolled \/ UpdateUse \/ UsePolled
  PROVE  TypeOK'
  <1>. DEFINE e == Top.e
  <1>1. ~Free /\ e \in Equips /\ Top.u \in Ids \cup {NoUser} /\ Top.n \in Int
    BY TopOK DEF Update, WaitPolled, UpdateUse, UsePolled, AliasOps
  <1>2. /\ eq[e] \in Equipments /\ eq[e].wait_user \in Ids \cup {NoUser}
        /\ eq[e].use_end_time \in Nat /\ eq \in [Equips -> Equipments]
    BY <1>1, RecordType DEF TypeOK
  <1>3. \A op \in {"decline", "pollWait", "pollUse", "updateUse"} :
          <<Task(op, e, NoUser, 0)>> \in Seq(Tasks)
    <2>1. {"decline", "pollWait", "pollUse", "updateUse"} \subseteq Ops
      BY DEF Ops, GiveOps, CallOps, RestOps
    <2>. HIDE DEF e
    <2>. QED
      BY <1>1, <2>1, TaskType, Nobody, ShortSeqType
  <1>4. CASE Update
    <2>1. \/ \E op \in {"decline", "pollWait", "pollUse"} : Run(<<Task(op, e, NoUser, 0)>>)
          \/ Run(<<>>)
      BY <1>4 DEF Update
    <2>2. out' = Silent /\ UNCHANGED <<eq, client>>
      BY <1>4 DEF Update
    <2>. HIDE DEF e
    <2>. QED
      BY <1>1, <1>2, <1>3, <2>1, <2>2, ShortSeqType, SilentType, StepType
  <1>5. CASE WaitPolled
    <2>. DEFINE u == eq[e].wait_user
                after == <<Task("updateUse", e, NoUser, 0)>>
    <2>1. \/ Run(MarkSteps(e, ByRef)) /\ out' = Silent /\ UNCHANGED <<eq, client>>
          \/ QuickTimeout(e, ByRef, after)
          \/ Ban(e, u, after)
          \/ Run(after) /\ out' = Silent /\ UNCHANGED <<eq, client>>
      BY <1>5 DEF WaitPolled
    <2>2. after \in Seq(Tasks) /\ ByRef \in Ids \cup {NoUser, ByRef}
      BY <1>3
    <2>3. MarkSteps(e, ByRef) \in Seq(Tasks)
      <3>. HIDE DEF e
      <3>. QED
        BY <1>1, MarkType
    <2>. HIDE DEF e, u, after
    <2>4. CASE QuickTimeout(e, ByRef, after)
      BY <1>1, <2>2, <2>4, QuickTimeoutType
    <2>5. CASE Ban(e, u, after)
      BY <1>1, <1>2, <2>2, <2>5, BanType DEF u
    <2>. QED
      BY <1>1, <1>2, <2>1, <2>2, <2>3, <2>4, <2>5, SilentType, StepType
  <1>6. CASE UpdateUse
    <2>1. Run(<<Task("pollUse", e, NoUser, 0)>>) \/ Run(<<>>)
      BY <1>6 DEF UpdateUse
    <2>2. out' = Silent /\ UNCHANGED <<eq, client>>
      BY <1>6 DEF UpdateUse
    <2>. HIDE DEF e
    <2>. QED
      BY <1>1, <1>2, <1>3, <2>1, <2>2, ShortSeqType, SilentType, StepType
  <1>7. CASE UsePolled
    <2>. DEFINE sync == Top.u # NoUser /\ Top.u = eq[e].use_user /\ Top.n >= 0
                left == IF sync THEN Top.n ELSE eq[e].use_end_time
                r == [eq[e] EXCEPT !.use_end_time = left]
    <2>1. r \in Equipments
      <3>1. left \in Nat
        BY <1>1, <1>2
      <3>. HIDE DEF left
      <3>. QED
        BY <1>2, <3>1 DEF Equipments
    <2>2. Release(e, 0) \in Seq(Tasks) /\ Release(e, 1) \in Seq(Tasks)
      <3>. HIDE DEF e
      <3>. QED
        BY <1>1, ReleaseType, Nobody
    <2>3. Run(Release(e, 0)) \/ Run(Release(e, 1)) \/ Run(<<>>)
      BY <1>7 DEF UsePolled
    <2>4. Becomes(e, r) /\ out' = Silent /\ UNCHANGED client
      BY <1>7 DEF UsePolled
    <2>. HIDE DEF e, r
    <2>. QED
      BY <1>1, <2>1, <2>2, <2>3, <2>4, BecomesType, ShortSeqType, SilentType, StepType
  <1>. QED
    BY <1>4, <1>5, <1>6, <1>7

(* So does any answer of any driver.                                        *)
LEMMA AnswerType ==
  ASSUME TypeOK, AnyAnswer
  PROVE  TypeOK'
  <1>1. PICK ev \in Events, u \in Ids \cup {NoUser}, n \in Replies :
          Answer(ev, u, n)
    BY DEF AnyAnswer
  <1>. DEFINE e == Top.e
              event == IF ev = NoEvent THEN <<>> ELSE <<Task(ev.op, e, ev.u, 0)>>
  <1>2. ~Free /\ e \in Equips
    BY <1>1, TopType DEF Answer, TypeOK
  <1>3. event \in Seq(Tasks)
    <2>1. CASE ev = NoEvent
      BY <2>1, ShortSeqType
    <2>2. CASE ev # NoEvent
      <3>1. ev.op \in Ops \ {"start"} /\ ev.u \in Ids \cup {NoUser}
        BY <2>2 DEF Events, EventOps, Ops
      <3>2. Task(ev.op, e, ev.u, 0) \in Tasks
        <4>. HIDE DEF e
        <4>. QED
          BY <1>2, <3>1, TaskType, Nobody
      <3>. QED
        BY <2>2, <3>2, ShortSeqType
    <2>. QED
      BY <2>1, <2>2
  <1>4. AfterCall(e, u, n) \in Seq(Tasks)
    <2>1. n \in Int
      BY ReplyAssumption
    <2>2. "waitPolled" \in Ops /\ "usePolled" \in Ops
      BY DEF Ops, RestOps
    <2>3. Task("waitPolled", e, u, 0) \in Tasks /\ Task("usePolled", e, u, n) \in Tasks
      <3>. HIDE DEF e
      <3>. QED
        BY <1>2, <2>1, <2>2, TaskType, Nobody
    <2>. QED
      BY <2>3, ShortSeqType DEF AfterCall
  <1>5. Run(event \o AfterCall(e, u, n)) /\ out' = Silent /\ UNCHANGED client
    BY <1>1 DEF Answer
  <1>6. eq' \in [Equips -> Equipments]
    BY <1>1 DEF Answer, TypeOK
  <1>7. event \o AfterCall(e, u, n) \in Seq(Tasks)
    <2>. HIDE DEF event, e
    <2>. QED
      BY <1>3, <1>4, ConcatProperties
  <1>. HIDE DEF event, e
  <1>. QED
    BY <1>2, <1>5, <1>6, <1>7, SilentType, StepType

(* So does the passing of a second.                                         *)
LEMMA TimerType ==
  ASSUME TypeOK, TimerRound
  PROVE  TypeOK'
  <1>1. /\ \A x \in Seconds : Down(x, Past) \in Seconds
        /\ \A x \in Nat : Down(x, 0) \in Nat
    BY DEF Down, Seconds, Past
  <1>2. eq' \in [Equips -> Equipments]
    <2>1. ASSUME NEW e \in Equips
          PROVE  [eq[e] EXCEPT !.wait_deadline = Down(@, Past), !.use_end_time = Down(@, 0),
                    !.continue_deadline = Down(@, 0)] \in Equipments
      <3>. DEFINE w == Down(eq[e].wait_deadline, Past)
                  v == Down(eq[e].use_end_time, 0)
                  c == Down(eq[e].continue_deadline, 0)
      <3>1. w \in Seconds /\ v \in Nat /\ c \in Nat
        BY <1>1 DEF TypeOK, Equipments
      <3>2. eq[e] \in Equipments
        BY RecordType
      <3>. HIDE DEF w, v, c
      <3>3. [eq[e] EXCEPT !.wait_deadline = w, !.use_end_time = v, !.continue_deadline = c]
              \in Equipments
        BY <3>1, <3>2 DEF Equipments
      <3>. QED
        BY <3>3 DEF w, v, c
    <2>. QED
      BY <2>1 DEF TimerRound
  <1>3. /\ client' \in [Slots -> Clients]
        /\ \A s \in Slots : client'[s].role = "USER" => client'[s].user_id \in Users
    <2>1. \A s \in Slots : [client[s] EXCEPT !.ban_end = Down(@, 0)] \in Clients
      BY <1>1 DEF TypeOK, Clients
    <2>2. \A s \in Slots : /\ client'[s] \in Clients
                           /\ client'[s].role = client[s].role
                           /\ client'[s].user_id = client[s].user_id
      BY <2>1 DEF TimerRound, TypeOK, Clients
    <2>3. client' = [s \in Slots |-> client'[s]]
      BY DEF TimerRound
    <2>. QED
      BY <2>2, <2>3 DEF TypeOK
  <1>4. agenda' \in Seq(Tasks)
    <2>1. \A i \in 1..EQUIP_COUNT : i - 1 \in Equips
      BY SizeAssumption DEF Equips
    <2>2. "update" \in Ops
      BY DEF Ops, RestOps
    <2>3. \A i \in 1..EQUIP_COUNT : Task("update", i - 1, NoUser, 0) \in Tasks
      BY <2>1, <2>2, TaskType, Nobody
    <2>4. [i \in 1..EQUIP_COUNT |-> Task("update", i - 1, NoUser, 0)] \in Seq(Tasks)
      BY <2>3, SizeAssumption, SeqDef
    <2>. QED
      BY <2>4 DEF TimerRound
  <1>. QED
    BY <1>2, <1>3, <1>4, SilentType DEF TimerRound, TypeOK

(* The types hold when main has filled its tables.                          *)
LEMMA InitType == Init => TypeOK
  <1>. SUFFICES ASSUME Init  PROVE TypeOK
    OBVIOUS
  <1>1. IdleEquipment \in Equipments
    BY TimeTypes, EmptySeq DEF IdleEquipment, Equipments
  <1>2. FreeSlot \in Clients /\ FreeSlot.role # "USER"
    BY DEF FreeSlot, Clients
  <1>3. <<>> \in Seq(Tasks)
    BY ShortSeqType
  <1>. QED
    BY <1>1, <1>2, <1>3, SilentType DEF Init, TypeOK

(* No step breaks the types.                                                *)
LEMMA NextType ==
  ASSUME TypeOK, [Next]_vars
  PROVE  TypeOK'
  <1>1. CASE ConnectionStep
    BY <1>1, ConnectionType
  <1>2. CASE CommandStep
    BY <1>2, CommandType
  <1>3. CASE HandlerStep
    BY <1>3, GiveTurnType, PromotingType, CheckinType, LeaveType, EventType, UpdateType
       DEF HandlerStep
  <1>4. CASE AnyAnswer
    BY <1>4, AnswerType
  <1>5. CASE TimerRound
    BY <1>5, TimerType
  <1>6. CASE UNCHANGED vars
    BY <1>6 DEF vars, TypeOK
  <1>. QED
    BY <1>1, <1>2, <1>3, <1>4, <1>5, <1>6 DEF Next

(* Every record, slot and pending task keeps the shape the code declares,   *)
(* whatever clients send and whatever the driver answers: in particular a   *)
(* queue only ever holds real ids and a pointer argument is only ever       *)
(* pending in the three calls that take one.                                *)
THEOREM TypeCorrect == Spec => []TypeOK
  <1>1. Init => TypeOK
    BY InitType
  <1>2. TypeOK /\ [Next]_vars => TypeOK'
    BY NextType
  <1>. QED
    BY <1>1, <1>2, PTL DEF Spec

-----------------------------------------------------------------------------
(* A machine that asks "once more?" asks somebody.  BanStopped empties      *)
(* continue_user without a look at the state, so the question must not be   *)
(* put while such a task is pending: the tasks that may still put one, the  *)
(* polls of update_equipment_state and what they push, are never on top of  *)
(* a banStopped.                                                            *)
Prompter(task) ==
  \/ task.op \in {"update", "updateUse", "pollWait", "waitPolled", "pollUse", "usePolled"}
  \/ task.op \in {"released", "giveTurn"} /\ task.n = 1

Bans(task) == task.op = "banStopped"

NoBanBelow ==
  \A i, j \in 1..Len(agenda) : i < j /\ Bans(agenda[j]) => ~Prompter(agenda[i])

Asked ==
  \A d \in Equips : eq[d].state = "WAITING_CONTINUE" =>
    /\ eq[d].continue_user # NoUser
    /\ \A i \in 1..Len(agenda) : ~(Bans(agenda[i]) /\ agenda[i].e = d)

PromptInv == NoBanBelow /\ Asked

BanFree == {task \in Tasks : ~Bans(task)}
Plain == {task \in Tasks : ~Bans(task) /\ ~Prompter(task)}

(* Where the tasks pushed and the tasks kept are after Run. *)
LEMMA RunPlaces ==
  ASSUME agenda \in Seq(Tasks), ~Free, NEW tasks \in Seq(Tasks), Run(tasks)
  PROVE  /\ Len(tasks) \in Nat /\ Len(agenda) \in Nat \ {0}
         /\ Len(agenda') = Len(tasks) + Len(agenda) - 1
         /\ \A i \in 1..Len(tasks) : agenda'[i] = tasks[i]
         /\ \A i \in (Len(tasks) + 1)..Len(agenda') :
              /\ i - Len(tasks) + 1 \in 2..Len(agenda)
              /\ agenda'[i] = agenda[i - Len(tasks) + 1]
         /\ Top = agenda[1] /\ Top \in Tasks
  <1>. DEFINE rest == Tail(agenda)
  <1>1. Len(agenda) \in Nat \ {0} /\ Len(tasks) \in Nat
    BY LenProperties DEF Free
  <1>2. /\ rest \in Seq(Tasks) /\ Len(rest) = Len(agenda) - 1
        /\ \A i \in 1..Len(rest) : rest[i] = agenda[i + 1]
    BY HeadTailProperties DEF Free
  <1>3. agenda' = tasks \o rest
    BY DEF Run
  <1>. HIDE DEF rest
  <1>4. /\ Len(agenda') = Len(tasks) + Len(rest)
        /\ \A i \in 1..Len(tasks) : agenda'[i] = tasks[i]
        /\ \A i \in (Len(tasks) + 1)..Len(agenda') : agenda'[i] = rest[i - Len(tasks)]
    <2>1. /\ Len(tasks \o rest) = Len(tasks) + Len(rest)
          /\ \A i \in 1..(Len(tasks) + Len(rest)) :
               (tasks \o rest)[i] = IF i <= Len(tasks) THEN tasks[i] ELSE rest[i - Len(tasks)]
      BY <1>2, ConcatProperties
    <2>. QED
      BY <1>1, <1>2, <1>3, <2>1
  <1>5. \A i \in (Len(tasks) + 1)..Len(agenda') :
          i - Len(tasks) \in 1..Len(rest) /\ i - Len(tasks) + 1 \in 2..Len(agenda)
    BY <1>1, <1>2, <1>4
  <1>6. Top = agenda[1] /\ Top \in Tasks
    BY TopType DEF Top
  <1>7. \A i \in (Len(tasks) + 1)..Len(agenda') : agenda'[i] = agenda[i - Len(tasks) + 1]
    BY <1>2, <1>4, <1>5
  <1>8. Len(agenda') = Len(tasks) + Len(agenda) - 1
    BY <1>1, <1>2, <1>4
  <1>. QED
    BY <1>1, <1>4, <1>5, <1>6, <1>7, <1>8

(* What a handler step must do for PromptInv to survive it.  Either the     *)
(* tasks it pushes neither ban nor prompt, or a prompter pushes tasks that  *)
(* do not ban, or a ban sets its machine idle; and the question is only     *)
(* put by a prompter.                                                       *)
LEMMA HandlerAsks ==
  ASSUME TypeOK, PromptInv, ~Free, NEW tasks \in Seq(Tasks), Run(tasks),
         NEW e \in Equips, e = Top.e,
         eq' = eq \/ \E r : Becomes(e, r),
         \/ tasks \in Seq(Plain)
         \/ Prompter(Top) /\ tasks \in Seq(BanFree),
         \/ eq'[e].state # "WAITING_CONTINUE"
         \/ eq'[e].state = eq[e].state /\ eq'[e].continue_user = eq[e].continue_user
         \/ Prompter(Top) /\ eq'[e].continue_user # NoUser
  PROVE  PromptInv'
  <1>. agenda \in Seq(Tasks)
    BY DEF TypeOK
  <1>. DEFINE k == Len(tasks)
  <1>1. /\ k \in Nat /\ Len(agenda) \in Nat \ {0} /\ Len(agenda') = k + Len(agenda) - 1
        /\ \A i \in 1..k : agenda'[i] = tasks[i]
        /\ \A i \in (k + 1)..Len(agenda') :
             i - k + 1 \in 2..Len(agenda) /\ agenda'[i] = agenda[i - k + 1]
        /\ Top = agenda[1]
    BY RunPlaces
  <1>2. \A i \in 1..k : ~Bans(tasks[i])
    BY ElementOfSeq DEF Plain, BanFree
  <1>3. Prompter(Top) \/ \A i \in 1..k : ~Prompter(tasks[i])
    BY ElementOfSeq DEF Plain
  <1>. HIDE DEF k
  <1>4. \A i \in 1..Len(agenda') : Bans(agenda'[i]) =>
          /\ i \in (k + 1)..Len(agenda') /\ i - k + 1 \in 2..Len(agenda)
          /\ Bans(agenda[i - k + 1]) /\ agenda'[i] = agenda[i - k + 1]
    BY <1>1, <1>2
  <1>5. Prompter(Top) => \A i \in 1..Len(agenda') : ~Bans(agenda'[i])
    <2>. SUFFICES ASSUME Prompter(Top), NEW i \in 1..Len(agenda'), Bans(agenda'[i])
                  PROVE  FALSE
      OBVIOUS
    <2>1. i - k + 1 \in 2..Len(agenda) /\ Bans(agenda[i - k + 1])
      BY <1>4
    <2>. QED
      BY <1>1, <2>1 DEF PromptInv, NoBanBelow
  <1>6. NoBanBelow'
    <2>. SUFFICES ASSUME NEW i \in 1..Len(agenda'), NEW j \in 1..Len(agenda'),
                         i < j, Bans(agenda'[j])
                  PROVE  ~Prompter(agenda'[i])
      BY DEF NoBanBelow, Bans, Prompter
    <2>1. ~Prompter(Top)
      BY <1>5
    <2>2. CASE i \in 1..k
      BY <1>1, <1>3, <2>1, <2>2
    <2>3. CASE i \in (k + 1)..Len(agenda')
      <3>1. /\ i - k + 1 \in 1..Len(agenda) /\ j - k + 1 \in 1..Len(agenda)
            /\ i - k + 1 < j - k + 1
            /\ agenda'[i] = agenda[i - k + 1] /\ Bans(agenda[j - k + 1])
        BY <1>1, <1>4, <2>3
      <3>. QED
        BY <3>1 DEF PromptInv, NoBanBelow
    <2>. QED
      BY <1>1, <2>2, <2>3
  <1>7. Asked'
    <2>. SUFFICES ASSUME NEW d \in Equips, eq'[d].state = "WAITING_CONTINUE"
                  PROVE  /\ eq'[d].continue_user # NoUser
                         /\ \A i \in 1..Len(agenda') : ~(Bans(agenda'[i]) /\ agenda'[i].e = d)
      BY DEF Asked, Equips, Bans
    <2>1. CASE eq'[d].state = eq[d].state /\ eq'[d].continue_user = eq[d].continue_user
      <3>1. eq[d].continue_user # NoUser
        BY <2>1 DEF PromptInv, Asked
      <3>2. \A i \in 1..Len(agenda) : ~(Bans(agenda[i]) /\ agenda[i].e = d)
        BY <2>1 DEF PromptInv, Asked
      <3>3. 2..Len(agenda) \subseteq 1..Len(agenda)
        BY <1>1
      <3>. QED
        BY <1>4, <2>1, <3>1, <3>2, <3>3
    <2>2. CASE d = e /\ Prompter(Top) /\ eq'[e].continue_user # NoUser
      BY <1>5, <2>2
    <2>3. d # e => eq'[d] = eq[d]
      BY DEF Becomes, TypeOK
    <2>. QED
      BY <2>1, <2>2, <2>3
  <1>. QED
    BY <1>6, <1>7 DEF PromptInv

(* A ban in the middle of the pending tasks, for a machine set idle. *)
LEMMA BanAsks ==
  ASSUME TypeOK, PromptInv, ~Free, NEW e \in Equips, e = Top.e, NEW u \in Ids \cup {NoUser},
         NEW after \in Seq(BanFree), Prompter(Top) \/ after = <<>>,
         Ban(e, u, after)
  PROVE  PromptInv'
  <1>. agenda \in Seq(Tasks)
    BY DEF TypeOK
  <1>. DEFINE stop == Task("stop", e, NoUser, 0)
              ban == Task("banStopped", e, u, 0)
              tasks == <<stop, ban>> \o after
              k == Len(tasks)
  <1>1. stop \in Tasks /\ ban \in Tasks /\ ~Bans(stop) /\ ~Prompter(stop) /\ Bans(ban) /\ ban.e = e
    <2>1. "stop" \in Ops /\ "banStopped" \in Ops
      BY DEF Ops, CallOps, GiveOps
    <2>2. stop \in Tasks /\ ban \in Tasks
      BY <2>1, TaskType, Nobody
    <2>. QED
      BY <2>2 DEF Task, Bans, Prompter
  <1>2. after \in Seq(Tasks) /\ \A i \in 1..Len(after) : ~Bans(after[i])
    <2>1. BanFree \subseteq Tasks
      BY DEF BanFree
    <2>. QED
      BY <2>1, ElementOfSeq DEF BanFree
  <1>. HIDE DEF stop, ban
  <1>3. /\ tasks \in Seq(Tasks) /\ Len(tasks) = 2 + Len(after)
        /\ tasks[1] = stop /\ tasks[2] = ban
        /\ \A i \in 3..Len(tasks) : i - 2 \in 1..Len(after) /\ tasks[i] = after[i - 2]
    BY <1>1, <1>2
  <1>4. Run(tasks)
    BY DEF Ban, stop, ban
  <1>. HIDE DEF tasks
  <1>5. /\ k \in Nat /\ Len(agenda) \in Nat \ {0} /\ Len(agenda') = k + Len(agenda) - 1
        /\ \A i \in 1..k : agenda'[i] = tasks[i]
        /\ \A i \in (k + 1)..Len(agenda') :
             i - k + 1 \in 2..Len(agenda) /\ agenda'[i] = agenda[i - k + 1]
        /\ Top = agenda[1]
    BY <1>3, <1>4, RunPlaces
  <1>6. \A i \in 1..k : (Bans(tasks[i]) => i = 2 /\ tasks[i].e = e) /\ (after = <<>> => ~Prompter(tasks[i]))
    <2>1. ~Prompter(ban)
      BY <1>1 DEF Prompter, Bans
    <2>2. Len(after) \in Nat /\ (after = <<>> => Len(after) = 0)
      BY <1>2, LenProperties
    <2>. QED
      BY <1>1, <1>2, <1>3, <2>1, <2>2
  <1>. HIDE DEF k
  <1>7. NoBanBelow'
    <2>. SUFFICES ASSUME NEW i \in 1..Len(agenda'), NEW j \in 1..Len(agenda'),
                         i < j, Bans(agenda'[j])
                  PROVE  ~Prompter(agenda'[i])
      BY DEF NoBanBelow, Bans, Prompter
    <2>1. CASE j \in 1..k
      <3>1. j = 2 /\ i = 1
        BY <1>5, <1>6, <2>1
      <3>. QED
        BY <1>1, <1>3, <1>5, <2>1, <3>1
    <2>2. CASE j \in (k + 1)..Len(agenda')
      <3>1. j - k + 1 \in 2..Len(agenda) /\ Bans(agenda[j - k + 1])
        BY <1>5, <2>2
      <3>2. ~Prompter(Top)
        <4>. DEFINE m == j - k + 1
        <4>1. m \in 2..Len(agenda) /\ Bans(agenda[m]) /\ Len(agenda) \in Nat
          BY <1>5, <3>1
        <4>. HIDE DEF m
        <4>2. 1 \in 1..Len(agenda) /\ m \in 1..Len(agenda) /\ 1 < m
          BY <4>1
        <4>. QED
          BY <1>5, <4>1, <4>2 DEF PromptInv, NoBanBelow
      <3>3. CASE i \in 1..k
        BY <1>5, <1>6, <3>2, <3>3
      <3>4. CASE i \in (k + 1)..Len(agenda')
        <4>1. /\ i - k + 1 \in 1..Len(agenda) /\ j - k + 1 \in 1..Len(agenda)
              /\ i - k + 1 < j - k + 1 /\ agenda'[i] = agenda[i - k + 1]
          BY <1>5, <3>1, <3>4
        <4>. QED
          BY <3>1, <4>1 DEF PromptInv, NoBanBelow
      <3>. QED
        BY <1>5, <3>3, <3>4
    <2>. QED
      BY <1>5, <2>1, <2>2
  <1>8. Asked'
    <2>. SUFFICES ASSUME NEW d \in Equips, eq'[d].state = "WAITING_CONTINUE"
                  PROVE  /\ eq'[d].continue_user # NoUser
                         /\ \A i \in 1..Len(agenda') : ~(Bans(agenda'[i]) /\ agenda'[i].e = d)
      BY DEF Asked, Equips, Bans
    <2>1. eq'[e].state = "IDLE"
      BY DEF Ban, Becomes, TypeOK, Equipments
    <2>2. d # e /\ eq'[d] = eq[d]
      BY <2>1 DEF Ban, Becomes, TypeOK
    <2>3. eq[d].continue_user # NoUser /\ \A i \in 2..Len(agenda) : ~(Bans(agenda[i]) /\ agenda[i].e = d)
      BY <1>5, <2>2 DEF PromptInv, Asked
    <2>4. ASSUME NEW i \in 1..Len(agenda'), Bans(agenda'[i]), agenda'[i].e = d  PROVE FALSE
      <3>1. CASE i \in 1..k
        BY <1>5, <1>6, <2>2, <2>4, <3>1
      <3>2. CASE i \in (k + 1)..Len(agenda')
        BY <1>5, <2>3, <2>4, <3>2
      <3>. QED
        BY <1>5, <3>1, <3>2
    <2>. QED
      BY <2>2, <2>3, <2>4
  <1>. QED
    BY <1>7, <1>8 DEF PromptInv

(* Which tasks ban nobody, and which do not prompt either. *)
PromptOps == {"update", "updateUse", "pollWait", "waitPolled", "pollUse", "usePolled"}

LEMMA PlainTask ==
  /\ \A op \in Ops \ {"banStopped"}, e \in Equips, u \in Ids \cup {NoUser}, n \in Int :
       op # "start" \/ u \in Ids =>
       /\ Task(op, e, u, n) \in BanFree
       /\ op \notin PromptOps \cup {"released", "giveTurn"} => Task(op, e, u, n) \in Plain
       /\ op \in {"released", "giveTurn"} /\ n # 1 => Task(op, e, u, n) \in Plain
  /\ \A op \in AliasOps, e \in Equips, n \in Int : Task(op, e, ByRef, n) \in Plain
  /\ Plain \subseteq BanFree /\ BanFree \subseteq Tasks
  <1>1. ASSUME NEW op \in Ops \ {"banStopped"}, NEW e \in Equips, NEW u \in Ids \cup {NoUser},
               NEW n \in Int, op # "start" \/ u \in Ids
        PROVE  /\ Task(op, e, u, n) \in BanFree
               /\ op \notin PromptOps \cup {"released", "giveTurn"} => Task(op, e, u, n) \in Plain
               /\ op \in {"released", "giveTurn"} /\ n # 1 => Task(op, e, u, n) \in Plain
    <2>1. Task(op, e, u, n) \in Tasks
      BY <1>1, TaskType
    <2>. QED
      BY <2>1 DEF BanFree, Plain, Bans, Prompter, PromptOps, Task
  <1>2. ASSUME NEW op \in AliasOps, NEW e \in Equips, NEW n \in Int
        PROVE  Task(op, e, ByRef, n) \in Plain
    <2>1. Task(op, e, ByRef, n) \in Tasks
      BY TaskType
    <2>. QED
      BY <2>1 DEF Plain, Bans, Prompter, AliasOps, Task
  <1>. QED
    BY <1>1, <1>2 DEF Plain, BanFree

(* What release_usage_and_promote and mark_user_checked_in push. *)
LEMMA ReleasePlain ==
  ASSUME TypeOK, NEW e \in Equips
  PROVE  Release(e, 0) \in Seq(Plain) /\ Release(e, 1) \in Seq(BanFree)
  <1>1. eq[e].use_user \in Ids \cup {NoUser}
    BY RecordType
  <1>2. /\ "stop" \in Ops \ {"banStopped"} /\ "released" \in Ops \ {"banStopped"}
        /\ "stop" \notin PromptOps \cup {"released", "giveTurn"}
    BY DEF Ops, CallOps, GiveOps, PromptOps
  <1>3. Task("stop", e, NoUser, 0) \in Plain /\ Task("stop", e, NoUser, 0) \in BanFree
    BY <1>2, PlainTask, Nobody
  <1>4. \A n \in Int : /\ Task("released", e, eq[e].use_user, n) \in BanFree
                       /\ n # 1 => Task("released", e, eq[e].use_user, n) \in Plain
    BY <1>1, <1>2, PlainTask
  <1>5. Task("released", e, eq[e].use_user, 0) \in Plain
        /\ Task("released", e, eq[e].use_user, 1) \in BanFree
    BY <1>4
  <1>. QED
    BY <1>3, <1>5, ShortSeqType DEF Release

LEMMA MarkPlain ==
  ASSUME NEW e \in Equips, NEW u \in Ids \cup {NoUser, ByRef}
  PROVE  MarkSteps(e, u) \in Seq(Plain)
  <1>1. {"dup", "inUse"} \subseteq (Ops \ {"banStopped"}) \cap AliasOps
    BY DEF Ops, RestOps, AliasOps
  <1>2. {"dup", "inUse"} \cap (PromptOps \cup {"released", "giveTurn"}) = {}
    BY DEF PromptOps
  <1>3. \A i \in 1..EQUIP_COUNT : i - 1 \in Equips
    BY SizeAssumption DEF Equips
  <1>4. e \in Int /\ EQUIP_COUNT \in Nat
    BY SizeAssumption DEF Equips
  <1>5. \A i \in 1..EQUIP_COUNT : Task("dup", i - 1, u, e) \in Plain
    BY <1>1, <1>2, <1>3, <1>4, PlainTask
  <1>6. Task("inUse", e, u, 0) \in Plain
    BY <1>1, <1>2, PlainTask, Nobody
  <1>7. [i \in 1..EQUIP_COUNT |-> Task("dup", i - 1, u, e)] \in Seq(Plain)
    BY <1>4, <1>5, SeqDef
  <1>. QED
    BY <1>6, <1>7, ShortSeqType, ConcatProperties DEF MarkSteps

(* Steps outside a handler: what they push does not ban, and they put no    *)
(* question.                                                                *)
LEMMA ClientAsks ==
  ASSUME TypeOK, PromptInv, ConnectionStep \/ CommandStep \/ TimerRound
  PROVE  PromptInv'
  <1>1. \A i \in 1..Len(agenda') : ~Bans(agenda'[i])
    <2>1. CASE UNCHANGED agenda /\ Free
      BY <2>1 DEF Free
    <2>2. ASSUME NEW s \in Slots, Disconnect(s)  PROVE \A i \in 1..Len(agenda') : ~Bans(agenda'[i])
      <3>. DEFINE T == [op : {"leaveUse", "leaveWait", "leaveQueue", "close"}, e : Int,
                        u : {client[s].user_id, NoUser}, n : Int]
      <3>1. CleanupSteps(client[s].user_id) \in Seq(T)
        <4>1. 3 * EQUIP_COUNT \in Nat
          BY SizeAssumption
        <4>2. \A i \in 1..(3 * EQUIP_COUNT) : CleanupSteps(client[s].user_id)[i] \in T
          BY SizeAssumption DEF CleanupSteps, Task
        <4>. HIDE DEF T
        <4>3. DOMAIN CleanupSteps(client[s].user_id) = 1..(3 * EQUIP_COUNT)
          BY DEF CleanupSteps
        <4>4. CleanupSteps(client[s].user_id)
                = [i \in 1..(3 * EQUIP_COUNT) |-> CleanupSteps(client[s].user_id)[i]]
          BY DEF CleanupSteps
        <4>. QED
          BY <4>1, <4>2, <4>3, <4>4, SeqDef
      <3>2. Task("close", 0, NoUser, s) \in T
        BY DEF Task, Slots
      <3>4. \A t \in T : ~Bans(t)
        BY DEF Bans
      <3>. HIDE DEF T
      <3>3. agenda' \in Seq(T)
        BY <2>2, <3>1, <3>2, ShortSeqType, ConcatProperties DEF Disconnect
      <3>. QED
        BY <3>4, <3>3, ElementOfSeq DEF Bans
    <2>3. CASE TimerRound
      <3>1. agenda' = [i \in 1..EQUIP_COUNT |-> Task("update", i - 1, NoUser, 0)]
        BY <2>3 DEF TimerRound
      <3>2. Len(agenda') = EQUIP_COUNT
        BY <3>1, SizeAssumption
      <3>. QED
        BY <3>1, <3>2 DEF Task, Bans
    <2>4. ASSUME NEW s \in Slots, NEW e \in Equips,
                 \/ ReserveFirst(s, e) \/ ReserveQueue(s, e) \/ CancelWait(s, e)
                 \/ CancelQueued(s, e) \/ QueryEquip(s, e) \/ ContinueYes(s, e) \/ ContinueNo(s, e)
          PROVE  \A i \in 1..Len(agenda') : ~Bans(agenda'[i])
      <3>. DEFINE T == [op : Ops \ {"banStopped"}, e : {e}, u : {client[s].user_id, NoUser,
                        eq[e].continue_user}, n : Int]
      <3>1. agenda' = <<>> \/ (\E a \in T : agenda' = <<a>>) \/ (\E a, b \in T : agenda' = <<a, b>>)
        <4>1. {"start", "RESERVE_FIRST", "CONTINUE_YES", "decline", "stop", "cancelled", "query"}
                \subseteq Ops \ {"banStopped"}
          BY DEF Ops, CallOps, GiveOps, TellOps
        <4>2. \A op \in Ops \ {"banStopped"}, n \in Int,
                 u \in {client[s].user_id, NoUser, eq[e].continue_user} : Task(op, e, u, n) \in T
          BY DEF Task
        <4>3. CHECKIN_WINDOW \in Int /\ 0 \in Int
          BY TimeTypes
        <4>. HIDE DEF T
        <4>4. CASE ReserveFirst(s, e)
          BY <4>1, <4>2, <4>3, <4>4 DEF ReserveFirst
        <4>5. CASE ReserveQueue(s, e)
          BY <4>1, <4>2, <4>3, <4>5 DEF ReserveQueue
        <4>6. CASE CancelWait(s, e) \/ QueryEquip(s, e) \/ ContinueNo(s, e)
          BY <4>1, <4>2, <4>3, <4>6 DEF CancelWait, QueryEquip, ContinueNo
        <4>7. CASE CancelQueued(s, e)
          BY <4>7 DEF CancelQueued, Free
        <4>8. CASE ContinueYes(s, e)
          BY <4>1, <4>2, <4>3, <4>8 DEF ContinueYes
        <4>. QED
          BY <2>4, <4>4, <4>5, <4>6, <4>7, <4>8
      <3>2. \A a \in T : ~Bans(a)
        BY DEF Bans
      <3>. QED
        BY <3>1, <3>2
    <2>. QED
      BY <2>1, <2>2, <2>3, <2>4
         DEF ConnectionStep, CommandStep, Accept, Login, LoginDriver
  <1>2. ASSUME NEW d \in Equips, eq'[d].state = "WAITING_CONTINUE"
        PROVE  eq[d].state = "WAITING_CONTINUE" /\ eq'[d].continue_user = eq[d].continue_user
    <2>1. CASE eq'[d] = eq[d]
      BY <1>2, <2>1
    <2>2. CASE TimerRound
      <3>1. eq'[d] = [eq[d] EXCEPT !.wait_deadline = Down(@, Past),
                        !.use_end_time = Down(@, 0), !.continue_deadline = Down(@, 0)]
        BY <2>2 DEF TimerRound
      <3>. QED
        BY <1>2, <3>1, RecordType DEF Equipments
    <2>3. ASSUME NEW s \in Slots,
                 \/ ReserveFirst(s, d) \/ ReserveQueue(s, d) \/ CancelQueued(s, d) \/ ContinueYes(s, d)
          PROVE  eq[d].state = "WAITING_CONTINUE" /\ eq'[d].continue_user = eq[d].continue_user
      <3>1. eq[d] \in Equipments
        BY RecordType
      <3>2. CASE ReserveFirst(s, d) \/ ContinueYes(s, d)
        <4>1. eq'[d].state = "WAITING_CHECKIN"
          <5>1. CASE ReserveFirst(s, d)
            BY <3>1, <5>1 DEF ReserveFirst, Becomes, TypeOK, Equipments
          <5>2. CASE ContinueYes(s, d)
            BY <3>1, <5>2 DEF ContinueYes, Becomes, TypeOK, Equipments
          <5>. QED
            BY <3>2, <5>1, <5>2
        <4>. QED
          BY <1>2, <4>1
      <3>3. CASE ReserveQueue(s, d) \/ CancelQueued(s, d)
        <4>1. eq'[d].state = eq[d].state /\ eq'[d].continue_user = eq[d].continue_user
          BY <3>1, <3>3 DEF ReserveQueue, CancelQueued, Becomes, TypeOK, Equipments
        <4>. QED
          BY <1>2, <4>1
      <3>. QED
        BY <2>3, <3>2, <3>3
    <2>4. ASSUME NEW s \in Slots, NEW e \in Equips,
                 \/ ReserveFirst(s, e) \/ ReserveQueue(s, e) \/ CancelQueued(s, e) \/ ContinueYes(s, e)
          PROVE  eq'[d] = eq[d] \/ d = e
      BY <2>4 DEF ReserveFirst, ReserveQueue, CancelQueued, ContinueYes, Becomes, TypeOK
    <2>5. CASE ConnectionStep
      BY <2>1, <2>5 DEF ConnectionStep, Accept, LoginDriver, Disconnect, Login
    <2>6. CASE CommandStep
      <3>1. PICK s \in Slots, e \in Equips :
              \/ ReserveFirst(s, e) \/ ReserveQueue(s, e) \/ CancelWait(s, e)
              \/ CancelQueued(s, e) \/ QueryEquip(s, e) \/ ContinueYes(s, e) \/ ContinueNo(s, e)
        BY <2>6 DEF CommandStep
      <3>2. CASE CancelWait(s, e) \/ QueryEquip(s, e) \/ ContinueNo(s, e)
        BY <2>1, <3>2 DEF CancelWait, QueryEquip, ContinueNo
      <3>. QED
        BY <2>1, <2>3, <2>4, <3>1, <3>2
    <2>. QED
      BY <2>2, <2>5, <2>6
  <1>3. NoBanBelow'
    BY <1>1 DEF NoBanBelow, Bans, Prompter
  <1>4. Asked'
    <2>. SUFFICES ASSUME NEW d \in Equips, eq'[d].state = "WAITING_CONTINUE"
                  PROVE  eq'[d].continue_user # NoUser
      BY <1>1 DEF Asked, Equips, Bans
    <2>. QED
      BY <1>2 DEF PromptInv, Asked
  <1>. QED
    BY <1>3, <1>4 DEF PromptInv

(* A driver call that returns changes no record; only a poll leaves a task  *)
(* that may prompt.                                                         *)
LEMMA AnswerAsks ==
  ASSUME TypeOK, PromptInv, AnyAnswer
  PROVE  PromptInv'
  <1>1. PICK ev \in Events, u \in Ids \cup {NoUser}, n \in Replies : Answer(ev, u, n)
    BY DEF AnyAnswer
  <1>2. PICK e \in Equips : e = Top.e
    BY <1>1, TopType DEF Answer, TypeOK
  <1>. DEFINE event == IF ev = NoEvent THEN <<>> ELSE <<Task(ev.op, e, ev.u, 0)>>
              after == AfterCall(e, u, n)
  <1>3. ~Free /\ Run(event \o after) /\ UNCHANGED eq
    BY <1>1, <1>2 DEF Answer
  <1>4. event \in Seq(Plain) /\ event \in Seq(BanFree)
    <2>1. CASE ev = NoEvent
      BY <2>1, ShortSeqType
    <2>2. CASE ev # NoEvent
      <3>1. ev.op \in EventOps /\ ev.u \in Ids \cup {NoUser}
        BY <2>2 DEF Events
      <3>2. /\ EventOps \subseteq Ops \ {"banStopped"} /\ "start" \notin EventOps
            /\ EventOps \cap (PromptOps \cup {"released", "giveTurn"}) = {}
        BY DEF EventOps, Ops, PromptOps
      <3>3. Task(ev.op, e, ev.u, 0) \in Plain /\ Task(ev.op, e, ev.u, 0) \in BanFree
        BY <3>1, <3>2, PlainTask, Nobody
      <3>. QED
        BY <2>2, <3>3, ShortSeqType
    <2>. QED
      BY <2>1, <2>2
  <1>5. CASE Top.op \in {"pollWait", "pollUse"}
    <2>1. {"waitPolled", "usePolled"} \subseteq Ops \ {"banStopped"}
      BY DEF Ops, RestOps
    <2>2. n \in Int
      BY ReplyAssumption
    <2>3. Task("waitPolled", e, u, 0) \in BanFree /\ Task("usePolled", e, u, n) \in BanFree
      BY <2>1, <2>2, PlainTask, Nobody
    <2>4. after \in Seq(BanFree)
      BY <1>5, <2>3, ShortSeqType DEF AfterCall
    <2>5. Prompter(Top)
      BY <1>5 DEF Prompter
    <2>. HIDE DEF event, after
    <2>6. event \o after \in Seq(BanFree)
      BY <1>4, <2>4, ConcatProperties
    <2>7. event \o after \in Seq(Tasks)
      BY <2>6, PlainTask
    <2>. QED
      BY <1>2, <1>3, <2>5, <2>6, <2>7, HandlerAsks
  <1>6. CASE Top.op \notin {"pollWait", "pollUse"}
    <2>1. after = <<>>
      BY <1>6 DEF AfterCall
    <2>. HIDE DEF event, after
    <2>2. event \o after \in Seq(Plain)
      BY <1>4, <2>1, ShortSeqType, ConcatProperties
    <2>3. event \o after \in Seq(Tasks)
      BY <2>2, PlainTask
    <2>. QED
      BY <1>2, <1>3, <2>2, <2>3, HandlerAsks
  <1>. QED
    BY <1>5, <1>6

(* Steps that write no record. *)
LEMMA QuietAsks ==
  ASSUME TypeOK, PromptInv,
         Say \/ Dup \/ CheckedIn \/ LeaveUse \/ Close \/ Finished \/ Update \/ UpdateUse
  PROVE  PromptInv'
  <1>1. ~Free /\ UNCHANGED eq
    BY DEF Say, Dup, CheckedIn, LeaveUse, Close, Finished, Update, UpdateUse, At
  <1>2. Top.e \in Equips /\ Top.u \in Ids \cup {NoUser, ByRef}
    BY <1>1, TopType DEF TypeOK
  <1>3. PICK e \in Equips : e = Top.e
    BY <1>2
  <1>4. ASSUME NEW tasks \in Seq(Plain), Run(tasks)  PROVE PromptInv'
    <2>1. tasks \in Seq(Tasks)
      BY PlainTask
    <2>. QED
      BY <1>1, <1>3, <1>4, <2>1, HandlerAsks
  <1>5. ASSUME NEW tasks \in Seq(BanFree), Run(tasks), Prompter(Top)  PROVE PromptInv'
    <2>1. tasks \in Seq(Tasks)
      BY PlainTask
    <2>. QED
      BY <1>1, <1>3, <1>5, <2>1, HandlerAsks
  <1>6. CASE Say \/ Close
    <2>1. Run(<<>>)
      BY <1>6 DEF Say, Close
    <2>. QED
      BY <1>4, <2>1, ShortSeqType
  <1>7. CASE Dup
    <2>1. /\ "stop" \in Ops \ {"banStopped"} /\ "dupStopped" \in Ops \ {"banStopped"}
          /\ {"stop", "dupStopped"} \cap (PromptOps \cup {"released", "giveTurn"}) = {}
      BY DEF Ops, CallOps, GiveOps, PromptOps
    <2>2. Task("stop", e, NoUser, 0) \in Plain /\ Task("dupStopped", e, NoUser, 0) \in Plain
      BY <2>1, PlainTask, Nobody
    <2>3. \/ Run(<<Task("stop", e, NoUser, 0), Task("dupStopped", e, NoUser, 0)>>)
          \/ Run(<<>>)
      BY <1>3, <1>7 DEF Dup
    <2>. QED
      BY <1>4, <2>2, <2>3, ShortSeqType
  <1>8. CASE CheckedIn
    <2>1. Run(MarkSteps(e, Top.u))
      BY <1>3, <1>8 DEF CheckedIn
    <2>. QED
      BY <1>2, <1>4, <2>1, MarkPlain
  <1>9. CASE LeaveUse \/ Finished
    <2>1. Run(Release(e, 0)) \/ Run(<<>>)
      BY <1>3, <1>9 DEF LeaveUse, Finished
    <2>. QED
      BY <1>4, <2>1, ReleasePlain, ShortSeqType
  <1>10. CASE Update \/ UpdateUse
    <2>1. {"decline", "pollWait", "pollUse"} \subseteq Ops \ {"banStopped"}
      BY DEF Ops, CallOps, GiveOps
    <2>2. /\ Task("decline", e, NoUser, 0) \in BanFree /\ Task("pollWait", e, NoUser, 0) \in BanFree
          /\ Task("pollUse", e, NoUser, 0) \in BanFree
      BY <2>1, PlainTask, Nobody
    <2>3. \/ Run(<<Task("decline", e, NoUser, 0)>>) \/ Run(<<Task("pollWait", e, NoUser, 0)>>)
          \/ Run(<<Task("pollUse", e, NoUser, 0)>>) \/ Run(<<>>)
      BY <1>3, <1>10 DEF Update, UpdateUse
    <2>4. Prompter(Top)
      BY <1>10 DEF Update, UpdateUse, At, Top, Prompter
    <2>. QED
      BY <1>5, <2>2, <2>3, <2>4, ShortSeqType
  <1>. QED
    BY <1>6, <1>7, <1>8, <1>9, <1>10

(* give_turn_to_next: only a prompter's call of it puts a question, and to  *)
(* somebody.                                                                *)
LEMMA GiveTurnAsks ==
  ASSUME TypeOK, PromptInv, GiveTurnQueued \/ GiveTurnNobody
  PROVE  PromptInv'
  <1>1. ~Free /\ Top.e \in Equips
    BY TopOK DEF GiveTurnQueued, GiveTurnNobody
  <1>2. PICK e \in Equips : e = Top.e
    BY <1>1
  <1>3. eq[e] \in Equipments /\ eq[e].queue \in Seq(Ids)
    BY RecordType
  <1>4. \E r : Becomes(e, r)
    BY <1>2 DEF GiveTurnQueued, GiveTurnNobody
  <1>5. CASE GiveTurnQueued
    <2>. DEFINE u == Head(eq[e].queue)
                secs == IF CurrentlyUsing(u) THEN QUICK_CHECKIN_WINDOW ELSE CHECKIN_WINDOW
                a == Task("start", e, u, secs)
                b == Task("YOUR_TURN", e, u, 0)
    <2>1. eq'[e].state = "WAITING_CHECKIN"
      BY <1>2, <1>3, <1>5 DEF GiveTurnQueued, Becomes, TypeOK, Equipments
    <2>2. Run(<<a, b>>)
      BY <1>2, <1>5 DEF GiveTurnQueued
    <2>3. u \in Ids /\ u \in Ids \cup {NoUser} /\ secs \in Int
      BY <1>2, <1>3, <1>5, QueueType, TimeTypes DEF GiveTurnQueued
    <2>4. /\ "start" \in Ops \ {"banStopped"} /\ "YOUR_TURN" \in Ops \ {"banStopped"}
          /\ {"start", "YOUR_TURN"} \cap (PromptOps \cup {"released", "giveTurn"}) = {}
      BY DEF Ops, CallOps, TellOps, PromptOps
    <2>. HIDE DEF u, secs
    <2>5. a \in Plain /\ b \in Plain
      BY <2>3, <2>4, PlainTask, Nobody
    <2>. HIDE DEF a, b
    <2>6. <<a, b>> \in Seq(Plain) /\ <<a, b>> \in Seq(Tasks)
      BY <2>5, PlainTask, ShortSeqType
    <2>. QED
      BY <1>1, <1>2, <1>4, <2>1, <2>2, <2>6, HandlerAsks
  <1>6. CASE GiveTurnNobody
    <2>. DEFINE prompt == Top.n = 1 /\ Top.u # NoUser
    <2>1. Run(<<>>) /\ Top.op = "giveTurn"
      BY <1>6 DEF GiveTurnNobody, At, Top
    <2>2. IF prompt THEN eq'[e].continue_user = Top.u ELSE eq'[e].state = "IDLE"
      BY <1>2, <1>3, <1>6 DEF GiveTurnNobody, Becomes, TypeOK, Equipments
    <2>3. prompt => Prompter(Top)
      BY <2>1 DEF Prompter
    <2>4. eq'[e].state # "WAITING_CONTINUE" \/ (Prompter(Top) /\ eq'[e].continue_user # NoUser)
      BY <2>2, <2>3
    <2>5. <<>> \in Seq(Plain) /\ <<>> \in Seq(Tasks)
      BY ShortSeqType
    <2>. QED
      BY <1>1, <1>2, <1>4, <2>1, <2>4, <2>5, HandlerAsks
  <1>. QED
    BY <1>5, <1>6

(* Steps that hand a machine on. *)
LEMMA PromotingAsks ==
  ASSUME TypeOK, PromptInv,
         Decline \/ BanStopped \/ QuickStopped \/ DupStopped \/ Released \/ Cancelled
  PROVE  PromptInv'
  <1>1. ~Free /\ Top.e \in Equips /\ Top.n \in Int
    BY TopOK DEF Decline, BanStopped, QuickStopped, DupStopped, Released, Cancelled
  <1>2. PICK e \in Equips : e = Top.e
    BY <1>1
  <1>3. eq[e] \in Equipments
    BY RecordType
  <1>4. \E r : Becomes(e, r)
    BY <1>2 DEF Decline, BanStopped, QuickStopped, DupStopped, Released, Cancelled
  <1>5. \/ eq'[e].state # "WAITING_CONTINUE"
        \/ eq'[e].state = eq[e].state /\ eq'[e].continue_user = eq[e].continue_user
    <2>1. CASE Decline
      BY <1>2, <1>3, <2>1 DEF Decline, Becomes, TypeOK, Equipments
    <2>2. CASE BanStopped
      <3>1. eq[e].state # "WAITING_CONTINUE"
        <4>1. 1 \in 1..Len(agenda) /\ Top = agenda[1]
          BY <1>1, LenProperties DEF TypeOK, Free, Top
        <4>2. Bans(agenda[1]) /\ agenda[1].e = e
          BY <1>2, <2>2, <4>1 DEF BanStopped, At, Top, Bans
        <4>. QED
          BY <4>1, <4>2 DEF PromptInv, Asked
      <3>2. eq'[e].state = eq[e].state
        BY <1>2, <1>3, <2>2 DEF BanStopped, Becomes, TypeOK, Equipments
      <3>. QED
        BY <3>1, <3>2
    <2>3. CASE QuickStopped
      BY <1>2, <1>3, <2>3 DEF QuickStopped, Becomes, TypeOK, Equipments
    <2>4. CASE DupStopped
      BY <1>2, <1>3, <2>4 DEF DupStopped, Becomes, TypeOK, Equipments
    <2>5. CASE Released
      BY <1>2, <1>3, <2>5 DEF Released, Becomes, TypeOK, Equipments
    <2>6. CASE Cancelled
      BY <1>2, <1>3, <2>6 DEF Cancelled, Becomes, TypeOK, Equipments
    <2>. QED
      BY <2>1, <2>2, <2>3, <2>4, <2>5, <2>6
  <1>6. ASSUME NEW tasks, Run(tasks),
               tasks \in Seq(Plain) \/ (Prompter(Top) /\ tasks \in Seq(BanFree))
        PROVE  PromptInv'
    <2>1. tasks \in Seq(Tasks)
      BY <1>6, PlainTask
    <2>. QED
      BY <1>1, <1>2, <1>4, <1>5, <1>6, <2>1, HandlerAsks
  <1>7. PromptInv'
    <2>1. /\ "giveTurn" \in Ops \ {"banStopped"} /\ "CANCEL_OK" \in Ops \ {"banStopped"}
          /\ "CANCEL_OK" \notin PromptOps \cup {"released", "giveTurn"}
      BY DEF Ops, GiveOps, TellOps, PromptOps
    <2>2. Task("giveTurn", e, NoUser, 0) \in Plain
      BY <2>1, PlainTask, Nobody
    <2>3. CASE Decline \/ BanStopped \/ QuickStopped \/ DupStopped
      <3>1. Run(<<Task("giveTurn", e, NoUser, 0)>>)
        BY <1>2, <2>3 DEF Decline, BanStopped, QuickStopped, DupStopped
      <3>2. <<Task("giveTurn", e, NoUser, 0)>> \in Seq(Plain)
        BY <2>2, ShortSeqType
      <3>. QED
        BY <1>6, <3>1, <3>2
    <2>4. CASE Released
      <3>. DEFINE a == Task("giveTurn", e, Top.u, Top.n)
      <3>1. Run(<<a>>) /\ Top.op = "released"
        BY <1>2, <2>4 DEF Released, At, Top
      <3>2. Top.u \in Ids \cup {NoUser}
        BY <2>4, TopOK DEF Released, AliasOps
      <3>3. a \in BanFree /\ (Top.n # 1 => a \in Plain)
        BY <1>1, <2>1, <3>2, PlainTask
      <3>4. Top.n = 1 => Prompter(Top)
        BY <3>1 DEF Prompter
      <3>. HIDE DEF a
      <3>5. <<a>> \in Seq(Plain) \/ (Prompter(Top) /\ <<a>> \in Seq(BanFree))
        BY <3>3, <3>4, ShortSeqType
      <3>. QED
        BY <1>6, <3>1, <3>5
    <2>5. CASE Cancelled
      <3>. DEFINE a == Task("giveTurn", e, NoUser, 0)
                  b == Task("CANCEL_OK", e, Top.u, 0)
      <3>1. Run(<<a, b>>)
        BY <1>2, <2>5 DEF Cancelled
      <3>2. Top.u \in Ids \cup {NoUser}
        BY <2>5, TopOK DEF Cancelled, AliasOps
      <3>3. b \in Plain
        BY <2>1, <3>2, PlainTask, Nobody
      <3>4. <<a, b>> \in Seq(Plain)
        BY <2>2, <3>3, ShortSeqType
      <3>. HIDE DEF a, b
      <3>. QED
        BY <1>6, <3>1, <3>4
    <2>. QED
      BY <2>3, <2>4, <2>5
  <1>. QED
    BY <1>7

(* The other steps that write a record. *)
LEMMA WritingAsks ==
  ASSUME TypeOK, PromptInv,
         InUse \/ LeaveWait \/ LeaveQueue \/ Missed \/ WaitPolled \/ UsePolled
  PROVE  PromptInv'
  <1>1. ~Free /\ Top.e \in Equips /\ Top.u \in Ids \cup {NoUser, ByRef}
    BY TopOK DEF InUse, LeaveWait, LeaveQueue, Missed, WaitPolled, UsePolled
  <1>2. PICK e \in Equips : e = Top.e
    BY <1>1
  <1>3. eq[e] \in Equipments
    BY RecordType
  <1>. DEFINE Keeps == eq'[e].state = eq[e].state /\ eq'[e].continue_user = eq[e].continue_user
  <1>4. ASSUME NEW tasks \in Seq(Plain), Run(tasks), eq' = eq \/ \E r : Becomes(e, r),
               eq'[e].state # "WAITING_CONTINUE" \/ Keeps
        PROVE  PromptInv'
    <2>1. tasks \in Seq(Tasks)
      BY PlainTask
    <2>. QED
      BY <1>1, <1>2, <1>4, <2>1, HandlerAsks
  <1>5. ASSUME NEW tasks \in Seq(BanFree), Run(tasks), eq' = eq \/ \E r : Becomes(e, r),
               Keeps, Prompter(Top)
        PROVE  PromptInv'
    <2>1. tasks \in Seq(Tasks)
      BY PlainTask
    <2>. QED
      BY <1>1, <1>2, <1>5, <2>1, HandlerAsks
  <1>6. {"startUsage", "stop", "giveTurn", "quickStopped", "updateUse"} \subseteq Ops \ {"banStopped"}
    BY DEF Ops, CallOps, GiveOps, RestOps
  <1>7. {"startUsage", "stop", "quickStopped"} \cap (PromptOps \cup {"released", "giveTurn"}) = {}
    BY DEF PromptOps
  <1>8. CASE InUse
    <2>. DEFINE a == Task("startUsage", e, IF Top.u = ByRef THEN NoUser ELSE Top.u, USAGE_TIME)
    <2>1. Run(<<a>>) /\ \E r : Becomes(e, r)
      BY <1>2, <1>8 DEF InUse
    <2>2. eq'[e].state = "IN_USE"
      BY <1>2, <1>3, <1>8 DEF InUse, Becomes, TypeOK, Equipments
    <2>3. USAGE_TIME \in Int
      BY TimeAssumption
    <2>4. a \in Plain
      BY <1>1, <1>6, <1>7, <2>3, PlainTask
    <2>. HIDE DEF a
    <2>. QED
      BY <1>4, <2>1, <2>2, <2>4, ShortSeqType
  <1>9. CASE LeaveWait \/ LeaveQueue
    <2>1. Task("stop", e, NoUser, 0) \in Plain /\ Task("giveTurn", e, NoUser, 0) \in Plain
      BY <1>6, <1>7, PlainTask, Nobody
    <2>2. /\ \/ Run(<<>>)
             \/ Run(<<Task("stop", e, NoUser, 0), Task("giveTurn", e, NoUser, 0)>>)
          /\ eq' = eq \/ \E r : Becomes(e, r)
      BY <1>2, <1>9 DEF LeaveWait, LeaveQueue
    <2>3. Keeps
      <3>1. \/ UNCHANGED eq
            \/ Becomes(e, [eq[e] EXCEPT !.wait_user = NoUser, !.wait_deadline = Past])
            \/ \E queue : Becomes(e, [eq[e] EXCEPT !.queue = queue])
        BY <1>2, <1>9 DEF LeaveWait, LeaveQueue
      <3>2. CASE UNCHANGED eq
        BY <3>2
      <3>3. CASE Becomes(e, [eq[e] EXCEPT !.wait_user = NoUser, !.wait_deadline = Past])
        BY <1>3, <3>3 DEF Becomes, TypeOK, Equipments
      <3>4. CASE \E queue : Becomes(e, [eq[e] EXCEPT !.queue = queue])
        BY <1>3, <3>4 DEF Becomes, TypeOK, Equipments
      <3>. QED
        BY <3>1, <3>2, <3>3, <3>4
    <2>. QED
      BY <1>4, <2>1, <2>2, <2>3, ShortSeqType
  <1>10. ASSUME NEW u \in Ids \cup {NoUser, ByRef}, NEW after \in Seq(BanFree),
                Prompter(Top) \/ after = <<>>, QuickTimeout(e, u, after)
         PROVE  PromptInv'
    <2>. DEFINE a == Task("stop", e, NoUser, 0)
                b == Task("quickStopped", e, u, 0)
    <2>1. Run(<<a, b>> \o after) /\ \E r : Becomes(e, r)
      BY <1>10 DEF QuickTimeout
    <2>2. Keeps
      BY <1>3, <1>10 DEF QuickTimeout, Becomes, TypeOK, Equipments
    <2>3. a \in Plain
      BY <1>6, <1>7, PlainTask, Nobody
    <2>4. b \in Plain
      BY <1>6, <1>7, PlainTask, Nobody DEF AliasOps
    <2>5. <<a, b>> \in Seq(Plain) /\ <<a, b>> \in Seq(BanFree)
      BY <2>3, <2>4, PlainTask, ShortSeqType
    <2>. HIDE DEF a, b
    <2>6. <<a, b>> \o after \in Seq(BanFree)
      BY <2>5, ConcatProperties
    <2>7. after = <<>> => <<a, b>> \o after \in Seq(Plain)
      BY <2>5, ShortSeqType, ConcatProperties
    <2>. QED
      BY <1>4, <1>5, <1>10, <2>1, <2>2, <2>6, <2>7
  <1>11. CASE Missed
    <2>1. Ban(e, Top.u, <<>>) \/ QuickTimeout(e, Top.u, <<>>)
      BY <1>2, <1>11 DEF Missed
    <2>2. <<>> \in Seq(BanFree)
      BY ShortSeqType
    <2>3. Top.u \in Ids \cup {NoUser}
      BY <1>11, TopOK DEF Missed, AliasOps
    <2>. QED
      BY <1>1, <1>2, <1>10, <2>1, <2>2, <2>3, BanAsks
  <1>12. CASE WaitPolled
    <2>. DEFINE after == <<Task("updateUse", e, NoUser, 0)>>
    <2>1. after \in Seq(BanFree)
      BY <1>6, PlainTask, Nobody, ShortSeqType
    <2>2. Prompter(Top)
      BY <1>12 DEF WaitPolled, At, Top, Prompter
    <2>3. \/ Run(MarkSteps(e, ByRef)) /\ UNCHANGED eq
          \/ QuickTimeout(e, ByRef, after)
          \/ Ban(e, eq[e].wait_user, after)
          \/ Run(after) /\ UNCHANGED eq
      BY <1>2, <1>12 DEF WaitPolled
    <2>4. MarkSteps(e, ByRef) \in Seq(Plain)
      BY MarkPlain
    <2>5. eq[e].wait_user \in Ids \cup {NoUser}
      BY RecordType
    <2>. HIDE DEF after
    <2>. QED
      BY <1>1, <1>2, <1>4, <1>5, <1>10, <2>1, <2>2, <2>3, <2>4, <2>5, BanAsks
  <1>13. CASE UsePolled
    <2>1. PICK left : Becomes(e, [eq[e] EXCEPT !.use_end_time = left])
      BY <1>2, <1>13 DEF UsePolled
    <2>2. Keeps
      BY <1>3, <2>1 DEF Becomes, TypeOK, Equipments
    <2>3. Run(Release(e, 0)) \/ Run(Release(e, 1)) \/ Run(<<>>)
      BY <1>2, <1>13 DEF UsePolled
    <2>4. Release(e, 0) \in Seq(BanFree) /\ Release(e, 1) \in Seq(BanFree) /\ <<>> \in Seq(BanFree)
      BY ReleasePlain, PlainTask, ShortSeqType
    <2>5. Prompter(Top)
      BY <1>13 DEF UsePolled, At, Top, Prompter
    <2>. QED
      BY <1>5, <2>1, <2>2, <2>3, <2>4, <2>5
  <1>. QED
    BY <1>8, <1>9, <1>11, <1>12, <1>13

(* A machine that asks always asks somebody. *)
THEOREM SomebodyAsked == Spec => []PromptInv
  <1>1. Init => PromptInv
    BY DEF Init, IdleEquipment, PromptInv, NoBanBelow, Asked
  <1>2. TypeOK /\ PromptInv /\ [Next]_vars => PromptInv'
    <2>. SUFFICES ASSUME TypeOK, PromptInv, [Next]_vars  PROVE PromptInv'
      OBVIOUS
    <2>1. CASE ConnectionStep \/ CommandStep \/ TimerRound
      BY <2>1, ClientAsks
    <2>2. CASE HandlerStep
      BY <2>2, GiveTurnAsks, PromotingAsks, QuietAsks, WritingAsks DEF HandlerStep
    <2>3. CASE AnyAnswer
      BY <2>3, AnswerAsks
    <2>4. CASE UNCHANGED vars
      BY <2>4 DEF vars, PromptInv, NoBanBelow, Asked
    <2>. QED
      BY <2>1, <2>2, <2>3, <2>4 DEF Next
  <1>. QED
    BY <1>1, <1>2, TypeCorrect, PTL DEF Spec

-----------------------------------------------------------------------------
(* No machine gets stuck.  Each of the four invariants below says that a    *)
(* record no one-second round would ever repair only occurs while a pending *)
(* task is bound to repair it; together they are inductive.                 *)
Stuck(d) ==
  \/ eq[d].state = "IDLE" /\ eq[d].queue # <<>>
  \/ eq[d].state = "WAITING_CHECKIN" /\ eq[d].wait_user = NoUser
  \/ eq[d].wait_quick_checkin /\ eq[d].state # "WAITING_CHECKIN"
  \/ eq[d].state = "WAITING_CONTINUE" /\ eq[d].queue # <<>>

NeverStuck == \A d \in Equips : Stuck(d) => Owed(d)

Gives(task, d) == task.op \in GiveOps /\ task.e = d

(* A pending task stays pending when another one is on top. *)
LEMMA OwedStays ==
  ASSUME agenda \in Seq(Tasks), ~Free, NEW S, NEW tasks \in Seq(S), Run(tasks),
         NEW d \in Equips, Owed(d), ~Gives(Top, d)
  PROVE  Owed(d)'
  <1>1. PICK i \in 1..Len(agenda) : Gives(agenda[i], d)
    BY DEF Owed, Gives
  <1>2. agenda # <<>> /\ Len(agenda) \in Nat /\ Len(tasks) \in Nat
    BY LenProperties DEF Free
  <1>3. i # 1
    BY <1>1, <1>2 DEF Top
  <1>. DEFINE rest == Tail(agenda)
              j == Len(tasks) + i - 1
  <1>4. rest \in Seq(Tasks) /\ Len(rest) = Len(agenda) - 1 /\ rest[i - 1] = agenda[i]
    BY <1>2, <1>3, HeadTailProperties
  <1>5. agenda' = tasks \o rest
    BY DEF Run
  <1>6. j \in 1..Len(agenda') /\ agenda'[j] = rest[i - 1]
    <2>. HIDE DEF rest
    <2>. QED
      BY <1>2, <1>3, <1>4, <1>5
  <1>. QED
    BY <1>1, <1>4, <1>6 DEF Owed, Gives

(* A task just pushed is pending. *)
LEMMA OwedPushed ==
  ASSUME agenda \in Seq(Tasks), ~Free, NEW S, NEW tasks \in Seq(S), Run(tasks),
         NEW d \in Equips, NEW i \in 1..Len(tasks), Gives(tasks[i], d)
  PROVE  Owed(d)'
  <1>. DEFINE rest == Tail(agenda)
  <1>1. rest \in Seq(Tasks) /\ agenda' = tasks \o rest
    BY HeadTailProperties DEF Free, Run
  <1>2. i \in 1..Len(agenda') /\ agenda'[i] = tasks[i]
    <2>. HIDE DEF rest
    <2>. QED
      BY <1>1, LenProperties
  <1>. QED
    BY <1>2 DEF Owed, Gives

(* What a handler step must do for NeverStuck to survive it: leave the      *)
(* other machines alone, and at its own either repair the record, or push   *)
(* the task that will, or change nothing that counts and not be that task.  *)
LEMMA HandlerSettles ==
  ASSUME TypeOK, NeverStuck, ~Free, NEW S, NEW tasks \in Seq(S), Run(tasks),
         NEW e \in Equips, e = Top.e,
         eq' = eq \/ \E r : Becomes(e, r),
         \/ ~Stuck(e)'
         \/ \E i \in 1..Len(tasks) : Gives(tasks[i], e)
         \/ Top.op \notin GiveOps /\ (Stuck(e)' => Stuck(e))
  PROVE  NeverStuck'
  <1>. SUFFICES ASSUME NEW d \in Equips, Stuck(d)'  PROVE Owed(d)'
    BY DEF NeverStuck, Equips
  <1>. agenda \in Seq(Tasks)
    BY DEF TypeOK
  <1>1. CASE d # e
    <2>1. eq'[d] = eq[d]
      BY <1>1 DEF Becomes, TypeOK
    <2>2. Owed(d)
      BY <2>1 DEF NeverStuck, Stuck
    <2>3. ~Gives(Top, d)
      BY <1>1 DEF Gives
    <2>. QED
      BY <2>2, <2>3, OwedStays
  <1>2. CASE d = e
    <2>1. CASE \E i \in 1..Len(tasks) : Gives(tasks[i], e)
      BY <1>2, <2>1, OwedPushed
    <2>2. CASE Top.op \notin GiveOps /\ (Stuck(e)' => Stuck(e))
      <3>1. Owed(d) /\ ~Gives(Top, d)
        BY <1>2, <2>2 DEF NeverStuck, Gives
      <3>. QED
        BY <3>1, OwedStays
    <2>. QED
      BY <1>2, <2>1, <2>2
  <1>. QED
    BY <1>1, <1>2

(* Outside a handler nothing is owed, so no machine is stuck at all. *)
LEMMA FreeNotStuck ==
  ASSUME TypeOK, NeverStuck, Free, NEW d \in Equips
  PROVE  ~Stuck(d)
  BY DEF NeverStuck, Owed, Free, TypeOK

(* The empty user id is not an id.                                          *)
LEMMA NobodyIsNoId == NoUser \notin Ids
  BY NameAssumption DEF Ids

(* Clients' commands start when g_lock is free. *)
LEMMA ClientSettles ==
  ASSUME TypeOK, PromptInv, NeverStuck, ConnectionStep \/ CommandStep \/ TimerRound
  PROVE  NeverStuck'
  <1>1. Free
    <2>1. ConnectionStep \/ TimerRound => Free
      BY DEF ConnectionStep, Accept, LoginDriver, Disconnect, Login, TimerRound
    <2>2. \A s \in Slots, e \in Equips :
            /\ ReserveFirst(s, e) \/ ReserveQueue(s, e) => Free
            /\ CancelWait(s, e) \/ CancelQueued(s, e) \/ QueryEquip(s, e) => Free
            /\ ContinueYes(s, e) \/ ContinueNo(s, e) => Free
      <3>. SUFFICES ASSUME NEW s \in Slots, NEW e \in Equips
                    PROVE  /\ ReserveFirst(s, e) \/ ReserveQueue(s, e) => Free
                           /\ CancelWait(s, e) \/ CancelQueued(s, e) \/ QueryEquip(s, e) => Free
                           /\ ContinueYes(s, e) \/ ContinueNo(s, e) => Free
        OBVIOUS
      <3>1. ReserveFirst(s, e) \/ ReserveQueue(s, e) => Free
        BY DEF ReserveFirst, ReserveQueue, MayReserve
      <3>2. CancelWait(s, e) \/ CancelQueued(s, e) \/ QueryEquip(s, e) => Free
        BY DEF CancelWait, CancelQueued, QueryEquip
      <3>3. ContinueYes(s, e) \/ ContinueNo(s, e) => Free
        BY DEF ContinueYes, ContinueNo
      <3>. QED
        BY <3>1, <3>2, <3>3
    <2>. QED
      BY <2>1, <2>2 DEF CommandStep
  <1>. SUFFICES ASSUME NEW d \in Equips, Stuck(d)'  PROVE Owed(d)'
    BY DEF NeverStuck, Equips
  <1>2. ~Stuck(d)
    BY <1>1, FreeNotStuck
  <1>3. CASE ConnectionStep
    <2>1. UNCHANGED eq
      BY <1>3 DEF ConnectionStep, Accept, LoginDriver, Disconnect, Login
    <2>. QED
      BY <1>2, <2>1 DEF Stuck
  <1>4. CASE TimerRound
    <2>1. /\ eq'[d].state = eq[d].state /\ eq'[d].queue = eq[d].queue
          /\ eq'[d].wait_user = eq[d].wait_user
          /\ eq'[d].wait_quick_checkin = eq[d].wait_quick_checkin
      <3>1. eq'[d] = [eq[d] EXCEPT !.wait_deadline = Down(@, Past),
                        !.use_end_time = Down(@, 0), !.continue_deadline = Down(@, 0)]
        BY <1>4 DEF TimerRound
      <3>. QED
        BY <3>1, RecordType DEF Equipments
    <2>. QED
      BY <1>2, <2>1 DEF Stuck
  <1>5. CASE CommandStep
    <2>1. PICK s \in Slots, e \in Equips :
            \/ ReserveFirst(s, e) \/ ReserveQueue(s, e) \/ CancelWait(s, e)
            \/ CancelQueued(s, e) \/ QueryEquip(s, e) \/ ContinueYes(s, e) \/ ContinueNo(s, e)
      BY <1>5 DEF CommandStep
    <2>2. CASE UNCHANGED eq
      BY <1>2, <2>2 DEF Stuck
    <2>3. CASE d # e
      <3>1. eq'[d] = eq[d]
        BY <2>1, <2>3 DEF Becomes, TypeOK, ReserveFirst, ReserveQueue, CancelWait, CancelQueued,
                          QueryEquip, ContinueYes, ContinueNo
      <3>. QED
        BY <1>2, <3>1 DEF Stuck
    <2>. DEFINE u == client[s].user_id
    <2>4. CASE d = e /\ (ReserveFirst(s, e) \/ ContinueYes(s, e))
      <3>1. u \in Ids
        BY <2>4 DEF ReserveFirst, MayReserve, ContinueYes, TypeOK, Ids
      <3>2. eq'[e].state = "WAITING_CHECKIN" /\ eq'[e].wait_user = u
        <4>1. CASE ReserveFirst(s, e)
          <5>1. eq'[e] = [eq[e] EXCEPT !.state = "WAITING_CHECKIN", !.wait_user = u,
                            !.wait_deadline = CHECKIN_WINDOW, !.queue = <<>>]
            BY <4>1 DEF ReserveFirst, Becomes, TypeOK
          <5>. QED
            BY <5>1, RecordType DEF Equipments
        <4>2. CASE ContinueYes(s, e)
          <5>1. eq'[e] = [eq[e] EXCEPT !.state = "WAITING_CHECKIN", !.wait_user = u,
                            !.wait_deadline = CHECKIN_WINDOW, !.continue_user = NoUser,
                            !.continue_deadline = 0]
            BY <4>2 DEF ContinueYes, Becomes, TypeOK
          <5>. QED
            BY <5>1, RecordType DEF Equipments
        <4>. QED
          BY <2>4, <4>1, <4>2
      <3>. QED
        BY <2>4, <3>1, <3>2, NobodyIsNoId DEF Stuck
    <2>5. CASE d = e /\ CancelQueued(s, e)
      <3>1. /\ eq'[e].state = eq[e].state /\ eq'[e].wait_user = eq[e].wait_user
            /\ eq'[e].wait_quick_checkin = eq[e].wait_quick_checkin
            /\ eq[e].queue # <<>>
        BY <2>5 DEF CancelQueued, Becomes, TypeOK, Equipments
      <3>. QED
        BY <1>2, <2>5, <3>1 DEF Stuck
    <2>7. CASE d = e /\ ReserveQueue(s, e)
      <3>1. /\ eq'[e].state = eq[e].state /\ eq'[e].wait_user = eq[e].wait_user
            /\ eq'[e].wait_quick_checkin = eq[e].wait_quick_checkin
            /\ eq[e].state # "IDLE"
        BY <2>7 DEF ReserveQueue, Becomes, TypeOK, Equipments
      <3>2. CASE eq[e].state # "WAITING_CONTINUE"
        BY <1>2, <2>7, <3>1, <3>2 DEF Stuck
      <3>3. CASE eq[e].state = "WAITING_CONTINUE"
        <4>1. agenda' = <<Task("decline", e, eq[e].continue_user, 0)>>
          BY <2>7, <3>3 DEF ReserveQueue, PromptInv, Asked
        <4>2. Len(agenda') = 1 /\ agenda'[1].op \in GiveOps /\ agenda'[1].e = d
          BY <2>7, <4>1 DEF Task, GiveOps
        <4>. QED
          BY <4>2 DEF Owed
      <3>. QED
        BY <3>2, <3>3
    <2>6. CASE CancelWait(s, e) \/ QueryEquip(s, e) \/ ContinueNo(s, e)
      BY <2>2, <2>6 DEF CancelWait, QueryEquip, ContinueNo
    <2>. QED
      BY <2>1, <2>3, <2>4, <2>5, <2>6, <2>7
  <1>. QED
    BY <1>3, <1>4, <1>5

(* Up to two of anything is a sequence.                                     *)
LEMMA AnySeq ==
  /\ <<>> \in Seq({})
  /\ \A a : <<a>> \in Seq({a}) /\ Len(<<a>>) = 1 /\ <<a>>[1] = a
  /\ \A a, b : <<a, b>> \in Seq({a, b}) /\ Len(<<a, b>>) = 2 /\ <<a, b>>[2] = b
  OBVIOUS

(* A step that pushes giveTurn at its machine settles it. *)
LEMMA PromotingSettles ==
  ASSUME TypeOK, NeverStuck,
         Decline \/ BanStopped \/ QuickStopped \/ DupStopped \/ Released \/ Cancelled
  PROVE  NeverStuck'
  <1>1. ~Free /\ Top.e \in Equips
    BY TopOK DEF Decline, BanStopped, QuickStopped, DupStopped, Released, Cancelled
  <1>2. PICK e \in Equips : e = Top.e
    BY <1>1
  <1>3. \E r : Becomes(e, r)
    BY <1>2 DEF Decline, BanStopped, QuickStopped, DupStopped, Released, Cancelled
  <1>4. CASE Cancelled
    <2>. DEFINE a == Task("giveTurn", e, NoUser, 0)
                b == Task("CANCEL_OK", e, Top.u, 0)
    <2>1. Run(<<a, b>>)
      BY <1>2, <1>4 DEF Cancelled
    <2>2. <<a, b>> \in Seq({a, b}) /\ 1 \in 1..Len(<<a, b>>) /\ <<a, b>>[1] = a
      OBVIOUS
    <2>3. Gives(a, e)
      BY DEF Gives, Task, GiveOps
    <2>. HIDE DEF a, b
    <2>. QED
      BY <1>1, <1>2, <1>3, <2>1, <2>2, <2>3, HandlerSettles
  <1>5. CASE Decline \/ BanStopped \/ QuickStopped \/ DupStopped \/ Released
    <2>1. PICK a : Run(<<a>>) /\ a.op = "giveTurn" /\ a.e = e
      <3>1. \/ Run(<<Task("giveTurn", e, NoUser, 0)>>)
            \/ Run(<<Task("giveTurn", e, Top.u, Top.n)>>)
        BY <1>2, <1>5 DEF Decline, BanStopped, QuickStopped, DupStopped, Released
      <3>2. \A u, n : Task("giveTurn", e, u, n).op = "giveTurn" /\ Task("giveTurn", e, u, n).e = e
        BY DEF Task
      <3>. QED
        BY <3>1, <3>2
    <2>2. <<a>> \in Seq({a}) /\ 1 \in 1..Len(<<a>>) /\ <<a>>[1] = a
      OBVIOUS
    <2>3. Gives(a, e)
      BY <2>1 DEF Gives, GiveOps
    <2>. QED
      BY <1>1, <1>2, <1>3, <2>1, <2>2, <2>3, HandlerSettles
  <1>. QED
    BY <1>4, <1>5

(* The first of the queue gets his turn, or nobody queues. *)
LEMMA GiveTurnSettles ==
  ASSUME TypeOK, NeverStuck, GiveTurnQueued \/ GiveTurnNobody
  PROVE  NeverStuck'
  <1>1. ~Free /\ Top.e \in Equips
    BY TopOK DEF GiveTurnQueued, GiveTurnNobody
  <1>2. PICK e \in Equips : e = Top.e
    BY <1>1
  <1>3. eq[e].queue \in Seq(Ids)
    BY RecordType
  <1>4. \E r : Becomes(e, r)
    BY <1>2 DEF GiveTurnQueued, GiveTurnNobody
  <1>5. ~Stuck(e)'
    <2>1. CASE GiveTurnQueued
      <3>1. Head(eq[e].queue) \in Ids
        BY <1>2, <1>3, <2>1, QueueType DEF GiveTurnQueued
      <3>2. eq'[e].state = "WAITING_CHECKIN" /\ eq'[e].wait_user = Head(eq[e].queue)
        BY <1>2, <2>1 DEF GiveTurnQueued, Becomes, TypeOK, Equipments
      <3>. QED
        BY <3>1, <3>2, NobodyIsNoId DEF Stuck
    <2>2. CASE GiveTurnNobody
      <3>1. /\ eq'[e].state \in {"IDLE", "WAITING_CONTINUE"} /\ eq'[e].queue = <<>>
            /\ ~eq'[e].wait_quick_checkin
        BY <1>2, <2>2 DEF GiveTurnNobody, Becomes, TypeOK, Equipments
      <3>. QED
        BY <3>1 DEF Stuck
    <2>. QED
      BY <2>1, <2>2
  <1>6. \E S : \E tasks \in Seq(S) : Run(tasks)
    <2>1. (\E a, b : Run(<<a, b>>)) \/ Run(<<>>)
      BY DEF GiveTurnQueued, GiveTurnNobody
    <2>. QED
      BY <2>1, AnySeq
  <1>. QED
    BY <1>1, <1>2, <1>4, <1>5, <1>6, HandlerSettles

(* The kinds of task that owe nothing. *)
LEMMA OwesNothing ==
  (CallOps \cup EventOps \cup RestOps \cup TellOps) \cap GiveOps = {}
  BY DEF CallOps, EventOps, RestOps, TellOps, GiveOps

(* A step of another task that leaves all records alone. *)
LEMMA QuietSettles ==
  ASSUME TypeOK, NeverStuck, ~Free, Top.op \notin GiveOps, UNCHANGED eq,
         NEW S, NEW tasks \in Seq(S), Run(tasks)
  PROVE  NeverStuck'
  <1>1. PICK e \in Equips : e = Top.e
    BY TopType DEF TypeOK
  <1>2. Stuck(e)' => Stuck(e)
    BY DEF Stuck
  <1>. QED
    BY <1>1, <1>2, HandlerSettles

(* Steps that write no equipment record leave no machine stuck.             *)
LEMMA OtherSettles ==
  ASSUME TypeOK, NeverStuck,
         Say \/ Dup \/ CheckedIn \/ LeaveUse \/ Close \/ Finished \/ Update \/ UpdateUse
  PROVE  NeverStuck'
  <1>1. ~Free /\ Top.op \notin GiveOps /\ UNCHANGED eq
    <2>1. At("dup") \/ At("checkedIn") \/ At("leaveUse") \/ At("close") \/ At("finished")
            \/ At("update") \/ At("updateUse")
          => ~Free /\ Top.op \notin GiveOps
      BY DEF At, Top, GiveOps
    <2>2. Say => ~Free /\ Top.op \notin GiveOps
      BY OwesNothing DEF Say
    <2>. QED
      BY <2>1, <2>2 DEF Say, Dup, CheckedIn, LeaveUse, Close, Finished, Update, UpdateUse
  <1>2. Top.e \in Equips /\ Top.u \in Ids \cup {NoUser, ByRef}
    BY <1>1, TopType DEF TypeOK
  <1>3. \E S : \E tasks \in Seq(S) : Run(tasks)
    <2>1. CASE Say \/ Dup \/ Close \/ Update \/ UpdateUse
      <3>1. Run(<<>>) \/ (\E a : Run(<<a>>)) \/ (\E a, b : Run(<<a, b>>))
        BY <2>1 DEF Say, Dup, Close, Update, UpdateUse
      <3>. QED
        BY <3>1, AnySeq
    <2>2. CASE CheckedIn
      BY <1>2, <2>2, MarkType DEF CheckedIn
    <2>3. CASE LeaveUse \/ Finished
      <3>1. Run(<<>>) \/ Run(Release(Top.e, 0))
        BY <2>3 DEF LeaveUse, Finished
      <3>2. Release(Top.e, 0) \in Seq(Tasks)
        BY <1>2, ReleaseType, Nobody
      <3>. QED
        BY <3>1, <3>2, AnySeq
    <2>. QED
      BY <2>1, <2>2, <2>3
  <1>. QED
    BY <1>1, <1>3, QuietSettles

(* A driver call that returns leaves every handover pending.                *)
LEMMA AnswerSettles ==
  ASSUME TypeOK, NeverStuck, AnyAnswer
  PROVE  NeverStuck'
  <1>1. PICK ev \in Events, u \in Ids \cup {NoUser}, n \in Replies : Answer(ev, u, n)
    BY DEF AnyAnswer
  <1>2. ~Free /\ Top.op \notin GiveOps /\ UNCHANGED eq
    BY <1>1, OwesNothing DEF Answer
  <1>. DEFINE event == IF ev = NoEvent THEN <<>> ELSE <<Task(ev.op, Top.e, ev.u, 0)>>
              after == AfterCall(Top.e, u, n)
  <1>3. Run(event \o after)
    BY <1>1 DEF Answer
  <1>4. \E S : event \o after \in Seq(S)
    <2>1. event = <<>> \/ \E a : event = <<a>>
      OBVIOUS
    <2>2. after = <<>> \/ \E b : after = <<b>>
      BY DEF AfterCall
    <2>. HIDE DEF event, after
    <2>3. PICK a : event = <<>> \/ event = <<a>>
      BY <2>1
    <2>4. PICK b : after = <<>> \/ after = <<b>>
      BY <2>2
    <2>5. <<>> \in Seq({a, b}) /\ <<a>> \in Seq({a, b}) /\ <<b>> \in Seq({a, b})
      OBVIOUS
    <2>6. event \in Seq({a, b}) /\ after \in Seq({a, b})
      BY <2>3, <2>4, <2>5
    <2>. QED
      BY <2>6, ConcatProperties
  <1>. HIDE DEF event, after
  <1>. QED
    BY <1>2, <1>3, <1>4, QuietSettles

(* The steps of a handler that write a record and owe nothing before. *)
LEMMA BanSettles ==
  ASSUME TypeOK, NeverStuck, ~Free, NEW e \in Equips, e = Top.e, NEW u,
         NEW after \in Seq(Tasks), Ban(e, u, after) \/ QuickTimeout(e, u, after)
  PROVE  NeverStuck'
  <1>1. \E r : Becomes(e, r)
    BY DEF Ban, QuickTimeout
  <1>2. \E b : Gives(b, e) /\ \E a : Run(<<a, b>> \o after)
    <2>1. Gives(Task("banStopped", e, u, 0), e) /\ Gives(Task("quickStopped", e, u, 0), e)
      BY DEF Gives, Task, GiveOps
    <2>2. \/ Run(<<Task("stop", e, NoUser, 0), Task("banStopped", e, u, 0)>> \o after)
          \/ Run(<<Task("stop", e, NoUser, 0), Task("quickStopped", e, u, 0)>> \o after)
      BY DEF Ban, QuickTimeout
    <2>. QED
      BY <2>1, <2>2
  <1>3. PICK a, b : Gives(b, e) /\ Run(<<a, b>> \o after)
    BY <1>2
  <1>4. LET tasks == <<a, b>> \o after  S == Tasks \cup {a, b} IN
        tasks \in Seq(S) /\ 2 \in 1..Len(tasks) /\ tasks[2] = b
    OBVIOUS
  <1>. QED
    BY <1>1, <1>3, <1>4, HandlerSettles

(* A handler that writes a record pushes the handover it owes.              *)
LEMMA WritingSettles ==
  ASSUME TypeOK, NeverStuck,
         InUse \/ LeaveWait \/ LeaveQueue \/ Missed \/ WaitPolled \/ UsePolled
  PROVE  NeverStuck'
  <1>1. ~Free /\ Top.op \notin GiveOps
    BY DEF InUse, LeaveWait, LeaveQueue, Missed, WaitPolled, UsePolled, At, Top, GiveOps
  <1>2. PICK e \in Equips : e = Top.e
    BY <1>1, TopType DEF TypeOK
  <1>3. eq[e] \in Equipments /\ eq[e].queue \in Seq(Ids)
    BY RecordType
  <1>4. CASE InUse
    <2>1. \E a : Run(<<a>>)
      BY <1>4 DEF InUse
    <2>2. \E r : Becomes(e, r)
      BY <1>2, <1>4 DEF InUse
    <2>3. ~Stuck(e)'
      <3>1. eq'[e].state = "IN_USE" /\ ~eq'[e].wait_quick_checkin
        BY <1>2, <1>3, <1>4 DEF InUse, Becomes, TypeOK, Equipments
      <3>. QED
        BY <3>1 DEF Stuck
    <2>. QED
      BY <1>1, <1>2, <2>1, <2>2, <2>3, AnySeq, HandlerSettles
  <1>5. CASE LeaveWait
    <2>1. CASE UNCHANGED eq /\ Run(<<>>)
      BY <1>1, <2>1, AnySeq, QuietSettles
    <2>2. CASE /\ \E r : Becomes(e, r)
               /\ Run(<<Task("stop", e, NoUser, 0), Task("giveTurn", e, NoUser, 0)>>)
      <3>. DEFINE a == Task("stop", e, NoUser, 0)
                  b == Task("giveTurn", e, NoUser, 0)
      <3>1. Gives(b, e)
        BY DEF Gives, Task, GiveOps
      <3>2. <<a, b>> \in Seq({a, b}) /\ 2 \in 1..Len(<<a, b>>) /\ <<a, b>>[2] = b
        OBVIOUS
      <3>. HIDE DEF a, b
      <3>3. Run(<<a, b>>)
        BY <2>2 DEF a, b
      <3>. QED
        BY <1>1, <1>2, <2>2, <3>1, <3>2, <3>3, HandlerSettles
    <2>. QED
      BY <1>2, <1>5, <2>1, <2>2 DEF LeaveWait
  <1>6. CASE LeaveQueue
    <2>1. Run(<<>>)
      BY <1>6 DEF LeaveQueue
    <2>2. CASE UNCHANGED eq
      BY <1>1, <2>1, <2>2, AnySeq, QuietSettles
    <2>3. CASE \E i \in 1..Len(eq[e].queue) :
                 Becomes(e, [eq[e] EXCEPT !.queue = RemoveAt(@, i)])
      <3>1. PICK i \in 1..Len(eq[e].queue) :
              Becomes(e, [eq[e] EXCEPT !.queue = RemoveAt(@, i)])
        BY <2>3
      <3>2. eq[e].queue # <<>>
        BY <1>3, EmptySeq
      <3>3. /\ eq'[e].state = eq[e].state /\ eq'[e].wait_user = eq[e].wait_user
            /\ eq'[e].wait_quick_checkin = eq[e].wait_quick_checkin
        BY <1>3, <3>1 DEF Becomes, TypeOK, Equipments
      <3>4. Stuck(e)' => Stuck(e)
        BY <3>2, <3>3 DEF Stuck
      <3>. QED
        BY <1>1, <1>2, <2>1, <3>1, <3>4, AnySeq, HandlerSettles
    <2>. QED
      BY <1>2, <1>6, <2>2, <2>3 DEF LeaveQueue
  <1>7. CASE Missed
    <2>1. Ban(e, Top.u, <<>>) \/ QuickTimeout(e, Top.u, <<>>)
      BY <1>2, <1>7 DEF Missed
    <2>2. <<>> \in Seq(Tasks)
      BY ShortSeqType
    <2>. QED
      BY <1>1, <1>2, <2>1, <2>2, BanSettles
  <1>8. CASE WaitPolled
    <2>. DEFINE after == <<Task("updateUse", e, NoUser, 0)>>
    <2>1. after \in Seq(Tasks)
      <3>1. "updateUse" \in Ops
        BY DEF Ops, RestOps
      <3>. QED
        BY <3>1, TaskType, Nobody, ShortSeqType
    <2>2. MarkSteps(e, ByRef) \in Seq(Tasks)
      BY MarkType
    <2>3. \/ Run(MarkSteps(e, ByRef)) /\ UNCHANGED eq
          \/ QuickTimeout(e, ByRef, after)
          \/ Ban(e, eq[e].wait_user, after)
          \/ Run(after) /\ UNCHANGED eq
      BY <1>2, <1>8 DEF WaitPolled
    <2>. HIDE DEF after
    <2>4. CASE QuickTimeout(e, ByRef, after) \/ Ban(e, eq[e].wait_user, after)
      BY <1>1, <1>2, <2>1, <2>4, BanSettles
    <2>. QED
      BY <1>1, <2>1, <2>2, <2>3, <2>4, QuietSettles
  <1>9. CASE UsePolled
    <2>1. PICK left : Becomes(e, [eq[e] EXCEPT !.use_end_time = left])
      BY <1>2, <1>9 DEF UsePolled
    <2>2. Stuck(e)' => Stuck(e)
      <3>1. /\ eq'[e].state = eq[e].state /\ eq'[e].queue = eq[e].queue
            /\ eq'[e].wait_user = eq[e].wait_user
            /\ eq'[e].wait_quick_checkin = eq[e].wait_quick_checkin
        BY <1>3, <2>1 DEF Becomes, TypeOK, Equipments
      <3>. QED
        BY <3>1 DEF Stuck
    <2>3. Release(e, 0) \in Seq(Tasks) /\ Release(e, 1) \in Seq(Tasks)
      BY ReleaseType, Nobody
    <2>4. Run(Release(e, 0)) \/ Run(Release(e, 1)) \/ Run(<<>>)
      BY <1>2, <1>9 DEF UsePolled
    <2>5. \E S : \E tasks \in Seq(S) : Run(tasks)
      BY <2>3, <2>4, AnySeq
    <2>. QED
      BY <1>1, <1>2, <2>1, <2>2, <2>5, HandlerSettles
  <1>. QED
    BY <1>4, <1>5, <1>6, <1>7, <1>8, <1>9

(* The inductive invariant holds: no record is left as no later round would *)
(* repair it, unless a task that repairs it is pending.                     *)
THEOREM NobodyStuck == Spec => []NeverStuck
  <1>1. Init => NeverStuck
    BY DEF Init, IdleEquipment, NeverStuck, Stuck
  <1>2. TypeOK /\ PromptInv /\ NeverStuck /\ [Next]_vars => NeverStuck'
    <2>. SUFFICES ASSUME TypeOK, PromptInv, NeverStuck, [Next]_vars  PROVE NeverStuck'
      OBVIOUS
    <2>1. CASE ConnectionStep \/ CommandStep \/ TimerRound
      BY <2>1, ClientSettles
    <2>2. CASE HandlerStep
      BY <2>2, GiveTurnSettles, PromotingSettles, OtherSettles, WritingSettles DEF HandlerStep
    <2>3. CASE AnyAnswer
      BY <2>3, AnswerSettles
    <2>4. CASE UNCHANGED vars
      BY <2>4 DEF vars, NeverStuck, Stuck, Owed
    <2>. QED
      BY <2>1, <2>2, <2>3, <2>4 DEF Next
  <1>. QED
    BY <1>1, <1>2, TypeCorrect, SomebodyAsked, PTL DEF Spec

(* Nobody queues behind an idle machine once the handler running is done:   *)
(* so RESERVE's queue_len = 0 (server.c:844) never drops a user, for any    *)
(* number of machines and users and any driver.                             *)
THEOREM IdleQueueEmpty == Spec => []NoIdleQueue
  <1>1. NeverStuck => NoIdleQueue
    BY DEF NeverStuck, Stuck, NoIdleQueue
  <1>. QED
    BY <1>1, NobodyStuck, PTL

(* A machine waiting for a check-in waits for somebody, or is about to be   *)
(* handed on: update_equipment_state would never end such a wait            *)
(* (server.c:759-765).                                                      *)
THEOREM WaitHasUser == Spec => []SomebodyAwaited
  <1>1. NeverStuck => SomebodyAwaited
    BY DEF NeverStuck, Stuck, SomebodyAwaited
  <1>. QED
    BY <1>1, NobodyStuck, PTL

(* The quick window is set on a waiting machine only, or on one about to be *)
(* handed on: RESERVE and start_continue_checkin, which do not reset it,    *)
(* always find it clear.                                                    *)
THEOREM QuickWaits == Spec => []QuickOnlyWaiting
  <1>1. NeverStuck => QuickOnlyWaiting
    BY DEF NeverStuck, Stuck, QuickOnlyWaiting
  <1>. QED
    BY <1>1, NobodyStuck, PTL

(* A machine that asks "once more?" asks somebody and keeps nobody waiting, *)
(* or is about to be handed on: decline_continue is called by RESERVE as    *)
(* soon as somebody queues (server.c:862-868).                              *)
THEOREM PromptIsAlone == Spec => []PromptAlone
  <1>1. NeverStuck /\ PromptInv => PromptAlone
    BY DEF NeverStuck, Stuck, PromptInv, Asked, PromptAlone
  <1>. QED
    BY <1>1, NobodyStuck, SomebodyAsked, PTL

(* What one step does to wait_user: it leaves it, empties it, or gives the  *)
(* turn to the first of the queue, or the queue is empty.                   *)
LEMMA TurnTaken ==
  ASSUME TypeOK, NeverStuck, [Next]_vars, NEW e \in Equips, eq[e].queue # <<>>
  PROVE  \/ eq'[e].wait_user \in {NoUser, eq[e].wait_user}
         \/ eq'[e].wait_user = Head(eq[e].queue)
  <1>. eq[e] \in Equipments
    BY RecordType
  <1>. DEFINE Keeps == eq'[e].wait_user \in {NoUser, eq[e].wait_user}
  <1>2. CASE UNCHANGED eq
    BY <1>2
  <1>3. CASE TimerRound
    <2>1. eq'[e] = [eq[e] EXCEPT !.wait_deadline = Down(@, Past),
                      !.use_end_time = Down(@, 0), !.continue_deadline = Down(@, 0)]
      BY <1>3 DEF TimerRound
    <2>. QED
      BY <2>1 DEF Equipments
  <1>4. CASE CommandStep
    <2>1. PICK s \in Slots, d \in Equips :
            \/ ReserveFirst(s, d) \/ ReserveQueue(s, d) \/ CancelWait(s, d)
            \/ CancelQueued(s, d) \/ QueryEquip(s, d) \/ ContinueYes(s, d) \/ ContinueNo(s, d)
      BY <1>4 DEF CommandStep
    <2>2. CASE CancelWait(s, d) \/ QueryEquip(s, d) \/ ContinueNo(s, d)
      BY <1>2, <2>2 DEF CancelWait, QueryEquip, ContinueNo
    <2>3. CASE ReserveQueue(s, d) \/ CancelQueued(s, d)
      <3>1. PICK queue : Becomes(d, [eq[d] EXCEPT !.queue = queue])
        BY <2>3 DEF ReserveQueue, CancelQueued
      <3>2. eq[d] \in Equipments
        BY RecordType
      <3>. QED
        BY <3>1, <3>2 DEF Becomes, TypeOK, Equipments
    <2>4. CASE ReserveFirst(s, d) \/ ContinueYes(s, d)
      <3>1. Free /\ eq[d].state \in {"IDLE", "WAITING_CONTINUE"}
        BY <2>4 DEF ReserveFirst, MayReserve, ContinueYes
      <3>2. eq[d].queue = <<>>
        BY <3>1, FreeNotStuck DEF Stuck
      <3>3. eq'[e] = eq[e]
        BY <2>4, <3>2 DEF ReserveFirst, ContinueYes, Becomes, TypeOK
      <3>. QED
        BY <3>3
    <2>. QED
      BY <2>1, <2>2, <2>3, <2>4
  <1>5. ASSUME NEW d \in Equips, NEW r, Becomes(d, r), d = e => r.wait_user \in {NoUser, eq[e].wait_user}
        PROVE  Keeps
    BY <1>5 DEF Becomes, TypeOK
  <1>6. CASE GiveTurnQueued
    <2>1. PICK d \in Equips : d = Top.e
      BY <1>6, TopOK DEF GiveTurnQueued
    <2>2. PICK secs, quick :
            Becomes(d, [eq[d] EXCEPT !.state = "WAITING_CHECKIN", !.wait_user = Head(eq[d].queue),
              !.wait_deadline = secs, !.wait_quick_checkin = quick, !.queue = Tail(@)])
      BY <1>6, <2>1 DEF GiveTurnQueued
    <2>. QED
      BY <2>2 DEF Becomes, TypeOK, Equipments
  <1>7. CASE \E d \in Equips : \E u, after : Ban(d, u, after) \/ QuickTimeout(d, u, after)
    <2>1. PICK d \in Equips : \E u, after : Ban(d, u, after) \/ QuickTimeout(d, u, after)
      BY <1>7
    <2>2. PICK u, after : Ban(d, u, after) \/ QuickTimeout(d, u, after)
      BY <2>1
    <2>3. eq[d] \in Equipments
      BY RecordType
    <2>. QED
      BY <1>5, <2>2, <2>3 DEF Ban, QuickTimeout, Equipments
  <1>8. CASE HandlerStep
    <2>1. ~Free /\ Top.e \in Equips
      <3>1. ~Free
        BY <1>8 DEF HandlerStep, GiveTurnQueued, GiveTurnNobody, Say, Decline, BanStopped,
              QuickStopped, Dup, DupStopped, InUse, Released, Cancelled, LeaveUse, LeaveWait,
              LeaveQueue, Close, Missed, Finished, CheckedIn, Update, WaitPolled, UpdateUse,
              UsePolled, At
      <3>. QED
        BY <3>1, TopType DEF TypeOK
    <2>2. PICK d \in Equips : d = Top.e
      BY <2>1
    <2>3. eq[d] \in Equipments
      BY RecordType
    <2>4. CASE Say \/ Dup \/ CheckedIn \/ LeaveUse \/ Close \/ Finished \/ Update \/ UpdateUse
      BY <1>2, <2>4 DEF Say, Dup, CheckedIn, LeaveUse, Close, Finished, Update, UpdateUse
    <2>5. CASE Missed
      BY <1>7, <2>2, <2>5 DEF Missed
    <2>6. CASE WaitPolled
      BY <1>2, <1>7, <2>2, <2>6 DEF WaitPolled
    <2>7. CASE LeaveWait \/ LeaveQueue
      <3>1. \/ UNCHANGED eq
            \/ Becomes(d, [eq[d] EXCEPT !.wait_user = NoUser, !.wait_deadline = Past])
            \/ \E queue : Becomes(d, [eq[d] EXCEPT !.queue = queue])
        BY <2>2, <2>7 DEF LeaveWait, LeaveQueue
      <3>. QED
        BY <1>2, <1>5, <2>3, <3>1 DEF Equipments
    <2>8. CASE GiveTurnNobody
      BY <1>5, <2>2, <2>3, <2>8 DEF GiveTurnNobody, Equipments
    <2>9. CASE Decline \/ BanStopped \/ QuickStopped \/ UsePolled \/ Released
      BY <1>5, <2>2, <2>3, <2>9
         DEF Decline, BanStopped, QuickStopped, UsePolled, Released, Equipments
    <2>10. CASE DupStopped \/ InUse \/ Cancelled
      BY <1>5, <2>2, <2>3, <2>10 DEF DupStopped, InUse, Cancelled, Equipments
    <2>. QED
      BY <1>6, <1>8, <2>4, <2>5, <2>6, <2>7, <2>8, <2>9, <2>10 DEF HandlerStep
  <1>9. CASE ConnectionStep \/ AnyAnswer \/ UNCHANGED vars
    BY <1>2, <1>9 DEF ConnectionStep, Accept, LoginDriver, Disconnect, Login, AnyAnswer, Answer, vars
  <1>. QED
    BY <1>3, <1>4, <1>8, <1>9 DEF Next

(* While somebody queues for a machine nobody but the first of the queue    *)
(* gets a turn there, whatever the driver answers and whoever asks.         *)
THEOREM NobodyOvertakes == Spec => NoOvertaking
  <1>1. TypeOK /\ NeverStuck /\ [Next]_vars
          => [\A e \in Equips :
                eq[e].queue # <<>> /\ eq'[e].wait_user \notin {NoUser, eq[e].wait_user}
                  => eq'[e].wait_user = Head(eq[e].queue)]_vars
    BY TurnTaken
  <1>. QED
    BY <1>1, TypeCorrect, NobodyStuck, PTL DEF Spec, NoOvertaking
=============================================================================
