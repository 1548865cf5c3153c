---------------------------- MODULE GymSystemProofs ----------------------------
(* Theorems about GymSystem, for every number of users, machines, clients   *)
(* and seconds: the server joined to its real drivers is the server of      *)
(* GymServer with one of the drivers it allows, so that what is proved      *)
(* there holds here, and what is proved of a driver under any commands      *)
(* holds under the server's.                                                *)
EXTENDS GymSystem, TLAPS

(* The theorems of GymServer and GymDevice, about the system's variables. *)
ServerProofs == INSTANCE GymServerProofs WITH Replies <- Int, MAX_NEST <- -1
DeviceProofs == INSTANCE GymDeviceProofs WITH Periods <- Int

(* GymSystem's constants are as GymServer and GymDevice assume.             *)
LEMMA Assumptions ==
  /\ ServerProofs!SizeAssumption /\ ServerProofs!ReplyAssumption
  /\ ServerProofs!TimeAssumption /\ ServerProofs!NameAssumption
  /\ DeviceProofs!DeviceAssumption
  BY SystemAssumption
     DEF ServerProofs!SizeAssumption, ServerProofs!ReplyAssumption, ServerProofs!Unbounded,
         ServerProofs!TimeAssumption, ServerProofs!NameAssumption,
         DeviceProofs!DeviceAssumption

(* GymSystem reaches GymServer directly and the theorems reach it through   *)
(* GymServerProofs: it is the same server, definition by definition.        *)
LEMMA SameServer ==
  /\ Server!Init <=> ServerProofs!Init
  /\ Server!Next <=> ServerProofs!Next
  /\ Server!TypeOK <=> ServerProofs!TypeOK
  /\ Server!vars = ServerProofs!vars
  <1>. USE DEF
         Server!Unbounded, ServerProofs!Unbounded, Server!vars, ServerProofs!vars,
         Server!Equips, ServerProofs!Equips, Server!Slots, ServerProofs!Slots,
         Server!Ids, ServerProofs!Ids, Server!Past, ServerProofs!Past, Server!Seconds,
         ServerProofs!Seconds, Server!Down, ServerProofs!Down, Server!CallOps,
         ServerProofs!CallOps, Server!EventOps, ServerProofs!EventOps, Server!GiveOps,
         ServerProofs!GiveOps, Server!RestOps, ServerProofs!RestOps, Server!TellOps,
         ServerProofs!TellOps, Server!Ops, ServerProofs!Ops, Server!Task,
         ServerProofs!Task, Server!AliasOps, ServerProofs!AliasOps, Server!Tasks,
         ServerProofs!Tasks, Server!Lines, ServerProofs!Lines, Server!Line,
         ServerProofs!Line, Server!Silent, ServerProofs!Silent, Server!FreeSlot,
         ServerProofs!FreeSlot, Server!IdleEquipment, ServerProofs!IdleEquipment,
         Server!Free, ServerProofs!Free, Server!At, ServerProofs!At, Server!Top,
         ServerProofs!Top, Server!Run, ServerProofs!Run, Server!Becomes,
         ServerProofs!Becomes, Server!FirstSlot, ServerProofs!FirstSlot,
         Server!Connected, ServerProofs!Connected, Server!Tell, ServerProofs!Tell,
         Server!Deref, ServerProofs!Deref, Server!InEquipment, ServerProofs!InEquipment,
         Server!CurrentlyUsing, ServerProofs!CurrentlyUsing, Server!Enqueue,
         ServerProofs!Enqueue, Server!Release, ServerProofs!Release, Server!FirstAt,
         ServerProofs!FirstAt
  <1>1. Server!Init <=> ServerProofs!Init
    BY DEF Server!Init, ServerProofs!Init
  <1>2. Server!TypeOK <=> ServerProofs!TypeOK
    BY DEF Server!Equipments, ServerProofs!Equipments, Server!Clients, ServerProofs!Clients,
           Server!TypeOK, ServerProofs!TypeOK
  <1>3. Server!ConnectionStep \/ Server!CommandStep
          <=> ServerProofs!ConnectionStep \/ ServerProofs!CommandStep
    BY DEF
      Server!Accept, ServerProofs!Accept, Server!Login, ServerProofs!Login,
      Server!LoginDriver, ServerProofs!LoginDriver, Server!CleanupSteps,
      ServerProofs!CleanupSteps, Server!Disconnect, ServerProofs!Disconnect,
      Server!ConnectionStep, ServerProofs!ConnectionStep, Server!MayReserve,
      ServerProofs!MayReserve, Server!ReserveFirst, ServerProofs!ReserveFirst,
      Server!ReserveQueue, ServerProofs!ReserveQueue, Server!CancelWait,
      ServerProofs!CancelWait, Server!FirstAt, ServerProofs!FirstAt,
      Server!CancelQueued, ServerProofs!CancelQueued, Server!QueryEquip,
      ServerProofs!QueryEquip, Server!ContinueYes, ServerProofs!ContinueYes,
      Server!ContinueNo, ServerProofs!ContinueNo, Server!CommandStep,
      ServerProofs!CommandStep, Server!Contains, ServerProofs!Contains,
      Server!RemoveAt, ServerProofs!RemoveAt, Server!Cardinality, ServerProofs!Cardinality
  <1>4. Server!HandlerStep <=> ServerProofs!HandlerStep
    BY DEF
      Server!GiveTurnQueued, ServerProofs!GiveTurnQueued, Server!GiveTurnNobody,
      ServerProofs!GiveTurnNobody, Server!Say, ServerProofs!Say, Server!Decline,
      ServerProofs!Decline, Server!Ban, ServerProofs!Ban, Server!BanStopped,
      ServerProofs!BanStopped, Server!QuickTimeout, ServerProofs!QuickTimeout,
      Server!QuickStopped, ServerProofs!QuickStopped, Server!MarkSteps,
      ServerProofs!MarkSteps, Server!Dup, ServerProofs!Dup, Server!DupStopped,
      ServerProofs!DupStopped, Server!InUse, ServerProofs!InUse, Server!Released,
      ServerProofs!Released, Server!Cancelled, ServerProofs!Cancelled, Server!LeaveUse,
      ServerProofs!LeaveUse, Server!LeaveWait, ServerProofs!LeaveWait,
      Server!LeaveQueue, ServerProofs!LeaveQueue, Server!Close, ServerProofs!Close,
      Server!Missed, ServerProofs!Missed, Server!Finished, ServerProofs!Finished,
      Server!CheckedIn, ServerProofs!CheckedIn, Server!Update, ServerProofs!Update,
      Server!WaitPolled, ServerProofs!WaitPolled, Server!UpdateUse,
      ServerProofs!UpdateUse, Server!UsePolled, ServerProofs!UsePolled,
      Server!HandlerStep, ServerProofs!HandlerStep,
      Server!Contains, ServerProofs!Contains, Server!RemoveAt, ServerProofs!RemoveAt
  <1>5. Server!AnyAnswer <=> ServerProofs!AnyAnswer
    BY DEF
      Server!NoEvent, ServerProofs!NoEvent, Server!Events, ServerProofs!Events,
      Server!AfterCall, ServerProofs!AfterCall, Server!Answer, ServerProofs!Answer,
      Server!AnyAnswer, ServerProofs!AnyAnswer
  <1>6. Server!TimerRound <=> ServerProofs!TimerRound
    BY DEF Server!TimerRound, ServerProofs!TimerRound
  <1>7. Server!Next <=> ServerProofs!Next
    BY <1>3, <1>4, <1>5, <1>6 DEF Server!Next, ServerProofs!Next
  <1>. QED
    BY <1>1, <1>2, <1>7

(* The same of the drivers.                                                 *)
LEMMA SameDevice ==
  /\ Device!Init <=> DeviceProofs!Init
  /\ Device!Equips = DeviceProofs!Equips
  /\ Device!TypeOK <=> DeviceProofs!TypeOK
  /\ Device!SomebodyReported <=> DeviceProofs!SomebodyReported
  /\ Device!Second <=> DeviceProofs!Second
  /\ \A e : Device!DeviceStep(e) <=> DeviceProofs!DeviceStep(e)
  /\ \A e, u : Device!Place(e, u) <=> DeviceProofs!Place(e, u)
  /\ \A e : Device!Remove(e) <=> DeviceProofs!Remove(e)
  /\ \A e, after : Device!Command(e, after) <=> DeviceProofs!Command(e, after)
  <1>. USE DEF
         Device!Equips, DeviceProofs!Equips, Device!Ids, DeviceProofs!Ids,
         Device!NoEvent, DeviceProofs!NoEvent, Device!Event, DeviceProofs!Event,
         Device!Events, DeviceProofs!Events, Device!Blocked, DeviceProofs!Blocked,
         Device!Sections, DeviceProofs!Sections, Device!IdleDevice,
         DeviceProofs!IdleDevice
  <1>1. Device!Init <=> DeviceProofs!Init
    BY DEF Device!Init, DeviceProofs!Init
  <1>2. /\ Device!TypeOK <=> DeviceProofs!TypeOK
        /\ Device!SomebodyReported <=> DeviceProofs!SomebodyReported
    BY DEF Device!TypeOK, DeviceProofs!TypeOK,
           Device!SomebodyReported, DeviceProofs!SomebodyReported
  <1>3. Device!Second <=> DeviceProofs!Second
    BY DEF Device!Settled, DeviceProofs!Settled, Device!Older, DeviceProofs!Older,
           Device!Second, DeviceProofs!Second
  <1>4. \A e : Device!DeviceStep(e) <=> DeviceProofs!DeviceStep(e)
    BY DEF
      Device!Flush, DeviceProofs!Flush, Device!Waiting, DeviceProofs!Waiting,
      Device!Stopping, DeviceProofs!Stopping, Device!Idling, DeviceProofs!Idling,
      Device!CheckingIn, DeviceProofs!CheckingIn, Device!CountingDown,
      DeviceProofs!CountingDown, Device!CardGone, DeviceProofs!CardGone,
      Device!ReportAndIdle, DeviceProofs!ReportAndIdle, Device!ReportMissed,
      DeviceProofs!ReportMissed, Device!ReportFinished, DeviceProofs!ReportFinished,
      Device!ReportCheckedIn, DeviceProofs!ReportCheckedIn, Device!Reset,
      DeviceProofs!Reset, Device!DeviceStep, DeviceProofs!DeviceStep
  <1>5. /\ \A e, u : Device!Place(e, u) <=> DeviceProofs!Place(e, u)
        /\ \A e : Device!Remove(e) <=> DeviceProofs!Remove(e)
        /\ \A e, after : Device!Command(e, after) <=> DeviceProofs!Command(e, after)
    BY DEF Device!Place, DeviceProofs!Place, Device!Remove, DeviceProofs!Remove,
           Device!Misled, DeviceProofs!Misled, Device!Command, DeviceProofs!Command
  <1>. QED
    BY <1>1, <1>2, <1>3, <1>4, <1>5

LEMMA SameCommands ==
  ASSUME NEW d, NEW u, NEW secs
  PROVE  /\ Device!Stop(d) = DeviceProofs!Stop(d)
         /\ Device!StartCheckin(d, u, secs) = DeviceProofs!StartCheckin(d, u, secs)
         /\ Device!StartUsage(d, u, secs) = DeviceProofs!StartUsage(d, u, secs)
  BY DEF Device!Stop, DeviceProofs!Stop, Device!StartCheckin, DeviceProofs!StartCheckin,
         Device!StartUsage, DeviceProofs!StartUsage, Device!Ids, DeviceProofs!Ids

-----------------------------------------------------------------------------
(* The joint inductive invariant: the server's types, the drivers' contexts *)
(* and what IInv says of them (a driver that counts or is about to report   *)
(* has a user), and the count of moves.                                     *)
SystemInv == Server!TypeOK /\ DeviceProofs!IInv /\ moves \in 0..MAX_MOVES

(* The task of a driver call that waits for its reply. *)
LEMMA CallType ==
  ASSUME SystemInv, Calling
  PROVE  LET t == Head(agenda) IN
         /\ t.e \in Equips /\ t.n \in Int /\ t.u \in Device!Ids \cup {NoUser}
         /\ t.op = "start" => t.u \in Device!Ids
         /\ dev[t.e] \in DeviceProofs!Good
  <1>. USE DEF ServerProofs!Equips, Device!Equips, DeviceProofs!Equips, Equips,
               ServerProofs!Ids, Device!Ids, DeviceProofs!Ids
  <1>1. ServerProofs!TypeOK
    BY SameServer DEF SystemInv
  <1>2. agenda \in Seq(ServerProofs!Tasks) /\ agenda # <<>>
    BY <1>1 DEF ServerProofs!TypeOK, Calling, Free
  <1>3. Head(agenda) \in ServerProofs!Tasks
    BY <1>2
  <1>4. Head(agenda).op \notin ServerProofs!AliasOps
    BY DEF Calling, Server!CallOps, ServerProofs!AliasOps
  <1>5. LET t == Head(agenda) IN
        /\ t.e \in Equips /\ t.n \in Int /\ t.u \in Device!Ids \cup {NoUser}
        /\ t.op = "start" => t.u \in Device!Ids
    BY <1>3, <1>4 DEF ServerProofs!Tasks
  <1>. QED
    BY <1>5 DEF SystemInv, DeviceProofs!IInv

(* A driver's answer is one of the answers of any driver. *)
LEMMA AnswerIsAny ==
  ASSUME SystemInv, DriverCall
  PROVE  Server!AnyAnswer
  <1>. DEFINE d == dev[Head(agenda).e]
  <1>1. d \in DeviceProofs!Good
    BY CallType DEF DriverCall
  <1>2. d \in DeviceProofs!Contexts
    BY <1>1 DEF DeviceProofs!Good
  <1>3. d.sent \in Server!Events
    BY <1>2 DEF DeviceProofs!Contexts, DeviceProofs!Events, DeviceProofs!NoEvent, DeviceProofs!Ids,
               Server!Events, Server!NoEvent, Server!EventOps, Server!Ids
  <1>4. Device!StatusUser(d) \in Server!Ids \cup {NoUser}
    BY <1>2 DEF DeviceProofs!Contexts, DeviceProofs!Ids, Device!StatusUser, Server!Ids
  <1>5. Device!StatusLeft(d) \in Int
    BY <1>2 DEF DeviceProofs!Contexts, Device!StatusLeft
  <1>6. Server!Answer(d.sent, Device!StatusUser(d), Device!StatusLeft(d))
    BY DEF DriverCall
  <1>. HIDE DEF d
  <1>. QED
    BY <1>3, <1>4, <1>5, <1>6 DEF Server!AnyAnswer, Server!Unbounded

(* Every step of the system is a step of the server or leaves it alone. *)
LEMMA ServerStep ==
  ASSUME SystemInv, [Next]_vars
  PROVE  Server!Next \/ UNCHANGED Server!vars
  <1>1. CASE DriverCall
    BY <1>1, AnswerIsAny DEF Server!Next
  <1>2. CASE HandlerStep \/ Second \/ Command \/ Connect
    BY <1>2 DEF HandlerStep, Second, Command, Connect, Server!Next
  <1>3. ASSUME NEW e \in Equips, DriverStep(e) \/ PutCard(e) \/ TakeCard(e)
        PROVE  UNCHANGED Server!vars
    BY <1>3 DEF DriverStep, PutCard, TakeCard, Server!vars
  <1>4. CASE UNCHANGED vars
    BY <1>4 DEF vars, Server!vars
  <1>. QED
    BY <1>1, <1>2, <1>3, <1>4 DEF Next, SessionStep, SystemStep

(* The server only sends commands that leave a driver with a user.          *)
LEMMA CallKeepsDrivers ==
  ASSUME SystemInv, DriverCall
  PROVE  DeviceProofs!IInv'
  <1>. DEFINE t == Head(agenda)
              d == dev[t.e]
              after == CASE t.op = "start" -> Device!StartCheckin(d, t.u, t.n)
                         [] t.op = "startUsage" -> Device!StartUsage(d, t.u, t.n)
                         [] t.op = "stop" -> Device!Stop(d)
                         [] OTHER -> d
  <1>1. /\ t.e \in DeviceProofs!Equips /\ t.n \in Int /\ t.u \in DeviceProofs!Ids \cup {NoUser}
        /\ t.op = "start" => t.u \in DeviceProofs!Ids
        /\ d \in DeviceProofs!Good
    BY CallType DEF DriverCall, Equips, Device!Equips, DeviceProofs!Equips, Device!Ids,
                    DeviceProofs!Ids
  <1>2. DeviceProofs!Command(t.e, after) /\ card' = card
    BY SameDevice DEF DriverCall
  <1>3. Keyword \in DeviceProofs!Ids
    BY DEF DeviceProofs!Ids
  <1>. HIDE DEF d, t
  <1>4. after \in DeviceProofs!Good
    <2>1. CASE t.op = "start"
      <3>1. DeviceProofs!StartCheckin(d, t.u, t.n) \in DeviceProofs!Good
        BY <1>1, <2>1, DeviceProofs!CommandGood, Assumptions
      <3>. QED
        BY <2>1, <3>1, SameCommands
    <2>2. CASE t.op = "startUsage"
      <3>1. DeviceProofs!StartUsage(d, t.u, t.n) \in DeviceProofs!Good
        BY <1>1, <1>3, DeviceProofs!CommandGood, Assumptions
      <3>. QED
        BY <2>2, <3>1, SameCommands
    <2>3. CASE t.op = "stop"
      <3>1. DeviceProofs!Stop(d) \in DeviceProofs!Good
        BY <1>1, <1>3, DeviceProofs!CommandGood, Assumptions
      <3>. QED
        BY <2>3, <3>1, SameCommands
    <2>. QED
      BY <1>1, <2>1, <2>2, <2>3
  <1>. HIDE DEF after
  <1>. QED
    BY <1>1, <1>2, <1>4, DeviceProofs!ReplyGood, Assumptions DEF SystemInv

LEMMA DriversStay ==
  ASSUME SystemInv, [Next]_vars
  PROVE  DeviceProofs!IInv'
  <1>. DeviceProofs!IInv
    BY DEF SystemInv
  <1>1. CASE DriverCall
    BY <1>1, CallKeepsDrivers
  <1>2. CASE HandlerStep \/ Connect \/ Command \/ UNCHANGED vars
    <2>1. UNCHANGED <<dev, card>>
      BY <1>2 DEF HandlerStep, Connect, Command, vars
    <2>. QED
      BY <2>1 DEF DeviceProofs!IInv
  <1>3. CASE Second
    BY <1>3, SameDevice, DeviceProofs!SecondGood, Assumptions DEF Second
  <1>4. ASSUME NEW e \in Equips, DriverStep(e)  PROVE DeviceProofs!IInv'
    <2>1. e \in DeviceProofs!Equips /\ DeviceProofs!DeviceStep(e)
      BY <1>4, SameDevice DEF DriverStep, Equips
    <2>. QED
      BY <2>1, DeviceProofs!LoopGood, Assumptions
  <1>5. ASSUME NEW e \in Equips, PutCard(e) \/ TakeCard(e)  PROVE DeviceProofs!IInv'
    <2>1. e \in DeviceProofs!Equips /\ DeviceProofs!CardStep(e)
      BY <1>5, SameDevice DEF PutCard, TakeCard, Equips, DeviceProofs!CardStep
    <2>. QED
      BY <2>1, DeviceProofs!CardsGood, Assumptions
  <1>. QED
    BY <1>1, <1>2, <1>3, <1>4, <1>5 DEF Next, SessionStep, SystemStep

(* What the server sends is one of the commands of any server.              *)
LEMMA CallIsAny ==
  ASSUME SystemInv, DriverCall
  PROVE  \E e \in Device!Equips : Device!AnyCommand(e)
  <1>. DEFINE t == Head(agenda)
              d == dev[t.e]
  <1>1. /\ t.e \in Device!Equips /\ t.n \in Int /\ t.u \in Device!Ids \cup {NoUser}
        /\ t.op = "start" => t.u \in Device!Ids
    BY CallType DEF DriverCall, Equips
  <1>2. /\ Device!Command(t.e, CASE t.op = "start" -> Device!StartCheckin(d, t.u, t.n)
                                 [] t.op = "startUsage" -> Device!StartUsage(d, t.u, t.n)
                                 [] t.op = "stop" -> Device!Stop(d)
                                 [] OTHER -> d)
        /\ card' = card
    BY DEF DriverCall
  <1>. HIDE DEF t
  <1>3. Device!AnyCommand(t.e)
    <2>1. CASE t.op = "start"
      BY <1>1, <1>2, <2>1 DEF Device!AnyCommand
    <2>2. CASE t.op = "startUsage"
      BY <1>1, <1>2, <2>2 DEF Device!AnyCommand
    <2>3. CASE t.op = "stop"
      BY <1>2, <2>3 DEF Device!AnyCommand
    <2>4. CASE t.op \notin {"start", "startUsage", "stop"}
      BY <1>2, <2>4 DEF Device!AnyCommand
    <2>. QED
      BY <2>1, <2>2, <2>3, <2>4
  <1>. QED
    BY <1>1, <1>3

(* Every step of the system is a step of the drivers or leaves them alone. *)
LEMMA DriversStep ==
  ASSUME SystemInv, [Next]_vars
  PROVE  Device!Next \/ UNCHANGED Device!vars
  <1>1. CASE DriverCall
    BY <1>1, CallIsAny DEF Device!Next
  <1>2. CASE HandlerStep \/ Connect \/ Command \/ UNCHANGED vars
    BY <1>2 DEF HandlerStep, Connect, Command, vars, Device!vars
  <1>3. CASE Second
    BY <1>3 DEF Second, Device!Next
  <1>4. ASSUME NEW e \in Equips, DriverStep(e) \/ PutCard(e) \/ TakeCard(e)
        PROVE  Device!Next
    BY <1>4 DEF DriverStep, PutCard, TakeCard, Equips, Device!CardStep, Device!Next
  <1>. QED
    BY <1>1, <1>2, <1>3, <1>4 DEF Next, SessionStep, SystemStep

(* The joint invariant is inductive. *)
LEMMA SystemInvInit == Init => SystemInv
  <1>. SUFFICES ASSUME Init  PROVE SystemInv
    OBVIOUS
  <1>1. Server!TypeOK
    BY ServerProofs!InitType, SameServer, Assumptions DEF Init
  <1>2. DeviceProofs!IInv
    BY DeviceProofs!InitGood, SameDevice, Assumptions DEF Init
  <1>3. moves \in 0..MAX_MOVES
    BY SystemAssumption DEF Init
  <1>. QED
    BY <1>1, <1>2, <1>3 DEF SystemInv

LEMMA SystemInvStep ==
  ASSUME SystemInv, [Next]_vars
  PROVE  SystemInv'
  <1>1. Server!TypeOK'
    <2>1. ServerProofs!TypeOK /\ [ServerProofs!Next]_(ServerProofs!vars)
      BY ServerStep, SameServer DEF SystemInv, Server!vars, ServerProofs!vars
    <2>2. ServerProofs!TypeOK'
      BY <2>1, ServerProofs!NextType, Assumptions
    <2>. QED
      BY <2>2, SameServer, PTL
  <1>2. moves' \in 0..MAX_MOVES
    <2>1. moves \in 0..MAX_MOVES /\ MAX_MOVES \in Nat
      BY SystemAssumption DEF SystemInv
    <2>2. moves' \in {0, moves} \/ (moves < MAX_MOVES /\ moves' = moves + 1)
      BY DEF Next, SessionStep, SystemStep, DriverCall, HandlerStep, DriverStep, Second,
             Connect, Command, PutCard, TakeCard, Move, vars
    <2>. QED
      BY <2>1, <2>2
  <1>. QED
    BY <1>1, <1>2, DriversStay DEF SystemInv

-----------------------------------------------------------------------------
(* The types of both parts hold in the joint system: above all, every reply *)
(* of a driver and every command of the server is one the other side knows. *)
THEOREM SystemTyped == Spec => []TypeOK
  <1>1. SystemInv => TypeOK
    <2>1. DeviceProofs!IInv => DeviceProofs!TypeOK
      BY DEF DeviceProofs!IInv, DeviceProofs!TypeOK, DeviceProofs!Good, DeviceProofs!Contexts
    <2>. QED
      BY <2>1, SameDevice DEF SystemInv, TypeOK
  <1>2. SystemInv /\ [Next]_vars => SystemInv'
    BY SystemInvStep
  <1>. QED
    BY <1>1, <1>2, SystemInvInit, PTL DEF Spec

(* Refinement: the server joined to its drivers implements the server that  *)
(* allows any driver.                                                       *)
THEOREM ImplementsServer == Spec => Server!Spec
  <1>1. Init => Server!Init
    BY DEF Init
  <1>2. SystemInv /\ [Next]_vars => [Server!Next]_(Server!vars)
    BY ServerStep
  <1>3. SystemInv /\ [Next]_vars => SystemInv'
    BY SystemInvStep
  <1>. QED
    BY <1>1, <1>2, <1>3, SystemInvInit, PTL DEF Spec, Server!Spec

(* Refinement: and the drivers joined to their server are the drivers of    *)
(* GymDevice, which allow any server.                                       *)
THEOREM ImplementsDrivers == Spec => Device!Spec
  <1>1. Init => Device!Init
    BY DEF Init
  <1>2. SystemInv /\ [Next]_vars => [Device!Next]_(Device!vars)
    BY DriversStep
  <1>3. SystemInv /\ [Next]_vars => SystemInv'
    BY SystemInvStep
  <1>. QED
    BY <1>1, <1>2, <1>3, SystemInvInit, PTL DEF Spec, Device!Spec

LEMMA SameSpec == Server!Spec => ServerProofs!Spec
  <1>1. Server!Init => ServerProofs!Init
    BY SameServer
  <1>2. [Server!Next]_(Server!vars) => [ServerProofs!Next]_(ServerProofs!vars)
    BY SameServer DEF Server!vars, ServerProofs!vars
  <1>. QED
    BY <1>1, <1>2, PTL DEF Server!Spec, ServerProofs!Spec

(* So what is proved of the server holds with its drivers: nobody queues    *)
(* behind an idle machine, no machine waits for nobody or asks nobody while *)
(* somebody queues, and the quick window is set on waiting machines only.   *)
THEOREM ServerPromises ==
  Spec => [](/\ Server!NoIdleQueue /\ Server!SomebodyAwaited
             /\ Server!PromptAlone /\ Server!QuickOnlyWaiting)
  <1>1. ServerProofs!NeverStuck /\ ServerProofs!PromptInv
          => /\ Server!NoIdleQueue /\ Server!SomebodyAwaited
             /\ Server!PromptAlone /\ Server!QuickOnlyWaiting
    BY DEF ServerProofs!NeverStuck, ServerProofs!Stuck, ServerProofs!PromptInv,
           ServerProofs!Asked, ServerProofs!Equips, ServerProofs!Owed, ServerProofs!GiveOps,
           Server!NoIdleQueue, Server!SomebodyAwaited, Server!PromptAlone,
           Server!QuickOnlyWaiting, Server!Equips, Server!Owed, Server!GiveOps
  <1>. QED
    BY <1>1, SameSpec, ImplementsServer, ServerProofs!NobodyStuck, ServerProofs!SomebodyAsked,
       Assumptions, PTL

(* And nobody overtakes the first of a queue.                               *)
THEOREM NobodyOvertakes == Spec => Server!NoOvertaking
  <1>1. ServerProofs!NoOvertaking => Server!NoOvertaking
    BY PTL DEF ServerProofs!NoOvertaking, Server!NoOvertaking, ServerProofs!vars, Server!vars,
               ServerProofs!Equips, Server!Equips
  <1>. QED
    BY <1>1, SameSpec, ImplementsServer, ServerProofs!NobodyOvertakes, Assumptions, PTL

(* No command of the real server, wherever it lands, leaves a driver's loop *)
(* with nobody to report.                                                   *)
THEOREM DriversReport == Spec => []Device!SomebodyReported
  <1>1. SystemInv => Device!SomebodyReported
    <2>1. DeviceProofs!IInv => DeviceProofs!SomebodyReported
      BY DEF DeviceProofs!IInv, DeviceProofs!Good, DeviceProofs!Named,
             DeviceProofs!SomebodyReported
    <2>. QED
      BY <2>1, SameDevice DEF SystemInv
  <1>2. SystemInv /\ [Next]_vars => SystemInv'
    BY SystemInvStep
  <1>. QED
    BY <1>1, <1>2, SystemInvInit, PTL DEF Spec
=============================================================================
