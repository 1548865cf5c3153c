--------------------------- MODULE GymClientProofs ---------------------------
(* The types of GymClient, and that a typed line never acts in another menu, *)
(* for every number of machines and however many lines are under way.       *)
EXTENDS GymClient, SequenceTheorems, TLAPS

(* A line that was typed at another menu can only be read where any line    *)
(* just brings the main menu back.                                          *)
SawOrAck ==
  \A line \in typed : line.saw # client.ui => client.ui = "UI_WAIT_MAIN_ACK"

(* The socket is only read when select has seen a line there.               *)
Served ==
  /\ client.pc = "login" => client.todo = {}
  /\ client.pc = "loop" /\ "socket" \in client.todo => toClient # <<>>

IInv == TypeOK /\ SawOrAck /\ Served

(* Digits that name a machine give its number. *)
LEMMA NumberInEquips == \A word \in EquipWords : Number[word] \in Equips
<1> SUFFICES ASSUME NEW word \in EquipWords PROVE Number[word] \in Equips
  OBVIOUS
<1>1. EQUIP_COUNT \in Int BY ClientAssumption DEF ClientAssumption
<1>2. word \in Digits /\ Number[word] < EQUIP_COUNT BY DEF EquipWords
<1>3. Number[word] \in 0..5 BY <1>2 DEF Number, Digits
<1> QED BY <1>1, <1>2, <1>3 DEF Equips

(* What the client sends are commands. *)
LEMMA SentCommands ==
  /\ \A e \in Equips, a \in Answers :
       [cmd |-> "CONTINUE_RESPONSE", e |-> e, answer |-> a] \in Commands
  /\ \A e \in Equips, c \in {"RESERVE", "CANCEL", "QUERY_EQUIP"} :
       [cmd |-> c, e |-> e] \in Commands
  /\ [cmd |-> "QUERY_USER"] \in Commands
BY DEF Commands

LEMMA PushedLines ==
  /\ End \in Lines /\ Other \in Lines /\ Closed \in Lines
  /\ \A e \in Equips : [kind |-> "CONTINUE_PROMPT", e |-> e] \in Lines
BY DEF Lines, End, Other, Closed

(* A line read by one of the actions of the keyboard leaves none, and keeps *)
(* what the socket brings.                                                  *)
LEMMA KeysType ==
  ASSUME TypeOK, NEW line \in typed, Reading(line),
         \/ client' = [client EXCEPT !.pc = "ended"]
         \/ \E ui \in UiStates : client' = [client EXCEPT !.todo = {}, !.ui = ui]
         \/ client' = [client EXCEPT !.todo = {}, !.continue_prompt_active = FALSE,
                                     !.pending_continue_equip = None],
         Silent \/ \E command \in Commands : Send(command)
  PROVE  IInv'
<1>1. typed' = {} /\ UNCHANGED <<toClient, asked>> BY DEF Reading
<1>2. toServer' \in Seq(Commands)
  <2>1. CASE Silent BY <2>1 DEF Silent, TypeOK
  <2>2. CASE \E command \in Commands : Send(command)
    <3>1. PICK command \in Commands : toServer' = Append(toServer, command) BY <2>2 DEF Send
    <3>2. toServer \in Seq(Commands) BY DEF TypeOK
    <3> QED BY <3>1, <3>2, AppendProperties
  <2> QED BY <2>1, <2>2
<1>3. client' \in [pc : {"login", "loop", "ended"}, ui : UiStates,
                   todo : SUBSET {"stdin", "socket"},
                   continue_prompt_active : BOOLEAN,
                   pending_continue_equip : Equips \cup {None}]
  BY DEF TypeOK
<1>4. /\ typed' \in SUBSET [words : TypedLines, saw : UiStates]
      /\ \A l, m \in typed' : l = m
  BY <1>1
<1>5. client.pc = "loop" /\ "socket" \notin client.todo BY DEF Reading
<1>6. Served' BY <1>3, <1>5 DEF Served, TypeOK
<1> QED BY <1>1, <1>2, <1>3, <1>4, <1>6 DEF IInv, TypeOK, SawOrAck

LEMMA InitTypes == Init => IInv
<1> SUFFICES ASSUME Init PROVE IInv
  OBVIOUS
<1>1. client \in [pc : {"login", "loop", "ended"}, ui : UiStates,
                  todo : SUBSET {"stdin", "socket"},
                  continue_prompt_active : BOOLEAN,
                  pending_continue_equip : Equips \cup {None}]
  BY DEF Init, UiStates
<1>2. toServer \in Seq(Commands) /\ toClient \in Seq(Lines)
  <2>1. [cmd |-> "LOGIN"] \in Commands BY DEF Commands
  <2> QED BY <2>1 DEF Init
<1> QED BY <1>1, <1>2 DEF Init, IInv, TypeOK, SawOrAck, Served

LEMMA KeysStep == ASSUME IInv, ReadKeys PROVE IInv'
<1> PICK line \in typed :
      \/ EndOfInput(line) \/ Answer(line) \/ Acknowledge(line) \/ EmptyLine(line)
      \/ MainOrBack(line) \/ ContinueCommand(line) \/ Choice(line) \/ Command(line)
  BY DEF ReadKeys
<1>0. TypeOK BY DEF IInv
<1>1. client.ui \in UiStates /\ line.words \in TypedLines BY <1>0 DEF TypeOK
<1>2. {"UI_MAIN_MENU", "UI_RESERVE_EQUIP", "UI_CANCEL_EQUIP", "UI_QUERY_EQUIP"} \subseteq UiStates
  BY DEF UiStates, Menus
<1>3. CASE EndOfInput(line) BY <1>0, <1>3, KeysType DEF EndOfInput, Leave
<1>4. CASE Answer(line)
  <2>1. Silent \/ \E command \in Commands : Send(command)
    <3>1. CASE client.pending_continue_equip >= 0
      <4>1. client.pending_continue_equip \in Equips
        BY <1>0, <3>1 DEF TypeOK, None, Equips
      <4>2. Head(line.words) \in Answers
        BY <1>4 DEF Answer, IsAnswer
      <4> QED BY <1>4, <3>1, <4>1, <4>2, SentCommands DEF Answer
    <3> QED BY <1>4, <3>1 DEF Answer
  <2> QED BY <1>0, <1>4, <2>1, KeysType DEF Answer
<1>5. CASE Acknowledge(line) \/ EmptyLine(line) \/ MainOrBack(line)
  BY <1>0, <1>1, <1>2, <1>5, KeysType
  DEF Acknowledge, EmptyLine, MainOrBack, AtMenu, Plain, Stay
<1>6. CASE ContinueCommand(line)
  <2>1. Silent \/ \E command \in Commands : Send(command)
    BY <1>6, NumberInEquips, SentCommands DEF ContinueCommand
  <2> QED BY <1>0, <1>1, <1>6, <2>1, KeysType DEF ContinueCommand, AtMenu, Plain, Stay
<1>7. CASE Choice(line)
  <2>1. Silent \/ \E command \in Commands : Send(command)
    BY <1>7, SentCommands DEF Choice
  <2>2. Reading(line) BY <1>7 DEF Choice, Entry, AtMenu, Plain
  <2>3. \/ client' = [client EXCEPT !.pc = "ended"]
        \/ \E ui \in UiStates : client' = [client EXCEPT !.todo = {}, !.ui = ui]
    BY <1>2, <1>7 DEF Choice, Leave, Stay
  <2> QED BY <1>0, <2>1, <2>2, <2>3, KeysType
<1>8. CASE Command(line)
  <2> DEFINE cmd == CASE client.ui = "UI_RESERVE_EQUIP" -> "RESERVE"
                      [] client.ui = "UI_CANCEL_EQUIP" -> "CANCEL"
                      [] OTHER -> "QUERY_EQUIP"
  <2>1. cmd \in {"RESERVE", "CANCEL", "QUERY_EQUIP"} OBVIOUS
  <2> HIDE DEF cmd
  <2>2. Silent \/ \E command \in Commands : Send(command)
    <3>1. CASE Head(line.words) \in EquipWords
      <4>1. Send([cmd |-> cmd, e |-> Number[Head(line.words)]])
        BY <1>8, <3>1 DEF Command, cmd
      <4> QED BY <2>1, <3>1, <4>1, NumberInEquips, SentCommands
    <3> QED BY <1>8, <3>1 DEF Command
  <2>3. \E ui \in UiStates : client' = [client EXCEPT !.todo = {}, !.ui = ui]
    BY <1>1, <1>2, <1>8 DEF Command, Stay
  <2> QED BY <1>0, <1>8, <2>2, <2>3, KeysType DEF Command, Entry, AtMenu, Plain
<1> QED BY <1>3, <1>4, <1>5, <1>6, <1>7, <1>8

(* What pushes lines leaves the client and the keyboard alone. *)
LEMMA PushStep ==
  ASSUME IInv, NEW line \in Lines, Push(line), UNCHANGED <<client, typed>>,
         toServer' \in Seq(Commands), asked' \in SUBSET Equips
  PROVE  IInv'
<1>1. toClient' \in Seq(Lines) /\ toClient' # <<>> BY AppendProperties DEF Push, IInv, TypeOK
<1> QED BY <1>1 DEF IInv, TypeOK, SawOrAck, Served

LEMMA ServerPart == ASSUME IInv, ServerStep PROVE IInv'
<1>0. /\ toServer \in Seq(Commands) /\ toClient \in Seq(Lines) /\ asked \in SUBSET Equips
  BY DEF IInv, TypeOK
<1>1. CASE Reply
  <2>1. toServer' \in Seq(Commands) BY <1>0, <1>1, HeadTailProperties DEF Reply
  <2> QED BY <1>0, <1>1, <2>1, PushStep, PushedLines DEF Reply
<1>2. CASE Respond
  <2>1. toServer' \in Seq(Commands) BY <1>0, <1>2, HeadTailProperties DEF Respond
  <2>2. asked' \in SUBSET Equips BY <1>0, <1>2 DEF Respond
  <2> QED BY <1>2, <2>1, <2>2, PushStep, PushedLines DEF Respond
<1>3. CASE Inform BY <1>0, <1>3, PushStep, PushedLines DEF Inform
<1>4. CASE HangUp BY <1>0, <1>4, PushStep, PushedLines DEF HangUp
<1>5. ASSUME NEW e \in Equips, Ask(e) PROVE IInv'
  BY <1>0, <1>5, PushStep, PushedLines DEF Ask
<1>6. ASSUME NEW e \in Equips, GiveAway(e) PROVE IInv'
  <2>1. asked' \in SUBSET Equips BY <1>0, <1>6 DEF GiveAway
  <2> QED BY <1>0, <1>6, <2>1, PushStep, PushedLines DEF GiveAway
<1>7. ASSUME NEW e \in Equips, Expire(e) PROVE IInv'
  <2>1. asked' \in SUBSET Equips BY <1>0, <1>7 DEF Expire
  <2> QED BY <1>0, <1>7, <2>1 DEF Expire, IInv, TypeOK, SawOrAck, Served
<1> QED BY <1>1, <1>2, <1>3, <1>4, <1>5, <1>6, <1>7 DEF ServerStep

LEMMA SocketStep == ASSUME IInv, LoginReply \/ Select \/ ReadServer PROVE IInv'
<1> DEFINE Clients == [pc : {"login", "loop", "ended"}, ui : UiStates,
                       todo : SUBSET {"stdin", "socket"},
                       continue_prompt_active : BOOLEAN,
                       pending_continue_equip : Equips \cup {None}]
<1>0. client \in Clients /\ toClient \in Seq(Lines) /\ Served BY DEF IInv, TypeOK
<1>1. CASE LoginReply
  <2>1. client' \in Clients /\ client'.ui = client.ui BY <1>0, <1>1 DEF LoginReply
  <2>2. toClient' \in Seq(Lines) BY <1>0, <1>1, HeadTailProperties DEF LoginReply
  <2>3. Served' BY <1>0, <1>1 DEF LoginReply, Served
  <2> QED BY <1>1, <2>1, <2>2, <2>3 DEF LoginReply, IInv, TypeOK, SawOrAck
<1>2. CASE Select
  <2>1. client' \in Clients /\ client'.ui = client.ui BY <1>0, <1>2 DEF Select
  <2>2. Served' BY <1>0, <1>2 DEF Select, Served
  <2> QED BY <1>2, <2>1, <2>2 DEF Select, IInv, TypeOK, SawOrAck
<1>3. CASE ReadServer
  <2> DEFINE line == Head(toClient)
             shown == [client EXCEPT !.todo = @ \ {"socket"}, !.ui = "UI_WAIT_MAIN_ACK"]
  <2>0. \/ client' = [client EXCEPT !.pc = "ended"]
        \/ line.kind = "CONTINUE_PROMPT"
           /\ client' = [shown EXCEPT !.continue_prompt_active = TRUE,
                                      !.pending_continue_equip = line.e]
        \/ client' = [shown EXCEPT !.continue_prompt_active = FALSE,
                                   !.pending_continue_equip = None]
        \/ client' = shown
    BY <1>3 DEF ReadServer
  <2>1. toClient' \in Seq(Lines) /\ Head(toClient) \in Lines
    <3>1. toClient # <<>> BY <1>0, <1>3 DEF ReadServer, Served
    <3> QED BY <1>0, <1>3, <3>1, HeadTailProperties DEF ReadServer
  <2>2. CASE client' = [client EXCEPT !.pc = "ended"]
    <3>1. client' \in Clients /\ client'.ui = client.ui BY <1>0, <2>2
    <3>2. Served' BY <1>0, <2>2 DEF Served
    <3> QED BY <1>3, <2>1, <3>1, <3>2 DEF ReadServer, IInv, TypeOK, SawOrAck
  <2>3. CASE client' # [client EXCEPT !.pc = "ended"]
    <3>1. shown \in Clients BY <1>0 DEF UiStates
    <3>2. client' \in Clients /\ client'.ui = "UI_WAIT_MAIN_ACK"
                                 /\ "socket" \notin client'.todo /\ client'.pc = "loop"
      <4>1. client.pc = "loop" BY <1>3 DEF ReadServer
      <4>2. line.kind = "CONTINUE_PROMPT" => line.e \in Equips
        BY <2>1 DEF Lines
      <4>3. shown.pc = "loop" /\ "socket" \notin shown.todo /\ shown.ui = "UI_WAIT_MAIN_ACK"
        BY <1>0, <4>1
      <4> HIDE DEF shown, line
      <4> QED BY <2>0, <2>3, <3>1, <4>2, <4>3
    <3> QED BY <1>3, <2>1, <3>2 DEF ReadServer, IInv, TypeOK, SawOrAck, Served
  <2> QED BY <2>2, <2>3
<1> QED BY <1>1, <1>2, <1>3

LEMMA TypeStep == ASSUME IInv, Type PROVE IInv'
<1>1. PICK words \in TypedLines : typed' = {[words |-> words, saw |-> client.ui]}
  BY DEF Type
<1>2. client.ui \in UiStates BY DEF IInv, TypeOK
<1> QED BY <1>1, <1>2 DEF Type, IInv, TypeOK, SawOrAck, Served

LEMMA NextStep == ASSUME IInv, [Next]_vars PROVE IInv'
<1>1. CASE UNCHANGED vars BY <1>1 DEF vars, IInv, TypeOK, SawOrAck, Served
<1> QED BY <1>1, KeysStep, SocketStep, ServerPart, TypeStep DEF Next, ClientStep

(* The locals of main, the typed line and both connections keep their types *)
(* (client.c, main).                                                        *)
THEOREM TypeCorrect == Spec => []TypeOK
<1>1. IInv /\ [Next]_vars => IInv' BY NextStep
<1>2. IInv => TypeOK BY DEF IInv
<1> QED BY <1>1, <1>2, InitTypes, PTL DEF Spec

(* Whatever the server pushes between the typing and the reading of a line, *)
(* the line does not act in another menu than the one it was typed for      *)
(* (client.c:241-330).                                                      *)
THEOREM LinesActWhereTyped == Spec => TypedHere
<1> DEFINE Act == \A line \in typed :
             /\ typed' = {} /\ line.saw # client.ui
             /\ ~IsAnswer(line.words) /\ line.words # <<"^D">>
             => /\ toServer' = toServer /\ client'.ui \notin Menus
                /\ client'.pc = "loop"
<1>1. IInv /\ [Next]_vars => [Act]_vars
  <2> SUFFICES ASSUME IInv, Next, NEW line \in typed, typed' = {}, line.saw # client.ui,
                      ~IsAnswer(line.words), line.words # <<"^D">>
               PROVE  toServer' = toServer /\ client'.ui \notin Menus /\ client'.pc = "loop"
    OBVIOUS
  <2>1. client.ui = "UI_WAIT_MAIN_ACK" BY DEF IInv, SawOrAck
  <2>2. ReadKeys
    <3>1. typed' # typed OBVIOUS
    <3>2. ~Type BY DEF Type
    <3> QED BY <3>1, <3>2
      DEF Next, ClientStep, LoginReply, Select, ReadServer, ServerStep, Reply, Respond,
          Inform, HangUp, Ask, GiveAway, Expire
  <2>3. PICK l \in typed :
          \/ EndOfInput(l) \/ Answer(l) \/ Acknowledge(l) \/ EmptyLine(l)
          \/ MainOrBack(l) \/ ContinueCommand(l) \/ Choice(l) \/ Command(l)
    BY <2>2 DEF ReadKeys
  <2>4. l = line BY DEF IInv, TypeOK
  <2>5. Acknowledge(line)
    BY <2>1, <2>3, <2>4
    DEF EndOfInput, Answer, EmptyLine, MainOrBack, ContinueCommand, Choice, Command,
        Entry, AtMenu
  <2>6. /\ toServer' = toServer /\ client.pc = "loop"
        /\ client' = [client EXCEPT !.todo = {}, !.ui = "UI_MAIN_MENU"]
    BY <2>5 DEF Acknowledge, Plain, Reading, Stay, Silent
  <2> QED BY <2>6 DEF IInv, TypeOK, Menus
<1> QED BY <1>1, InitTypes, NextStep, PTL DEF Spec, TypedHere
=============================================================================
