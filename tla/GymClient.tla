------------------------------ MODULE GymClient ------------------------------
(***************************************************************************)
(* The user's program of Final_project/integration/client.c: a menu and    *)
(* one loop around select() that takes a line from the server, then a line *)
(* from the keyboard.  Lines the server pushes arrive between the two      *)
(* lines a menu needs, and CONTINUE_PROMPT gives the digits 0 and 1 a      *)
(* second meaning.                                                         *)
(*                                                                         *)
(* The server is reduced to what this user's client sees of it: the open   *)
(* "once more?" questions, and one line in reply to every other command.   *)
(* The user types a line when the last one has been read, at whatever menu *)
(* the screen shows then (saw).  A line is a sequence of words; the bytes  *)
(* of lines and the texts printed are left out.                            *)
(***************************************************************************)
EXTENDS Integers, SequencesExt

CONSTANTS EQUIP_COUNT,
          MAX_LINES,     \* bound: lines under way to the client
          MAX_COMMANDS   \* bound: the user types while fewer are under way

ASSUME ClientAssumption ==
  EQUIP_COUNT \in 1..6 /\ MAX_LINES \in Nat /\ MAX_COMMANDS \in Nat

VARIABLES
  client,             \* the locals of main
  typed,              \* the line typed and not read yet, or none
  toServer, toClient, \* the connection
  asked               \* machines in WAITING_CONTINUE for this user

vars == <<client, typed, toServer, toClient, asked>>

Equips == 0..(EQUIP_COUNT - 1)
None == -1

Menus == {"UI_RESERVE_EQUIP", "UI_CANCEL_EQUIP", "UI_QUERY_EQUIP"}
UiStates == Menus \cup {"UI_MAIN_MENU", "UI_WAIT_MAIN_ACK"}

(* What users type, word by word: "main" is also for "back", which does the *)
(* same, and <<"^D">> is the end of the input.                              *)
Digits == {"0", "1", "2", "3", "4", "5"}
Number == [d \in Digits |-> CASE d = "0" -> 0 [] d = "1" -> 1 [] d = "2" -> 2
                              [] d = "3" -> 3 [] d = "4" -> 4 [] OTHER -> 5]
EquipWords == {d \in Digits : Number[d] < EQUIP_COUNT}
Answers == {"0", "1"}
TypedLines ==
  {<<d>> : d \in Digits}
    \cup {<<>>, <<"main">>, <<"^D">>, <<"continue", "0", "1">>}

Commands == [cmd : {"RESERVE", "CANCEL", "QUERY_EQUIP"}, e : Equips]
              \cup [cmd : {"CONTINUE_RESPONSE"}, e : Equips, answer : Answers]
              \cup [cmd : {"LOGIN", "QUERY_USER"}]
(* CONTINUE_END stands for CONTINUE_YES, _NO and _FAIL, which the client     *)
(* does not tell apart, nor whose machine they are about.                   *)
Lines == [kind : {"CONTINUE_PROMPT"}, e : Equips]
           \cup [kind : {"CONTINUE_END", "OTHER", "closed"}]
End == [kind |-> "CONTINUE_END"]
Other == [kind |-> "OTHER"]
Closed == [kind |-> "closed"]

Init ==
  /\ client = [pc |-> "login", ui |-> "UI_MAIN_MENU", todo |-> {},
               continue_prompt_active |-> FALSE, pending_continue_equip |-> None]
  /\ typed = {}
  /\ toServer = <<[cmd |-> "LOGIN"]>> /\ toClient = <<>>
  /\ asked = {}

-----------------------------------------------------------------------------
(* The user: whatever the screen shows when the line is typed is what the  *)
(* line is meant for.                                                      *)
Type ==
  /\ client.pc = "loop" /\ typed = {} /\ Len(toServer) < MAX_COMMANDS
  /\ \E words \in TypedLines : typed' = {[words |-> words, saw |-> client.ui]}
  /\ UNCHANGED <<client, toServer, toClient, asked>>

-----------------------------------------------------------------------------
(* The client. *)

Send(command) == toServer' = Append(toServer, command)
Silent == toServer' = toServer

(* The first line is taken for the reply to LOGIN, whatever it says. *)
LoginReply ==
  /\ client.pc = "login" /\ toClient # <<>>
  /\ client' = [client EXCEPT !.pc = IF Head(toClient) = Closed THEN "ended" ELSE "loop"]
  /\ toClient' = Tail(toClient)
  /\ UNCHANGED <<typed, toServer, asked>>

Select_BUG ==                               \* the keyboard goes first
  /\ client.pc = "loop" /\ client.todo = {}
  /\ typed # {} \/ toClient # <<>>
  /\ client' = [client EXCEPT !.todo = IF typed # {} THEN {"stdin"} ELSE {"socket"}]
  /\ UNCHANGED <<typed, toServer, toClient, asked>>

Select ==
  /\ client.pc = "loop" /\ client.todo = {}
  /\ typed # {} \/ toClient # <<>>
  /\ client' = [client EXCEPT
       !.todo = {fd \in {"stdin", "socket"} : IF fd = "stdin" THEN typed # {}
                                              ELSE toClient # <<>>}]
  /\ UNCHANGED <<typed, toServer, toClient, asked>>

(* A line of the server: it may open or close the question, and it takes    *)
(* the user out of whatever menu he was in.                                 *)
ReadServer_BUG ==                           \* stays in the menu
  /\ client.pc = "loop" /\ "socket" \in client.todo
  /\ toClient' = Tail(toClient)
  /\ LET line == Head(toClient) IN
     client' =
       CASE line.kind = "closed" -> [client EXCEPT !.pc = "ended"]
         [] line.kind = "CONTINUE_PROMPT" ->
              [client EXCEPT !.todo = @ \ {"socket"}, !.ui = "UI_MAIN_MENU",
                 !.continue_prompt_active = TRUE, !.pending_continue_equip = line.e]
         [] OTHER -> [client EXCEPT !.todo = @ \ {"socket"}, !.ui = "UI_MAIN_MENU"]
  /\ UNCHANGED <<typed, toServer, asked>>

ReadServer ==
  /\ client.pc = "loop" /\ "socket" \in client.todo
  /\ toClient' = Tail(toClient)
  /\ LET line == Head(toClient)
         shown == [client EXCEPT !.todo = @ \ {"socket"}, !.ui = "UI_WAIT_MAIN_ACK"]
     IN client' =
       CASE line.kind = "closed" -> [client EXCEPT !.pc = "ended"]
         [] line.kind = "CONTINUE_PROMPT" ->
              [shown EXCEPT !.continue_prompt_active = TRUE,
                            !.pending_continue_equip = line.e]
         [] line = End ->
              [shown EXCEPT !.continue_prompt_active = FALSE,
                            !.pending_continue_equip = None]
         [] OTHER -> shown
  /\ UNCHANGED <<typed, asked, toServer>>

(* The line the keyboard part of the loop looks at. *)
Reading(line) ==
  /\ client.pc = "loop" /\ "socket" \notin client.todo /\ "stdin" \in client.todo
  /\ typed = {line} /\ typed' = {}
  /\ UNCHANGED <<toClient, asked>>

Stay(ui) == client' = [client EXCEPT !.todo = {}, !.ui = ui]
Leave == client' = [client EXCEPT !.pc = "ended"]
IsAnswer(words) == client.continue_prompt_active /\ \E d \in Answers : words = <<d>>

(* The checks of the loop in the order of the code. *)
EndOfInput(line) ==
  /\ Reading(line) /\ line.words = <<"^D">>
  /\ Leave /\ Silent

(* Digits answer the open question, in every menu. *)
Answer(line) ==
  /\ Reading(line) /\ IsAnswer(line.words)
  /\ client' = [client EXCEPT !.todo = {}, !.continue_prompt_active = FALSE,
                              !.pending_continue_equip = None]
  /\ IF client.pending_continue_equip >= 0
     THEN Send([cmd |-> "CONTINUE_RESPONSE", e |-> client.pending_continue_equip,
                answer |-> Head(line.words)])
     ELSE Silent

(* The rest is for lines that are neither. *)
Plain(line) ==
  /\ Reading(line) /\ line.words # <<"^D">> /\ ~IsAnswer(line.words)

Acknowledge(line) ==
  /\ Plain(line) /\ client.ui = "UI_WAIT_MAIN_ACK"
  /\ Stay("UI_MAIN_MENU") /\ Silent

AtMenu(line) == Plain(line) /\ client.ui # "UI_WAIT_MAIN_ACK"

EmptyLine(line) == AtMenu(line) /\ line.words = <<>> /\ Stay(client.ui) /\ Silent

MainOrBack(line) ==
  /\ AtMenu(line) /\ line.words = <<"main">>
  /\ Stay("UI_MAIN_MENU") /\ Silent

(* handle_continue_command: strtok's first token is the command word itself, *)
(* and strtol finds no number in it.                                        *)
ContinueCommand(line) ==
  LET equip_str == line.words[1]  answer == line.words[2] IN
  /\ AtMenu(line) /\ Len(line.words) > 1
  /\ Stay(client.ui)
  /\ IF equip_str \in EquipWords /\ answer \in Answers
     THEN Send([cmd |-> "CONTINUE_RESPONSE", e |-> Number[equip_str], answer |-> answer])
     ELSE Silent

(* One word that is not a command: a choice or a machine. *)
Entry(line) ==
  /\ AtMenu(line) /\ Len(line.words) = 1
  /\ line.words # <<"main">>

(* The main menu; atoi of anything else is no choice. *)
Choice(line) ==
  LET word == Head(line.words) IN
  /\ Entry(line) /\ client.ui = "UI_MAIN_MENU"
  /\ \/ word = "1" /\ Stay("UI_RESERVE_EQUIP") /\ Silent
     \/ word = "2" /\ Stay("UI_CANCEL_EQUIP") /\ Silent
     \/ word = "3" /\ Stay("UI_QUERY_EQUIP") /\ Silent
     \/ word = "4" /\ Stay("UI_MAIN_MENU") /\ Send([cmd |-> "QUERY_USER"])
     \/ word = "5" /\ Leave /\ Silent
     \/ word \notin {"1", "2", "3", "4", "5"} /\ Stay("UI_MAIN_MENU") /\ Silent

(* The second step: the machine. *)
Command(line) ==
  LET word == Head(line.words)
      cmd == CASE client.ui = "UI_RESERVE_EQUIP" -> "RESERVE"
               [] client.ui = "UI_CANCEL_EQUIP" -> "CANCEL"
               [] OTHER -> "QUERY_EQUIP"
  IN
  /\ Entry(line) /\ client.ui \in Menus
  /\ IF word \in EquipWords
     THEN Stay("UI_MAIN_MENU") /\ Send([cmd |-> cmd, e |-> Number[word]])
     ELSE Stay(client.ui) /\ Silent

ReadKeys ==
  \E line \in typed :
    \/ EndOfInput(line) \/ Answer(line) \/ Acknowledge(line) \/ EmptyLine(line)
    \/ MainOrBack(line) \/ ContinueCommand(line) \/ Choice(line) \/ Command(line)

ClientStep == LoginReply \/ Select \/ ReadServer \/ ReadKeys

-----------------------------------------------------------------------------
(* The server, as far as this client can tell. *)

Open == client.pc # "ended" /\ ~Contains(toClient, Closed)
Push(line) ==
  /\ Open /\ Len(toClient) < MAX_LINES
  /\ toClient' = Append(toClient, line)

(* client_thread: LOGIN, and the commands of GymServer that answer at once. *)
Reply ==
  /\ toServer # <<>> /\ Head(toServer).cmd # "CONTINUE_RESPONSE"
  /\ toServer' = Tail(toServer)
  /\ Push(Other)
  /\ UNCHANGED <<client, typed, asked>>

(* CONTINUE_RESPONSE of the user who is asked, or of one who is not. *)
Respond ==
  LET response == Head(toServer) IN
  /\ toServer # <<>> /\ response.cmd = "CONTINUE_RESPONSE"
  /\ toServer' = Tail(toServer)
  /\ asked' = asked \ {response.e}
  /\ Push(End)
  /\ UNCHANGED <<client, typed>>

LoggedIn == ~Contains(toServer, [cmd |-> "LOGIN"])

(* prompt_user_continue *)
Ask(e) ==
  /\ LoggedIn /\ e \notin asked
  /\ asked' = asked \cup {e}
  /\ Push([kind |-> "CONTINUE_PROMPT", e |-> e])
  /\ UNCHANGED <<client, typed, toServer>>

(* decline_continue for somebody who queues; and after the deadline, when    *)
(* the line goes to the emptied user id (server.c:746).                     *)
GiveAway(e) ==
  /\ e \in asked /\ asked' = asked \ {e}
  /\ Push(End)
  /\ UNCHANGED <<client, typed, toServer>>

Expire(e) ==
  /\ e \in asked /\ asked' = asked \ {e}
  /\ UNCHANGED <<client, typed, toServer, toClient>>

(* Any other line: YOUR_TURN, CHECKIN_OK, BANNED ... *)
Inform ==
  /\ LoggedIn /\ Push(Other)
  /\ UNCHANGED <<client, typed, toServer, asked>>

HangUp == Push(Closed) /\ UNCHANGED <<client, typed, toServer, asked>>

ServerStep ==
  \/ Reply \/ Respond \/ Inform \/ HangUp
  \/ \E e \in Equips : Ask(e) \/ GiveAway(e) \/ Expire(e)

Next == Type \/ ClientStep \/ (ServerStep /\ client.pc # "ended")

Spec == Init /\ [][Next]_vars

(* Only the client has to go on: users and server may rest, or never stop.  *)
FairSpec == Spec /\ WF_vars(ClientStep)

-----------------------------------------------------------------------------
(* Properties. *)

(* The locals of main, the line typed, the lines under way.                 *)
TypeOK ==
  /\ client \in [pc : {"login", "loop", "ended"}, ui : UiStates,
                 todo : SUBSET {"stdin", "socket"},
                 continue_prompt_active : BOOLEAN,
                 pending_continue_equip : Equips \cup {None}]
  /\ typed \in SUBSET [words : TypedLines, saw : UiStates]
  /\ \A line, other \in typed : line = other
  /\ toServer \in Seq(Commands) /\ toClient \in Seq(Lines)
  /\ asked \in SUBSET Equips

(* A line pushed between the typing and the reading of a line never turns   *)
(* that line into something else: unless it answers a question, a line      *)
(* typed at another menu than the one in which it is read sends nothing,    *)
(* opens no menu and does not quit.                                         *)
TypedHere ==
  [][\A line \in typed :
       /\ typed' = {} /\ line.saw # client.ui
       /\ ~IsAnswer(line.words) /\ line.words # <<"^D">>
       => /\ toServer' = toServer /\ client'.ui \notin Menus
          /\ client'.pc = "loop"]_vars

(* Whatever the user types meanwhile, a question that was sent is shown,    *)
(* unless the program ends: the loop serves the socket in every round.      *)
PromptSent(e) == Contains(toClient, [kind |-> "CONTINUE_PROMPT", e |-> e])
PromptShown ==
  \A e \in Equips :
    PromptSent(e) ~>
      \/ client.continue_prompt_active /\ client.pending_continue_equip = e
      \/ client.pc = "ended"
=============================================================================
