------------------------------- MODULE WebAtm -------------------------------
(***************************************************************************)
(* lab5: server.c, one account shared by one thread per connection, and    *)
(* client.c, which sends the same line a number of times and hangs up.     *)
(*                                                                         *)
(* A connection is a byte stream, and a read returns any part of what has  *)
(* come in: a line is three tokens here, and a read ends behind any token  *)
(* (inside one, it would book a part of a number, or nothing).  Overflow   *)
(* of the balance is left out.                                             *)
(*                                                                         *)
(* Ctrl-C removes the semaphore before it ends the process, and the        *)
(* threads run on in between: P and V then fail, which nobody looks at.    *)
(* Operators whose name ends in _BUG are mutants of the one after them.    *)
(***************************************************************************)
EXTENDS Sequences, FiniteSetsExt

CONSTANTS
  Clients,
  Action,           \* what each client wants: "deposit" or "withdraw"
  Amount,           \* and how much
  Times,            \* how often each client sends its line
  Garbage           \* what an amount never assigned may hold

ASSUME AtmAssumption ==
  /\ Action \in [Clients -> {"deposit", "withdraw"}]
  /\ Amount \in [Clients -> Int] /\ Garbage \subseteq Int
  /\ Times \in Nat

VARIABLES
  server,           \* "running", "stopping" (in the handler), "ended"
  sem, balance,
  sent, fin,        \* the lines each client sent, and who hung up
  chan,             \* what a thread has not read yet
  pc, cmd, amount,  \* of the thread of each client
  temp              \* the balance it has read and will write; 0 otherwise

clientVars == <<sent, fin>>
threadVars == <<chan, pc, cmd, amount, temp>>
vars == <<server, sem, balance, clientVars, threadVars>>

Line == <<"verb", "number", "newline">>

(* semctl(SETVAL) with 2 in place of 1. *)
Init_BUG ==
  /\ server = "running" /\ sem = 2 /\ balance = 0
  /\ sent = [c \in Clients |-> 0] /\ fin = {}
  /\ chan = [c \in Clients |-> <<>>]
  /\ pc = [c \in Clients |-> "none"]
  /\ cmd = [c \in Clients |-> "other"]
  /\ amount \in [Clients -> Garbage]
  /\ temp = [c \in Clients |-> 0]

Init ==
  /\ server = "running" /\ sem = 1 /\ balance = 0
  /\ sent = [c \in Clients |-> 0] /\ fin = {}
  /\ chan = [c \in Clients |-> <<>>]
  /\ pc = [c \in Clients |-> "none"]
  /\ cmd = [c \in Clients |-> "other"]
  /\ amount \in [Clients -> Garbage]
  /\ temp = [c \in Clients |-> 0]

-----------------------------------------------------------------------------
(* client.c: the connection is made by the kernel, before it is accepted. *)

Write(c) ==
  /\ sent[c] < Times
  /\ sent' = [sent EXCEPT ![c] = @ + 1]
  /\ chan' = [chan EXCEPT ![c] = @ \o Line]
  /\ UNCHANGED <<server, sem, balance, fin, pc, cmd, amount, temp>>

HangUp(c) ==
  /\ sent[c] = Times /\ c \notin fin
  /\ fin' = fin \cup {c}
  /\ UNCHANGED <<server, sem, balance, sent, threadVars>>

-----------------------------------------------------------------------------
(* server.c *)

Step(c, from, to) == server # "ended" /\ pc[c] = from /\ pc' = [pc EXCEPT ![c] = to]

(* The accept loop. *)
Accept(c) ==
  /\ server = "running" /\ Step(c, "none", "read")
  /\ UNCHANGED <<server, sem, balance, clientVars, chan, cmd, amount, temp>>

(* sscanf "%31s %d" of what one read returned: white space is skipped, the  *)
(* first line alone counts, and what does not match is not assigned.        *)
Scanned(tokens) == IF Head(tokens) = "newline" THEN Tail(tokens) ELSE tokens

Read(c) ==
  /\ Step(c, "read", "P")
  /\ \E n \in 1..Len(chan[c]) :
       LET tokens == Scanned(SubSeq(chan[c], 1, n)) IN
       /\ cmd' = [cmd EXCEPT ![c] = IF tokens = <<>> THEN @
                                    ELSE IF Head(tokens) = "verb" THEN Action[c]
                                    ELSE "other"]
       /\ amount' = [amount EXCEPT ![c] =
            IF Len(tokens) >= 2 /\ tokens[2] = "number" THEN Amount[c] ELSE @]
       /\ chan' = [chan EXCEPT ![c] = SubSeq(@, n + 1, Len(@))]
  /\ UNCHANGED <<server, sem, balance, clientVars, temp>>

EndOfFile(c) ==
  /\ chan[c] = <<>> /\ c \in fin /\ Step(c, "read", "closed")
  /\ UNCHANGED <<server, sem, balance, clientVars, chan, cmd, amount, temp>>

P(c) ==
  /\ Step(c, "P", "load")
  /\ server = "running" => sem > 0
  /\ sem' = IF server = "running" THEN sem - 1 ELSE sem
  /\ UNCHANGED <<server, balance, clientVars, chan, cmd, amount, temp>>

Load(c) ==
  /\ cmd[c] \in {"deposit", "withdraw"} /\ Step(c, "load", "store")
  /\ temp' = [temp EXCEPT ![c] = balance]
  /\ UNCHANGED <<server, sem, balance, clientVars, chan, cmd, amount>>

(* No other word changes the balance. *)
NoCommand(c) ==
  /\ cmd[c] \notin {"deposit", "withdraw"} /\ Step(c, "load", "V")
  /\ UNCHANGED <<server, sem, balance, clientVars, chan, cmd, amount, temp>>

Store(c) ==
  /\ Step(c, "store", "V")
  /\ balance' = IF cmd[c] = "deposit" THEN temp[c] + amount[c] ELSE temp[c] - amount[c]
  /\ temp' = [temp EXCEPT ![c] = 0]
  /\ UNCHANGED <<server, sem, clientVars, chan, cmd, amount>>

V_BUG(c) ==
  /\ Step(c, "V", "read")
  /\ UNCHANGED <<server, sem, balance, clientVars, chan, cmd, amount, temp>>

V(c) ==
  /\ Step(c, "V", "read")
  /\ sem' = IF server = "running" THEN sem + 1 ELSE sem
  /\ UNCHANGED <<server, balance, clientVars, chan, cmd, amount, temp>>

(* The signal handler: remove the semaphore, then exit. *)
Interrupt ==
  /\ server = "running" /\ server' = "stopping"
  /\ UNCHANGED <<sem, balance, clientVars, threadVars>>

Exit ==
  /\ server = "stopping" /\ server' = "ended"
  /\ UNCHANGED <<sem, balance, clientVars, threadVars>>

-----------------------------------------------------------------------------
ClientStep(c) == Write(c) \/ HangUp(c)
ThreadStep(c) ==
  Read(c) \/ EndOfFile(c) \/ P(c) \/ Load(c) \/ NoCommand(c) \/ Store(c) \/ V(c)

Next ==
  \/ \E c \in Clients : ClientStep(c) \/ Accept(c) \/ ThreadStep(c)
  \/ Interrupt \/ Exit

Spec == Init /\ [][Next]_vars

(* Clients and threads run; a client sends finitely often, so that nobody   *)
(* waits at the semaphore while others take it for ever.                    *)
FairSpec ==
  /\ Spec
  /\ \A c \in Clients : WF_vars(ClientStep(c)) /\ WF_vars(Accept(c)) /\ WF_vars(ThreadStep(c))

-----------------------------------------------------------------------------
(* The variables have the values they are declared for. *)
TypeOK ==
  /\ server \in {"running", "stopping", "ended"}
  /\ sem \in {0, 1} /\ balance \in Int
  /\ sent \in [Clients -> 0..Times] /\ fin \subseteq Clients
  /\ chan \in [Clients -> Seq({"verb", "number", "newline"})]
  /\ pc \in [Clients -> {"none", "read", "P", "load", "store", "V", "closed"}]
  /\ cmd \in [Clients -> {"deposit", "withdraw", "other"}]
  /\ amount \in [Clients -> Int] /\ temp \in [Clients -> Int]

(* No update is lost while the semaphore exists: what a thread is about to  *)
(* add to is still the balance (server.c 94-104).                           *)
NoLostUpdate ==
  server = "running" => \A c \in Clients : pc[c] = "store" => temp[c] = balance

(* Every connection is served to its end, unless the server is stopped:     *)
(* nobody waits at the semaphore for ever.                                  *)
AllServed == \A c \in Clients : []<>(pc[c] = "closed" \/ server # "running")

(* Every line sent by a client is booked, once: when all have hung up and   *)
(* were served, the balance is what they meant it to be.                    *)
Meant(c) == Times * (IF Action[c] = "deposit" THEN Amount[c] ELSE -Amount[c])
EveryLineBooked ==
  server = "running" /\ (\A c \in Clients : pc[c] = "closed") =>
    balance = MapThenSumSet(Meant, Clients)
=============================================================================
