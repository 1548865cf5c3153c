----------------------------- MODULE TrainServer -----------------------------
(***************************************************************************)
(* lab4 lab4_server.c: for every connection the server forks a process     *)
(* that runs sl with the connection as its output.  The SIGCHLD handler    *)
(* reaps, the SIGINT handler closes the listening socket.                  *)
(*                                                                         *)
(* A descriptor is what it refers to, a connection or the listening        *)
(* socket; the process of connection t is train t.  Signals of one kind    *)
(* that are pending together are one.                                      *)
(***************************************************************************)
EXTENDS Integers, FiniteSets

CONSTANTS Trains,       \* clients, one connection each
          Listening     \* the descriptor in sockfd

Main == "main"      \* the server's process

ASSUME TrainsAssumption == Listening \notin Trains /\ Main \notin Trains

VARIABLES
  server,     \* where main is
  connfd,     \* the connection at hand
  client,     \* of each connection: not there, in the queue, accepted
  open,       \* descriptors of the server (at 0) and of each train
  train,      \* the process of each connection
  sigchld, sigint  \* pending

trainVars == <<server, connfd, client, open, train, sigchld, sigint>>

TrainInit ==
  /\ server = "accept" /\ connfd = Listening
  /\ client = [t \in Trains |-> "away"]
  /\ open = [p \in {Main} \cup Trains |-> IF p = Main THEN {Listening} ELSE {}]
  /\ train = [t \in Trains |-> "none"]
  /\ sigchld = FALSE /\ sigint = FALSE

Running == server # "ended"

-----------------------------------------------------------------------------
(* Clients and signals. *)

Arrive(t) ==
  /\ client[t] = "away" /\ \E p \in DOMAIN open : Listening \in open[p]
  /\ client' = [client EXCEPT ![t] = "queued"]
  /\ UNCHANGED <<server, connfd, open, train, sigchld, sigint>>

CtrlC ==
  /\ Running /\ ~sigint /\ Listening \in open[Main] /\ sigint' = TRUE
  /\ UNCHANGED <<server, connfd, client, open, train, sigchld>>

(* handler, in the middle of anything *)
CloseListening ==
  /\ Running /\ sigint /\ sigint' = FALSE
  /\ open' = [open EXCEPT ![Main] = @ \ {Listening}]
  /\ UNCHANGED <<server, connfd, client, train, sigchld>>

(* zombie_handler takes all that are there, so one signal does for many. *)
Reap_BUG ==                                 \* waitpid once
  /\ Running /\ sigchld /\ sigchld' = FALSE
  /\ \E t \in Trains :
       /\ train[t] = "zombie"
       /\ train' = [train EXCEPT ![t] = "reaped"]
  /\ UNCHANGED <<server, connfd, client, open, sigint>>

Reap ==
  /\ Running /\ sigchld /\ sigchld' = FALSE
  /\ train' = [t \in Trains |-> IF train[t] = "zombie" THEN "reaped" ELSE train[t]]
  /\ UNCHANGED <<server, connfd, client, open, sigint>>

-----------------------------------------------------------------------------
(* main.  signal() restarts the accept that a signal interrupts; on a       *)
(* closed descriptor accept fails, and the server ends.                     *)
TakeConnection(t) ==
  /\ server = "accept" /\ Listening \in open[Main] /\ client[t] = "queued"
  /\ client' = [client EXCEPT ![t] = "accepted"]
  /\ connfd' = t /\ open' = [open EXCEPT ![Main] = @ \cup {t}]
  /\ server' = "fork"
  /\ UNCHANGED <<train, sigchld, sigint>>

AcceptFails ==
  /\ server = "accept" /\ Listening \notin open[Main]
  /\ server' = "ended" /\ open' = [open EXCEPT ![Main] = {}]
  /\ UNCHANGED <<connfd, client, train, sigchld, sigint>>

(* The child starts with the server's descriptors; when fork fails, connfd  *)
(* stays open.                                                              *)
Fork ==
  /\ server = "fork"
  /\ \/ /\ server' = "parent"
        /\ train' = [train EXCEPT ![connfd] = "forked"]
        /\ open' = [open EXCEPT ![connfd] = open[Main]]
     \/ server' = "accept" /\ UNCHANGED <<train, open>>
  /\ UNCHANGED <<connfd, client, sigchld, sigint>>

CloseConnection_BUG ==                      \* left to the child
  /\ server = "parent" /\ server' = "accept"
  /\ UNCHANGED <<connfd, client, open, train, sigchld, sigint>>

CloseConnection ==
  /\ server = "parent" /\ server' = "accept"
  /\ open' = [open EXCEPT ![Main] = @ \ {connfd}]
  /\ UNCHANGED <<connfd, client, train, sigchld, sigint>>

Serve == AcceptFails \/ Fork \/ CloseConnection \/ \E t \in Trains : TakeConnection(t)

-----------------------------------------------------------------------------
(* The child: it closes the listening socket, makes the connection its      *)
(* output and becomes sl, or fails to; other descriptors stay open.         *)
Exec(t) ==
  /\ train[t] = "forked"
  /\ train' = [train EXCEPT ![t] = "sl"]
  /\ open' = [open EXCEPT ![t] = @ \ {Listening}]
  /\ UNCHANGED <<server, connfd, client, sigchld, sigint>>

Exit(t) ==
  /\ train[t] = "sl"
  /\ train' = [train EXCEPT ![t] = IF Running THEN "zombie" ELSE "reaped"]
  /\ open' = [open EXCEPT ![t] = {}]
  /\ sigchld' = Running
  /\ UNCHANGED <<server, connfd, client, sigint>>

Child(t) == Exec(t) \/ Exit(t)

TrainNext ==
  \/ CtrlC \/ CloseListening \/ Reap \/ Serve
  \/ \E t \in Trains : Arrive(t) \/ Child(t)

TrainSpec == TrainInit /\ [][TrainNext]_trainVars

(* Signals are delivered, processes go on and sl comes to its end.          *)
TrainFairness ==
  /\ WF_trainVars(CloseListening) /\ WF_trainVars(Reap) /\ WF_trainVars(Serve)
  /\ \A t \in Trains : WF_trainVars(Child(t))

TrainFairSpec == TrainSpec /\ TrainFairness

-----------------------------------------------------------------------------
(* Properties. *)

TrainTypeOK ==
  /\ server \in {"accept", "fork", "parent", "ended"}
  /\ connfd \in Trains \cup {Listening} /\ (server = "fork" => connfd \in Trains)
  /\ client \in [Trains -> {"away", "queued", "accepted"}]
  /\ open \in [{Main} \cup Trains -> SUBSET (Trains \cup {Listening})]
  /\ train \in [Trains -> {"none", "forked", "sl", "zombie", "reaped"}]
  /\ sigchld \in BOOLEAN /\ sigint \in BOOLEAN

(* Trains that end together leave one signal and no zombie for good.        *)
Zombies == {t \in Trains : train[t] = "zombie"}
Reaped == Running /\ Zombies # {} ~> ~Running \/ Zombies = {}

(* Who has seen his train pass is disconnected: nobody keeps a copy of his  *)
(* connection, neither the server nor a later train.                        *)
Kept == {t \in Trains : train[t] # "none" /\ \E p \in DOMAIN open : t \in open[p]}
Disconnected == Kept # {} ~> Kept = {}
=============================================================================
