--------------------------- MODULE GymConnections ---------------------------
(***************************************************************************)
(* The threads of Final_project/integration/server.c: main accepts and     *)
(* fills the table of client slots, one detached thread serves each slot,  *)
(* the timer runs beside them, g_lock is their only lock.  Peers quit and  *)
(* SIGINT arrives at any time.                                             *)
(*                                                                         *)
(* What a command or the timer does to the equipment is GymServer's; here  *)
(* whoever holds g_lock sends lines to users, as often as it likes, and    *)
(* comes to its end (GymSystem shows that drivers do answer).  A line that *)
(* a thread reads is whole (GymLines shows it).  A slot's fd is the        *)
(* connection itself.                                                      *)
(***************************************************************************)
EXTENDS Integers, SequencesExt

CONSTANTS MAX_CONNS,    \* bound: connections that peers open
          MAX_CLIENTS,
          MAX_LINES,    \* bound: lines of a peer under way
          BACKLOG       \* bound: connections that wait for accept

ASSUME ConnectionsAssumption ==
  /\ MAX_CONNS \in Nat /\ MAX_CLIENTS \in Nat \ {0}
  /\ MAX_LINES \in Nat /\ BACKLOG \in Nat

VARIABLES
  peer,       \* the other end of each connection
  backlog,    \* connections that wait for accept
  main,       \* where main is
  g_running, g_clients,
  g_lock,     \* who holds it
  timer,
  thread      \* the thread of each connection: where it is, and cli

vars == <<peer, backlog, main, g_running, g_clients, g_lock, timer, thread>>

Slots == 1..MAX_CLIENTS
Conns == 1..MAX_CONNS      \* a slot's fd, in the order of connecting
NoFd == 0

(* Who holds g_lock: nobody, the timer, or the thread of a connection. *)
Free == 0
TheTimer == -1

(* An end that is closed answers the next segment with a reset; a send after *)
(* that raises SIGPIPE, which nobody handles.                               *)
Ends == {"new", "up", "closed", "reset", "gone"}   \* gone: closed by the server
Gone == [end |-> "gone", lines |-> 0]
EmptySlot == [fd |-> NoFd, role |-> "ROLE_NONE"]
NoThread == [pc |-> "none", cli |-> 1]

Init ==
  /\ peer = [c \in Conns |-> [end |-> "new", lines |-> 0]]
  /\ backlog = <<>>
  /\ main = "accept"
  /\ g_running = TRUE
  /\ g_clients = [i \in Slots |-> EmptySlot]
  /\ g_lock = Free
  /\ timer = "sleep"
  /\ thread = [c \in Conns |-> NoThread]

Down == main \in {"exited", "killed"}

(* The process ends, with its memory and its connections. *)
Vanish(how) ==
  /\ main' = how /\ timer' = "ended" /\ g_lock' = Free
  /\ peer' = [c \in Conns |-> Gone] /\ backlog' = <<>>
  /\ g_clients' = [i \in Slots |-> EmptySlot] /\ thread' = [c \in Conns |-> NoThread]
  /\ UNCHANGED g_running

-----------------------------------------------------------------------------
(* Outside: peers and the terminal. *)

Connect(c) ==
  /\ Len(backlog) < BACKLOG
  /\ peer[c].end = "new" /\ \A d \in 1..(c - 1) : peer[d].end # "new"
  /\ peer' = [peer EXCEPT ![c].end = "up"]
  /\ backlog' = Append(backlog, c)
  /\ UNCHANGED <<main, g_running, g_clients, g_lock, timer, thread>>

SendLine(c) ==
  /\ peer[c].end = "up" /\ peer[c].lines < MAX_LINES
  /\ peer' = [peer EXCEPT ![c].lines = @ + 1]
  /\ UNCHANGED <<backlog, main, g_running, g_clients, g_lock, timer, thread>>

Quit(c) ==
  /\ peer[c].end = "up"
  /\ peer' = [peer EXCEPT ![c].end = "closed"]
  /\ UNCHANGED <<backlog, main, g_running, g_clients, g_lock, timer, thread>>

(* handle_sigint; signal() restarts the accept that it interrupts. *)
Interrupt ==
  /\ g_running /\ g_running' = FALSE
  /\ UNCHANGED <<peer, backlog, main, g_clients, g_lock, timer, thread>>

-----------------------------------------------------------------------------
(* What the holder of g_lock may do while it handles a line, updates the    *)
(* machines or cleans up.                                                   *)

(* send_all, to the caller's own client or by send_to_user *)
SendTo(i) ==
  LET c == g_clients[i].fd IN
  /\ g_lock # Free /\ c # NoFd
  /\ g_clients[i].role # "ROLE_NONE" \/ g_lock = c
  /\ \/ /\ peer[c].end = "closed" /\ peer' = [peer EXCEPT ![c].end = "reset"]
        /\ UNCHANGED <<backlog, main, g_running, g_clients, g_lock, timer, thread>>
     \/ peer[c].end = "reset" /\ Vanish("killed")

-----------------------------------------------------------------------------
(* main *)

Unused(i) == g_clients[i].fd = NoFd

(* accept, and then under g_lock the first free slot and a thread for it;   *)
(* or "Server full".  Then the head of the loop.                            *)
Accept ==
  LET c == Head(backlog) IN
  /\ main = "accept" /\ backlog # <<>> /\ g_lock = Free
  /\ main' = (IF g_running THEN "accept" ELSE "join") /\ backlog' = Tail(backlog)
  /\ \/ \E i \in Slots :
          /\ Unused(i) /\ \A j \in 1..(i - 1) : ~Unused(j)
          /\ g_clients' = [g_clients EXCEPT ![i] = [fd |-> c, role |-> "ROLE_NONE"]]
          /\ thread' = [thread EXCEPT ![c] = [pc |-> "loop", cli |-> i]]
          /\ UNCHANGED peer
     \/ /\ \A i \in Slots : ~Unused(i)
        /\ peer' = [peer EXCEPT ![c] = Gone]
        /\ UNCHANGED <<g_clients, thread>>
  /\ UNCHANGED <<g_running, g_lock, timer>>

(* The timer is awaited, client threads are not. *)
Join ==
  /\ main = "join" /\ timer = "ended"
  /\ Vanish("exited")

Main == Accept \/ Join

-----------------------------------------------------------------------------
(* timer_thread: after a second's sleep it waits for g_lock. *)

TimerLock ==
  /\ timer = "sleep" /\ g_lock = Free
  /\ timer' = "update" /\ g_lock' = TheTimer
  /\ UNCHANGED <<peer, backlog, main, g_running, g_clients, thread>>

TimerUnlock_BUG ==                          \* while (1)
  /\ timer = "update"
  /\ timer' = "sleep" /\ g_lock' = Free
  /\ UNCHANGED <<peer, backlog, main, g_running, g_clients, thread>>

TimerUnlock ==
  /\ timer = "update"
  /\ timer' = IF g_running THEN "sleep" ELSE "ended"
  /\ g_lock' = Free
  /\ UNCHANGED <<peer, backlog, main, g_running, g_clients, thread>>

Timer == TimerLock \/ TimerUnlock

-----------------------------------------------------------------------------
(* client_thread *)

Slot(c) == g_clients[thread[c].cli]
At(c, pc) == thread[c].pc = pc
Goto(c, pc) == thread' = [thread EXCEPT ![c].pc = pc]
End(c) == thread' = [thread EXCEPT ![c] = NoThread]
Again(c) == IF g_running THEN Goto(c, "recv") ELSE End(c)

ThreadLoop(c) ==
  /\ At(c, "loop")
  /\ Again(c)
  /\ UNCHANGED <<peer, backlog, main, g_running, g_clients, g_lock, timer>>

(* recv outside the lock: the next line, or the end after the last.         *)
Recv_BUG(c) ==                              \* n == 0 only
  LET fd == Slot(c).fd IN
  /\ At(c, "recv") /\ fd # NoFd
  /\ \/ /\ peer[fd].lines > 0
        /\ peer' = [peer EXCEPT ![fd].lines = @ - 1]
        /\ Goto(c, "line")
     \/ /\ peer[fd].lines = 0 /\ peer[fd].end = "closed"
        /\ Goto(c, "eof") /\ UNCHANGED peer
  /\ UNCHANGED <<backlog, main, g_running, g_clients, g_lock, timer>>

Recv(c) ==
  LET fd == Slot(c).fd IN
  /\ At(c, "recv") /\ fd # NoFd
  /\ \/ /\ peer[fd].lines > 0
        /\ peer' = [peer EXCEPT ![fd].lines = @ - 1]
        /\ Goto(c, "line")
     \/ /\ peer[fd].lines = 0 /\ peer[fd].end \in {"closed", "reset"}
        /\ Goto(c, "eof") /\ UNCHANGED peer
  /\ UNCHANGED <<backlog, main, g_running, g_clients, g_lock, timer>>

Lock(c) ==
  /\ At(c, "line") \/ At(c, "eof")
  /\ g_lock = Free /\ g_lock' = c
  /\ Goto(c, IF At(c, "line") THEN "handle" ELSE "cleanup")
  /\ UNCHANGED <<peer, backlog, main, g_running, g_clients, timer>>

(* The end of a line's critical section, and the next line of the same read *)
(* or the head of the loop.                                                 *)
Unlock(c) ==
  /\ g_lock' = Free
  /\ \/ Again(c)
     \/ peer[c].lines > 0 /\ Goto(c, "recv")

(* As a user or as a driver, which makes no difference here. *)
LogIn(c) ==
  /\ At(c, "handle") /\ Slot(c).role = "ROLE_NONE"
  /\ g_clients' = [g_clients EXCEPT ![thread[c].cli].role = "ROLE_USER"]
  /\ Unlock(c)
  /\ UNCHANGED <<peer, backlog, main, g_running, timer>>

Command(c) ==
  /\ At(c, "handle") /\ Slot(c).role = "ROLE_USER"
  /\ Unlock(c)
  /\ UNCHANGED <<peer, backlog, main, g_running, g_clients, timer>>

Leaving(c) ==
  \/ At(c, "cleanup")
  \/ At(c, "handle") /\ Slot(c).role = "ROLE_NONE"

(* cleanup_client: after the end of the input, or after a first line that   *)
(* is no login (the connection is closed; the peer's later lines are lost). *)
CleanUp_BUG(c) ==                           \* the thread goes on
  /\ Leaving(c)
  /\ peer' = [peer EXCEPT ![Slot(c).fd] = Gone]
  /\ g_clients' = [g_clients EXCEPT ![thread[c].cli] = EmptySlot]
  /\ Unlock(c)
  /\ UNCHANGED <<backlog, main, g_running, timer>>

CleanUp_BUG2(c) ==                          \* the slot is not given back
  /\ Leaving(c)
  /\ peer' = [peer EXCEPT ![Slot(c).fd] = Gone]
  /\ g_lock' = Free /\ End(c)
  /\ UNCHANGED <<backlog, main, g_running, g_clients, timer>>

CleanUp(c) ==
  /\ Leaving(c)
  /\ peer' = [peer EXCEPT ![Slot(c).fd] = Gone]
  /\ g_clients' = [g_clients EXCEPT ![thread[c].cli] = EmptySlot]
  /\ g_lock' = Free /\ End(c)
  /\ UNCHANGED <<backlog, main, g_running, timer>>

Thread(c) ==
  \/ ThreadLoop(c) \/ Recv(c) \/ Lock(c) \/ LogIn(c) \/ Command(c) \/ CleanUp(c)

-----------------------------------------------------------------------------
Next ==
  /\ ~Down
  /\ \/ \E c \in Conns : Connect(c) \/ SendLine(c) \/ Quit(c) \/ Thread(c)
     \/ \E i \in Slots : SendTo(i)
     \/ Interrupt \/ Main \/ Timer

Spec == Init /\ [][Next]_vars

(* Every thread goes on.  A waiting one is not passed over for ever: the    *)
(* timer sleeps a second between its sections, and clients stop for input.  *)
Fairness ==
  /\ SF_vars(~Down /\ Main) /\ SF_vars(~Down /\ Timer)
  /\ \A c \in Conns : SF_vars(~Down /\ Thread(c))

FairSpec == Spec /\ Fairness
-----------------------------------------------------------------------------
(* Properties. *)

Alive(c) == ~At(c, "none")

TypeOK ==
  /\ peer \in [Conns -> [end : Ends, lines : Nat]]
  /\ backlog \in Seq(Conns)
  /\ main \in {"accept", "join", "exited", "killed"}
  /\ g_running \in BOOLEAN
  /\ g_clients \in [Slots -> [fd : Conns \cup {NoFd},
                              role : {"ROLE_NONE", "ROLE_USER"}]]
  /\ g_lock \in {Free, TheTimer} \cup Conns
  /\ timer \in {"sleep", "update", "ended"}
  /\ thread \in [Conns -> [pc : {"none", "loop", "recv", "line", "eof", "handle",
                                  "cleanup"},
                           cli : Slots]]

(* Threads use their slot without asking whose it is: as long as one lives  *)
(* the slot holds its own connection, so that nobody reads or closes        *)
(* somebody else's (client_thread, cleanup_client, the accept loop).        *)
OwnSlot == \A c \in Conns : Alive(c) => Slot(c).fd = c

(* No slot is lost: while the server runs, each that is taken has a thread  *)
(* that will give it back.                                                  *)
NoSlotLost ==
  g_running => \A i \in Slots, c \in Conns :
    g_clients[i].fd = c => Alive(c) /\ thread[c].cli = i

(* Who quits does not keep a slot, in whatever state he leaves its thread,  *)
(* unless the server is stopped or killed (the second line sent to somebody *)
(* who has quit ends it).                                                   *)
Freed ==
  \A c \in Conns :
    peer[c].end \in {"closed", "reset"}
      ~> ~g_running \/ Down \/ \A i \in Slots : g_clients[i].fd # c

(* After SIGINT the next connection ends the server, with threads in recv,  *)
(* in the queue for g_lock or in the middle of a line.                      *)
Stops == ~g_running /\ backlog # <<>> ~> Down
=============================================================================
