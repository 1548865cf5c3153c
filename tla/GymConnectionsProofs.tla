------------------------ MODULE GymConnectionsProofs ------------------------
(***************************************************************************)
(* Proofs about GymConnections: its type invariant, and that a live client *)
(* thread and its slot belong to each other, for any number of slots and   *)
(* connections.  The tables of both are inverses of one another while the  *)
(* server runs, and a connection that waits for accept has neither thread  *)
(* nor slot.                                                               *)
(***************************************************************************)
EXTENDS GymConnections, TLAPS

(* Who waits for accept is not served yet; a connection waits once.         *)
Waiting ==
  /\ \A k \in 1..Len(backlog) : ~Alive(backlog[k])
  /\ \A k, l \in 1..Len(backlog) : backlog[k] = backlog[l] => k = l
  /\ \A c \in Conns : peer[c].end = "new" =>
       ~Alive(c) /\ \A k \in 1..Len(backlog) : backlog[k] # c

IInv == TypeOK /\ OwnSlot /\ NoSlotLost /\ Waiting

-----------------------------------------------------------------------------
LEMMA TailFacts ==
  ASSUME NEW S, NEW s \in Seq(S), s # <<>>, NEW t, t = Tail(s)
  PROVE  /\ t \in Seq(S) /\ Len(t) = Len(s) - 1 /\ Len(s) \in Nat \ {0}
         /\ Head(s) \in S /\ Head(s) = s[1]
         /\ \A k \in 1..Len(t) : t[k] = s[k + 1]
  OBVIOUS

LEMMA AppendFacts ==
  ASSUME NEW S, NEW s \in Seq(S), NEW x \in S, NEW t, t = Append(s, x)
  PROVE  /\ Len(t) = Len(s) + 1 /\ t[Len(s) + 1] = x
         /\ \A k \in 1..Len(s) : t[k] = s[k] /\ s[k] \in S
  OBVIOUS

(* The process that ends takes both tables with it. *)
LEMMA VanishKeepsIInv ==
  ASSUME IInv, NEW how \in {"exited", "killed"}, Vanish(how)
  PROVE  IInv'
<1> USE ConnectionsAssumption DEF Vanish, Conns, Slots, Gone, EmptySlot, NoThread, NoFd, Free, Ends
<1>1. TypeOK'
  BY DEF IInv, TypeOK
<1>2. /\ \A c \in Conns : ~Alive(c)'
      /\ \A i \in Slots : g_clients'[i].fd = NoFd
      /\ backlog' = <<>>
      /\ \A c \in Conns : peer'[c].end # "new"
  BY DEF Alive, At
<1>3. OwnSlot' /\ NoSlotLost' /\ Waiting'
  BY <1>2 DEF OwnSlot, NoSlotLost, Waiting
<1> QED BY <1>1, <1>3 DEF IInv

(* A step that leaves the two tables alone, and the queue, and makes no     *)
(* connection new. *)
LEMMA TablesKept ==
  ASSUME IInv, TypeOK', UNCHANGED <<backlog, g_clients>>, g_running' => g_running,
         \A c \in Conns : thread'[c].cli = thread[c].cli /\ Alive(c)' = Alive(c),
         \A c \in Conns : peer'[c].end = "new" => peer[c].end = "new"
  PROVE  IInv'
<1>1. OwnSlot' /\ NoSlotLost'
  BY DEF IInv, OwnSlot, NoSlotLost, Slot, Conns, Slots
<1>2. \A k \in 1..Len(backlog) : backlog[k] \in Conns
  BY DEF IInv, TypeOK
<1>3. Waiting'
  BY <1>2 DEF IInv, Waiting
<1> QED BY <1>1, <1>3 DEF IInv

-----------------------------------------------------------------------------
(* At the start there is nobody. *)
LEMMA InitIInv == ASSUME Init PROVE IInv
<1> USE ConnectionsAssumption DEF Init, Conns, Slots, EmptySlot, NoThread, NoFd, Free, Ends
<1>1. TypeOK BY DEF TypeOK
<1>2. \A c \in Conns : ~Alive(c) BY DEF Alive, At
<1>3. OwnSlot /\ NoSlotLost /\ Waiting BY <1>2 DEF OwnSlot, NoSlotLost, Waiting
<1> QED BY <1>1, <1>3 DEF IInv

(* Peers and the terminal touch neither table. *)
LEMMA PeerKeepsIInv ==
  ASSUME IInv, NEW c \in Conns, Connect(c) \/ SendLine(c) \/ Quit(c)
  PROVE  IInv'
<1> USE DEF Conns, Slots, Ends
<1>1. CASE Connect(c)
  <2>1. TypeOK' BY <1>1, SMTT(30) DEF IInv, TypeOK, Connect
  <2>2. \A d \in Conns : Alive(d)' = Alive(d) BY <1>1 DEF Connect, Alive, At
  <2>3. OwnSlot' /\ NoSlotLost' BY <1>1, <2>2 DEF IInv, OwnSlot, NoSlotLost, Slot, Connect
  <2>4. /\ peer[c].end = "new" /\ ~Alive(c) /\ \A k \in 1..Len(backlog) : backlog[k] # c
        /\ peer' = [peer EXCEPT ![c].end = "up"]
    BY <1>1 DEF IInv, Waiting, Connect
  <2>5. backlog \in Seq(Conns) /\ backlog' = Append(backlog, c) /\ thread' = thread
    BY <1>1 DEF IInv, TypeOK, Connect
  <2>9. /\ Len(backlog') = Len(backlog) + 1 /\ backlog'[Len(backlog) + 1] = c
        /\ \A k \in 1..Len(backlog) : backlog'[k] = backlog[k]
    BY <2>5, AppendFacts
  <2>6. \A d \in Conns : peer'[d].end = "new" => peer[d].end = "new" /\ d # c
    BY <2>4 DEF IInv, TypeOK
  <2>7. Len(backlog) \in Nat BY DEF IInv, TypeOK
  <2>8. Waiting'
    <3>1. \A k \in 1..Len(backlog') : thread'[backlog'[k]].pc = "none"
      BY <2>4, <2>5, <2>9, <2>7 DEF IInv, Waiting, Alive, At
    <3>2. \A k, l \in 1..Len(backlog') : backlog'[k] = backlog'[l] => k = l
      BY <2>4, <2>9, <2>7 DEF IInv, Waiting
    <3>3. \A d \in Conns : peer'[d].end = "new" =>
            thread'[d].pc = "none" /\ \A k \in 1..Len(backlog') : backlog'[k] # d
      BY <2>5, <2>9, <2>6, <2>7 DEF IInv, Waiting, Alive, At
    <3> QED BY <3>1, <3>2, <3>3 DEF Waiting, Alive, At
  <2> QED BY <2>1, <2>3, <2>8 DEF IInv
<1>2. CASE SendLine(c)
  <2>1. TypeOK' BY <1>2 DEF IInv, TypeOK, SendLine
  <2>2. \A d \in Conns : peer'[d].end = "new" => peer[d].end = "new"
    BY <1>2 DEF IInv, TypeOK, SendLine
  <2> QED BY <1>2, <2>1, <2>2, TablesKept DEF SendLine, Alive, At
<1>3. CASE Quit(c)
  <2>1. TypeOK' BY <1>3 DEF IInv, TypeOK, Quit
  <2>2. \A d \in Conns : peer'[d].end = "new" => peer[d].end = "new"
    BY <1>3 DEF IInv, TypeOK, Quit
  <2> QED BY <1>3, <2>1, <2>2, TablesKept DEF Quit, Alive, At
<1> QED BY <1>1, <1>2, <1>3

(* The signal, the timer, and a line that is sent. *)
LEMMA OthersKeepIInv ==
  ASSUME IInv, Interrupt \/ TimerLock \/ TimerUnlock \/ \E i \in Slots : SendTo(i)
  PROVE  IInv'
<1>1. CASE Interrupt
  <2>1. TypeOK' BY <1>1 DEF IInv, TypeOK, Interrupt
  <2> QED BY <1>1, <2>1, TablesKept DEF Interrupt, Alive, At
<1>2. CASE TimerLock
  <2>1. TypeOK' BY <1>2 DEF IInv, TypeOK, TimerLock
  <2> QED BY <1>2, <2>1, TablesKept DEF TimerLock, Alive, At
<1>3. CASE TimerUnlock
  <2>1. TypeOK' BY <1>3 DEF IInv, TypeOK, TimerUnlock
  <2> QED BY <1>3, <2>1, TablesKept DEF TimerUnlock, Alive, At
<1>4. ASSUME NEW i \in Slots, SendTo(i) PROVE IInv'
  <2>1. CASE Vanish("killed") BY <2>1, VanishKeepsIInv
  <2>2. CASE ~Vanish("killed")
    <3> DEFINE c == g_clients[i].fd
    <3>1. /\ peer[c].end = "closed" /\ peer' = [peer EXCEPT ![c].end = "reset"]
          /\ c # NoFd /\ UNCHANGED <<backlog, main, g_running, g_clients, g_lock, timer, thread>>
      BY <1>4, <2>2 DEF SendTo
    <3>2. c \in Conns BY <3>1 DEF IInv, TypeOK
    <3>5. peer' \in [Conns -> [end : Ends, lines : Nat]]
      <4>1. peer \in [Conns -> [end : Ends, lines : Nat]] BY DEF IInv, TypeOK
      <4>2. peer' = [peer EXCEPT ![c].end = "reset"] BY <3>1
      <4> HIDE DEF c
      <4> QED BY ONLY <4>1, <4>2 DEF Ends
    <3>3. TypeOK'
      <4> HIDE DEF c
      <4> QED BY <3>1, <3>5 DEF IInv, TypeOK
    <3>4. \A d \in Conns : peer'[d].end = "new" => peer[d].end = "new"
      BY <3>1, <3>2 DEF IInv, TypeOK
    <3> QED BY <3>1, <3>3, <3>4, TablesKept DEF Alive, At
  <2> QED BY <2>1, <2>2
<1> QED BY <1>1, <1>2, <1>3, <1>4

(* accept, into a free slot with a new thread, or to nothing *)
LEMMA AcceptKeepsIInv == ASSUME IInv, Accept PROVE IInv'
<1> DEFINE c == Head(backlog)
<1>1. backlog \in Seq(Conns) /\ backlog # <<>> /\ backlog' = Tail(backlog)
  BY DEF IInv, TypeOK, Accept
<1>2. /\ backlog' \in Seq(Conns) /\ Len(backlog') = Len(backlog) - 1 /\ Len(backlog) \in Nat \ {0}
      /\ c \in Conns /\ c = backlog[1]
      /\ \A k \in 1..Len(backlog') : backlog'[k] = backlog[k + 1]
  BY <1>1, TailFacts
<1>3. ~Alive(c)
  BY <1>2 DEF IInv, Waiting
<1>4. \A k \in 1..Len(backlog') : backlog'[k] # c /\ thread[backlog'[k]].pc = "none"
  <2>1. ASSUME NEW k \in 1..Len(backlog')
        PROVE  backlog'[k] # c /\ thread[backlog'[k]].pc = "none"
    <3>1. k + 1 \in 1..Len(backlog) /\ 1 \in 1..Len(backlog) /\ k + 1 # 1 BY <1>2
    <3>2. backlog[k + 1] # backlog[1] /\ ~Alive(backlog[k + 1])
      BY ONLY <3>1, IInv DEF IInv, Waiting
    <3> QED BY <3>2, <1>2 DEF Alive, At
  <2> QED BY <2>1
<1>8. \A k, l \in 1..Len(backlog') : backlog'[k] = backlog'[l] => k = l
  <2>1. ASSUME NEW k \in 1..Len(backlog'), NEW l \in 1..Len(backlog'), backlog'[k] = backlog'[l]
        PROVE  k = l
    <3>1. /\ k + 1 \in 1..Len(backlog) /\ l + 1 \in 1..Len(backlog)
          /\ backlog[k + 1] = backlog[l + 1]
      BY <1>2, <2>1
    <3>2. k + 1 = l + 1 BY ONLY <3>1, IInv DEF IInv, Waiting
    <3> QED BY <3>2, <1>2
  <2> QED BY <2>1
<1>5. peer[c].end # "new"
  BY <1>2 DEF IInv, Waiting
<1>6. ASSUME NEW i \in Slots, Unused(i),
             g_clients' = [g_clients EXCEPT ![i] = [fd |-> c, role |-> "ROLE_NONE"]],
             thread' = [thread EXCEPT ![c] = [pc |-> "loop", cli |-> i]],
             UNCHANGED peer
      PROVE  IInv'
  <2>1. TypeOK' BY <1>2, <1>6 DEF Accept, IInv, TypeOK
  <2>2. OwnSlot'
    <3>1. ASSUME NEW d \in Conns, Alive(d)' PROVE Slot(d)'.fd = d
      <4>1. CASE d = c BY <4>1, <1>2, <1>6 DEF Slot, IInv, TypeOK
      <4>2. CASE d # c
        <5>1. Alive(d) /\ thread'[d] = thread[d] /\ thread[d].cli \in Slots
          BY <3>1, <4>2, <1>6, <1>2 DEF Alive, At, IInv, TypeOK
        <5>2. g_clients[thread[d].cli].fd = d BY <5>1 DEF IInv, OwnSlot, Slot
        <5>3. thread[d].cli # i BY <5>2, <1>6 DEF Unused, NoFd, Conns
        <5> QED BY <5>1, <5>2, <5>3, <1>6 DEF Slot, IInv, TypeOK
      <4> QED BY <4>1, <4>2
    <3> QED BY <3>1 DEF OwnSlot
  <2>3. NoSlotLost'
    <3>1. ASSUME g_running, NEW j \in Slots, NEW d \in Conns, g_clients'[j].fd = d
          PROVE  thread'[d].pc # "none" /\ thread'[d].cli = j
      <4>1. CASE j = i BY <4>1, <3>1, <1>2, <1>6 DEF IInv, TypeOK
      <4>2. CASE j # i
        <5>1. g_clients[j].fd = d BY <4>2, <3>1, <1>6 DEF IInv, TypeOK
        <5>2. Alive(d) /\ thread[d].cli = j BY <5>1, <3>1 DEF IInv, NoSlotLost
        <5> QED BY <5>2, <1>3, <1>6 DEF Alive, At
      <4> QED BY <4>1, <4>2
    <3> QED BY <3>1 DEF NoSlotLost, Alive, At, Accept
  <2>4. Waiting'
    <3>1. \A k \in 1..Len(backlog') : thread'[backlog'[k]].pc = "none"
      BY <1>4, <1>6
    <3>3. \A d \in Conns : peer'[d].end = "new" =>
            thread'[d].pc = "none" /\ \A k \in 1..Len(backlog') : backlog'[k] # d
      BY <1>2, <1>5, <1>6 DEF IInv, Waiting, Alive, At
    <3> QED BY <3>1, <1>8, <3>3 DEF Waiting, Alive, At
  <2> QED BY <2>1, <2>2, <2>3, <2>4 DEF IInv
<1>7. ASSUME peer' = [peer EXCEPT ![c] = Gone], UNCHANGED <<g_clients, thread>>
      PROVE  IInv'
  <2>1. TypeOK' BY <1>2, <1>7 DEF Accept, IInv, TypeOK, Gone, Ends
  <2>2. OwnSlot' /\ NoSlotLost'
    BY <1>7 DEF Accept, IInv, OwnSlot, NoSlotLost, Slot, Alive, At
  <2>3. \A d \in Conns : peer'[d].end = "new" => peer[d].end = "new"
    BY <1>2, <1>7 DEF IInv, TypeOK, Gone
  <2>4. Waiting'
    <3>1. \A k \in 1..Len(backlog') : thread'[backlog'[k]].pc = "none"
      BY <1>4, <1>7
    <3>3. \A d \in Conns : peer'[d].end = "new" =>
            thread'[d].pc = "none" /\ \A k \in 1..Len(backlog') : backlog'[k] # d
      BY <1>2, <2>3, <1>7 DEF IInv, Waiting, Alive, At
    <3> QED BY <3>1, <1>8, <3>3 DEF Waiting, Alive, At
  <2> QED BY <2>1, <2>2, <2>4 DEF IInv
<1> QED BY <1>6, <1>7 DEF Accept

-----------------------------------------------------------------------------
(* A thread that goes on keeps its slot; its connection is not a new one.   *)
LEMMA ThreadGoesOn ==
  ASSUME IInv, NEW c \in Conns, Alive(c), TypeOK', backlog' = backlog, g_running' = g_running,
         thread'[c].cli = thread[c].cli, thread'[c].pc # "none",
         \A d \in Conns : d # c => thread'[d] = thread[d],
         \A i \in Slots : g_clients'[i].fd = g_clients[i].fd,
         \A d \in Conns : peer'[d].end = "new" => peer[d].end = "new"
  PROVE  IInv'
<1>1. \A d \in Conns : Alive(d)' = Alive(d) /\ thread'[d].cli = thread[d].cli
  BY DEF Alive, At
<1>2. \A d \in Conns : thread[d].cli \in Slots BY DEF IInv, TypeOK
<1>3. OwnSlot' BY <1>1, <1>2 DEF IInv, OwnSlot, Slot
<1>4. NoSlotLost' BY <1>1 DEF IInv, NoSlotLost
<1>5. \A k \in 1..Len(backlog) : backlog[k] \in Conns BY DEF IInv, TypeOK
<1>6. Waiting' BY <1>1, <1>5 DEF IInv, Waiting
<1> QED BY <1>3, <1>4, <1>6 DEF IInv

(* A thread that ends because of the signal leaves its slot as it is.       *)
LEMMA ThreadStops ==
  ASSUME IInv, NEW c \in Conns, TypeOK', backlog' = backlog, ~g_running', End(c),
         \A i \in Slots : g_clients'[i].fd = g_clients[i].fd, peer' = peer
  PROVE  IInv'
<1>1. \A d \in Conns : thread'[d].pc # "none" => thread[d].pc # "none" /\ thread'[d] = thread[d]
  BY DEF End, NoThread, IInv, TypeOK
<1>2. \A d \in Conns : thread[d].cli \in Slots BY DEF IInv, TypeOK
<1>3. OwnSlot' BY <1>1, <1>2 DEF IInv, OwnSlot, Slot, Alive, At
<1>4. NoSlotLost' BY DEF NoSlotLost
<1>5. \A k \in 1..Len(backlog) : backlog[k] \in Conns BY DEF IInv, TypeOK
<1>6. Waiting' BY <1>1, <1>5 DEF IInv, Waiting, Alive, At
<1> QED BY <1>3, <1>4, <1>6 DEF IInv

(* client_thread keeps to its slot, whichever step it takes. *)
LEMMA ThreadKeepsIInv == ASSUME IInv, NEW c \in Conns, Thread(c) PROVE IInv'
<1>0. TypeOK BY DEF IInv
<1>6. 1 \in Slots BY ConnectionsAssumption DEF ConnectionsAssumption, Slots
<1>7. ASSUME Goto(c, "recv")
      PROVE  /\ thread'[c].cli = thread[c].cli /\ thread'[c].pc # "none"
             /\ \A d \in Conns : d # c => thread'[d] = thread[d]
  BY <1>0, <1>7 DEF Goto, TypeOK
<1> DEFINE Going == /\ Alive(c) /\ backlog' = backlog /\ g_running' = g_running
                    /\ \A i \in Slots : g_clients'[i].fd = g_clients[i].fd
<1>8. ASSUME Again(c) \/ Goto(c, "recv") \/ End(c)
      PROVE  thread' \in [Conns -> [pc : {"none", "loop", "recv", "line", "eof", "handle",
                                         "cleanup"}, cli : Slots]]
  <2>1. CASE Goto(c, "recv") BY <1>0, <2>1 DEF Goto, TypeOK
  <2>2. CASE End(c) BY <1>0, <1>6, <2>2 DEF End, NoThread, TypeOK
  <2> QED BY <1>8, <2>1, <2>2 DEF Again
<1>1. CASE ThreadLoop(c)
  <2>1. Going BY <1>1 DEF ThreadLoop, Alive, At
  <2>2. TypeOK' BY <1>0, <1>1, <1>8 DEF ThreadLoop, TypeOK
  <2>3. CASE g_running
    <3>1. Goto(c, "recv") /\ peer' = peer BY <1>1, <2>3 DEF ThreadLoop, Again
    <3> QED BY <1>7, <2>1, <2>2, <3>1, ThreadGoesOn
  <2>4. CASE ~g_running
    <3>1. End(c) /\ peer' = peer BY <1>1, <2>4 DEF ThreadLoop, Again
    <3> QED BY <2>1, <2>2, <2>4, <3>1, ThreadStops
  <2> QED BY <2>3, <2>4
<1>2. CASE Recv(c)
  <2>1. Going BY <1>2 DEF Recv, Alive, At
  <2>2. g_clients[thread[c].cli].fd \in Conns BY <1>0, <1>2 DEF Recv, Slot, TypeOK
  <2> DEFINE fd == g_clients[thread[c].cli].fd
  <2>6. peer' \in [Conns -> [end : Ends, lines : Nat]]
        /\ \A d \in Conns : peer'[d].end = peer[d].end
    <3>1. CASE peer' = peer BY <1>0, <3>1 DEF TypeOK
    <3>2. CASE peer' # peer
      <4>1. peer[fd].lines > 0 /\ peer' = [peer EXCEPT ![fd].lines = @ - 1]
        BY <1>2, <3>2 DEF Recv, Slot
      <4>2. peer \in [Conns -> [end : Ends, lines : Nat]] /\ fd \in Conns
        BY <1>0, <2>2 DEF TypeOK
      <4> HIDE DEF fd
      <4>3. peer[fd].lines - 1 \in Nat BY ONLY <4>1, <4>2
      <4> QED BY <4>1, <4>2, <4>3
    <3> QED BY <3>1, <3>2
  <2>7. thread' \in [Conns -> [pc : {"none", "loop", "recv", "line", "eof", "handle",
                                     "cleanup"}, cli : Slots]]
    <3>1. \E next \in {"line", "eof"} : thread' = [thread EXCEPT ![c].pc = next]
      BY <1>2 DEF Recv, Goto
    <3> QED BY ONLY <1>0, <3>1, c \in Conns, SMTT(30) DEF TypeOK
  <2>3. TypeOK' BY <1>0, <1>2, <2>6, <2>7 DEF Recv, TypeOK
  <2>4. \A d \in Conns : peer'[d].end = peer[d].end BY <2>6
  <2>5. /\ thread'[c].cli = thread[c].cli /\ thread'[c].pc # "none"
        /\ \A d \in Conns : d # c => thread'[d] = thread[d]
    <3>1. \E next \in {"line", "eof"} : thread' = [thread EXCEPT ![c].pc = next]
      BY <1>2 DEF Recv, Goto
    <3> QED BY ONLY <1>0, <3>1, c \in Conns DEF TypeOK
  <2> QED BY <2>1, <2>3, <2>4, <2>5, ThreadGoesOn
<1>3. CASE Lock(c)
  <2>1. Going BY <1>3 DEF Lock, Alive, At
  <2>2. TypeOK' BY <1>0, <1>3, SMTT(30) DEF Lock, Goto, TypeOK, At
  <2>3. /\ thread'[c].cli = thread[c].cli /\ thread'[c].pc # "none" /\ peer' = peer
        /\ \A d \in Conns : d # c => thread'[d] = thread[d]
    BY <1>0, <1>3 DEF Lock, Goto, TypeOK, At
  <2> QED BY <2>1, <2>2, <2>3, ThreadGoesOn
<1>4. CASE LogIn(c) \/ Command(c)
  <2>6. thread[c].cli \in Slots BY <1>0 DEF TypeOK
  <2>7. /\ g_clients' \in [Slots -> [fd : Conns \cup {NoFd}, role : {"ROLE_NONE", "ROLE_USER"}]]
        /\ \A i \in Slots : g_clients'[i].fd = g_clients[i].fd
    <3>1. CASE LogIn(c) BY <1>0, <2>6, <3>1, SMTT(30) DEF LogIn, TypeOK
    <3>2. CASE Command(c) BY <1>0, <3>2 DEF Command, TypeOK
    <3> QED BY <1>4, <3>1, <3>2
  <2>1. Going BY <1>4, <2>7 DEF LogIn, Command, Alive, At
  <2>3. /\ Again(c) \/ Goto(c, "recv")
        /\ g_lock' = Free /\ UNCHANGED <<peer, backlog, main, g_running, timer>>
    BY <1>4 DEF LogIn, Command, Unlock
  <2>2. TypeOK' BY <1>0, <1>8, <2>3, <2>7 DEF TypeOK
  <2>4. CASE Goto(c, "recv") BY <1>7, <2>1, <2>2, <2>3, <2>4, ThreadGoesOn
  <2>5. CASE ~Goto(c, "recv")
    <3>1. ~g_running /\ End(c) BY <2>3, <2>5 DEF Again
    <3> QED BY <2>1, <2>2, <2>3, <3>1, ThreadStops
  <2> QED BY <2>4, <2>5
<1>5. CASE CleanUp(c)
  <2> DEFINE i == thread[c].cli
  <2>1. Alive(c) /\ i \in Slots /\ g_clients[i].fd = c
    BY <1>0, <1>5 DEF CleanUp, Leaving, Alive, At, IInv, OwnSlot, Slot, TypeOK
  <2>2. /\ peer' = [peer EXCEPT ![c] = Gone] /\ g_clients' = [g_clients EXCEPT ![i] = EmptySlot]
        /\ thread' = [thread EXCEPT ![c] = NoThread] /\ g_lock' = Free
        /\ UNCHANGED <<backlog, main, g_running, timer>>
    BY <1>5, <2>1 DEF CleanUp, End, Slot
  <2>3. TypeOK'
    BY <1>0, <1>6, <2>1, <2>2 DEF TypeOK, Gone, Ends, EmptySlot, NoThread
  <2>4. OwnSlot'
    <3>1. ASSUME NEW d \in Conns, thread'[d].pc # "none"
          PROVE  g_clients'[thread'[d].cli].fd = d
      <4>1. d # c /\ thread'[d] = thread[d] /\ thread[d].cli \in Slots
        BY <1>0, <2>2, <3>1 DEF TypeOK, NoThread
      <4>2. g_clients[thread[d].cli].fd = d BY <3>1, <4>1 DEF IInv, OwnSlot, Slot, Alive, At
      <4>3. thread[d].cli # i BY <2>1, <4>1, <4>2
      <4> QED BY <1>0, <2>2, <4>1, <4>2, <4>3 DEF TypeOK
    <3> QED BY <3>1 DEF OwnSlot, Slot, Alive, At
  <2>5. NoSlotLost'
    <3>1. ASSUME g_running, NEW j \in Slots, NEW d \in Conns, g_clients'[j].fd = d
          PROVE  thread'[d].pc # "none" /\ thread'[d].cli = j
      <4>1. j # i /\ g_clients[j].fd = d
        BY <1>0, <2>1, <2>2, <3>1 DEF TypeOK, EmptySlot, NoFd, Conns
      <4>2. Alive(d) /\ thread[d].cli = j BY <3>1, <4>1 DEF IInv, NoSlotLost
      <4>3. d # c BY <4>1, <4>2
      <4> QED BY <1>0, <2>2, <4>2, <4>3 DEF Alive, At, TypeOK
    <3> QED BY <2>2, <3>1 DEF NoSlotLost, Alive, At
  <2>6. Waiting'
    <3>1. \A d \in Conns : thread[d].pc = "none" => thread'[d].pc = "none"
      BY <1>0, <2>2 DEF TypeOK, NoThread
    <3>2. \A d \in Conns : peer'[d].end = "new" => peer[d].end = "new"
      BY <1>0, <2>2 DEF TypeOK, Gone
    <3>3. \A k \in 1..Len(backlog) : backlog[k] \in Conns BY <1>0 DEF TypeOK
    <3> QED BY <2>2, <3>1, <3>2, <3>3 DEF IInv, Waiting, Alive, At
  <2> QED BY <2>3, <2>4, <2>5, <2>6 DEF IInv
<1> QED BY <1>1, <1>2, <1>3, <1>4, <1>5 DEF Thread

LEMMA NextKeepsIInv == ASSUME IInv, [Next]_vars PROVE IInv'
<1>1. CASE UNCHANGED vars
  BY <1>1 DEF vars, IInv, TypeOK, OwnSlot, NoSlotLost, Waiting, Slot, Alive, At
<1>2. CASE Next
  <2>1. CASE Join BY <2>1, VanishKeepsIInv DEF Join
  <2> QED
    BY <1>2, <2>1, PeerKeepsIInv, OthersKeepIInv, AcceptKeepsIInv, ThreadKeepsIInv
       DEF Next, Main, Timer
<1> QED BY <1>1, <1>2

-----------------------------------------------------------------------------
(* The state keeps its type: slots hold connections, g_lock is held by the  *)
(* timer or a client thread (main, client_thread, timer_thread).            *)
THEOREM TypeCorrect == Spec => []TypeOK
<1>1. Init => IInv BY InitIInv
<1>2. IInv /\ [Next]_vars => IInv' BY NextKeepsIInv
<1>3. IInv => TypeOK BY DEF IInv
<1> QED BY <1>1, <1>2, <1>3, PTL DEF Spec

(* Every live client thread works on the slot that holds its connection,    *)
(* for any number of slots and connections (client_thread, cleanup_client,  *)
(* the accept loop).                                                        *)
THEOREM SlotsAreOwned == Spec => []OwnSlot
<1>1. Init => IInv BY InitIInv
<1>2. IInv /\ [Next]_vars => IInv' BY NextKeepsIInv
<1>3. IInv => OwnSlot BY DEF IInv
<1> QED BY <1>1, <1>2, <1>3, PTL DEF Spec

(* Until SIGINT every slot that is taken has the thread that will free it.  *)
THEOREM SlotsAreKept == Spec => []NoSlotLost
<1>1. Init => IInv BY InitIInv
<1>2. IInv /\ [Next]_vars => IInv' BY NextKeepsIInv
<1>3. IInv => NoSlotLost BY DEF IInv
<1> QED BY <1>1, <1>2, <1>3, PTL DEF Spec
=============================================================================
