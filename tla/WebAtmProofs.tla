---------------------------- MODULE WebAtmProofs ----------------------------
(* lab5's semaphore, proved for any number of clients, lines and amounts.   *)
EXTENDS WebAtm, TLAPS

Tokens == {"verb", "number", "newline"}
Critical == {"load", "store", "V"}

(* The semaphore counts the thread between P and V, if there is one.        *)
OneAtATime ==
  server = "running" =>
    /\ \A c \in Clients : pc[c] \in Critical => sem = 0
    /\ \A c, d \in Clients : pc[c] \in Critical /\ pc[d] \in Critical => c = d

IInv == TypeOK /\ OneAtATime /\ NoLostUpdate

(* What a read leaves in the stream, and what it returns, are tokens.       *)
LEMMA ReadTokens ==
  ASSUME NEW s \in Seq(Tokens), NEW n \in 1..Len(s)
  PROVE  /\ SubSeq(s, n + 1, Len(s)) \in Seq(Tokens)
         /\ SubSeq(s, 1, n) \in Seq(Tokens)
  OBVIOUS

(* Nobody is between P and V at the start.                                  *)
LEMMA AtmInit == ASSUME Init PROVE IInv
<1>1. Garbage \subseteq Int /\ Times \in Nat BY AtmAssumption
<1>2. amount \in [Clients -> Int] BY <1>1 DEF Init
<1>3. TypeOK BY <1>1, <1>2 DEF Init, TypeOK
<1>4. OneAtATime BY DEF Init, OneAtATime, Critical
<1>5. NoLostUpdate BY DEF Init, NoLostUpdate
<1>6. QED BY <1>3, <1>4, <1>5 DEF IInv

(* Nothing that a client, a read, a close or the signal handler does bears   *)
(* on the threads between P and V.                                          *)
LEMMA OutsideKeeps ==
  ASSUME IInv, NEW c \in Clients,
         ClientStep(c) \/ Accept(c) \/ Read(c) \/ EndOfFile(c) \/ Interrupt \/ Exit
  PROVE  IInv'
<1> USE AtmAssumption DEF IInv, clientVars, threadVars
<1>1. CASE Write(c)
  <2>1. Line \in Seq(Tokens) BY DEF Line, Tokens
  <2>2. chan[c] \o Line \in Seq(Tokens) BY <2>1 DEF TypeOK, Tokens
  <2>3. TypeOK' BY <1>1, <2>2 DEF Write, TypeOK, Tokens
  <2>4. QED BY <1>1, <2>3 DEF Write, OneAtATime, NoLostUpdate
<1>2. CASE HangUp(c) BY <1>2 DEF HangUp, TypeOK, OneAtATime, NoLostUpdate
<1>3. CASE Accept(c)
  BY <1>3 DEF Accept, Step, TypeOK, OneAtATime, NoLostUpdate, Critical
<1>4. CASE Read(c)
  <2>1. PICK n \in 1..Len(chan[c]) :
          chan' = [chan EXCEPT ![c] = SubSeq(@, n + 1, Len(@))]
    BY <1>4 DEF Read
  <2>2. chan' \in [Clients -> Seq(Tokens)]
    <3>1. chan[c] \in Seq(Tokens) BY DEF TypeOK, Tokens
    <3>2. SubSeq(chan[c], n + 1, Len(chan[c])) \in Seq(Tokens) BY <3>1, ReadTokens
    <3>3. QED BY <2>1, <3>2 DEF TypeOK, Tokens
  <2>3. cmd' \in [Clients -> {"deposit", "withdraw", "other"}]
    BY <1>4 DEF Read, TypeOK
  <2>4. amount' \in [Clients -> Int] BY <1>4 DEF Read, TypeOK
  <2>5. /\ pc' = [pc EXCEPT ![c] = "P"] /\ pc[c] = "read"
        /\ UNCHANGED <<server, sem, balance, sent, fin, temp>>
    BY <1>4 DEF Read, Step
  <2>6. TypeOK' BY <2>2, <2>3, <2>4, <2>5 DEF TypeOK, Tokens
  <2>7. QED BY <2>5, <2>6 DEF TypeOK, OneAtATime, NoLostUpdate, Critical
<1>5. CASE EndOfFile(c)
  BY <1>5 DEF EndOfFile, Step, TypeOK, OneAtATime, NoLostUpdate, Critical
<1>6. CASE Interrupt BY <1>6 DEF Interrupt, TypeOK, OneAtATime, NoLostUpdate
<1>7. CASE Exit BY <1>7 DEF Exit, TypeOK, OneAtATime, NoLostUpdate
<1>8. QED BY <1>1, <1>2, <1>3, <1>4, <1>5, <1>6, <1>7 DEF ClientStep

(* P lets one thread in, V lets it out, and only that thread reads and      *)
(* writes the balance.                                                      *)
LEMMA InsideKeeps ==
  ASSUME IInv, NEW c \in Clients, P(c) \/ Load(c) \/ NoCommand(c) \/ Store(c) \/ V(c)
  PROVE  IInv'
<1> USE AtmAssumption DEF IInv, clientVars, Step
<1>1. CASE P(c)
  BY <1>1 DEF P, TypeOK, OneAtATime, NoLostUpdate, Critical
<1>2. CASE Load(c)
  <2>1. TypeOK' BY <1>2 DEF Load, TypeOK
  <2>2. OneAtATime' BY <1>2 DEF Load, TypeOK, OneAtATime, Critical
  <2>3. NoLostUpdate' BY <1>2 DEF Load, TypeOK, OneAtATime, NoLostUpdate, Critical
  <2>4. QED BY <2>1, <2>2, <2>3
<1>3. CASE NoCommand(c)
  BY <1>3 DEF NoCommand, TypeOK, OneAtATime, NoLostUpdate, Critical
<1>4. CASE Store(c)
  <2>1. TypeOK' BY <1>4 DEF Store, TypeOK
  <2>2. OneAtATime' BY <1>4 DEF Store, TypeOK, OneAtATime, Critical
  <2>3. NoLostUpdate' BY <1>4 DEF Store, TypeOK, OneAtATime, NoLostUpdate, Critical
  <2>4. QED BY <2>1, <2>2, <2>3
<1>5. CASE V(c)
  <2>1. server = "running" => sem = 0 BY <1>5 DEF V, OneAtATime, Critical
  <2>2. TypeOK' BY <1>5, <2>1 DEF V, TypeOK
  <2>3. OneAtATime' BY <1>5 DEF V, TypeOK, OneAtATime, Critical
  <2>4. NoLostUpdate' BY <1>5 DEF V, TypeOK, NoLostUpdate
  <2>5. QED BY <2>2, <2>3, <2>4
<1>6. QED BY <1>1, <1>2, <1>3, <1>4, <1>5

(* No step lets a second thread in.                                         *)
LEMMA AtmNext == ASSUME IInv, [Next]_vars PROVE IInv'
<1>1. CASE UNCHANGED vars
  BY <1>1 DEF vars, clientVars, threadVars, IInv, TypeOK, OneAtATime, NoLostUpdate
<1>2. CASE Interrupt \/ Exit
  <2>1. CASE Clients = {}
    BY <1>2, <2>1 DEF Interrupt, Exit, clientVars, threadVars, IInv, TypeOK,
       OneAtATime, NoLostUpdate
  <2>2. CASE Clients # {} BY <1>2, <2>2, OutsideKeeps
  <2>3. QED BY <2>1, <2>2
<1>3. ASSUME NEW c \in Clients, ClientStep(c) \/ Accept(c) \/ ThreadStep(c)
      PROVE  IInv'
  BY <1>3, OutsideKeeps, InsideKeeps DEF ThreadStep
<1>4. QED BY <1>1, <1>2, <1>3 DEF Next

(* No variable of the server and its clients leaves its type; in particular *)
(* the semaphore is 0 or 1.                                                 *)
THEOREM AtmTypes == Spec => []TypeOK
<1>1. IInv => TypeOK BY DEF IInv
<1>2. QED BY <1>1, AtmInit, AtmNext, PTL DEF Spec

(* As long as the semaphore exists no deposit or withdrawal is lost.        *)
THEOREM NothingLost == Spec => []NoLostUpdate
<1>1. IInv => NoLostUpdate BY DEF IInv
<1>2. QED BY <1>1, AtmInit, AtmNext, PTL DEF Spec
=============================================================================
