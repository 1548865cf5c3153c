------------------------------ MODULE GuessGame ------------------------------
(***************************************************************************)
(* lab6: guess.c and game.c, two processes that share one struct and talk  *)
(* by signals.  Once a second guess writes a number, empties the answer    *)
(* and sends SIGUSR1; game's handler compares and writes a word; guess     *)
(* polls until the answer is one of the three words.                       *)
(*                                                                         *)
(* The word is written byte by byte.  The three words differ in the first  *)
(* byte and none is a prefix of another, so what strcmp finds depends on   *)
(* two things: whose first byte is there, and whose remaining bytes.       *)
(* Emptying the answer clears the first byte alone.  strncpy may write its *)
(* bytes in any order.                                                     *)
(*                                                                         *)
(* guess's tick is left out: only SIGALRM ends pause(), so it is 1 there.  *)
(* Operators whose name ends in _BUG are mutants of the one after them.     *)
(***************************************************************************)
EXTENDS SearchRange

VARIABLES
  secret,           \* game.c's guess
  game,             \* where game.c is
  word, todo,       \* what its handler writes, and the parts still to write
  pending,          \* SIGUSR1 is pending for it
  shm,              \* the struct: the number, and the answer's two parts
  pc,               \* where guess.c is
  low, high, mid

gameVars == <<secret, game, word, todo>>
guessVars == <<pc, low, high, mid>>
vars == <<gameVars, pending, shm, guessVars>>

Words == {"larger", "smaller", "equal"}
Parts == {"head", "tail"}
Empty == ""

(* The answer as strcmp sees it; Empty also for what is none of the words.  *)
Reading == IF shm.head = shm.tail THEN shm.head ELSE Empty

(* The segment may be left over from another game with the same key.        *)
Init ==
  /\ secret \in Secrets /\ game = "starting" /\ word = "equal" /\ todo = {}
  /\ pending = FALSE
  /\ \E w \in Words \cup {Empty} : shm = [guess |-> 0, head |-> w, tail |-> w]
  /\ pc = "pause" /\ low = 1 /\ high = HIGH /\ mid = 0

-----------------------------------------------------------------------------
(* game.c *)

(* The pid is printed, and so known, before sigaction is called. *)
Install ==
  /\ game = "starting" /\ game' = "waiting"
  /\ UNCHANGED <<secret, word, todo, pending, shm, guessVars>>

Write(w) == game' = "writing" /\ word' = w /\ todo' = Parts

(* SIGUSR1_handler up to its first comparison.  It is not entered again     *)
(* before it returned.                                                      *)
Deliver ==
  /\ game = "waiting" /\ pending /\ pending' = FALSE
  /\ IF shm.guess < secret THEN Write("larger")
     ELSE game' = "second" /\ UNCHANGED <<word, todo>>
  /\ UNCHANGED <<secret, shm, guessVars>>

(* The second comparison reads the shared number once more. *)
Compare ==
  /\ game = "second"
  /\ Write(IF shm.guess > secret THEN "smaller" ELSE "equal")
  /\ UNCHANGED <<secret, pending, shm, guessVars>>

Put(part) ==
  /\ game = "writing" /\ part \in todo
  /\ shm' = [shm EXCEPT ![part] = word]
  /\ todo' = todo \ {part}
  /\ game' = IF todo' = {} THEN "waiting" ELSE "writing"
  /\ UNCHANGED <<secret, word, pending, guessVars>>

(* Ctrl-C: CtrlCHandler removes the segment, which lives on while guess is  *)
(* attached to it, and exits; before sigaction it just kills.               *)
Interrupt ==
  /\ game # "dead" /\ game' = "dead"
  /\ UNCHANGED <<secret, word, todo, pending, shm, guessVars>>

-----------------------------------------------------------------------------
(* guess.c *)

(* timer_handler: an alarm outside pause() changes nothing. *)
Alarm ==
  /\ pc = "pause" /\ pc' = "guess"
  /\ UNCHANGED <<gameVars, pending, shm, low, high, mid>>

WriteGuess ==
  /\ pc = "guess" /\ pc' = "clear"
  /\ mid' = low + (high - low) \div 2
  /\ shm' = [shm EXCEPT !.guess = mid']
  /\ UNCHANGED <<gameVars, pending, low, high>>

Clear_BUG ==
  /\ pc = "clear" /\ pc' = "signal"
  /\ UNCHANGED <<gameVars, pending, shm, low, high, mid>>

Clear ==
  /\ pc = "clear" /\ pc' = "signal"
  /\ shm' = [shm EXCEPT !.head = Empty]
  /\ UNCHANGED <<gameVars, pending, low, high, mid>>

(* kill: without a handler yet SIGUSR1 ends the game, a dead one ignores it. *)
Signal ==
  /\ pc = "signal" /\ pc' = "poll"
  /\ pending' = (game \notin {"starting", "dead"})
  /\ game' = IF game = "starting" THEN "dead" ELSE game
  /\ UNCHANGED <<secret, word, todo, shm, low, high, mid>>

Poll_BUG ==
  /\ pc = "poll" /\ Reading # Empty
  /\ low' = IF Reading = "larger" THEN mid ELSE low
  /\ high' = IF Reading = "smaller" THEN mid - 1 ELSE high
  /\ pc' = IF Reading = "equal" THEN "end" ELSE "pause"
  /\ UNCHANGED <<gameVars, pending, shm, mid>>

(* The polling loop is left with a whole word only. *)
Poll ==
  /\ pc = "poll" /\ Reading # Empty
  /\ low' = IF Reading = "larger" THEN mid + 1 ELSE low
  /\ high' = IF Reading = "smaller" THEN mid - 1 ELSE high
  /\ pc' = IF Reading = "equal" THEN "end" ELSE "pause"
  /\ UNCHANGED <<gameVars, pending, shm, mid>>

-----------------------------------------------------------------------------
GameStep == Install \/ Deliver \/ Compare \/ \E part \in Parts : Put(part)
GuessStep == WriteGuess \/ Clear \/ Signal \/ Poll

Next == GameStep \/ Interrupt \/ GuessStep \/ Alarm

Spec == Init /\ [][Next]_vars

(* Both processes run, and the timer is periodic. *)
FairSpec == Spec /\ WF_vars(GameStep) /\ WF_vars(GuessStep) /\ WF_vars(Alarm)

-----------------------------------------------------------------------------
(* The variables have the values they are declared for. *)
TypeOK ==
  /\ secret \in Secrets
  /\ game \in {"starting", "waiting", "second", "writing", "dead"}
  /\ word \in Words /\ todo \subseteq Parts
  /\ pending \in BOOLEAN
  /\ shm \in [guess : Int, head : Words \cup {Empty}, tail : Words \cup {Empty}]
  /\ pc \in {"pause", "guess", "clear", "signal", "poll", "end"}
  /\ low \in Int /\ high \in Int /\ mid \in Int

Answer(n) == IF n < secret THEN "larger" ELSE IF n > secret THEN "smaller" ELSE "equal"

(* Whenever the polling loop of guess.c finds a word, it is the answer to   *)
(* the number it has just asked about: never one left from the last round   *)
(* or from another game, nor half of one and half of another.               *)
AnswerFits == pc = "poll" /\ Reading # Empty => Reading = Answer(mid)

(* Under all the signalling, guess.c is a binary search. *)
Search == INSTANCE BinarySearch WITH found <- (pc = "end")
Implements == Search!Spec

(* A game that is not interrupted, and not asked before its handler is      *)
(* installed, is won: no signal is lost and no poll waits for ever.         *)
Found == [](game # "dead") => <>(pc = "end")
=============================================================================
