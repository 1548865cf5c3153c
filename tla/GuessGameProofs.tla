--------------------------- MODULE GuessGameProofs ---------------------------
(***************************************************************************)
(* lab6 for every upper bound and number: the word guess.c acts on answers *)
(* its question, and so the two processes together are a binary search.    *)
(***************************************************************************)
EXTENDS GuessGame, TLAPS

(* The first byte of an answer goes from empty to the answer's own while    *)
(* guess polls, and until then exactly one stage of game.c owes it.         *)
Handshake ==
  /\ pc \in {"clear", "signal", "poll"} =>
       mid = low + (high - low) \div 2 /\ shm.guess = mid
  /\ pc = "signal" => shm.head = Empty
  /\ pending \/ game = "second" \/ (game = "writing" /\ "head" \in todo) =>
       pc = "poll" /\ shm.head = Empty
  /\ game = "second" => ~pending /\ shm.guess >= secret
  /\ game = "writing" /\ "head" \in todo => ~pending /\ word = Answer(shm.guess)
  /\ pc = "poll" /\ shm.head # Empty => shm.head = Answer(shm.guess)

IInv == TypeOK /\ Handshake

(* A word that strcmp accepts is the word whose first byte is there. *)
LEMMA Whole == ASSUME Reading # Empty PROVE Reading = shm.head
  BY DEF Reading

(* No answer is owed before the first question.                             *)
LEMMA IInit == ASSUME Init PROVE IInv
<1>1. secret \in Int /\ HIGH \in Int BY RangeAssumption DEF Init
<1>2. TypeOK
  <2>1. PICK w \in Words \cup {Empty} : shm = [guess |-> 0, head |-> w, tail |-> w]
    BY DEF Init
  <2>2. shm \in [guess : Int, head : Words \cup {Empty}, tail : Words \cup {Empty}]
    BY <2>1
  <2>3. word \in Words /\ todo \subseteq Parts BY DEF Init, Words
  <2>4. pending \in BOOLEAN BY DEF Init
  <2>5. low \in Int /\ high \in Int /\ mid \in Int BY <1>1 DEF Init
  <2>6. secret \in Secrets /\ game = "starting" /\ pc = "pause" BY DEF Init
  <2>7. QED BY <2>2, <2>3, <2>4, <2>5, <2>6 DEF TypeOK
<1>3. Handshake BY DEF Init, Handshake
<1>4. QED BY <1>2, <1>3 DEF IInv

(* Every step of game.c keeps the handshake. *)
LEMMA GameKeeps == ASSUME IInv, GameStep \/ Interrupt PROVE IInv'
<1> USE RangeAssumption DEF IInv, gameVars, guessVars
<1>1. CASE Install BY <1>1 DEF Install, TypeOK, Handshake, Answer
<1>2. CASE Deliver
  <2>1. TypeOK' BY <1>2 DEF Deliver, Write, TypeOK, Words, Parts
  <2>2. Handshake'
    <3>1. secret \in Int /\ shm.guess \in Int BY DEF TypeOK
    <3>2. QED BY <1>2, <3>1 DEF Deliver, Write, Handshake, Answer
  <2>3. QED BY <2>1, <2>2
<1>3. CASE Compare
  <2>1. TypeOK' BY <1>3 DEF Compare, Write, TypeOK, Words, Parts
  <2>2. Handshake'
    <3>1. secret \in Int /\ shm.guess \in Int BY DEF TypeOK
    <3>2. QED BY <1>3, <3>1 DEF Compare, Write, Handshake, Answer
  <2>3. QED BY <2>1, <2>2
<1>4. ASSUME NEW part \in Parts, Put(part) PROVE IInv'
  <2>1. TypeOK' BY <1>4 DEF Put, TypeOK, Words, Parts
  <2>2. Handshake'
    <3>1. CASE part = "tail"
      BY <1>4, <3>1 DEF Put, TypeOK, Handshake, Answer, Words
    <3>2. CASE part = "head"
      BY <1>4, <3>2 DEF Put, TypeOK, Handshake, Answer, Words
    <3>3. QED BY <3>1, <3>2 DEF Parts
  <2>3. QED BY <2>1, <2>2
<1>5. CASE Interrupt BY <1>5 DEF Interrupt, TypeOK, Handshake, Answer
<1>6. QED BY <1>1, <1>2, <1>3, <1>4, <1>5 DEF GameStep

(* Every step of guess.c keeps the handshake. *)
LEMMA GuessKeeps == ASSUME IInv, GuessStep \/ Alarm PROVE IInv'
<1> USE DEF IInv, gameVars, guessVars
<1>1. CASE WriteGuess BY <1>1 DEF WriteGuess, TypeOK, Handshake, Answer
<1>2. CASE Clear BY <1>2 DEF Clear, TypeOK, Handshake, Answer
<1>3. CASE Signal BY <1>3 DEF Signal, TypeOK, Handshake, Answer
<1>4. CASE Poll BY <1>4 DEF Poll, Reading, TypeOK, Handshake, Answer
<1>5. CASE Alarm BY <1>5 DEF Alarm, TypeOK, Handshake, Answer
<1>6. QED BY <1>1, <1>2, <1>3, <1>4, <1>5 DEF GuessStep

(* No step of either process breaks the handshake.                          *)
LEMMA INext == ASSUME IInv, [Next]_vars PROVE IInv'
<1>1. CASE UNCHANGED vars
  BY <1>1 DEF vars, gameVars, guessVars, IInv, TypeOK, Handshake, Answer
<1>2. QED BY <1>1, GameKeeps, GuessKeeps DEF Next

(* By the handshake a word read is the answer to the question.              *)
LEMMA IFits == ASSUME IInv PROVE AnswerFits
  BY Whole DEF IInv, Handshake, AnswerFits

(* No variable of the two programs leaves its type. *)
THEOREM GuessTypes == Spec => []TypeOK
<1>1. IInv => TypeOK BY DEF IInv
<1>2. QED BY <1>1, IInit, INext, PTL DEF Spec

(* guess.c never acts on a stale, foreign or half-written answer. *)
THEOREM AnswersFit == Spec => []AnswerFits
  BY IInit, INext, IFits, PTL DEF Spec

(* Each step of the two processes is a step of the search or none at all.   *)
LEMMA StepRefines == ASSUME IInv, [Next]_vars PROVE [Search!Next]_Search!vars
<1>1. CASE Poll
  <2>1. AnswerFits BY IFits
  <2>2. Reading = Answer(mid) /\ mid = Search!Mid
    BY <1>1, <2>1 DEF Poll, AnswerFits, IInv, Handshake, Search!Mid
  <2>3. mid \in Int /\ secret \in Int /\ pc # "end"
    BY <1>1, RangeAssumption DEF Poll, IInv, TypeOK
  <2>4. CASE mid < secret
    BY <1>1, <2>2, <2>3, <2>4
    DEF Poll, Answer, gameVars, Search!Next, Search!TooSmall, Search!vars
  <2>5. CASE mid > secret
    <3>1. Reading = "smaller" BY <2>2, <2>3, <2>5 DEF Answer
    <3>2. low' = low /\ high' = mid - 1 /\ pc' = "pause" /\ secret' = secret
      BY <1>1, <3>1 DEF Poll, gameVars
    <3>3. QED BY <2>2, <2>3, <2>5, <3>2 DEF Search!Next, Search!TooLarge, Search!vars
  <2>6. CASE mid = secret
    BY <1>1, <2>2, <2>3, <2>6
    DEF Poll, Answer, gameVars, Search!Next, Search!Right, Search!vars
  <2>7. QED BY <2>3, <2>4, <2>5, <2>6
<1>2. CASE Next /\ ~Poll
  BY <1>2 DEF Next, GameStep, GuessStep, Install, Deliver, Compare, Write, Put,
     Interrupt, Alarm, WriteGuess, Clear, Signal, gameVars, guessVars, Search!vars
<1>3. CASE UNCHANGED vars
  BY <1>3 DEF vars, gameVars, guessVars, Search!vars
<1>4. QED BY <1>1, <1>2, <1>3

(* The two processes implement the binary search. *)
THEOREM ImplementsSearch == Spec => Implements
<1>1. Init => Search!Init BY DEF Init, Search!Init
<1>2. QED BY <1>1, IInit, INext, StepRefines, PTL DEF Spec, Implements, Search!Spec

-----------------------------------------------------------------------------
(* What the search promises, and so the two processes. *)

InRange == secret \in Secrets /\ Search!SecretInRange

(* A range of integers that holds the number has its middle within it. *)
LEMMA MidWithin ==
  ASSUME InRange
  PROVE  /\ low \in Int /\ high \in Int /\ secret \in Int /\ Search!Mid \in Int
         /\ low <= Search!Mid /\ Search!Mid <= high
         /\ 2 * Search!Mid <= low + high /\ low + high <= 2 * Search!Mid + 1
  BY RangeAssumption DEF InRange, Search!SecretInRange, Search!Mid

(* The whole range holds the number.                                        *)
LEMMA RangeInit == ASSUME Search!Init PROVE InRange
  BY RangeAssumption DEF Search!Init, InRange, Search!SecretInRange

(* Cutting off one side of the middle never cuts off the number.            *)
LEMMA RangeNext == ASSUME InRange, [Search!Next]_Search!vars PROVE InRange'
<1> USE DEF InRange, Search!SecretInRange
<1>1. CASE Search!TooSmall BY <1>1, MidWithin, RangeAssumption DEF Search!TooSmall
<1>2. CASE Search!TooLarge BY <1>2, MidWithin, RangeAssumption DEF Search!TooLarge
<1>3. CASE Search!Right BY <1>3 DEF Search!Right
<1>4. CASE UNCHANGED Search!vars BY <1>4 DEF Search!vars
<1>5. QED BY <1>1, <1>2, <1>3, <1>4 DEF Search!Next

(* The range low..high of guess.c always holds the number it looks for, so  *)
(* that low and high never cross (guess.c 78-85).                           *)
THEOREM NeverCutOff == Spec => []Search!SecretInRange
<1>1. InRange => Search!SecretInRange BY DEF InRange
<1>2. QED BY <1>1, ImplementsSearch, RangeInit, RangeNext, PTL DEF Implements, Search!Spec

(* No wrong guess of guess.c leaves more than half of the range.            *)
THEOREM HalvesEachTime == Spec => Search!Halves
<1> DEFINE Shrinks == <<low, high>>' # <<low, high>> => 2 * (high' - low' + 1) <= high - low + 1
<1>1. ASSUME InRange, [Search!Next]_Search!vars PROVE [Shrinks]_Search!vars
  <2>1. CASE Search!TooSmall BY <2>1, <1>1, MidWithin DEF Search!TooSmall
  <2>2. CASE Search!TooLarge BY <2>2, <1>1, MidWithin DEF Search!TooLarge
  <2>3. CASE Search!Right BY <2>3 DEF Search!Right
  <2>4. CASE UNCHANGED Search!vars BY <2>4
  <2>5. QED BY <1>1, <2>1, <2>2, <2>3, <2>4 DEF Search!Next
<1>2. QED
  BY <1>1, ImplementsSearch, RangeInit, RangeNext, PTL
  DEF Implements, Search!Spec, Search!Halves
=============================================================================
