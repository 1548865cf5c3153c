---------------------------- MODULE TowelWindow -----------------------------
(***************************************************************************)
(* Towel_Detector/Towel_client.c: results HAS and NO arrive as lines, the  *)
(* client keeps those of the last WINDOW_SECONDS, in an array of           *)
(* MAX_SAMPLES, and says HasTowel once when enough of them are HAS.        *)
(*                                                                         *)
(* The detector is external.  A line that recv cuts in two is in neither   *)
(* part HAS or NO and is skipped, as any other line is; a skipped line     *)
(* changes nothing.  Time is counted in ticks.                             *)
(***************************************************************************)
EXTENDS Integers, Sequences, FiniteSets

CONSTANTS WINDOW_SECONDS, MIN_SAMPLES, MAX_SAMPLES,
          MAX_TIME, MAX_RESULTS       \* bounds: ticks, and results heard

ASSUME TowelAssumption ==
  /\ WINDOW_SECONDS \in Nat /\ MAX_TIME \in Nat /\ MAX_RESULTS \in Nat
  /\ MIN_SAMPLES \in Nat \ {0} /\ MAX_SAMPLES \in Nat \ {0}

VARIABLES now, samples, verdict,
          heard     \* history: all results, with their times

towelVars == <<now, samples, verdict, heard>>

TowelInit == now = 0 /\ samples = <<>> /\ verdict = "none" /\ heard = <<>>

Clock ==
  /\ now < MAX_TIME /\ now' = now + 1
  /\ UNCHANGED <<samples, verdict, heard>>

HasCount(s) == Cardinality({i \in DOMAIN s : s[i].has})

(* ratio >= RATIO_THRESHOLD, two thirds *)
Enough(s, time) ==
  time >= WINDOW_SECONDS /\ Len(s) >= MIN_SAMPLES /\ 3 * HasCount(s) >= 2 * Len(s)

(* The loop that moves the samples it keeps to the front, in their order:   *)
(* sample number new_count is then the one kept from this place.            *)
PlaceOf(new_count, kept) ==
  CHOOSE i \in kept : Cardinality({j \in kept : j <= i}) = new_count
Compacted(s, kept) ==
  [new_count \in 1..Cardinality(kept) |-> s[PlaceOf(new_count, kept)]]

InWindow_BUG(s) == Compacted(s, {i \in DOMAIN s : s[i].t > now - WINDOW_SECONDS})
InWindow(s) == Compacted(s, {i \in DOMAIN s : s[i].t >= now - WINDOW_SECONDS})

(* A line: old samples go, then the oldest if the array is full, then the   *)
(* new one comes and the ratio is taken.                                    *)
Result_BUG(has) ==                          \* the ratio before the new one
  LET recent == InWindow(samples)
      room == IF Len(recent) >= MAX_SAMPLES THEN Tail(recent) ELSE recent
  IN  /\ Len(heard) < MAX_RESULTS
      /\ heard' = Append(heard, [t |-> now, has |-> has])
      /\ samples' = Append(room, [t |-> now, has |-> has])
      /\ verdict' = IF Enough(room, now) THEN "HasTowel" ELSE verdict
      /\ UNCHANGED now

Result(has) ==
  LET recent == InWindow(samples)
      room == IF Len(recent) >= MAX_SAMPLES THEN Tail(recent) ELSE recent
  IN  /\ Len(heard) < MAX_RESULTS
      /\ heard' = Append(heard, [t |-> now, has |-> has])
      /\ samples' = Append(room, [t |-> now, has |-> has])
      /\ verdict' = IF Enough(samples', now) THEN "HasTowel" ELSE verdict
      /\ UNCHANGED now

(* recv returns 0 or fails. *)
Disconnect == verdict' = "closed" /\ UNCHANGED <<now, samples, heard>>

TowelNext ==
  /\ verdict = "none"
  /\ Clock \/ Disconnect \/ \E has \in BOOLEAN : Result(has)

TowelSpec == TowelInit /\ [][TowelNext]_towelVars

-----------------------------------------------------------------------------
(* Properties. *)

(* Of the last MAX_SAMPLES results, those not older than the window when    *)
(* the last one came.                                                       *)
Young(results) ==
  LET n == Len(results)
  IN  {i \in 1..n : /\ results[i].t >= results[n].t - WINDOW_SECONDS
                    /\ i > n - MAX_SAMPLES}
Recent(results) ==
  LET n == Len(results)
  IN  IF n = 0 THEN <<>>
      ELSE SubSeq(results, n + 1 - Cardinality(Young(results)), n)

(* The array, compacted in place at every line, holds exactly the results   *)
(* that the window promises.                                                *)
WindowExact == samples = Recent(heard)

(* HasTowel is said at the first result that completes a window with more   *)
(* than two thirds HAS, and never below two thirds or in an incomplete one, *)
(* however results come in bursts and pauses.  What happens at exactly two  *)
(* thirds is left open: lines 2 and 73 say "> 2/3", line 153 tests ">=".    *)
SaidAtOnce ==
  heard # <<>> /\ verdict # "closed" =>
    LET window == Recent(heard)
        ready == heard[Len(heard)].t >= WINDOW_SECONDS /\ Len(window) >= MIN_SAMPLES
    IN  /\ ready /\ 3 * HasCount(window) > 2 * Len(window) => verdict = "HasTowel"
        /\ verdict = "HasTowel" => ready /\ 3 * HasCount(window) >= 2 * Len(window)
=============================================================================
