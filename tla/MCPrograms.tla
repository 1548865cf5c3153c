----------------------------- MODULE MCPrograms -----------------------------
(* Bounded instances of the repository's smaller programs, which have       *)
(* nothing to do with one another: a behaviour picks one and runs it.       *)
EXTENDS GymLines, LedDriver, TrainServer, Delivery, DeliveryMenu, TowelWindow

VARIABLE program

LedTexts == [w1 |-> {<<"7">>}, w2 |-> {<<"1">>, <<"\n", "x">>}]
DeliveryOrders == {<<"cookie", 2>>, <<"cake", 1>>, <<"tea", -1>>, <<"pizza", 1>>}
MenuNumbers == {-1, 1, 2, 3, 4}

vars == <<program, linesVars, ledVars, trainVars, deliveryVars, menuVars, towelVars>>

Init ==
  /\ program \in {"GymLines", "LedDriver", "TrainServer", "Delivery", "DeliveryMenu",
                  "TowelWindow"}
  /\ LinesInit /\ LedInit /\ TrainInit /\ DeliveryInit /\ MenuInit /\ TowelInit

Only(name) ==
  /\ program = name /\ UNCHANGED program
  /\ name = "GymLines" \/ UNCHANGED linesVars
  /\ name = "LedDriver" \/ UNCHANGED ledVars
  /\ name = "TrainServer" \/ UNCHANGED trainVars
  /\ name = "Delivery" \/ UNCHANGED deliveryVars
  /\ name = "DeliveryMenu" \/ UNCHANGED menuVars
  /\ name = "TowelWindow" \/ UNCHANGED towelVars

Next ==
  \/ Only("GymLines") /\ LinesNext
  \/ Only("LedDriver") /\ LedNext
  \/ Only("TrainServer") /\ TrainNext
  \/ Only("Delivery") /\ DeliveryNext
  \/ Only("DeliveryMenu") /\ MenuNext
  \/ Only("TowelWindow") /\ TowelNext

(* The fairness of each program; a program that was not picked has not      *)
(* started, and none of the steps that its fairness is about is enabled.    *)
FairSpec ==
  /\ Init /\ [][Next]_vars
  /\ WF_linesVars(Thread) /\ TrainFairness /\ DeliveryFairness

(* The types of the programs whose types are not proved.                    *)
TypeOK == LedTypeOK /\ TrainTypeOK /\ DeliveryTypeOK /\ MenuTypeOK
=============================================================================
