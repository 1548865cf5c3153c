------------------------------ MODULE Delivery ------------------------------
(***************************************************************************)
(* The delivery platform of HW2, hw2.c: one process takes the connections  *)
(* one after the other, keeps the order of the customer at hand (OrderState*)
(* st), and after confirm sleeps until the meal has arrived.               *)
(*                                                                         *)
(* Customers are external.  One sends a command when the last was read, in *)
(* one piece of at most BUFSIZE bytes as send_msg does; he may leave at    *)
(* any time.  Leaving with an answer unread resets the connection, leaving *)
(* without it ends the input, and the next write then brings the reset.    *)
(***************************************************************************)
EXTENDS Integers, SequencesExt

CONSTANTS Customers,
          Orders,         \* what customers order: a word for the meal, an amount
          MAX_ORDERS      \* bound: order commands, of all customers

VARIABLES
  customer,   \* the other end, the command under way, what he was shown
  queue,      \* connections that wait for accept
  courier,    \* where main is
  whom,       \* the customer behind connfd
  st,         \* OrderState: shop_set and shop in one, quantities, total_money
  placed      \* history: the first meal, and how much of each, the customer at hand asked for

deliveryVars == <<customer, queue, courier, whom, st, placed>>

Meals == {"cookie", "cake", "tea", "boba", "fried-rice", "Egg-drop-soup"}
NoShop == "none"
meal_to_shop ==
  [m \in Meals |-> IF m \in {"cookie", "cake"} THEN "SHOP_DESSERT"
                   ELSE IF m \in {"tea", "boba"} THEN "SHOP_BEVERAGE"
                   ELSE "SHOP_DINER"]
ShopOf(meal) == IF meal \in Meals THEN meal_to_shop[meal] ELSE NoShop
meal_price ==
  [m \in Meals |-> CASE m = "cookie" -> 60 [] m = "cake" -> 80 [] m = "tea" -> 40
                     [] m = "boba" -> 70 [] m = "fried-rice" -> 120
                     [] m = "Egg-drop-soup" -> 50]

ASSUME DeliveryAssumption ==
  /\ Orders \subseteq STRING \X Int
  /\ MAX_ORDERS \in Nat /\ NoShop \notin Customers

NoMeals == [m \in Meals |-> 0]
NothingPlaced == [first |-> NoShop, asked |-> NoMeals]
NoOrder == [shop |-> NoShop, qty |-> NoMeals, total_money |-> 0]
NoCmd == <<"none">>
NoBill == {}
Cost(qty) ==
    60 * qty["cookie"] + 80 * qty["cake"] + 40 * qty["tea"] + 70 * qty["boba"]
  + 120 * qty["fried-rice"] + 50 * qty["Egg-drop-soup"]

(* left: without waiting for an answer; order, bill: what he was shown.     *)
Stranger ==
  [end |-> "away", cmd |-> NoCmd, orders |-> 0, unread |-> FALSE, left |-> FALSE,
   order |-> NoMeals, bill |-> NoBill]

DeliveryInit ==
  /\ customer = [c \in Customers |-> Stranger]
  /\ queue = <<>> /\ courier = "accept" /\ whom = NoShop
  /\ st = NoOrder /\ placed = NothingPlaced

-----------------------------------------------------------------------------
(* Customers. *)

Come(c) ==
  /\ customer[c].end = "away"
  /\ customer' = [customer EXCEPT ![c].end = "up"] /\ queue' = Append(queue, c)
  /\ UNCHANGED <<courier, whom, st, placed>>

Ordered == MapThenSumSet(LAMBDA c : customer[c].orders, Customers)

Say(c) ==
  /\ customer[c].end = "up" /\ customer[c].cmd = NoCmd
  /\ \/ \E word \in {"shop list", "confirm", "cancel"} :
          customer' = [customer EXCEPT ![c].cmd = <<word>>]
     \/ \E order \in Orders :
          /\ Ordered < MAX_ORDERS
          /\ customer' = [customer EXCEPT ![c].cmd = <<"order">> \o order, ![c].orders = @ + 1]
  /\ UNCHANGED <<queue, courier, whom, st, placed>>

ReadAnswer(c) ==
  /\ customer[c].end = "up" /\ customer[c].unread
  /\ customer' = [customer EXCEPT ![c].unread = FALSE]
  /\ UNCHANGED <<queue, courier, whom, st, placed>>

Expects(c) ==
  \/ customer[c].unread \/ customer[c].cmd # NoCmd
  \/ courier = "deliver" /\ whom = c

Leave(c) ==
  /\ customer[c].end = "up"
  /\ customer' = [customer EXCEPT ![c] =
       [Stranger EXCEPT !.end = IF customer[c].unread THEN "aborted" ELSE "closed",
                        !.cmd = customer[c].cmd, !.orders = customer[c].orders,
                        !.left = Expects(c)]]
  /\ UNCHANGED <<queue, courier, whom, st, placed>>

-----------------------------------------------------------------------------
(* main *)

NextCustomer_BUG ==                         \* st is not cleared
  /\ courier = "accept" /\ queue # <<>>
  /\ whom' = Head(queue) /\ queue' = Tail(queue) /\ courier' = "read"
  /\ placed' = NothingPlaced
  /\ UNCHANGED <<customer, st>>

NextCustomer ==
  /\ courier = "accept" /\ queue # <<>>
  /\ whom' = Head(queue) /\ queue' = Tail(queue) /\ courier' = "read"
  /\ st' = NoOrder /\ placed' = NothingPlaced
  /\ UNCHANGED customer

(* send_msg to the customer at hand, who then is as in shown; on an aborted *)
(* connection write fails, on one that was reset it kills.                  *)
Answer(shown, next) ==
  LET end == customer[whom].end
      failed == [customer[whom] EXCEPT !.cmd = NoCmd,
                                       !.end = IF end = "closed" THEN "reset" ELSE end]
  IN
  /\ customer' = [customer EXCEPT ![whom] =
                    IF end = "up" THEN [shown EXCEPT !.unread = TRUE] ELSE failed]
  /\ courier' = IF end \in {"up", "closed"} THEN next ELSE "ended"
  /\ UNCHANGED <<queue, whom>>

(* close(connfd), and back to accept; what was not read is lost.            *)
Dismiss(bill) ==
  /\ customer' = [customer EXCEPT ![whom] =
       [Stranger EXCEPT !.end = "gone", !.orders = customer[whom].orders,
                        !.left = customer[whom].left, !.bill = bill]]
  /\ courier' = "accept" /\ whom' = NoShop
  /\ UNCHANGED queue

Cmd == customer[whom].cmd
Reads(word) == courier = "read" /\ Cmd[1] = word /\ customer[whom].end # "aborted"
Heard == [customer[whom] EXCEPT !.cmd = NoCmd]

ShopList == Reads("shop list") /\ Answer(Heard, "read") /\ UNCHANGED <<st, placed>>

Confirm ==
  /\ Reads("confirm")
  /\ Answer(Heard, IF st.shop = NoShop THEN "read" ELSE "deliver")
  /\ UNCHANGED <<st, placed>>

(* After the sleep of shop_distance seconds: the amount to pay. *)
Deliver ==
  LET end == customer[whom].end IN
  /\ courier = "deliver"
  /\ IF end \in {"reset", "aborted"}
     THEN courier' = "ended" /\ UNCHANGED <<customer, queue, whom>>
     ELSE Dismiss(IF end = "up" THEN {st.total_money} ELSE NoBill)
  /\ UNCHANGED <<st, placed>>

Cancel == Reads("cancel") /\ Dismiss(NoBill) /\ UNCHANGED <<st, placed>>

(* build_order_string leaves out what is not positive. *)
Visible_BUG(qty) ==                           \* cookie and cake, or cookie
  [m \in Meals |-> IF m = "cake" /\ qty["cookie"] = 0 THEN 0
                   ELSE IF qty[m] > 0 THEN qty[m] ELSE 0]
Visible(qty) == [m \in Meals |-> IF qty[m] > 0 THEN qty[m] ELSE 0]

(* The history with one order more; there are no orders of no known meal.   *)
Recorded(meal, amount) ==
  IF meal \in Meals
  THEN [first |-> IF placed.first = NoShop THEN meal ELSE placed.first,
        asked |-> [placed.asked EXCEPT ![meal] = @ + amount]]
  ELSE placed

(* sscanf finds a command, a meal and an amount.  The first meal that is    *)
(* known settles the shop; a meal of another shop, or of none, changes     *)
(* nothing, and is answered once there is a shop.                           *)
Order ==
  LET meal == Cmd[2]  amount == Cmd[3]
      shop == IF st.shop = NoShop THEN ShopOf(meal) ELSE st.shop
      taken == shop # NoShop /\ ShopOf(meal) = shop
      after == [shop |-> shop,
                qty |-> IF taken THEN [st.qty EXCEPT ![meal] = @ + amount] ELSE st.qty,
                total_money |-> IF taken THEN st.total_money + meal_price[meal] * amount
                                ELSE st.total_money]
  IN
  /\ Reads("order")
  /\ st' = after /\ placed' = Recorded(meal, amount)
  /\ IF shop = NoShop
     THEN customer' = [customer EXCEPT ![whom] = Heard] /\ UNCHANGED <<queue, courier, whom>>
     ELSE Answer([Heard EXCEPT !.order = Visible(after.qty)], "read")

(* read returns 0, or -1 which ends the server. *)
NoInput == courier = "read" /\ customer[whom].cmd = NoCmd

EndOfInput_BUG ==                           \* 0 is an error as well
  /\ NoInput /\ customer[whom].end \in {"closed", "reset"}
  /\ courier' = "ended"
  /\ UNCHANGED <<customer, queue, whom, st, placed>>

EndOfInput_BUG2 ==                          \* only an error ends the loop
  /\ NoInput /\ FALSE
  /\ UNCHANGED deliveryVars

EndOfInput ==
  /\ NoInput /\ customer[whom].end \in {"closed", "reset"}
  /\ Dismiss(NoBill)
  /\ UNCHANGED <<st, placed>>

ReadFails ==
  /\ courier = "read" /\ customer[whom].end = "aborted"
  /\ courier' = "ended"
  /\ UNCHANGED <<customer, queue, whom, st, placed>>

Serving ==
  NextCustomer \/ ShopList \/ Confirm \/ Deliver \/ Cancel \/ Order
  \/ EndOfInput \/ ReadFails

-----------------------------------------------------------------------------
Ended == courier \in {"ended", "stopped"}

(* CtrlCHandler *)
Interrupt == courier' = "stopped" /\ UNCHANGED <<customer, queue, whom, st, placed>>

DeliveryNext ==
  /\ ~Ended
  /\ Serving \/ Interrupt \/ \E c \in Customers : Come(c) \/ Say(c) \/ ReadAnswer(c) \/ Leave(c)

DeliverySpec == DeliveryInit /\ [][DeliveryNext]_deliveryVars

(* The server goes on; customers, in the end, leave. *)
DeliveryFairness ==
  /\ WF_deliveryVars(~Ended /\ Serving)
  /\ \A c \in Customers : WF_deliveryVars(~Ended /\ Leave(c))

DeliveryFairSpec == DeliverySpec /\ DeliveryFairness

-----------------------------------------------------------------------------
(* Properties. *)

Commands ==
  {NoCmd, <<"shop list">>, <<"confirm">>, <<"cancel">>}
    \cup {<<"order">> \o order : order \in Orders}

Strangers ==
  [end : {"away", "up", "closed", "reset", "aborted", "gone"}, cmd : Commands,
   orders : Nat, unread : BOOLEAN, left : BOOLEAN, order : [Meals -> Nat], bill : SUBSET Int]

DeliveryTypeOK ==
  /\ customer \in [Customers -> Strangers]
  /\ queue \in Seq(Customers)
  /\ courier \in {"accept", "read", "deliver", "ended", "stopped"}
  /\ whom \in Customers \cup {NoShop}
  /\ st \in [shop : {NoShop, "SHOP_DESSERT", "SHOP_BEVERAGE", "SHOP_DINER"},
             qty : [Meals -> Int], total_money : Int]
  /\ courier = "deliver" => st.shop # NoShop

(* The order at hand is what its customer has asked for from the shop of    *)
(* his first meal, nobody else's and nothing of another shop.               *)
OfOneShop(asked, shop) == [m \in Meals |-> IF ShopOf(m) = shop THEN asked[m] ELSE 0]
OwnOrder ==
  whom # NoShop =>
    st.total_money = Cost(OfOneShop(placed.asked, ShopOf(placed.first)))

(* The bill is the price of the order that its customer was shown last.     *)
(* Quantities below zero are not shown and make it less (nothing forbids    *)
(* "cookie -1").                                                            *)
PaysWhatWasShown ==
  [][\A c \in Customers :
       customer'[c].bill # customer[c].bill =>
         /\ st.total_money <= Cost(customer[c].order)
         /\ (\A m \in Meals : st.qty[m] >= 0) =>
              customer'[c].bill = {Cost(customer[c].order)}]_deliveryVars

(* As long as all customers wait for what they asked for, the server lives: *)
(* it ends by a write or read on a connection that somebody has left.       *)
EndedByLeaving == courier = "ended" => \E c \in Customers : customer[c].left

(* Who is in the queue gets his turn while the server lives, also after     *)
(* those who leave in the middle of an order or of a delivery.              *)
TurnComes == \A c \in Customers : c \in ToSet(queue) ~> whom = c \/ Ended
=============================================================================
