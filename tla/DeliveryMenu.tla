---------------------------- MODULE DeliveryMenu ----------------------------
(***************************************************************************)
(* HW1, hw1.c: the menus of the delivery system for one user, the amount   *)
(* on a seven-segment digit, the distance on eight LEDs.                   *)
(*                                                                         *)
(* The user types lines: a number of one digit, maybe with a minus, a      *)
(* letter, or nothing.  scanf("%d%*c") skips newlines, takes a number with *)
(* the character after it and leaves a letter where it is; getchar takes   *)
(* one character.  Integers do not overflow here.                          *)
(***************************************************************************)
EXTENDS Integers, SequencesExt

CONSTANTS Numbers,     \* what users type, of one digit
          MAX_TYPED, MAX_AHEAD  \* bounds: lines typed, characters not read yet

ASSUME MenuAssumption ==
  Numbers \subseteq -9..9 /\ MAX_TYPED \in Nat /\ MAX_AHEAD \in Nat

VARIABLES
  stdin, typed,   \* characters not read, and lines typed so far
  menu,           \* where the program waits
  ordershop, qty, \* the order
  amount, pow10, digits,  \* seg_display: digits it has shown
  lit_leds        \* leds_show_first_n

menuVars == <<stdin, typed, menu, ordershop, qty, amount, pow10, digits, lit_leds>>

(* A shop is 1, 2 or anything else, which is the diner. *)
Prices(shop) ==
  IF shop = 1 THEN <<60, 80>> ELSE IF shop = 2 THEN <<40, 70>> ELSE <<120, 50>>
Distance(shop) == IF shop = 1 THEN 3 ELSE IF shop = 2 THEN 5 ELSE IF shop = 3 THEN 8 ELSE 0
Total(shop, q) == Prices(shop)[1] * q[1] + Prices(shop)[2] * q[2]

MenuInit ==
  /\ stdin = <<>> /\ typed = 0 /\ menu = "main"
  /\ ordershop = 0 /\ qty = <<0, 0>>
  /\ amount = 0 /\ pow10 = 1 /\ digits = <<>> /\ lit_leds = 0

(* Characters, besides the numbers. *)
NewLine == 10
LetterX == 120

Type ==
  /\ typed < MAX_TYPED /\ Len(stdin) <= MAX_AHEAD /\ typed' = typed + 1
  /\ \E line \in {<<c, NewLine>> : c \in Numbers \cup {LetterX}} \cup {<<NewLine>>} :
       stdin' = stdin \o line
  /\ UNCHANGED <<menu, ordershop, qty, amount, pow10, digits, lit_leds>>

-----------------------------------------------------------------------------
(* The next character that is not skipped. *)
First(k) == stdin[k] # NewLine /\ \A i \in 1..(k - 1) : stdin[i] = NewLine

Scanf(n) ==
  \E k \in 1..Len(stdin) :
    First(k) /\ stdin[k] = n /\ stdin' = SubSeq(stdin, k + 2, Len(stdin))

ScanfFails ==
  \E k \in 1..Len(stdin) :
    First(k) /\ stdin[k] = LetterX /\ stdin' = SubSeq(stdin, k, Len(stdin))

Display == <<amount, pow10, digits, lit_leds>>

MainMenu(n) ==
  /\ menu = "main" /\ Scanf(n)
  /\ menu' = IF n = 1 THEN "list" ELSE IF n = 2 THEN "shop" ELSE "main"
  /\ UNCHANGED <<typed, ordershop, qty, Display>>

(* main to order_shop, which starts from nothing. *)
ChooseShop(n) ==
  /\ menu = "shop" /\ Scanf(n)
  /\ ordershop' = n /\ qty' = <<0, 0>> /\ menu' = "items"
  /\ UNCHANGED <<typed, Display>>

(* confirm returns the total to main, which takes -1 for a cancelled order, *)
(* and shows any other.                                                     *)
Finish(total) ==
  IF total = -1 THEN menu' = "main" /\ UNCHANGED Display
  ELSE /\ menu' = "scale" /\ amount' = total /\ pow10' = 1 /\ digits' = <<>>
       /\ UNCHANGED lit_leds

ChooseItem(n) ==
  /\ menu = "items" /\ Scanf(n)
  /\ \/ /\ n \in {1, 2} /\ menu' = (IF n = 1 THEN "how many 1" ELSE "how many 2")
        /\ UNCHANGED <<qty, Display>>
     \/ n = 3 /\ Finish(Total(ordershop, qty)) /\ UNCHANGED qty
     \/ n = 4 /\ Finish(-1) /\ qty' = <<0, 0>>
     \/ n \notin 1..4 /\ UNCHANGED <<menu, qty, Display>>
  /\ UNCHANGED <<typed, ordershop>>

HowMany(n) ==
  /\ menu \in {"how many 1", "how many 2"} /\ Scanf(n)
  /\ qty' = [qty EXCEPT ![IF menu = "how many 1" THEN 1 ELSE 2] = @ + n]
  /\ menu' = "items"
  /\ UNCHANGED <<typed, ordershop, Display>>

(* A letter stays in the input: the loop of main or of order_shop then asks *)
(* without end, printing the menu over and over.                            *)
Letter ==
  /\ menu \in {"main", "shop", "items", "how many 1", "how many 2"} /\ ScanfFails
  /\ menu' = IF menu \in {"main", "shop"} THEN "main" ELSE "items"
  /\ UNCHANGED <<typed, ordershop, qty, Display>>

(* "press Enter to go back", but any character will do. *)
PressEnter ==
  /\ menu \in {"list", "pick up"} /\ stdin # <<>> /\ menu' = "main"
  /\ stdin' = IF Head(stdin) < 0 THEN [stdin EXCEPT ![1] = -@] ELSE Tail(stdin)
  /\ UNCHANGED <<typed, ordershop, qty, Display>>

-----------------------------------------------------------------------------
(* seg_display: pow10 grows to the first digit, then falls. *)
Scale_BUG ==                                \* while (t > 10)
  /\ menu = "scale"
  /\ IF amount \div pow10 > 10 THEN pow10' = pow10 * 10 /\ UNCHANGED menu
     ELSE menu' = "digits" /\ UNCHANGED pow10
  /\ UNCHANGED <<stdin, typed, ordershop, qty, amount, digits, lit_leds>>

Scale ==
  /\ menu = "scale"
  /\ IF amount \div pow10 >= 10 THEN pow10' = pow10 * 10 /\ UNCHANGED menu
     ELSE menu' = "digits" /\ UNCHANGED pow10
  /\ UNCHANGED <<stdin, typed, ordershop, qty, amount, digits, lit_leds>>

(* (amount / pow10) % 10, which C rounds towards zero: the index in seg_map. *)
DigitOf(a) == IF a >= 0 THEN (a \div pow10) % 10 ELSE -((-a \div pow10) % 10)

ShowDigit ==
  /\ menu = "digits"
  /\ IF pow10 > 0
     THEN /\ digits' = Append(digits, DigitOf(amount))
          /\ pow10' = pow10 \div 10
          /\ UNCHANGED <<menu, lit_leds>>
     ELSE menu' = "leds" /\ lit_leds' = Distance(ordershop) /\ UNCHANGED <<digits, pow10>>
  /\ UNCHANGED <<stdin, typed, ordershop, qty, amount>>

(* led_display, a LED less each second *)
CountDown ==
  /\ menu = "leds"
  /\ IF lit_leds > 0 THEN lit_leds' = lit_leds - 1 /\ UNCHANGED menu
     ELSE menu' = "pick up" /\ UNCHANGED lit_leds
  /\ UNCHANGED <<stdin, typed, ordershop, qty, amount, pow10, digits>>

Program ==
  \/ \E n \in Numbers : MainMenu(n) \/ ChooseShop(n) \/ ChooseItem(n) \/ HowMany(n)
  \/ Letter \/ PressEnter \/ Scale \/ ShowDigit \/ CountDown

MenuNext == Type \/ Program
MenuSpec == MenuInit /\ [][MenuNext]_menuVars
-----------------------------------------------------------------------------
(* Properties. *)

Characters == -9..9 \cup {NewLine, LetterX}

MenuTypeOK ==
  /\ stdin \in Seq(Characters) /\ typed \in Nat
  /\ menu \in {"main", "list", "shop", "items", "how many 1", "how many 2", "scale",
               "digits", "leds", "pick up"}
  /\ ordershop \in Numbers \cup {0} /\ qty \in Int \X Int
  /\ amount \in Int /\ pow10 \in Nat /\ lit_leds \in 0..8
  /\ digits \in Seq(0..9)     \* an index outside is read from beyond seg_map

(* The digits that have been shown spell the price of the quantities that   *)
(* were asked for, with no digit lost and no zero in front of others (and   *)
(* "0" for a price below zero, which a negative quantity makes).            *)
Spelling(s) == FoldLeft(LAMBDA value, d : 10 * value + d, 0, s)
DigitsSpellTotal ==
  menu \in {"leds", "pick up"} =>
    /\ Spelling(digits) = IF Total(ordershop, qty) >= 0 THEN Total(ordershop, qty) ELSE 0
    /\ digits[1] = 0 => Len(digits) = 1
=============================================================================
