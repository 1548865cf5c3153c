------------------------------ MODULE LedDriver ------------------------------
(***************************************************************************)
(* lab3_driver/led_driver.c, the kernel module behind /dev/etx_device: it  *)
(* is loaded step by step, undoes the steps when one fails, and shows the  *)
(* characters that processes like writer.cpp write on seven pins, which it *)
(* sets one at a time and without a lock.                                  *)
(*                                                                         *)
(* The kernel is external: a step of the loading may fail, a loaded module *)
(* cannot be removed while the device is open.  class_create and           *)
(* device_create return an error pointer when they fail, never NULL, which *)
(* is all that the code looks for: the loading goes on.  There is no       *)
(* device without a class; what device_destroy does with the error pointer *)
(* of a class, follow it or find nothing, depends on the kernel.           *)
(***************************************************************************)
EXTENDS Integers, SequencesExt

CONSTANTS Writers,
          Texts       \* what each writer writes: sequences of characters

VARIABLES
  module,   \* the step of the loading, or "live", "unloaded", "oops"
  held,     \* what the module has registered
  failed,   \* history: what this loading tried to register and failed
  vain,     \* history: what was undone then without being registered
  requested,  \* pins it has requested, from the first
  lit,      \* pins whose value is 1
  last_digit,
  call      \* the calls under way: of the writers, and gpio_on(0x00) of the loading

ledVars == <<module, held, failed, vain, requested, lit, last_digit, call>>

Pins == 0..6    \* a to g
seg_map ==
  [c \in {"0", "1", "2", "3", "4", "5", "6", "7", "8", "9", "E", "?"} |->
     CASE c = "0" -> 0..5               [] c = "1" -> 1..2
       [] c = "2" -> {0, 1, 3, 4, 6}    [] c = "3" -> {0, 1, 2, 3, 6}
       [] c = "4" -> {1, 2, 5, 6}       [] c = "5" -> {0, 2, 3, 5, 6}
       [] c = "6" -> {0, 2, 3, 4, 5, 6} [] c = "7" -> 0..2
       [] c = "8" -> 0..6               [] c = "9" -> {0, 1, 2, 3, 5, 6}
       [] c = "E" -> {0, 3, 4, 5, 6}    [] OTHER -> {}]    \* "?": dark
Skipped == {"\n"}

Chars == DOMAIN seg_map \cup Skipped \cup {"x"}

Loader == "insmod"

ASSUME LedAssumption ==
  Loader \notin Writers /\ \A w \in Writers : Texts[w] \subseteq Seq(Chars \ {"?"})

(* text: what is left of k_buf; pin: the next one gpio_on sets.             *)
NoCall == [pc |-> "none", text |-> <<>>, pin |-> 0, alone |-> TRUE]
Callers == Writers \cup {Loader}
Busy(w) == call[w].pc # "none"

LedInit ==
  /\ module = "unloaded" /\ held = {} /\ failed = {} /\ vain = {} /\ requested = 0
  /\ lit = {} /\ last_digit = "?"
  /\ call = [w \in Callers |-> NoCall]

-----------------------------------------------------------------------------
(* etx_driver_init *)

Parts == {"region", "cdev", "class", "device"}
Take(what) == held' = held \cup {what} /\ UNCHANGED failed
Fail(what) == failed' = failed \cup {what}
Undo(parts) == held' = held \ parts /\ vain' = vain \cup (parts \ held)

Insmod ==
  /\ module = "unloaded" /\ \A w \in Writers : ~Busy(w)
  /\ module' = "region" /\ failed' = {} /\ vain' = {}
  /\ UNCHANGED <<held, requested, lit, last_digit, call>>

(* A step that registers something, and what the label of its failure       *)
(* undoes: the step itself, too.                                            *)
Register(step, what, next, undone) ==
  /\ module = step
  /\ \/ module' = next /\ Take(what) /\ UNCHANGED vain
     \/ module' = "unloaded" /\ Fail(what) /\ Undo(undone)
  /\ UNCHANGED <<requested, lit, last_digit, call>>

(* A failure of class_create or device_create goes unnoticed: the module    *)
(* may load without a file.                                                 *)
CreateClass ==
  /\ module = "class" /\ module' = "device"
  /\ Take("class") \/ (Fail("class") /\ UNCHANGED held)
  /\ UNCHANGED <<vain, requested, lit, last_digit, call>>

CreateDevice ==
  /\ module = "device" /\ module' = "pins"
  /\ ("class" \in held /\ Take("device")) \/ (Fail("device") /\ UNCHANGED held)
  /\ UNCHANGED <<vain, requested, lit, last_digit, call>>

(* device_destroy, class_destroy, cdev_del and unregister_chrdev_region.    *)
(* The file is there since device_create: a write under way then runs in    *)
(* freed code.                                                              *)
UndoAll ==
  \/ /\ Undo(Parts)
     /\ module' = IF \A w \in Writers : ~Busy(w) THEN "unloaded" ELSE "oops"
  \/ /\ "class" \notin held                    \* an error pointer is followed
     /\ module' = "oops" /\ UNCHANGED <<held, vain>>

(* gpio_is_valid, gpio_request and gpio_direction_output of the next pin;   *)
(* a failure frees the pins before it and undoes everything else.           *)
RequestPin_BUG ==                           \* while (--i > 0)
  /\ module = "pins" /\ requested \in Pins
  /\ \/ /\ requested' = requested + 1 /\ lit' = lit \ {requested}
        /\ UNCHANGED <<module, held, vain>>
     \/ /\ requested' = (IF requested = 0 THEN 0 ELSE 1)
        /\ lit' = lit \ 1..(requested - 1)
        /\ UndoAll
  /\ UNCHANGED <<failed, last_digit, call>>

RequestPin_BUG2 ==                          \* i <= 7
  /\ module = "pins" /\ requested \in 0..7
  /\ \/ /\ requested' = requested + 1 /\ lit' = lit \ {requested}
        /\ UNCHANGED <<module, held, vain>>
     \/ /\ requested' = 0 /\ lit' = lit \ 0..(requested - 1)
        /\ UndoAll
  /\ UNCHANGED <<failed, last_digit, call>>

RequestPin ==
  /\ module = "pins" /\ requested \in Pins
  /\ \/ /\ requested' = requested + 1 /\ lit' = lit \ {requested}
        /\ UNCHANGED <<module, held, vain>>
     \/ /\ requested' = 0 /\ lit' = lit \ 0..(requested - 1)
        /\ UndoAll
  /\ UNCHANGED <<failed, last_digit, call>>

Others(w) == {v \in Callers \ {w} : Busy(v)}
Meet(calls, w) ==   \* nobody who is busy is alone when w comes
  [v \in Callers |-> IF v # w /\ Busy(v) THEN [calls[v] EXCEPT !.alone = FALSE] ELSE calls[v]]
Start(w, text) ==
  LET own == w = Loader \/ module = "live" IN   \* nobody requests pins
  call' = Meet([call EXCEPT ![w] = [pc |-> "next", text |-> text, pin |-> 0,
                                    alone |-> own /\ Others(w) = {}]], w)

(* gpio_on(0x00), which the last step below finishes. *)
ClearPins ==
  /\ module = "pins" /\ requested = 7 /\ module' = "clear"
  /\ Start(Loader, <<"?">>)
  /\ UNCHANGED <<held, failed, vain, requested, lit, last_digit>>

Loaded ==
  /\ module = "clear" /\ call[Loader].pc = "next" /\ call[Loader].text = <<>>
  /\ module' = "live" /\ call' = [call EXCEPT ![Loader] = NoCall]
  /\ UNCHANGED <<held, failed, vain, requested, lit, last_digit>>

(* etx_driver_exit; the device is not open. *)
Rmmod ==
  /\ module = "live" /\ \A w \in Writers : ~Busy(w)
  /\ requested' = 0 /\ lit' = {} /\ UndoAll
  /\ UNCHANGED <<failed, last_digit, call>>

Load ==
  \/ Insmod
  \/ Register("region", "region", "cdev", {"region"})
  \/ Register("cdev", "cdev", "class", {"cdev", "region"})
  \/ CreateClass \/ CreateDevice \/ RequestPin \/ ClearPins \/ Loaded \/ Rmmod

-----------------------------------------------------------------------------
(* etx_write, open from the moment the file is there. *)

Write(w) ==
  /\ "device" \in held /\ ~Busy(w)
  /\ \E text \in Texts[w] : Start(w, text)
  /\ UNCHANGED <<module, held, failed, vain, requested, lit, last_digit>>

(* The next character: skipped, refused, or shown. *)
NextChar(w) ==
  LET c == Head(call[w].text) IN
  /\ call[w].pc = "next" /\ call[w].text # <<>>
  /\ call' = IF c \in Skipped THEN [call EXCEPT ![w].text = Tail(@)]
             ELSE IF c \in DOMAIN seg_map THEN [call EXCEPT ![w].pc = "gpio_on", ![w].pin = 0]
             ELSE [call EXCEPT ![w] = NoCall]
  /\ UNCHANGED <<module, held, failed, vain, requested, lit, last_digit>>

(* One gpio_set_value of gpio_on; after the last pin, last_digit.           *)
SetPin_BUG(w) ==                            \* only switches on
  LET c == Head(call[w].text)  i == call[w].pin IN
  /\ call[w].pc = "gpio_on" /\ i \in Pins
  /\ lit' = IF i \in seg_map[c] THEN lit \cup {i} ELSE lit
  /\ call' = [call EXCEPT ![w].pin = i + 1]
  /\ UNCHANGED <<module, held, failed, vain, requested, last_digit>>

SetPin(w) ==
  LET c == Head(call[w].text)  i == call[w].pin IN
  /\ call[w].pc = "gpio_on" /\ i \in Pins
  /\ lit' = IF i \in seg_map[c] THEN lit \cup {i} ELSE lit \ {i}
  /\ call' = [call EXCEPT ![w].pin = i + 1]
  /\ UNCHANGED <<module, held, failed, vain, requested, last_digit>>

KeepDigit(w) ==
  /\ call[w].pc = "gpio_on" /\ call[w].pin \notin Pins
  /\ last_digit' = Head(call[w].text)
  /\ call' = [call EXCEPT ![w].pc = "next", ![w].text = Tail(@)]
  /\ UNCHANGED <<module, held, failed, vain, requested, lit>>

Return(w) ==
  /\ w # Loader /\ call[w].pc = "next" /\ call[w].text = <<>>
  /\ call' = [call EXCEPT ![w] = NoCall]
  /\ UNCHANGED <<module, held, failed, vain, requested, lit, last_digit>>

Proceed(w) == NextChar(w) \/ SetPin(w) \/ KeepDigit(w) \/ Return(w)

-----------------------------------------------------------------------------
LedNext ==
  /\ module # "oops"
  /\ \/ Load
     \/ \E w \in Writers : Write(w)
     \/ \E w \in Callers : Proceed(w)

LedSpec == LedInit /\ [][LedNext]_ledVars
-----------------------------------------------------------------------------
(* Properties. *)

Calls == [pc : {"none", "next", "gpio_on"}, text : Seq(Chars), pin : 0..7, alone : BOOLEAN]

LedTypeOK ==
  /\ module \in {"unloaded", "region", "cdev", "class", "device", "pins", "clear",
                 "live", "oops"}
  /\ {held, failed, vain} \subseteq SUBSET Parts
  /\ requested \in 0..7 /\ lit \in SUBSET Pins /\ last_digit \in DOMAIN seg_map
  /\ call \in [Callers -> Calls]

(* However the loading ends, noticed or unnoticed failures included, and    *)
(* after the removal: when the module is out nothing stays behind, and what *)
(* was undone without being registered is no more than what was tried and   *)
(* failed, never a step that the loading had not come to.                   *)
LoadingUndone ==
  module = "unloaded" => held = {} /\ requested = 0 /\ vain \subseteq failed

(* A call of gpio_on that nobody else disturbs leaves its own character on  *)
(* the pins, whatever mixture overlapping calls had left there: two writers *)
(* at once can show what neither has written, a writer after them heals it. *)
AloneIsShown ==
  \A w \in Callers :
    call[w].alone /\ call[w].pc = "gpio_on" /\ call[w].pin = 7
      => lit = seg_map[Head(call[w].text)]
=============================================================================
