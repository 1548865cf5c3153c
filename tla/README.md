# Verification of the Embedded-Operating-System coursework

TLA+ models, TLC runs and TLAPS proofs for the programs of this repository: the
reservation system of a small gym (`src/Final_project`), and the smaller
programs of the labs and the homework. All paths below are relative to `src/` and
lines are those of the files in this commit; `integration/` stands for
`Final_project/integration/`.

## 1. The system

### The gym (Final_project/integration)

| part | state | operations |
| :-- | :-- | :-- |
| `server.c` | `g_eqs`: per machine a state (IDLE, WAITING_CHECKIN, IN_USE, WAITING_CONTINUE), the awaited and the using user, deadlines, a queue, a one-place `pending_event`; `g_clients`: socket, role, user id, `ban_end`; one mutex `g_lock` | RESERVE, CANCEL, QUERY_EQUIP, QUERY_USER, CONTINUE_RESPONSE, LOGIN, disconnection; driver events; a timer round each second. One thread per client slot, one timer, `main` accepting; a line buffer per slot |
| `device_main.py` | `DeviceContext` under `ctx.lock`: state (IDLE, CHECKIN, COUNTDOWN), user, seconds left, `stop_requested`, `checkin_verified`, `msg_queue` | GETSTATUS, STARTCOUNTDOWN, STOPCOUNTDOWN; `hardware_loop`: card polling, counting, USER_MISSED, USER_FINISHED, USER_CHECKEDIN |
| `client.c` | menu state, the open question (`continue_prompt_active`, `pending_continue_equip`) | one `select` loop over keyboard and socket: menus of two lines, pushes between them, digits that answer a question |

The server keeps one TCP connection to each driver. A call sends a line and
reads lines until the reply; a line that is not the reply is an event. The
server handles that event *inside the call*, before it returns to the handler
that made it, and the event's handler makes calls of its own. This is the
hardest part of the program: every handler is interleaved with others although
a mutex is held throughout. The driver has a race of its own: its loop takes a
snapshot under the lock, decides, and acts in a later lock section, with
commands arriving in between; and three of its loops block on a card being
taken away.

Correct means: a machine is never idle with people queueing, never waits for
nobody, serves its queue in order, never stays with a user whose time is over;
every handler ends; every check-in, use and stop comes to an end; what users are
told is so.

Around the handlers the server is an ordinary threaded one, with the ordinary
hazards: threads use their slot without the lock while `cleanup_client` and the
accept loop give slots away, `recv` cuts lines anywhere, peers vanish, SIGINT
comes at any time. Correct means: nobody uses or closes another's connection, no
slot is lost, no byte is dropped, lines come out once and in order, the server
stops. The client must not let a pushed line turn what the user typed into
something else, and must show every question.

### Labs and homework

| part | state | hard about it | correct means |
| :-- | :-- | :-- | :-- |
| lab6 `game.c`, `guess.c` | a shared struct (number, answer word), a signal, an interval timer | the answer is written byte by byte while the other process compares it, and only its first byte is cleared; a signal before the handler is installed kills | the guesser acts on the right answer and finds the number |
| lab5 `server.c`, `client.c` | a balance shared by threads, a System V semaphore | stream reads that hold several lines or parts of one; semaphore removed while threads run | no update is lost, every thread gets its turn |
| lab4 `lab4_server.c` | `sockfd`, `connfd`, a process per connection | signals that merge, descriptors that are inherited | no zombie and no connection stays |
| lab3 `led_driver.c` | GPIO pins, `last_digit`, what the module has registered | writers without a lock, unwinding a failed load | a failed load leaves nothing and undoes nothing it had not tried; an undisturbed write shows its digit |
| HW2 `hw2.c` | `OrderState` of the customer at hand | customers queue behind one connection and leave at any point | each gets his turn, his own order and the price of what he was shown |
| HW1 `hw1.c` | the menu, the order, the digits shown | what `scanf` and `getchar` leave in the input; powers of ten | the digits spell the total |
| `Towel_client.c` | a window of results | compaction in place, bursts and pauses | the window holds what it promises, the verdict comes at once and never too early |

These programs have nothing to do with one another or with the gym.
`integration/device_main_buzzer.py` is `device_main.py` with a buzzer; the
`*-architecture` files, `client-number-interface.c` and `src/test` are earlier
stages of the same programs; lab2 is a document.

## 2. The modules

| module | models | checked by | proved in |
| :-- | :-- | :-- | :-- |
| `GymServer` | handlers of `server.c` with *any* driver | `MCGymServer` | `GymServerProofs` |
| `GymDevice` | `device_main.py` with *any* server | `MCGymDevice` | `GymDeviceProofs` |
| `GymSystem` | the two joined, implements each | `MCGymSystem` | `GymSystemProofs` |
| `GymConnections` | threads, slots and `g_lock` of `server.c` | `MCGymConnections` | `GymConnectionsProofs` |
| `LineChannel` | what a connection promises its reader: whole lines | `MCPrograms`, as a property | |
| `GymLines` | `inbuf` of `server.c`, implements `LineChannel` | `MCPrograms` | `ProgramsProofs` |
| `GymClient` | `client.c` with a server reduced to what it can see | `MCGymClient` | `GymClientProofs` |
| `SearchRange` | the numbers lab6 is started with | | |
| `BinarySearch` | what lab6's guesser promises | `MCGuessGame`, as a property | `GuessGameProofs` |
| `GuessGame` | lab6, implements `BinarySearch` | `MCGuessGame` | `GuessGameProofs` |
| `WebAtm` | lab5 | `MCWebAtm` | `WebAtmProofs` |
| `LedDriver` | lab3 | `MCPrograms` | `ProgramsProofs` |
| `TrainServer` | lab4 | `MCPrograms` | `ProgramsProofs` |
| `Delivery` | HW2 | `MCPrograms` | `ProgramsProofs` |
| `DeliveryMenu` | HW1 | `MCPrograms` | `ProgramsProofs` |
| `TowelWindow` | the towel client | `MCPrograms` | `ProgramsProofs` |

The server is modelled in three layers that do not repeat one another:
`GymLines` shows that a thread reads whole lines, `GymConnections` takes that for
granted and shows who runs on which slot and under the lock, `GymServer` takes
both for granted and models what a line does. `GymSystem` joins it with the
driver. Each layer is general about the one above: in `GymConnections` whoever
holds `g_lock` may send to anybody any number of times.

Operators whose name ends in `_BUG` are mutants: the definition of the same name
with a mistake a programmer could make. They take no part in any
specification; `PROJECT.json` says which property notices which.

### GymServer

`eq` is `g_eqs`, `client` is `g_clients`, `out` the line the last step sent to
a user. `agenda` is the call stack of the thread that holds `g_lock`: a
sequence of tasks, innermost first, empty when the lock is free. A command is an
action that needs `Free`, does what the handler does up to its first driver
call, and leaves the call and the rest of the handler as tasks. `Answer` is the
return of the call on top: the event that came with it becomes a task and is
run before the rest. `HandlerStep` runs whatever is on top; each of its
disjuncts is the code between two driver calls. `AnyAnswer` lets the driver
answer anything and push any event, so what holds here holds for any driver.
`Replies` is the set of the seconds it may answer (any numbers in the code and in
the proofs, one below zero and those up to `USAGE_TIME` in a run), and `MAX_NEST` bounds
how deep events nest in a run: an event arrives only in a call while no more tasks than
that are pending, the call included. With `Unbounded` they nest as they do in the code.

A task names its user by value, except where the C code passes a pointer at
`eq->wait_user`, which the callee then overwrites: `ByRef` stands for that
pointer and `Deref` reads it (lines 760 and 766; `clear_continue_prompt` empties the
argument of `decline_continue` at 746 before its first use, so there the task
carries the empty id). A deadline is the number of seconds left. `TimerRound`
is one second: all deadlines move, and `update_equipment_state` is queued for
every machine.

A driver whose connection is lost fails every call at once: to the handlers that
is one of the answers of `AnyAnswer`, so the safety properties hold for it too.

Left out: refused commands and QUERY_USER (they change nothing), the log, users
with an empty id.

### GymDevice

`dev[e]` holds `DeviceContext`, the event queued or sent but not read yet, and
`pc`, the lock section the loop is going to; `card[e]` is the card on
the reader. `StartCheckin`, `StartUsage` and `Stop` are the commands of
`parse_command`; `Stopping`, `Idling`, `CheckingIn` and `CountingDown` are one
iteration up to its decision, and `ReportMissed`, `ReportFinished`,
`ReportCheckedIn` and `Reset` the sections that act on it. The stop check has two
sections of its own, the snapshot (254-256) and the read of `checkin_verified` (263-264).
Of all that can happen between them only a command that clears the mark makes a
difference: the loop then drives out a card that it would have left alone. That is
`Misled`, a second outcome of such a command; everything else falls as well before the
first section or after the second, so that `Stopping` is one step. `lag` is the time a
blocked loop later subtracts from whatever then counts. `AnyCommand` is any
server, which may ask for any of `Periods`. `Second` needs every
loop to have done what it can (`Settled`): it polls twenty times a second.

Left out: the 0.8 s for which a removed card is still present, cards without a
user, LED and display.

### GymSystem

Instances of the two with common variables. `DriverCall` answers the call on top
of the agenda by the driver's own command; `Second` is one second for both.
`moves` bounds what people do, with clients and cards, in a second. Drivers and
people move while the lock is free or its holder waits for that driver: between
two calls a handler touches only server data, so nothing is lost. The instances
take `Int` for the seconds that either side may send and no bound on nesting, so
that refining them says something: `GymSystem` implements `GymServer`, whose driver
is now a real one, and `GymDevice`, whose server is.
`SpecLoggedIn` starts with everybody connected; `Spec` lets them come and go.

### GymConnections

`peer[c]` is the other end of connection `c` with the lines it has under way,
`g_clients[i]` a slot reduced to `fd` and `role`, `thread[c]` the thread that was
started for `c` and the slot it was given (`cli`). `Accept` is one turn of the accept loop, `Recv`,
`Lock`, `LogIn`, `Command`, `CleanUp` the pieces of `client_thread` between which
others run; `SendTo` is any line that the holder of the lock sends. The second
line sent to somebody who has gone raises SIGPIPE: the process is `"killed"`.
`Join` closes what `main` closes; client threads are detached, so `exit` ends them
wherever they are. That the line loop does not look at `g_running` between the
lines of one read is `Unlock`'s second alternative.

### GymLines and LineChannel

Bytes are numbered in the order in which they are sent, and a line is an interval
of numbers, so that a lost, doubled or joined line is not a line of `LineChannel`. The
peer ends a line after at most `MAX_LINE` bytes with `MAX_LINE + RECV_SIZE <=
LINE_BUF_SIZE`; in the code 512 + 512 <= 1024, and all that
`client.c` sends is far shorter, short of a LOGIN with a very long name. Beyond that bound the code drops bytes, and with
a full buffer and no newline it spins on a `recv` of nothing (1187-1190).

### GymClient

`client` holds the locals of `main`, `todo` what `select` has reported and the
round has not served. A typed line remembers the menu on the screen (`saw`).
The server is the open questions (`asked`) and one reply per command;
`CONTINUE_END` is any of the three lines that end a question. The code compares
words; a line is a sequence of words here.

### GuessGame and BinarySearch

`BinarySearch` is the search without processes. In `GuessGame` the two programs take
one step per access to the shared struct. The answer has two parts, its first
byte and the others, written in either order: the three words differ in the
first byte and none is a prefix of another, so this decides what `strcmp`
finds. The segment may hold an answer of an earlier game. Ctrl-C, and a signal
before `sigaction`, kill the game.

### WebAtm

One client and one thread per connection. A line is three tokens, and a read
takes any prefix of the tokens that have arrived, as a stream read does;
`sscanf` parses the first line and leaves what does not match as it was.
`Load` and `Store` are the two halves of `balance=balance+amount`. Ctrl-C
removes the semaphore, and the threads run on until `exit`.

### The small programs

*LedDriver*: `module` is the step of `etx_driver_init`, `held` and `requested`
what a failure has to undo, `lit` the pins, `call` the writes under way and
`gpio_on(0x00)` of the loading itself; `SetPin` is one `gpio_set_value`. `failed` and `vain`
are histories of one loading: what it tried in vain to register, and what its labels undid
without its being registered. A failure of `class_create` or `device_create` is an error
pointer, which the code does not notice: the loading goes on, to the end if the pins are
free. Without a class there is no device. `"oops"` is what no label undoes: the error
pointer of a failed class that `device_destroy` or `class_destroy` follows (whether it does
depends on the kernel, so both outcomes are possible), or code freed under a write, which
can happen because the device file appears before the pins are requested.

*TrainServer*: `open[p]` is the set of descriptors of a process, a descriptor being
what it refers to; `sigchld` and `sigint` are pending signals, one of each kind.

*Delivery*: `courier` is where `main` is, `st` the `OrderState`, `customer[c]` the
other end, with the command under way and what he was shown. `Answer` is
`send_msg` with its three ends: read, lost in a closed connection, fatal on a reset one.
`left` marks who went although something was still due to him.
`placed` is a history for `OwnOrder`; no guard and no other variable depends on it.

*DeliveryMenu*: `stdin` holds what was typed and not read; `Scanf`, `ScanfFails` and
`PressEnter` differ in what they leave there. `amount`, `pow10` and `digits` are the
loop of `seg_display`, and `digits` what it has written.

*TowelWindow*: `samples` is the array, `heard` the history of all results. `Compacted` is
the loop that moves what it keeps to the front, `Recent` what it should have kept.

`MCPrograms` puts these five and `GymLines` into one instance: a behaviour picks a
program and runs it alone. They share nothing; one run is enough for all.

## 3. What TLC checks

Passing runs:

| run | instance | shows |
| :-- | :-- | :-- |
| `GymServerQueue` | 2 users, 1 machine, queue of 2, an event in every call with at most one task pending behind it | `NoIdleQueue`, `SomebodyAwaited`: no handler forgets a handover when an event strikes inside its call; `NoOvertaking`: queues are served in order; `PromptAlone`: "once more?" is never asked over somebody's head |
| `GymServerTwo` | 1 user, 2 machines, events as above | check-ins that cancel each other: `QuickOnlyWaiting` |
| `GymDevice` | 1 driver, 2 users, fair | `SomebodyReported` under any commands between the lock sections; `StopHeeded`, `UsageOver` |
| `GymSystemFair` | 2 users logged in, 1 machine | `LockReleased`: nested handlers end; `WaitEnds`: no check-in is awaited for ever, even if the event that ends it is lost; `UseEnds`, `QueueMoves`: if cards are taken away, uses end and queues move |
| `GymSystemLeave` | 2 users, 1 slot, 1 machine, with disconnections | `LeftBehind`: what a late event gives to somebody who has left is freed; `TypeOK` of both programs while they talk |
| `GymConnections` | 3 peers, 2 slots, SIGINT | `OwnSlot`, `NoSlotLost`: no thread uses another's slot, none is lost; `Freed`: who quits does not keep one; `Stops`: the server ends after SIGINT |
| `GymClient` | 1 user, 2 machines | `TypedHere`: a line never acts in another menu than the one it was typed for; `PromptShown`: every question reaches the screen |
| `GuessGame` | 1..20, every number | `AnswerFits`, `Implements` (refinement of `BinarySearch`), `Found` |
| `WebAtm` | a depositor and a withdrawer, 2 lines each | `NoLostUpdate`, `AllServed` |
| `Programs` | see the constants in `Programs.cfg` and `MCPrograms` | lines: `NothingDropped`, `InOrder` (refinement of `LineChannel`), `AllHandled`; lab3: `LoadingUndone`, `AloneIsShown`; lab4: `Reaped`, `Disconnected`; HW2: `OwnOrder`, `PaysWhatWasShown`, `EndedByLeaving`, `TurnComes`; HW1: `DigitsSpellTotal`; towel: `WindowExact`, `SaidAtOnce`; `TypeOK` of lab3, lab4, HW1, HW2 |

The types of `GymServer`, `GymDevice`, `GymConnections` and `GymClient`, and the invariants
the proofs need (section 4), are proved and not checked again by themselves.

Runs that TLC refutes, each a sentence of the documents that the code does not
keep (`PROJECT.json` quotes it):

| run | what happens |
| :-- | :-- |
| `GymSystemCheckinIsTold` | a check-in found by polling is not announced: `CHECKIN_OK` goes to the emptied id, and the driver gets `USAGE` for a user id; only a USER_CHECKEDIN that the driver still has queued can announce it later |
| `WebAtmLines` | two lines in one read are booked once |

Seen while modelling, without a run:

* "RESERVE_OK FIRST" or "YOUR_TURN" is sent although an event handled inside the
  driver call has taken the turn away again (`server.c:845`);
* a user who misses the quick check-in drops out of the queue instead of going to its
  end: `handle_quick_checkin_timeout` empties the id it was handed
  (`server.c:766`; `integration/README.md:121` says 被移至隊伍末端);
* the reset behind a stop wipes out a start that arrived since the decision and was
  acknowledged (`device_main.py:287`); the server recovers by its own deadline,
  which is part of what `WaitEnds` shows;
* a ban is a field of the client slot and ends when the user reconnects
  (`server.c:1171`, 1302);
* when the continue question expires, CONTINUE_NO goes to the emptied id
  (`server.c:746`), so the client keeps the question open, and its next 0 or 1 is
  sent as an answer instead of meaning a menu entry;
* a card left lying freezes the driver's count in the loop of a stop
  (`device_main.py:268-281`), and the server, which takes over that count
  (`server.c:783-785`), keeps the machine in use: this is why `UseEnds` assumes
  that cards are taken away;
* after the loop at the end of a use the driver reports whoever is current by
  then (`device_main.py:425-450`), which may be a user just started;
* a card compared against one user may be recorded for another who was started in
  between (`device_main.py:357-379`), which is also how the word `USAGE` can become
  `use_user`;
* a user may queue for the machine that he is using;
* a check-in window of one second is missed at once, as the driver truncates the
  rest to 0;
* the command `continue <equip_id> <0 or 1>` of the client cannot work: the first
  token of its line is the word `continue` itself (`client.c:130`, 133);
* the lines that end a question name a machine, but the client does not read it: with
  two questions open, the end of one closes the other on the screen
  (`client.c:259-263`);
* `hw2.c` serves one customer at a time, while `HW2.html:67-71` asks for replies to all
  that are connected and for two couriers; and a customer who leaves early can end
  the server for all (`EndedByLeaving` says that nothing else does);
* `Towel_client.c` says "> 2/3" in lines 2 and 73 and compares with `>=` in line 153:
  `SaidAtOnce` therefore asks for HasTowel above two thirds, excludes it below, and leaves
  exactly two thirds open (the model does what the code does);
* lab3: `class_create` and `device_create` never return NULL (155, 160), so that a module
  may load without its file, or hand an error pointer to `device_destroy`; the labels also
  undo the step that failed (142-144 goes to 202, 150-152 to 200), which `LoadingUndone`
  allows; and a write of more than 31 bytes reports all of them as written (133).

**Bounds.** Windows are 0 to 3 seconds: a deadline is compared with "now" only,
so what matters is whether it is ahead, now or past, and for the two clocks of
`GymSystem` which runs out first. `GymServer` has no clock to agree with, so its
runs use 0 and 1. One machine is enough where machines do not interact; they do
in `mark_user_checked_in`, `cleanup_client` and the quick window, for which
`GymServerTwo` has two. Two users fill a queue of two while a third party uses the
machine: a user may queue for the machine he is using, and `Keyword`, the word USAGE, can
be its user. `MAX_NEST = 2` lets events strike the polls, QUERY_EQUIP, the start of a
use, the start of RESERVE and of CONTINUE_RESPONSE, that of `give_turn_to_next` where
nothing follows, and the stop of CANCEL, of a use that a poll ends, and of a ban, quick
timeout or release that an event in a lone call brought. It leaves out events in calls with
more behind them: the stop of a ban or quick timeout found by a poll, the start after
CANCEL has given the turn on, the calls of `cleanup_client`, and further depth. A third user or
another level is beyond five minutes. `GymSystemFair` and `GymSystemLeave` nest without a bound,
with the real driver, and the theorems cover any depth with any driver. `Periods` of `GymDevice`
are 1 to 3, so that a count can end before, with and after a `lag`.
`MAX_MOVES = 1` is one action of a person per second. `MAX_LAG` is the longest
window. Users are interchangeable, hence the symmetry, which is used for safety only.
In `WebAtm` two lines per client are the fewest that can coalesce.
`GymConnections` has one peer more than slots, so that the table is full, a peer is
refused, and a slot is used twice. `GymClient` has two machines and two lines
under way: two questions can be open, and one can end while the other is
unread. In `Programs` the buffers are as small as their assumption allows, with a
stream of several buffers; two writers, one of them with a refused character, find
a third caller in the loading; three trains are enough for two to end together while a
third starts; two customers for one who is served and one who waits, or who comes after
one who has left; orders include an unknown meal, a second shop and a negative
amount; seven lines reach totals of one to three digits with zeros in them; the towel
window can hold more results than the array, and fewer.

**Fairness.** Weak fairness of the threads and of the clock: mutexes and schedulers
let a runnable thread run. `GymDevice` needs strong fairness of the loop, which
must notice a card's absence: it polls every 50 ms and a card is gone for
longer. That cards are taken away is fairness of people and not of the
code: it is no part of a specification of `GymSystem` but the left-hand side of
`UseEnds`, `QueueMoves` and `LeftBehind`. `Found` assumes that
the game is not killed, so a signal before its handler is installed is excluded there. `WebAtm` needs only weak fairness at the semaphore, as
clients send finitely often. `GymConnections` has strong fairness of the threads that
wait for `g_lock`: the timer sleeps a second between two sections and a
client's thread stops for input, so that nobody is passed over for ever; peers,
the terminal and what holders of the lock send have none. `GymClient` has weak fairness of
the client's loop only. `TrainServer`: signals are delivered, processes go on,
`sl` ends. `Delivery`: the server goes on and customers leave in the end, without
which the one at hand keeps all others waiting. `GymLines`: the thread reads what is
there.

Deadlock is not checked for `GuessGame`, `WebAtm`, `GymConnections`, `GymClient` and
`Programs`, whose programs end.

## 4. What is proved

For every number of users, machines, clients, slots, lines, writers, customers, orders
and amounts, every size of buffers, every window and any depth of nesting:

**The server** (`GymServerProofs`)

* `TypeCorrect`: `TypeOK`, with one lemma per handler.
* `NobodyStuck`: `Spec => []NeverStuck`. `NoIdleQueue`, `SomebodyAwaited` and `PromptAlone`
  are not inductive: a handler leaves the record in a forbidden shape before its
  driver call and repairs it afterwards, and the event handled in between
  works on the same record. `Stuck(e)` is the four forbidden shapes at once
  (idle with a queue, waiting for nobody, a quick window without a wait, a question
  over a queue); `NeverStuck` says that a stuck machine is owed a task that hands it
  on, and that the task on top does so itself. Each step either leaves `Stuck`
  as it is and takes no such task away, or pushes one.
* `SomebodyAsked`: `Spec => []PromptInv`. `banStopped` empties `continue_user` without a
  look at the state. That this never takes the user out of an open question rests on
  the order of the agenda: the tasks that put a question come from the polls of
  `update_equipment_state`, and none of these is ever pending above a `banStopped`.
* `IdleQueueEmpty`, `WaitHasUser`, `QuickWaits`, `PromptIsAlone`: four properties of the
  runs, as consequences.
* `NobodyOvertakes`: `NoOvertaking`, from `NeverStuck`. Whoever writes `wait_user` while
  somebody queues either empties it or takes the head of the queue: RESERVE finds the
  machine not idle, and CONTINUE_RESPONSE finds no open question.

**The drivers** (`GymDeviceProofs`)

* `TypeCorrect`, and `ReportsSomebody`: a machine that counts, and a loop that has decided
  to report, has a user. Commands only ever put somebody in his place; the
  sections that remove him are those that end the iteration.

**The two together** (`GymSystemProofs`)

* `ImplementsServer` (`Spec => Server!Spec`) and `ImplementsDrivers` (`Spec => Device!Spec`). The
  invariant `SystemInv` is the types of the server together with what is proved of the
  drivers: the first says that every command is one that `parse_command` takes, the
  second that every reply and event names somebody, as the server's types ask. So a
  driver call is at once an answer of any driver and a command of any server.
* `ServerPromises`, `NobodyOvertakes`, `DriversReport`: what was proved of each part holds of
  the system. `SystemTyped`: `TypeOK`, which `GymSystemLeave` checks.

**Connections and lines** (`GymConnectionsProofs`, `ProgramsProofs`)

* `TypeCorrect`, `SlotsAreOwned`, `SlotsAreKept`: needed together, and with them that
  connections in the backlog are new to the table: a slot that is taken belongs to one living
  thread, its own, so clearing it disturbs nobody, and accept only fills free ones.
* `NothingIsDropped`, `LinesInOrder` (`GymLines`): `inbuf` is the interval of bytes between the
  last line and what `recv` took. Between two reads it holds no newline and hence, as the
  peer ends lines in time, fewer than `MAX_LINE` bytes: what comes next fits. With
  that the first newline in `inbuf` is the next in the stream, so `HandleLine`
  is `Deliver`, and all else of the thread stutters.

**The client** (`GymClientProofs`)

* `TypeCorrect`, and `LinesActWhereTyped`: a line typed at another menu than the current one can
  only be pending while the client waits for Enter (`SawOrAck`), where every line but
  an answer brings back the main menu.

**Labs and homework** (`GuessGameProofs`, `WebAtmProofs`, `ProgramsProofs`)

* `AnswersFit`, `ImplementsSearch` (lab6): the invariant `Handshake` says
  that from signal to answer exactly one of "signal pending", "comparing",
  "first byte not written" holds, and that the first byte, once there, is
  right. With it every `Poll` is a step of the search and all else stutters.
  `NeverCutOff` and `HalvesEachTime` are proved of the search and hold, by that refinement,
  of the two processes.
* `AtmTypes`, `NothingLost` (lab5): at most one thread is between P and V,
  and then the semaphore is 0.
* `LoadingIsUndone` (lab3): `HeldInv` gives for each step of the loading what it holds, what
  has failed, and that nothing was undone before the loading ended.
  `UndisturbedIsShown`: a call that nobody else overlapped is the only one there is, also
  while the loading writes, and what `gpio_on` has set so far agrees with its character.
* `OnlyLeavingEnds`, `BillIsForWhatWasShown` (HW2). `Turns`: a customer is in the queue once, and
  not while he is at hand. `FailsByLeaving`: only who left without waiting has a connection
  that fails, or that an answer will break. `Bills`: the total is the price of the quantities,
  and the customer was shown those that are positive; a quantity below zero can only
  make the bill less.
* `OrderIsHisOwn` (HW2): `placed`, the history, keeps the first meal of the customer at hand and
  how much he asked for of each. `HisOrder`: the quantities are those of the first
  meal's shop, and nothing was asked for before the shop was settled.
* `DisplaySpellsTotal` (HW1): `pow10` is a power of ten up to the total (`Scaling`); the digits
  shown so far spell the total divided by ten times `pow10` (`Spelling10`). What digits
  spell is a fold, a recursive function on the sets of their places; `SpellsExists`,
  `SpellsAgree` and `SpellingGrows` unfold it, by an induction on naturals whose
  hypothesis is a set (`NatsByInduction`, from the library's `WFMin`), and `Powers`
  defines the powers of ten as the least set that holds 1 and ten times each member.
* `WindowIsExact`, `TowelIsSaidAtOnce` (towel; the latter from the exact comparison of line 153): results come in the order of their times, so what
  is young enough is always the end of `heard`: what the loop keeps is the end of what it
  had (`KeptIsEnd`), and dropping the oldest from a full array and adding the new result
  is again the end (`OneMore`).
* `ProgramTypes`: the types of lab3, lab4, HW1 and HW2. For HW1 that needs an argument:
  C rounds the digits of a negative total towards zero, and `seg_map` would be read below
  its start, were not every price, and so every total, a multiple of ten, of which only
  the last digit is shown (`MenuInv`).

The theorems about the small programs are about each program by itself
(`LedSpec`, `DeliverySpec`, ...); `EachProgram` says that the behaviours of `MCPrograms`
are behaviours of each of them, so they hold in that run as well.

The proofs use the named ASSUMEs of the modules only: the constants are numbers
of the right sign, the ids used as markers are not users, and lab3's
texts are sequences of the characters that the model tells apart.

Only model-checked: liveness (`AllHandled`, `Freed`, `Stops`, `PromptShown`, `Found`,
`AllServed`, ...), which is out of the prover's reach. Every safety invariant and action
property of a passing run is stated by a theorem.

## 5. Not modelled

* `device_main_buzzer.py`: a second `GymDevice` would repeat the first.
* The card reader's debounce of 0.8 s, LED and display of the driver; cards
  that are bound to nobody.
* Drivers that hang while `g_lock` is held: `recv` has no time limit, so the server
  then stops for good. `LockReleased` is about drivers that answer.
* Lines of the gym beyond the buffer, and integers that overflow (a balance, an amount).
* The exits of lab5's `main` that leave the semaphore behind.
* The Python side of the towel detector, which is image recognition, and the
  terminals, GPIO expanders and kernels behind the programs, which are
  external.
* Earlier stages of the gym and its test programs (see section 1).

What could be added: an abstract reservation desk that `GymServer` implements; a driver
whose connection is lost in `GymSystem`.
