---------------------------- MODULE StationPins ----------------------------
(***************************************************************************)
(* The LEDs and output pins of the station: files under /sys that several  *)
(* threads write without a lock, one popen at a time.  They outlive the    *)
(* process, which starts again after an exit.                              *)
(*                                                                         *)
(* The internet LED shows the connection (OnCloudConnect), a message under *)
(* way (CloudProtocol) and the verdict of a test (gpioProtocol).  What a   *)
(* thread has left to write is a sequence of assignments.                  *)
(***************************************************************************)
EXTENDS Integers, Sequences

CONSTANTS
  Handlers,     \* detached MQTT threads and the thread the button interrupts
  MaxHandled,   \* bound: handlers begun
  MaxTests,     \* bound: tests
  MaxExits      \* bound: exits of the process

\* what the parameters have to be
StationPinsAssumption ==
  /\ "main" \notin Handlers /\ "test" \notin Handlers
  /\ MaxHandled \in Nat /\ MaxTests \in Nat /\ MaxExits \in Nat

Threads == Handlers \cup {"main", "test"}

\* brightness of the LEDs, value of gpio 17, 14 and 1
Files == {"internet", "service", "ble1", "ble2", "success", "power", "dongle"}

\* what the process keeps in memory
Variables == {"ledInternet", "check_connect_cloud"}

Places == Files \cup Variables

VARIABLES
  value,    \* what each place holds
  todo,     \* what each thread has left to write
  running,  \* main has come to its loop
  test,     \* the test thread: "none", "test", "pulse", "verdict" or "rest"
  passed,   \* the verdict of the last test
  since,    \* history: a handler wrote the internet LED after the verdict
  heard,    \* history: a connection event was handled in this process
  crossed,  \* history: handlers that leave different values overlapped
  handled, tests, exits

vars == <<value, todo, running, test, passed, since, heard, crossed, handled,
          tests, exits>>

Set(place, v) == <<place, v>>
-----------------------------------------------------------------------------
(* The handlers, as what they write.                                       *)

LedInternet(v) == <<Set("ledInternet", v), Set("internet", v)>>

\* !stt
set_led_warning(stt) == <<Set("service", ~stt)>>

OnCloudConnect(isConnected) ==
  <<Set("check_connect_cloud", isConnected)>> \o LedInternet(isConnected)
    \o set_led_warning(~isConnected)

\* A plausible bug: a handler that returns early leaves the LED off.
MessageEarly == LedInternet(FALSE)

\* CloudProtocol: off while a message is handled
Message == LedInternet(FALSE) \o LedInternet(TRUE)

LedRestoreLastValue == LedInternet(value["ledInternet"])

reset_led_in_proc == <<Set("internet", TRUE), Set("success", FALSE)>>
set_led_success == <<Set("internet", TRUE), Set("success", TRUE)>>

set_led_fail == <<Set("internet", FALSE), Set("success", FALSE)>>

gpio_supply_power_k9b ==
  <<Set("power", TRUE), Set("ble1", TRUE), Set("ble2", FALSE), Set("ble2", TRUE),
    Set("ble1", FALSE), Set("ble1", TRUE), Set("power", FALSE)>>

RestartBleGw == <<Set("dongle", FALSE), Set("dongle", TRUE)>>

\* The direction "out" makes a pin low; the inputs are of no interest here.
gpio_init ==
  <<Set("success", FALSE), Set("power", FALSE), Set("dongle", FALSE),
    Set("dongle", TRUE)>>

\* main, up to the creation of the gateway
Start == LedInternet(FALSE) \o gpio_init
-----------------------------------------------------------------------------
Init ==
  /\ \E f \in [{"internet", "service", "power"} -> BOOLEAN] :
       value = [p \in Places |-> IF p \in DOMAIN f THEN f[p] ELSE FALSE]
  /\ todo = [t \in Threads |-> IF t = "main" THEN Start ELSE <<>>]
  /\ running = FALSE
  /\ test = "none"
  /\ passed = TRUE
  /\ since = FALSE /\ heard = FALSE /\ crossed = FALSE
  /\ handled = 0 /\ tests = 0 /\ exits = 0

Idle == \A t \in Handlers : todo[t] = <<>>

\* what a handler leaves in the internet LED
Leaves(program) == program[Len(program)][2]

\* the next assignment of a thread
Step(t) ==
  /\ todo[t] # <<>>
  /\ LET p == Head(todo[t])[1]
         v == Head(todo[t])[2]
     IN  /\ value' = [value EXCEPT ![p] = v]
         /\ since' = IF p = "internet" THEN t \in Handlers ELSE since
  /\ todo' = [todo EXCEPT ![t] = Tail(@)]
  /\ UNCHANGED <<running, test, passed, heard, crossed, handled, tests, exits>>

Begin(t, program) == todo[t] = <<>> /\ todo' = [todo EXCEPT ![t] = program]

\* a message, a connection event or the button's release
Handle(t, program, isEvent) ==
  /\ running
  /\ handled < MaxHandled
  /\ Begin(t, program)
  /\ handled' = handled + 1
  /\ heard' = (heard \/ isEvent)
  /\ crossed' = IF isEvent /\ Idle THEN FALSE
                ELSE crossed \/ \E o \in Handlers :
                       todo[o] # <<>> /\ Leaves(todo[o]) # Leaves(program)
  /\ UNCHANGED <<value, running, test, passed, since, tests, exits>>

Connect(t) == \E c \in BOOLEAN : Handle(t, OnCloudConnect(c), TRUE)
Receive(t) == Handle(t, Message, FALSE)
Restore(t) == Handle(t, LedRestoreLastValue, FALSE)

\* Gateway::init starts the threads
Run ==
  /\ ~running /\ todo["main"] = <<>>
  /\ running' = TRUE
  /\ UNCHANGED <<value, todo, test, passed, since, heard, crossed, handled, tests,
                 exits>>

\* The test thread: start_process, the pulse that lets the remote control
\* learn, if the test gets there, the verdict, RestartBleGw.
Test(from, to, program) ==
  /\ running
  /\ test = from
  /\ test' = to
  /\ Begin("test", program)
  /\ UNCHANGED <<value, running, since, heard, crossed, handled, exits>>

StartProcess ==
  /\ value["check_connect_cloud"]
  /\ tests < MaxTests
  /\ tests' = tests + 1
  /\ Test("none", "test", reset_led_in_proc)
  /\ UNCHANGED passed

Pulse == Test("test", "pulse", gpio_supply_power_k9b) /\ UNCHANGED <<passed, tests>>

Verdict ==
  /\ passed' \in BOOLEAN
  /\ \E from \in {"test", "pulse"} :
       Test(from, "verdict", IF passed' THEN set_led_success ELSE set_led_fail)
  /\ UNCHANGED tests

Restart == Test("verdict", "rest", RestartBleGw) /\ UNCHANGED <<passed, tests>>

EndTest == Test("rest", "none", <<>>) /\ UNCHANGED <<passed, tests>>

\* exit, at any moment, and a new process
Exit ==
  /\ exits < MaxExits
  /\ exits' = exits + 1
  /\ value' = [p \in Places |-> IF p \in Variables THEN FALSE ELSE value[p]]
  /\ todo' = [t \in Threads |-> IF t = "main" THEN Start ELSE <<>>]
  /\ running' = FALSE
  /\ test' = "none"
  /\ passed' = TRUE
  /\ since' = FALSE /\ heard' = FALSE /\ crossed' = FALSE
  /\ UNCHANGED <<handled, tests>>

Next ==
  \/ \E t \in Threads : Step(t)
  \/ \E t \in Handlers : Connect(t)
  \/ \E t \in Handlers : Receive(t)
  \/ \E t \in Handlers : Restore(t)
  \/ Run
  \/ StartProcess \/ Pulse \/ Verdict \/ Restart \/ EndTest
  \/ Exit

Spec == Init /\ [][Next]_vars
-----------------------------------------------------------------------------
TypeOK ==
  /\ value \in [Places -> BOOLEAN]
  /\ todo \in [Threads -> Seq(Places \X BOOLEAN)]
  /\ \A t \in Threads : Len(todo[t]) <= 7
  /\ test \in {"none", "test", "pulse", "verdict", "rest"}
  /\ running \in BOOLEAN /\ passed \in BOOLEAN
  /\ since \in BOOLEAN /\ heard \in BOOLEAN /\ crossed \in BOOLEAN
  /\ handled \in 0 .. MaxHandled /\ tests \in 0 .. MaxTests /\ exits \in 0 .. MaxExits

\* A dark internet LED of a connected station means that the product failed:
\* no order of messages, events and tests puts it out otherwise, unless two
\* handlers that leave different values overlapped (Gateway.cpp:90-116,
\* Util.cpp:333-346, 413-419).
DarkMeansFail ==
  (running /\ Idle /\ ~crossed /\ value["check_connect_cloud"] /\ ~value["internet"])
    => ~passed

\* While the tester looks at the verdict, both LEDs show it, and the internet
\* LED goes on showing it until a message, a connection event or the button
\* overwrites it (gpioProtocol.cpp:225-249 against CloudProtocol.cpp:95-161).
VerdictShown ==
  (test = "rest" \/ (test = "verdict" /\ todo["test"] = <<>>)) =>
    /\ value["success"] = passed
    /\ since \/ value["internet"] = passed

\* The service LED shows the flag the tests wait for, once the process has
\* heard of a connection; before, it shows what the last process left there
\* (gpioProtocol.cpp:251-259, Gateway.cpp:96-110).
WarningTellsTheFlag ==
  (Idle /\ heard /\ ~crossed) => value["service"] = value["check_connect_cloud"]

\* Once main runs, also after an exit in the middle of a pulse or a restart of
\* the dongle, the remote control has power only during the pulse and the
\* dongle is held in reset only during its restart (gpioProtocol.cpp:172-223,
\* Gateway.cpp:141-161).
PinsAtRest ==
  (running /\ todo["test"] = <<>>) => ~value["power"] /\ value["dongle"]
-----------------------------------------------------------------------------
(* The inductive invariant.                                                *)

\* what may be left of a program
Rests(program) == {SubSeq(program, i, Len(program)) : i \in 1 .. Len(program) + 1}

HandlerPrograms ==
  {Message} \cup {OnCloudConnect(c) : c \in BOOLEAN} \cup {LedInternet(v) : v \in BOOLEAN}

TestProgram ==
  CASE test = "none" -> <<>>
    [] test = "test" -> reset_led_in_proc
    [] test = "pulse" -> gpio_supply_power_k9b
    [] test = "verdict" -> IF passed THEN set_led_success ELSE set_led_fail
    [] test = "rest" -> RestartBleGw

ProgramInv ==
  /\ todo["main"] \in Rests(Start) /\ todo["test"] \in Rests(TestProgram)
  /\ \A t \in Handlers : \E p \in HandlerPrograms : todo[t] \in Rests(p)

\* nothing runs before main has come to its loop
ProcessInv ==
  IF running THEN todo["main"] = <<>>
  ELSE /\ Idle /\ test = "none" /\ ~value["check_connect_cloud"]
       /\ ~heard /\ ~crossed

\* the assignments to come
Coming(t) == {todo[t][i] : i \in 1 .. Len(todo[t])}
Comes(place, v) == \E t \in Handlers : Set(place, v) \in Coming(t)

\* handlers that did not cross leave the same value
AgreeInv ==
  ~crossed => \A t, o \in Handlers :
                (todo[t] # <<>> /\ todo[o] # <<>>) => Leaves(todo[t]) = Leaves(todo[o])

\* the flag is or comes to be false
Offline == ~value["check_connect_cloud"] \/ Comes("check_connect_cloud", FALSE)

OfflineInv ==
  (running /\ ~crossed) =>
    /\ \A t \in Handlers : (todo[t] # <<>> /\ ~Leaves(todo[t])) => Offline
    /\ Offline \/ value["ledInternet"] \/ Comes("ledInternet", TRUE)

\* a verdict has put out the internet LED, and no test has put it on again
Failed == /\ ~passed
          /\ test \notin {"test", "pulse"} \/ Set("internet", TRUE) \in Coming("test")

DarkInv ==
  (running /\ ~crossed) =>
    Offline \/ value["internet"] \/ Comes("internet", TRUE) \/ Failed

VerdictInv ==
  /\ ((test = "verdict" /\ Len(todo["test"]) < 2) \/ test = "rest") =>
       since \/ (value["internet"] <=> passed)
  /\ ((test = "verdict" /\ todo["test"] = <<>>) \/ test = "rest") =>
       (value["success"] <=> passed)

WarningInv ==
  ~crossed =>
    /\ \A c \in BOOLEAN : Comes("service", c) =>
         (value["check_connect_cloud"] <=> c) \/ Comes("check_connect_cloud", c)
    /\ heard => \/ value["service"] <=> value["check_connect_cloud"]
                \/ \E c \in BOOLEAN : Comes("service", c)

PinInv ==
  LET comes == Coming("main") \cup Coming("test")
  IN  /\ ~value["power"] \/ Set("power", FALSE) \in comes
      /\ value["dongle"] \/ Set("dongle", TRUE) \in comes

\* What makes the properties above inductive: whatever is wrong now, a thread
\* has an assignment left that puts it right.
IInv ==
  /\ TypeOK /\ ProgramInv /\ ProcessInv /\ AgreeInv
  /\ OfflineInv /\ DarkInv /\ VerdictInv /\ WarningInv /\ PinInv
=============================================================================
