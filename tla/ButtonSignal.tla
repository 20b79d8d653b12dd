---------------------------- MODULE ButtonSignal ----------------------------
(***************************************************************************)
(* The button (ButtonSignal.cpp) and the start of the program (main.cpp).  *)
(* The button reaches the program as SIGUSR1 (pressed) and SIGUSR2         *)
(* (released), and OnPress and OnRelease run inside the signal handler: on *)
(* top of whatever the main thread was doing, or of another thread while   *)
(* the main thread is handling the same signal already.  A signal blocks   *)
(* itself, not the other one, and is not queued.  When both are pending,   *)
(* the frame of the second is put on top of the first's and runs first.    *)
(*                                                                         *)
(* OnRelease resets the BLE module or, after a long hold, the whole        *)
(* station; both send commands under mtxWaitSendUart, which is not         *)
(* recursive.  The test thread sends commands under it too.                *)
(*                                                                         *)
(* The bounds of the hold (0.4 s, 1 to 5 s, 6 to 9 s, ...) are constants;  *)
(* handlers begin within the unit of time in which their signal came.      *)
(* startProcess is always true.                                            *)
(***************************************************************************)
EXTENDS Integers, Sequences, FiniteSets

CONSTANTS
  DOUBLE_CLICK_TIME,     \* shorter holds are clicks
  Hold,                  \* the bounds of the holds that do something
  Never,                 \* the time 0 of a press or release that never was
  MaxTime, MaxPresses    \* bounds

Acts == {"ResetBle", "SetModeApWifi", "setDormitory", "ResetFactory"}

\* what the parameters have to be
ButtonSignalAssumption ==
  /\ DOUBLE_CLICK_TIME \in Nat /\ MaxTime \in Nat /\ MaxPresses \in Nat
  /\ Hold \in [Acts -> [from : Nat, to : Nat]]
  /\ \A a \in Acts : Hold[a].from < Hold[a].to /\ DOUBLE_CLICK_TIME <= Hold[a].from
  /\ Never \in Int /\ \A a \in Acts : Hold[a].to < -Never

VARIABLES
  now, down, pressedAt, held, presses,   \* the user and the button
  pending,        \* signals that have come and run nowhere yet
  base,           \* where each thread stands outside of its handlers
  stack,          \* the handlers running on each thread, the last on top
  mtxWaitSendUart,\* its owner
  pressTime, releaseTime, clickCount, isBlinkLed,    \* ButtonSignal
  dormitory,      \* the station belongs to a dormitory
  ended,          \* "no", "exit" or "crash"
  done,           \* history: what releases did
  wrong,          \* history: one that did not fit how long the button was held
  inverted,       \* history: a release was handled before its press
  overlapped,     \* history: a click began before the last was handled
  early           \* history: a signal came during the start

vars == <<now, down, pressedAt, held, presses, pending, base, stack,
          mtxWaitSendUart, pressTime, releaseTime, clickCount, isBlinkLed,
          dormitory, ended, done, wrong, inverted, overlapped, early>>
user == <<now, down, pressedAt, held, presses>>
signal == <<pressTime, releaseTime, clickCount, isBlinkLed>>
races == <<inverted, overlapped, early>>
effects == <<dormitory, ended, done, wrong>>

Threads == {"main", "test"}
Free == "free"

Init ==
  /\ now = 0 /\ down = FALSE /\ pressedAt = 0 /\ held = 0 /\ presses = 0
  /\ pending = {}
  /\ base = [t \in Threads |-> IF t = "main" THEN "config" ELSE "unborn"]
  /\ stack = [t \in Threads |-> <<>>]
  /\ mtxWaitSendUart = Free
  /\ pressTime = Never /\ releaseTime = Never
  /\ clickCount = 0 /\ isBlinkLed \in BOOLEAN
  /\ dormitory = TRUE
  /\ ended = "no" /\ done = {}
  /\ wrong = FALSE /\ inverted = FALSE /\ overlapped = FALSE /\ early = FALSE

Frames(t) == {stack[t][i] : i \in 1 .. Len(stack[t])}
Running == Frames("main") \cup Frames("test")
Handles(t, sig) == \E f \in Frames(t) : f.sig = sig
-----------------------------------------------------------------------------
(* The user and the kernel.                                                *)

\* every signal is being handled, and has read the clock
Prompt ==
  /\ pending = {}
  /\ \A f \in Running : f.at \notin {"dark", "read"}

Tick ==
  /\ now < MaxTime
  /\ Prompt
  /\ now' = now + 1
  /\ UNCHANGED <<down, pressedAt, held, presses, pending, base, stack,
                 mtxWaitSendUart, signal, effects, races>>

Press ==
  /\ ~down
  /\ presses < MaxPresses
  /\ down' = TRUE /\ presses' = presses + 1 /\ pressedAt' = now
  /\ pending' = pending \cup {"SIGUSR1"}
  /\ overlapped' = (overlapped \/ Running # {} \/ pending # {})
  /\ early' = (early \/ base["main"] # "loop")
  /\ UNCHANGED <<now, held, base, stack, mtxWaitSendUart, signal, effects, inverted>>

Release ==
  /\ down
  /\ down' = FALSE
  /\ held' = now - pressedAt
  /\ pending' = pending \cup {"SIGUSR2"}
  /\ UNCHANGED <<now, pressedAt, presses, base, stack, mtxWaitSendUart, signal,
                 effects, races>>

\* the main thread takes a signal unless it is handling it, another one else
Target(sig) ==
  IF ~Handles("main", sig) THEN {"main"}
  ELSE {t \in {"test"} : base[t] # "unborn" /\ ~Handles(t, sig)}

signal_handler(sig) ==
  /\ sig \in pending
  /\ \E t \in Target(sig) :
       stack' = [stack EXCEPT ![t] =
         Append(@, [sig |-> sig, at |-> IF sig = "SIGUSR1" THEN "read" ELSE "dark"])]
  /\ pending' = pending \ {sig}
  /\ UNCHANGED <<user, base, mtxWaitSendUart, signal, effects, races>>
-----------------------------------------------------------------------------
(* The handlers, on the top of a thread's stack.                           *)

Top(t) == stack[t][Len(stack[t])]
At(t, at) == stack[t] # <<>> /\ Top(t).at = at
Moves(t, at) == stack' = [stack EXCEPT ![t][Len(stack[t])].at = at]
Pops(t) == stack' = [stack EXCEPT ![t] = SubSeq(@, 1, Len(@) - 1)]

\* OnPress: the time, and whether a series of clicks begins
OnPressRead(t) ==
  /\ At(t, "read") /\ Top(t).sig = "SIGUSR1"
  /\ pressTime' = now
  /\ clickCount' = IF now - releaseTime > DOUBLE_CLICK_TIME THEN 0 ELSE clickCount
  /\ Moves(t, "blink")
  /\ UNCHANGED <<user, pending, base, mtxWaitSendUart, releaseTime, isBlinkLed,
                 effects, races>>

\* isBlinkLed = true
OnPressBlink(t) ==
  /\ At(t, "blink")
  /\ isBlinkLed' = TRUE
  /\ Moves(t, "loop")
  /\ UNCHANGED <<user, pending, base, mtxWaitSendUart, pressTime, releaseTime,
                 clickCount, effects, races>>

\* while (isBlinkLed), then the LEDs are restored
OnPressEnd(t) ==
  /\ At(t, "loop")
  /\ ~isBlinkLed
  /\ Pops(t)
  /\ UNCHANGED <<user, pending, base, mtxWaitSendUart, signal, effects, races>>

\* OnRelease: isBlinkLed = false
OnReleaseDark(t) ==
  /\ At(t, "dark")
  /\ isBlinkLed' = FALSE
  /\ Moves(t, "read")
  /\ UNCHANGED <<user, pending, base, mtxWaitSendUart, pressTime, releaseTime,
                 clickCount, effects, races>>

PressUnread == \/ "SIGUSR1" \in pending
               \/ \E f \in Running : f.sig = "SIGUSR1" /\ f.at \in {"read", "blink"}

OnReleaseRead(t) ==
  /\ At(t, "read") /\ Top(t).sig = "SIGUSR2"
  /\ releaseTime' = now
  /\ inverted' = (inverted \/ PressUnread)
  /\ Moves(t, "act")
  /\ UNCHANGED <<user, pending, base, mtxWaitSendUart, pressTime, clickCount,
                 isBlinkLed, effects, overlapped, early>>

\* what a release after a hold of d does
ActOf(d) ==
  IF d < DOUBLE_CLICK_TIME THEN {}
  ELSE {a \in Acts : Hold[a].from < d /\ d < Hold[a].to}

Ble == base["main"] \notin {"config", "ble"}

Gateway == Ble /\ base["main"] \notin {"devices", "gateway"}

\* bleProtocol and gateway are null until main has made them; ResetFactory is
\* a method of Gateway, which looks at bleProtocol only
Null(a) ==
  \/ a = "ResetBle" /\ ~Ble
  \/ a = "setDormitory" /\ ~Gateway

\* ResetBle and ResetFactory go on to send a command
Sends(a) == a = "ResetBle" \/ (a = "ResetFactory" /\ Ble)

Exits(a) == a = "ResetFactory"

OnReleaseAct(t) ==
  LET d == releaseTime - pressTime
      acts == ActOf(d)
  IN  /\ At(t, "act")
      /\ clickCount' = IF d < DOUBLE_CLICK_TIME THEN clickCount + 1 ELSE clickCount
      /\ done' = done \cup acts
      /\ wrong' = (wrong \/ acts # {a \in Acts : Hold[a].from < held /\ held < Hold[a].to})
      /\ dormitory' = (dormitory /\ "setDormitory" \notin acts)
      /\ ended' = IF \E a \in acts : Null(a) THEN "crash"
                  ELSE IF \E a \in acts : Exits(a) /\ ~Sends(a) THEN "exit" ELSE "no"
      /\ IF \E a \in acts : Sends(a)
           THEN Moves(t, IF "ResetFactory" \in acts THEN "lockToExit" ELSE "lock")
           ELSE Pops(t)
      /\ UNCHANGED <<user, pending, base, mtxWaitSendUart, pressTime, releaseTime,
                     isBlinkLed, races>>

\* ResetBle, ResetDelAll: SendMessage under mtxWaitSendUart
OnReleaseLock(t) ==
  /\ At(t, "lock") \/ At(t, "lockToExit")
  /\ mtxWaitSendUart = Free
  /\ mtxWaitSendUart' = t
  /\ Moves(t, IF At(t, "lock") THEN "sending" ELSE "sendingToExit")
  /\ UNCHANGED <<user, pending, base, signal, effects, races>>

OnReleaseSent(t) ==
  /\ At(t, "sending") \/ At(t, "sendingToExit")
  /\ mtxWaitSendUart' = Free
  /\ ended' = IF At(t, "sendingToExit") THEN "exit" ELSE "no"
  /\ Pops(t)
  /\ UNCHANGED <<user, pending, base, signal, dormitory, done, wrong, races>>
-----------------------------------------------------------------------------
(* The threads outside of the handlers.                                    *)

Runs(t, at, next) ==
  /\ stack[t] = <<>>
  /\ base[t] = at
  /\ base' = [base EXCEPT ![t] = next]
  /\ UNCHANGED <<user, pending, stack, signal, effects, races>>

\* main reads the configuration, makes bleProtocol, the other devices and the
\* gateway
main ==
  /\ \/ Runs("main", "config", "ble")
     \/ Runs("main", "ble", "devices")
     \/ Runs("main", "devices", "gateway")
     \/ Runs("main", "gateway", "init")
     \/ Runs("main", "led", "loop")
  /\ UNCHANGED mtxWaitSendUart

\* Gateway::init starts the test thread
init ==
  /\ stack["main"] = <<>>
  /\ base["main"] = "init"
  /\ base' = [base EXCEPT !["main"] = "stopScan", !["test"] = "idle"]
  /\ UNCHANGED <<user, pending, stack, mtxWaitSendUart, signal, effects, races>>

\* a command: StopScan and ResetBle of main, any of the test's
Lock(t, at, next) ==
  /\ Runs(t, at, next)
  /\ mtxWaitSendUart = Free
  /\ mtxWaitSendUart' = t
Unlock(t, at, next) == Runs(t, at, next) /\ mtxWaitSendUart' = Free

\* A plausible bug: a command that nobody answers leaves without unlocking.
KeepLocked ==
  \/ Lock("main", "stopScan", "stopping")
  \/ Unlock("main", "stopping", "resetBle")
  \/ Lock("main", "resetBle", "resetting")
  \/ Runs("main", "resetting", "led") /\ UNCHANGED mtxWaitSendUart
  \/ Lock("test", "idle", "testing")
  \/ Unlock("test", "testing", "idle")

SendMessage ==
  \/ Lock("main", "stopScan", "stopping")
  \/ Unlock("main", "stopping", "resetBle")
  \/ Lock("main", "resetBle", "resetting")
  \/ Unlock("main", "resetting", "led")
  \/ Lock("test", "idle", "testing")
  \/ Unlock("test", "testing", "idle")

Next ==
  /\ ended = "no"
  /\ \/ Tick \/ Press \/ Release
     \/ \E sig \in {"SIGUSR1", "SIGUSR2"} : signal_handler(sig)
     \/ \E t \in Threads : OnPressRead(t)
     \/ \E t \in Threads : OnPressBlink(t)
     \/ \E t \in Threads : OnPressEnd(t)
     \/ \E t \in Threads : OnReleaseDark(t)
     \/ \E t \in Threads : OnReleaseRead(t)
     \/ \E t \in Threads : OnReleaseAct(t)
     \/ \E t \in Threads : OnReleaseLock(t)
     \/ \E t \in Threads : OnReleaseSent(t)
     \/ main \/ init \/ SendMessage

Spec == Init /\ [][Next]_vars
-----------------------------------------------------------------------------
TypeOK ==
  /\ now \in 0 .. MaxTime /\ presses \in 0 .. MaxPresses /\ down \in BOOLEAN
  /\ pending \subseteq {"SIGUSR1", "SIGUSR2"}
  /\ \A t \in Threads : Len(stack[t]) <= 2
  /\ mtxWaitSendUart \in Threads \cup {Free}
  /\ clickCount \in 0 .. MaxPresses
  /\ ended \in {"no", "exit", "crash"}
  /\ done \subseteq Acts

\* a thread waits for the mutex that it holds itself, below the handler
Stuck(t) == (At(t, "lock") \/ At(t, "lockToExit")) /\ mtxWaitSendUart = t

\* The handler locks a thread against itself only when the button was used
\* during the start, for main, or again before main had dealt with the last
\* click, for the test (ButtonSignal.cpp:66, main.cpp:94-95).
StuckNeedsARace == (Stuck("main") => early) /\ (Stuck("test") => overlapped)

\* After the start no release meets an object that is not there
\* (ButtonSignal.cpp:66, 76; main.cpp:57-90).
CrashIsEarly == ended = "crash" => early

\* What a release does fits the time the button was held, unless the handlers
\* of a quick click ran in the wrong order or two clicks overlapped: then a
\* click can count from an older press, and reset the station
\* (ButtonSignal.cpp:51-81).
ReleaseFitsHold == wrong => inverted \/ overlapped
-----------------------------------------------------------------------------
(* The inductive invariant.                                                *)

Signals == {"SIGUSR1", "SIGUSR2"}
Presses == {"read", "blink", "loop"}
Releases == {"dark", "read", "act", "lock", "lockToExit", "sending", "sendingToExit"}
Frame == [sig : {"SIGUSR1"}, at : Presses] \cup [sig : {"SIGUSR2"}, at : Releases]

Places == {"config", "ble", "devices", "gateway", "init", "stopScan", "stopping",
           "resetBle", "resetting", "led", "loop", "unborn", "idle", "testing"}

\* the types, and no thread handles a signal on top of itself
StackInv ==
  /\ pressedAt \in Int /\ held \in Int /\ pressTime \in Int /\ releaseTime \in Int
  /\ isBlinkLed \in BOOLEAN /\ dormitory \in BOOLEAN /\ wrong \in BOOLEAN
  /\ inverted \in BOOLEAN /\ overlapped \in BOOLEAN /\ early \in BOOLEAN
  /\ base \in [Threads -> Places]
  /\ stack \in [Threads -> Seq(Frame)]
  /\ \A t \in Threads : \A i, j \in 1 .. Len(stack[t]) :
       stack[t][i].sig = stack[t][j].sig => i = j

\* where a thread is with a signal
Place(t, sig) ==
  IF Handles(t, sig) THEN (CHOOSE f \in Frames(t) : f.sig = sig).at ELSE "none"

Unread == "SIGUSR1" \in pending \/ Place("main", "SIGUSR1") = "read"
ToAct(t) == Place(t, "SIGUSR2") \in {"dark", "read", "act"}

\* every click, short or not, is one of the presses
One(cond) == IF cond THEN 1 ELSE 0
CountInv ==
  clickCount + One(down) + One("SIGUSR2" \in pending) + One(ToAct("main")) + One(ToAct("test"))
    <= presses

\* nothing happens before the first press; unless that was early, main has started
StartInv ==
  /\ presses = 0 => /\ ~down /\ pending = {}
                    /\ \A t \in Threads, sig \in Signals : Place(t, sig) = "none"
  /\ presses > 0 /\ ~early => base["main"] = "loop"

MutexInv ==
  mtxWaitSendUart = "main" =>
    \/ base["main"] \in {"stopping", "resetting"}
    \/ Place("main", "SIGUSR2") \in {"sending", "sendingToExit"}

\* clicks that do not overlap are handled by main
ClickInv ==
  ~overlapped =>
    /\ \A sig \in Signals :
         /\ Place("test", sig) = "none"
         /\ sig \in pending => Place("main", sig) = "none"
    /\ down => "SIGUSR2" \notin pending /\ Place("main", "SIGUSR2") = "none"

\* the times of a click that overlaps no other
TimeInv ==
  ~overlapped =>
    /\ Unread => now = pressedAt
    /\ ~Unread /\ presses > 0 => pressTime = pressedAt
    /\ "SIGUSR2" \in pending \/ Place("main", "SIGUSR2") \in {"dark", "read"} =>
         now = pressedAt + held
    /\ Place("main", "SIGUSR2") = "act" /\ ~inverted =>
         releaseTime = pressedAt + held /\ ~Unread

\* What makes the properties above inductive.
IInv ==
  /\ TypeOK /\ StackInv /\ CountInv /\ StartInv /\ MutexInv /\ ClickInv /\ TimeInv
  /\ CrashIsEarly /\ ReleaseFitsHold
=============================================================================
