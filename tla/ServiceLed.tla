----------------------------- MODULE ServiceLed -----------------------------
(***************************************************************************)
(* The service and BLE LEDs of Util.cpp.                                   *)
(*                                                                         *)
(* LedServiceLock and LedServiceUnlock count the threads that are handling *)
(* a message: the BLE reader (BleProtocol::OnMessage) and one detached     *)
(* thread per MQTT message.  ledServiceCount is a plain int: ++ and -- are *)
(* a load and a store, and the test that follows sees the value stored or  *)
(* a later one.  LedRestoreLastValue, after the button was held, writes    *)
(* back values it read before.                                             *)
(***************************************************************************)
EXTENDS Integers, FiniteSets

CONSTANTS
  Handlers,   \* threads that handle MQTT messages
  Reader,     \* the thread that reads the BLE UART
  MaxUses,    \* bound: messages handled by each thread
  MaxRestores \* bound: calls of LedRestoreLastValue

Threads == Handlers \cup {Reader}

\* what the parameters have to be
ServiceLedAssumption ==
  /\ IsFiniteSet(Handlers) /\ Reader \notin Handlers
  /\ MaxUses \in Nat /\ MaxRestores \in Nat

VARIABLES
  ledServiceCount, ledService, ledBle,
  pc,        \* where each thread stands
  loaded,    \* the count it read
  uses,      \* messages it has begun
  started,   \* main switched the service LED on
  restoring, \* LedRestoreLastValue: the LED it read and the value, or None
  restores,  \* calls of it
  lost,      \* history: a store overwrote another thread's update
  crossed    \* history: a restore overwrote a later value

vars == <<ledServiceCount, ledService, ledBle, pc, loaded, uses, started,
          restoring, restores, lost, crossed>>
button == <<restoring, restores, crossed>>

None == [led |-> "none", value |-> FALSE]

Init ==
  /\ ledServiceCount = 0
  /\ ledService = FALSE
  /\ ledBle = FALSE
  /\ pc = [t \in Threads |-> "out"]
  /\ loaded = [t \in Threads |-> 0]
  /\ uses = [t \in Threads |-> 0]
  /\ started = FALSE
  /\ restoring = None
  /\ restores = 0
  /\ lost = FALSE
  /\ crossed = FALSE

Goto(t, from, to) == pc[t] = from /\ pc' = [pc EXCEPT ![t] = to]

\* ++ and --: a load ...
Load(t) ==
  /\ loaded' = [loaded EXCEPT ![t] = ledServiceCount]
  /\ UNCHANGED <<ledServiceCount, lost>>

\* ... and a store
Store(t, by) ==
  /\ ledServiceCount' = loaded[t] + by
  /\ lost' = (lost \/ loaded[t] # ledServiceCount)
  /\ loaded' = [loaded EXCEPT ![t] = loaded[t] + by]

\* what the test after it reads: the register or the variable again
Seen(t) == {loaded[t], ledServiceCount}

Counting == <<ledServiceCount, loaded, lost>>
-----------------------------------------------------------------------------
(* LedServiceLock                                                          *)

\* the reader switches the BLE LED off first
LockLoad(t) ==
  /\ uses[t] < MaxUses
  /\ Goto(t, "out", "lockStore")
  /\ uses' = [uses EXCEPT ![t] = @ + 1]
  /\ ledBle' = IF t = Reader THEN FALSE ELSE ledBle
  /\ Load(t)
  /\ UNCHANGED <<ledService, started, button>>

LockStore(t) ==
  /\ Goto(t, "lockStore", "lockTest")
  /\ Store(t, 1)
  /\ UNCHANGED <<ledService, ledBle, uses, started, button>>

LockTest(t) ==
  /\ \E n \in Seen(t) : Goto(t, "lockTest", IF n # 0 THEN "lockOff" ELSE "in")
  /\ loaded' = [loaded EXCEPT ![t] = 0]
  /\ UNCHANGED <<ledServiceCount, lost, ledService, ledBle, uses, started, button>>

LockOff(t) ==
  /\ Goto(t, "lockOff", "in")
  /\ ledService' = FALSE
  /\ UNCHANGED <<Counting, ledBle, uses, started, button>>
-----------------------------------------------------------------------------
(* LedServiceUnlock                                                        *)

\* the reader switches the BLE LED on first
UnlockLoad(t) ==
  /\ Goto(t, "in", "unlockStore")
  /\ ledBle' = IF t = Reader THEN TRUE ELSE ledBle
  /\ Load(t)
  /\ UNCHANGED <<ledService, uses, started, button>>

UnlockStore(t) ==
  /\ Goto(t, "unlockStore", "unlockTest")
  /\ Store(t, -1)
  /\ UNCHANGED <<ledService, ledBle, uses, started, button>>

\* Plausible bug: off by one.
TestBelowZero(t) ==
  /\ \E n \in Seen(t) : Goto(t, "unlockTest", IF n < 0 THEN "unlockOn" ELSE "out")
  /\ loaded' = [loaded EXCEPT ![t] = 0]
  /\ UNCHANGED <<ledServiceCount, lost, ledService, ledBle, uses, started, button>>

UnlockTest(t) ==
  /\ \E n \in Seen(t) : Goto(t, "unlockTest", IF n = 0 THEN "unlockOn" ELSE "out")
  /\ loaded' = [loaded EXCEPT ![t] = 0]
  /\ UNCHANGED <<ledServiceCount, lost, ledService, ledBle, uses, started, button>>

UnlockOn(t) ==
  /\ Goto(t, "unlockOn", "out")
  /\ ledService' = TRUE
  /\ UNCHANGED <<Counting, ledBle, uses, started, button>>
-----------------------------------------------------------------------------
(* The main thread.                                                        *)

\* main, when everything is set up; the readers and handlers may be at work
MainOn ==
  /\ ~started
  /\ started' = TRUE
  /\ ledService' = TRUE
  /\ UNCHANGED <<Counting, ledBle, pc, uses, button>>

Value(led) == IF led = "service" THEN ledService ELSE ledBle

\* LedRestoreLastValue reads a LED's value ...
RestoreRead ==
  /\ restoring = None
  /\ restores < MaxRestores
  /\ \E led \in {"service", "ble"} : restoring' = [led |-> led, value |-> Value(led)]
  /\ restores' = restores + 1
  /\ UNCHANGED <<Counting, ledService, ledBle, pc, uses, started, crossed>>

\* ... and writes it
RestoreWrite ==
  /\ restoring # None
  /\ ledService' = IF restoring.led = "service" THEN restoring.value ELSE ledService
  /\ ledBle' = IF restoring.led = "ble" THEN restoring.value ELSE ledBle
  /\ crossed' = (crossed \/ Value(restoring.led) # restoring.value)
  /\ restoring' = None
  /\ UNCHANGED <<Counting, pc, uses, started, restores>>

Next ==
  \/ \E t \in Threads : LockLoad(t)
  \/ \E t \in Threads : LockStore(t)
  \/ \E t \in Threads : LockTest(t)
  \/ \E t \in Threads : LockOff(t)
  \/ \E t \in Threads : UnlockLoad(t)
  \/ \E t \in Threads : UnlockStore(t)
  \/ \E t \in Threads : UnlockTest(t)
  \/ \E t \in Threads : UnlockOn(t)
  \/ MainOn
  \/ RestoreRead
  \/ RestoreWrite

Spec == Init /\ [][Next]_vars
-----------------------------------------------------------------------------
Places == {"out", "lockStore", "lockTest", "lockOff", "in", "unlockStore",
           "unlockTest", "unlockOn"}

\* each message adds one and takes one away, if not lost
Counts == LET most == MaxUses * Cardinality(Threads) IN -most .. most

TypeOK ==
  /\ ledServiceCount \in Counts /\ loaded \in [Threads -> Counts]
  /\ ledService \in BOOLEAN /\ ledBle \in BOOLEAN /\ started \in BOOLEAN
  /\ pc \in [Threads -> Places]
  /\ uses \in [Threads -> 0 .. MaxUses]
  /\ restoring \in [led : {"none", "service", "ble"}, value : BOOLEAN]
  /\ restores \in 0 .. MaxRestores
  /\ lost \in BOOLEAN /\ crossed \in BOOLEAN

\* the threads between the store of ++ and the store of --
Holders == {t \in Threads : pc[t] \in {"lockTest", "lockOff", "in", "unlockStore"}}

AtRest == restoring = None /\ \A t \in Threads : pc[t] = "out"

\* the threads that have handled a message
Busy == {t \in Threads : uses[t] > 0}

\* The service LED is dark at rest only if an update of the count was lost or
\* a restore wrote back an old value: no order of locks, unlocks and main's
\* switching it on leaves it off (Util.cpp:421-434, main.cpp:97).
ServiceOnAtRest ==
  (AtRest /\ ~lost /\ ~crossed /\ (started \/ Busy # {})) => ledService

\* The count is right as long as no two updates of it overlapped
\* (Util.cpp:424, 431).
CountIsHolders == ~lost => ledServiceCount = Cardinality(Holders)

\* The BLE LED is lit at rest: whatever the handlers do, the reader puts it on
\* again (BleProtocol.cpp:344, 455; Util.cpp:413-419).
BleOnAtRest ==
  (AtRest /\ ~crossed /\ uses[Reader] > 0) => ledBle
-----------------------------------------------------------------------------
(* The inductive invariant.                                                *)

\* the messages, as the first, second, ... one of a thread: those whose ++
\* was stored, and those whose -- was
Messages == Threads \X (1 .. MaxUses)
Reached(places) ==
  {m \in Messages : \/ m[2] < uses[m[1]]
                    \/ m[2] = uses[m[1]] /\ pc[m[1]] \in places}
Added == Reached(Places \ {"lockStore"})
TakenAway == Reached({"out", "unlockTest", "unlockOn"})

UsesInv == \A t \in Threads : pc[t] # "out" => uses[t] > 0

\* no update of the count, lost or not, goes beyond what was stored so far
CountInv ==
  LET stored == -Cardinality(TakenAway) .. Cardinality(Added)
  IN  /\ ledServiceCount \in stored
      /\ \A t \in Threads : loaded[t] \in stored

\* the threads that will have the service LED lit, or leave it to another one
Lighting ==
  {t \in Threads : \/ pc[t] \in {"lockStore", "lockTest", "lockOff", "in",
                                  "unlockStore", "unlockOn"}
                   \/ pc[t] = "unlockTest" /\ loaded[t] = 0}

ServiceInv ==
  (~lost /\ ~crossed /\ (started \/ Busy # {})) => ledService \/ Lighting # {}

BleInv ==
  (~crossed /\ uses[Reader] > 0 /\ pc[Reader] \in {"out", "unlockStore",
     "unlockTest", "unlockOn"}) => ledBle

\* What makes the properties above inductive: the last thread out has seen the
\* count it stored, zero, or another thread is in (Util.cpp:421-434).
IInv ==
  /\ TypeOK /\ UsesInv /\ CountInv
  /\ CountIsHolders /\ ServiceInv /\ BleInv
=============================================================================
