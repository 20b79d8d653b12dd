--------------------------- MODULE MqttConnection ---------------------------
(***************************************************************************)
(* The cloud connection of the station: class Mqtt under CloudProtocol and *)
(* Gateway.  Mosquitto's loop thread calls on_connect, on_disconnect and   *)
(* on_message, one at a time; each hands its work to detached threads,     *)
(* which the system runs in any order:                                     *)
(*                                                                         *)
(*   OnCloudConnect(b)   sets check_connect_cloud and two LEDs             *)
(*   SubscribeList       subscribes every registered topic again           *)
(*   OnServerReq, ...    blink the internet LED around a message           *)
(*                                                                         *)
(* The test thread drives the internet LED too, to show its verdict.       *)
(*                                                                         *)
(* The session is clean (Mqtt's constructor passes clean_session = true):  *)
(* the broker forgets the subscriptions when the connection ends.          *)
(* on_connect does not look at the reason code, so a connection that the   *)
(* broker refused counts as connected until the loop closes it.            *)
(***************************************************************************)
EXTENDS Naturals, Sequences, FiniteSets

CONSTANTS
  Topics,       \* the topics Gateway::init registers, in order
  LedTopics,    \* those whose handler blinks the internet LED
  MaxEvents,    \* bound: calls of on_connect and on_disconnect
  MaxMessages,  \* bound: messages received
  MaxTests      \* bound: tests the station runs

TopicSet == {Topics[i] : i \in 1 .. Len(Topics)}

ASSUME MqttConnectionAssumption ==
  /\ Topics \in Seq(STRING) /\ Topics # <<>>
  /\ LedTopics \subseteq TopicSet
  /\ MaxEvents \in Nat /\ MaxMessages \in Nat /\ MaxTests \in Nat

VARIABLES
  topicList,            \* the topics registered so far
  started,              \* Connect() was called
  broker,               \* the broker's side: "down", "refused" or "up"
  subscribed,           \* the topics subscribed in the broker's session
  connected,            \* Mqtt::connected
  threads,              \* the detached threads that have not ended
  spawned,              \* number of threads ever started: the next one's name
  check_connect_cloud,  \* the flag TestSwitch reads
  internet,             \* the internet LED
  service,              \* the service LED: off is the connection warning
  success,              \* GPIO 17, the other half of the verdict
  test,                 \* the test thread: "wait", "run", "report", "pass" or
                        \* "fail", and "passed" or "failed" at the end
  report,               \* the test's report: "none", "sent" or "lost"
  events, messages, tests,  \* counters for the bounds
  alone,                \* history: the last OnCloudConnect thread started when
                        \* no other thread that drives an LED was alive
  owner,                \* history: who wrote the internet LED last
  undisturbed           \* history: the last test began on a settled connection
                        \* and no event came since

vars == <<topicList, started, broker, subscribed, connected, threads, spawned,
          check_connect_cloud, internet, service, success, test, report,
          events, messages, tests, alone, owner, undisturbed>>

counters == <<events, messages, tests>>
leds == <<check_connect_cloud, internet, service, success, owner>>
testing == <<test, report, undisturbed>>

\* a detached thread: what it runs, its argument and its next step
Thread(id, kind, value, at) ==
  [id |-> id, kind |-> kind, value |-> value, at |-> at]

Writers == {t \in threads : t.kind # "SubscribeList"}

Goes(t, at) == threads' = (threads \ {t}) \cup {[t EXCEPT !.at = at]}
Ends(t) == threads' = threads \ {t}

Init ==
  /\ topicList = <<>>
  /\ started = FALSE
  /\ broker = "down"
  /\ subscribed = {}
  /\ connected = FALSE
  /\ threads = {}
  /\ spawned = 0
  /\ check_connect_cloud = FALSE
  /\ internet = FALSE
  /\ service \in BOOLEAN
  /\ success \in BOOLEAN
  /\ test = "wait"
  /\ report = "none"
  /\ undisturbed = FALSE
  /\ events = 0 /\ messages = 0 /\ tests = 0
  /\ alone = FALSE
  /\ owner = "main"
-----------------------------------------------------------------------------
(* Gateway::init, on the main thread: register, then connect.              *)

\* addActionCallback: connected is still false, so nothing is subscribed here
addActionCallback ==
  /\ ~started
  /\ Len(topicList) < Len(Topics)
  /\ topicList' = Append(topicList, Topics[Len(topicList) + 1])
  /\ UNCHANGED <<started, broker, subscribed, connected, threads, spawned,
                 leds, testing, counters, alone>>

Connect ==
  /\ ~started
  /\ Len(topicList) = Len(Topics)
  /\ started' = TRUE
  /\ UNCHANGED <<topicList, broker, subscribed, connected, threads, spawned,
                 leds, testing, counters, alone>>
-----------------------------------------------------------------------------
(* The loop thread.                                                        *)

Event ==
  /\ started
  /\ events < MaxEvents
  /\ events' = events + 1
  /\ alone' = (Writers = {})
  /\ subscribed' = {}
  /\ undisturbed' = FALSE
  /\ UNCHANGED <<topicList, started, leds, test, report, messages, tests>>

\* A plausible bug: nothing subscribes again.
OnCloudConnectThread ==
  {Thread(spawned + 1, "OnCloudConnect", TRUE, 1)}

\* the threads on_connect starts
ConnectThreads ==
  {Thread(spawned + 1, "OnCloudConnect", TRUE, 1),
   Thread(spawned + 2, "SubscribeList", TRUE, 1)}

on_connect ==
  /\ broker = "down"
  /\ broker' \in {"up", "refused"}
  /\ connected' = TRUE
  /\ threads' = threads \cup ConnectThreads
  /\ spawned' = spawned + 2
  /\ Event

on_disconnect ==
  /\ broker # "down"
  /\ broker' = "down"
  /\ connected' = FALSE
  /\ threads' = threads \cup {Thread(spawned + 1, "OnCloudConnect", FALSE, 1)}
  /\ spawned' = spawned + 1
  /\ Event

\* a message on a topic whose handler blinks the internet LED
on_message ==
  /\ broker = "up"
  /\ subscribed \cap LedTopics # {}
  /\ messages < MaxMessages
  /\ messages' = messages + 1
  /\ threads' = threads \cup {Thread(spawned + 1, "OnMessage", TRUE, 1)}
  /\ spawned' = spawned + 1
  /\ UNCHANGED <<topicList, started, broker, subscribed, connected, leds,
                 testing, events, tests, alone>>
-----------------------------------------------------------------------------
(* The detached threads.                                                   *)

LedInternet(value) ==
  /\ internet' = value
  /\ owner' = "cloud"

\* Plausible bugs: the flag is never lowered, or never raised.
RaiseFlag(isConnected) ==
  check_connect_cloud' = (check_connect_cloud \/ isConnected)
LowerFlag(isConnected) ==
  check_connect_cloud' = (check_connect_cloud /\ isConnected)

SetFlag(isConnected) == check_connect_cloud' = isConnected

OnCloudConnect(t) ==
  /\ t.kind = "OnCloudConnect"
  /\ \/ /\ t.at = 1
        /\ SetFlag(t.value)
        /\ Goes(t, 2)
        /\ UNCHANGED <<internet, service, owner>>
     \/ /\ t.at = 2
        /\ LedInternet(t.value)
        /\ Goes(t, 3)
        /\ UNCHANGED <<check_connect_cloud, service>>
     \/ /\ t.at = 3
        /\ service' = t.value      \* set_led_warning writes !stt
        /\ Ends(t)
        /\ UNCHANGED <<check_connect_cloud, internet, owner>>
  /\ UNCHANGED <<topicList, started, broker, subscribed, connected, spawned,
                 success, testing, counters, alone>>

\* subscribe fails, unnoticed, while there is no connection
SubscribeList(t) ==
  /\ t.kind = "SubscribeList"
  /\ subscribed' = IF broker = "up" THEN subscribed \cup {topicList[t.at]}
                                    ELSE subscribed
  /\ IF t.at < Len(topicList) THEN Goes(t, t.at + 1) ELSE Ends(t)
  /\ UNCHANGED <<topicList, started, broker, connected, spawned, leds,
                 testing, counters, alone>>

\* OnServerReq, OnServerResp, OnMobileReq, OnMobileResp: off, work, on
OnMessage(t) ==
  /\ t.kind = "OnMessage"
  /\ \/ /\ t.at = 1
        /\ LedInternet(FALSE)
        /\ Goes(t, 2)
     \/ /\ t.at = 2
        /\ LedInternet(TRUE)
        /\ Ends(t)
  /\ UNCHANGED <<topicList, started, broker, subscribed, connected, spawned,
                 check_connect_cloud, service, success, testing, counters,
                 alone>>
-----------------------------------------------------------------------------
(* The test thread's use of the LEDs.                                      *)

LedVerdict(led) ==
  /\ internet' = led
  /\ owner' = "test"
  /\ UNCHANGED <<topicList, started, broker, subscribed, connected, threads,
                 spawned, check_connect_cloud, service, events, messages, alone>>

\* reset_led_in_proc: the internet LED on and GPIO 17 off
reset_led_in_proc ==
  /\ test \in {"wait", "passed", "failed"}
  /\ check_connect_cloud
  /\ tests < MaxTests
  /\ tests' = tests + 1
  /\ test' = "run"
  /\ report' = "none"
  /\ undisturbed' = (Writers = {} /\ alone /\ broker # "refused")
  /\ success' = FALSE
  /\ LedVerdict(TRUE)

\* publish fails, unnoticed, while there is no connection
CloudPublish ==
  /\ test = "run"
  /\ test' = "report"
  /\ report' = IF broker = "up" THEN "sent" ELSE "lost"
  /\ UNCHANGED <<topicList, started, broker, subscribed, connected, threads,
                 spawned, leds, counters, alone, undisturbed>>

\* set_led_success, set_led_fail: the internet LED, then GPIO 17
SetVerdictInternet ==
  /\ test = "report"
  /\ \E ok \in BOOLEAN :
       /\ test' = IF ok THEN "pass" ELSE "fail"
       /\ LedVerdict(ok)
  /\ UNCHANGED <<success, report, undisturbed, tests>>

\* A plausible bug: GPIO 17 is not lowered after a failure.
RaiseGpio17 == success' = TRUE

SetGpio17 == success' = (test = "pass")

SetVerdictSuccess ==
  /\ test \in {"pass", "fail"}
  /\ test' = IF test = "pass" THEN "passed" ELSE "failed"
  /\ SetGpio17
  /\ UNCHANGED <<topicList, started, broker, subscribed, connected, threads,
                 spawned, check_connect_cloud, internet, service, counters,
                 alone, owner, report, undisturbed>>
-----------------------------------------------------------------------------
Start == addActionCallback \/ Connect
Run(t) == OnCloudConnect(t) \/ SubscribeList(t) \/ OnMessage(t)

Next ==
  \/ addActionCallback
  \/ Connect
  \/ on_connect
  \/ on_disconnect
  \/ on_message
  \/ \E t \in threads : OnCloudConnect(t)
  \/ \E t \in threads : SubscribeList(t)
  \/ \E t \in threads : OnMessage(t)
  \/ reset_led_in_proc
  \/ CloudPublish
  \/ SetVerdictInternet
  \/ SetVerdictSuccess

Spec == Init /\ [][Next]_vars

\* a thread that is ready to run is run, whatever the others do
Runs(id) == \E t \in threads : t.id = id /\ Run(t)
MaxThreads == 2 * MaxEvents + MaxMessages
FairSpec ==
  /\ Spec
  /\ WF_vars(Start)
  /\ \A id \in 1 .. MaxThreads : WF_vars(Runs(id))
-----------------------------------------------------------------------------
TypeOK ==
  /\ Len(topicList) <= Len(Topics)
  /\ topicList = SubSeq(Topics, 1, Len(topicList))
  /\ broker \in {"down", "refused", "up"}
  /\ subscribed \subseteq TopicSet
  /\ spawned \in 0 .. MaxThreads
  /\ threads \subseteq
       [id : 1 .. spawned, kind : {"OnCloudConnect", "SubscribeList", "OnMessage"},
        value : BOOLEAN, at : 1 .. (Len(topicList) + 3)]
  /\ \A t, u \in threads : t.id = u.id => t = u
  /\ {started, connected, check_connect_cloud, internet, service, success,
      alone, undisturbed} \subseteq BOOLEAN
  /\ test \in {"wait", "run", "report", "pass", "fail", "passed", "failed"}
  /\ report \in {"none", "sent", "lost"}
  /\ owner \in {"main", "cloud", "test"}
  /\ events \in 0 .. MaxEvents /\ messages \in 0 .. MaxMessages
  /\ tests \in 0 .. MaxTests

\* A verdict on the LEDs stays readable until the cloud connection takes the
\* internet LED: GPIO 17 then still tells a pass from a failure
\* (gpioProtocol.cpp:225-249, Util.cpp:333).
VerdictReadable ==
  test \in {"passed", "failed"} =>
    /\ success <=> test = "passed"
    /\ owner = "test" => (internet <=> test = "passed")

\* TestSwitch reads check_connect_cloud once and publishes half a minute later:
\* the report is lost only if the connection changed under the test, or the
\* test began on a flag that did not show it (Gateway.cpp:507, 452).
ReportReachesCloud == report = "lost" => ~undisturbed

\* Every topic is subscribed again after a reconnect: when the connection
\* holds at last, all registered topics are subscribed for good, whatever
\* threads of earlier connections are still about (Mqtt.cpp:121-128, 245).
Resubscribed ==
  <>[](broker = "up") => <>[](subscribed = TopicSet)

\* When the connection holds at last and its thread did not overlap another,
\* a test can begin: the flag is and stays raised (Gateway.cpp:96, 477).
ConnectionNoticed ==
  <>[](broker = "up" /\ alone) => <>[]check_connect_cloud

\* When the threads have ended, the flag that lets a test begin, and the LEDs
\* the connection has to itself, show the connection - if the thread of
\* the last event did not overlap another one (Gateway.cpp:90-116).
ConnectionShown ==
  (Writers = {} /\ events > 0 /\ alone) =>
    /\ check_connect_cloud = connected
    /\ service = connected
    /\ owner = "cloud" => internet = connected

\* What an operator reads off the station at rest is right: its connection and
\* the verdict of its last test (Gateway.cpp:90-116, gpioProtocol.cpp:225-249).
LedsAreRight == TypeOK /\ ConnectionShown /\ VerdictReadable
-----------------------------------------------------------------------------
(* The strengthening that makes the invariants inductive, in parts.        *)

\* how far each thread can be, and how many there were
ThreadInv ==
  /\ \A t \in threads :
       /\ t.kind = "OnCloudConnect" => t.at \in 1 .. 3
       /\ t.kind = "SubscribeList" => t.at \in 1 .. Len(topicList)
       /\ t.kind = "OnMessage" => t.at \in 1 .. 2
  /\ started => Len(topicList) = Len(Topics)
  /\ spawned <= 2 * events + messages

BrokerInv ==
  /\ connected <=> broker # "down"
  /\ alone => events > 0

Connecting(at) == \E t \in threads : t.kind = "OnCloudConnect" /\ t.at \in at
Blinking == \E t \in threads : t.kind = "OnMessage" /\ t.at = 2

\* When the last event met no other thread, all that still write, write the
\* connection, each flag and LED when its turn comes.
ShownInv == alone =>
  /\ \A t \in threads :
       /\ t.kind = "OnCloudConnect" => (t.value <=> connected)
       /\ t.kind = "OnMessage" => connected
  /\ Connecting({1}) \/ (check_connect_cloud <=> connected)
  /\ Connecting({1, 2}) \/ Blinking \/ (owner = "cloud" => (internet <=> connected))
  /\ Connecting({1, 2, 3}) \/ (service <=> connected)

\* the two halves of the verdict
VerdictInv ==
  /\ test \in {"pass", "fail"} => (owner = "test" => (internet <=> test = "pass"))
  /\ VerdictReadable

\* an undisturbed test has its connection
UndisturbedInv ==
  /\ undisturbed => broker = "up"
  /\ report = "lost" => ~undisturbed

IInv == TypeOK /\ ThreadInv /\ BrokerInv /\ ShownInv /\ VerdictInv /\ UndisturbedInv
=============================================================================
