----------------------------- MODULE MqttProofs -----------------------------
(***************************************************************************)
(* Proofs about the two machines of class Mqtt: the cloud connection with  *)
(* its detached threads (MqttConnection), for any topics and any number of *)
(* events, messages and tests; and the calls of Subscribe and Unsubscribe  *)
(* (MqttSubscribe), for any number of calls, of threads, of repetitions    *)
(* and of requests.                                                        *)
(***************************************************************************)
EXTENDS MqttConnection, MqttSubscribe, FiniteSetTheorems, SequenceTheorems, TLAPS

(* The connection. *)

ThreadType ==
  [id : 1 .. spawned, kind : {"OnCloudConnect", "SubscribeList", "OnMessage"},
   value : BOOLEAN, at : 1 .. (Len(topicList) + 3)]

LEMMA TopicFacts ==
  /\ Topics \in Seq(STRING) /\ Len(Topics) \in Nat /\ Len(Topics) > 0
  /\ \A i \in 1 .. Len(Topics) : Topics[i] \in TopicSet
BY MqttConnectionAssumption DEF MqttConnectionAssumption, TopicSet

LEMMA ListFacts ==
  ASSUME TypeOK
  PROVE  /\ topicList \in Seq(STRING) /\ Len(topicList) \in Nat
         /\ \A i \in 1 .. Len(topicList) : topicList[i] \in TopicSet
         /\ spawned \in Nat /\ threads \subseteq ThreadType
<1> DEFINE n == Len(topicList)
<1>1. Len(topicList) \in Nat /\ topicList \in Seq(STRING)
  BY TopicFacts DEF TypeOK
<1>2. \A i \in 1 .. n : topicList[i] = Topics[i] /\ i \in 1 .. Len(Topics)
  BY <1>1, TopicFacts DEF TypeOK
<1>3. spawned \in Nat
  BY MqttConnectionAssumption DEF MqttConnectionAssumption, MaxThreads, TypeOK
<1> QED BY <1>1, <1>2, <1>3, TopicFacts DEF TypeOK, ThreadType

LEMMA InitIInv == Init => IInv
<1> SUFFICES ASSUME Init PROVE IInv
  OBVIOUS
<1>1. TypeOK
  <2>1. /\ 0 \in 0 .. MaxEvents /\ 0 \in 0 .. MaxMessages /\ 0 \in 0 .. MaxTests
        /\ 0 \in 0 .. MaxThreads
    BY MqttConnectionAssumption DEF MqttConnectionAssumption, MaxThreads
  <2>2. Len(topicList) <= Len(Topics) /\ topicList = SubSeq(Topics, 1, Len(topicList))
    BY TopicFacts DEF Init
  <2> QED BY <2>1, <2>2 DEF Init, TypeOK
<1>2. ThreadInv /\ BrokerInv /\ ShownInv
  BY TopicFacts DEF Init, ThreadInv, BrokerInv, ShownInv
<1>3. VerdictInv /\ UndisturbedInv
  BY DEF Init, VerdictInv, VerdictReadable, UndisturbedInv
<1> QED BY <1>1, <1>2, <1>3 DEF IInv
-----------------------------------------------------------------------------
(* Gateway::init. *)

LEMMA addActionCallbackStep == IInv /\ addActionCallback => IInv'
<1> SUFFICES ASSUME IInv, addActionCallback PROVE IInv'
  OBVIOUS
<1> USE DEF IInv, addActionCallback, leds, testing, counters
<1>1. /\ Len(topicList') = Len(topicList) + 1 /\ Len(topicList') <= Len(Topics)
      /\ Len(topicList) \in Nat
      /\ topicList' = SubSeq(Topics, 1, Len(topicList'))
  <2> DEFINE n == Len(topicList)
  <2>1. n \in Nat /\ topicList = SubSeq(Topics, 1, n) /\ n < Len(Topics)
    BY ListFacts DEF TypeOK
  <2>2. Len(topicList') = n + 1 /\ n + 1 <= Len(Topics)
    BY <2>1, ListFacts, TopicFacts
  <2>3. Append(SubSeq(Topics, 1, n), Topics[n + 1]) = SubSeq(Topics, 1, n + 1)
    BY <2>1, TopicFacts
  <2> QED BY <2>1, <2>2, <2>3
<1>2. threads \subseteq ThreadType'
  <2>1. \A i \in 1 .. (Len(topicList) + 3) : i \in 1 .. (Len(topicList') + 3)
    BY <1>1
  <2> QED BY <2>1, ListFacts DEF ThreadType
<1>3. TypeOK'
  BY <1>1, <1>2 DEF TypeOK, MaxThreads, ThreadType
<1>4. ThreadInv'
  <2>1. \A i \in 1 .. Len(topicList) : i \in 1 .. Len(topicList')
    BY <1>1
  <2> QED BY <2>1 DEF ThreadInv
<1>5. BrokerInv' /\ ShownInv'
  BY DEF BrokerInv, ShownInv, Connecting, Blinking
<1>6. VerdictInv' /\ UndisturbedInv'
  BY DEF VerdictInv, VerdictReadable, UndisturbedInv
<1> QED BY <1>3, <1>4, <1>5, <1>6

LEMMA ConnectStep == IInv /\ Connect => IInv'
<1> SUFFICES ASSUME IInv, Connect PROVE IInv'
  OBVIOUS
<1> USE DEF IInv, Connect, leds, testing, counters
<1>1. TypeOK'
  BY DEF TypeOK, MaxThreads
<1>2. ThreadInv' /\ BrokerInv' /\ ShownInv'
  BY DEF ThreadInv, BrokerInv, ShownInv, Connecting, Blinking
<1>3. VerdictInv' /\ UndisturbedInv'
  BY DEF VerdictInv, VerdictReadable, UndisturbedInv
<1> QED BY <1>1, <1>2, <1>3
-----------------------------------------------------------------------------
(* Mosquitto's loop thread. *)

(* An event starts threads with fresh names, at their first steps; if no   *)
(* other writer was alive, they show the connection.                       *)
LEMMA EventStep ==
  ASSUME IInv, Event, NEW new, threads' = threads \cup new,
         spawned' \in {spawned + 1, spawned + 2},
         \A t \in new :
           /\ t.id \in spawned + 1 .. spawned' /\ t.at = 1 /\ t.value \in BOOLEAN
           /\ t.kind \in {"OnCloudConnect", "SubscribeList"}
           /\ t.kind = "OnCloudConnect" => (t.value <=> connected')
           /\ t \in [id : Nat, kind : {"OnCloudConnect", "SubscribeList"}, value : BOOLEAN, at : Nat],
         \A t, u \in new : t.id = u.id => t = u,
         \E t \in new : t.kind = "OnCloudConnect",
         connected' \in BOOLEAN, connected' <=> broker' # "down", broker' \in {"down", "refused", "up"}
  PROVE  IInv'
<1> USE DEF IInv, Event, leds
<1>1. /\ events \in Nat /\ messages \in Nat /\ events + 1 \in 0 .. MaxEvents
      /\ spawned \in Nat /\ spawned' \in 0 .. MaxThreads
      /\ spawned' <= 2 * events' + messages
  <2>1. events \in 0 .. MaxEvents /\ messages \in 0 .. MaxMessages /\ spawned \in Nat
    BY ListFacts DEF TypeOK
  <2>2. spawned <= 2 * events + messages
    BY DEF ThreadInv
  <2> QED BY <2>1, <2>2, MqttConnectionAssumption DEF MqttConnectionAssumption, MaxThreads
<1>2. \A t \in threads : t.id \in 1 .. spawned /\ t \in ThreadType
  BY ListFacts DEF ThreadType
<1>3. \A t \in new : t \in ThreadType' /\ t.id > spawned
  <2>1. 1 \in 1 .. (Len(topicList') + 3)
    BY ListFacts
  <2> QED BY <1>1, <2>1 DEF ThreadType
<1>4. \A t \in threads : t \in ThreadType'
  <2>1. \A i \in 1 .. spawned : i \in 1 .. spawned'
    BY <1>1
  <2> QED BY <1>2, <2>1 DEF ThreadType
<1>5. \A t, u \in threads' : t.id = u.id => t = u
  BY <1>1, <1>2, <1>3 DEF TypeOK
<1>6. TypeOK'
  <2>1. threads' \subseteq ThreadType'
    BY <1>3, <1>4
  <2>2. {started, connected', check_connect_cloud, internet, service, success,
         alone', undisturbed'} \subseteq BOOLEAN
    BY DEF TypeOK
  <2> QED BY <1>1, <1>5, <2>1, <2>2 DEF TypeOK, ThreadType, MaxThreads
<1>7. ThreadInv'
  <2>1. 1 \in 1 .. Len(topicList)
    BY TopicFacts DEF ThreadInv
  <2> QED BY <1>1, <2>1 DEF ThreadInv
<1>8. BrokerInv'
  BY <1>1 DEF BrokerInv
<1>9. ShownInv'
  <2> SUFFICES ASSUME alone' PROVE ShownInv'
    BY DEF ShownInv
  <2>1. \A t \in threads : t.kind = "SubscribeList"
    BY DEF Writers
  <2>2. Connecting({1})' /\ Connecting({1, 2})' /\ Connecting({1, 2, 3})'
    BY DEF Connecting
  <2> QED BY <2>1, <2>2 DEF ShownInv
<1>10. VerdictInv' /\ UndisturbedInv'
  BY DEF VerdictInv, VerdictReadable, UndisturbedInv
<1> QED BY <1>6, <1>7, <1>8, <1>9, <1>10

LEMMA on_connectStep == IInv /\ on_connect => IInv'
<1> SUFFICES ASSUME IInv, on_connect PROVE IInv'
  OBVIOUS
<1>1. spawned \in Nat
  BY ListFacts DEF IInv
<1> DEFINE a == Thread(spawned + 1, "OnCloudConnect", TRUE, 1)
           b == Thread(spawned + 2, "SubscribeList", TRUE, 1)
           new == {a, b}
<1>2. /\ a.id = spawned + 1 /\ a.at = 1 /\ a.value = TRUE /\ a.kind = "OnCloudConnect"
      /\ b.id = spawned + 2 /\ b.at = 1 /\ b.value = TRUE /\ b.kind = "SubscribeList"
      /\ a \in [id : Nat, kind : {"OnCloudConnect", "SubscribeList"}, value : BOOLEAN, at : Nat]
      /\ b \in [id : Nat, kind : {"OnCloudConnect", "SubscribeList"}, value : BOOLEAN, at : Nat]
  BY <1>1 DEF Thread
<1>3. /\ ConnectThreads = {a, b} /\ spawned' = spawned + 2 /\ connected' = TRUE
      /\ broker' \in {"refused", "up"}
  BY DEF ConnectThreads, on_connect
<1> HIDE DEF a, b
<1>4. /\ \A t \in new :
           /\ t.id \in spawned + 1 .. spawned' /\ t.at = 1 /\ t.value \in BOOLEAN
           /\ t.kind \in {"OnCloudConnect", "SubscribeList"}
           /\ t.kind = "OnCloudConnect" => (t.value <=> connected')
           /\ t \in [id : Nat, kind : {"OnCloudConnect", "SubscribeList"}, value : BOOLEAN, at : Nat]
      /\ \A t, u \in new : t.id = u.id => t = u
      /\ \E t \in new : t.kind = "OnCloudConnect"
  BY <1>1, <1>2, <1>3
<1>5. /\ threads' = threads \cup new /\ spawned' \in {spawned + 1, spawned + 2}
      /\ connected' \in BOOLEAN /\ (connected' <=> broker' # "down") /\ broker' \in {"down", "refused", "up"} /\ Event
  BY <1>3 DEF on_connect
<1> HIDE DEF new
<1> QED BY <1>4, <1>5, EventStep

LEMMA on_disconnectStep == IInv /\ on_disconnect => IInv'
<1> SUFFICES ASSUME IInv, on_disconnect PROVE IInv'
  OBVIOUS
<1>1. spawned \in Nat
  BY ListFacts DEF IInv
<1> DEFINE a == Thread(spawned + 1, "OnCloudConnect", FALSE, 1)
           new == {a}
<1>2. /\ a.id = spawned + 1 /\ a.at = 1 /\ a.value = FALSE /\ a.kind = "OnCloudConnect"
      /\ a \in [id : Nat, kind : {"OnCloudConnect", "SubscribeList"}, value : BOOLEAN, at : Nat]
  BY <1>1 DEF Thread
<1>3. spawned' = spawned + 1 /\ connected' = FALSE /\ threads' = threads \cup {a}
  BY DEF on_disconnect
<1> HIDE DEF a
<1>4. /\ \A t \in new :
           /\ t.id \in spawned + 1 .. spawned' /\ t.at = 1 /\ t.value \in BOOLEAN
           /\ t.kind \in {"OnCloudConnect", "SubscribeList"}
           /\ t.kind = "OnCloudConnect" => (t.value <=> connected')
           /\ t \in [id : Nat, kind : {"OnCloudConnect", "SubscribeList"}, value : BOOLEAN, at : Nat]
      /\ \A t, u \in new : t.id = u.id => t = u
      /\ \E t \in new : t.kind = "OnCloudConnect"
  BY <1>1, <1>2, <1>3
<1>5. /\ threads' = threads \cup new /\ spawned' \in {spawned + 1, spawned + 2}
      /\ connected' \in BOOLEAN /\ (connected' <=> broker' # "down") /\ broker' \in {"down", "refused", "up"} /\ Event
  BY <1>3 DEF on_disconnect
<1> HIDE DEF new
<1> QED BY <1>4, <1>5, EventStep

LEMMA on_messageStep == IInv /\ on_message => IInv'
<1> SUFFICES ASSUME IInv, on_message PROVE IInv'
  OBVIOUS
<1> USE DEF IInv, on_message, leds, testing
<1> DEFINE new == Thread(spawned + 1, "OnMessage", TRUE, 1)
<1>1. /\ events \in Nat /\ messages \in Nat /\ messages + 1 \in 0 .. MaxMessages
      /\ spawned \in Nat /\ spawned + 1 \in 0 .. MaxThreads
      /\ spawned + 1 <= 2 * events + (messages + 1)
  <2>1. events \in 0 .. MaxEvents /\ messages \in 0 .. MaxMessages /\ spawned \in Nat
    BY ListFacts DEF TypeOK
  <2>2. spawned <= 2 * events + messages
    BY DEF ThreadInv
  <2> QED BY <2>1, <2>2, MqttConnectionAssumption DEF MqttConnectionAssumption, MaxThreads
<1>2. /\ new \in ThreadType' /\ new.id = spawned + 1
      /\ new.kind = "OnMessage" /\ new.at = 1
  <2>1. 1 \in 1 .. (Len(topicList') + 3)
    BY ListFacts
  <2> QED BY <1>1, <2>1 DEF Thread, ThreadType
<1>3. /\ threads' = threads \cup {new} /\ spawned' = spawned + 1
      /\ messages' = messages + 1
      /\ UNCHANGED <<topicList, started, events>>
  OBVIOUS
<1> HIDE DEF new
<1>4. \A t \in threads : t.id \in 1 .. spawned /\ t \in ThreadType'
  <2>1. \A i \in 1 .. spawned : i \in 1 .. spawned'
    BY <1>1
  <2> QED BY <2>1, ListFacts DEF ThreadType
<1>5. \A t, u \in threads' : t.id = u.id => t = u
  <2>1. \A t, u \in threads : t.id = u.id => t = u
    BY DEF TypeOK
  <2>2. \A t \in threads : t.id # new.id
    BY <1>1, <1>2, <1>4
  <2> QED BY <1>3, <2>1, <2>2
<1>6. TypeOK'
  <2>1. threads' \subseteq ThreadType'
    BY <1>2, <1>3, <1>4
  <2> QED BY <1>1, <1>5, <2>1 DEF TypeOK, ThreadType, MaxThreads
<1>7. ThreadInv'
  <2>1. ThreadInv
    OBVIOUS
  <2> HIDE DEF IInv, on_message
  <2> QED BY <1>1, <1>2, <1>3, <2>1 DEF ThreadInv
<1>8. BrokerInv'
  BY DEF BrokerInv
<1>9. ShownInv'
  <2>1. Connecting({1})' <=> Connecting({1})
    BY <1>2, <1>3 DEF Connecting
  <2>2. Connecting({1, 2})' <=> Connecting({1, 2})
    BY <1>2, <1>3 DEF Connecting
  <2>3. Connecting({1, 2, 3})' <=> Connecting({1, 2, 3})
    BY <1>2, <1>3 DEF Connecting
  <2>4. Blinking' <=> Blinking
    <3> HIDE DEF IInv, on_message
    <3> QED BY <1>2, <1>3 DEF Blinking
  <2>5. connected
    BY DEF BrokerInv
  <2> QED BY <1>2, <1>3, <2>1, <2>2, <2>3, <2>4, <2>5 DEF ShownInv
<1>10. VerdictInv' /\ UndisturbedInv'
  BY DEF VerdictInv, VerdictReadable, UndisturbedInv
<1> QED BY <1>6, <1>7, <1>8, <1>9, <1>10
-----------------------------------------------------------------------------
(* The detached threads. *)

(* A thread that takes a step keeps its name; so names stay apart.         *)
LEMMA ThreadFacts ==
  ASSUME IInv, NEW t \in threads, NEW at \in 1 .. (Len(topicList) + 3),
         Goes(t, at) \/ Ends(t)
  PROVE  /\ threads' \subseteq ThreadType
         /\ \A r, u \in threads' : r.id = u.id => r = u
         /\ Ends(t) => threads' = threads \ {t}
         /\ Goes(t, at) => \E new \in ThreadType :
              /\ threads' = (threads \ {t}) \cup {new}
              /\ new.kind = t.kind /\ new.value = t.value /\ new.at = at
<1> DEFINE new == [t EXCEPT !.at = at]
<1>1. threads \subseteq ThreadType /\ \A r, u \in threads : r.id = u.id => r = u
  BY ListFacts DEF IInv, TypeOK
<1>2. /\ new \in ThreadType /\ new.id = t.id /\ new.kind = t.kind
      /\ new.value = t.value /\ new.at = at
  BY <1>1 DEF ThreadType
<1>3. /\ Ends(t) => threads' = threads \ {t}
      /\ Goes(t, at) => threads' = (threads \ {t}) \cup {new}
  BY DEF Goes, Ends
<1> HIDE DEF new
<1> QED BY <1>1, <1>2, <1>3

LEMMA OnCloudConnectStep ==
  ASSUME IInv, NEW t \in threads, OnCloudConnect(t) PROVE IInv'
<1>0. /\ UNCHANGED <<topicList, started, broker, subscribed, connected, spawned,
                     success, test, report, undisturbed, events, messages, tests, alone>>
      /\ t.kind = "OnCloudConnect" /\ t.value \in BOOLEAN /\ Len(topicList) \in Nat
      /\ alone => (t.value <=> connected)
  BY ListFacts DEF OnCloudConnect, testing, counters, IInv, ThreadType, ShownInv
<1>1. /\ 2 \in 1 .. (Len(topicList) + 3) /\ 3 \in 1 .. (Len(topicList) + 3)
  BY <1>0
<1>2. ASSUME NEW at \in {2, 3}, Goes(t, at) \/ Ends(t),
             {check_connect_cloud', internet', service'} \subseteq BOOLEAN,
             owner' \in {"main", "cloud", "test"}
      PROVE  TypeOK' /\ ThreadInv' /\ BrokerInv' /\ UndisturbedInv'
  <2>1. /\ threads' \subseteq ThreadType
        /\ \A r, u \in threads' : r.id = u.id => r = u
    BY <1>1, <1>2, ThreadFacts
  <2>2. TypeOK'
    BY <1>0, <1>2, <2>1 DEF IInv, TypeOK, ThreadType, MaxThreads
  <2>3. ThreadInv'
    <3>1. \A u \in threads' : u \in threads \/ (u.kind = "OnCloudConnect" /\ u.at = at)
      BY <1>0, <1>1, <1>2, ThreadFacts
    <3> QED BY <1>0, <3>1 DEF IInv, ThreadInv
  <2>4. BrokerInv' /\ UndisturbedInv'
    BY <1>0 DEF IInv, BrokerInv, UndisturbedInv
  <2> QED BY <2>2, <2>3, <2>4
<1>3. CASE t.at = 1
  <2>1. /\ check_connect_cloud' = t.value /\ Goes(t, 2)
        /\ UNCHANGED <<internet, service, owner>>
    BY <1>3 DEF OnCloudConnect, SetFlag
  <2>2. PICK new \in ThreadType :
          /\ threads' = (threads \ {t}) \cup {new}
          /\ new.kind = "OnCloudConnect" /\ new.value = t.value /\ new.at = 2
    BY <1>0, <1>1, <2>1, ThreadFacts
  <2>3. TypeOK' /\ ThreadInv' /\ BrokerInv' /\ UndisturbedInv'
    BY <1>0, <1>2, <2>1 DEF IInv, TypeOK
  <2>4. ShownInv'
    BY <1>0, <2>1, <2>2 DEF IInv, ShownInv, Connecting
  <2>5. VerdictInv'
    BY <1>0, <2>1 DEF IInv, VerdictInv, VerdictReadable
  <2> QED BY <2>3, <2>4, <2>5 DEF IInv
<1>4. CASE t.at = 2
  <2>1. /\ internet' = t.value /\ owner' = "cloud" /\ Goes(t, 3)
        /\ UNCHANGED <<check_connect_cloud, service>>
    BY <1>4 DEF OnCloudConnect, LedInternet
  <2>2. PICK new \in ThreadType :
          /\ threads' = (threads \ {t}) \cup {new}
          /\ new.kind = "OnCloudConnect" /\ new.value = t.value /\ new.at = 3
    BY <1>0, <1>1, <2>1, ThreadFacts
  <2>3. TypeOK' /\ ThreadInv' /\ BrokerInv' /\ UndisturbedInv'
    BY <1>0, <1>2, <2>1 DEF IInv, TypeOK
  <2>4. Connecting({1}) => Connecting({1})'
    BY <1>4, <2>2 DEF Connecting
  <2>5. ShownInv'
    BY <1>0, <2>1, <2>2, <2>4 DEF IInv, ShownInv, Connecting
  <2>6. VerdictInv'
    BY <1>0, <2>1 DEF IInv, VerdictInv, VerdictReadable
  <2> QED BY <2>3, <2>5, <2>6 DEF IInv
<1>5. CASE t.at = 3
  <2>1. /\ service' = t.value /\ Ends(t)
        /\ UNCHANGED <<check_connect_cloud, internet, owner>>
    BY <1>0, <1>5 DEF OnCloudConnect
  <2>2. threads' = threads \ {t}
    BY <2>1 DEF Ends
  <2>3. TypeOK' /\ ThreadInv' /\ BrokerInv' /\ UndisturbedInv'
    BY <1>0, <1>2, <2>1 DEF IInv, TypeOK
  <2>4. /\ Connecting({1}) => Connecting({1})'
        /\ Connecting({1, 2}) => Connecting({1, 2})'
        /\ Blinking => Blinking'
    BY <1>0, <1>5, <2>2 DEF Connecting, Blinking
  <2>5. ShownInv'
    BY <1>0, <2>1, <2>2, <2>4 DEF IInv, ShownInv
  <2>6. VerdictInv'
    BY <1>0, <2>1 DEF IInv, VerdictInv, VerdictReadable
  <2> QED BY <2>3, <2>5, <2>6 DEF IInv
<1> QED BY <1>3, <1>4, <1>5 DEF OnCloudConnect

LEMMA SubscribeListStep ==
  ASSUME IInv, NEW t \in threads, SubscribeList(t) PROVE IInv'
<1>0. /\ UNCHANGED <<topicList, started, broker, connected, spawned,
                     check_connect_cloud, internet, service, success, owner,
                     test, report, undisturbed, events, messages, tests, alone>>
      /\ t.kind = "SubscribeList" /\ Len(topicList) \in Nat
      /\ t.at \in 1 .. Len(topicList)
  BY ListFacts DEF SubscribeList, leds, testing, counters, IInv, ThreadInv
<1> DEFINE at == IF t.at < Len(topicList) THEN t.at + 1 ELSE 1
<1>1. at \in 1 .. Len(topicList) /\ at \in 1 .. (Len(topicList) + 3)
  BY <1>0
<1>2. Goes(t, at) \/ Ends(t)
  BY DEF SubscribeList
<1> HIDE DEF at
<1>3. /\ threads' \subseteq ThreadType
      /\ \A r, u \in threads' : r.id = u.id => r = u
      /\ \A u \in threads' : u \in threads \/ (u.kind = "SubscribeList" /\ u.at = at)
  BY <1>0, <1>1, <1>2, ThreadFacts
<1>4. subscribed' \subseteq TopicSet
  BY <1>0, ListFacts DEF SubscribeList, IInv, TypeOK
<1>5. TypeOK'
  BY <1>0, <1>3, <1>4 DEF IInv, TypeOK, ThreadType, MaxThreads
<1>6. ThreadInv'
  BY <1>0, <1>1, <1>3 DEF IInv, ThreadInv
<1>7. BrokerInv' /\ VerdictInv' /\ UndisturbedInv'
  BY <1>0 DEF IInv, BrokerInv, VerdictInv, VerdictReadable, UndisturbedInv
<1>8. ShownInv'
  <2>1. \A u \in threads : u.kind # "SubscribeList" => u \in threads'
    BY <1>0, <1>2 DEF Goes, Ends
  <2>2. /\ Connecting({1}) => Connecting({1})'
        /\ Connecting({1, 2}) => Connecting({1, 2})'
        /\ Connecting({1, 2, 3}) => Connecting({1, 2, 3})'
        /\ Blinking => Blinking'
    BY <2>1 DEF Connecting, Blinking
  <2> QED BY <1>0, <1>3, <2>2 DEF IInv, ShownInv
<1> QED BY <1>5, <1>6, <1>7, <1>8 DEF IInv

LEMMA OnMessageStep ==
  ASSUME IInv, NEW t \in threads, OnMessage(t) PROVE IInv'
<1>0. /\ UNCHANGED <<topicList, started, broker, subscribed, connected, spawned,
                     check_connect_cloud, service, success,
                     test, report, undisturbed, events, messages, tests, alone>>
      /\ t.kind = "OnMessage" /\ Len(topicList) \in Nat /\ t.at \in {1, 2}
      /\ owner' = "cloud" /\ internet' \in BOOLEAN
      /\ alone => connected
  BY ListFacts DEF OnMessage, LedInternet, testing, counters, IInv, ShownInv
<1>1. 2 \in 1 .. (Len(topicList) + 3) /\ (Goes(t, 2) \/ Ends(t))
  <2>1. 2 \in 1 .. (Len(topicList) + 3)
    BY <1>0
  <2> QED BY <2>1 DEF OnMessage
<1>2. /\ threads' \subseteq ThreadType
      /\ \A r, u \in threads' : r.id = u.id => r = u
      /\ \A u \in threads' : u \in threads \/ (u.kind = "OnMessage" /\ u.at = 2)
  BY <1>0, <1>1, ThreadFacts
<1>3. TypeOK'
  BY <1>0, <1>2 DEF IInv, TypeOK, ThreadType, MaxThreads
<1>4. ThreadInv'
  BY <1>0, <1>2 DEF IInv, ThreadInv
<1>5. BrokerInv' /\ VerdictInv' /\ UndisturbedInv'
  BY <1>0 DEF IInv, BrokerInv, VerdictInv, VerdictReadable, UndisturbedInv
<1>6. /\ Connecting({1}) => Connecting({1})'
      /\ Connecting({1, 2, 3}) => Connecting({1, 2, 3})'
  BY <1>0, <1>1 DEF Connecting, Goes, Ends
<1>7. ShownInv'
  <2>1. CASE t.at = 1
    <3>1. Goes(t, 2)
      BY <2>1 DEF OnMessage
    <3>2. Blinking'
      BY <1>0, <1>1, <3>1, ThreadFacts DEF Blinking
    <3> QED BY <1>0, <1>2, <1>6, <3>2 DEF IInv, ShownInv
  <2>2. CASE t.at = 2
    <3>1. internet' = TRUE
      BY <1>0, <2>2 DEF OnMessage, LedInternet
    <3> QED BY <1>0, <1>2, <1>6, <3>1 DEF IInv, ShownInv
  <2> QED BY <1>0, <2>1, <2>2
<1> QED BY <1>3, <1>4, <1>5, <1>7 DEF IInv
-----------------------------------------------------------------------------
(* The test thread. *)

LEMMA reset_led_in_procStep == IInv /\ reset_led_in_proc => IInv'
<1> SUFFICES ASSUME IInv, reset_led_in_proc PROVE IInv'
  OBVIOUS
<1> USE DEF IInv, reset_led_in_proc, LedVerdict
<1>1. tests + 1 \in 0 .. MaxTests
  BY MqttConnectionAssumption DEF MqttConnectionAssumption, TypeOK
<1>2. TypeOK'
  BY <1>1 DEF TypeOK, MaxThreads
<1>3. ThreadInv' /\ BrokerInv'
  BY DEF ThreadInv, BrokerInv
<1>4. ShownInv'
  BY DEF ShownInv, Connecting, Blinking
<1>5. VerdictInv'
  BY DEF VerdictInv, VerdictReadable
<1>6. UndisturbedInv'
  <2>1. ASSUME undisturbed' PROVE broker = "up"
    <3>1. Writers = {} /\ alone /\ broker # "refused"
      BY <2>1
    <3>2. ~Connecting({1})
      BY <3>1 DEF Connecting, Writers
    <3>3. connected
      BY <3>1, <3>2 DEF ShownInv
    <3> QED BY <3>1, <3>3 DEF BrokerInv, TypeOK
  <2> QED BY <2>1 DEF UndisturbedInv
<1> QED BY <1>2, <1>3, <1>4, <1>5, <1>6

LEMMA CloudPublishStep == IInv /\ CloudPublish => IInv'
<1> SUFFICES ASSUME IInv, CloudPublish PROVE IInv'
  OBVIOUS
<1> USE DEF IInv, CloudPublish, leds, counters
<1>1. TypeOK' /\ ThreadInv' /\ BrokerInv'
  BY DEF TypeOK, MaxThreads, ThreadInv, BrokerInv
<1>2. ShownInv'
  BY DEF ShownInv, Connecting, Blinking
<1>3. VerdictInv' /\ UndisturbedInv'
  BY DEF VerdictInv, VerdictReadable, UndisturbedInv
<1> QED BY <1>1, <1>2, <1>3

LEMMA SetVerdictInternetStep == IInv /\ SetVerdictInternet => IInv'
<1> SUFFICES ASSUME IInv, SetVerdictInternet PROVE IInv'
  OBVIOUS
<1> USE DEF IInv, SetVerdictInternet, LedVerdict
<1>1. TypeOK' /\ ThreadInv' /\ BrokerInv'
  BY DEF TypeOK, MaxThreads, ThreadInv, BrokerInv
<1>2. ShownInv'
  BY DEF ShownInv, Connecting, Blinking
<1>3. VerdictInv' /\ UndisturbedInv'
  BY DEF VerdictInv, VerdictReadable, UndisturbedInv
<1> QED BY <1>1, <1>2, <1>3

LEMMA SetVerdictSuccessStep == IInv /\ SetVerdictSuccess => IInv'
<1> SUFFICES ASSUME IInv, SetVerdictSuccess PROVE IInv'
  OBVIOUS
<1> USE DEF IInv, SetVerdictSuccess, SetGpio17, counters
<1>1. TypeOK' /\ ThreadInv' /\ BrokerInv'
  BY DEF TypeOK, MaxThreads, ThreadInv, BrokerInv
<1>2. ShownInv'
  BY DEF ShownInv, Connecting, Blinking
<1>3. VerdictInv' /\ UndisturbedInv'
  <2>1. CASE test = "pass"
    BY <2>1 DEF VerdictInv, VerdictReadable, UndisturbedInv
  <2>2. CASE test = "fail"
    BY <2>2 DEF VerdictInv, VerdictReadable, UndisturbedInv
  <2> QED BY <2>1, <2>2
<1> QED BY <1>1, <1>2, <1>3

LEMMA NextIInv == IInv /\ [Next]_vars => IInv'
<1> SUFFICES ASSUME IInv, [Next]_vars PROVE IInv'
  OBVIOUS
<1>1. CASE UNCHANGED vars
  <2> USE <1>1 DEF vars, IInv
  <2>1. TypeOK' /\ ThreadInv' /\ BrokerInv'
    BY DEF TypeOK, MaxThreads, ThreadInv, BrokerInv
  <2>2. ShownInv' /\ VerdictInv' /\ UndisturbedInv'
    BY DEF ShownInv, Connecting, Blinking, VerdictInv, VerdictReadable, UndisturbedInv
  <2> QED BY <2>1, <2>2
<1>2. CASE Next
  BY <1>2, addActionCallbackStep, ConnectStep, on_connectStep, on_disconnectStep,
     on_messageStep, OnCloudConnectStep, SubscribeListStep, OnMessageStep,
     reset_led_in_procStep, CloudPublishStep, SetVerdictInternetStep,
     SetVerdictSuccessStep DEF Next
<1> QED BY <1>1, <1>2

(* The inductive invariant of the connection holds in every reachable      *)
(* state.                                                                  *)
THEOREM Invariance == Spec => []IInv
BY InitIInv, NextIInv, PTL DEF Spec

(* What an operator reads off the station at rest is right, whatever       *)
(* threads ran in whatever order: the connection, if its last event met no *)
(* other thread, and the verdict (Gateway.cpp:90-116,                      *)
(* gpioProtocol.cpp:225-249).                                              *)
THEOREM LedsAreRightAlways == Spec => []LedsAreRight
<1>1. IInv => ConnectionShown
  <2> SUFFICES ASSUME IInv, Writers = {}, alone
               PROVE  /\ check_connect_cloud = connected /\ service = connected
                      /\ owner = "cloud" => internet = connected
    BY DEF ConnectionShown
  <2>1. ~Connecting({1}) /\ ~Connecting({1, 2}) /\ ~Connecting({1, 2, 3}) /\ ~Blinking
    BY DEF Writers, Connecting, Blinking
  <2>2. {connected, check_connect_cloud, internet, service} \subseteq BOOLEAN
    BY DEF IInv, TypeOK
  <2> QED BY <2>1, <2>2 DEF IInv, ShownInv
<1>2. IInv => LedsAreRight
  BY <1>1 DEF IInv, VerdictInv, LedsAreRight
<1> QED BY <1>2, Invariance, PTL

(* A report is lost only if the connection changed under its test, or the  *)
(* test began on a flag that did not show it (Gateway.cpp:507, 452).       *)
THEOREM ReportReachesCloudAlways == Spec => []ReportReachesCloud
<1>1. IInv => ReportReachesCloud
  BY DEF IInv, UndisturbedInv, ReportReachesCloud
<1> QED BY <1>1, Invariance, PTL
-----------------------------------------------------------------------------
(* The calls of Subscribe and Unsubscribe. *)

USE MqttSubscribeAssumption DEF Free, None, Goto, lists, pushed, mosquitto, handler

LEMMA InitSubInv == SubInit => SubInv
  <1> SUFFICES ASSUME SubInit PROVE SubInv
    OBVIOUS
  <1>1. state \in [Calls -> BOOLEAN] /\ id \in [Calls -> Nat]
    BY DEF SubInit, Unset
  <1>2. SubTypeOK
    BY <1>1 DEF SubInit, SubTypeOK
  <1>3. HolderInv /\ NumberInv
    BY DEF SubInit, HolderInv, NumberInv
  <1>4. SlotInv /\ GrantInv /\ DeadInv
    BY DEF SubInit, SlotInv, GrantInv, DeadInv, Marking
  <1>5. QED
    BY <1>2, <1>3, <1>4 DEF SubInv

\* The answer a handler is at is to a number already answered.
LEMMA HandlingFacts ==
  ASSUME SubTypeOK, handling # Idle
  PROVE  /\ handling \in [kind : Kinds, mid : answered, matched : Calls \cup {None}]
         /\ handling.kind \in Kinds /\ handling.mid \in answered
         /\ handling.matched \in Calls \cup {None}
  <1>1. handling \in [kind : Kinds, mid : answered, matched : Calls \cup {None}]
    BY DEF SubTypeOK
  <1>2. QED
    BY <1>1

\* A request of a call gets a number that no other has.
LEMMA RequestIsNew ==
  ASSUME SubTypeOK, NumberInv, NEW c \in Calls, Request(c)
  PROVE  /\ last' = last + 1 /\ last' \in Nat
         /\ sent' \subseteq [mid : 1 .. last', kind : Kinds]
         /\ mids' \in [Calls -> SUBSET (1 .. last')]
         /\ id' \in [Calls -> Nat]
         /\ answered \subseteq 1 .. last'
         /\ \A r \in sent' : r.mid \notin answered
         /\ \A r, s \in sent' : r.mid = s.mid => r = s
         /\ \A o \in Calls : o # c => mids'[o] = mids[o]
         /\ mids'[c] = mids[c] \cup {last + 1} /\ last + 1 \notin mids[c]
  <1> USE DEF SubTypeOK, Request
  <1>1. last' = last + 1 /\ last' \in Nat
    OBVIOUS
  <1>2. \A m \in 1 .. last : m \in 1 .. last' /\ m # last + 1
    BY <1>1
  <1>3. last + 1 \in 1 .. last'
    BY <1>1
  <1>4. [mid |-> last + 1, kind |-> Kind(c)] \in [mid : 1 .. last', kind : Kinds]
    BY <1>3 DEF Kind, Kinds
  <1>5. sent' \subseteq [mid : 1 .. last', kind : Kinds]
    BY <1>2, <1>4
  <1>6. mids' \in [Calls -> SUBSET (1 .. last')]
    BY <1>2, <1>3
  <1>7. answered \subseteq 1 .. last'
    BY <1>2
  <1>8. \A r \in sent' : r.mid \notin answered
    BY <1>2 DEF NumberInv
  <1>9. \A r, s \in sent' : r.mid = s.mid => r = s
    BY <1>2 DEF NumberInv
  <1>10. mids'[c] = mids[c] \cup {last + 1} /\ last + 1 \notin mids[c]
    BY <1>2
  <1>11. QED
    BY <1>1, <1>5, <1>6, <1>7, <1>8, <1>9, <1>10

\* A call that begins while a handler is at an earlier record is torn.
LEMMA BeginKeepsSubInv ==
  ASSUME SubInv, NEW c \in Calls, Begin(c)
  PROVE  SubInv'
  <1> SubTypeOK /\ HolderInv /\ NumberInv /\ SlotInv /\ GrantInv /\ DeadInv
    BY DEF SubInv
  <1>1. /\ pc[c] = "call" /\ mtx = Free /\ mtx' = c
        /\ mqttSubscribes' = mqttSubscribes \cup ({c} \cap Subscribes)
        /\ mqttUnsubscribes' = mqttUnsubscribes \cup ({c} \ Subscribes)
        /\ slot' = [slot EXCEPT ![Kind(c)] = c]
        /\ torn' = IF handling = Idle THEN torn ELSE torn \cup {c}
        /\ Goto(c, "send")
        /\ UNCHANGED <<rs, id, tries, mosquitto, handler>>
    BY DEF Begin, Enlist
  <1>2. /\ state' \in [Calls -> BOOLEAN]
        /\ \A o \in Calls : state'[o] => state[o]
        /\ \A o \in Calls : o # c => state'[o] = state[o]
    BY DEF Begin, SubTypeOK
  <1>3. Kind(c) \in Kinds
    BY DEF Kind, Kinds
  <1>4. SubTypeOK'
    <2>1. pc' \in [Calls -> {"call", "send", "wait", "returned"}]
          /\ slot' \in [Kinds -> Calls \cup {None}]
          /\ torn' \subseteq Calls
      BY <1>1, <1>3 DEF SubTypeOK
    <2>2. QED
      BY <1>1, <1>2, <2>1 DEF SubTypeOK
  <1>5. HolderInv'
    BY <1>1 DEF SubTypeOK, HolderInv
  <1>6. NumberInv'
    BY <1>1 DEF NumberInv
  <1>7. SlotInv'
    <2>1. slot'[Kind(c)] = c /\ \A k \in Kinds : slot'[k] \in {c, slot[k]}
      BY <1>1, <1>3 DEF SubTypeOK
    <2>2. \A o \in Calls : mtx' = o => slot'[Kind(o)] = o
      BY <1>1, <2>1
    <2>3. ASSUME handling' # Idle
          PROVE  /\ slot'[handling.kind] \in Calls
                 /\ \/ handling.matched \in {None, slot'[handling.kind]}
                    \/ slot'[handling.kind] \in torn'
                 /\ \A o \in Calls \ torn' : mtx' = o => slot'[handling.kind] = o
      <3>1. handling # Idle /\ torn' = torn \cup {c}
        BY <1>1, <2>3
      <3>2. handling.kind \in Kinds
        BY <3>1, HandlingFacts
      <3>3. QED
        BY <1>1, <2>1, <3>1, <3>2 DEF SlotInv
    <2>4. QED
      BY <1>1, <2>2, <2>3 DEF SlotInv
  <1>8. torn \subseteq torn'
    BY <1>1
  <1>9. GrantInv'
    <2>1. ASSUME NEW o \in Calls, rs'[o] = "CODE_OK"
          PROVE  state'[o]
      BY <1>1, <1>2, <2>1 DEF HolderInv, GrantInv
    <2>2. ASSUME NEW o \in Calls, state'[o], ~Missed(o)'
          PROVE  \E m \in mids[o] \cap answered : handling = Idle \/ handling.mid # m
      BY <1>1, <1>2, <1>8, <2>2 DEF GrantInv, Missed
    <2>3. QED
      BY <1>1, <2>1, <2>2 DEF GrantInv, Marking
  <1>10. DeadInv'
    <2>1. ASSUME NEW o \in Calls, Simple(o)'
          PROVE  Simple(o)
      BY <1>1, <1>8, <2>1 DEF Simple, Missed
    <2>2. deadWrites \subseteq Calls
      BY DEF SubTypeOK
    <2>3. QED
      BY <1>1, <2>1, <2>2 DEF DeadInv, SubTypeOK
  <1>11. QED
    BY <1>4, <1>5, <1>6, <1>7, <1>9, <1>10 DEF SubInv

LEMMA ReturnKeepsSubInv ==
  ASSUME SubInv, NEW c \in Calls, pc[c] \in {"send", "wait"},
         NEW code \in {"CODE_OK", "CODE_ERROR", "CODE_TIMEOUT"}, Return(c, code),
         code = "CODE_OK" => state[c],
         UNCHANGED <<state, tries, pushed, mosquitto, handler>>
  PROVE  SubInv'
  <1> USE DEF Return
  <1> SubTypeOK /\ HolderInv /\ NumberInv /\ SlotInv /\ GrantInv /\ DeadInv
    BY DEF SubInv
  <1>1. SubTypeOK'
    <2>1. id' \in [Calls -> Nat]
      BY DEF SubTypeOK, Unset
    <2>2. QED
      BY <2>1 DEF SubTypeOK
  <1>2. HolderInv'
    BY DEF SubTypeOK, HolderInv
  <1>3. NumberInv'
    BY DEF NumberInv
  <1>4. SlotInv'
    BY DEF SlotInv
  <1>5. GrantInv'
    BY DEF SubTypeOK, GrantInv, Missed, Marking
  <1>6. DeadInv'
    BY DEF SubTypeOK, HolderInv, DeadInv, Simple, Missed
  <1>7. QED
    BY <1>1, <1>2, <1>3, <1>4, <1>5, <1>6 DEF SubInv

LEMMA RequestKeepsSubInv ==
  ASSUME SubInv, NEW c \in Calls, pc[c] \in {"send", "wait"}, Request(c),
         Goto(c, "wait"), tries' \in [Calls -> 0 .. maxTime],
         UNCHANGED <<rs, state, mtx, lists, pushed, handler>>
  PROVE  SubInv'
  <1> SubTypeOK /\ HolderInv /\ NumberInv /\ SlotInv /\ GrantInv /\ DeadInv
    BY DEF SubInv
  <1> DEFINE Facts ==
        /\ last' = last + 1 /\ last' \in Nat
        /\ sent' \subseteq [mid : 1 .. last', kind : Kinds]
        /\ mids' \in [Calls -> SUBSET (1 .. last')]
        /\ id' \in [Calls -> Nat]
        /\ answered \subseteq 1 .. last'
  <1>1. Facts
    BY RequestIsNew
  <1>2. SubTypeOK'
    BY <1>1 DEF SubTypeOK
  <1>3. HolderInv'
    BY DEF SubTypeOK, HolderInv
  <1>4. NumberInv'
    BY RequestIsNew DEF NumberInv
  <1>5. SlotInv'
    BY DEF SlotInv
  <1>6. /\ \A o \in Calls : o # c => mids'[o] = mids[o]
        /\ mids'[c] = mids[c] \cup {last + 1} /\ last + 1 \notin mids[c]
    BY RequestIsNew
  <1>7. \A o \in Calls : mids[o] \subseteq mids'[o]
    BY <1>6
  <1>8. GrantInv'
    <2>1. ASSUME NEW o \in Calls, state[o], ~Missed(o)
          PROVE  \E m \in mids'[o] \cap answered : handling = Idle \/ handling.mid # m
      BY <1>7, <2>1 DEF GrantInv
    <2>2. ASSUME Marking
          PROVE  handling.mid \in mids'[handling.matched] \/ handling.matched \in stray
      BY <1>7, <2>2, HandlingFacts DEF GrantInv, Marking
    <2>3. QED
      BY <2>1, <2>2 DEF GrantInv, Missed, Marking
  <1>9. DeadInv'
    <2>1. ASSUME NEW o \in Calls, Simple(o)'
          PROVE  Simple(o)
      BY <1>7, <2>1 DEF Simple, Missed
    <2>2. deadWrites \subseteq Calls
      BY DEF SubTypeOK
    <2>3. QED
      BY <2>1, <2>2 DEF SubTypeOK, DeadInv
  <1>10. QED
    BY <1>2, <1>3, <1>4, <1>5, <1>8, <1>9 DEF SubInv

LEMMA StepKeepsSubInv ==
  ASSUME SubInv, NEW c \in Calls, Step(c)
  PROVE  SubInv'
  <1> SubTypeOK
    BY DEF SubInv
  <1>1. CASE Begin(c)
    BY <1>1, BeginKeepsSubInv
  <1>2. CASE Send(c)
    <2>1. CASE Request(c) /\ Goto(c, "wait") /\ UNCHANGED <<rs, lists, mtx>>
      <3>1. UNCHANGED <<rs, state, tries, mtx, lists, pushed, handler>> /\ pc[c] = "send"
        BY <1>2, <2>1 DEF Send
      <3>2. tries' \in [Calls -> 0 .. maxTime]
        BY <3>1 DEF SubTypeOK
      <3>3. QED
        BY <2>1, <3>1, <3>2, RequestKeepsSubInv
    <2>2. CASE Return(c, "CODE_ERROR") /\ UNCHANGED mosquitto
      <3>1. UNCHANGED <<state, tries, pushed, mosquitto, handler>> /\ pc[c] = "send"
        BY <1>2, <2>2 DEF Send
      <3>2. QED
        BY <2>2, <3>1, ReturnKeepsSubInv
    <2>3. QED
      BY <1>2, <2>1, <2>2 DEF Send
  <1>3. CASE Succeed(c)
    <2>1. /\ pc[c] = "wait" /\ state[c] /\ Return(c, "CODE_OK")
          /\ UNCHANGED <<state, tries, pushed, mosquitto, handler>>
      BY <1>3 DEF Succeed
    <2>2. QED
      BY <2>1, ReturnKeepsSubInv
  <1>4. CASE Repeat(c)
    <2>1. /\ pc[c] = "wait" /\ tries' \in [Calls -> 0 .. maxTime]
          /\ UNCHANGED <<pc, rs, state, mtx, lists, pushed, handler>>
      BY <1>4 DEF Repeat, SubTypeOK
    <2>2. CASE Request(c)
      <3>1. Goto(c, "wait")
        BY <2>1 DEF SubTypeOK
      <3>2. QED
        BY <2>1, <2>2, <3>1, RequestKeepsSubInv
    <2>3. CASE UNCHANGED <<mosquitto, id>>
      BY <2>1, <2>3 DEF SubInv, SubTypeOK, HolderInv, NumberInv, SlotInv, GrantInv, DeadInv,
                        Marking, Missed, Simple
    <2>4. QED
      BY <1>4, <2>2, <2>3 DEF Repeat
  <1>5. CASE TimeOut(c)
    <2>1. /\ pc[c] = "wait" /\ Return(c, "CODE_TIMEOUT")
          /\ UNCHANGED <<state, tries, pushed, mosquitto, handler>>
      BY <1>5 DEF TimeOut
    <2>2. QED
      BY <2>1, ReturnKeepsSubInv
  <1>6. QED
    BY <1>1, <1>2, <1>3, <1>4, <1>5 DEF Step

LEMMA SubscribeOthersKeepsSubInv ==
  ASSUME SubInv, SubscribeOthers
  PROVE  SubInv'
  <1> USE DEF SubscribeOthers
  <1> SubTypeOK /\ HolderInv /\ NumberInv /\ SlotInv /\ GrantInv /\ DeadInv
    BY DEF SubInv
  <1>1. \A m \in 1 .. last : m \in 1 .. last' /\ m # last + 1
    BY DEF SubTypeOK
  <1>2. SubTypeOK'
    <2>1. last' \in Nat /\ last + 1 \in 1 .. last'
      BY DEF SubTypeOK
    <2>2. sent' \subseteq [mid : 1 .. last', kind : Kinds]
      BY <1>1, <2>1 DEF SubTypeOK, Kinds
    <2>3. mids' \in [Calls -> SUBSET (1 .. last')] /\ answered' \subseteq 1 .. last'
      BY <1>1 DEF SubTypeOK
    <2>4. QED
      BY <2>1, <2>2, <2>3 DEF SubTypeOK
  <1>3. HolderInv' /\ SlotInv'
    BY DEF HolderInv, SlotInv
  <1>4. GrantInv' /\ DeadInv'
    BY DEF GrantInv, DeadInv, Marking, Missed, Simple
  <1>5. NumberInv'
    BY <1>1 DEF SubTypeOK, NumberInv
  <1>6. QED
    BY <1>2, <1>3, <1>4, <1>5 DEF SubInv

\* A handler that enters its loop is at the record of the mutex's holder.
LEMMA AnswerKeepsSubInv ==
  ASSUME SubInv, on_subscribe \/ on_unsubscribe
  PROVE  SubInv'
  <1> SubTypeOK /\ HolderInv /\ NumberInv /\ SlotInv /\ GrantInv /\ DeadInv
    BY DEF SubInv
  <1>1. PICK kind \in Kinds, list \in SUBSET Calls :
          /\ Answer(kind, list)
          /\ list = {c \in Calls : mtx = c /\ Kind(c) = kind}
    BY DEF on_subscribe, on_unsubscribe, HolderInv, Kinds, Kind
  <1>2. PICK r \in sent :
          /\ r.kind = kind
          /\ sent' = sent \ {r}
          /\ answered' = answered \cup {r.mid}
          /\ handling' = IF list = {} THEN Idle
                         ELSE [kind |-> kind, mid |-> r.mid, matched |-> None]
    BY <1>1 DEF Answer
  <1>3. /\ UNCHANGED <<pc, rs, state, id, tries, mtx, lists, pushed, last, mids, stray,
                       deadWrites>>
        /\ handling = Idle
    BY <1>1 DEF Answer
  <1>4. r \in [mid : 1 .. last, kind : Kinds] /\ r.mid \in 1 .. last /\ r.mid \notin answered
    BY DEF SubTypeOK, NumberInv
  <1>5. \/ handling' = Idle
        \/ /\ list # {} /\ handling' = [kind |-> kind, mid |-> r.mid, matched |-> None]
           /\ handling'.kind = kind /\ handling'.mid = r.mid /\ handling'.matched = None
    BY <1>2
  <1>6. SubTypeOK'
    <2>1. r.mid \in answered'
      BY <1>2
    <2>2. handling' \in {Idle} \cup [kind : Kinds, mid : answered', matched : Calls \cup {None}]
      BY <1>5, <2>1
    <2>3. sent' \subseteq [mid : 1 .. last, kind : Kinds] /\ answered' \subseteq 1 .. last
      BY <1>2, <1>4 DEF SubTypeOK
    <2>4. QED
      BY <1>3, <2>2, <2>3 DEF SubTypeOK
  <1>7. HolderInv'
    BY <1>3 DEF HolderInv
  <1>8. NumberInv'
    BY <1>2, <1>3 DEF NumberInv
  <1>9. SlotInv'
    <2>1. ASSUME handling' # Idle
          PROVE  /\ slot[kind] \in Calls
                 /\ \A c \in Calls : mtx = c => slot[kind] = c
      <3>1. PICK c \in Calls : mtx = c /\ Kind(c) = kind
        BY <1>1, <1>5, <2>1
      <3>2. QED
        BY <3>1 DEF SlotInv
    <2>2. QED
      BY <1>3, <1>5, <2>1 DEF SlotInv
  <1>10. GrantInv'
    <2>1. ~Marking'
      BY <1>5 DEF Marking
    <2>2. ASSUME NEW c \in Calls, state[c], ~Missed(c)
          PROVE  \E m \in mids[c] \cap answered' : handling' = Idle \/ handling'.mid # m
      <3>1. PICK m \in mids[c] : m \in answered
        BY <2>2 DEF GrantInv
      <3>2. m # r.mid /\ m \in answered'
        BY <1>2, <1>4, <3>1
      <3>3. QED
        BY <1>5, <3>2
    <2>3. QED
      BY <1>3, <2>1, <2>2 DEF GrantInv, Missed
  <1>11. DeadInv'
    BY <1>3 DEF DeadInv, Simple, Missed
  <1>12. QED
    BY <1>6, <1>7, <1>8, <1>9, <1>10, <1>11 DEF SubInv

LEMMA CompareKeepsSubInv ==
  ASSUME SubInv, Match \/ Mismatch
  PROVE  SubInv'
  <1> SubTypeOK /\ HolderInv /\ NumberInv /\ SlotInv /\ GrantInv /\ DeadInv
    BY DEF SubInv
  <1> DEFINE c == slot[handling.kind]
  <1>1. /\ UNCHANGED <<pc, rs, id, tries, mtx, lists, pushed, mosquitto, answered, state,
                       deadWrites>>
        /\ handling # Idle /\ handling.matched = None
    BY DEF Match, Mismatch, Comparing, quiet
  <1>2. c \in Calls
    BY <1>1 DEF SlotInv
  <1>3. \/ handling' = Idle /\ UNCHANGED stray
        \/ /\ handling' = [handling EXCEPT !.matched = c]
           /\ handling' \in [kind : Kinds, mid : answered, matched : Calls \cup {None}]
           /\ handling'.kind = handling.kind /\ handling'.mid = handling.mid
           /\ handling'.matched = c
           /\ stray' = IF handling.mid \in mids[c] THEN stray ELSE stray \cup {c}
    <2>1. CASE Mismatch
      BY <2>1 DEF Mismatch
    <2>2. CASE Match
      BY <1>1, <1>2, <2>2, HandlingFacts DEF Match
    <2>3. QED
      BY <2>1, <2>2
  <1>4. stray \subseteq stray' /\ stray' \subseteq Calls
    BY <1>2, <1>3 DEF SubTypeOK
  <1>5. SubTypeOK'
    BY <1>1, <1>3, <1>4 DEF SubTypeOK
  <1>6. HolderInv' /\ NumberInv'
    BY <1>1 DEF HolderInv, NumberInv
  <1>7. SlotInv'
    BY <1>1, <1>3 DEF SlotInv
  <1>8. GrantInv'
    <2>1. Marking' => handling'.mid \in mids[handling'.matched] \/ handling'.matched \in stray'
      BY <1>3 DEF Marking
    <2>2. ASSUME NEW o \in Calls, state[o], ~Missed(o)'
          PROVE  \E m \in mids[o] \cap answered : handling' = Idle \/ handling'.mid # m
      BY <1>1, <1>3, <1>4, <2>2 DEF GrantInv, Missed
    <2>3. QED
      BY <1>1, <2>1, <2>2 DEF GrantInv
  <1>9. DeadInv'
    <2>1. ASSUME NEW o \in Calls, Simple(o)'
          PROVE  Simple(o)
      BY <1>1, <1>4, <2>1 DEF Simple, Missed
    <2>2. deadWrites \subseteq Calls
      BY DEF SubTypeOK
    <2>3. QED
      BY <1>1, <2>1, <2>2 DEF DeadInv
  <1>10. QED
    BY <1>5, <1>6, <1>7, <1>8, <1>9 DEF SubInv

\* A mark that lands in the record of a call in progress is of an answer to one
\* of its numbers, unless the call was met by another's answer or is torn.
LEMMA setStateKeepsSubInv ==
  ASSUME SubInv, setState
  PROVE  SubInv'
  <1> SubTypeOK /\ HolderInv /\ NumberInv /\ SlotInv /\ GrantInv /\ DeadInv
    BY DEF SubInv
  <1>1. /\ handling # Idle /\ handling.matched # None /\ handling' = Idle
        /\ UNCHANGED <<pc, rs, id, tries, mtx, lists, pushed, mosquitto, answered, stray>>
    BY DEF setState, Marking, quiet
  <1>2. PICK c \in {handling.matched, slot[handling.kind]} :
          \/ /\ pc[c] = "returned" /\ deadWrites' = deadWrites \cup {c}
             /\ \/ UNCHANGED state
                \/ mtx # Free /\ state' = [state EXCEPT ![mtx] = TRUE]
          \/ /\ pc[c] # "returned" /\ state' = [state EXCEPT ![c] = TRUE]
             /\ UNCHANGED deadWrites
    BY DEF setState
  <1>3. /\ handling.matched \in Calls /\ slot[handling.kind] \in Calls /\ c \in Calls
        /\ handling.mid \in answered
    BY <1>1, HandlingFacts DEF SlotInv
  <1>4. Missed(c) \/ handling.mid \in mids[c]
    <2>1. CASE c = handling.matched
      BY <1>1, <2>1 DEF GrantInv, Marking, Missed
    <2>2. CASE c # handling.matched
      BY <1>1, <1>2, <2>2 DEF SlotInv, Missed
    <2>3. QED
      BY <2>1, <2>2
  <1>5. \/ UNCHANGED state
        \/ \E d \in Calls : /\ state' = [state EXCEPT ![d] = TRUE]
                            /\ Missed(d) \/ handling.mid \in mids[d]
    <2>1. CASE pc[c] # "returned"
      BY <1>2, <1>3, <1>4, <2>1
    <2>2. CASE pc[c] = "returned" /\ mtx # Free /\ state' = [state EXCEPT ![mtx] = TRUE]
      <3>1. mtx \in Calls
        BY <2>2 DEF SubTypeOK
      <3>2. mtx # c
        BY <1>3, <2>2 DEF HolderInv
      <3>3. mtx \in torn
        BY <1>1, <1>2, <3>1, <3>2 DEF SlotInv
      <3>4. QED
        BY <2>2, <3>1, <3>3 DEF Missed
    <2>3. QED
      BY <1>2, <2>1, <2>2
  <1>6. /\ state' \in [Calls -> BOOLEAN]
        /\ \A o \in Calls : state[o] => state'[o]
        /\ \A o \in Calls : state'[o] => state[o] \/ Missed(o) \/ handling.mid \in mids[o]
    <2> DEFINE marked == TRUE
    <2>1. CASE UNCHANGED state
      BY <2>1 DEF SubTypeOK
    <2>2. CASE \E d \in Calls : /\ state' = [state EXCEPT ![d] = marked]
                                /\ Missed(d) \/ handling.mid \in mids[d]
      <3>1. PICK d \in Calls : /\ state' = [state EXCEPT ![d] = marked]
                               /\ Missed(d) \/ handling.mid \in mids[d]
        BY <2>2
      <3>2. marked \in BOOLEAN /\ marked
        OBVIOUS
      <3> HIDE DEF marked
      <3>3. state' \in [Calls -> BOOLEAN]
        BY <3>1, <3>2 DEF SubTypeOK
      <3>4. state'[d] <=> marked
        BY <3>1 DEF SubTypeOK
      <3>5. \A o \in Calls : o # d => (state'[o] <=> state[o])
        BY <3>1 DEF SubTypeOK
      <3>6. QED
        BY <3>1, <3>2, <3>3, <3>4, <3>5
    <2>3. QED
      BY <1>5, <2>1, <2>2
  <1>7. deadWrites' \subseteq deadWrites \cup {c} /\ (c \in deadWrites' => c \in deadWrites \/ pc[c] = "returned")
    BY <1>2
  <1>8. SubTypeOK'
    BY <1>1, <1>3, <1>6, <1>7 DEF SubTypeOK
  <1>9. HolderInv' /\ NumberInv'
    BY <1>1 DEF HolderInv, NumberInv
  <1>10. SlotInv'
    BY <1>1 DEF SlotInv
  <1>11. GrantInv'
    <2>1. ASSUME NEW o \in Calls, state'[o], ~Missed(o)
          PROVE  \E m \in mids[o] : m \in answered
      BY <1>3, <1>6, <2>1 DEF GrantInv
    <2>2. QED
      BY <1>1, <1>6, <2>1 DEF GrantInv, Marking, Missed
  <1>12. DeadInv'
    <2>1. ASSUME pc[c] = "returned", Simple(c)
          PROVE  rs[c] # "CODE_OK"
      <3>1. SUFFICES ASSUME rs[c] = "CODE_OK" PROVE FALSE
        OBVIOUS
      <3>2. PICK m \in mids[c] : handling.mid # m
        BY <1>1, <1>3, <2>1, <3>1 DEF GrantInv, Simple
      <3>3. QED
        BY <1>4, <2>1, <3>2 DEF Simple
    <2>2. QED
      BY <1>1, <1>7, <2>1 DEF DeadInv, Simple, Missed
  <1>13. QED
    BY <1>8, <1>9, <1>10, <1>11, <1>12 DEF SubInv

\* The inductive invariant: the holder of the mutex is the one record in the
\* lists, an answer is handled once, and a handler at the record of a call that
\* returned can touch only calls that began since (Mqtt.cpp:130-215, 283-305).
THEOREM SubInvariance == SubSpec => []SubInv
  <1>1. SubInit => SubInv
    BY InitSubInv
  <1>2. SubInv /\ [SubNext]_subVars => SubInv'
    <2> SUFFICES ASSUME SubInv, [SubNext]_subVars PROVE SubInv'
      OBVIOUS
    <2>1. CASE on_subscribe \/ on_unsubscribe
      BY <2>1, AnswerKeepsSubInv
    <2>2. CASE Match \/ Mismatch
      BY <2>2, CompareKeepsSubInv
    <2>3. CASE \E c \in Calls : Subscribe(c) \/ Unsubscribe(c)
      BY <2>3, StepKeepsSubInv DEF Subscribe, Unsubscribe
    <2>4. CASE SubscribeOthers \/ setState
      BY <2>4, SubscribeOthersKeepsSubInv, setStateKeepsSubInv
    <2>5. CASE UNCHANGED subVars
      BY <2>5 DEF subVars, SubInv, SubTypeOK, HolderInv, NumberInv, SlotInv, GrantInv, DeadInv,
                  Marking, Missed, Simple
    <2>6. QED
      BY <2>1, <2>2, <2>3, <2>4, <2>5 DEF SubNext
  <1>3. QED
    BY <1>1, <1>2, PTL DEF SubSpec

\* CODE_OK means that the broker answered a request of this call, or that an
\* answer to another matched its record, or that it began while a handler was
\* at the record of an earlier call (Mqtt.cpp:140-143, 286-292).
THEOREM OkIsGrantedAlways == SubSpec => []OkIsGranted
  <1>1. SubInv => OkIsGranted
    BY DEF SubInv, GrantInv, Missed, OkIsGranted
  <1>2. QED
    BY <1>1, SubInvariance, PTL

\* The lists hold the record of the mutex's holder and no other: their limit of
\* 100 is never met (Mqtt.cpp:136, 177).
THEOREM OneWaitsAlways == SubSpec => []OneWaits
  <1>1. SubInv => OneWaits
    <2> SUFFICES ASSUME SubInv PROVE OneWaits
      OBVIOUS
    <2>1. mqttSubscribes \cup mqttUnsubscribes = {c \in Calls : mtx = c}
      BY DEF SubInv, HolderInv
    <2>2. mtx \in Calls \cup {Free}
      BY DEF SubInv, SubTypeOK
    <2>3. QED
      BY <2>1, <2>2 DEF OneWaits
  <1>2. QED
    BY <1>1, SubInvariance, PTL

\* A set of numbers with two different members has more than one.
LEMMA TwoAreMany ==
  ASSUME NEW n \in Nat, NEW S \in SUBSET (1 .. n),
         NEW a \in S, NEW b \in S, a # b
  PROVE  Cardinality(S) > 1
  <1> IsFiniteSet(1 .. n)
    BY FS_Interval
  <1>1. IsFiniteSet(S) /\ IsFiniteSet({a}) /\ Cardinality({a}) = 1
    BY FS_Subset, FS_Singleton
  <1>2. Cardinality(S) \in Nat /\ Cardinality({a}) <= Cardinality(S)
    BY <1>1, FS_CardinalityType, FS_Subset
  <1>3. Cardinality(S) # 1
    BY <1>1, FS_Singleton
  <1>4. QED
    BY <1>1, <1>2, <1>3

\* A call marked after its return gave up, had asked twice, was matched by an
\* answer to another or began while a handler was at an earlier record
\* (Mqtt.cpp:150-155, 286-292).
THEOREM LateMarksAreRareAlways == SubSpec => []LateMarksAreRare
  <1>1. SubInv => LateMarksAreRare
    <2> SUFFICES ASSUME SubInv, NEW c \in deadWrites, rs[c] = "CODE_OK", c \notin stray \cup torn
                 PROVE  Cardinality(mids[c]) > 1
      BY DEF LateMarksAreRare
    <2>1. c \in Calls /\ last \in Nat /\ mids[c] \in SUBSET (1 .. last)
      BY DEF SubInv, SubTypeOK
    <2>2. PICK m, n \in mids[c] : m # n
      BY <2>1 DEF SubInv, DeadInv, Simple, Missed
    <2>3. QED
      BY <2>1, <2>2, TwoAreMany
  <1>2. QED
    BY <1>1, SubInvariance, PTL
=============================================================================
