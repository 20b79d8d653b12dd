----------------------------- MODULE MqttTopic -----------------------------
(***************************************************************************)
(* Topics: how class Mqtt finds the callback of a message, and whom a      *)
(* mobile's request is answered to.                                        *)
(*                                                                         *)
(* A topic is the sequence of its levels, the empty string where two       *)
(* slashes meet or the topic begins with one.  splitString drops the empty *)
(* levels; checkMqttTopic compares what is left level by level, with an    *)
(* unchecked at(i) one past the end; the first callback registered that    *)
(* matches gets the message, on a detached thread: an exception there ends *)
(* the process.                                                            *)
(***************************************************************************)
EXTENDS Naturals, Sequences, FiniteSets, SequencesExt

CONSTANTS
  Filters,     \* the topics that may be registered
  MaxFilters,  \* bound: how many are
  Levels       \* what "+" and "#" stand for in the topics received

VARIABLES
  actionCallbacks,  \* the topics registered, in order
  topic,            \* the topic of the message being dispatched, or Idle
  handler,          \* the callback it got: its index, or 0
  crashed           \* an exception left a thread

vars == <<actionCallbacks, topic, handler, crashed>>

Idle == <<>>

Init ==
  /\ actionCallbacks = <<>>
  /\ topic = Idle
  /\ handler = 0
  /\ crashed = FALSE
-----------------------------------------------------------------------------
(* What the broker does.                                                   *)

\* MQTT's rule: "+" stands for one level, a final "#" for any number
Open(filter) == filter # <<>> /\ Last(filter) = "#"
Fixed(filter) == IF Open(filter) THEN Front(filter) ELSE filter

Matches(t, filter) ==
  /\ IF Open(filter) THEN Len(t) >= Len(Fixed(filter)) ELSE Len(t) = Len(filter)
  /\ \A i \in 1 .. Len(Fixed(filter)) : Fixed(filter)[i] \in {"+", t[i]}

\* the topics of messages that a subscription to filter brings
Filled(fixed) ==
  LET plus == {i \in 1 .. Len(fixed) : fixed[i] = "+"}
  IN  {[i \in 1 .. Len(fixed) |-> IF i \in plus THEN f[i] ELSE fixed[i]] :
         f \in [plus -> Levels]}
Rests(filter) ==
  IF Open(filter) THEN UNION {[1 .. n -> Levels] : n \in 0 .. 2} ELSE {<<>>}
Instances(filter) == {t \o r : t \in Filled(Fixed(filter)), r \in Rests(filter)}
-----------------------------------------------------------------------------
(* Util::splitString(topic, '/')                                           *)

\* what stands before a first slash and between two
NoLevel == ""

splitString(t) ==
  LET list[n \in 0 .. Len(t)] ==
        IF n = 0 THEN <<>>
        ELSE IF t[n] = NoLevel THEN list[n - 1] ELSE Append(list[n - 1], t[n])
  IN  list[Len(t)]

\* one round of checkMqttTopic's loop, i counted from 1: the guard is one level
\* too generous and at() throws
Verdict(i, retrieveList, registerList) ==
  CASE Len(registerList) < i - 1 -> "CODE_ERROR"
    [] Len(registerList) = i - 1 -> "out_of_range"
    [] registerList[i] = "#" -> "CODE_OK"
    [] registerList[i] \in {"+", retrieveList[i]} -> "continue"
    [] OTHER -> "CODE_ERROR"

\* A plausible bug: the last level is not compared.
checkButLast(retrieveTopic, registerTopic) ==
  LET retrieveList == splitString(retrieveTopic)
      registerList == splitString(registerTopic)
      V(i) == Verdict(i, retrieveList, registerList)
      ends == {i \in 1 .. Len(retrieveList) - 1 : V(i) # "continue"}
  IN  IF ends # {} THEN V(Min(ends))
      ELSE IF Len(registerList) = Len(retrieveList) THEN "CODE_OK" ELSE "CODE_ERROR"

checkMqttTopic(retrieveTopic, registerTopic) ==
  LET retrieveList == splitString(retrieveTopic)
      registerList == splitString(registerTopic)
      V(i) == Verdict(i, retrieveList, registerList)
      ends == {i \in 1 .. Len(retrieveList) : V(i) # "continue"}
  IN  IF ends # {} THEN V(Min(ends))
      ELSE IF Len(registerList) = Len(retrieveList) THEN "CODE_OK" ELSE "CODE_ERROR"

\* the callbacks at which the search stops
Stops(t) ==
  {k \in 1 .. Len(actionCallbacks) :
     checkMqttTopic(t, actionCallbacks[k]) # "CODE_ERROR"}

findActionCallbackFuncFromTopic(t) == IF Stops(t) = {} THEN 0 ELSE Min(Stops(t))

addActionCallback(filter) ==
  /\ topic = Idle
  /\ Len(actionCallbacks) < MaxFilters
  /\ ~ \E k \in 1 .. Len(actionCallbacks) : actionCallbacks[k] = filter
  /\ actionCallbacks' = Append(actionCallbacks, filter)
  /\ UNCHANGED <<topic, handler, crashed>>

\* on_message and OnMessage
OnMessage(t) ==
  /\ topic = Idle
  /\ topic' = t
  /\ LET k == findActionCallbackFuncFromTopic(t)
     IN  /\ crashed' = (k # 0 /\ checkMqttTopic(t, actionCallbacks[k]) = "out_of_range")
         /\ handler' = k
  /\ UNCHANGED actionCallbacks

Done ==
  /\ topic # Idle
  /\ topic' = Idle /\ handler' = 0
  /\ UNCHANGED <<actionCallbacks, crashed>>

Next ==
  /\ ~crashed
  /\ \/ \E filter \in Filters : addActionCallback(filter)
     \/ \E k \in 1 .. Len(actionCallbacks) :
          \E t \in Instances(actionCallbacks[k]) : OnMessage(t)
     \/ Done

Spec == Init /\ [][Next]_vars

\* OnServerBinResp wants seven levels; OnMobileReq answers to the third
TakesBin(t) == Len(splitString(t)) = 7
Sender(t) == splitString(t)[3]
-----------------------------------------------------------------------------
\* two lists of levels differ in a level that both fix
Differ(p, q, i) == i <= Len(q) /\ p[i] # q[i] /\ p[i] # "+" /\ q[i] # "+"

\* no topic that fits p fits q, and if q is shorter, none of which levels are
\* missing gets to q's end
Apart(p, q) ==
  /\ \E i \in 1 .. Len(p) : Differ(p, q, i)
  /\ Len(q) < Len(p) =>
       \E i \in 1 .. Len(p) : Differ(p, q, i) /\ \A j \in 1 .. i : p[j] # "+"

\* What the properties ask of the topics, and the station's topics are: no "#",
\* no empty level but before a first slash, none hides in another one; that of
\* the mobiles begins with a slash, that of the binary answers does not and has
\* seven levels.
MqttTopicAssumption ==
  /\ Filters \subseteq Seq(STRING) /\ Levels \subseteq STRING /\ MaxFilters \in Nat
  /\ \A f \in Filters :
       /\ f # <<>> /\ f[1] # "+"
       /\ \A i \in 1 .. Len(f) : f[i] # "#" /\ (i # 1 => f[i] # NoLevel)
       /\ (Len(f) = 7 /\ f[3] = "mobile") => f[1] = NoLevel
       /\ (Len(f) >= 2 /\ f[2] = "bin") => Len(f) = 7 /\ f[1] # NoLevel
  /\ \A f, g \in Filters : f # g => Apart(splitString(f), splitString(g))

\* no level is empty, but that before a first slash
Full(t) == \A i \in 2 .. Len(t) : t[i] # NoLevel

\* With the topics of the station nothing crashes, and each message goes to
\* the callback whose subscription brought it, whatever was registered first
\* (CloudProtocol.cpp:54-58, LocalProtocol.cpp:40-41).
StationDispatches ==
  topic # Idle =>
    /\ ~crashed
    /\ \A k \in 1 .. Len(actionCallbacks) :
         (Full(topic) /\ Matches(topic, actionCallbacks[k])) => handler = k

\* An answer goes to the mobile that asked: the third level is what stood for
\* the "+" (CloudProtocol.cpp:237, 261); and a binary answer has its seven
\* levels.
AnswerFindsTheMobile ==
  (topic # Idle /\ Full(topic) /\ handler # 0) =>
    LET filter == actionCallbacks[handler]
    IN  /\ (Len(filter) = 7 /\ filter[3] = "mobile") => Sender(topic) = topic[4]
        /\ (Len(filter) >= 2 /\ filter[2] = "bin") => TakesBin(topic)

TypeOK ==
  /\ actionCallbacks \in Seq(Filters)
  /\ \A k, l \in 1 .. Len(actionCallbacks) :
       actionCallbacks[k] = actionCallbacks[l] => k = l
  /\ topic \in Seq(STRING) /\ handler \in 0 .. Len(actionCallbacks)
  /\ crashed \in BOOLEAN

\* Inductive: what is dispatched was subscribed to, and found its callback.
IInv ==
  /\ TypeOK
  /\ ~crashed
  /\ topic # Idle =>
       /\ \E k \in 1 .. Len(actionCallbacks) : Matches(topic, actionCallbacks[k])
       /\ handler = findActionCallbackFuncFromTopic(topic)
=============================================================================
