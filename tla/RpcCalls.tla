------------------------------ MODULE RpcCalls ------------------------------
(***************************************************************************)
(* The calling side of the remote calls over MQTT, which CloudProtocol and *)
(* LocalProtocol have in common, and the steps their response handlers     *)
(* have in common.                                                         *)
(*                                                                         *)
(* A call puts a pointer to a record of its own stack frame in a map, under *)
(* the identifier (rqi) it publishes, polls the record's status, and       *)
(* removes the entry.  A response is handled on a detached thread of its   *)
(* own, which looks its rqi up in the map and writes through the pointer   *)
(* it finds there.  The map has no lock: each access is a step.            *)
(*                                                                         *)
(* A thread makes its calls one after the other, and the record of a call  *)
(* may lie where that of an earlier one lay, to the other side too         *)
(* (Device.cpp:162-163): a handler that still points to the earlier one    *)
(* writes to the later.                                                    *)
(*                                                                         *)
(* genRandRQI seeds rand with the current second, so an rqi is the second  *)
(* in which it was made.                                                   *)
(***************************************************************************)
EXTENDS Naturals, FiniteSets

CONSTANTS
  Calls,        \* the calls made
  Thread,       \* the thread that makes each
  None,         \* no entry, no call
  Locals,       \* the calls to the local broker; the others are to the cloud
  Given,        \* those whose caller gives the rqi (session and index)
  BinCalls,     \* those of them that wait in requestBinList, for bytes
  Wants,        \* those with a place for the response's data
  RespCmd,      \* the command each call waits for
  Timeout,      \* the number of 1 ms waits (0 in every call of the station)
  MaxSeconds,   \* bound: seconds in which calls begin
  MaxAnswers    \* bound: answers to one request

\* the identifiers drawn: the map they are in, and the second
Seconds == {"cloud", "local"} \X (1 .. MaxSeconds)

ASSUME RpcCallsAssumption ==
  /\ None \notin Calls \cup Seconds
  /\ Given \cap Seconds = {}
  /\ BinCalls \subseteq Given /\ Given \subseteq Calls \ Locals
  /\ Locals \subseteq Calls
  /\ BinCalls \subseteq Wants /\ Wants \subseteq Calls
  /\ Timeout \in Nat
  /\ MaxSeconds \in Nat \ {0}
  /\ MaxAnswers \in Nat

VARIABLES
  now,          \* the second
  pc,           \* where each call stands
  rqi,          \* its identifier, with the map it is in
  left,         \* its remaining waits
  status,       \* its record: status
  rs,           \* what it returned
  requestList,  \* the three maps: identifier to call, or None
  answers,      \* how often each request was answered
  handlers,     \* the responses being handled
  answeredBy,   \* history: whose answer raised each call's status
  promised,     \* history: calls whose status was raised by an answer with data
  dataOf,       \* history: whose answer's data were put in each call's place
  deadUses,     \* history: calls whose record a handler used after they returned
  torn,         \* history: calls that began with a handler still pointing to
                \* an earlier call of their thread
  crashed       \* the process died of a null pointer

vars == <<now, pc, rqi, left, status, rs, requestList, answers, handlers,
          answeredBy, promised, dataOf, deadUses, torn, crashed>>
call == <<pc, rqi, left, rs>>
history == <<answeredBy, promised, dataOf, deadUses>>

\* those drawn, and those that callers give
Keys == Seconds \cup Given

Registered == {"publish", "poll", "judge", "erase"}

Init ==
  /\ now = 1
  /\ pc = [c \in Calls |-> "call"]
  /\ rqi = [c \in Calls |-> None]
  /\ left = [c \in Calls |-> Timeout]
  /\ status = [c \in Calls |-> FALSE]
  /\ rs = [c \in Calls |-> "none"]
  /\ requestList = [k \in Keys |-> None]
  /\ answers = [c \in Calls |-> 0]
  /\ handlers = {}
  /\ answeredBy = [c \in Calls |-> None]
  /\ promised = {}
  /\ dataOf = [c \in Calls |-> None]
  /\ deadUses = {}
  /\ torn = {}
  /\ crashed = FALSE

Tick ==
  /\ now < MaxSeconds
  /\ now' = now + 1
  /\ UNCHANGED <<call, status, requestList, answers, handlers, history, torn,
                 crashed>>
-----------------------------------------------------------------------------
(* A call: PublishToCloudMessage, PublishToLocalMessage and the like.      *)

Goto(c, at) == pc' = [pc EXCEPT ![c] = at]

\* the thread of c is in no other call
Free(c) == \A d \in Calls : Thread[d] = Thread[c] => pc[d] \notin Registered

\* not connected: nothing is sent
Refused(c) ==
  /\ pc[c] = "call" /\ Free(c)
  /\ rs' = [rs EXCEPT ![c] = "CODE_TIMEOUT"]
  /\ Goto(c, "returned")
  /\ UNCHANGED <<now, rqi, left, status, requestList, answers, handlers,
                 history, torn, crashed>>

Side(c) == IF c \in Locals THEN "local" ELSE "cloud"
genRandRQI(c) == IF c \in Given THEN c ELSE <<Side(c), now>>

\* a handler holds a pointer to an earlier call of c's thread
PointedAt(c) ==
  \E h \in handlers :
    h.target # None /\ Thread[h.target] = Thread[c] /\ pc[h.target] = "returned"

Register(c) ==
  /\ pc[c] = "call" /\ Free(c)
  /\ rqi' = [rqi EXCEPT ![c] = genRandRQI(c)]
  /\ requestList' = [requestList EXCEPT ![genRandRQI(c)] = c]
  /\ torn' = IF PointedAt(c) THEN torn \cup {c} ELSE torn
  /\ Goto(c, "publish")
  /\ UNCHANGED <<now, left, status, rs, answers, handlers, history, crashed>>

\* the result of Publish is ignored: a lost request is one never answered
Publish(c) ==
  /\ pc[c] = "publish"
  /\ Goto(c, "poll")
  /\ UNCHANGED <<now, rqi, left, status, rs, requestList, answers, handlers,
                 history, torn, crashed>>

\* Plausible bugs: the wait has no bound, wraps around below zero, or ends
\* with the entry removed.
PollForever(c) ==
  /\ pc[c] = "poll"
  /\ status[c]
  /\ Goto(c, "judge")
  /\ UNCHANGED <<now, rqi, left, status, rs, requestList, answers, handlers,
                 history, torn, crashed>>
PollErasing(c) ==
  /\ pc[c] = "poll"
  /\ status[c] \/ left[c] = 0
  /\ Goto(c, "judge")
  /\ requestList' = [requestList EXCEPT ![rqi[c]] = None]
  /\ UNCHANGED <<now, rqi, left, status, rs, answers, handlers, history, torn,
                 crashed>>

\* while (!request.status && timeout--)
Poll(c) ==
  /\ pc[c] = "poll"
  /\ IF status[c] \/ left[c] = 0
       THEN Goto(c, "judge") /\ UNCHANGED left
       ELSE left' = [left EXCEPT ![c] = @ - 1] /\ UNCHANGED pc
  /\ UNCHANGED <<now, rqi, status, rs, requestList, answers, handlers, history,
                 torn, crashed>>

\* A plausible bug: a request that was published counts as done.
JudgePublished(c) ==
  /\ pc[c] = "judge"
  /\ rs' = [rs EXCEPT ![c] = "CODE_OK"]
  /\ Goto(c, "erase")
  /\ UNCHANGED <<now, rqi, left, status, requestList, answers, handlers,
                 history, torn, crashed>>

\* if (!request.status) reads the status once more
Judge(c) ==
  /\ pc[c] = "judge"
  /\ rs' = [rs EXCEPT ![c] = IF status[c] THEN "CODE_OK" ELSE "CODE_ERROR"]
  /\ Goto(c, "erase")
  /\ UNCHANGED <<now, rqi, left, status, requestList, answers, handlers,
                 history, torn, crashed>>

\* by rqi, whoever's entry that is
Erase(c) ==
  /\ pc[c] = "erase"
  /\ requestList' = [requestList EXCEPT ![rqi[c]] = None]
  /\ Goto(c, "returned")
  /\ UNCHANGED <<now, rqi, left, status, rs, answers, handlers, history, torn,
                 crashed>>

CallStep(c) ==
  Refused(c) \/ Register(c) \/ Publish(c) \/ Poll(c) \/ Judge(c) \/ Erase(c)
-----------------------------------------------------------------------------
(* The other side answers; each response gets a handler thread.            *)

\* with an object "data" or without one; of bytes, as many as fit are copied
Respond(c) ==
  /\ pc[c] \notin {"call", "publish"}
  /\ rs[c] # "CODE_TIMEOUT"
  /\ answers[c] < MaxAnswers
  /\ answers' = [answers EXCEPT ![c] = @ + 1]
  /\ \E d \in BOOLEAN :
       /\ c \in BinCalls => d
       /\ handlers' = handlers \cup
            {[to |-> c, nr |-> answers[c], data |-> d, at |-> "find",
              target |-> None]}
  /\ UNCHANGED <<now, call, status, requestList, history, torn, crashed>>

Moves(h, at) == handlers' = (handlers \ {h}) \cup {[h EXCEPT !.at = at]}
Ends(h) == handlers' = handlers \ {h}

\* requestList.find(rqi) != requestList.end()
Find(h) ==
  /\ h.at = "find"
  /\ IF requestList[rqi[h.to]] = None THEN Ends(h) ELSE Moves(h, "look")
  /\ UNCHANGED <<now, call, status, requestList, answers, history, torn, crashed>>

\* requestList[rqi], a second look: an entry erased since is inserted again,
\* as a null pointer, and read through
Look(h) ==
  /\ h.at = "look"
  /\ LET c == requestList[rqi[h.to]]
     IN  /\ crashed' = (c = None)
         /\ handlers' = (handlers \ {h}) \cup
              {[h EXCEPT !.at = "compare", !.target = c]}
  /\ UNCHANGED <<now, call, status, requestList, answers, history, torn>>

\* A plausible bug: the command of the response is not compared.
AnyCommand(h) ==
  /\ h.at = "compare"
  /\ Moves(h, "first")
  /\ UNCHANGED <<now, call, status, requestList, answers, history, torn, crashed>>

\* cmd == request->respCmd; the string of a call that returned is gone, and
\* comparing it has either outcome
Compare(h) ==
  /\ h.at = "compare"
  /\ \/ /\ pc[h.target] = "returned" \/ RespCmd[h.to] = RespCmd[h.target]
        /\ Moves(h, "first")
     \/ /\ pc[h.target] = "returned" \/ RespCmd[h.to] # RespCmd[h.target]
        /\ Ends(h)
  /\ UNCHANGED <<now, call, status, requestList, answers, history, torn, crashed>>

\* the calls whose record may lie where that of t lay
Reused(t) == {d \in Calls \ {t} : Thread[d] = Thread[t] /\ pc[d] \in Registered}

RaiseIn(d, h) ==
  /\ status' = [status EXCEPT ![d] = TRUE]
  /\ answeredBy' = [answeredBy EXCEPT ![d] = h.to]

\* request->status = true
RaiseStatus(c, h) ==
  /\ IF pc[c] = "returned"
       THEN /\ deadUses' = deadUses \cup {c}
            /\ \/ UNCHANGED <<status, answeredBy>>
               \/ \E d \in Reused(c) : RaiseIn(d, h)
            /\ UNCHANGED promised
       ELSE /\ RaiseIn(c, h)
            /\ promised' = IF h.data THEN promised \cup {c} ELSE promised
            /\ UNCHANGED deadUses
  /\ UNCHANGED dataOf

\* if (request->respValue && isMember("data") && isObject())
\*   *request->respValue = payloadJson["data"]
CopyIn(d, h) ==
  /\ h.data /\ d \in Wants
  /\ dataOf' = [dataOf EXCEPT ![d] = h.to]

CopyData(c, h) ==
  /\ IF pc[c] = "returned"
       THEN /\ deadUses' = deadUses \cup {c}
            /\ UNCHANGED dataOf \/ \E d \in Reused(c) : CopyIn(d, h)
       ELSE /\ CopyIn(c, h) \/ (~(h.data /\ c \in Wants) /\ UNCHANGED dataOf)
            /\ UNCHANGED deadUses
  /\ UNCHANGED <<status, answeredBy, promised>>
-----------------------------------------------------------------------------
TypeOK ==
  /\ now \in 1 .. MaxSeconds
  /\ pc \in [Calls -> {"call", "returned"} \cup Registered]
  /\ rqi \in [Calls -> Keys \cup {None}]
  /\ left \in [Calls -> 0 .. Timeout]
  /\ status \in [Calls -> BOOLEAN]
  /\ rs \in [Calls -> {"none", "CODE_OK", "CODE_ERROR", "CODE_TIMEOUT"}]
  /\ requestList \in [Keys -> Calls \cup {None}]
  /\ answers \in [Calls -> 0 .. MaxAnswers]
  /\ handlers \subseteq
       [to : Calls, nr : Nat, data : BOOLEAN,
        at : {"find", "look", "compare", "first", "second"},
        target : Calls \cup {None}]
  /\ answeredBy \in [Calls -> Calls \cup {None}]
  /\ dataOf \in [Calls -> Calls \cup {None}]
  /\ promised \subseteq Calls /\ deadUses \subseteq Calls /\ torn \subseteq Calls
  /\ crashed \in BOOLEAN

\* The map holds no pointer to a call that has returned, even when calls of
\* one second share an rqi and erase each other's entries
\* (CloudProtocol.cpp:420, 435).
ListPointsToCalls ==
  \A k \in Keys : requestList[k] # None =>
    /\ pc[requestList[k]] \in Registered
    /\ rqi[requestList[k]] = k

\* no other call had the same rqi
Alone(c) == \A d \in Calls \ {c} : rqi[d] # rqi[c]

\* CODE_OK means that an answer came; to this command, unless the call began
\* with a handler still writing to an earlier one of its thread; and then to
\* this very call, unless another call had the same rqi
\* (Util.cpp:41, CloudProtocol.cpp:182-188).
OkIsAnswered ==
  \A c \in Calls : rs[c] = "CODE_OK" =>
    /\ answeredBy[c] # None
    /\ c \notin torn =>
         /\ c \notin BinCalls => RespCmd[answeredBy[c]] = RespCmd[c]
         /\ Alone(c) => answeredBy[c] = c

\* A call to the cloud that had its rqi to itself, was answered once and began
\* with no handler writing to its thread ends undisturbed when it ends with
\* CODE_OK: nothing touches its frame afterwards (CloudProtocol.cpp:186-188, 427-435).
OkIsFinal ==
  \A c \in Calls \ Locals :
    (rs[c] = "CODE_OK" /\ Alone(c) /\ answers[c] <= 1 /\ c \notin torn) =>
       /\ c \notin deadUses
       /\ \A h \in handlers : h.target # c

\* If an answer with data raised the status of a call to the cloud, the caller
\* that returns CODE_OK has data; an answer without any raises it as well
\* (CloudProtocol.cpp:184-188).
OkIsComplete ==
  \A c \in Wants \ Locals :
    rs[c] = "CODE_OK" /\ c \in promised => dataOf[c] # None

\* Whatever a call returns, CODE_ERROR too, the data in its place are of an
\* answer to itself, unless its rqi was shared or a handler was still writing
\* to an earlier call of its thread (CloudProtocol.cpp:181-187).
DataAreOwn(c) ==
  c \in Wants /\ Alone(c) /\ c \notin torn /\ dataOf[c] # None => dataOf[c] = c

\* On the local broker the data of such an answer are there when the call
\* returns CODE_OK, or the handler is about to copy them, or it found the
\* frame gone: they are late, not forgotten (LocalProtocol.cpp:203-207).
DataAreLate ==
  \A c \in Wants \cap Locals : rs[c] = "CODE_OK" /\ c \in promised =>
    \/ dataOf[c] # None
    \/ c \in deadUses
    \/ \E h \in handlers : h.target = c /\ h.at = "second" /\ h.data

\* The second look at the map meets an erased entry only if a call that was
\* sent gave up under the handler, shared its rqi or was answered twice
\* (CloudProtocol.cpp:179-182).
CrashNeedsARace ==
  crashed => \E c \in Calls :
    /\ pc[c] = "returned" /\ rqi[c] # None
    /\ rs[c] = "CODE_ERROR" \/ ~Alone(c) \/ answers[c] > 1

\* The refinement of RpcCall.
phase == [c \in Calls |->
  IF pc[c] = "call" THEN "idle" ELSE IF rs[c] = "none" THEN "waiting" ELSE rs[c]]
answered == {c \in Calls : answeredBy[c] # None /\ rs[c] # "CODE_ERROR"}
=============================================================================
