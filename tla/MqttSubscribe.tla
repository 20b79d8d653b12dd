--------------------------- MODULE MqttSubscribe ---------------------------
(***************************************************************************)
(* Mqtt::Subscribe and Unsubscribe: a request is sent, and the caller      *)
(* polls a record of its own stack frame that on_subscribe or              *)
(* on_unsubscribe, on mosquitto's thread, marks when the broker's answer   *)
(* with the request's number comes.  The callers exclude each other; the   *)
(* mosquitto thread takes no lock.  The record is in the list before its   *)
(* number is set: until then it has any value.                             *)
(*                                                                         *)
(* The handlers' range-for holds a reference to the vector's one slot and  *)
(* reads the pointer through it to compare the number and, unless the      *)
(* build kept it in a register, again to mark the record.  Between these   *)
(* the call may return and the next one of any thread push its record into *)
(* the slot.  A record of a call that returned is a dead part of its       *)
(* thread's stack: its number reads as anything, and a mark of it can land *)
(* in the record of the thread's next call.                                *)
(***************************************************************************)
EXTENDS Naturals, Sequences, FiniteSets

CONSTANTS
  Calls,       \* calls of Subscribe and Unsubscribe
  Subscribes,  \* those of Subscribe
  Callers,     \* the threads: the calls of each
  maxTime,     \* how often a request is repeated
  MaxRequests  \* bound: requests mosquitto takes, those of SubscribeList included

ASSUME MqttSubscribeAssumption ==
  /\ Subscribes \subseteq Calls /\ maxTime \in Nat /\ MaxRequests \in Nat
  /\ UNION Callers = Calls
  /\ {"free", "none"} \cap Calls = {}

Free == "free"
None == "none"
Unset == 0      \* the number of a record that has none, or that is dead: it
                \* reads as anything
Idle == [kind |-> None, mid |-> 0, matched |-> None]

VARIABLES
  pc, rs,      \* where each call stands, and what it returned
  state,       \* its record
  id,          \* the number in its record, or Unset
  tries,       \* repetitions so far
  mtx,         \* its owner
  mqttSubscribes, mqttUnsubscribes,   \* the records waiting: their calls
  slot,        \* what the first slot of each list holds: the last call pushed
  last,        \* mosquitto's last number
  sent,        \* requests without an answer
  handling,    \* the answer a handler is at and the call it matched, or Idle
  mids,        \* history: each call's numbers
  answered,    \* history: numbers answered
  stray,       \* history: calls whose record matched an answer to another
  torn,        \* history: calls that began while an answer was being handled
  deadWrites   \* history: calls marked after they returned

subVars == <<pc, rs, state, id, tries, mtx, mqttSubscribes, mqttUnsubscribes, slot,
             last, sent, handling, mids, answered, stray, torn, deadWrites>>
lists == <<mqttSubscribes, mqttUnsubscribes>>
pushed == <<slot, torn>>
mosquitto == <<last, sent, mids>>
handler == <<handling, answered, stray, deadWrites>>

Kinds == {"subscribe", "unsubscribe"}
Kind(c) == IF c \in Subscribes THEN "subscribe" ELSE "unsubscribe"
SameThread(c, d) == \E t \in Callers : {c, d} \subseteq t

SubInit ==
  /\ pc = [c \in Calls |-> "call"]
  /\ rs = [c \in Calls |-> None]
  /\ state = [c \in Calls |-> FALSE]
  /\ id = [c \in Calls |-> Unset]
  /\ tries = [c \in Calls |-> 0]
  /\ mtx = Free
  /\ mqttSubscribes = {} /\ mqttUnsubscribes = {}
  /\ slot = [kind \in Kinds |-> None]
  /\ last = 0 /\ sent = {} /\ handling = Idle
  /\ mids = [c \in Calls |-> {}]
  /\ answered = {} /\ stray = {} /\ torn = {} /\ deadWrites = {}

Goto(c, at) == pc' = [pc EXCEPT ![c] = at]

\* the record enters its list, its number still Unset
Enlist(c) ==
  /\ pc[c] = "call"
  /\ mtx = Free
  /\ mtx' = c
  /\ mqttSubscribes' = mqttSubscribes \cup ({c} \cap Subscribes)
  /\ mqttUnsubscribes' = mqttUnsubscribes \cup ({c} \ Subscribes)
  /\ slot' = [slot EXCEPT ![Kind(c)] = c]
  /\ torn' = IF handling = Idle THEN torn ELSE torn \cup {c}
  /\ Goto(c, "send")
  /\ UNCHANGED <<rs, id, tries, mosquitto, handler>>

\* A plausible bug: the record is not cleared.
BeginUncleared(c) ==
  /\ Enlist(c)
  /\ \E garbage \in BOOLEAN : state' = [state EXCEPT ![c] = garbage]
Begin(c) ==
  /\ Enlist(c)
  /\ state' = [state EXCEPT ![c] = FALSE]

\* mosquitto takes a request and numbers it
Request(c) ==
  /\ last < MaxRequests
  /\ last' = last + 1
  /\ sent' = sent \cup {[mid |-> last + 1, kind |-> Kind(c)]}
  /\ mids' = [mids EXCEPT ![c] = @ \cup {last + 1}]
  /\ id' = [id EXCEPT ![c] = last + 1]

\* the record leaves its list, and the call returns
Return(c, code) ==
  /\ rs' = [rs EXCEPT ![c] = code]
  /\ id' = [id EXCEPT ![c] = Unset]
  /\ mqttSubscribes' = mqttSubscribes \ {c}
  /\ mqttUnsubscribes' = mqttUnsubscribes \ {c}
  /\ mtx' = Free
  /\ Goto(c, "returned")

Send(c) ==
  /\ pc[c] = "send"
  /\ \/ /\ Request(c)
        /\ Goto(c, "wait")
        /\ UNCHANGED <<rs, lists, mtx>>
     \/ /\ Return(c, "CODE_ERROR")
        /\ UNCHANGED mosquitto
  /\ UNCHANGED <<state, tries, pushed, handler>>

\* A plausible bug: the call returns with its mutex locked.
ReturnLocked(c) ==
  /\ pc[c] = "wait" /\ tries[c] < maxTime
  /\ state[c]
  /\ rs' = [rs EXCEPT ![c] = "CODE_OK"]
  /\ mqttSubscribes' = mqttSubscribes \ {c}
  /\ mqttUnsubscribes' = mqttUnsubscribes \ {c}
  /\ Goto(c, "returned")
  /\ UNCHANGED <<state, id, tries, mtx, pushed, mosquitto, handler>>

\* Plausible bugs: the result is not looked at, the record stays in its list.
SucceedAnyway(c) ==
  /\ pc[c] = "wait" /\ tries[c] < maxTime
  /\ Return(c, "CODE_OK")
  /\ UNCHANGED <<state, tries, pushed, mosquitto, handler>>
Succeed(c) ==
  /\ pc[c] = "wait" /\ tries[c] < maxTime
  /\ state[c]
  /\ Return(c, "CODE_OK")
  /\ UNCHANGED <<state, tries, pushed, mosquitto, handler>>

\* the wait is over and the request is repeated, if mosquitto takes it
Repeat(c) ==
  /\ pc[c] = "wait"
  /\ tries[c] < maxTime
  /\ tries' = [tries EXCEPT ![c] = @ + 1]
  /\ Request(c) \/ UNCHANGED <<mosquitto, id>>
  /\ UNCHANGED <<pc, rs, state, mtx, lists, pushed, handler>>

TimeOut(c) ==
  /\ pc[c] = "wait"
  /\ tries[c] = maxTime
  /\ Return(c, "CODE_TIMEOUT")
  /\ UNCHANGED <<state, tries, pushed, mosquitto, handler>>

Step(c) == Begin(c) \/ Send(c) \/ Succeed(c) \/ Repeat(c) \/ TimeOut(c)
Subscribe(c) == c \in Subscribes /\ Step(c)
Unsubscribe(c) == c \in Calls \ Subscribes /\ Step(c)

\* SubscribeList: subscribe(NULL, ...), which nobody waits for
SubscribeOthers ==
  /\ last < MaxRequests
  /\ last' = last + 1
  /\ sent' = sent \cup {[mid |-> last + 1, kind |-> "subscribe"]}
  /\ UNCHANGED <<pc, rs, state, id, tries, mtx, lists, pushed, mids, handler>>
-----------------------------------------------------------------------------
(* The mosquitto thread.                                                   *)

\* an answer comes: the loop is entered if the list has a record
Answer(kind, list) ==
  /\ handling = Idle
  /\ \E r \in sent :
       /\ r.kind = kind
       /\ sent' = sent \ {r}
       /\ answered' = answered \cup {r.mid}
       /\ handling' = IF list = {} THEN Idle
                      ELSE [kind |-> kind, mid |-> r.mid, matched |-> None]
  /\ UNCHANGED <<pc, rs, state, id, tries, mtx, lists, pushed, last, mids, stray,
                 deadWrites>>

on_subscribe == Answer("subscribe", mqttSubscribes)
on_unsubscribe == Answer("unsubscribe", mqttUnsubscribes)

Comparing == handling # Idle /\ handling.matched = None
Marking == handling # Idle /\ handling.matched # None
quiet == <<pc, rs, id, tries, mtx, lists, pushed, mosquitto, answered>>

\* the record in the slot has the answer's number, or not
Match ==
  /\ Comparing
  /\ LET c == slot[handling.kind]
     IN  /\ id[c] \in {handling.mid, Unset}
         /\ handling' = [handling EXCEPT !.matched = c]
         /\ stray' = IF handling.mid \in mids[c] THEN stray ELSE stray \cup {c}
  /\ UNCHANGED <<quiet, state, deadWrites>>

Mismatch ==
  /\ Comparing
  /\ id[slot[handling.kind]] # handling.mid
  /\ handling' = Idle
  /\ UNCHANGED <<quiet, state, stray, deadWrites>>

\* the record that matched, or what its slot holds by now
setState ==
  /\ Marking
  /\ \E c \in {handling.matched, slot[handling.kind]} :
       IF pc[c] = "returned"
         THEN /\ deadWrites' = deadWrites \cup {c}
              /\ \/ UNCHANGED state
                 \/ /\ mtx # Free /\ SameThread(c, mtx)
                    /\ state' = [state EXCEPT ![mtx] = TRUE]
         ELSE state' = [state EXCEPT ![c] = TRUE] /\ UNCHANGED deadWrites
  /\ handling' = Idle
  /\ UNCHANGED <<quiet, stray>>

SubNext ==
  \/ \E c \in Calls : Subscribe(c)
  \/ \E c \in Calls : Unsubscribe(c)
  \/ SubscribeOthers \/ on_subscribe \/ on_unsubscribe \/ Match \/ Mismatch \/ setState

SubSpec == SubInit /\ [][SubNext]_subVars
FairSubSpec == SubSpec /\ \A c \in Calls : WF_subVars(Step(c))
-----------------------------------------------------------------------------
\* CODE_OK means that the broker answered one of the call's own requests,
\* unless an answer to another matched its record, or the call began while a
\* handler was at the record of an earlier one (Mqtt.cpp:140-143, 286-292).
OkIsGranted ==
  \A c \in Calls :
    rs[c] = "CODE_OK" => mids[c] \cap answered # {} \/ c \in stray \cup torn

\* The lists never hold more than the one call that has the mutex: the limit
\* of 100, at which an entry would be dropped, is never met (Mqtt.cpp:136, 177).
OneWaits ==
  mqttSubscribes \cup mqttUnsubscribes =
    IF mtx = Free THEN {} ELSE {mtx}

\* A call is marked after its return only if it gave up, had asked twice, was
\* matched by an answer to another or began while a handler was at an earlier
\* record: one request and its answer are safe (Mqtt.cpp:150-155, 286-292).
LateMarksAreRare ==
  \A c \in deadWrites :
    rs[c] # "CODE_OK" \/ Cardinality(mids[c]) > 1 \/ c \in stray \cup torn

\* Every call returns, however few answers come: each waits for those before
\* it, a bounded number of times.
AllReturn == <>(\A c \in Calls : pc[c] = "returned")
-----------------------------------------------------------------------------
(* The inductive invariant.                                                *)

SubTypeOK ==
  /\ pc \in [Calls -> {"call", "send", "wait", "returned"}]
  /\ rs \in [Calls -> {None, "CODE_OK", "CODE_ERROR", "CODE_TIMEOUT"}]
  /\ state \in [Calls -> BOOLEAN] /\ id \in [Calls -> Nat]
  /\ tries \in [Calls -> 0 .. maxTime]
  /\ mtx \in Calls \cup {Free} /\ slot \in [Kinds -> Calls \cup {None}]
  /\ handling \in {Idle} \cup [kind : Kinds, mid : answered, matched : Calls \cup {None}]
  /\ mqttSubscribes \subseteq Calls /\ mqttUnsubscribes \subseteq Calls
  /\ last \in Nat
  /\ sent \subseteq [mid : 1 .. last, kind : Kinds]
  /\ mids \in [Calls -> SUBSET (1 .. last)] /\ answered \subseteq 1 .. last
  /\ stray \subseteq Calls /\ torn \subseteq Calls /\ deadWrites \subseteq Calls

HolderInv ==
  /\ \A c \in Calls : pc[c] \in {"send", "wait"} <=> mtx = c
  /\ \A c \in Calls : pc[c] = "returned" <=> rs[c] # None
  /\ mqttSubscribes = {c \in Subscribes : mtx = c}
  /\ mqttUnsubscribes = {c \in Calls \ Subscribes : mtx = c}

NumberInv ==
  /\ \A r \in sent : r.mid \notin answered
  /\ \A r, s \in sent : r.mid = s.mid => r = s

\* A handler's slot holds a call, the one with the mutex unless that began
\* later; if not the record that matched, then one that began since.
SlotInv ==
  /\ \A c \in Calls : mtx = c => slot[Kind(c)] = c
  /\ handling # Idle =>
       /\ slot[handling.kind] \in Calls
       /\ handling.matched \in {None, slot[handling.kind]} \/ slot[handling.kind] \in torn
       /\ \A c \in Calls \ torn : mtx = c => slot[handling.kind] = c

Missed(c) == c \in stray \cup torn

\* What marked a record that nothing else met is an answer already handled.
GrantInv ==
  /\ Marking => handling.mid \in mids[handling.matched] \/ handling.matched \in stray
  /\ \A c \in Calls :
       /\ state[c] =>
            Missed(c) \/ \E m \in mids[c] \cap answered : handling = Idle \/ handling.mid # m
       /\ rs[c] = "CODE_OK" => state[c]

\* the call has asked once, and no answer to another has met its record
Simple(c) == ~Missed(c) /\ \A m, n \in mids[c] : m = n
DeadInv ==
  \A c \in deadWrites : pc[c] = "returned" /\ (Simple(c) => rs[c] # "CODE_OK")

\* What makes the properties above inductive: the holder of the mutex is the
\* one record in the lists, and an answer is handled once (Mqtt.cpp:130-215).
SubInv == SubTypeOK /\ HolderInv /\ NumberInv /\ SlotInv /\ GrantInv /\ DeadInv
=============================================================================
