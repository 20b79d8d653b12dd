-------------------------------- MODULE Rpc --------------------------------
(***************************************************************************)
(* The calls of both protocol objects, the cloud's and the local broker's: *)
(* they are built from the same steps over a record on the caller's stack, *)
(* and differ in what answers them and in what its handler writes first.   *)
(* A thread calls one after the other, so a handler that is late for a     *)
(* call may write to the next one, of the other object too.                *)
(***************************************************************************)
EXTENDS CloudRpc, LocalRpc

RpcNext == ~crashed /\ (Tick \/ CloudNext \/ LocalNext)

RpcSpec == Init /\ [][RpcNext]_vars

\* What CODE_OK to the cloud says of the frame and of the data in it, and what
\* any code says of whose data these are (CloudProtocol.cpp:181-194).
CloudOkIsFinal == OkIsFinal /\ OkIsComplete /\ \A c \in Calls \ Locals : DataAreOwn(c)

\* On the local broker the status is raised before the data are copied
\* (LocalProtocol.cpp:203-207): they may come late, but are not forgotten, and
\* are the call's own.
LocalDataAreLate == DataAreLate /\ \A c \in Locals : DataAreOwn(c)

\* A call that began ends: it waits a bounded time, whoever answers or erases
\* its entry (CloudProtocol.cpp:427-437).
CallsReturn ==
  \A c \in Calls : pc[c] = "publish" ~> (pc[c] = "returned" \/ crashed)

\* The calls keep the promise of RpcCall.
Abstract == INSTANCE RpcCall
ImplementsRpcCall == Abstract!Spec
-----------------------------------------------------------------------------
(* The strengthening that makes the invariants inductive, in parts.        *)

\* what a call's identifier and result are at each place
KeyInv ==
  \A c \in Calls :
    /\ pc[c] = "call" => rqi[c] = None /\ rs[c] = "none" /\ ~status[c]
    /\ pc[c] \in {"publish", "poll", "judge"} => rs[c] = "none"
    /\ pc[c] \in {"erase", "returned"} => rs[c] # "none"
    /\ rs[c] = "CODE_TIMEOUT" => pc[c] = "returned" /\ rqi[c] = None
    /\ pc[c] # "call" /\ rs[c] # "CODE_TIMEOUT" => rqi[c] # None
    /\ rqi[c] # None => IF c \in Given THEN rqi[c] = c
                        ELSE rqi[c] \in {Side(c)} \X (1 .. MaxSeconds)

\* the entry of a call that waits is missing only if one of its rqi returned
EntryInv ==
  \A c \in Calls : pc[c] \in Registered /\ requestList[rqi[c]] = None =>
    \E d \in Calls : pc[d] = "returned" /\ rqi[d] = rqi[c]

\* what a handler may write to; only the handler that crashes found no call
HandlerInv ==
  \A h \in handlers :
    /\ pc[h.to] # "call" /\ rs[h.to] # "CODE_TIMEOUT"
    /\ h.at \in {"compare", "first", "second"} =>
         \/ crashed /\ h.at = "compare" /\ h.target = None
         \/ /\ h.target # None /\ pc[h.target] # "call"
            /\ rqi[h.target] = rqi[h.to]
    /\ h.at \in {"find", "look"} => h.target = None
    /\ h.at \in {"first", "second"} =>
         \/ pc[h.target] = "returned"
         \/ h.target \in BinCalls
         \/ RespCmd[h.to] = RespCmd[h.target]

\* each answer has one handler
NumberInv ==
  /\ \A h \in handlers : h.nr < answers[h.to]
  /\ \A g, h \in handlers : g.to = h.to /\ g.nr = h.nr => g = h

\* A thread is in one call, and only a call that began so has handlers that
\* point to an earlier one.
ThreadInv ==
  /\ \A c, d \in Calls :
       pc[c] \in Registered /\ pc[d] \in Registered /\ Thread[c] = Thread[d] => c = d
  /\ \A c \in Calls : pc[c] \in Registered /\ c \notin torn => ~PointedAt(c)

\* what a raised status means
StatusInv ==
  \A c \in Calls :
    /\ status[c] <=> answeredBy[c] # None
    /\ rs[c] = "CODE_OK" => status[c]
    /\ status[c] => rqi[c] # None /\ answers[answeredBy[c]] > 0
    /\ status[c] /\ c \notin torn =>
         /\ rqi[answeredBy[c]] = rqi[c]
         /\ c \in BinCalls \/ RespCmd[answeredBy[c]] = RespCmd[c]

Undisturbed(c) == Alone(c) /\ answers[c] <= 1

\* The one answer to a call that is alone is spent when it has raised the
\* status; on the local broker its handler may still have the data to copy.
SpentInv ==
  \A c \in Calls : status[c] /\ Undisturbed(c) /\ answeredBy[c] = c =>
    \A h \in handlers : h.to = c => c \in Locals /\ h.at = "second"

\* Frames are touched after their call only as that leaves room for.
DeadInv ==
  \A c \in deadUses :
    /\ pc[c] = "returned"
    /\ rs[c] = "CODE_OK" /\ Undisturbed(c) /\ c \notin torn => c \in Locals

\* a call that was sent gave up, shared its rqi or was answered twice
Race ==
  \E c \in Calls :
    /\ pc[c] = "returned" /\ rqi[c] # None
    /\ rs[c] = "CODE_ERROR" \/ ~Alone(c) \/ answers[c] > 1

\* The status of a call that is alone is raised by another's answer only
\* after a race.
StrayInv == (\E c \in Calls : status[c] /\ Alone(c) /\ answeredBy[c] # c) => Race

\* the data come before the status, or after it; and from the call's rqi
DataInv ==
  /\ \A h \in handlers :
       h.at = "second" /\ h.to \notin Locals /\ h.data /\ h.target \in Wants =>
         dataOf[h.target] # None \/ pc[h.target] = "returned"
  /\ \A c \in promised : pc[c] # "call"
  /\ \A c \in Wants \cap promised :
       \/ dataOf[c] # None
       \/ /\ c \in Locals
          /\ \/ c \in deadUses
             \/ \E h \in handlers : h.target = c /\ h.at = "second" /\ h.data
  /\ \A c \in Calls : dataOf[c] # None =>
       /\ pc[c] # "call"
       /\ c \notin torn => rqi[c] # None /\ rqi[dataOf[c]] = rqi[c]

IInv ==
  /\ TypeOK /\ ListPointsToCalls /\ KeyInv /\ EntryInv
  /\ HandlerInv /\ NumberInv /\ ThreadInv /\ StatusInv
  /\ SpentInv /\ DeadInv /\ StrayInv /\ DataInv
=============================================================================
