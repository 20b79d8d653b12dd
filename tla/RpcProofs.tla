----------------------------- MODULE RpcProofs -----------------------------
(***************************************************************************)
(* Proofs about Rpc, for any number of calls, threads, seconds, answers    *)
(* and waits, to either side: the types, where the map's pointers point,   *)
(* what CODE_OK means and what can still be written after it, whose data a *)
(* caller finds, what it takes to read through a null pointer, and that    *)
(* the calls implement RpcCall.                                            *)
(***************************************************************************)
EXTENDS Rpc, TLAPS

LEMMA KeyFacts ==
  /\ None \notin Keys /\ None \notin Calls
  /\ Given \subseteq Calls
  /\ \A c \in Given : c \notin Seconds /\ c \notin Locals
  /\ Given \subseteq Keys /\ Seconds \subseteq Keys
BY RpcCallsAssumption DEF RpcCallsAssumption, Keys

(* What genRandRQI draws is of the call's own side.                        *)
LEMMA Drawn ==
  ASSUME NEW c
  PROVE  {Side(c)} \X (1 .. MaxSeconds) \subseteq Seconds
<1>1. Side(c) \in {"cloud", "local"}
  BY DEF Side
<1> QED BY <1>1 DEF Seconds

LEMMA InitIInv == Init => IInv
<1> SUFFICES ASSUME Init PROVE IInv
  OBVIOUS
<1>1. TypeOK
  <2>1. /\ 1 \in 1 .. MaxSeconds
        /\ Timeout \in 0 .. Timeout
        /\ 0 \in 0 .. MaxAnswers
    BY RpcCallsAssumption DEF RpcCallsAssumption
  <2>2. /\ pc \in [Calls -> {"call", "returned"} \cup Registered]
        /\ rqi \in [Calls -> Keys \cup {None}]
        /\ requestList \in [Keys -> Calls \cup {None}]
        /\ rs \in [Calls -> {"none", "CODE_OK", "CODE_ERROR", "CODE_TIMEOUT"}]
    BY DEF Init
  <2>3. /\ left \in [Calls -> 0 .. Timeout]
        /\ answers \in [Calls -> 0 .. MaxAnswers]
        /\ status \in [Calls -> BOOLEAN] /\ crashed \in BOOLEAN
        /\ answeredBy \in [Calls -> Calls \cup {None}]
        /\ dataOf \in [Calls -> Calls \cup {None}]
    BY <2>1 DEF Init
  <2> QED BY <2>1, <2>2, <2>3 DEF Init, TypeOK
<1>2. ListPointsToCalls
  BY DEF Init, ListPointsToCalls
<1>3. KeyInv /\ EntryInv
  BY RpcCallsAssumption DEF Init, KeyInv, EntryInv, Registered
<1>4. HandlerInv /\ NumberInv /\ StatusInv
  BY RpcCallsAssumption DEF Init, HandlerInv, NumberInv, StatusInv
<1>5. ThreadInv
  BY DEF Init, ThreadInv, Registered
<1>6. SpentInv /\ DeadInv /\ StrayInv /\ DataInv
  BY DEF Init, SpentInv, DeadInv, StrayInv, DataInv
<1> QED BY <1>1, <1>2, <1>3, <1>4, <1>5, <1>6 DEF IInv
-----------------------------------------------------------------------------
(* What the steps keep. *)

HandlerType ==
  [to : Calls, nr : Nat, data : BOOLEAN,
   at : {"find", "look", "compare", "first", "second"},
   target : Calls \cup {None}]

LEMMA HandlersTyped == IInv => handlers \subseteq HandlerType
BY DEF IInv, TypeOK, HandlerType

(* A handler points to a call that began, and has the identifier of it.    *)
LEMMA Targets ==
  ASSUME IInv, NEW h \in handlers, h.target # None
  PROVE  /\ h.target \in Calls /\ h.to \in Calls
         /\ pc[h.target] # "call" /\ rqi[h.target] = rqi[h.to]
BY HandlersTyped DEF HandlerType, IInv, HandlerInv

(* An identifier names one call only, unless another call carries it too.  *)
LEMMA AloneFacts ==
  ASSUME NEW c \in Calls, NEW d \in Calls, Alone(c), rqi[d] = rqi[c]
  PROVE  c = d
BY DEF Alone

(* The calls of one identifier are to one side.                            *)
LEMMA SameSide ==
  ASSUME IInv, NEW c \in Calls, NEW d \in Calls, rqi[c] = rqi[d], rqi[c] # None
  PROVE  c \in Locals <=> d \in Locals
<1>1. /\ IF c \in Given THEN rqi[c] = c
         ELSE rqi[c] \in {Side(c)} \X (1 .. MaxSeconds)
      /\ IF d \in Given THEN rqi[d] = d
         ELSE rqi[d] \in {Side(d)} \X (1 .. MaxSeconds)
  BY DEF IInv, KeyInv
<1>2. CASE c \in Given \/ d \in Given
  BY <1>1, <1>2, Drawn, KeyFacts
<1>3. CASE c \notin Given /\ d \notin Given
  <2>1. rqi[c][1] = Side(c) /\ rqi[d][1] = Side(d)
    BY <1>1, <1>3
  <2>2. Side(c) = Side(d)
    BY <2>1
  <2> QED BY <2>2 DEF Side
<1> QED BY <1>2, <1>3

(* A step keeps the identifiers, what returned, and how often was answered. *)
Lasting ==
  \A c \in Calls :
    /\ rqi[c] # None => rqi'[c] = rqi[c]
    /\ pc[c] = "returned" /\ rqi[c] # None => pc'[c] = "returned" /\ rs'[c] = rs[c]
    /\ answers[c] > 1 => answers'[c] > 1

LEMMA RaceLasts ==
  ASSUME IInv, Lasting, Race PROVE Race'
<1>1. PICK c \in Calls : /\ pc[c] = "returned" /\ rqi[c] # None
                         /\ rs[c] = "CODE_ERROR" \/ ~Alone(c) \/ answers[c] > 1
  BY DEF Race
<1>2. pc'[c] = "returned" /\ rs'[c] = rs[c] /\ rqi'[c] = rqi[c] /\ rqi'[c] # None
  BY <1>1 DEF Lasting
<1>3. ~Alone(c) => ~Alone(c)'
  BY <1>1, <1>2 DEF Alone, Lasting
<1>4. answers[c] > 1 => answers'[c] > 1
  BY DEF Lasting
<1> QED BY <1>1, <1>2, <1>3, <1>4 DEF Race

LEMMA StrayKept ==
  ASSUME IInv, Lasting, UNCHANGED <<status, answeredBy>> PROVE StrayInv'
<1> SUFFICES ASSUME NEW c \in Calls, status[c], Alone(c)', answeredBy[c] # c
             PROVE  Race'
  BY DEF StrayInv
<1>1. rqi[c] # None
  BY DEF IInv, StatusInv
<1>2. Alone(c)
  BY <1>1 DEF Alone, Lasting
<1> QED BY <1>2, RaceLasts DEF IInv, StrayInv

(* A call that ends or moves on disturbs no thread.                        *)
LEMMA ThreadKept ==
  ASSUME IInv, UNCHANGED <<handlers, torn>>,
         \A c \in Calls : pc'[c] \in Registered => pc[c] \in Registered
  PROVE  ThreadInv'
<1>1. \A c, d \in Calls :
        pc'[c] \in Registered /\ pc'[d] \in Registered /\ Thread[c] = Thread[d] => c = d
  BY DEF IInv, ThreadInv
<1>2. ASSUME NEW c \in Calls, pc'[c] \in Registered, c \notin torn, PointedAt(c)'
      PROVE  FALSE
  <2>1. PICK h \in handlers : /\ h.target # None /\ Thread[h.target] = Thread[c]
                              /\ pc'[h.target] = "returned"
    BY <1>2 DEF PointedAt
  <2>2. h.target \in Calls /\ pc[h.target] # "call" /\ pc[c] \in Registered
    BY <1>2, <2>1, Targets
  <2>3. ~PointedAt(c)
    BY <1>2, <2>2 DEF IInv, ThreadInv
  <2>4. pc[h.target] \in Registered
    BY <2>1, <2>2, <2>3 DEF PointedAt, IInv, TypeOK
  <2>5. h.target = c
    BY <2>1, <2>2, <2>4 DEF IInv, ThreadInv
  <2> QED BY <1>2, <2>1, <2>5 DEF Registered
<1> QED BY <1>1, <1>2 DEF ThreadInv

-----------------------------------------------------------------------------
(* The steps of a call. *)

LEMMA TickStep == IInv /\ Tick => IInv'
<1> SUFFICES ASSUME IInv, Tick PROVE IInv'
  OBVIOUS
<1> USE DEF IInv, Tick, call, history
<1>1. TypeOK'
  BY RpcCallsAssumption DEF RpcCallsAssumption, TypeOK
<1>2. ListPointsToCalls' /\ KeyInv' /\ EntryInv'
  BY DEF ListPointsToCalls, KeyInv, EntryInv
<1>3. HandlerInv' /\ NumberInv' /\ StatusInv'
  BY DEF HandlerInv, NumberInv, StatusInv
<1>4. SpentInv' /\ DeadInv' /\ DataInv'
  BY DEF SpentInv, DeadInv, DataInv, Undisturbed, Alone
<1>5. ThreadInv' /\ StrayInv'
  BY DEF ThreadInv, PointedAt, StrayInv, Race, Alone
<1> QED BY <1>1, <1>2, <1>3, <1>4, <1>5

LEMMA RefusedStep ==
  ASSUME IInv, NEW c \in Calls, Refused(c) PROVE IInv'
<1> USE DEF IInv, Refused, Goto, history
<1>1. TypeOK'
  BY DEF TypeOK, Registered
<1>2. ListPointsToCalls'
  BY DEF TypeOK, ListPointsToCalls, Registered
<1>3. KeyInv' /\ EntryInv'
  BY DEF TypeOK, KeyInv, EntryInv, Registered
<1>4. HandlerInv' /\ NumberInv'
  BY DEF TypeOK, HandlerInv, NumberInv
<1>5. StatusInv'
  BY DEF TypeOK, StatusInv
<1>6. SpentInv' /\ DeadInv'
  BY DEF TypeOK, SpentInv, DeadInv, Undisturbed, Alone
<1>7. Lasting
  BY DEF TypeOK, Lasting, KeyInv
<1>8. ThreadInv' /\ StrayInv'
  <2>1. \A d \in Calls : pc'[d] \in Registered => pc[d] \in Registered
    BY DEF TypeOK, Registered
  <2> QED BY <1>7, <2>1, ThreadKept, StrayKept
<1>9. DataInv'
  BY DEF TypeOK, DataInv, Registered
<1> QED BY <1>1, <1>2, <1>3, <1>4, <1>5, <1>6, <1>8, <1>9

LEMMA RegisterStep ==
  ASSUME IInv, NEW c \in Calls, Register(c) PROVE IInv'
<1> USE DEF IInv, Register, Goto, history
<1> DEFINE k == genRandRQI(c)
<1>1. /\ k \in Keys /\ k # None
      /\ IF c \in Given THEN k = c ELSE k \in {Side(c)} \X (1 .. MaxSeconds)
  <2>1. CASE c \in Given
    BY <2>1, KeyFacts DEF genRandRQI
  <2>2. CASE c \notin Given
    <3>1. k = <<Side(c), now>> /\ now \in 1 .. MaxSeconds
      BY <2>2 DEF genRandRQI, TypeOK
    <3>2. k \in {Side(c)} \X (1 .. MaxSeconds)
      BY <3>1
    <3> QED BY <2>2, <3>2, Drawn, KeyFacts
  <2> QED BY <2>1, <2>2
<1>2. /\ pc' = [pc EXCEPT ![c] = "publish"]
      /\ rqi' = [rqi EXCEPT ![c] = k]
      /\ requestList' = [requestList EXCEPT ![k] = c]
      /\ rqi[c] = None /\ pc[c] = "call" /\ rs[c] = "none" /\ ~status[c]
  BY DEF KeyInv
<1> HIDE DEF k
<1>0. torn \subseteq torn' /\ torn' \subseteq torn \cup {c} /\ torn' \subseteq Calls
  BY DEF TypeOK
<1>3. TypeOK'
  BY <1>0, <1>1, <1>2 DEF TypeOK, Registered
<1>4. ListPointsToCalls'
  <2> SUFFICES ASSUME NEW j \in Keys, requestList'[j] # None
               PROVE  /\ pc'[requestList'[j]] \in Registered
                      /\ rqi'[requestList'[j]] = j
    BY DEF ListPointsToCalls
  <2>1. CASE j = k
    BY <2>1, <1>1, <1>2 DEF TypeOK, Registered
  <2>2. CASE j # k
    BY <2>2, <1>1, <1>2 DEF TypeOK, ListPointsToCalls, Registered
  <2> QED BY <2>1, <2>2
<1>5. KeyInv'
  BY <1>1, <1>2 DEF TypeOK, KeyInv
<1>6. EntryInv'
  <2> SUFFICES ASSUME NEW b \in Calls, pc'[b] \in Registered, requestList'[rqi'[b]] = None
               PROVE  \E d \in Calls : pc'[d] = "returned" /\ rqi'[d] = rqi'[b]
    BY DEF EntryInv
  <2>1. rqi'[b] # k
    BY <1>1, <1>2, KeyFacts DEF TypeOK
  <2>2. b # c
    BY <2>1, <1>2 DEF TypeOK
  <2>3. pc[b] \in Registered /\ rqi'[b] = rqi[b] /\ rqi[b] \in Keys
    BY <2>2, <1>2 DEF TypeOK, KeyInv, Registered
  <2>4. requestList[rqi[b]] = None
    BY <2>1, <2>3, <1>2 DEF TypeOK
  <2>5. PICK d \in Calls : pc[d] = "returned" /\ rqi[d] = rqi[b]
    BY <2>3, <2>4 DEF EntryInv
  <2>6. d # c
    BY <2>5, <1>2
  <2> QED BY <2>3, <2>5, <2>6, <1>2 DEF TypeOK
<1>7. HandlerInv'
  BY <1>1, <1>2 DEF TypeOK, HandlerInv
<1>8. NumberInv' /\ StatusInv'
  BY <1>0, <1>1, <1>2 DEF TypeOK, NumberInv, StatusInv, KeyInv
<1>9. ASSUME NEW b \in Calls, rqi[b] # None, Undisturbed(b)' PROVE Undisturbed(b)
  BY <1>9, <1>2 DEF TypeOK, Undisturbed, Alone
<1>10. SpentInv'
  BY <1>9 DEF SpentInv, StatusInv
<1>11. DeadInv'
  <2> SUFFICES ASSUME NEW b \in deadUses, pc[b] = "returned",
                      rs[b] = "CODE_OK", Undisturbed(b)', b \notin torn'
               PROVE  b \in Locals
    BY <1>2 DEF DeadInv, TypeOK
  <2>1. b \in Calls /\ rqi[b] # None
    BY DEF TypeOK, KeyInv
  <2> QED BY <1>0, <2>1, <1>9 DEF DeadInv
<1>12. Lasting
  BY <1>2 DEF TypeOK, Lasting
<1>13. StrayInv'
  BY <1>12, StrayKept
<1>14. ThreadInv'
  <2>1. ASSUME NEW a \in Calls, NEW b \in Calls, a # b, Thread[a] = Thread[b],
               pc'[a] \in Registered, pc'[b] \in Registered
        PROVE  FALSE
    <3>1. CASE a = c \/ b = c
      BY <1>2, <2>1, <3>1 DEF Free, TypeOK
    <3>2. CASE a # c /\ b # c
      BY <1>2, <2>1, <3>2 DEF ThreadInv, TypeOK
    <3> QED BY <3>1, <3>2
  <2>2. ASSUME NEW b \in Calls, pc'[b] \in Registered, b \notin torn', PointedAt(b)'
        PROVE  FALSE
    <3>1. PICK h \in handlers : /\ h.target # None /\ Thread[h.target] = Thread[b]
                                /\ pc'[h.target] = "returned"
      BY <2>2 DEF PointedAt
    <3>2. h.target \in Calls /\ pc[h.target] = "returned"
      BY <1>2, <3>1, Targets DEF TypeOK
    <3>3. PointedAt(b)
      BY <3>1, <3>2 DEF PointedAt
    <3>4. CASE b = c
      BY <2>2, <3>3, <3>4
    <3>5. CASE b # c
      BY <1>0, <1>2, <2>2, <3>3, <3>5 DEF ThreadInv, TypeOK
    <3> QED BY <3>4, <3>5
  <2> QED BY <2>1, <2>2 DEF ThreadInv
<1>15. DataInv'
  <2>1. \A h \in handlers : h.target \in Calls => (h.target = c => FALSE)
    BY <1>2, Targets, KeyFacts
  <2>2. \A h \in handlers' :
          h.at = "second" /\ h.to \notin Locals /\ h.data /\ h.target \in Wants =>
            dataOf'[h.target] # None \/ pc'[h.target] = "returned"
    BY <1>2, <2>1, RpcCallsAssumption DEF RpcCallsAssumption, DataInv, TypeOK
  <2>3. ASSUME NEW b \in Calls, dataOf[b] # None
        PROVE  /\ pc'[b] # "call"
               /\ b \notin torn' => rqi'[b] # None /\ rqi'[dataOf[b]] = rqi'[b]
    <3>1. b # c /\ dataOf[b] \in Calls
      BY <1>2, <2>3 DEF DataInv, TypeOK
    <3> QED BY <1>0, <1>2, <2>3, <3>1 DEF DataInv, TypeOK
  <2>4. \A b \in promised : pc'[b] # "call"
    BY <1>2 DEF DataInv, TypeOK
  <2> QED BY <2>2, <2>3, <2>4 DEF DataInv
<1> QED BY <1>3, <1>4, <1>5, <1>6, <1>7, <1>8, <1>10, <1>11, <1>13, <1>14, <1>15

LEMMA PublishStep ==
  ASSUME IInv, NEW c \in Calls, Publish(c) PROVE IInv'
<1> USE DEF IInv, Publish, Goto, history
<1>1. TypeOK'
  BY DEF TypeOK, Registered
<1>2. ListPointsToCalls'
  BY DEF TypeOK, ListPointsToCalls, Registered
<1>3. KeyInv' /\ EntryInv'
  BY DEF TypeOK, KeyInv, EntryInv, Registered
<1>4. HandlerInv' /\ NumberInv'
  BY DEF TypeOK, HandlerInv, NumberInv
<1>5. StatusInv'
  BY DEF TypeOK, StatusInv
<1>6. SpentInv' /\ DeadInv'
  BY DEF TypeOK, SpentInv, DeadInv, Undisturbed, Alone
<1>7. Lasting
  BY DEF TypeOK, Lasting, KeyInv
<1>8. ThreadInv' /\ StrayInv'
  <2>1. \A d \in Calls : pc'[d] \in Registered => pc[d] \in Registered
    BY DEF TypeOK, Registered
  <2> QED BY <1>7, <2>1, ThreadKept, StrayKept
<1>9. DataInv'
  BY DEF TypeOK, DataInv, Registered
<1> QED BY <1>1, <1>2, <1>3, <1>4, <1>5, <1>6, <1>8, <1>9

LEMMA PollStep ==
  ASSUME IInv, NEW c \in Calls, Poll(c) PROVE IInv'
<1> USE DEF IInv, Poll, Goto, history
<1>0. /\ pc' \in {pc, [pc EXCEPT ![c] = "judge"]}
      /\ left' \in [Calls -> 0 .. Timeout]
  <2>1. left[c] \in 0 .. Timeout /\ Timeout \in Nat
    BY RpcCallsAssumption DEF RpcCallsAssumption, TypeOK
  <2>2. CASE status[c] \/ left[c] = 0
    BY <2>2 DEF TypeOK
  <2>3. CASE ~(status[c] \/ left[c] = 0)
    BY <2>1, <2>3 DEF TypeOK
  <2> QED BY <2>2, <2>3
<1>1. TypeOK'
  BY <1>0 DEF TypeOK, Registered
<1>2. ListPointsToCalls'
  BY <1>0 DEF TypeOK, ListPointsToCalls, Registered
<1>3. KeyInv'
  BY <1>0 DEF TypeOK, KeyInv
<1>7. \A d \in Calls : /\ (pc'[d] = "returned") <=> (pc[d] = "returned")
                       /\ (pc'[d] \in Registered) <=> (pc[d] \in Registered)
                       /\ (pc'[d] = "call") <=> (pc[d] = "call")
  BY <1>0 DEF TypeOK, Registered
<1>8. EntryInv'
  <2> SUFFICES ASSUME NEW b \in Calls, pc'[b] \in Registered, requestList[rqi[b]] = None
               PROVE  \E d \in Calls : pc'[d] = "returned" /\ rqi[d] = rqi[b]
    BY DEF EntryInv
  <2>1. pc[b] \in Registered
    BY <1>7
  <2>2. PICK d \in Calls : pc[d] = "returned" /\ rqi[d] = rqi[b]
    BY <2>1 DEF EntryInv
  <2> QED BY <1>7, <2>2
<1>4. HandlerInv' /\ NumberInv'
  BY <1>7 DEF TypeOK, HandlerInv, NumberInv
<1>5. StatusInv'
  BY <1>0 DEF TypeOK, StatusInv
<1>6. SpentInv' /\ DeadInv'
  BY <1>7 DEF TypeOK, SpentInv, DeadInv, Undisturbed, Alone
<1>9. DataInv'
  BY <1>7, RpcCallsAssumption DEF RpcCallsAssumption, TypeOK, DataInv
<1>10. ThreadInv'
  BY <1>7, ThreadKept
<1>11. StrayInv'
  <2>1. Lasting
    BY <1>7 DEF Lasting
  <2> QED BY <2>1, StrayKept
<1> QED BY <1>1, <1>2, <1>3, <1>4, <1>5, <1>6, <1>8, <1>9, <1>10, <1>11

LEMMA JudgeStep ==
  ASSUME IInv, NEW c \in Calls, Judge(c) PROVE IInv'
<1> USE DEF IInv, Judge, Goto, history
<1> DEFINE r == IF status[c] THEN "CODE_OK" ELSE "CODE_ERROR"
<1>0. /\ r \in {"CODE_OK", "CODE_ERROR"} /\ (r = "CODE_OK" => status[c])
      /\ rs' = [rs EXCEPT ![c] = r]
  OBVIOUS
<1> HIDE DEF r
<1>1. TypeOK'
  BY <1>0 DEF TypeOK, Registered
<1>2. ListPointsToCalls'
  BY DEF TypeOK, ListPointsToCalls, Registered
<1>3. KeyInv' /\ EntryInv'
  BY <1>0 DEF TypeOK, KeyInv, EntryInv, Registered
<1>4. HandlerInv' /\ NumberInv'
  BY <1>0 DEF TypeOK, HandlerInv, NumberInv
<1>5. StatusInv'
  BY <1>0 DEF TypeOK, StatusInv
<1>6. SpentInv' /\ DeadInv'
  BY <1>0 DEF TypeOK, SpentInv, DeadInv, Undisturbed, Alone
<1>7. Lasting
  BY <1>0 DEF TypeOK, Lasting, KeyInv
<1>8. ThreadInv' /\ StrayInv'
  <2>1. \A d \in Calls : pc'[d] \in Registered => pc[d] \in Registered
    BY DEF TypeOK, Registered
  <2> QED BY <1>7, <2>1, ThreadKept, StrayKept
<1>9. DataInv'
  BY <1>0 DEF TypeOK, DataInv, Registered
<1> QED BY <1>1, <1>2, <1>3, <1>4, <1>5, <1>6, <1>8, <1>9

LEMMA EraseStep ==
  ASSUME IInv, NEW c \in Calls, Erase(c) PROVE IInv'
<1> USE DEF IInv, Erase, Goto, history
<1>0. rqi[c] \in Keys /\ rs[c] # "none" /\ pc[c] = "erase"
  BY DEF TypeOK, KeyInv
<1>1. TypeOK'
  BY <1>0 DEF TypeOK
<1>2. ListPointsToCalls'
  <2> SUFFICES ASSUME NEW j \in Keys, requestList'[j] # None
               PROVE  /\ pc'[requestList'[j]] \in Registered
                      /\ rqi'[requestList'[j]] = j
    BY DEF ListPointsToCalls
  <2>1. j # rqi[c] /\ requestList'[j] = requestList[j]
    BY <1>0 DEF TypeOK
  <2>2. requestList[j] \in Calls /\ requestList[j] # c
    BY <2>1 DEF TypeOK, ListPointsToCalls
  <2> QED BY <2>1, <2>2 DEF TypeOK, ListPointsToCalls
<1>3. KeyInv'
  BY <1>0 DEF TypeOK, KeyInv
<1>4. EntryInv'
  <2> SUFFICES ASSUME NEW b \in Calls, pc'[b] \in Registered, requestList'[rqi[b]] = None
               PROVE  \E d \in Calls : pc'[d] = "returned" /\ rqi[d] = rqi[b]
    BY DEF EntryInv
  <2>1. pc'[c] = "returned" /\ \A d \in Calls : d # c => pc'[d] = pc[d]
    BY DEF TypeOK
  <2>2. CASE rqi[b] = rqi[c]
    BY <2>1, <2>2
  <2>3. CASE rqi[b] # rqi[c]
    <3>1. pc[b] \in Registered /\ rqi[b] \in Keys
      BY <2>1, <2>3 DEF TypeOK, KeyInv, Registered
    <3>2. requestList[rqi[b]] = None
      BY <2>3, <3>1 DEF TypeOK
    <3> QED BY <3>1, <3>2, <2>1 DEF EntryInv
  <2> QED BY <2>2, <2>3
<1>5. HandlerInv' /\ NumberInv'
  BY <1>0 DEF TypeOK, HandlerInv, NumberInv
<1>6. StatusInv'
  BY <1>0 DEF TypeOK, StatusInv
<1>7. SpentInv' /\ DeadInv' /\ DataInv'
  BY <1>0 DEF TypeOK, SpentInv, DeadInv, DataInv, Undisturbed, Alone
<1>8. ThreadInv' /\ StrayInv'
  <2>1. \A d \in Calls : pc'[d] \in Registered => pc[d] \in Registered
    BY DEF TypeOK, Registered
  <2>2. Lasting
    BY <1>0 DEF TypeOK, Lasting
  <2> QED BY <2>1, <2>2, ThreadKept, StrayKept
<1> QED BY <1>1, <1>2, <1>3, <1>4, <1>5, <1>6, <1>7, <1>8

LEMMA CallStepKeeps ==
  ASSUME IInv, NEW c \in Calls, CallStep(c) PROVE IInv'
BY RefusedStep, RegisterStep, PublishStep, PollStep, JudgeStep, EraseStep
   DEF CallStep
-----------------------------------------------------------------------------
(* The steps of a response's handler. *)

LEMMA RespondStep ==
  ASSUME IInv, NEW c \in Calls, Respond(c) PROVE IInv'
<1> USE DEF IInv, Respond, call, history
<1>0. PICK new \in HandlerType :
        /\ handlers' = handlers \cup {new}
        /\ new.to = c /\ new.nr = answers[c] /\ new.at = "find" /\ new.target = None
  <2>1. PICK d \in BOOLEAN : handlers' = handlers \cup
          {[to |-> c, nr |-> answers[c], data |-> d, at |-> "find", target |-> None]}
    OBVIOUS
  <2> DEFINE new == [to |-> c, nr |-> answers[c], data |-> d, at |-> "find",
                     target |-> None]
  <2>2. answers[c] \in Nat
    BY RpcCallsAssumption DEF RpcCallsAssumption, TypeOK
  <2>3. /\ new \in HandlerType
        /\ new.to = c /\ new.nr = answers[c] /\ new.at = "find" /\ new.target = None
    BY <2>2 DEF HandlerType
  <2> QED BY <2>1, <2>3
<1>1. /\ answers' = [answers EXCEPT ![c] = answers[c] + 1]
      /\ answers[c] \in Nat /\ answers \in [Calls -> Nat]
      /\ answers' \in [Calls -> 0 .. MaxAnswers]
  BY RpcCallsAssumption DEF RpcCallsAssumption, TypeOK
<1>2. TypeOK'
  BY <1>0, <1>1 DEF TypeOK, HandlerType
<1>3. ListPointsToCalls' /\ KeyInv' /\ EntryInv'
  BY DEF ListPointsToCalls, KeyInv, EntryInv
<1>4. HandlerInv'
  BY <1>0 DEF TypeOK, HandlerInv
<1>5. NumberInv'
  BY <1>0, <1>1, HandlersTyped DEF NumberInv, HandlerType
<1>6. \A d \in Calls : (answers[d] > 0 => answers'[d] > 0) /\ (answers[d] > 1 => answers'[d] > 1)
  BY <1>1
<1>7. StatusInv'
  BY <1>6 DEF TypeOK, StatusInv
<1>8. \A d \in Calls : Undisturbed(d)' => Undisturbed(d) /\ (d = c => answers[c] = 0)
  BY <1>1 DEF Undisturbed, Alone
<1>9. SpentInv'
  <2> SUFFICES ASSUME NEW d \in Calls, status[d], Undisturbed(d)', answeredBy[d] = d,
                      NEW h \in handlers', h.to = d
               PROVE  d \in Locals /\ h.at = "second"
    BY DEF SpentInv
  <2>1. CASE h \in handlers
    BY <2>1, <1>8 DEF SpentInv
  <2>2. CASE h = new
    <3>1. d = c /\ answers[c] = 0
      BY <2>2, <1>0, <1>8
    <3>2. answers[c] > 0
      BY <3>1 DEF StatusInv
    <3> QED BY <3>1, <3>2
  <2> QED BY <2>1, <2>2, <1>0
<1>10. DeadInv'
  BY <1>8 DEF TypeOK, DeadInv
<1>11. DataInv'
  BY <1>0 DEF DataInv
<1>12. ThreadInv'
  <2>1. \A b \in Calls : PointedAt(b)' => PointedAt(b)
    BY <1>0 DEF PointedAt
  <2> QED BY <2>1 DEF ThreadInv
<1>13. StrayInv'
  <2>1. Lasting
    BY <1>6 DEF Lasting
  <2> QED BY <2>1, StrayKept
<1> QED BY <1>2, <1>3, <1>4, <1>5, <1>7, <1>9, <1>10, <1>11, <1>12, <1>13

(* A handler that ends, with nothing written, leaves the rest as it was;   *)
(* unless it still has data to copy.                                       *)
LEMMA EndStep ==
  ASSUME IInv, NEW h \in handlers, h.at # "second", Ends(h),
         UNCHANGED <<now, call, status, requestList, answers, history, torn, crashed>>
  PROVE  IInv'
<1> USE DEF IInv, Ends, call, history
<1>1. TypeOK' /\ ListPointsToCalls'
  BY DEF TypeOK, ListPointsToCalls
<1>2. KeyInv' /\ EntryInv' /\ HandlerInv' /\ NumberInv' /\ StatusInv'
  BY DEF KeyInv, EntryInv, HandlerInv, NumberInv, StatusInv
<1>3. SpentInv' /\ DeadInv' /\ DataInv'
  BY DEF SpentInv, DeadInv, DataInv, Undisturbed, Alone
<1>4. ThreadInv' /\ StrayInv'
  BY DEF ThreadInv, PointedAt, StrayInv, Race, Alone
<1> QED BY <1>1, <1>2, <1>3, <1>4

(* A handler that moves on before it writes.                               *)
LEMMA MoveStep ==
  ASSUME IInv, NEW h \in handlers, NEW new \in HandlerType,
         h.at # "second", new.at # "second",
         handlers' = (handlers \ {h}) \cup {new},
         new.to = h.to, new.nr = h.nr,
         crashed' \in BOOLEAN, crashed => crashed',
         new.at \in {"compare", "first"} =>
           \/ crashed' /\ new.at = "compare" /\ new.target = None
           \/ /\ new.target # None /\ pc[new.target] # "call"
              /\ rqi[new.target] = rqi[new.to],
         new.at \in {"find", "look"} => new.target = None,
         new.target \in {None, h.target} \/ pc[new.target] \in Registered,
         new.at = "first" =>
           \/ pc[new.target] = "returned"
           \/ new.target \in BinCalls
           \/ RespCmd[new.to] = RespCmd[new.target],
         UNCHANGED <<now, call, status, requestList, answers, history, torn>>
  PROVE  IInv'
<1> USE DEF IInv, call, history
<1>1. TypeOK' /\ ListPointsToCalls'
  BY DEF TypeOK, ListPointsToCalls, HandlerType
<1>2. KeyInv' /\ EntryInv' /\ StatusInv'
  BY DEF KeyInv, EntryInv, StatusInv
<1>3. HandlerInv'
  BY DEF HandlerInv, HandlerType
<1>4. NumberInv'
  BY HandlersTyped DEF NumberInv, HandlerType
<1>5. SpentInv' /\ DeadInv'
  BY DEF SpentInv, DeadInv, Undisturbed, Alone
<1>6. DataInv'
  BY DEF DataInv
<1>7. ThreadInv'
  <2>1. \A b \in Calls : PointedAt(b)' => PointedAt(b)
    BY DEF PointedAt, Registered
  <2> QED BY <2>1 DEF ThreadInv
<1>8. StrayInv'
  BY DEF StrayInv, Race, Alone
<1> QED BY <1>1, <1>2, <1>3, <1>4, <1>5, <1>6, <1>7, <1>8

LEMMA FindStep ==
  ASSUME IInv, NEW h \in handlers, Find(h) PROVE IInv'
<1> USE DEF Find
<1>1. CASE Ends(h)
  BY <1>1, EndStep
<1>2. CASE Moves(h, "look")
  <2> DEFINE new == [h EXCEPT !.at = "look"]
  <2>1. /\ new \in HandlerType /\ new.to = h.to /\ new.nr = h.nr /\ new.at = "look"
        /\ new.target = None
    BY HandlersTyped DEF HandlerType, IInv, HandlerInv
  <2>2. crashed' \in BOOLEAN /\ handlers' = (handlers \ {h}) \cup {new}
    BY <1>2 DEF Moves, IInv, TypeOK
  <2> HIDE DEF new
  <2> QED BY <2>1, <2>2, MoveStep DEF history
<1> QED BY <1>1, <1>2

LEMMA LookStep ==
  ASSUME IInv, NEW h \in handlers, ~crashed, Look(h) PROVE IInv'
<1> DEFINE t == requestList[rqi[h.to]]
           new == [h EXCEPT !.at = "compare", !.target = t]
<1>1. h.to \in Calls /\ rqi[h.to] \in Keys /\ t \in Calls \cup {None}
  BY DEF IInv, TypeOK, HandlerInv, KeyInv, Look
<1>2. /\ new \in HandlerType /\ new.to = h.to /\ new.nr = h.nr
      /\ new.at = "compare" /\ new.target = t
  BY <1>1, HandlersTyped DEF HandlerType
<1>3. /\ handlers' = (handlers \ {h}) \cup {new} /\ crashed' = (t = None)
      /\ h.at = "look"
      /\ UNCHANGED <<now, call, status, requestList, answers, history, torn>>
  BY DEF Look
<1>4. t # None => pc[t] \in Registered /\ pc[t] # "call" /\ rqi[t] = rqi[h.to]
  BY <1>1 DEF IInv, ListPointsToCalls, Registered
<1> HIDE DEF new, t
<1> QED BY <1>2, <1>3, <1>4, MoveStep

LEMMA MatchStep ==
  ASSUME IInv, NEW h \in handlers, ~crashed, h.at = "compare", Moves(h, "first"),
         \/ pc[h.target] = "returned"
         \/ h.target \in BinCalls
         \/ RespCmd[h.to] = RespCmd[h.target],
         UNCHANGED <<now, call, status, requestList, answers, history, torn, crashed>>
  PROVE  IInv'
<1> DEFINE new == [h EXCEPT !.at = "first"]
<1>1. /\ new \in HandlerType /\ new.to = h.to /\ new.nr = h.nr
      /\ new.at = "first" /\ new.target = h.target
  BY HandlersTyped DEF HandlerType
<1>2. handlers' = (handlers \ {h}) \cup {new} /\ crashed' \in BOOLEAN
  BY DEF Moves, IInv, TypeOK
<1>3. h.target # None /\ pc[h.target] # "call" /\ rqi[h.target] = rqi[h.to]
  BY DEF IInv, HandlerInv
<1> HIDE DEF new
<1> QED BY <1>1, <1>2, <1>3, MoveStep

LEMMA CompareStep ==
  ASSUME IInv, NEW h \in handlers, ~crashed, Compare(h) PROVE IInv'
BY EndStep, MatchStep DEF Compare, history

(* Two calls share an identifier that a caller gave only if they are one.  *)
LEMMA BinTarget ==
  ASSUME IInv, NEW h \in handlers, h.to \in BinCalls,
         h.target # None, rqi[h.target] = rqi[h.to]
  PROVE  h.target \in BinCalls
<1>1. h.to \in Calls /\ h.target \in Calls /\ rqi[h.to] # None
  BY DEF IInv, TypeOK, HandlerInv, KeyInv
<1>2. h.to \in Given /\ rqi[h.to] = h.to
  BY <1>1, RpcCallsAssumption DEF RpcCallsAssumption, IInv, KeyInv
<1>3. h.target \in Given
  BY <1>1, <1>2, KeyFacts, Drawn DEF IInv, KeyInv
<1>4. rqi[h.target] = h.target
  BY <1>1, <1>2, <1>3 DEF IInv, KeyInv
<1> QED BY <1>2, <1>4
-----------------------------------------------------------------------------
(* The two writes of a handler, in either order: the cloud's copies first  *)
(* and ends when the status is up, the local broker's copies last.         *)

Writing(h, new) ==
  /\ h.at \in {"first", "second"}
  /\ new \in HandlerType
  /\ new.to = h.to /\ new.nr = h.nr /\ new.at = "second"
  /\ new.target = h.target /\ (new.data <=> h.data)
  /\ handlers' = (handlers \ {h}) \cup (IF h.at = "first" THEN {new} ELSE {})
  /\ UNCHANGED <<now, call, requestList, answers, torn, crashed>>

\* where a write through h's pointer may land
Lands(h, c) ==
  \/ c = h.target /\ pc[h.target] # "returned"
  \/ c \in Reused(h.target) /\ pc[h.target] = "returned"

LEMMA WritingFacts ==
  ASSUME IInv, ~crashed, NEW h \in handlers, NEW new, Writing(h, new)
  PROVE  /\ h.to \in Calls /\ h.target \in Calls /\ h.nr \in Nat
         /\ pc[h.target] # "call" /\ rqi[h.target] = rqi[h.to]
         /\ pc[h.to] # "call" /\ rs[h.to] # "CODE_TIMEOUT" /\ rqi[h.to] # None
         /\ h.nr < answers[h.to] /\ h.target # None
         /\ \/ pc[h.target] = "returned"
            \/ h.target \in BinCalls
            \/ RespCmd[h.to] = RespCmd[h.target]
         /\ h.to \in Locals <=> h.target \in Locals
         /\ \A g \in handlers' : g \in handlers \ {h} \/ (h.at = "first" /\ g = new)
<1>1. /\ h.to \in Calls /\ h.target \in Calls /\ h.nr \in Nat
      /\ pc[h.target] # "call" /\ rqi[h.target] = rqi[h.to]
      /\ pc[h.to] # "call" /\ rs[h.to] # "CODE_TIMEOUT" /\ rqi[h.to] # None
      /\ h.nr < answers[h.to] /\ h.target # None
      /\ \/ pc[h.target] = "returned"
         \/ h.target \in BinCalls
         \/ RespCmd[h.to] = RespCmd[h.target]
  BY HandlersTyped, KeyFacts DEF IInv, Writing, HandlerInv, NumberInv, HandlerType, KeyInv
<1>2. h.to \in Locals <=> h.target \in Locals
  BY <1>1, SameSide
<1>3. \A g \in handlers' : g \in handlers \ {h} \/ (h.at = "first" /\ g = new)
  BY DEF Writing
<1> QED BY <1>1, <1>2, <1>3

(* A write lands in the call it is meant for, or in one that began with    *)
(* its handler still pointing to an earlier call.                          *)
LEMMA LandsFacts ==
  ASSUME IInv, ~crashed, NEW h \in handlers, NEW new, Writing(h, new),
         NEW c \in Calls, Lands(h, c)
  PROVE  /\ pc[c] # "call" /\ pc[c] # "returned" /\ rqi[c] # None
         /\ c \notin torn => c = h.target
<1>1. CASE c = h.target /\ pc[h.target] # "returned"
  BY <1>1, WritingFacts
<1>2. CASE c \in Reused(h.target) /\ pc[h.target] = "returned"
  <2>1. pc[c] \in Registered /\ PointedAt(c)
    BY <1>2, WritingFacts DEF Reused, PointedAt
  <2>2. c \in torn
    BY <2>1 DEF IInv, ThreadInv
  <2> QED BY <2>1, <2>2 DEF IInv, KeyInv, Registered
<1> QED BY <1>1, <1>2 DEF Lands

LEMMA WritingKeeps ==
  ASSUME IInv, ~crashed, NEW h \in handlers, NEW new, Writing(h, new)
  PROVE  /\ ListPointsToCalls' /\ EntryInv' /\ HandlerInv' /\ NumberInv' /\ ThreadInv'
         /\ handlers' \subseteq HandlerType /\ Lasting
         /\ \A c \in Calls : Undisturbed(c)' <=> Undisturbed(c)
<1> USE DEF IInv, Writing, call
<1>1. ListPointsToCalls' /\ EntryInv'
  BY DEF ListPointsToCalls, EntryInv
<1>2. HandlerInv'
  BY WritingFacts DEF HandlerInv
<1>3. NumberInv'
  <2>1. \A g \in handlers' : g.nr < answers[g.to]
    BY WritingFacts DEF NumberInv
  <2>2. ASSUME NEW f \in handlers', NEW g \in handlers', f.to = g.to, f.nr = g.nr
        PROVE  f = g
    BY <2>2, WritingFacts DEF NumberInv
  <2> QED BY <2>1, <2>2 DEF NumberInv
<1>4. handlers' \subseteq HandlerType
  BY HandlersTyped
<1>5. \A c \in Calls : Undisturbed(c)' <=> Undisturbed(c)
  BY DEF Undisturbed, Alone
<1>6. ThreadInv'
  <2>1. \A b \in Calls : PointedAt(b)' => PointedAt(b)
    BY WritingFacts DEF PointedAt
  <2> QED BY <2>1 DEF ThreadInv
<1>7. Lasting
  BY DEF Lasting
<1> QED BY <1>1, <1>2, <1>3, <1>4, <1>5, <1>6, <1>7

(* The frame of an undisturbed call that returned CODE_OK is touched only  *)
(* by the local broker's handler, and then for the data.                   *)
LEMMA LateUse ==
  ASSUME IInv, ~crashed, NEW h \in handlers, NEW new, Writing(h, new),
         rs[h.target] = "CODE_OK", Undisturbed(h.target), h.target \notin torn
  PROVE  h.target \in Locals /\ h.at = "second"
<1>1. h.to = h.target
  BY WritingFacts, AloneFacts DEF Undisturbed
<1>2. status[h.target] /\ answeredBy[h.target] \in Calls
  BY WritingFacts DEF IInv, StatusInv, TypeOK
<1>3. answeredBy[h.target] = h.target
  BY <1>2, WritingFacts, AloneFacts DEF Undisturbed, IInv, StatusInv
<1> QED BY <1>1, <1>2, <1>3, WritingFacts DEF IInv, SpentInv

(* What a use of a record after its call does to DeadInv.                  *)
LEMMA DeadKept ==
  ASSUME IInv, ~crashed, NEW h \in handlers, NEW new, Writing(h, new),
         deadUses' = IF pc[h.target] = "returned"
                       THEN deadUses \cup {h.target} ELSE deadUses
  PROVE  DeadInv' /\ deadUses' \subseteq Calls
<1>1. UNCHANGED <<pc, rs, torn>>
  BY DEF Writing, call
<1>2. ASSUME NEW c \in deadUses'
      PROVE  /\ c \in Calls /\ pc[c] = "returned"
             /\ rs[c] = "CODE_OK" /\ Undisturbed(c) /\ c \notin torn => c \in Locals
  <2>1. CASE c \in deadUses
    BY <2>1 DEF IInv, DeadInv, TypeOK
  <2>2. CASE c = h.target /\ pc[c] = "returned"
    BY <2>2, LateUse, WritingFacts
  <2> QED BY <1>2, <2>1, <2>2
<1> QED BY <1>1, <1>2, WritingKeeps DEF DeadInv

LEMMA CopyStep ==
  ASSUME IInv, ~crashed, NEW h \in handlers, NEW new, Writing(h, new),
         CopyData(h.target, h),
         IF h.at = "first" THEN h.to \notin Locals ELSE h.to \in Locals
  PROVE  IInv'
<1> DEFINE t == h.target
<1>1. UNCHANGED <<now, pc, rqi, left, rs, requestList, answers, torn, crashed,
                  status, answeredBy, promised>>
  BY DEF Writing, call, CopyData
<1>2. /\ deadUses' = IF pc[t] = "returned" THEN deadUses \cup {t} ELSE deadUses
      /\ pc[t] # "returned" /\ h.data /\ t \in Wants => dataOf'[t] = h.to
  BY WritingFacts DEF CopyData, CopyIn, IInv, TypeOK
<1>3. /\ dataOf' \in [Calls -> Calls \cup {None}]
      /\ \A c \in Calls : dataOf'[c] = dataOf[c] \/ (Lands(h, c) /\ dataOf'[c] = h.to)
  <2>1. CASE UNCHANGED dataOf
    BY <2>1 DEF IInv, TypeOK
  <2>2. ASSUME NEW d \in Calls, Lands(h, d), CopyIn(d, h)
        PROVE  /\ dataOf' \in [Calls -> Calls \cup {None}]
               /\ \A c \in Calls : \/ dataOf'[c] = dataOf[c]
                                   \/ Lands(h, c) /\ dataOf'[c] = h.to
    BY <2>2, WritingFacts DEF CopyIn, IInv, TypeOK
  <2>3. CASE pc[t] = "returned" /\ \E d \in Reused(t) : CopyIn(d, h)
    BY <2>2, <2>3 DEF Reused, Lands
  <2>4. CASE pc[t] # "returned" /\ CopyIn(t, h)
    BY <2>2, <2>4, WritingFacts DEF Lands
  <2> QED BY <2>1, <2>3, <2>4 DEF CopyData
<1>4. DeadInv' /\ deadUses' \subseteq Calls
  BY <1>2, DeadKept
<1>5. TypeOK'
  BY <1>1, <1>3, <1>4, WritingKeeps DEF IInv, TypeOK, HandlerType
<1>6. StatusInv' /\ KeyInv'
  BY <1>1 DEF IInv, StatusInv, KeyInv
<1>7. StrayInv'
  BY <1>1, WritingKeeps, StrayKept
<1>8. SpentInv'
  <2> SUFFICES ASSUME NEW c \in Calls, status[c], Undisturbed(c), answeredBy[c] = c,
                      NEW g \in handlers', g.to = c
               PROVE  c \in Locals /\ g.at = "second"
    BY <1>1, WritingKeeps DEF SpentInv
  <2>1. CASE g \in handlers
    BY <2>1 DEF IInv, SpentInv
  <2>2. CASE h.at = "first" /\ g = new
    <3>1. h.to = c
      BY <2>2 DEF Writing
    <3> QED BY <2>2, <3>1 DEF IInv, SpentInv
  <2> QED BY <2>1, <2>2, WritingFacts
<1>9. DataInv'
  <2>0. h.to # None /\ \A c \in Calls : dataOf[c] # None => dataOf'[c] # None
    BY <1>3, WritingFacts, KeyFacts
  <2>1. ASSUME NEW g \in handlers', g.at = "second", g.to \notin Locals, g.data,
               g.target \in Wants
        PROVE  dataOf'[g.target] # None \/ pc[g.target] = "returned"
    <3>1. g.target \in Calls
      BY <2>1, RpcCallsAssumption DEF RpcCallsAssumption
    <3>2. CASE g \in handlers
      BY <2>0, <2>1, <3>1, <3>2 DEF IInv, DataInv
    <3>3. CASE h.at = "first" /\ g = new
      BY <1>2, <2>0, <2>1, <3>3 DEF Writing
    <3> QED BY <3>2, <3>3, WritingFacts
  <2> DEFINE Coming(c) ==
         /\ c \in Locals
         /\ \/ c \in deadUses'
            \/ \E g \in handlers' : g.target = c /\ g.at = "second" /\ g.data
  <2>2. ASSUME NEW c \in Wants \cap promised
        PROVE  dataOf'[c] # None \/ Coming(c)
    <3>0. c \in Calls
      BY RpcCallsAssumption DEF RpcCallsAssumption
    <3>1. CASE dataOf[c] # None
      BY <2>0, <3>0, <3>1
    <3>2. CASE c \in Locals /\ c \in deadUses
      BY <1>2, <3>2
    <3>3. ASSUME c \in Locals, NEW g \in handlers, g.target = c, g.at = "second", g.data
          PROVE  dataOf'[c] # None \/ Coming(c)
      <4>1. CASE g = h
        BY <1>2, <2>0, <3>3, <4>1
      <4>2. CASE g # h
        BY <3>3, <4>2 DEF Writing
      <4> QED BY <4>1, <4>2
    <3> QED BY <3>1, <3>2, <3>3 DEF IInv, DataInv
  <2>3. ASSUME NEW c \in Calls, dataOf'[c] # None
        PROVE  /\ pc[c] # "call"
               /\ c \notin torn => rqi[c] # None /\ rqi[dataOf'[c]] = rqi[c]
    <3>1. CASE dataOf'[c] = dataOf[c]
      BY <2>3, <3>1 DEF IInv, DataInv
    <3>2. CASE Lands(h, c) /\ dataOf'[c] = h.to
      BY <3>2, LandsFacts, WritingFacts
    <3> QED BY <1>3, <3>1, <3>2
  <2>4. \A c \in promised : pc[c] # "call"
    BY DEF IInv, DataInv
  <2> QED BY <1>1, <2>1, <2>2, <2>3, <2>4 DEF DataInv
<1> QED BY <1>4, <1>5, <1>6, <1>7, <1>8, <1>9, WritingKeeps DEF IInv

LEMMA RaiseStep ==
  ASSUME IInv, ~crashed, NEW h \in handlers, NEW new, Writing(h, new),
         RaiseStatus(h.target, h),
         IF h.at = "first" THEN h.to \in Locals ELSE h.to \notin Locals
  PROVE  IInv'
<1> DEFINE t == h.target
           Hit(c) == Lands(h, c) /\ status'[c] /\ answeredBy'[c] = h.to
<1>0. /\ t \in Calls /\ h.to \in Calls /\ h.to # None
      /\ rqi[t] = rqi[h.to] /\ answers[h.to] > 0
  BY WritingFacts, KeyFacts DEF IInv, TypeOK
<1>1. UNCHANGED <<now, pc, rqi, left, rs, requestList, answers, torn, crashed, dataOf>>
  BY DEF Writing, call, RaiseStatus
<1>2. /\ deadUses' = IF pc[t] = "returned" THEN deadUses \cup {t} ELSE deadUses
      /\ promised' \in {promised, promised \cup {t}}
      /\ promised' # promised => pc[t] # "returned" /\ h.data
  BY DEF RaiseStatus
<1>3. /\ status' \in [Calls -> BOOLEAN] /\ answeredBy' \in [Calls -> Calls \cup {None}]
      /\ \A c \in Calls :
           (status'[c] = status[c] /\ answeredBy'[c] = answeredBy[c]) \/ Hit(c)
  <2>1. CASE UNCHANGED <<status, answeredBy>>
    BY <2>1 DEF IInv, TypeOK
  <2>2. ASSUME NEW d \in Calls, Lands(h, d), RaiseIn(d, h)
        PROVE  /\ status' \in [Calls -> BOOLEAN]
               /\ answeredBy' \in [Calls -> Calls \cup {None}]
               /\ \A c \in Calls :
                    (status'[c] = status[c] /\ answeredBy'[c] = answeredBy[c]) \/ Hit(c)
    BY <1>0, <2>2 DEF RaiseIn, IInv, TypeOK
  <2>3. CASE pc[t] = "returned" /\ \E d \in Reused(t) : RaiseIn(d, h)
    <3>1. PICK d \in Reused(t) : RaiseIn(d, h)
      BY <2>3
    <3>2. d \in Calls /\ Lands(h, d)
      BY <2>3 DEF Reused, Lands
    <3> QED BY <2>2, <3>1, <3>2
  <2>4. CASE pc[t] # "returned" /\ RaiseIn(t, h)
    BY <1>0, <2>2, <2>4 DEF Lands
  <2> QED BY <2>1, <2>3, <2>4 DEF RaiseStatus
<1> HIDE DEF Hit
<1>4. ASSUME NEW c \in Calls, Hit(c)
      PROVE  /\ Lands(h, c) /\ status'[c] /\ answeredBy'[c] = h.to
             /\ pc[c] # "call" /\ pc[c] # "returned" /\ rqi[c] # None
             /\ c \notin torn => c = t
  BY <1>4, LandsFacts DEF Hit
<1>5. DeadInv' /\ deadUses' \subseteq Calls
  BY <1>2, DeadKept
<1>6. TypeOK'
  <2>1. promised' \subseteq Calls
    BY <1>0, <1>2 DEF IInv, TypeOK
  <2> QED BY <1>1, <1>3, <1>5, <2>1, WritingKeeps DEF IInv, TypeOK, HandlerType
<1>7. KeyInv'
  BY <1>1, <1>3, <1>4 DEF IInv, KeyInv
<1>8. StatusInv'
  <2> SUFFICES ASSUME NEW c \in Calls
               PROVE  /\ status'[c] <=> answeredBy'[c] # None
                      /\ rs[c] = "CODE_OK" => status'[c]
                      /\ status'[c] => rqi[c] # None /\ answers[answeredBy'[c]] > 0
                      /\ status'[c] /\ c \notin torn =>
                           /\ rqi[answeredBy'[c]] = rqi[c]
                           /\ c \in BinCalls \/ RespCmd[answeredBy'[c]] = RespCmd[c]
    BY <1>1 DEF StatusInv
  <2>1. CASE status'[c] = status[c] /\ answeredBy'[c] = answeredBy[c]
    BY <2>1 DEF IInv, StatusInv
  <2>2. CASE Hit(c)
    BY <1>0, <1>4, <2>2, WritingFacts
  <2> QED BY <1>3, <2>1, <2>2
<1>9. SpentInv'
  <2> SUFFICES ASSUME NEW c \in Calls, status'[c], Undisturbed(c), answeredBy'[c] = c,
                      NEW g \in handlers', g.to = c
               PROVE  c \in Locals /\ g.at = "second"
    BY <1>1, WritingKeeps DEF SpentInv
  <2>1. CASE h.at = "first" /\ g = new
    BY <2>1 DEF Writing
  <2>2. CASE g \in handlers \ {h} /\ ~Hit(c)
    BY <1>3, <2>2 DEF IInv, SpentInv
  <2>3. CASE g \in handlers \ {h} /\ Hit(c)
    <3>1. h.to = c
      BY <1>4, <2>3
    <3>2. /\ answers[c] \in Nat /\ answers[c] <= 1 /\ g.nr \in Nat /\ h.nr \in Nat
          /\ g.nr < answers[c] /\ h.nr < answers[c]
      BY <2>3, <3>1, HandlersTyped, RpcCallsAssumption
         DEF RpcCallsAssumption, IInv, TypeOK, NumberInv, Undisturbed, HandlerType
    <3>3. g.nr = h.nr
      BY <3>2
    <3> QED BY <2>3, <3>1, <3>3 DEF IInv, NumberInv
  <2> QED BY <2>1, <2>2, <2>3, WritingFacts
<1>10. StrayInv'
  <2> SUFFICES ASSUME NEW c \in Calls, status'[c], Alone(c), answeredBy'[c] # c
               PROVE  Race
    BY <1>1, WritingKeeps, RaceLasts DEF StrayInv, Alone
  <2>1. CASE ~Hit(c)
    BY <1>3, <2>1 DEF IInv, StrayInv
  <2>2. CASE Hit(c) /\ c = t
    BY <1>0, <1>4, <2>2, AloneFacts
  <2>3. CASE Hit(c) /\ c # t
    <3>1. pc[t] = "returned" /\ rqi[t] # None
      BY <1>4, <2>3, WritingFacts DEF Lands
    <3>2. SUFFICES ASSUME rs[t] # "CODE_ERROR", Alone(t), ~(answers[t] > 1) PROVE Race
      BY <1>0, <3>1 DEF Race
    <3>3. h.to = t /\ rs[t] = "CODE_OK" /\ status[t]
      <4>1. h.to = t
        BY <1>0, <3>2, AloneFacts
      <4>2. rs[t] = "CODE_OK"
        BY <1>0, <3>1, <3>2 DEF IInv, TypeOK, KeyInv
      <4> QED BY <1>0, <4>1, <4>2 DEF IInv, StatusInv
    <3>4. Undisturbed(t)
      BY <1>0, <3>2, RpcCallsAssumption DEF RpcCallsAssumption, Undisturbed, IInv, TypeOK
    <3>5. CASE answeredBy[t] = t
      <4>1. t \in Locals /\ h.at = "second"
        BY <1>0, <3>3, <3>4, <3>5 DEF IInv, SpentInv
      <4> QED BY <3>3, <4>1
    <3>6. CASE answeredBy[t] # t
      BY <1>0, <3>2, <3>3, <3>6 DEF IInv, StrayInv
    <3> QED BY <3>5, <3>6
  <2> QED BY <2>1, <2>2, <2>3
<1>11. DataInv'
  <2>1. ASSUME NEW g \in handlers', g.at = "second", g.to \notin Locals, g.data,
               g.target \in Wants
        PROVE  dataOf[g.target] # None \/ pc[g.target] = "returned"
    <3>1. CASE g \in handlers
      BY <2>1, <3>1 DEF IInv, DataInv
    <3>2. CASE h.at = "first" /\ g = new
      BY <2>1, <3>2 DEF Writing
    <3> QED BY <3>1, <3>2, WritingFacts
  <2> DEFINE Coming(c) ==
         /\ c \in Locals
         /\ \/ c \in deadUses'
            \/ \E g \in handlers' : g.target = c /\ g.at = "second" /\ g.data
  <2>2. ASSUME NEW c \in Wants \cap promised'
        PROVE  dataOf[c] # None \/ Coming(c)
    <3>1. CASE c \in promised
      <4>1. ASSUME c \in Locals, NEW g \in handlers, g.target = c, g.at = "second", g.data
            PROVE  Coming(c)
        <5>1. g # h
          BY <4>1, WritingFacts DEF Writing
        <5> QED BY <4>1, <5>1 DEF Writing
      <4> QED BY <1>2, <3>1, <4>1 DEF IInv, DataInv
    <3>2. CASE c \notin promised
      <4>1. c = t /\ pc[t] # "returned" /\ h.data
        BY <1>2, <3>2
      <4>2. CASE h.at = "second"
        BY <4>1, <4>2 DEF IInv, DataInv
      <4>3. CASE h.at = "first"
        <5>1. new \in handlers' /\ new.target = c /\ new.at = "second" /\ new.data
          BY <4>1, <4>3 DEF Writing
        <5>2. c \in Locals
          BY <4>1, <4>3, WritingFacts
        <5> QED BY <5>1, <5>2
      <4> QED BY <4>2, <4>3 DEF Writing
    <3> QED BY <3>1, <3>2
  <2>3. \A c \in promised' : pc[c] # "call"
    BY <1>2, WritingFacts DEF IInv, DataInv
  <2>4. \A c \in Calls : dataOf[c] # None =>
          /\ pc[c] # "call"
          /\ c \notin torn => rqi[c] # None /\ rqi[dataOf[c]] = rqi[c]
    BY DEF IInv, DataInv
  <2> QED BY <1>1, <2>1, <2>2, <2>3, <2>4 DEF DataInv
<1> QED BY <1>5, <1>6, <1>7, <1>8, <1>9, <1>10, <1>11, WritingKeeps DEF IInv
-----------------------------------------------------------------------------
(* The handlers of each protocol. *)

LEMMA Advances ==
  ASSUME IInv, NEW h \in handlers,
         \/ h.at = "first" /\ Moves(h, "second")
         \/ h.at = "second" /\ Ends(h),
         UNCHANGED <<now, call, requestList, answers, torn, crashed>>
  PROVE  Writing(h, [h EXCEPT !.at = "second"])
<1> DEFINE new == [h EXCEPT !.at = "second"]
<1>1. /\ new \in HandlerType /\ new.to = h.to /\ new.nr = h.nr
      /\ new.at = "second" /\ new.target = h.target /\ new.data = h.data
  BY HandlersTyped DEF HandlerType
<1>2. handlers' = (handlers \ {h}) \cup (IF h.at = "first" THEN {new} ELSE {})
  BY DEF Moves, Ends
<1> QED BY <1>1, <1>2 DEF Writing

LEMMA WriteStep ==
  ASSUME IInv, ~crashed, NEW h \in handlers, h.to \notin Locals, Write(h)
  PROVE  IInv'
<1>1. Writing(h, [h EXCEPT !.at = "second"])
  BY Advances DEF Write, DataThenStatus
<1>2. CASE h.at = "first" /\ CopyData(h.target, h)
  BY <1>1, <1>2, CopyStep
<1>3. CASE h.at = "second" /\ RaiseStatus(h.target, h)
  BY <1>1, <1>3, RaiseStep
<1> QED BY <1>2, <1>3 DEF Write, DataThenStatus

LEMMA ServerRespStep ==
  ASSUME IInv, ~crashed, NEW h \in handlers, OnServerResp(h)
  PROVE  IInv'
BY FindStep, LookStep, CompareStep, WriteStep DEF OnServerResp

LEMMA ServerBinRespStep ==
  ASSUME IInv, ~crashed, NEW h \in handlers, OnServerBinResp(h)
  PROVE  IInv'
<1>0. h.to \notin Locals
  BY RpcCallsAssumption DEF RpcCallsAssumption, OnServerBinResp
<1>1. ASSUME h.at = "compare", Moves(h, "first"),
             UNCHANGED <<now, call, status, requestList, answers, history, torn, crashed>>
      PROVE  IInv'
  <2>1. h.target # None /\ rqi[h.target] = rqi[h.to]
    BY <1>1 DEF IInv, HandlerInv
  <2>2. h.target \in BinCalls
    BY <2>1, BinTarget DEF OnServerBinResp
  <2> QED BY <1>1, <2>2, MatchStep DEF history
<1> QED BY <1>0, <1>1, FindStep, LookStep, WriteStep DEF OnServerBinResp

LEMMA LocalRespStep ==
  ASSUME IInv, ~crashed, NEW h \in handlers, OnLocalResp(h)
  PROVE  IInv'
<1>1. CASE Find(h) \/ Look(h) \/ Compare(h)
  BY <1>1, FindStep, LookStep, CompareStep
<1>2. ASSUME StatusThenData(h),
             UNCHANGED <<now, call, requestList, answers, torn, crashed>>
      PROVE  IInv'
  <2>1. Writing(h, [h EXCEPT !.at = "second"])
    BY <1>2, Advances DEF StatusThenData
  <2>2. CASE h.at = "first" /\ RaiseStatus(h.target, h)
    BY <2>1, <2>2, RaiseStep DEF OnLocalResp
  <2>3. CASE h.at = "second" /\ CopyData(h.target, h)
    BY <2>1, <2>3, CopyStep DEF OnLocalResp
  <2> QED BY <1>2, <2>2, <2>3 DEF StatusThenData
<1> QED BY <1>1, <1>2 DEF OnLocalResp

(* Every step is one of a call, of the other side or of a handler.         *)
LEMMA Steps ==
  RpcNext =>
    /\ ~crashed
    /\ \/ Tick
       \/ \E c \in Calls : CallStep(c) \/ Respond(c)
       \/ \E h \in handlers : OnServerResp(h) \/ OnServerBinResp(h) \/ OnLocalResp(h)
<1>1. Locals \subseteq Calls
  BY RpcCallsAssumption DEF RpcCallsAssumption
<1> QED BY <1>1 DEF RpcNext, CloudNext, LocalNext, PublishToCloudMessage,
        PublishBinToCloudMessage, PublishToCloudRecieveBinMessage,
        PublishToLocalMessage, OnMobileResp

LEMMA NextIInv == IInv /\ [RpcNext]_vars => IInv'
<1> SUFFICES ASSUME IInv, [RpcNext]_vars PROVE IInv'
  OBVIOUS
<1>1. CASE UNCHANGED vars
  <2> USE <1>1 DEF vars, IInv
  <2>1. TypeOK' /\ ListPointsToCalls' /\ KeyInv' /\ EntryInv'
    BY DEF TypeOK, ListPointsToCalls, KeyInv, EntryInv
  <2>2. HandlerInv' /\ NumberInv' /\ StatusInv'
    BY DEF HandlerInv, NumberInv, StatusInv
  <2>3. SpentInv' /\ DeadInv' /\ DataInv'
    BY DEF SpentInv, DeadInv, DataInv, Undisturbed, Alone
  <2>4. ThreadInv' /\ StrayInv'
    BY DEF ThreadInv, PointedAt, StrayInv, Race, Alone
  <2> QED BY <2>1, <2>2, <2>3, <2>4
<1>2. CASE RpcNext
  BY <1>2, Steps, TickStep, CallStepKeeps, RespondStep, ServerRespStep,
     ServerBinRespStep, LocalRespStep
<1> QED BY <1>1, <1>2

(* The inductive invariant holds in every reachable state.                 *)
THEOREM Invariance == RpcSpec => []IInv
BY InitIInv, NextIInv, PTL DEF RpcSpec

(* The variables keep the types of the code's data: in particular the      *)
(* count of waits stays in its range (CloudProtocol.cpp:427).              *)
THEOREM TypeCorrectness == RpcSpec => []TypeOK
BY Invariance, PTL DEF IInv

(* The map holds no pointer to a call that has returned, however many      *)
(* calls share an identifier (CloudProtocol.cpp:420, 435).                 *)
THEOREM PointersLive == RpcSpec => []ListPointsToCalls
BY Invariance, PTL DEF IInv

(* CODE_OK means that an answer came: to this command, unless the call     *)
(* began under a handler late for an earlier call of its thread, and to    *)
(* this very call, unless another had the same rqi                         *)
(* (CloudProtocol.cpp:182-188, 431).                                       *)
THEOREM OkIsAnsweredAlways == RpcSpec => []OkIsAnswered
<1>1. IInv => OkIsAnswered
  BY DEF IInv, TypeOK, StatusInv, OkIsAnswered, Alone
<1> QED BY <1>1, Invariance, PTL

(* The data that a caller finds are its own, whatever it returned.         *)
LEMMA OwnData ==
  ASSUME IInv, NEW c \in Calls PROVE DataAreOwn(c)
BY AloneFacts DEF DataAreOwn, IInv, TypeOK, DataInv

(* A call to the cloud that ended with CODE_OK is touched no more if it    *)
(* had its rqi to itself, was answered once and began undisturbed; it has  *)
(* the data of the answer that ended it; and data in its place are its     *)
(* own, also when it timed out (CloudProtocol.cpp:181-194).                *)
THEOREM CloudOkIsFinalAlways == RpcSpec => []CloudOkIsFinal
<1>1. ASSUME IInv PROVE OkIsFinal
  <2> SUFFICES ASSUME NEW c \in Calls, c \notin Locals, rs[c] = "CODE_OK",
                      Undisturbed(c), c \notin torn
               PROVE  c \notin deadUses /\ \A h \in handlers : h.target # c
    BY DEF OkIsFinal, Undisturbed
  <2>1. status[c] /\ answeredBy[c] = c
    <3>1. status[c] /\ answeredBy[c] \in Calls /\ rqi[answeredBy[c]] = rqi[c]
      BY <1>1 DEF IInv, StatusInv, TypeOK
    <3> QED BY <3>1, AloneFacts DEF Undisturbed
  <2>2. c \notin deadUses
    BY <1>1 DEF IInv, DeadInv
  <2>3. ASSUME NEW h \in handlers, h.target = c PROVE FALSE
    <3>1. h.to \in Calls /\ rqi[h.to] = rqi[c]
      BY <1>1, <2>3, KeyFacts, Targets
    <3>2. h.to = c
      BY <3>1, AloneFacts DEF Undisturbed
    <3> QED BY <1>1, <2>1, <3>2 DEF IInv, SpentInv
  <2> QED BY <2>2, <2>3
<1>2. IInv => OkIsComplete
  BY DEF IInv, DataInv, OkIsComplete
<1>3. IInv => CloudOkIsFinal
  BY <1>1, <1>2, OwnData DEF CloudOkIsFinal
<1> QED BY <1>3, Invariance, PTL

(* On the local broker the data of the answer that ended a call may come   *)
(* late, are not forgotten, and are the call's own                         *)
(* (LocalProtocol.cpp:203-207).                                            *)
THEOREM LocalDataAreLateAlways == RpcSpec => []LocalDataAreLate
<1>1. IInv => DataAreLate
  BY DEF IInv, DataInv, DataAreLate
<1>2. Locals \subseteq Calls
  BY RpcCallsAssumption DEF RpcCallsAssumption
<1>3. IInv => LocalDataAreLate
  BY <1>1, <1>2, OwnData DEF LocalDataAreLate
<1> QED BY <1>3, Invariance, PTL
-----------------------------------------------------------------------------
(* The null pointer. *)

(* The second look finds nothing only after a race.                        *)
LEMMA LookNeedsARace ==
  ASSUME IInv, NEW h \in handlers, h.at = "look", requestList[rqi[h.to]] = None
  PROVE  Race
<1> DEFINE c == h.to
<1>1. c \in Calls /\ pc[c] # "call" /\ rs[c] # "CODE_TIMEOUT" /\ rqi[c] # None
  BY HandlersTyped DEF HandlerType, IInv, HandlerInv, KeyInv
<1>2. CASE pc[c] = "returned"
  <2>1. rs[c] \in {"CODE_OK", "CODE_ERROR"}
    BY <1>1, <1>2 DEF IInv, TypeOK, KeyInv
  <2> SUFFICES ASSUME rs[c] = "CODE_OK", Alone(c), ~(answers[c] > 1) PROVE Race
    BY <1>1, <1>2, <2>1 DEF Race
  <2>2. status[c]
    BY <1>1 DEF IInv, StatusInv
  <2>3. Undisturbed(c)
    BY <1>1, RpcCallsAssumption DEF RpcCallsAssumption, Undisturbed, IInv, TypeOK
  <2>4. answeredBy[c] # c
    BY <1>1, <2>2, <2>3 DEF IInv, SpentInv
  <2> QED BY <1>1, <2>2, <2>4 DEF IInv, StrayInv
<1>3. CASE pc[c] # "returned"
  <2>1. pc[c] \in Registered
    BY <1>1, <1>3 DEF IInv, TypeOK
  <2>2. PICK d \in Calls : pc[d] = "returned" /\ rqi[d] = rqi[c]
    BY <1>1, <2>1 DEF IInv, EntryInv
  <2>3. ~Alone(d)
    BY <1>1, <1>3, <2>2 DEF Alone
  <2> QED BY <1>1, <2>2, <2>3 DEF Race
<1> QED BY <1>2, <1>3

LEMMA CrashingStep ==
  ASSUME IInv, [RpcNext]_vars, ~crashed, crashed' PROVE Race'
<1>1. PICK h \in handlers : Look(h)
  <2>1. ~(UNCHANGED crashed)
    OBVIOUS
  <2>2. ASSUME NEW c \in Calls, CallStep(c) \/ Respond(c) PROVE FALSE
    BY <2>1, <2>2 DEF CallStep, Refused, Register, Publish, Poll, Judge, Erase, Respond
  <2>3. ASSUME NEW h, Find(h) \/ Compare(h) \/ Write(h) PROVE FALSE
    BY <2>1, <2>3 DEF Find, Compare, Write
  <2>4. RpcNext
    BY <2>1 DEF vars
  <2> QED BY <2>1, <2>2, <2>3, <2>4, Steps
      DEF OnServerResp, OnServerBinResp, OnLocalResp, Tick
<1>2. h.at = "look" /\ requestList[rqi[h.to]] = None
  BY <1>1 DEF Look, IInv, TypeOK
<1>3. Race
  BY <1>2, LookNeedsARace
<1> QED BY <1>1, <1>3 DEF Look, call, Race, Alone

(* The response thread reads through a null pointer only if a call that    *)
(* was sent gave up under it, shared its rqi or was answered twice         *)
(* (CloudProtocol.cpp:179-182).                                            *)
THEOREM CrashNeedsARaceAlways == RpcSpec => []CrashNeedsARace
<1>1. CrashNeedsARace <=> (crashed => Race)
  BY DEF CrashNeedsARace, Race
<1>2. Init => CrashNeedsARace
  BY DEF Init, CrashNeedsARace
<1>3. CrashNeedsARace /\ IInv /\ [RpcNext]_vars => CrashNeedsARace'
  <2> SUFFICES ASSUME CrashNeedsARace, IInv, [RpcNext]_vars, crashed'
               PROVE  Race'
    BY DEF CrashNeedsARace, Race
  <2>1. CASE ~crashed
    BY <2>1, CrashingStep
  <2>2. CASE crashed
    <3>1. UNCHANGED vars
      BY <2>2 DEF RpcNext
    <3> QED BY <1>1, <2>2, <3>1 DEF vars, Race, Alone
  <2> QED BY <2>1, <2>2
<1> QED BY <1>2, <1>3, Invariance, PTL DEF RpcSpec
-----------------------------------------------------------------------------
(* The refinement of RpcCall. *)

LEMMA InitRefines == Init => Abstract!Init
BY DEF Init, Abstract!Init, phase, answered

(* A step that leaves the calls' places and results alone, and raises no   *)
(* status, is a stutter.                                                   *)
LEMMA Stutters ==
  ASSUME UNCHANGED <<pc, rs, answeredBy>> PROVE UNCHANGED <<phase, answered>>
BY DEF phase, answered

LEMMA RefusedRefines ==
  ASSUME IInv, NEW c \in Calls, Refused(c) PROVE Abstract!Refuse(c)
<1> USE DEF Refused, Goto, history
<1>1. phase[c] = "idle"
  BY DEF phase
<1>2. phase' = [phase EXCEPT ![c] = "CODE_TIMEOUT"]
  BY DEF IInv, TypeOK, phase
<1>3. answeredBy[c] = None
  BY DEF IInv, TypeOK, KeyInv, StatusInv
<1>4. answered' = answered
  BY <1>3 DEF IInv, TypeOK, answered
<1> QED BY <1>1, <1>2, <1>4 DEF Abstract!Refuse

LEMMA RegisterRefines ==
  ASSUME IInv, NEW c \in Calls, Register(c) PROVE Abstract!Request(c)
<1> USE DEF Register, Goto, history
<1>1. phase[c] = "idle" /\ rs[c] = "none"
  BY DEF phase, IInv, KeyInv
<1>2. phase' = [phase EXCEPT ![c] = "waiting"]
  BY <1>1 DEF IInv, TypeOK, phase
<1>3. answered' = answered
  BY DEF answered
<1> QED BY <1>1, <1>2, <1>3 DEF Abstract!Request

(* A step within a call, from a place that is not its start, with its      *)
(* result unchanged.                                                       *)
LEMMA MovesOnRefines ==
  ASSUME IInv, NEW c \in Calls, pc[c] # "call",
         NEW at \in Registered \cup {"returned"}, Goto(c, at),
         UNCHANGED <<rs, answeredBy>>
  PROVE  UNCHANGED <<phase, answered>>
<1>1. answered' = answered
  BY DEF answered
<1>2. ASSUME NEW d \in Calls PROVE (pc'[d] = "call") <=> (pc[d] = "call")
  BY DEF Goto, IInv, TypeOK, Registered
<1>3. phase' = phase
  BY <1>2 DEF phase
<1> QED BY <1>1, <1>3

LEMMA JudgeRefines ==
  ASSUME IInv, NEW c \in Calls, Judge(c) PROVE Abstract!Return(c)
<1> USE DEF Judge, Goto, history
<1>1. phase[c] = "waiting" /\ rs[c] = "none"
  BY DEF phase, IInv, KeyInv
<1>2. status[c] <=> c \in answered
  BY <1>1 DEF IInv, StatusInv, answered
<1>3. phase' = [phase EXCEPT ![c] = IF c \in answered THEN "CODE_OK" ELSE "CODE_ERROR"]
  <2> DEFINE r == IF c \in answered THEN "CODE_OK" ELSE "CODE_ERROR"
  <2>1. rs' = [rs EXCEPT ![c] = r] /\ r # "none"
    BY <1>2
  <2> HIDE DEF r
  <2>2. phase' = [phase EXCEPT ![c] = r]
    BY <2>1 DEF IInv, TypeOK, phase
  <2> QED BY <2>2 DEF r
<1>4. answered' = answered
  <2>1. rs'[c] = "CODE_ERROR" <=> c \notin answered
    BY <1>2 DEF IInv, TypeOK
  <2>2. c \in answered => answeredBy[c] # None /\ rs'[c] # "CODE_ERROR"
    BY <2>1 DEF answered
  <2> QED BY <2>1, <2>2 DEF IInv, TypeOK, answered
<1> QED BY <1>1, <1>3, <1>4 DEF Abstract!Return

LEMMA CallRefines ==
  ASSUME IInv, NEW c \in Calls, CallStep(c)
  PROVE  Abstract!Next \/ UNCHANGED <<phase, answered>>
<1>1. CASE Refused(c) \/ Register(c) \/ Judge(c)
  BY <1>1, RefusedRefines, RegisterRefines, JudgeRefines DEF Abstract!Next
<1>2. CASE Publish(c)
  BY <1>2, MovesOnRefines DEF Publish, Registered, history
<1>3. CASE Poll(c)
  <2>1. CASE status[c] \/ left[c] = 0
    BY <1>3, <2>1, MovesOnRefines DEF Poll, Registered, history
  <2>2. CASE ~(status[c] \/ left[c] = 0)
    BY <1>3, <2>2, Stutters DEF Poll, history
  <2> QED BY <2>1, <2>2
<1>4. CASE Erase(c)
  BY <1>4, MovesOnRefines DEF Erase, Registered, history
<1> QED BY <1>1, <1>2, <1>3, <1>4 DEF CallStep

(* A raised status answers a call that waits; it is too late for one that  *)
(* has been judged, and one that was answered is not answered again.       *)
LEMMA RaiseInRefines ==
  ASSUME IInv, NEW h \in handlers, h.to # None, NEW d \in Calls,
         pc[d] # "call", rs[d] # "CODE_TIMEOUT", RaiseIn(d, h), UNCHANGED call
  PROVE  Abstract!Next \/ UNCHANGED <<phase, answered>>
<1>1. phase' = phase /\ rs' = rs
  BY DEF phase, call
<1>2. answeredBy' = [answeredBy EXCEPT ![d] = h.to]
  BY DEF RaiseIn
<1>3. CASE rs[d] = "none"
  <2>1. phase[d] = "waiting"
    BY <1>3 DEF phase
  <2>2. answered' = answered \cup {d}
    BY <1>1, <1>2, <1>3 DEF IInv, TypeOK, answered
  <2> QED BY <1>1, <2>1, <2>2 DEF Abstract!Next, Abstract!Answer
<1>4. CASE rs[d] = "CODE_ERROR"
  BY <1>1, <1>2, <1>4 DEF IInv, TypeOK, answered
<1>5. CASE rs[d] = "CODE_OK"
  <2>1. answeredBy[d] # None
    BY <1>5 DEF IInv, StatusInv
  <2> QED BY <1>1, <1>2, <1>5, <2>1 DEF IInv, TypeOK, answered
<1> QED BY <1>3, <1>4, <1>5 DEF IInv, TypeOK

LEMMA RaiseRefines ==
  ASSUME IInv, NEW h \in handlers, ~crashed, h.at \in {"first", "second"},
         RaiseStatus(h.target, h), UNCHANGED call
  PROVE  Abstract!Next \/ UNCHANGED <<phase, answered>>
<1>1. h.target # None /\ h.to # None
  BY KeyFacts DEF IInv, TypeOK, HandlerInv
<1>2. CASE pc[h.target] = "returned" /\ UNCHANGED <<status, answeredBy>>
  BY <1>2, Stutters DEF call
<1>3. ASSUME NEW d \in Reused(h.target), RaiseIn(d, h)
      PROVE  Abstract!Next \/ UNCHANGED <<phase, answered>>
  <2>1. d \in Calls /\ pc[d] \in Registered
    BY DEF Reused
  <2>2. pc[d] # "call" /\ rs[d] # "CODE_TIMEOUT"
    BY <2>1 DEF IInv, KeyInv, Registered
  <2> QED BY <1>1, <1>3, <2>1, <2>2, RaiseInRefines
<1>4. CASE pc[h.target] # "returned" /\ RaiseIn(h.target, h)
  <2>1. h.target \in Calls /\ pc[h.target] # "call"
    BY <1>1, Targets
  <2>2. rs[h.target] # "CODE_TIMEOUT"
    BY <1>4, <2>1 DEF IInv, KeyInv
  <2> QED BY <1>1, <1>4, <2>1, <2>2, RaiseInRefines
<1> QED BY <1>2, <1>3, <1>4 DEF RaiseStatus

LEMMA HandlerRefines ==
  ASSUME IInv, NEW h \in handlers, ~crashed,
         OnServerResp(h) \/ OnServerBinResp(h) \/ OnLocalResp(h)
  PROVE  Abstract!Next \/ UNCHANGED <<phase, answered>>
<1>1. CASE /\ h.at \in {"first", "second"}
           /\ RaiseStatus(h.target, h) /\ UNCHANGED call
  BY <1>1, RaiseRefines
<1>2. CASE CopyData(h.target, h) /\ UNCHANGED call
  BY <1>2, Stutters DEF CopyData, call
<1>3. CASE Find(h) \/ Look(h) \/ Compare(h) \/ UNCHANGED <<call, history>>
  BY <1>3, Stutters DEF Find, Look, Compare, call, history
<1> QED BY <1>1, <1>2, <1>3
    DEF OnServerResp, OnServerBinResp, OnLocalResp, Write, DataThenStatus, StatusThenData

LEMMA NextRefines ==
  IInv /\ [RpcNext]_vars => [Abstract!Next]_<<phase, answered>>
<1> SUFFICES ASSUME IInv, [RpcNext]_vars
             PROVE  Abstract!Next \/ UNCHANGED <<phase, answered>>
  OBVIOUS
<1>1. CASE UNCHANGED vars \/ Tick
  BY <1>1, Stutters DEF vars, Tick, call, history
<1>2. ASSUME NEW c \in Calls, Respond(c) PROVE UNCHANGED <<phase, answered>>
  BY <1>2, Stutters DEF Respond, call, history
<1>3. CASE RpcNext
  BY <1>1, <1>2, <1>3, Steps, CallRefines, HandlerRefines
<1> QED BY <1>1, <1>3

(* The calls keep the promise of RpcCall, to either side: one is refused   *)
(* or waits, and it ends with CODE_OK exactly if an answer, its own or one *)
(* that a late handler puts in its record, came while it waited            *)
(* (CloudProtocol.cpp:401-438, LocalProtocol.cpp:253-282).                 *)
THEOREM Refinement == RpcSpec => ImplementsRpcCall
<1>1. Init => Abstract!Init
  BY InitRefines
<1>2. IInv /\ [RpcNext]_vars => [Abstract!Next]_<<phase, answered>>
  BY NextRefines
<1> QED BY <1>1, <1>2, Invariance, PTL DEF RpcSpec, ImplementsRpcCall, Abstract!Spec
=============================================================================
