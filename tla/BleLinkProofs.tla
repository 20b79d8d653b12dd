--------------------------- MODULE BleLinkProofs ---------------------------
(* Machine-checked proofs about BleLink, for any set of threads, commands  *)
(* and frames, any blocks of frames and any queue capacity.                    *)
EXTENDS BleLink, TLAPS

\* The groups of variables, expanded wherever a step leaves a group alone.
USE DEF senderVars, entryVars, readerVars, overlapVars

LEMMA InitIInv == Init => IInv
  <1> SUFFICES ASSUME Init PROVE IInv
    OBVIOUS
  <1>1. AnyCommand \in Commands
    BY BleLinkAssumption DEF AnyCommand
  <1>2. TypeOK
    BY <1>1 DEF Init, TypeOK
  <1>3. MutexInv /\ ListInv /\ PointerInv /\ AnswerInv
    BY BleLinkAssumption
    DEF Init, MutexInv, ListInv, Registered, PointerInv, InProgress, AnswerInv
  <1>4. QED
    BY <1>2, <1>3 DEF IInv

LEMMA NextTypeOK ==
  ASSUME TypeOK, PointerInv, [Next]_vars
  PROVE  TypeOK'
  <1> USE BleLinkAssumption DEF TypeOK, PointerInv
  <1>1. CASE \E c \in Callers, k \in Commands : Call(c, k)
    BY <1>1 DEF Call
  <1>2. CASE \E c \in Callers : Lock(c)
    BY <1>2 DEF Lock
  <1>3. CASE \E c \in Callers : Register(c)
    BY <1>3 DEF Register
  <1>4. CASE \E c \in Callers : Write(c)
    BY <1>4 DEF Write
  <1>5. CASE \E c \in Callers : Poll(c)
    BY <1>5 DEF Poll
  <1>6. CASE \E c \in Callers : Sleep(c)
    BY <1>6 DEF Sleep
  <1>7. CASE \E c \in Callers : Erase(c)
    BY <1>7 DEF Erase
  <1>8. CASE \E c \in Callers : Return(c)
    BY <1>8 DEF Return
  <1>9. CASE Compare
    BY <1>9 DEF Compare, EndVisit
  <1>10. CASE SetStatus
    BY <1>10 DEF SetStatus
  <1>11. CASE Receive
    BY <1>11 DEF Receive
  <1>12. CASE SkipDuplicate
    BY <1>12 DEF SkipDuplicate, Frame
  <1>13. CASE DropTruncated
    BY <1>13 DEF DropTruncated
  <1>14. CASE BeginWalk
    BY <1>14 DEF BeginWalk
  <1>15. CASE CopyAnswer
    <2>1. Frame \in Frames
      BY <1>15 DEF CopyAnswer, Frame
    <2>2. CASE data' = data
      BY <1>15, <2>2 DEF CopyAnswer, EndVisit
    <2>3. CASE \E c \in pointers : data' = [data EXCEPT ![c] = Frame]
      <3>1. data' \in [Callers -> Frames \cup {NoFrame}]
        BY <2>1, <2>3
      <3>2. QED
        BY <1>15, <3>1 DEF CopyAnswer, EndVisit
    <2>4. QED
      BY <1>15, <2>2, <2>3 DEF CopyAnswer
  <1>16. CASE QueueFrame
    BY <1>16 DEF QueueFrame, Frame
  <1>17. CASE EndBlock
    BY <1>17 DEF EndBlock
  <1>18. CASE HandleOpcodeBle
    BY <1>18 DEF HandleOpcodeBle
  <1>19. CASE UNCHANGED vars
    BY <1>19 DEF vars
  <1>20. QED
    BY <1>1, <1>2, <1>3, <1>4, <1>5, <1>6, <1>7, <1>8, <1>9,
       <1>10, <1>11, <1>12, <1>13, <1>14, <1>15, <1>16, <1>17, <1>18, <1>19
    DEF Next, SendMessage, OnMessage

LEMMA NextMutexInv ==
  ASSUME TypeOK, MutexInv, [Next]_vars
  PROVE  MutexInv'
  <1> USE BleLinkAssumption DEF TypeOK, MutexInv
  <1>1. CASE \E c \in Callers, k \in Commands : Call(c, k)
    BY <1>1 DEF Call
  <1>2. CASE \E c \in Callers : Lock(c)
    BY <1>2 DEF Lock
  <1>3. CASE \E c \in Callers : Register(c)
    BY <1>3 DEF Register
  <1>4. CASE \E c \in Callers : Write(c)
    BY <1>4 DEF Write
  <1>5. CASE \E c \in Callers : Poll(c)
    BY <1>5 DEF Poll
  <1>6. CASE \E c \in Callers : Sleep(c)
    BY <1>6 DEF Sleep
  <1>7. CASE \E c \in Callers : Erase(c)
    BY <1>7 DEF Erase
  <1>8. CASE \E c \in Callers : Return(c)
    <2>1. PICK c \in Callers : Return(c)
      BY <1>8
    <2>2. mtxWaitSendUart = c /\ mtxWaitSendUart' = Nobody /\ Nobody # c
      BY <2>1 DEF Return
    <2>3. cmd' = cmd /\ rc' = rc /\ pc' = [pc EXCEPT ![c] = "idle"]
      BY <2>1 DEF Return, senderVars
    <2>4. QED
      BY <2>2, <2>3
  <1>9. CASE Compare
    BY <1>9 DEF Compare, EndVisit
  <1>10. CASE SetStatus
    BY <1>10 DEF SetStatus
  <1>11. CASE Receive
    BY <1>11 DEF Receive
  <1>12. CASE SkipDuplicate
    BY <1>12 DEF SkipDuplicate
  <1>13. CASE DropTruncated
    BY <1>13 DEF DropTruncated
  <1>14. CASE BeginWalk
    BY <1>14 DEF BeginWalk
  <1>15. CASE CopyAnswer
    BY <1>15 DEF CopyAnswer, EndVisit
  <1>16. CASE QueueFrame
    BY <1>16 DEF QueueFrame
  <1>17. CASE EndBlock
    BY <1>17 DEF EndBlock
  <1>18. CASE HandleOpcodeBle
    BY <1>18 DEF HandleOpcodeBle
  <1>19. CASE UNCHANGED vars
    BY <1>19 DEF vars
  <1>20. QED
    BY <1>1, <1>2, <1>3, <1>4, <1>5, <1>6, <1>7, <1>8, <1>9,
       <1>10, <1>11, <1>12, <1>13, <1>14, <1>15, <1>16, <1>17, <1>18, <1>19
    DEF Next, SendMessage, OnMessage

LEMMA NextListInv ==
  ASSUME TypeOK, MutexInv, ListInv, [Next]_vars
  PROVE  ListInv'
  <1> USE BleLinkAssumption DEF TypeOK, MutexInv, ListInv, Registered
  <1>1. CASE \E c \in Callers, k \in Commands : Call(c, k)
    BY <1>1 DEF Call
  <1>2. CASE \E c \in Callers : Lock(c)
    BY <1>2 DEF Lock
  <1>3. CASE \E c \in Callers : Register(c)
    BY <1>3 DEF Register
  <1>4. CASE \E c \in Callers : Write(c)
    BY <1>4 DEF Write
  <1>5. CASE \E c \in Callers : Poll(c)
    BY <1>5 DEF Poll
  <1>6. CASE \E c \in Callers : Sleep(c)
    BY <1>6 DEF Sleep
  <1>7. CASE \E c \in Callers : Erase(c)
    BY <1>7 DEF Erase
  <1>8. CASE \E c \in Callers : Return(c)
    BY <1>8 DEF Return
  <1>9. CASE Compare
    BY <1>9 DEF Compare, EndVisit
  <1>10. CASE SetStatus
    BY <1>10 DEF SetStatus
  <1>11. CASE Receive
    BY <1>11 DEF Receive
  <1>12. CASE SkipDuplicate
    BY <1>12 DEF SkipDuplicate
  <1>13. CASE DropTruncated
    BY <1>13 DEF DropTruncated
  <1>14. CASE BeginWalk
    BY <1>14 DEF BeginWalk
  <1>15. CASE CopyAnswer
    BY <1>15 DEF CopyAnswer, EndVisit
  <1>16. CASE QueueFrame
    BY <1>16 DEF QueueFrame
  <1>17. CASE EndBlock
    BY <1>17 DEF EndBlock
  <1>18. CASE HandleOpcodeBle
    BY <1>18 DEF HandleOpcodeBle
  <1>19. CASE UNCHANGED vars
    BY <1>19 DEF vars
  <1>20. QED
    BY <1>1, <1>2, <1>3, <1>4, <1>5, <1>6, <1>7, <1>8, <1>9,
       <1>10, <1>11, <1>12, <1>13, <1>14, <1>15, <1>16, <1>17, <1>18, <1>19
    DEF Next, SendMessage, OnMessage

LEMMA NextPointerInv ==
  ASSUME TypeOK, MutexInv, ListInv, PointerInv, [Next]_vars
  PROVE  PointerInv'
  <1> USE BleLinkAssumption DEF TypeOK, MutexInv, ListInv, Registered, PointerInv
  <1>1. CASE \E c \in Callers, k \in Commands : Call(c, k)
    BY <1>1 DEF Call
  <1>2. CASE \E c \in Callers : Lock(c)
    BY <1>2 DEF Lock
  <1>3. CASE \E c \in Callers : Register(c)
    <2>1. PICK c \in Callers : Register(c)
      BY <1>3
    <2>2. /\ pc[c] = "register" /\ cmd[c].rsp # NoRsp
          /\ \A d \in pointers \ dead : d # c /\ pc[d] \notin {"idle", "lock"}
      BY <2>1 DEF Register
    <2>3. pointers \subseteq dead
      BY <2>2
    <2>4. /\ pc' = [pc EXCEPT ![c] = "write"]
          /\ UNCHANGED <<cmd, rpc, chunk, dead>>
          /\ \/ pointers = {} /\ UNCHANGED <<pointers, torn>>
             \/ /\ pointers # {}
                /\ pointers' = pointers \cup {c} /\ torn' = torn \cup {c}
      BY <2>1 DEF Register
    <2>5. QED
      BY <2>2, <2>3, <2>4
  <1>4. CASE \E c \in Callers : Write(c)
    BY <1>4 DEF Write
  <1>5. CASE \E c \in Callers : Poll(c)
    BY <1>5 DEF Poll
  <1>6. CASE \E c \in Callers : Sleep(c)
    BY <1>6 DEF Sleep
  <1>7. CASE \E c \in Callers : Erase(c)
    BY <1>7 DEF Erase
  <1>8. CASE \E c \in Callers : Return(c)
    BY <1>8 DEF Return
  <1>9. CASE Compare
    BY <1>9 DEF Compare, EndVisit
  <1>10. CASE SetStatus
    BY <1>10 DEF SetStatus
  <1>11. CASE Receive
    BY <1>11 DEF Receive
  <1>12. CASE SkipDuplicate
    BY <1>12 DEF SkipDuplicate
  <1>13. CASE DropTruncated
    BY <1>13 DEF DropTruncated
  <1>14. CASE BeginWalk
    <2>1. /\ rpc = "frame" /\ pointers' = messageRespList /\ chunk # <<>>
          /\ rpc' = IF messageRespList = {} THEN "queue" ELSE "compare"
          /\ UNCHANGED <<pc, cmd, chunk, dead, torn>>
      BY <1>14 DEF BeginWalk
    <2>2. dead = {}
      BY <2>1
    <2>3. \A c \in messageRespList :
            /\ pc[c] \in {"write", "wait", "erase"} /\ cmd[c].rsp # NoRsp
            /\ mtxWaitSendUart = c
      OBVIOUS
    <2>4. QED
      BY <2>1, <2>2, <2>3
  <1>15. CASE CopyAnswer
    BY <1>15 DEF CopyAnswer, EndVisit
  <1>16. CASE QueueFrame
    BY <1>16 DEF QueueFrame
  <1>17. CASE EndBlock
    BY <1>17 DEF EndBlock
  <1>18. CASE HandleOpcodeBle
    BY <1>18 DEF HandleOpcodeBle
  <1>19. CASE UNCHANGED vars
    BY <1>19 DEF vars
  <1>20. QED
    BY <1>1, <1>2, <1>3, <1>4, <1>5, <1>6, <1>7, <1>8, <1>9,
       <1>10, <1>11, <1>12, <1>13, <1>14, <1>15, <1>16, <1>17, <1>18, <1>19
    DEF Next, SendMessage, OnMessage

LEMMA NextAnswerInv ==
  ASSUME TypeOK, MutexInv, PointerInv, AnswerInv, [Next]_vars
  PROVE  AnswerInv'
  <1> USE BleLinkAssumption DEF TypeOK, MutexInv, PointerInv, AnswerInv, Answered, Matches, Frame, InProgress
  <1>1. CASE \E c \in Callers, k \in Commands : Call(c, k)
    BY <1>1 DEF Call
  <1>2. CASE \E c \in Callers : Lock(c)
    <2>1. PICK c \in Callers : Lock(c)
      BY <1>2
    <2>2. /\ cmd' = cmd /\ chunk' = chunk /\ pointers' = pointers /\ rpc' = rpc
          /\ status' = [status EXCEPT ![c] = FALSE]
          /\ \A d \in Callers \ {c} : pc'[d] = pc[d] /\ rc'[d] = rc[d] /\ data'[d] = data[d]
                                      /\ (d \notin torn' => d \notin torn)
      BY <2>1 DEF Lock
    <2>3. /\ pc[c] = "lock"
          /\ pc'[c] \in {"register", "write"}
          /\ data'[c] = NoFrame
          /\ c \notin torn' => c \notin dead
      BY <2>1 DEF Lock
    <2>4. c \notin torn' => c \notin pointers
      BY <2>3
    <2>5. QED
      BY <2>2, <2>3, <2>4
  <1>3. CASE \E c \in Callers : Register(c)
    BY <1>3 DEF Register
  <1>4. CASE \E c \in Callers : Write(c)
    BY <1>4 DEF Write
  <1>5. CASE \E c \in Callers : Poll(c)
    BY <1>5 DEF Poll
  <1>6. CASE \E c \in Callers : Sleep(c)
    BY <1>6 DEF Sleep
  <1>7. CASE \E c \in Callers : Erase(c)
    BY <1>7 DEF Erase
  <1>8. CASE \E c \in Callers : Return(c)
    BY <1>8 DEF Return
  <1>9. CASE Compare
    BY <1>9 DEF Compare, EndVisit
  <1>10. CASE SetStatus
    BY <1>10 DEF SetStatus
  <1>11. CASE Receive
    BY <1>11 DEF Receive
  <1>12. CASE SkipDuplicate
    BY <1>12 DEF SkipDuplicate
  <1>13. CASE DropTruncated
    BY <1>13 DEF DropTruncated
  <1>14. CASE BeginWalk
    BY <1>14 DEF BeginWalk
  <1>15. CASE CopyAnswer
    BY <1>15 DEF CopyAnswer, EndVisit
  <1>16. CASE QueueFrame
    BY <1>16 DEF QueueFrame
  <1>17. CASE EndBlock
    BY <1>17 DEF EndBlock
  <1>18. CASE HandleOpcodeBle
    BY <1>18 DEF HandleOpcodeBle
  <1>19. CASE UNCHANGED vars
    BY <1>19 DEF vars
  <1>20. QED
    BY <1>1, <1>2, <1>3, <1>4, <1>5, <1>6, <1>7, <1>8, <1>9,
       <1>10, <1>11, <1>12, <1>13, <1>14, <1>15, <1>16, <1>17, <1>18, <1>19
    DEF Next, SendMessage, OnMessage

-----------------------------------------------------------------------------
\* IInv holds in every reachable state.
THEOREM Invariance == Spec => []IInv
  <1>1. IInv /\ [Next]_vars => IInv'
    <2> SUFFICES ASSUME IInv, [Next]_vars PROVE IInv'
      OBVIOUS
    <2>1. TypeOK /\ MutexInv /\ ListInv /\ PointerInv /\ AnswerInv
      BY DEF IInv
    <2>2. TypeOK' /\ MutexInv' /\ ListInv'
      BY <2>1, NextTypeOK, NextMutexInv, NextListInv
    <2>3. PointerInv' /\ AnswerInv'
      BY <2>1, NextPointerInv, NextAnswerInv
    <2>4. QED
      BY <2>2, <2>3 DEF IInv
  <1>2. QED
    BY <1>1, InitIInv, PTL DEF Spec

\* The state of the link has its type in every reachable state.
THEOREM TypeCorrectness == Spec => []TypeOK
  <1>1. IInv => TypeOK
    BY DEF IInv
  <1>2. QED
    BY <1>1, Invariance, PTL

\* SendMessage: a registered entry is always the one of the thread that holds
\* mtxWaitSendUart, so OnMessage never finds two.
THEOREM ListBelongsToHolder == Spec => []RegisteredByHolder
  <1>1. IInv => RegisteredByHolder
    BY DEF IInv, TypeOK, MutexInv, ListInv, Registered, RegisteredByHolder
  <1>2. QED
    BY <1>1, Invariance, PTL

\* SendMessage and OnMessage: CODE_OK without an overlapping walk comes with a
\* matching answer, whatever the gateway sends and however calls interleave.
THEOREM AnswersAreSound == Spec => []AnswerSound
  <1>1. IInv => AnswerSound
    BY DEF IInv, AnswerInv, Answered, AnswerSound
  <1>2. QED
    BY <1>1, Invariance, PTL

\* OnMessage: a buffer that SendMessage handed back with no walk under way on
\* it is not written again before the thread's next call.
THEOREM BuffersStayStable == Spec => ReturnedBufferStable
  <1> DEFINE Stable ==
        \A c \in Callers :
          pc[c] = "idle" /\ pc'[c] = "idle" /\ c \notin torn => data'[c] = data[c]
  <1>1. IInv /\ [Next]_vars => [Stable]_vars
    <2> SUFFICES ASSUME IInv, Next, NEW c \in Callers,
                        pc[c] = "idle", c \notin torn
                 PROVE  pc'[c] = "idle" => data'[c] = data[c]
      BY DEF vars
    <2>1. TypeOK
      BY DEF IInv
    <2>2. c \notin pointers
      BY DEF IInv, PointerInv
    <2>3. CASE \E d \in Callers : Lock(d)
      BY <2>1, <2>3 DEF Lock, TypeOK
    <2>4. CASE CopyAnswer
      BY <2>1, <2>2, <2>4 DEF CopyAnswer, TypeOK
    <2>5. CASE data' = data
      BY <2>5
    <2>6. QED
      BY <2>3, <2>4, <2>5
      DEF Next, Call, SendMessage, Register, Write, Poll, Sleep, Erase, Return,
          Receive, OnMessage, SkipDuplicate, DropTruncated, BeginWalk,
          Compare, SetStatus, EndVisit, QueueFrame, EndBlock, HandleOpcodeBle
  <1>2. QED
    BY <1>1, Invariance, PTL DEF Spec, ReturnedBufferStable

-----------------------------------------------------------------------------
(* The link implements BleRequest                                          *)

\* A step that changes neither the owner, nor a request in progress, nor a
\* result already returned is a stuttering step of BleRequest.
LEMMA QuietStep ==
  ASSUME mtxWaitSendUart' = mtxWaitSendUart,
         \A c \in Callers : InProgress(c)' <=> InProgress(c),
         \A c \in Callers : InProgress(c) => cmd'[c] = cmd[c],
         \A c \in Callers : ~InProgress(c) => LastResult(c)' = LastResult(c)
  PROVE  UNCHANGED Request!vars
  <1>1. \A c \in Callers : LastResult(c)' = LastResult(c)
    BY DEF LastResult
  <1>2. [c \in Callers |-> LastResult(c)]' = [c \in Callers |-> LastResult(c)]
    BY <1>1
  <1>3. [c \in Callers |-> IF InProgress(c) THEN cmd[c] ELSE Nobody]'
          = [c \in Callers |-> IF InProgress(c) THEN cmd[c] ELSE Nobody]
    OBVIOUS
  <1>4. QED
    BY <1>2, <1>3 DEF Request!vars

\* Taking the mutex begins the request.
LEMMA LockBegins ==
  ASSUME IInv, NEW c \in Callers, Lock(c)
  PROVE  Request!Begin(c, cmd[c])
  <1> USE DEF IInv, TypeOK
  <1>1. \A d \in Callers \ {c} : pc'[d] = pc[d] /\ rc'[d] = rc[d] /\ data'[d] = data[d]
                                 /\ (d \in torn' <=> d \in torn)
    BY DEF Lock
  <1>2. cmd' = cmd /\ InProgress(c)' /\ ~InProgress(c)
    BY DEF Lock, InProgress
  <1>3. \A d \in Callers \ {c} :
          (InProgress(d)' <=> InProgress(d)) /\ LastResult(d)' = LastResult(d)
    BY <1>1 DEF InProgress, LastResult
  <1>4. LastResult(c)' = [code |-> "none", answer |-> NoFrame]
    BY <1>2 DEF LastResult
  <1>5. mtxWaitSendUart = Nobody /\ mtxWaitSendUart' = c
    BY DEF Lock
  <1>6. QED
    BY <1>2, <1>3, <1>4, <1>5 DEF Request!Begin, Request!Result

\* Releasing it ends the request, with one of its outcomes.
LEMMA ReturnEnds ==
  ASSUME IInv, NEW c \in Callers, Return(c)
  PROVE  Request!End(c)
  <1> USE DEF IInv, TypeOK
  <1>1. mtxWaitSendUart = c /\ mtxWaitSendUart' = Nobody
    BY DEF Return, MutexInv
  <1>2. cmd' = cmd /\ data' = data /\ rc' = rc /\ InProgress(c) /\ ~InProgress(c)'
    BY DEF Return, InProgress
  <1>3. \A d \in Callers \ {c} :
          (InProgress(d)' <=> InProgress(d)) /\ LastResult(d)' = LastResult(d)
    BY <1>2 DEF Return, InProgress, LastResult
  <1>4. LastResult(c)' \in Request!Outcomes(cmd[c])
    <2>1. CASE c \in torn'
      BY <1>2, <2>1 DEF LastResult, Request!Outcomes, Request!Result
    <2>2. CASE c \notin torn' /\ cmd[c].rsp = NoRsp
      <3>1. rc[c] = "CODE_OK" /\ data[c] = NoFrame
        BY <2>2 DEF Return, MutexInv, AnswerInv, InProgress
      <3>2. LastResult(c)' = [code |-> "CODE_OK", answer |-> NoFrame]
        BY <1>2, <2>2, <3>1 DEF LastResult
      <3>3. QED
        BY <2>2, <3>2 DEF Request!Outcomes, Request!Result
    <2>3. CASE c \notin torn' /\ cmd[c].rsp # NoRsp /\ rc[c] = "CODE_ERROR"
      <3>1. LastResult(c)' = [code |-> "CODE_ERROR", answer |-> NoFrame]
        BY <1>2, <2>3 DEF LastResult
      <3>2. QED
        BY <2>3, <3>1 DEF Request!Outcomes, Request!Result
    <2>4. CASE c \notin torn' /\ cmd[c].rsp # NoRsp /\ rc[c] = "CODE_OK"
      <3>1. c \notin torn /\ c \notin pointers
        BY <2>4 DEF Return
      <3>2. Answered(c)
        BY <2>4, <3>1 DEF Return, AnswerInv, InProgress
      <3>3. data[c] \in {f \in Frames : Matches(f, cmd[c])}
        BY <3>2 DEF Answered
      <3>4. LastResult(c)' = [code |-> "CODE_OK", answer |-> data[c]]
        BY <1>2, <2>4 DEF LastResult
      <3>5. QED
        BY <2>4, <3>3, <3>4 DEF Request!Outcomes, Request!Result
    <2>5. rc[c] \in {"CODE_OK", "CODE_ERROR"}
      BY DEF Return, MutexInv
    <2>6. QED
      BY <2>1, <2>2, <2>3, <2>4, <2>5
  <1>5. QED
    <2> DEFINE old == [d \in Callers |-> LastResult(d)]
    <2>1. [d \in Callers |-> LastResult(d)]' = [old EXCEPT ![c] = LastResult(c)']
      BY <1>3
    <2>2. [d \in Callers |-> IF InProgress(d) THEN cmd[d] ELSE Nobody]'
            = [[d \in Callers |-> IF InProgress(d) THEN cmd[d] ELSE Nobody]
                 EXCEPT ![c] = Nobody]
      BY <1>2, <1>3
    <2>3. [d \in Callers |-> IF InProgress(d) THEN cmd[d] ELSE Nobody][c] = cmd[c]
      BY <1>2
    <2>4. QED
      BY <1>1, <1>4, <2>1, <2>2, <2>3 DEF Request!End

\* SendMessage, OnMessage and the timeouts behave as one request at a time,
\* ended by an error, by an answer to it, or torn by the unlocked list walk.
THEOREM LinkImplementsRequest == Spec => ImplementsRequest
  <1>1. Init => Request!Init
    BY DEF Init, InProgress, LastResult, Request!Init, Request!Result
  <1>2. IInv /\ [Next]_vars => [Request!Next]_Request!vars
    <2> SUFFICES ASSUME IInv, [Next]_vars
                 PROVE  Request!Next \/ UNCHANGED Request!vars
      OBVIOUS
    <2>1. CASE \E c \in Callers : Lock(c)
      <3>1. PICK c \in Callers : Lock(c)
        BY <2>1
      <3>2. cmd[c] \in Commands
        BY DEF IInv, TypeOK
      <3>3. QED
        <4>1. Request!Begin(c, cmd[c])
          BY <3>1, LockBegins
        <4>2. QED
          BY <3>2, <4>1 DEF Request!Next, Request!Begin
    <2>2. CASE \E c \in Callers : Return(c)
      BY <2>2, ReturnEnds DEF Request!Next
    <2>3. CASE \E c \in Callers, k \in Commands : Call(c, k)
      <3>1. PICK c \in Callers, k \in Commands : Call(c, k)
        BY <2>3
      <3>2. \A d \in Callers :
              /\ InProgress(d)' <=> InProgress(d)
              /\ InProgress(d) => cmd'[d] = cmd[d]
        BY <3>1 DEF Call, InProgress, IInv, TypeOK
      <3>3. \A d \in Callers : ~InProgress(d) => LastResult(d)' = LastResult(d)
        BY <3>1, <3>2 DEF Call, LastResult
      <3>4. mtxWaitSendUart' = mtxWaitSendUart
        BY <3>1 DEF Call
      <3>5. QED
        BY <3>2, <3>3, <3>4, QuietStep
    <2>4. CASE \E c \in Callers : Register(c) \/ Write(c) \/ Poll(c) \/ Sleep(c) \/ Erase(c)
      <3>1. PICK c \in Callers : Register(c) \/ Write(c) \/ Poll(c) \/ Sleep(c) \/ Erase(c)
        BY <2>4
      <3>2. /\ UNCHANGED <<mtxWaitSendUart, cmd, data>>
            /\ \A d \in Callers \ {c} :
                 pc'[d] = pc[d] /\ rc'[d] = rc[d] /\ (d \in torn' <=> d \in torn)
            /\ InProgress(c) /\ InProgress(c)'
        <4>1. CASE Register(c)
          BY <4>1 DEF Register, InProgress, IInv, TypeOK
        <4>2. CASE Write(c) \/ Poll(c) \/ Sleep(c) \/ Erase(c)
          BY <4>2 DEF Write, Poll, Sleep, Erase, InProgress, IInv, TypeOK
        <4>3. QED
          BY <3>1, <4>1, <4>2
      <3>3. \A d \in Callers : InProgress(d)' <=> InProgress(d)
        BY <3>2 DEF InProgress
      <3>4. \A d \in Callers : ~InProgress(d) => LastResult(d)' = LastResult(d)
        BY <3>2, <3>3 DEF LastResult
      <3>5. QED
        BY <3>2, <3>3, <3>4, QuietStep
    <2>5. CASE CopyAnswer
      <3>1. UNCHANGED <<pc, mtxWaitSendUart, cmd, rc, torn>>
        BY <2>5 DEF CopyAnswer, EndVisit
      <3>2. \A d \in Callers : ~InProgress(d) /\ d \notin torn => data'[d] = data[d]
        BY <2>5 DEF CopyAnswer, InProgress, IInv, TypeOK, PointerInv
      <3>3. \A d \in Callers : InProgress(d)' <=> InProgress(d)
        BY <3>1 DEF InProgress
      <3>4. \A d \in Callers : ~InProgress(d) => LastResult(d)' = LastResult(d)
        BY <3>1, <3>2, <3>3 DEF LastResult
      <3>5. QED
        BY <3>1, <3>3, <3>4, QuietStep
    <2>6. CASE UNCHANGED <<pc, mtxWaitSendUart, cmd, rc, torn, data>>
      <3>1. \A d \in Callers :
              (InProgress(d)' <=> InProgress(d)) /\ LastResult(d)' = LastResult(d)
        BY <2>6 DEF InProgress, LastResult
      <3>2. QED
        BY <2>6, <3>1, QuietStep
    <2>7. QED
      BY <2>1, <2>2, <2>3, <2>4, <2>5, <2>6
      DEF Next, SendMessage, vars, Receive, OnMessage, SkipDuplicate,
          DropTruncated, BeginWalk, Compare, SetStatus, EndVisit, QueueFrame, EndBlock,
          HandleOpcodeBle
  <1>3. QED
    BY <1>1, <1>2, Invariance, PTL DEF Spec, ImplementsRequest, Request!Spec
=============================================================================
