------------------------------ MODULE BleLink ------------------------------
(***************************************************************************)
(* The request/response link of BleProtocol: SendMessage, run by any       *)
(* thread that commands the BLE gateway; OnMessage, run by the UART reader *)
(* thread on every block of bytes it reads; and HandleOpcodeBle, the       *)
(* thread that handles received frames a second time, asynchronously.      *)
(*                                                                         *)
(* SendMessage serialises its callers with mtxWaitSendUart and publishes a *)
(* pointer to a record of its own stack frame in messageRespList.          *)
(* OnMessage walks that list without taking the mutex, and through a       *)
(* reference to a slot of the vector, so every access it makes is a step   *)
(* of its own here and may lead to what the slot holds by then: an erase   *)
(* leaves the slot as it was, and the next push_back writes into it.       *)
(* Whether an access reads the slot again or uses a copy in a register is  *)
(* the compiler's choice.  The allocation of the slot by the program's     *)
(* first push_back, beside a walk, is left out.                            *)
(*                                                                         *)
(* A frame is an opcode and a body; the bytes a command compares           *)
(* (compare_data at compare_position) are abstracted to the set of bodies  *)
(* that pass the comparison, the command's filter.                         *)
(***************************************************************************)
EXTENDS Naturals, Sequences, FiniteSets

CONSTANTS
  Callers,      \* threads that call SendMessage
  Nobody,       \* the holder of a free mutex
  Opcodes,      \* opcodes of received frames
  Bodies,       \* frame contents, as far as filters tell them apart
  Size,         \* the len field of a frame with a given body
  NoRsp,        \* opRsp = 0: the command waits for no answer
  NoFrame,      \* no frame (a NULL pointer, a buffer never written)
  Commands,     \* the commands issued: records [rsp, filter]
  Blocks,       \* bound: what one read from the UART brings, as sequences of frames
  QueueMax      \* BLE_CHECK_OPCODE_BUFFER_MAX_SIZE

Frames == [op : Opcodes, body : Bodies]

ASSUME BleLinkAssumption ==
  /\ Nobody \notin Callers
  /\ NoRsp \notin Opcodes
  /\ NoFrame \notin Frames
  /\ Size \in [Bodies -> Nat]
  /\ Commands # {}
  /\ Commands \subseteq [rsp : Opcodes \cup {NoRsp}, filter : SUBSET Bodies]
  /\ Blocks \subseteq Seq(Frames) \ {<<>>}
  /\ QueueMax \in Nat \ {0}

VARIABLES
  \* SendMessage
  pc,               \* where each caller stands in SendMessage
  mtxWaitSendUart,  \* the caller that holds the mutex, or Nobody
  cmd,              \* each caller's command: opcode and compare_* of its entry
  status,           \* each caller's entry: status
  data,             \* each caller's dataRsp buffer; for a caller that gave
                    \* none, the frame that answered it
  rc,               \* what each caller's last call returned
  messageRespList,  \* the registered entries, each named by its caller: a
                    \* set, as no step depends on the order of the list
  \* OnMessage
  rpc,              \* where the reader stands in OnMessage
  chunk,            \* the frames of the block not yet consumed
  old_message_rsp,  \* the frame before the head of chunk
  pointers,         \* the callers whose entry the slot under visit has held
                    \* since the visit began
  dead,             \* those of them whose call has returned meanwhile
  torn,             \* callers whose last call began or ended under a visit
  \* HandleOpcodeBle
  messageCheckOpcodeList

senderVars == <<pc, mtxWaitSendUart, cmd, rc, messageRespList>>
entryVars  == <<status, data>>
readerVars == <<rpc, chunk, old_message_rsp, pointers>>
overlapVars == <<dead, torn>>
vars == <<senderVars, entryVars, readerVars, overlapVars,
          messageCheckOpcodeList>>

AnyCommand == CHOOSE c \in Commands : TRUE

Init ==
  /\ pc = [c \in Callers |-> "idle"]
  /\ mtxWaitSendUart = Nobody
  /\ cmd = [c \in Callers |-> AnyCommand]
  /\ status = [c \in Callers |-> FALSE]
  /\ data = [c \in Callers |-> NoFrame]
  /\ rc = [c \in Callers |-> "none"]
  /\ messageRespList = {}
  /\ rpc = "idle"
  /\ chunk = <<>>
  /\ old_message_rsp = NoFrame
  /\ pointers = {}
  /\ dead = {}
  /\ torn = {}
  /\ messageCheckOpcodeList = <<>>

-----------------------------------------------------------------------------
(* SendMessage                                                             *)

\* A frame answers a command: the opcode is opRsp and the compared bytes agree.
Matches(f, k) == f.op = k.rsp /\ f.body \in k.filter

\* A thread calls SendMessage and waits for the mutex.
Call(c, k) ==
  /\ pc[c] = "idle"
  /\ pc' = [pc EXCEPT ![c] = "lock"]
  /\ cmd' = [cmd EXCEPT ![c] = k]
  /\ UNCHANGED <<mtxWaitSendUart, rc, messageRespList, entryVars, readerVars,
                 overlapVars, messageCheckOpcodeList>>

\* Mutant: the entry keeps the status of the caller's previous call.
LockKeepingStatus(c) ==
  /\ pc[c] = "lock"
  /\ mtxWaitSendUart = Nobody
  /\ mtxWaitSendUart' = c
  /\ pc' = [pc EXCEPT ![c] = IF cmd[c].rsp = NoRsp THEN "write" ELSE "register"]
  /\ data' = [data EXCEPT ![c] = NoFrame]
  /\ rc' = [rc EXCEPT ![c] = "none"]
  /\ torn' = IF c \in dead THEN torn \cup {c} ELSE torn \ {c}
  /\ UNCHANGED <<cmd, status, messageRespList, readerVars, dead,
                 messageCheckOpcodeList>>

\* The mutex is taken and the entry initialised on the caller's stack. An
\* entry of an earlier call that a visit still leads to lies at the same
\* address, so the new call is under that visit too.
Lock(c) ==
  /\ pc[c] = "lock"
  /\ mtxWaitSendUart = Nobody
  /\ mtxWaitSendUart' = c
  /\ pc' = [pc EXCEPT ![c] = IF cmd[c].rsp = NoRsp THEN "write" ELSE "register"]
  /\ status' = [status EXCEPT ![c] = FALSE]
  /\ data' = [data EXCEPT ![c] = NoFrame]
  /\ rc' = [rc EXCEPT ![c] = "none"]
  /\ torn' = IF c \in dead THEN torn \cup {c} ELSE torn \ {c}
  /\ UNCHANGED <<cmd, messageRespList, readerVars, dead,
                 messageCheckOpcodeList>>

\* messageRespList.push_back(&message_rsp_list), under no mutex of the list.
\* The entry takes the slot of the one erased before it, and what a visit of
\* that slot does from now on may be done to this entry.
Register(c) ==
  /\ pc[c] = "register"
  /\ messageRespList' = messageRespList \cup {c}
  /\ pc' = [pc EXCEPT ![c] = "write"]
  /\ IF pointers = {}
       THEN UNCHANGED <<pointers, torn>>
       ELSE pointers' = pointers \cup {c} /\ torn' = torn \cup {c}
  /\ UNCHANGED <<mtxWaitSendUart, cmd, rc, entryVars, rpc, chunk,
                 old_message_rsp, dead, messageCheckOpcodeList>>

\* The request goes to the UART; what the gateway does with it is up to it.
Write(c) ==
  /\ pc[c] = "write"
  /\ pc' = [pc EXCEPT ![c] = IF cmd[c].rsp = NoRsp THEN "sleep" ELSE "wait"]
  /\ UNCHANGED <<mtxWaitSendUart, cmd, rc, messageRespList, entryVars,
                 readerVars, overlapVars, messageCheckOpcodeList>>

\* Mutant: the poll has no timeout.
PollForever(c) ==
  /\ pc[c] = "wait"
  /\ status[c]
  /\ rc' = [rc EXCEPT ![c] = "CODE_OK"]
  /\ pc' = [pc EXCEPT ![c] = "erase"]
  /\ UNCHANGED <<mtxWaitSendUart, cmd, messageRespList, entryVars, readerVars,
                 overlapVars, messageCheckOpcodeList>>

\* The 1 ms poll leaves its loop: it saw status, or the timeout ran out. The
\* code is decided by a second read of status, the one made here.
Poll(c) ==
  /\ pc[c] = "wait"
  /\ rc' = [rc EXCEPT ![c] = IF status[c] THEN "CODE_OK" ELSE "CODE_ERROR"]
  /\ pc' = [pc EXCEPT ![c] = "erase"]
  /\ UNCHANGED <<mtxWaitSendUart, cmd, messageRespList, entryVars, readerVars,
                 overlapVars, messageCheckOpcodeList>>

\* usleep(1000 * timeout) when there is no answer to wait for.
Sleep(c) ==
  /\ pc[c] = "sleep"
  /\ rc' = [rc EXCEPT ![c] = "CODE_OK"]
  /\ pc' = [pc EXCEPT ![c] = "unlock"]
  /\ UNCHANGED <<mtxWaitSendUart, cmd, messageRespList, entryVars, readerVars,
                 overlapVars, messageCheckOpcodeList>>

\* Mutant: a call that timed out returns without removing its entry.
EraseOnlyIfOk(c) ==
  /\ pc[c] = "erase"
  /\ messageRespList' = IF rc[c] = "CODE_OK" THEN messageRespList \ {c}
                                            ELSE messageRespList
  /\ pc' = [pc EXCEPT ![c] = "unlock"]
  /\ UNCHANGED <<mtxWaitSendUart, cmd, rc, entryVars, readerVars, overlapVars,
                 messageCheckOpcodeList>>

\* messageRespList.erase(remove(...)): the slot keeps its pointer.
Erase(c) ==
  /\ pc[c] = "erase"
  /\ messageRespList' = messageRespList \ {c}
  /\ pc' = [pc EXCEPT ![c] = "unlock"]
  /\ UNCHANGED <<mtxWaitSendUart, cmd, rc, entryVars, readerVars, overlapVars,
                 messageCheckOpcodeList>>

\* The mutex is released and the call returns: its entry is gone, wherever a
\* visit still leads.
Return(c) ==
  /\ pc[c] = "unlock"
  /\ mtxWaitSendUart' = Nobody
  /\ pc' = [pc EXCEPT ![c] = "idle"]
  /\ dead' = dead \cup (pointers \cap {c})
  /\ torn' = torn \cup (pointers \cap {c})
  /\ UNCHANGED <<cmd, rc, messageRespList, entryVars, readerVars,
                 messageCheckOpcodeList>>

-----------------------------------------------------------------------------
(* OnMessage, for one block of bytes                                       *)

Frame == Head(chunk)

\* The frame repeats its predecessor in the block. The opcode is not compared,
\* and the loop over len bytes of data runs two bytes past the data, into the
\* len field of the frame that follows: that one must have the same length, and
\* the last frame of a block, followed by zeroes, never counts as a repetition.
IsDuplicate ==
  /\ old_message_rsp # NoFrame
  /\ Frame.body = old_message_rsp.body
  /\ Len(chunk) > 1
  /\ Size[chunk[2].body] = Size[Frame.body]

Receive ==
  /\ rpc = "idle"
  /\ \E b \in Blocks : chunk' = b
  /\ rpc' = "frame"
  /\ UNCHANGED <<senderVars, entryVars, old_message_rsp, pointers,
                 overlapVars, messageCheckOpcodeList>>

\* Mutant: a repeated frame is seen but not stepped over.
SkipWithoutAdvance ==
  /\ rpc = "frame"
  /\ chunk # <<>>
  /\ IsDuplicate
  /\ old_message_rsp' = Frame
  /\ UNCHANGED <<senderVars, entryVars, rpc, chunk, pointers, overlapVars,
                 messageCheckOpcodeList>>

\* A repeated frame reaches neither the callers nor the queue.
SkipDuplicate ==
  /\ rpc = "frame"
  /\ chunk # <<>>
  /\ IsDuplicate
  /\ old_message_rsp' = Frame
  /\ chunk' = Tail(chunk)
  /\ UNCHANGED <<senderVars, entryVars, rpc, pointers, overlapVars,
                 messageCheckOpcodeList>>

\* The block ends inside its last frame: the bytes read so far are dropped,
\* and so are the bytes of the frame that come with the next block.
DropTruncated ==
  /\ rpc = "frame"
  /\ Len(chunk) = 1
  /\ chunk' = <<>>
  /\ old_message_rsp' = NoFrame
  /\ rpc' = "idle"
  /\ UNCHANGED <<senderVars, entryVars, pointers, overlapVars,
                 messageCheckOpcodeList>>

\* for (auto &messageResp : messageRespList) evaluates begin() and end() once:
\* there is a slot to visit, or none.
BeginWalk ==
  /\ rpc = "frame"
  /\ chunk # <<>>
  /\ ~IsDuplicate
  /\ pointers' = messageRespList
  /\ rpc' = IF messageRespList = {} THEN "queue" ELSE "compare"
  /\ UNCHANGED <<senderVars, entryVars, chunk, old_message_rsp, overlapVars,
                 messageCheckOpcodeList>>

EndVisit == rpc' = "queue" /\ pointers' = {} /\ dead' = {}

\* Opcode and filter are compared, byte by byte, through the slot. Once a call
\* has returned under the visit, the bytes may be those of a frame that is gone,
\* or some of one entry and some of another: either outcome is possible.
Compare ==
  /\ rpc = "compare"
  /\ \/ /\ dead # {} \/ \E c \in pointers : Matches(Frame, cmd[c])
        /\ rpc' = "status"
        /\ UNCHANGED <<pointers, dead>>
     \/ /\ dead # {} \/ \A c \in pointers : ~Matches(Frame, cmd[c])
        /\ EndVisit
  /\ UNCHANGED <<senderVars, entryVars, torn, chunk, old_message_rsp,
                 messageCheckOpcodeList>>

\* messageResp->status = true, before the answer is copied: to whichever entry
\* the slot leads now, which need not be the one compared. That of a call that
\* returned may by now be the entry of its thread's next call, or nothing.
SetStatus ==
  /\ rpc = "status"
  /\ rpc' = "copy"
  /\ \/ \E c \in pointers : status' = [status EXCEPT ![c] = TRUE]
     \/ dead # {} /\ UNCHANGED status
  /\ UNCHANGED <<senderVars, data, pointers, overlapVars, chunk,
                 old_message_rsp, messageCheckOpcodeList>>

\* *len and the data bytes are stored through the entry's pointers, read
\* through the slot once more.
CopyAnswer ==
  /\ rpc = "copy"
  /\ \/ \E c \in pointers : data' = [data EXCEPT ![c] = Frame]
     \/ dead # {} /\ UNCHANGED data
  /\ EndVisit
  /\ UNCHANGED <<senderVars, status, torn, chunk, old_message_rsp,
                 messageCheckOpcodeList>>

\* The walk is over; a copy of the frame goes to the asynchronous handler
\* unless its queue is full.
QueueFrame ==
  /\ rpc = "queue"
  /\ messageCheckOpcodeList' =
       IF Len(messageCheckOpcodeList) < QueueMax
       THEN Append(messageCheckOpcodeList, Frame)
       ELSE messageCheckOpcodeList
  /\ old_message_rsp' = Frame
  /\ chunk' = Tail(chunk)
  /\ rpc' = "frame"
  /\ UNCHANGED <<senderVars, entryVars, pointers, overlapVars>>

EndBlock ==
  /\ rpc = "frame"
  /\ chunk = <<>>
  /\ old_message_rsp' = NoFrame
  /\ rpc' = "idle"
  /\ UNCHANGED <<senderVars, entryVars, chunk, pointers, overlapVars,
                 messageCheckOpcodeList>>

-----------------------------------------------------------------------------
(* HandleOpcodeBle pops one frame. What it does with it                    *)
(* (CheckOpcodeException) touches no state of the link.                    *)

HandleOpcodeBle ==
  /\ messageCheckOpcodeList # <<>>
  /\ messageCheckOpcodeList' = Tail(messageCheckOpcodeList)
  /\ UNCHANGED <<senderVars, entryVars, readerVars, overlapVars>>

-----------------------------------------------------------------------------
SendMessage(c) ==
  \/ Lock(c) \/ Register(c) \/ Write(c) \/ Poll(c)
  \/ Sleep(c) \/ Erase(c) \/ Return(c)

OnMessage ==
  \/ SkipDuplicate \/ DropTruncated \/ BeginWalk
  \/ Compare \/ SetStatus \/ CopyAnswer
  \/ QueueFrame \/ EndBlock

Next ==
  \/ \E c \in Callers : (\E k \in Commands : Call(c, k)) \/ SendMessage(c)
  \/ Receive
  \/ OnMessage
  \/ HandleOpcodeBle

Spec == Init /\ [][Next]_vars

\* The threads are scheduled: a call that holds the mutex keeps running, its
\* timeout expires, and a block that was read is processed to its end. Nothing
\* is assumed about who gets the mutex, and nothing about the gateway.
Fairness ==
  /\ \A c \in Callers :
       WF_vars(\/ Register(c) \/ Write(c) \/ Poll(c)
               \/ Sleep(c) \/ Erase(c) \/ Return(c))
  /\ WF_vars(OnMessage)
  /\ WF_vars(HandleOpcodeBle)

FairSpec == Spec /\ Fairness

-----------------------------------------------------------------------------
TypeOK ==
  /\ pc \in [Callers -> {"idle", "lock", "register", "write", "wait", "sleep",
                         "erase", "unlock"}]
  /\ mtxWaitSendUart \in Callers \cup {Nobody}
  /\ cmd \in [Callers -> Commands]
  /\ status \in [Callers -> BOOLEAN]
  /\ data \in [Callers -> Frames \cup {NoFrame}]
  /\ rc \in [Callers -> {"none", "CODE_OK", "CODE_ERROR"}]
  /\ messageRespList \subseteq Callers
  /\ rpc \in {"idle", "frame", "compare", "status", "copy", "queue"}
  /\ chunk \in Seq(Frames)
  /\ old_message_rsp \in Frames \cup {NoFrame}
  /\ pointers \subseteq Callers
  /\ dead \subseteq Callers
  /\ torn \subseteq Callers
  /\ messageCheckOpcodeList \in Seq(Frames)

\* OnMessage walks messageRespList as a list, but it never holds more than one
\* entry, and that entry belongs to the thread that holds mtxWaitSendUart and
\* is between its push_back and its erase.
RegisteredByHolder ==
  \A c \in messageRespList :
    c = mtxWaitSendUart /\ pc[c] \in {"write", "wait", "erase"}

\* A call of SendMessage that returned CODE_OK, and neither registered nor
\* returned nor found its stack frame in use under a visit of the list, hands
\* its caller the body of a frame with the opcode it asked for that passes its
\* byte comparison: the visits of other calls' entries, and what they write late,
\* do it no harm (BleProtocol.cpp:381-402, 477-501).
AnswerSound ==
  \A c \in Callers :
    pc[c] = "idle" /\ rc[c] = "CODE_OK" /\ c \notin torn /\ cmd[c].rsp # NoRsp
      => data[c] # NoFrame /\ Matches(data[c], cmd[c])

\* Once SendMessage has returned, with no visit under way that leads to its
\* entry, the UART thread does not write to the caller's answer buffer until the
\* next call (BleProtocol.cpp:398-402, 501).
ReturnedBufferStable ==
  [][\A c \in Callers :
       pc[c] = "idle" /\ pc'[c] = "idle" /\ c \notin torn => data'[c] = data[c]]_vars

\* OnMessage never holds a pointer to the entry of a call that has returned.
NoUseAfterReturn == dead = {}

\* Whoever takes mtxWaitSendUart releases it, answered or not.
HolderReturns == \A c \in Callers : mtxWaitSendUart = c ~> mtxWaitSendUart # c

\* OnMessage returns to the read loop whatever the senders do meanwhile.
BlockConsumed == rpc # "idle" ~> rpc = "idle"

-----------------------------------------------------------------------------
(* What SendMessage promises: BleRequest.                                   *)

InProgress(c) == pc[c] \notin {"idle", "lock"}

\* The result of c's last call, as c may rely on it.
LastResult(c) ==
  IF InProgress(c) THEN [code |-> "none", answer |-> NoFrame]
  ELSE IF c \in torn THEN [code |-> "torn", answer |-> NoFrame]
  ELSE [code |-> rc[c], answer |-> IF rc[c] = "CODE_OK" THEN data[c] ELSE NoFrame]

Request ==
  INSTANCE BleRequest WITH
    Expecting <- {k \in Commands : k.rsp # NoRsp},
    Accepted  <- [k \in Commands |-> {f \in Frames : Matches(f, k)}],
    NoRequest <- Nobody,
    owner     <- mtxWaitSendUart,
    request   <- [c \in Callers |-> IF InProgress(c) THEN cmd[c] ELSE Nobody],
    result    <- [c \in Callers |-> LastResult(c)]

\* SendMessage, OnMessage and the timeouts together behave as one request at a
\* time that ends with an error, with an answer to it, or torn.
ImplementsRequest == Request!Spec

-----------------------------------------------------------------------------
(* The inductive invariant behind RegisteredByHolder, AnswerSound and       *)
(* ReturnedBufferStable, which are not inductive by themselves.             *)

\* mtxWaitSendUart is held exactly by the caller inside its critical section,
\* and only a command that expects an answer goes through the list.
MutexInv ==
  \A c \in Callers :
    /\ pc[c] \notin {"idle", "lock"} <=> mtxWaitSendUart = c
    /\ pc[c] \in {"register", "wait", "erase"} => cmd[c].rsp # NoRsp
    /\ pc[c] = "sleep" => cmd[c].rsp = NoRsp
    /\ pc[c] \in {"erase", "unlock"} => rc[c] # "none"
    /\ pc[c] = "unlock" /\ cmd[c].rsp = NoRsp => rc[c] = "CODE_OK"

Registered(c) == pc[c] \in {"write", "wait", "erase"} /\ cmd[c].rsp # NoRsp

\* The list holds the holder's entry between push_back and erase.
ListInv ==
  \A c \in Callers : c \in messageRespList <=> Registered(c)

\* A visit leads to a call in progress that expects an answer, or to one that
\* is accounted for in dead; to a call that is not torn it leads alone.
PointerInv ==
  /\ pointers # {} <=> rpc \in {"compare", "status", "copy"}
  /\ rpc \notin {"idle", "frame"} => chunk # <<>>
  /\ dead \subseteq pointers \cap torn
  /\ \A c \in pointers \ dead :
       pc[c] \in {"write", "wait", "erase", "unlock"} /\ cmd[c].rsp # NoRsp
  /\ \A c \in pointers \ torn : pointers = {c}

\* The answer buffer of an untorn call holds an answer to its command.
Answered(c) == data[c] # NoFrame /\ Matches(data[c], cmd[c])

\* A visit of an untorn call's entry got past the comparison for a reason; its
\* status means that its answer is there or being copied, and CODE_OK means
\* status.
AnswerInv ==
  \A c \in Callers : c \notin torn =>
    /\ c \in pointers /\ rpc \in {"status", "copy"} => Matches(Frame, cmd[c])
    /\ InProgress(c) /\ status[c] => Answered(c) \/ (c \in pointers /\ rpc = "copy")
    /\ pc[c] \in {"erase", "unlock"} /\ rc[c] = "CODE_OK" /\ cmd[c].rsp # NoRsp =>
         status[c]
    /\ pc[c] = "idle" /\ rc[c] = "CODE_OK" /\ cmd[c].rsp # NoRsp => Answered(c)
    /\ InProgress(c) /\ cmd[c].rsp = NoRsp => data[c] = NoFrame

IInv == TypeOK /\ MutexInv /\ ListInv /\ PointerInv /\ AnswerInv
=============================================================================
