----------------------------- MODULE RpcServer -----------------------------
(***************************************************************************)
(* The station as a server of remote commands: CloudProtocol's OnServerReq *)
(* and OnMobileReq and LocalProtocol's OnLocalReq.  Every request received *)
(* runs on a detached thread of its own, from Mqtt::on_message.            *)
(*                                                                         *)
(* The commands are registered before the connection starts; a callback is *)
(* whatever was registered, and its result decides what is published.      *)
(* Cloud and local sides have each a mutex and a flag isBusy; the          *)
(* server's commands take no mutex.                                        *)
(***************************************************************************)
EXTENDS Naturals, FiniteSets

CONSTANTS
  Requests,   \* the requests received
  Side,       \* "server", "mobile" or "local": where each comes from
  Commands,   \* the commands a request can name
  MaxArray    \* bound: elements of an answer that is an array

ASSUME RpcServerAssumption ==
  /\ Side \in [Requests -> {"server", "mobile", "local"}]
  /\ MaxArray \in Nat
  /\ "malformed" \notin Commands /\ "free" \notin Requests

Protocols == {"cloud", "local"}
Protocol(r) == IF Side[r] = "local" THEN "local" ELSE "cloud"

\* what a callback can return; any other code is an error
Codes == {"CODE_OK", "CODE_EXIT", "CODE_DATA_ARRAY", "CODE_NOT_RESPONSE",
          "CODE_FACTORY", "CODE_ERROR"}
Malformed == "malformed"
Free == "free"

VARIABLES
  started,    \* the connections were started
  registered, \* onRpcCallbackFuncList and onLocalCallbackFuncList
  pc,         \* where each request's thread stands
  cmd,        \* the command it names
  rs,         \* what the callback returned
  mtx,        \* the mutex of each protocol: its owner
  isBusy,     \* the flag of each protocol
  answers,    \* how many messages were published for each request
  exited,     \* exit(1) was called
  met         \* history: for each request under way, those that were beside it

vars == <<started, registered, pc, cmd, rs, mtx, isBusy, answers, exited, met>>

Begun == {"lock", "call", "unlock", "clear"}
UnderWay(p) == {r \in Requests : Protocol(r) = p /\ pc[r] \in Begun}

Init ==
  /\ started = FALSE
  /\ registered = [p \in Protocols |-> {}]
  /\ pc = [r \in Requests |-> "none"]
  /\ cmd = [r \in Requests |-> Malformed]
  /\ rs = [r \in Requests |-> "CODE_OK"]
  /\ mtx = [p \in Protocols |-> Free]
  /\ isBusy = [p \in Protocols |-> FALSE]
  /\ answers = [r \in Requests |-> 0]
  /\ exited = FALSE
  /\ met = [r \in Requests |-> {}]

Goto(r, at) == pc' = [pc EXCEPT ![r] = at]
-----------------------------------------------------------------------------
(* Before the connections.                                                 *)

Register(p, c) ==
  /\ ~started
  /\ registered' = [registered EXCEPT ![p] = @ \cup {c}]
  /\ UNCHANGED <<started, pc, cmd, rs, mtx, isBusy, answers, exited, met>>

OnDeviceRpcCallbackRegister(c) == Register("cloud", c)
OnLocalCallbackRegister(c) == Register("local", c)

Start ==
  /\ ~started
  /\ started' = TRUE
  /\ UNCHANGED <<registered, pc, cmd, rs, mtx, isBusy, answers, exited, met>>
-----------------------------------------------------------------------------
(* A request's thread.                                                     *)

\* a request arrives, with cmd, rqi and data or without one of them
Receive(r) ==
  /\ started
  /\ pc[r] = "none"
  /\ \E c \in Commands \cup {Malformed} : cmd' = [cmd EXCEPT ![r] = c]
  /\ Goto(r, "parse")
  /\ UNCHANGED <<started, registered, rs, mtx, isBusy, answers, exited, met>>

\* isBusy = true, if the command is registered
Parse(r) ==
  /\ pc[r] = "parse"
  /\ IF cmd[r] \in registered[Protocol(r)]
       THEN /\ isBusy' = [isBusy EXCEPT ![Protocol(r)] = TRUE]
            /\ met' = [q \in Requests |->
                 IF q = r THEN UnderWay(Protocol(r))
                 ELSE IF q \in UnderWay(Protocol(r)) THEN met[q] \cup {r} ELSE met[q]]
            /\ Goto(r, "lock")
       ELSE Goto(r, "done") /\ UNCHANGED <<isBusy, met>>
  /\ UNCHANGED <<started, registered, cmd, rs, mtx, answers, exited>>

Lock(r) ==
  /\ pc[r] = "lock"
  /\ Goto(r, "call")
  /\ IF Side[r] = "server"
       THEN UNCHANGED mtx
       ELSE /\ mtx[Protocol(r)] = Free
            /\ mtx' = [mtx EXCEPT ![Protocol(r)] = r]
  /\ UNCHANGED <<started, registered, cmd, rs, isBusy, answers, exited, met>>

\* the registered callback returns
Callback(r) ==
  /\ pc[r] = "call"
  /\ \E code \in Codes : rs' = [rs EXCEPT ![r] = code]
  /\ Goto(r, "unlock")
  /\ UNCHANGED <<started, registered, cmd, mtx, isBusy, answers, exited, met>>

\* A plausible bug: a command that failed leaves early, the mutex locked.
UnlockOk(r) ==
  /\ pc[r] = "unlock"
  /\ Goto(r, IF rs[r] = "CODE_ERROR" THEN "done" ELSE "clear")
  /\ mtx' = IF Side[r] = "server" \/ rs[r] = "CODE_ERROR"
              THEN mtx ELSE [mtx EXCEPT ![Protocol(r)] = Free]
  /\ UNCHANGED <<started, registered, cmd, rs, isBusy, answers, exited, met>>

Unlock(r) ==
  /\ pc[r] = "unlock"
  /\ Goto(r, "clear")
  /\ mtx' = IF Side[r] = "server"
              THEN mtx ELSE [mtx EXCEPT ![Protocol(r)] = Free]
  /\ UNCHANGED <<started, registered, cmd, rs, isBusy, answers, exited, met>>

\* A plausible bug: the flag of the other protocol is cleared too.
ClearAll(r) ==
  /\ pc[r] = "clear"
  /\ isBusy' = [p \in Protocols |-> FALSE]
  /\ met' = [met EXCEPT ![r] = {}]
  /\ Goto(r, "publish")
  /\ UNCHANGED <<started, registered, cmd, rs, mtx, answers, exited>>

\* isBusy = false, whoever else is busy
Clear(r) ==
  /\ pc[r] = "clear"
  /\ isBusy' = [isBusy EXCEPT ![Protocol(r)] = FALSE]
  /\ met' = [met EXCEPT ![r] = {}]
  /\ Goto(r, "publish")
  /\ UNCHANGED <<started, registered, cmd, rs, mtx, answers, exited>>

\* CODE_FACTORY is known to the local side only
AnswerCount(r) ==
  CASE rs[r] \in {"CODE_OK", "CODE_EXIT"} -> {1}
    [] rs[r] = "CODE_FACTORY" /\ Side[r] = "local" -> {1}
    [] rs[r] = "CODE_DATA_ARRAY" -> 0 .. MaxArray
    [] OTHER -> {0}

\* the answers, under the request's rqi, on its sender's topic
Answer(r) ==
  /\ pc[r] = "publish"
  /\ \E n \in AnswerCount(r) : answers' = [answers EXCEPT ![r] = @ + n]
  /\ Goto(r, "end")
  /\ UNCHANGED <<started, registered, cmd, rs, mtx, isBusy, exited, met>>

\* the end of a command: some of them end the process
Quits(r) == rs[r] = "CODE_EXIT" \/ (rs[r] = "CODE_FACTORY" /\ Side[r] = "local")

End(r) ==
  /\ pc[r] = "end"
  /\ exited' = Quits(r)
  /\ Goto(r, "done")
  /\ UNCHANGED <<started, registered, cmd, rs, mtx, isBusy, answers, met>>

HandlerStep(r) ==
  \/ Parse(r)
  \/ Lock(r)
  \/ Callback(r)
  \/ Unlock(r)
  \/ Clear(r)
  \/ Answer(r)
  \/ End(r)

OnServerReq(r) == Side[r] = "server" /\ HandlerStep(r)
OnMobileReq(r) == Side[r] = "mobile" /\ HandlerStep(r)
OnLocalReq(r) == Side[r] = "local" /\ HandlerStep(r)

Next ==
  /\ ~exited
  /\ \/ \E c \in Commands : OnDeviceRpcCallbackRegister(c)
     \/ \E c \in Commands : OnLocalCallbackRegister(c)
     \/ Start
     \/ \E r \in Requests : Receive(r)
     \/ \E r \in Requests : OnServerReq(r)
     \/ \E r \in Requests : OnMobileReq(r)
     \/ \E r \in Requests : OnLocalReq(r)

Spec == Init /\ [][Next]_vars

\* a thread keeps running, and a callback returns
FairSpec == Spec /\ \A r \in Requests : WF_vars(~exited /\ HandlerStep(r))
-----------------------------------------------------------------------------
TypeOK ==
  /\ started \in BOOLEAN /\ exited \in BOOLEAN
  /\ registered \in [Protocols -> SUBSET Commands]
  /\ pc \in [Requests -> Begun \cup {"none", "parse", "publish", "end", "done"}]
  /\ cmd \in [Requests -> Commands \cup {Malformed}]
  /\ rs \in [Requests -> Codes]
  /\ mtx \in [Protocols -> Requests \cup {Free}]
  /\ isBusy \in [Protocols -> BOOLEAN]
  /\ answers \in [Requests -> 0 .. (IF MaxArray > 1 THEN MaxArray ELSE 1)]
  /\ met \in [Requests -> SUBSET Requests]

\* A protocol that says it is busy has a command under way; one that says it
\* is idle while it has one ran each of those beside another, which ended first
\* (CloudProtocol.cpp:110-112, 251-255).
BusyTellsTheTruth ==
  \A p \in Protocols :
    IF isBusy[p] THEN UnderWay(p) # {}
    ELSE \A r \in UnderWay(p) : \E s \in met[r] : pc[s] \in {"publish", "end", "done"}

\* Two callbacks run at once only if they are of different protocols or one of
\* them was asked for by the server (CloudProtocol.cpp:111, 252).
CallbacksExclude ==
  \A r, s \in Requests :
    (r # s /\ pc[r] \in {"call", "unlock"} /\ pc[s] \in {"call", "unlock"}) =>
       Protocol(r) # Protocol(s) \/ "server" \in {Side[r], Side[s]}

\* A command that failed, that wants no answer or that is unknown is not
\* answered; one that worked is answered once before anything else happens to
\* it, even if it then ends the process (CloudProtocol.cpp:113-149).
AnswersTellTheTruth ==
  \A r \in Requests :
    /\ answers[r] > 0 =>
         /\ cmd[r] \in registered[Protocol(r)]
         /\ rs[r] \notin {"CODE_ERROR", "CODE_NOT_RESPONSE"}
    /\ pc[r] \in {"end", "done"} /\ cmd[r] \in registered[Protocol(r)]
         /\ rs[r] \in {"CODE_OK", "CODE_EXIT"} => answers[r] = 1

\* Every request is dealt with, unless a command ends the process: no failed
\* command keeps a mutex from the ones that wait for it.
RequestsEnd ==
  \A r \in Requests : pc[r] = "parse" ~> (pc[r] = "done" \/ exited)
-----------------------------------------------------------------------------
(* The inductive invariant.                                                *)

StartedInv == ~started => \A r \in Requests : pc[r] = "none"
KnownInv ==
  \A r \in Requests :
    pc[r] \in Begun \cup {"publish", "end"} => cmd[r] \in registered[Protocol(r)]
MutexInv ==
  \A r \in Requests :
    (pc[r] \in {"call", "unlock"} /\ Side[r] # "server") => mtx[Protocol(r)] = r
MetInv ==
  \A p \in Protocols : \A r, s \in UnderWay(p) : r # s => s \in met[r]
AnswerInv ==
  \A r \in Requests :
    /\ pc[r] \notin {"end", "done"} => answers[r] = 0
    /\ pc[r] = "done" /\ cmd[r] \notin registered[Protocol(r)] => answers[r] = 0

\* What makes the properties above inductive: who holds a mutex, that requests
\* under way have met, and that only the last steps of a known command publish
\* (CloudProtocol.cpp:95-160, 225-300).
IInv ==
  /\ TypeOK
  /\ StartedInv /\ KnownInv /\ MutexInv /\ MetInv /\ AnswerInv
  /\ BusyTellsTheTruth /\ AnswersTellTheTruth
=============================================================================
