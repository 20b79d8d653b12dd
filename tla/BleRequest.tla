----------------------------- MODULE BleRequest -----------------------------
(***************************************************************************)
(* What SendMessage promises its callers, with the gateway, the UART       *)
(* thread and the timeouts left out: requests are made one at a time, and  *)
(* a request ends with an error or with a frame that answers it. The third *)
(* end, "torn", is the one the missing mutex of messageRespList leaves     *)
(* open: the call returned under the UART thread's hands, and nothing is   *)
(* promised about its result.                                              *)
(***************************************************************************)
CONSTANTS
  Callers,      \* threads that make requests
  Nobody,       \* the owner of a free link
  Commands,     \* the requests
  Expecting,    \* those that wait for an answer
  Accepted,     \* for each request, the frames that answer it
  NoRequest,    \* the request of a thread that makes none
  NoFrame       \* the absence of an answer

VARIABLES
  owner,        \* the thread whose request is in progress, or Nobody
  request,      \* the request each thread has in progress, or NoRequest
  result        \* the result of each thread's last request

vars == <<owner, request, result>>

Result(code, answer) == [code |-> code, answer |-> answer]

Init ==
  /\ owner = Nobody
  /\ request = [c \in Callers |-> NoRequest]
  /\ result = [c \in Callers |-> Result("none", NoFrame)]

Begin(c, k) ==
  /\ owner = Nobody
  /\ owner' = c
  /\ request' = [request EXCEPT ![c] = k]
  /\ result' = [result EXCEPT ![c] = Result("none", NoFrame)]

\* The results a request may end with.
Outcomes(k) ==
  {Result("torn", NoFrame)} \cup
  IF k \in Expecting
  THEN {Result("CODE_ERROR", NoFrame)} \cup {Result("CODE_OK", f) : f \in Accepted[k]}
  ELSE {Result("CODE_OK", NoFrame)}

End(c) ==
  /\ owner = c
  /\ owner' = Nobody
  /\ request' = [request EXCEPT ![c] = NoRequest]
  /\ \E r \in Outcomes(request[c]) : result' = [result EXCEPT ![c] = r]

Next == \E c \in Callers : (\E k \in Commands : Begin(c, k)) \/ End(c)

Spec == Init /\ [][Next]_vars
=============================================================================
