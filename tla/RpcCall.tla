------------------------------ MODULE RpcCall ------------------------------
(***************************************************************************)
(* What the station's remote calls promise their callers: a call is        *)
(* refused, or it waits; its status may be raised while it waits, by an    *)
(* answer to it or by one meant for an earlier call; it ends, with CODE_OK *)
(* exactly if that happened in time.                                       *)
(***************************************************************************)
CONSTANT Calls

VARIABLES
  phase,     \* "idle", "waiting", or the code that was returned
  answered   \* the calls that were answered while they waited

Init ==
  /\ phase = [c \in Calls |-> "idle"]
  /\ answered = {}

Refuse(c) ==
  /\ phase[c] = "idle"
  /\ phase' = [phase EXCEPT ![c] = "CODE_TIMEOUT"]
  /\ UNCHANGED answered

Request(c) ==
  /\ phase[c] = "idle"
  /\ phase' = [phase EXCEPT ![c] = "waiting"]
  /\ UNCHANGED answered

Answer(c) ==
  /\ phase[c] = "waiting"
  /\ answered' = answered \cup {c}
  /\ UNCHANGED phase

Return(c) ==
  /\ phase[c] = "waiting"
  /\ phase' = [phase EXCEPT ![c] = IF c \in answered THEN "CODE_OK" ELSE "CODE_ERROR"]
  /\ UNCHANGED answered

Next == \E c \in Calls : Refuse(c) \/ Request(c) \/ Answer(c) \/ Return(c)

Spec == Init /\ [][Next]_<<phase, answered>>
=============================================================================
