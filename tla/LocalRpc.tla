------------------------------ MODULE LocalRpc ------------------------------
(***************************************************************************)
(* Remote calls on the local broker: LocalProtocol's PublishToLocalMessage *)
(* and OnLocalResp.  A request goes to every mobile on the broker, so it   *)
(* may be answered more than once; and the handler raises the status       *)
(* before it copies the data.  Every call of the station passes no place   *)
(* for data; a local call in Wants is what the interface allows.  The rqi   *)
(* is always drawn, never given.                                           *)
(***************************************************************************)
EXTENDS RpcCalls

PublishToLocalMessage(c) == c \in Locals /\ CallStep(c)

\* A plausible bug: the data are forgotten.
StatusOnly(h) ==
  /\ h.at = "first" /\ RaiseStatus(h.target, h) /\ Ends(h)

\* the two writes of a handler whose command matched
StatusThenData(h) ==
  \/ h.at = "first" /\ RaiseStatus(h.target, h) /\ Moves(h, "second")
  \/ h.at = "second" /\ CopyData(h.target, h) /\ Ends(h)

OnLocalResp(h) ==
  /\ h.to \in Locals
  /\ \/ Find(h)
     \/ Look(h)
     \/ Compare(h)
     \/ /\ StatusThenData(h)
        /\ UNCHANGED <<now, call, requestList, answers, torn, crashed>>

LocalNext ==
  \/ \E c \in Calls : PublishToLocalMessage(c)
  \/ \E c \in Locals : Respond(c)
  \/ \E h \in handlers : OnLocalResp(h)
=============================================================================
