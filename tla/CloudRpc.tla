------------------------------ MODULE CloudRpc ------------------------------
(***************************************************************************)
(* Remote calls to the cloud: CloudProtocol's PublishToCloudMessage,       *)
(* PublishBinToCloudMessage and PublishToCloudRecieveBinMessage, and the   *)
(* handlers OnServerResp, OnMobileResp and OnServerBinResp, each on a      *)
(* thread of its own, which copy the data and then raise the status.       *)
(***************************************************************************)
EXTENDS RpcCalls

PublishToCloudMessage(c) == c \notin Given \cup Locals /\ CallStep(c)
PublishBinToCloudMessage(c) == c \in Given \ BinCalls /\ CallStep(c)
PublishToCloudRecieveBinMessage(c) == c \in BinCalls /\ CallStep(c)

\* A plausible bug: the order of LocalProtocol.
StatusFirst(h) ==
  \/ h.at = "first" /\ RaiseStatus(h.target, h) /\ Moves(h, "second")
  \/ h.at = "second" /\ CopyData(h.target, h) /\ Ends(h)

\* the two writes of a handler whose command matched
DataThenStatus(h) ==
  \/ h.at = "first" /\ CopyData(h.target, h) /\ Moves(h, "second")
  \/ h.at = "second" /\ RaiseStatus(h.target, h) /\ Ends(h)

Write(h) ==
  /\ DataThenStatus(h)
  /\ UNCHANGED <<now, call, requestList, answers, torn, crashed>>

\* the server's answer to a request, of which it knows the sender
OnServerResp(h) ==
  /\ h.to \notin BinCalls \cup Locals
  /\ Find(h) \/ Look(h) \/ Compare(h) \/ Write(h)

\* a response on the mobiles' topic, looked up in the same map
OnMobileResp(h) == OnServerResp(h)

\* OnServerBinResp does not
OnServerBinResp(h) ==
  /\ h.to \in BinCalls
  /\ \/ Find(h)
     \/ Look(h)
     \/ /\ h.at = "compare"
        /\ Moves(h, "first")
        /\ UNCHANGED <<now, call, status, requestList, answers, history, torn,
                       crashed>>
     \/ Write(h)

CloudNext ==
  \/ \E c \in Calls : PublishToCloudMessage(c)
  \/ \E c \in Calls : PublishBinToCloudMessage(c)
  \/ \E c \in Calls : PublishToCloudRecieveBinMessage(c)
  \/ \E c \in Calls \ Locals : Respond(c)
  \/ \E h \in handlers : OnServerResp(h)
  \/ \E h \in handlers : OnMobileResp(h)
  \/ \E h \in handlers : OnServerBinResp(h)
=============================================================================
