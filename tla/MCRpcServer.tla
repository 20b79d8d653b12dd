---------------------------- MODULE MCRpcServer ----------------------------
(***************************************************************************)
(* Three requests at once: from the server and two mobiles, or from one    *)
(* mobile and two on the local broker.                                     *)
(***************************************************************************)
EXTENDS RpcServer, TLC

CONSTANTS s1, m1, m2, l1, l2

VARIABLE coming   \* the requests that come

MCSide == (s1 :> "server") @@ (m1 :> "mobile") @@ (m2 :> "mobile")
            @@ (l1 :> "local") @@ (l2 :> "local")

MCVars == <<vars, coming>>

MCInit == Init /\ coming \in {{s1, m1, m2}, {m1, l1, l2}}

MCNext ==
  /\ Next
  /\ UNCHANGED coming
  /\ \A r \in Requests \ coming : pc'[r] = pc[r]

\* a thread keeps running, and a callback returns
MCSpec ==
  /\ MCInit
  /\ [][MCNext]_MCVars
  /\ \A r \in Requests : WF_MCVars(~exited /\ HandlerStep(r) /\ UNCHANGED coming)
=============================================================================
