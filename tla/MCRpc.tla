------------------------------- MODULE MCRpc -------------------------------
(* Rpc for TLC: a few calls, of one protocol object or of both. *)
EXTENDS Rpc, TLC

CONSTANTS c1, c2, c3, c4, l1, l2, t1, t2

VARIABLE made       \* the calls that are made at all

MCThread == [c \in Calls |-> IF c \in {c1, c3, l1} THEN t1 ELSE t2]

MCRespCmd == [c \in Calls |->
  IF c \in {c1, c4, l1} THEN "deviceUpdateRsp" ELSE "newDevRsp"]

\* two requests of two threads, which may share an rqi; a request and a binary
\* transfer out (c3) of one thread, whose caller gives the rqi, and one in (c4)
\* of another; two of one thread, to the local broker and the cloud; or one that
\* two mobiles answer
MCInit ==
  /\ Init
  /\ made \in {{c1, c2}, {c1, c3}, {c3, c4}, {l1, l2}, {l1, c1}, {l1}}

MCNext ==
  /\ RpcNext
  /\ UNCHANGED made
  /\ \A c \in Calls \ made : pc'[c] = pc[c]
  /\ \A c \in Calls :                                             \* bound
       answers'[c] > 1 => <<c, made>> \in {<<c1, {c1, c3}>>, <<l1, {l1}>>}

MCVars == <<vars, made>>

ThreadStep(t) ==
  /\ ~crashed
  /\ \E c \in made : Thread[c] = t /\ CallStep(c)
  /\ UNCHANGED made

\* a calling thread keeps running
MCSpec ==
  /\ MCInit
  /\ [][MCNext]_MCVars
  /\ \A t \in {t1, t2} : WF_MCVars(ThreadStep(t))
=============================================================================
