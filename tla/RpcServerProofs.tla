-------------------------- MODULE RpcServerProofs --------------------------
(* Machine-checked proofs about RpcServer, for any requests of any side,   *)
(* any commands and answers of any length.                                 *)
EXTENDS RpcServer, TLAPS

USE RpcServerAssumption DEF Malformed, Free, Protocols, Protocol, Begun, Goto

LEMMA InitIInv == Init => IInv
  <1> SUFFICES ASSUME Init PROVE IInv
    OBVIOUS
  <1>1. TypeOK
    <2>1. started \in BOOLEAN /\ exited \in BOOLEAN
      BY DEF Init
    <2>2. isBusy \in [Protocols -> BOOLEAN]
      BY DEF Init
    <2>3. QED
      BY <2>1, <2>2 DEF Init, TypeOK, Codes
  <1>2. BusyTellsTheTruth
    BY DEF Init, BusyTellsTheTruth, UnderWay
  <1>3. QED
    BY <1>1, <1>2 DEF Init, IInv, StartedInv, KnownInv, MutexInv, MetInv, AnswerInv,
                      AnswersTellTheTruth, UnderWay

LEMMA HandlerKeepsIInv ==
  ASSUME IInv, NEW r \in Requests, HandlerStep(r)
  PROVE  IInv'
  <1> USE DEF TypeOK
  <1> /\ TypeOK /\ StartedInv /\ KnownInv /\ MutexInv /\ MetInv /\ AnswerInv
      /\ BusyTellsTheTruth /\ AnswersTellTheTruth
    BY DEF IInv
  <1>1. CASE Parse(r)
    <2>1. TypeOK'
      <3>1. isBusy' \in [Protocols -> BOOLEAN]
        <4>1. CASE isBusy' = [isBusy EXCEPT ![Protocol(r)] = TRUE]
          <5> DEFINE busy == TRUE
          <5>1. busy \in BOOLEAN
            OBVIOUS
          <5>2. isBusy' = [isBusy EXCEPT ![Protocol(r)] = busy]
            BY <4>1
          <5> HIDE DEF busy
          <5>3. QED
            BY <5>1, <5>2
        <4>2. CASE UNCHANGED isBusy
          BY <4>2
        <4>3. QED
          BY <1>1, <4>1, <4>2 DEF Parse
      <3>2. met' \in [Requests -> SUBSET Requests]
        <4>1. \A p \in Protocols : UnderWay(p) \subseteq Requests
          BY DEF UnderWay
        <4>2. QED
          BY <1>1, <4>1 DEF Parse
      <3>3. QED
        BY <1>1, <3>1, <3>2 DEF Parse
    <2>2. StartedInv' /\ KnownInv' /\ MutexInv' /\ AnswerInv' /\ AnswersTellTheTruth'
      BY <1>1 DEF Parse, StartedInv, KnownInv, MutexInv, AnswerInv, AnswersTellTheTruth
    <2>3. CASE cmd[r] \notin registered[Protocol(r)]
      <3>1. pc' = [pc EXCEPT ![r] = "done"] /\ pc[r] = "parse" /\ UNCHANGED <<isBusy, met>>
        BY <1>1, <2>3 DEF Parse
      <3>2. \A p \in Protocols : UnderWay(p)' = UnderWay(p)
        BY <3>1 DEF UnderWay
      <3>3. \A s \in Requests : pc[s] \in {"publish", "end", "done"} => pc'[s] = pc[s]
        BY <3>1
      <3>4. MetInv'
        BY <3>1, <3>2 DEF MetInv
      <3>5. BusyTellsTheTruth'
        BY <3>1, <3>2, <3>3 DEF BusyTellsTheTruth, UnderWay
      <3>6. QED
        BY <2>1, <2>2, <3>4, <3>5 DEF IInv
    <2>4. CASE cmd[r] \in registered[Protocol(r)]
      <3>1. /\ pc' = [pc EXCEPT ![r] = "lock"] /\ pc[r] = "parse"
            /\ isBusy' = [isBusy EXCEPT ![Protocol(r)] = TRUE]
            /\ met' = [q \in Requests |->
                 IF q = r THEN UnderWay(Protocol(r))
                 ELSE IF q \in UnderWay(Protocol(r)) THEN met[q] \cup {r} ELSE met[q]]
        BY <1>1, <2>4 DEF Parse
      <3>2. \A p \in Protocols :
              UnderWay(p)' = IF p = Protocol(r) THEN UnderWay(p) \cup {r} ELSE UnderWay(p)
        BY <3>1 DEF UnderWay
      <3>3. MetInv'
        BY <3>1, <3>2 DEF MetInv, UnderWay
      <3>4. ASSUME NEW p \in Protocols, p # Protocol(r)
            PROVE  /\ UnderWay(p)' = UnderWay(p) /\ (isBusy'[p] <=> isBusy[p])
                   /\ \A q \in UnderWay(p) : met'[q] = met[q]
        BY <3>1, <3>2, <3>4 DEF UnderWay
      <3>5. isBusy'[Protocol(r)] /\ UnderWay(Protocol(r))' # {}
        BY <3>1, <3>2
      <3>6. \A s \in Requests : pc[s] \in {"publish", "end", "done"} => pc'[s] = pc[s]
        BY <3>1
      <3>7. BusyTellsTheTruth'
        BY <3>4, <3>5, <3>6 DEF BusyTellsTheTruth, UnderWay
      <3>8. QED
        BY <2>1, <2>2, <3>3, <3>7 DEF IInv
    <2>5. QED
      BY <2>3, <2>4
  <1>2. CASE Lock(r)
    <2>1. TypeOK'
      BY <1>2 DEF Lock
    <2>2. StartedInv' /\ KnownInv' /\ MutexInv' /\ AnswerInv' /\ AnswersTellTheTruth'
      BY <1>2 DEF Lock, StartedInv, KnownInv, MutexInv, AnswerInv, AnswersTellTheTruth
    <2>3. MetInv' /\ BusyTellsTheTruth'
      BY <1>2 DEF Lock, BusyTellsTheTruth, MetInv, UnderWay
    <2>4. QED
      BY <2>1, <2>2, <2>3 DEF IInv
  <1>3. CASE Callback(r)
    <2>1. TypeOK'
      BY <1>3 DEF Callback
    <2>2. StartedInv' /\ KnownInv' /\ MutexInv' /\ AnswerInv' /\ AnswersTellTheTruth'
      BY <1>3 DEF Callback, StartedInv, KnownInv, MutexInv, AnswerInv, AnswersTellTheTruth
    <2>3. MetInv' /\ BusyTellsTheTruth'
      BY <1>3 DEF Callback, BusyTellsTheTruth, MetInv, UnderWay
    <2>4. QED
      BY <2>1, <2>2, <2>3 DEF IInv
  <1>4. CASE Unlock(r)
    <2>1. TypeOK'
      BY <1>4 DEF Unlock
    <2>2. StartedInv' /\ KnownInv' /\ MutexInv' /\ AnswerInv' /\ AnswersTellTheTruth'
      BY <1>4 DEF Unlock, StartedInv, KnownInv, MutexInv, AnswerInv, AnswersTellTheTruth
    <2>3. MetInv' /\ BusyTellsTheTruth'
      BY <1>4 DEF Unlock, BusyTellsTheTruth, MetInv, UnderWay
    <2>4. QED
      BY <2>1, <2>2, <2>3 DEF IInv
  <1>5. CASE Clear(r)
    <2>1. TypeOK'
      BY <1>5 DEF Clear
    <2>2. StartedInv' /\ KnownInv' /\ MutexInv' /\ AnswerInv' /\ AnswersTellTheTruth'
      BY <1>5 DEF Clear, StartedInv, KnownInv, MutexInv, AnswerInv, AnswersTellTheTruth
    <2>3. MetInv' /\ BusyTellsTheTruth'
      BY <1>5 DEF Clear, BusyTellsTheTruth, KnownInv, MetInv, UnderWay
    <2>4. QED
      BY <2>1, <2>2, <2>3 DEF IInv
  <1>6. CASE Answer(r)
    <2>1. TypeOK'
      BY <1>6 DEF Answer, AnswerCount, AnswerInv
    <2>2. StartedInv' /\ KnownInv' /\ MutexInv'
      BY <1>6 DEF Answer, StartedInv, KnownInv, MutexInv
    <2>3. AnswerInv' /\ AnswersTellTheTruth'
      BY <1>6 DEF Answer, AnswerCount, KnownInv, AnswerInv, AnswersTellTheTruth
    <2>4. MetInv' /\ BusyTellsTheTruth'
      BY <1>6 DEF Answer, BusyTellsTheTruth, MetInv, UnderWay
    <2>5. QED
      BY <2>1, <2>2, <2>3, <2>4 DEF IInv
  <1>7. CASE End(r)
    <2>1. TypeOK'
      BY <1>7 DEF End, Quits
    <2>2. StartedInv' /\ KnownInv' /\ MutexInv' /\ AnswerInv' /\ AnswersTellTheTruth'
      BY <1>7 DEF End, StartedInv, KnownInv, MutexInv, AnswerInv, AnswersTellTheTruth
    <2>3. MetInv' /\ BusyTellsTheTruth'
      BY <1>7 DEF End, BusyTellsTheTruth, MetInv, UnderWay
    <2>4. QED
      BY <2>1, <2>2, <2>3 DEF IInv
  <1>8. QED
    BY <1>1, <1>2, <1>3, <1>4, <1>5, <1>6, <1>7 DEF HandlerStep

LEMMA NextIInv ==
  ASSUME IInv, [Next]_vars
  PROVE  IInv'
  <1> USE DEF TypeOK
  <1> /\ TypeOK /\ StartedInv /\ KnownInv /\ MutexInv /\ MetInv /\ AnswerInv
      /\ BusyTellsTheTruth /\ AnswersTellTheTruth
    BY DEF IInv
  <1>1. ASSUME NEW p \in Protocols, NEW c \in Commands, Register(p, c)
        PROVE  IInv'
    <2>1. TypeOK'
      BY <1>1 DEF Register
    <2>2. StartedInv' /\ KnownInv' /\ MutexInv' /\ AnswerInv' /\ AnswersTellTheTruth'
      BY <1>1 DEF Register, StartedInv, KnownInv, MutexInv, AnswerInv, AnswersTellTheTruth
    <2>3. MetInv' /\ BusyTellsTheTruth'
      BY <1>1 DEF Register, BusyTellsTheTruth, MetInv, UnderWay
    <2>4. QED
      BY <2>1, <2>2, <2>3 DEF IInv
  <1>2. CASE Start
    <2>1. TypeOK'
      BY <1>2 DEF Start
    <2>2. StartedInv' /\ KnownInv' /\ MutexInv' /\ AnswerInv' /\ AnswersTellTheTruth'
      BY <1>2 DEF Start, StartedInv, KnownInv, MutexInv, AnswerInv, AnswersTellTheTruth
    <2>3. MetInv' /\ BusyTellsTheTruth'
      BY <1>2 DEF Start, BusyTellsTheTruth, MetInv, UnderWay
    <2>4. QED
      BY <2>1, <2>2, <2>3 DEF IInv
  <1>3. ASSUME NEW r \in Requests, Receive(r)
        PROVE  IInv'
    <2>1. TypeOK'
      BY <1>3 DEF Receive
    <2>2. StartedInv' /\ KnownInv' /\ MutexInv' /\ AnswerInv' /\ AnswersTellTheTruth'
      BY <1>3 DEF Receive, StartedInv, KnownInv, MutexInv, AnswerInv, AnswersTellTheTruth
    <2>3. MetInv' /\ BusyTellsTheTruth'
      BY <1>3 DEF Receive, BusyTellsTheTruth, MetInv, UnderWay
    <2>4. QED
      BY <2>1, <2>2, <2>3 DEF IInv
  <1>4. CASE UNCHANGED vars
    BY <1>4 DEF vars, IInv, StartedInv, KnownInv, MutexInv, AnswerInv,
                MetInv, BusyTellsTheTruth, AnswersTellTheTruth, UnderWay
  <1>5. CASE \E c \in Commands : OnDeviceRpcCallbackRegister(c) \/ OnLocalCallbackRegister(c)
    BY <1>1, <1>5 DEF OnDeviceRpcCallbackRegister, OnLocalCallbackRegister
  <1>6. CASE \E r \in Requests : OnServerReq(r) \/ OnMobileReq(r) \/ OnLocalReq(r)
    BY <1>6, HandlerKeepsIInv DEF OnServerReq, OnMobileReq, OnLocalReq
  <1>7. QED
    BY <1>2, <1>3, <1>4, <1>5, <1>6 DEF Next

\* The inductive invariant: who holds a mutex, that requests under way have met,
\* and that only the last steps of a known command publish (CloudProtocol.cpp:95-160, 225-300).
THEOREM Invariance == Spec => []IInv
  <1>1. Init => IInv
    BY InitIInv
  <1>2. IInv /\ [Next]_vars => IInv'
    BY NextIInv
  <1>3. QED
    BY <1>1, <1>2, PTL DEF Spec

\* Every variable keeps its type, the number of answers included
\* (CloudProtocol.cpp, LocalProtocol.cpp).
THEOREM TypeCorrectness == Spec => []TypeOK
  <1>1. IInv => TypeOK
    BY DEF IInv
  <1>2. QED
    BY <1>1, Invariance, PTL

\* A protocol that says it is busy has a command under way, and if it denies it,
\* each of those ran beside another that ended first (CloudProtocol.cpp:110-112).
THEOREM BusyIsTrue == Spec => []BusyTellsTheTruth
  <1>1. IInv => BusyTellsTheTruth
    BY DEF IInv
  <1>2. QED
    BY <1>1, Invariance, PTL

\* Two callbacks that the mobiles of one protocol asked for exclude each other
\* (CloudProtocol.cpp:252, LocalProtocol.cpp:104).
THEOREM MobilesExclude == Spec => []CallbacksExclude
  <1>1. IInv => CallbacksExclude
    BY DEF IInv, TypeOK, MutexInv, CallbacksExclude
  <1>2. QED
    BY <1>1, Invariance, PTL

\* What is published for a request agrees with what its callback returned
\* (CloudProtocol.cpp:113-149).
THEOREM AnswersAreTrue == Spec => []AnswersTellTheTruth
  <1>1. IInv => AnswersTellTheTruth
    BY DEF IInv
  <1>2. QED
    BY <1>1, Invariance, PTL
=============================================================================
