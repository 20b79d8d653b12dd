---------------------------- MODULE BleMeshProofs ----------------------------
(***************************************************************************)
(* Proofs about what the station says to the mesh and hears from it.  Of   *)
(* BleCommands, for any devices, values, choice of commands, number of     *)
(* calls and of reports: what a success says, and what one says that other *)
(* answers can end.  They rest on what BleAnswers assumes of the table,    *)
(* which speak of no instance.  Of BleNotices, for any macs and keys, a    *)
(* list of any capacity and any number of frames and scans.                *)
(***************************************************************************)
EXTENDS BleAnswers, BleNotices, TLAPS

Fixed == {"addr", "opcode", "header", "ok"}

(* What a request is made of. *)
LEMMA RequestParts ==
  ASSUME NEW r, IsRequest(r)
  PROVE  /\ r.cmd \in Commands /\ r.dev \in Target(r.cmd)
         /\ DOMAIN r.args = r.cmd.params
         /\ r = Request(r.cmd, r.dev, r.args)
         /\ r.args \in Arguments(r.cmd)
<1>0. PICK c \in Commands :
        \E d \in Target(c), a \in Arguments(c) : r = Request(c, d, a)
  BY DEF IsRequest
<1>1. PICK d \in Target(c), a \in Arguments(c) : r = Request(c, d, a)
  BY <1>0
<1>2. r.cmd = c /\ r.dev = d /\ r.args = a
  BY <1>1 DEF Request
<1>3. DOMAIN a = c.params
  BY DEF Arguments
<1> QED BY <1>1, <1>2, <1>3

LEMMA IssuedIsRequest ==
  ASSUME NEW c \in Used, NEW d \in Target(c), NEW a \in Arguments(c)
  PROVE  IsRequest(Request(c, d, a)) /\ Request(c, d, a).cmd = c
BY UsedAssumption DEF IsRequest, Request

(* What an answer is made of. *)
LEMMA AnswerParts ==
  ASSUME NEW r, NEW f \in Answers(r)
  PROVE  /\ f.hci = r.cmd.hci /\ f.from = r.dev /\ f.opcode = r.cmd.opcode
         /\ f.header = r.cmd.reply /\ f.re = {r}
         /\ f.ok \in BOOLEAN
         /\ r.cmd.name \notin WithStatus => f.ok = TRUE
         /\ DOMAIN f.args = r.cmd.params \cup r.cmd.shows
         /\ \A p \in r.cmd.params : f.args[p] = r.args[p]
<1> DEFINE Oks == IF r.cmd.name \in WithStatus THEN BOOLEAN ELSE {TRUE}
<1>1. Oks \subseteq BOOLEAN /\ (r.cmd.name \notin WithStatus => Oks = {TRUE})
  OBVIOUS
<1>2. Answers(r) = {Answer(r, ok, told) : ok \in Oks, told \in [r.cmd.shows -> Values]}
  BY DEF Answers
<1> HIDE DEF Oks
<1>3. PICK ok \in Oks, told \in [r.cmd.shows -> Values] : f = Answer(r, ok, told)
  BY <1>2
<1>4. f.ok = ok
  BY <1>3 DEF Answer
<1>5. /\ f.hci = r.cmd.hci /\ f.from = r.dev /\ f.opcode = r.cmd.opcode
      /\ f.header = r.cmd.reply /\ f.re = {r}
      /\ DOMAIN f.args = r.cmd.params \cup r.cmd.shows
      /\ \A p \in r.cmd.params : f.args[p] = r.args[p]
  BY <1>3 DEF Answer
<1> QED BY <1>1, <1>3, <1>4, <1>5

LEMMA ReportParts ==
  ASSUME NEW d, NEW f \in Reports(d)
  PROVE  /\ f.hci = "RSP_OP_CODE" /\ f.re = {} /\ f.from = d
         /\ \/ f.opcode = "e3" /\ f.header = "0b0b"
            \/ f.opcode = "8204" /\ f.header = "none"
         /\ DOMAIN f.args \cap Fixed = {}
BY DEF Reports, Fixed

(* A frame that passes and is judged CODE_OK agrees with its request in    *)
(* every field that the function looks at and the frame has.               *)
LEMMA JudgedFits ==
  ASSUME IsRequest(req), req.cmd.waits,
         NEW f, Passes(f, req), "CODE_OK" \in Verdicts(f, req)
  PROVE  /\ \A field \in Looks(req.cmd) :
              field \in Fixed \cup DOMAIN f.args => Same(f, req, field)
         /\ Alike(f.hci, f.opcode, f.header, req.cmd)
<1> DEFINE c == req.cmd
<1>1. f.hci = c.hci /\ \A field \in c.filter : Same(f, req, field)
  BY DEF Passes
<1>2. \A field \in Compared(req) \ Unwritten(f, req) : Same(f, req, field)
  BY DEF Verdicts
<1>3. c.check \subseteq Compared(req)
  BY DEF Compared
<1> HIDE DEF c
<1>4. ASSUME NEW field \in Looks(c), field \in Fixed \cup DOMAIN f.args
      PROVE  Same(f, req, field)
  <2>1. field \notin Unwritten(f, req)
    BY <1>4 DEF Unwritten, Fixed
  <2> QED BY <2>1, <1>1, <1>2, <1>3, <1>4 DEF Looks
<1>5. Alike(f.hci, f.opcode, f.header, c)
  <2>1. "opcode" \in Looks(c) => f.opcode = c.opcode
    BY <1>4 DEF Fixed, Same, c
  <2>2. "header" \in Looks(c) => f.header = c.header
    BY <1>4 DEF Fixed, Same, c
  <2> QED BY <1>1, <2>1, <2>2 DEF Alike
<1> QED BY <1>4, <1>5 DEF c

(* If it answers a request of the same kind, that one went to the same     *)
(* device, and if refusals are read, it was acted on.                      *)
LEMMA AnsweredByTheDevice ==
  ASSUME IsRequest(req), req.cmd.waits,
         NEW f \in frames, Passes(f, req), "CODE_OK" \in Verdicts(f, req),
         NEW r, IsRequest(r), f \in Answers(r), r.cmd.system = req.cmd.system,
         ~req.cmd.system => "addr" \in Looks(req.cmd),
         r.cmd.name \in WithStatus => "ok" \in Looks(req.cmd)
  PROVE  r.dev = req.dev /\ r \in Acted
<1>1. r.dev \in Target(r.cmd) /\ req.dev \in Target(req.cmd)
  BY RequestParts
<1>2. r.dev = req.dev
  <2>1. CASE req.cmd.system
    BY <1>1, <2>1 DEF Target
  <2>2. CASE ~req.cmd.system
    <3>1. f.from = req.dev
      BY <2>2, JudgedFits DEF Fixed, Same
    <3> QED BY <3>1, AnswerParts
  <2> QED BY <2>1, <2>2
<1>3. f.ok
  <2>1. CASE "ok" \in Looks(req.cmd)
    BY <2>1, JudgedFits DEF Fixed, Same
  <2>2. CASE "ok" \notin Looks(req.cmd)
    BY <2>2, AnswerParts
  <2> QED BY <2>1, <2>2
<1>4. r \in f.re
  BY AnswerParts
<1> QED BY <1>2, <1>3, <1>4 DEF Acted

(* A parameter that the function looks at is the one of the request        *)
(* answered.                                                               *)
LEMMA ParameterAgrees ==
  ASSUME IsRequest(req), req.cmd.waits,
         NEW f, Passes(f, req), "CODE_OK" \in Verdicts(f, req),
         NEW r, f \in Answers(r),
         NEW p \in r.cmd.params, p \in Looks(req.cmd), p \notin Fixed
  PROVE  r.args[p] = req.args[p]
<1>1. p \in DOMAIN f.args /\ f.args[p] = r.args[p]
  <2>1. f \in Answers(r)
    OBVIOUS
  <2>2. /\ DOMAIN f.args = r.cmd.params \cup r.cmd.shows
        /\ \A q \in r.cmd.params : f.args[q] = r.args[q]
    BY ONLY <2>1, AnswerParts
  <2> QED BY <2>2
<1>2. Same(f, req, p)
  BY <1>1, JudgedFits
<1> QED BY <1>1, <1>2 DEF Same, Fixed

(* A frame that passes and is judged CODE_OK, for a command that is none   *)
(* of the uncertain, is the device's answer to a request for that command. *)
LEMMA JudgedIsAnswer ==
  ASSUME IInv, IsRequest(req), req.cmd.waits, req.cmd.name \notin Uncertain,
         NEW f \in frames, Passes(f, req), "CODE_OK" \in Verdicts(f, req)
  PROVE  \E r \in Acted :
           /\ r.cmd.name = req.cmd.name
           /\ r.dev = req.dev
           /\ \A p \in req.cmd.params :
                <<req.cmd.name, p>> \in Unsaid \/ r.args[p] = req.args[p]
<1> DEFINE c == req.cmd
<1>1. c \in Commands /\ c.waits
  BY RequestParts
<1>2. /\ c.params \cap Fixed = {}
      /\ \A b \in Commands : b.waits /\ Alike(b.hci, b.opcode, b.reply, c) => b = c
      /\ ~Alike("RSP_OP_CODE", "e3", "0b0b", c)
      /\ ~Alike("RSP_OP_CODE", "8204", "none", c)
      /\ c.name \in WithStatus => "ok" \in Looks(c)
      /\ ~c.system => "addr" \in Looks(c)
      /\ \A p \in c.params : p \in Looks(c) \/ <<c.name, p>> \in Unsaid
  BY <1>1, TableAssumption DEF Fixed
<1>3. Alike(f.hci, f.opcode, f.header, c)
  BY JudgedFits
<1> HIDE DEF c
<1>4. PICK r \in sent : r.cmd.waits /\ f \in Answers(r)
  <2>1. ASSUME NEW d \in Devices, f \in Reports(d) PROVE FALSE
    BY <1>2, <1>3, <2>1, ReportParts
  <2> QED BY <2>1 DEF IInv, Origins
<1>5. IsRequest(r) /\ r.cmd \in Commands
  BY RequestParts DEF IInv, Origins
<1>6. r.cmd = c
  BY <1>2, <1>3, <1>4, <1>5, AnswerParts
<1>7. r.dev = req.dev /\ r \in Acted
  BY <1>2, <1>4, <1>5, <1>6, AnsweredByTheDevice DEF c
<1>8. ASSUME NEW p \in c.params, <<c.name, p>> \notin Unsaid
      PROVE  r.args[p] = req.args[p]
  <2>1. p \in Looks(c) /\ p \notin Fixed /\ p \in r.cmd.params
    BY <1>2, <1>6, <1>8
  <2> QED BY <1>4, <2>1, ParameterAgrees DEF c
<1> QED BY <1>6, <1>7, <1>8 DEF c

(* The parameters that the function compares and an answer tells.          *)
Agreeing(args) == \A p \in req.cmd.check \cap DOMAIN args : args[p] = req.args[p]

(* For a command that shares its answer it is the device's answer to this  *)
(* command or to a twin, or a report that looks like one.                  *)
LEMMA JudgedIsOfATwin ==
  ASSUME IInv, IsRequest(req), req.cmd.waits, req.cmd.name \in SharedAnswer,
         NEW f \in frames, Passes(f, req), "CODE_OK" \in Verdicts(f, req)
  PROVE  \/ \E r \in Acted :
              r.dev = req.dev /\ MixesUp(r.cmd.name, req.cmd.name) /\ Agreeing(r.args)
         \/ /\ req.cmd.name \in LikeReports
            /\ \E g \in Unasked :
                 g.from = req.dev /\ g.opcode = req.cmd.opcode /\ Agreeing(g.args)
<1> DEFINE c == req.cmd
<1>1. c \in Commands /\ c.waits /\ c.name \in SharedAnswer
  BY RequestParts
<1>2. /\ Looks(c) \subseteq Fixed \cup c.params
      /\ c.params \cap Fixed = {}
      /\ \A b \in Commands : b.waits /\ Alike(b.hci, b.opcode, b.reply, c) =>
           /\ MixesUp(b.name, c.name) /\ b.system = c.system
           /\ b.name \in WithStatus => "ok" \in Looks(c)
      /\ ~Alike("RSP_OP_CODE", "e3", "0b0b", c)
      /\ c.name \notin LikeReports => ~Alike("RSP_OP_CODE", "8204", "none", c)
      /\ c.name \in LikeReports => {"addr", "opcode"} \subseteq Looks(c)
      /\ ~c.system => "addr" \in Looks(c)
  BY <1>1, TableAssumption DEF Fixed
<1>3. Alike(f.hci, f.opcode, f.header, c)
  BY JudgedFits
<1>4. c.check \subseteq Looks(c)
  BY DEF Looks
<1> HIDE DEF c
<1>5. CASE \E r \in sent : r.cmd.waits /\ f \in Answers(r)
  <2>1. PICK r \in sent : r.cmd.waits /\ f \in Answers(r)
    BY <1>5
  <2>2. IsRequest(r) /\ r.cmd \in Commands /\ DOMAIN r.args = r.cmd.params
    BY RequestParts DEF IInv, Origins
  <2>3. Alike(r.cmd.hci, r.cmd.opcode, r.cmd.reply, c)
    BY <1>3, <2>1, AnswerParts
  <2>4. /\ MixesUp(r.cmd.name, c.name) /\ r.cmd.system = c.system
        /\ r.cmd.name \in WithStatus => "ok" \in Looks(c)
    BY <1>2, <2>1, <2>2, <2>3
  <2>5. r.dev = req.dev /\ r \in Acted
    BY <1>2, <2>1, <2>2, <2>4, AnsweredByTheDevice DEF c
  <2>6. ASSUME NEW p \in c.check \cap DOMAIN r.args PROVE r.args[p] = req.args[p]
    <3>1. p \in r.cmd.params /\ p \in Looks(c)
      BY <1>4, <2>2, <2>6
    <3>2. p \notin Fixed
      <4>1. r.cmd.params \cap Fixed = {}
        BY <2>1, <2>2, TableAssumption DEF Fixed
      <4> QED BY <3>1, <4>1
    <3> QED BY <2>1, <3>1, <3>2, ParameterAgrees DEF c
  <2> QED BY <2>4, <2>5, <2>6 DEF Agreeing, c
<1>6. CASE \E d \in Devices : f \in Reports(d)
  <2>1. PICK d \in Devices : f \in Reports(d)
    BY <1>6
  <2>2. /\ f.hci = "RSP_OP_CODE" /\ f.re = {} /\ f.opcode = "8204"
        /\ c.name \in LikeReports
    BY <1>2, <1>3, <2>1, ReportParts
  <2>3. f.from = req.dev /\ f.opcode = c.opcode
    <3>1. "addr" \in Looks(c) /\ "opcode" \in Looks(c)
      BY <1>2, <2>2
    <3> QED BY <3>1, JudgedFits DEF Fixed, Same, c
  <2>4. ASSUME NEW p \in c.check \cap DOMAIN f.args PROVE f.args[p] = req.args[p]
    <3>1. p \notin Fixed
      BY <2>1, <2>2, <2>4, ReportParts
    <3>2. Same(f, req, p)
      BY <1>4, <2>4, JudgedFits DEF c
    <3> QED BY <2>4, <3>1, <3>2 DEF Same, Fixed
  <2> QED BY <2>2, <2>3, <2>4 DEF Agreeing, Unasked, c
<1> QED BY <1>5, <1>6 DEF IInv, Origins
-----------------------------------------------------------------------------
(* The actions. *)

LEMMA InitIInv == Init => IInv
<1> SUFFICES ASSUME Init PROVE IInv
  OBVIOUS
<1> USE DEF Init
<1>1. TypeOK
  BY BoundsAssumption DEF TypeOK
<1>2. Origins /\ Awaited
  BY DEF Origins, Awaited
<1>3. OkMeansDone /\ MixedUpOnlyWithTwins
  BY DEF OkMeansDone, MixedUpOnlyWithTwins
<1> QED BY <1>1, <1>2, <1>3 DEF IInv

(* The frames stay, and with them what devices have acted on.              *)
LEMMA ActedGrows ==
  ASSUME frames \subseteq frames' PROVE Acted \subseteq Acted'
BY DEF Acted

LEMMA IssueStep ==
  ASSUME IInv, NEW c \in Used, NEW d \in Target(c), NEW a \in Arguments(c),
         Idle, Issue(c, d, a)
  PROVE  IInv'
<1> USE DEF IInv, Issue, Idle
<1>1. IsRequest(Request(c, d, a)) /\ Request(c, d, a).cmd = c
  BY IssuedIsRequest
<1>2. TypeOK'
  BY BoundsAssumption DEF TypeOK
<1>3. Origins'
  BY <1>1 DEF Origins
<1>4. Awaited' /\ OkMeansDone'
  BY <1>1 DEF Awaited, OkMeansDone
<1>5. MixedUpOnlyWithTwins'
  BY <1>1 DEF MixedUpOnlyWithTwins
<1> QED BY <1>2, <1>3, <1>4, <1>5

LEMMA RejectKeyStep ==
  ASSUME IInv, NEW c \in Used, NEW a \in Arguments(c), Idle, RejectKey(c, a)
  PROVE  IInv'
<1> USE DEF IInv, RejectKey, Idle
<1>1. IsRequest(req')
  BY IssuedIsRequest
<1>2. TypeOK'
  BY BoundsAssumption DEF TypeOK
<1>3. Origins'
  BY <1>1 DEF Origins
<1>4. Awaited' /\ OkMeansDone' /\ MixedUpOnlyWithTwins'
  BY DEF Awaited, OkMeansDone, MixedUpOnlyWithTwins
<1> QED BY <1>2, <1>3, <1>4

(* A frame sent, by a device that answers or on its own.                   *)
LEMMA FrameStep ==
  ASSUME IInv, NEW f, frames' = frames \cup {f},
         \/ \E r \in sent : r.cmd.waits /\ f \in Answers(r)
         \/ \E d \in Devices : f \in Reports(d),
         UNCHANGED <<calls, state, req, heard, sent>>
  PROVE  IInv'
<1> USE DEF IInv
<1>1. TypeOK'
  BY DEF TypeOK, Passes, Same
<1>2. Origins'
  BY DEF Origins
<1>3. Awaited'
  BY DEF Awaited
<1>4. OkMeansDone'
  BY ActedGrows DEF OkMeansDone
<1>5. MixedUpOnlyWithTwins'
  <2>1. Unasked \subseteq Unasked'
    BY DEF Unasked
  <2> QED BY <2>1, ActedGrows DEF MixedUpOnlyWithTwins
<1> QED BY <1>1, <1>2, <1>3, <1>4, <1>5

LEMMA ActStep == ASSUME IInv, NEW r \in sent, Act(r) PROVE IInv'
BY FrameStep DEF Act

LEMMA ReportStep == ASSUME IInv, NEW d \in Devices, Report(d) PROVE IInv'
BY FrameStep DEF Report

LEMMA ReceiveStep == ASSUME IInv, NEW f \in frames, Receive(f) PROVE IInv'
<1> USE DEF IInv, Receive
<1>1. TypeOK'
  BY DEF TypeOK, Passes, Same
<1>2. Origins' /\ Awaited'
  BY DEF Origins, Awaited
<1>3. OkMeansDone' /\ MixedUpOnlyWithTwins'
  BY DEF OkMeansDone, MixedUpOnlyWithTwins
<1> QED BY <1>1, <1>2, <1>3

LEMMA JudgeStep == ASSUME IInv, Judge PROVE IInv'
<1> USE DEF IInv, Judge
<1>1. IsRequest(req) /\ req.cmd.waits
  BY DEF Origins, Awaited
<1>2. heard \in frames /\ Passes(heard, req)
  BY DEF TypeOK
<1>3. state' \in {"CODE_OK", "CODE_ERROR"}
  BY DEF Verdicts
<1>4. TypeOK'
  BY <1>3 DEF TypeOK, Passes, Same
<1>5. Origins' /\ Awaited'
  BY <1>1, <1>3 DEF Origins, Awaited
<1>6. OkMeansDone'
  <2> SUFFICES ASSUME state' = "CODE_OK", req.cmd.name \notin Uncertain
               PROVE  \E r \in Acted :
                        /\ r.cmd.name = req.cmd.name
                        /\ r.dev = req.dev
                        /\ \A p \in req.cmd.params :
                             <<req.cmd.name, p>> \in Unsaid \/ r.args[p] = req.args[p]
    BY DEF OkMeansDone, Acted
  <2> QED BY <1>1, <1>2, JudgedIsAnswer
<1>7. MixedUpOnlyWithTwins'
  <2> SUFFICES ASSUME state' = "CODE_OK", req.cmd.name \in SharedAnswer
               PROVE  \/ \E r \in Acted :
                           /\ r.dev = req.dev /\ MixesUp(r.cmd.name, req.cmd.name)
                           /\ Agreeing(r.args)
                      \/ /\ req.cmd.name \in LikeReports
                         /\ \E f \in Unasked :
                              /\ f.from = req.dev /\ f.opcode = req.cmd.opcode
                              /\ Agreeing(f.args)
    BY DEF MixedUpOnlyWithTwins, Agreeing, Acted, Unasked
  <2> QED BY <1>1, <1>2, JudgedIsOfATwin
<1> QED BY <1>4, <1>5, <1>6, <1>7

LEMMA TimeoutStep == ASSUME IInv, Timeout PROVE IInv'
BY DEF IInv, Timeout, TypeOK, Origins, Awaited, OkMeansDone, MixedUpOnlyWithTwins, Passes, Same

LEMMA NextIInv == IInv /\ [Next]_vars => IInv'
<1> SUFFICES ASSUME IInv, [Next]_vars PROVE IInv'
  OBVIOUS
<1>1. CASE UNCHANGED vars
  BY <1>1 DEF vars, IInv, TypeOK, Origins, Awaited, OkMeansDone, MixedUpOnlyWithTwins,
              Unasked, Acted, Passes, Same
<1>2. CASE Next
  BY <1>2, IssueStep, RejectKeyStep, ActStep, ReportStep, ReceiveStep, JudgeStep,
     TimeoutStep DEF Next
<1> QED BY <1>1, <1>2

(* The inductive invariant holds in every reachable state.                 *)
THEOREM Invariance == Spec => []IInv
BY InitIInv, NextIInv, PTL DEF Spec

(* What dataRsp holds was sent by a device and compared with the request   *)
(* it is judged for (BleProtocol.cpp:381-406).                             *)
THEOREM TypeCorrectness == Spec => []TypeOK
BY Invariance, PTL DEF IInv

(* CODE_OK is true: the device has acted on that command with the same     *)
(* parameters, but for the commands and the parameters named uncertain     *)
(* (BleProtocol.cpp:596-4372).                                             *)
THEOREM SuccessIsTrue == Spec => []OkMeansDone
BY Invariance, PTL DEF IInv

(* A success that another answer can end is of the command, of one of its  *)
(* twins, or of a light switched by hand, on the device addressed, with    *)
(* the parameters compared (BleProtocol.cpp:1396-1511, 2850-2910).         *)
THEOREM MixedUpOnlyWithTwinsAlways == Spec => []MixedUpOnlyWithTwins
BY Invariance, PTL DEF IInv
-----------------------------------------------------------------------------
(* Notices.                                                                *)

USE BleNoticesAssumption DEF Goto, handled, reader

LEMMA NoticesInitially == NoticesInit => NoticesInv
  <1> SUFFICES ASSUME NoticesInit PROVE NoticesInv
    OBVIOUS
  <1>1. isMatchMac \in BOOLEAN /\ raced \in BOOLEAN /\ overwritten \in BOOLEAN
    BY DEF NoticesInit
  <1>2. NoticesTypeOK
    BY <1>1 DEF NoticesInit, NoticesTypeOK
  <1>3. StartInv
    BY DEF NoticesInit, StartInv, Waiting, Frames, Adverts, ReportFrames, NodeInfos, Others
  <1>4. ScanInv /\ CrashNeedsAnOldScan /\ RssiIsOfAScan /\ KeyIsOfANode
    BY DEF NoticesInit, ScanInv, CrashNeedsAnOldScan, RssiIsOfAScan, KeyIsOfANode
  <1>5. QED
    BY <1>2, <1>3, <1>4 DEF NoticesInv

\* main goes on: from StopScan on, nothing is said of advertisements.
LEMMA MainKeepsNotices ==
  ASSUME NoticesInv, StartReader \/ init \/ CreateQr \/ BleStopScan
  PROVE  NoticesInv'
  <1> USE DEF StartReader, init, CreateQr, BleStopScan
  <1> /\ NoticesTypeOK /\ StartInv /\ ScanInv
      /\ CrashNeedsAnOldScan /\ RssiIsOfAScan /\ KeyIsOfANode
    BY DEF NoticesInv
  <1>1. /\ main \in {"ble", "reader", "handler", "qr"}
        /\ main' \in {"reader", "handler", "qr", "run"}
        /\ main' \in {"reader", "handler"} => main \in {"ble", "reader", "handler"}
        /\ main' # "run" => UNCHANGED scanning
        /\ UNCHANGED <<messageCheckOpcodeList, message_rsp, handled, reader, frameCount>>
    OBVIOUS
  <1>2. scanning' \in BOOLEAN
    BY DEF NoticesTypeOK
  <1>3. NoticesTypeOK'
    BY <1>1, <1>2 DEF NoticesTypeOK
  <1>4. StartInv'
    BY <1>1 DEF StartInv, Waiting
  <1>5. ScanInv' /\ CrashNeedsAnOldScan' /\ RssiIsOfAScan' /\ KeyIsOfANode'
    BY <1>1 DEF ScanInv, CrashNeedsAnOldScan, RssiIsOfAScan, KeyIsOfANode
  <1>6. QED
    BY <1>3, <1>4, <1>5 DEF NoticesInv

LEMMA QueueKeepsNotices ==
  ASSUME NoticesInv, Queue
  PROVE  NoticesInv'
  <1> /\ NoticesTypeOK /\ StartInv /\ ScanInv
      /\ CrashNeedsAnOldScan /\ RssiIsOfAScan /\ KeyIsOfANode
    BY DEF NoticesInv
  <1> PICK f \in Frames :
        /\ f \in Adverts => scanning
        /\ messageCheckOpcodeList' =
             IF Len(messageCheckOpcodeList) < Queue_Max
               THEN Append(messageCheckOpcodeList, f) ELSE messageCheckOpcodeList
    BY DEF Queue
  <1>1. UNCHANGED <<main, scanning, message_rsp, handled, reader>>
    BY DEF Queue
  <1>2. /\ messageCheckOpcodeList' \in Seq(Frames)
        /\ Len(messageCheckOpcodeList') <= Queue_Max
    BY DEF NoticesTypeOK
  <1>3. Waiting' \subseteq Waiting \cup {f}
    BY DEF NoticesTypeOK, Waiting
  <1>4. NoticesTypeOK'
    BY <1>1, <1>2 DEF NoticesTypeOK
  <1>5. StartInv'
    BY <1>1, <1>3 DEF StartInv
  <1>6. ScanInv' /\ CrashNeedsAnOldScan' /\ RssiIsOfAScan' /\ KeyIsOfANode'
    BY <1>1 DEF ScanInv, CrashNeedsAnOldScan, RssiIsOfAScan, KeyIsOfANode
  <1>7. QED
    BY <1>4, <1>5, <1>6 DEF NoticesInv

\* The QR reader works only when main has come to its creation.
LEMMA ScanKeepsNotices ==
  ASSUME NoticesInv, Scan \/ Assign
  PROVE  NoticesInv'
  <1> /\ NoticesTypeOK /\ StartInv /\ ScanInv
      /\ CrashNeedsAnOldScan /\ RssiIsOfAScan /\ KeyIsOfANode
    BY DEF NoticesInv
  <1>1. UNCHANGED <<main, scanning, messageCheckOpcodeList, message_rsp, handled, frameCount>>
    BY DEF Scan, Assign
  <1>2. main \in {"qr", "run"}
    BY DEF Scan, Assign, StartInv, NoticesTypeOK
  <1>3. NoticesTypeOK'
    BY <1>1 DEF Scan, Assign, NoticesTypeOK
  <1>4. StartInv'
    BY <1>1, <1>2 DEF StartInv, Waiting
  <1>5. ScanInv'
    BY DEF Scan, Assign, ScanInv
  <1>6. scanned \subseteq scanned'
    BY DEF Scan, Assign
  <1>7. CrashNeedsAnOldScan' /\ RssiIsOfAScan' /\ KeyIsOfANode'
    BY <1>1, <1>2, <1>6 DEF CrashNeedsAnOldScan, RssiIsOfAScan, KeyIsOfANode
  <1>8. QED
    BY <1>3, <1>4, <1>5, <1>7 DEF NoticesInv

LEMMA TakeKeepsNotices ==
  ASSUME NoticesInv, GetOpcodeExceptionMessage
  PROVE  NoticesInv'
  <1> /\ NoticesTypeOK /\ StartInv /\ ScanInv
      /\ CrashNeedsAnOldScan /\ RssiIsOfAScan /\ KeyIsOfANode
    BY DEF NoticesInv
  <1>1. /\ messageCheckOpcodeList # <<>>
        /\ message_rsp' = Head(messageCheckOpcodeList)
        /\ messageCheckOpcodeList' = Tail(messageCheckOpcodeList)
        /\ UNCHANGED <<main, scanning, handled, reader, frameCount>>
    BY DEF GetOpcodeExceptionMessage
  <1>2. /\ message_rsp' \in Frames /\ message_rsp' \in Waiting
        /\ messageCheckOpcodeList' \in Seq(Frames)
        /\ Len(messageCheckOpcodeList') <= Queue_Max
        /\ Waiting' \subseteq Waiting
    BY <1>1 DEF NoticesTypeOK, Waiting
  <1>3. NoticesTypeOK'
    BY <1>1, <1>2 DEF NoticesTypeOK
  <1>4. StartInv'
    BY <1>1, <1>2 DEF StartInv
  <1>5. ScanInv' /\ CrashNeedsAnOldScan' /\ RssiIsOfAScan' /\ KeyIsOfANode'
    BY <1>1 DEF ScanInv, CrashNeedsAnOldScan, RssiIsOfAScan, KeyIsOfANode
  <1>6. QED
    BY <1>3, <1>4, <1>5 DEF NoticesInv

LEMMA UpdateMacKeepsNotices ==
  ASSUME NoticesInv, main # "crash", UpdateMac
  PROVE  NoticesInv'
  <1> /\ NoticesTypeOK /\ StartInv /\ ScanInv
      /\ CrashNeedsAnOldScan /\ RssiIsOfAScan /\ KeyIsOfANode
    BY DEF NoticesInv
  <1>1. /\ message_rsp \in Adverts
        /\ UNCHANGED <<scanning, messageCheckOpcodeList, reader, frameCount>>
    BY DEF UpdateMac
  <1>2. CASE main = "handler"
    <2>1. main' = "crash" /\ UNCHANGED <<message_rsp, handled>>
      BY <1>2 DEF UpdateMac
    <2>2. scanning /\ scans = 0
      BY <1>1, <1>2 DEF StartInv
    <2>3. NoticesTypeOK'
      BY <1>1, <2>1 DEF NoticesTypeOK
    <2>4. QED
      BY <1>1, <2>1, <2>2, <2>3
      DEF NoticesInv, StartInv, Waiting, ScanInv, CrashNeedsAnOldScan, RssiIsOfAScan,
          KeyIsOfANode
  <1>3. CASE main # "handler"
    <2> PICK match \in Match(message_rsp.mac) :
          /\ isMatchMac' = (isMatchMac \/ match)
          /\ rssi' = IF match THEN message_rsp.rssi ELSE rssi
          /\ seen' = IF match THEN message_rsp.mac ELSE seen
      BY <1>3 DEF UpdateMac
    <2>1. /\ raced' = (raced \/ writing # None) /\ message_rsp' = None
          /\ UNCHANGED <<main, deviceKey, node, overwritten>>
      BY <1>3 DEF UpdateMac
    <2>2. match \in BOOLEAN
      BY DEF Match
    <2>3. message_rsp.mac \in Macs /\ message_rsp.rssi \in Levels
      BY <1>1 DEF Adverts
    <2>4. isMatchMac' \in BOOLEAN /\ raced' \in BOOLEAN
      BY <2>1, <2>2 DEF NoticesTypeOK
    <2>5. NoticesTypeOK'
      BY <1>1, <2>1, <2>3, <2>4 DEF NoticesTypeOK
    <2>6. StartInv'
      BY <1>1, <2>1 DEF StartInv, Waiting, Frames
    <2>7. RssiIsOfAScan'
      <3>1. CASE match /\ ~raced'
        <4>1. writing = None
          BY <2>1, <3>1 DEF NoticesTypeOK
        <4>2. qr.mac = message_rsp.mac /\ qr.lower
          BY <3>1, <4>1 DEF Match
        <4>3. qr # NoMac
          BY <2>3, <4>2 DEF NoMac
        <4>4. qr = [mac |-> message_rsp.mac, lower |-> TRUE]
          BY <4>2, <4>3 DEF NoticesTypeOK, Spellings
        <4>5. qr \in scanned'
          BY <1>1, <4>3 DEF ScanInv
        <4>6. seen' = message_rsp.mac /\ seen' # None
          BY <2>3, <3>1
        <4>7. QED
          BY <4>4, <4>5, <4>6 DEF RssiIsOfAScan
      <3>2. CASE ~match
        <4>1. (isMatchMac' => isMatchMac) /\ seen' = seen /\ (~raced' => ~raced)
          BY <2>1, <3>2 DEF NoticesTypeOK
        <4>2. QED
          BY <1>1, <4>1 DEF RssiIsOfAScan
      <3>3. CASE raced'
        BY <3>3 DEF RssiIsOfAScan
      <3>4. QED
        BY <2>2, <3>1, <3>2, <3>3
    <2>8. ScanInv' /\ CrashNeedsAnOldScan' /\ KeyIsOfANode'
      BY <1>1, <2>1 DEF ScanInv, CrashNeedsAnOldScan, KeyIsOfANode
    <2>9. QED
      BY <2>5, <2>6, <2>7, <2>8 DEF NoticesInv
  <1>4. QED
    BY <1>2, <1>3

LEMMA HandlingKeepsNotices ==
  ASSUME NoticesInv, SendNodeInfo \/ Ignore
  PROVE  NoticesInv'
  <1> /\ NoticesTypeOK /\ StartInv /\ ScanInv
      /\ CrashNeedsAnOldScan /\ RssiIsOfAScan /\ KeyIsOfANode
    BY DEF NoticesInv
  <1>1. /\ message_rsp' = None
        /\ UNCHANGED <<main, scanning, messageCheckOpcodeList, isMatchMac, rssi, seen,
                       raced, reader, frameCount>>
    BY DEF SendNodeInfo, Ignore
  <1>2. /\ deviceKey' \in Keys \cup {None} /\ overwritten' \in BOOLEAN
        /\ KeyIsOfANode'
    <2>1. CASE SendNodeInfo
      <3>1. message_rsp.data \in Keys
        BY <2>1 DEF SendNodeInfo, ReportFrames, NodeInfos
      <3>2. CASE message_rsp \in ReportFrames
        <4>1. overwritten' = TRUE /\ deviceKey' = message_rsp.data
          BY <2>1, <3>2 DEF SendNodeInfo
        <4>2. QED
          BY <3>1, <4>1 DEF KeyIsOfANode
      <3>3. CASE message_rsp \notin ReportFrames
        <4>1. message_rsp \in NodeInfos
          BY <2>1, <3>3 DEF SendNodeInfo
        <4>2. deviceKey' = message_rsp.data /\ node' = message_rsp.data
          BY <2>1, <4>1 DEF SendNodeInfo
        <4>3. overwritten' \in BOOLEAN
          BY <2>1 DEF SendNodeInfo
        <4>4. QED
          BY <3>1, <4>2, <4>3 DEF KeyIsOfANode
      <3>4. QED
        BY <3>2, <3>3
    <2>2. CASE Ignore
      BY <2>2 DEF Ignore, NoticesTypeOK, KeyIsOfANode
    <2>3. QED
      BY <2>1, <2>2
  <1>3. NoticesTypeOK'
    BY <1>1, <1>2 DEF NoticesTypeOK
  <1>4. StartInv'
    BY <1>1 DEF StartInv, Waiting, Frames
  <1>5. ScanInv' /\ CrashNeedsAnOldScan' /\ RssiIsOfAScan'
    BY <1>1 DEF ScanInv, CrashNeedsAnOldScan, RssiIsOfAScan
  <1>6. QED
    BY <1>2, <1>3, <1>4, <1>5 DEF NoticesInv

\* The inductive invariant: before StopScan an advertisement under way comes
\* from a dongle that was scanning (main.cpp:55-94).
THEOREM NoticesInvariance == NoticesSpec => []NoticesInv
  <1>1. NoticesInit => NoticesInv
    BY NoticesInitially
  <1>2. NoticesInv /\ [NoticesNext]_noticesVars => NoticesInv'
    <2> SUFFICES ASSUME NoticesInv, [NoticesNext]_noticesVars PROVE NoticesInv'
      OBVIOUS
    <2>1. CASE StartReader \/ init \/ CreateQr \/ BleStopScan
      BY <2>1, MainKeepsNotices
    <2>2. CASE Queue \/ Scan \/ Assign \/ GetOpcodeExceptionMessage
      BY <2>2, QueueKeepsNotices, ScanKeepsNotices, TakeKeepsNotices
    <2>3. CASE CheckOpcodeException
      BY <2>3, UpdateMacKeepsNotices, HandlingKeepsNotices DEF CheckOpcodeException
    <2>4. CASE UNCHANGED noticesVars
      BY <2>4 DEF noticesVars, NoticesInv, NoticesTypeOK, StartInv, Waiting, ScanInv, CrashNeedsAnOldScan,
                  RssiIsOfAScan, KeyIsOfANode
    <2>5. QED
      BY <2>1, <2>2, <2>3, <2>4 DEF NoticesNext
  <1>3. QED
    BY <1>1, <1>2, PTL DEF NoticesSpec

\* Every variable keeps its type, and the list of notices its bound
\* (BleProtocol.cpp:408).
THEOREM NoticesTypeCorrectness == NoticesSpec => []NoticesTypeOK
  <1>1. NoticesInv => NoticesTypeOK
    BY DEF NoticesInv
  <1>2. QED
    BY <1>1, NoticesInvariance, PTL

\* The null pointer is met only if the dongle was scanning before the station
\* started (BleProtocol.cpp:298, main.cpp:58-62, 94).
THEOREM CrashesNeedAnOldScan == NoticesSpec => []CrashNeedsAnOldScan
  <1>1. NoticesInv => CrashNeedsAnOldScan
    BY DEF NoticesInv
  <1>2. QED
    BY <1>1, NoticesInvariance, PTL

\* The rssi kept is that of a product that was scanned, unless a mac was
\* compared while it was assigned (BleProtocol.cpp:294-302).
THEOREM RssiIsOfAProduct == NoticesSpec => []RssiIsOfAScan
  <1>1. NoticesInv => RssiIsOfAScan
    BY DEF NoticesInv
  <1>2. QED
    BY <1>1, NoticesInvariance, PTL
=============================================================================
