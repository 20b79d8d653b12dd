----------------------------- MODULE BleCommands -----------------------------
(***************************************************************************)
(* One thread issues the commands of BleCommandTable to the devices of the *)
(* mesh and judges what comes back. The mesh is a soup of frames: a device *)
(* acts on a request some time after it was sent, or never, or again when  *)
(* the request was repeated; what it answered arrives at any later moment, *)
(* any number of times, or never, and devices report on their own. Nothing *)
(* in an answer says to which request it belongs.                          *)
(*                                                                         *)
(* SendMessage itself, with its callers, its polling and the UART thread,  *)
(* is the module BleLink; here it is one registration at a time.           *)
(***************************************************************************)
EXTENDS BleCommandTable, Naturals

CONSTANTS
  Devices,      \* unicast addresses
  Module,       \* the gateway's BLE module, which answers SYSTEM_REQ
  Values,       \* what a parameter may be
  PERCENT,      \* the type of curtain command that carries a percentage
  Used,         \* the commands that are issued
  NoFrame,      \* dataRsp before a frame is copied to it
  MaxCalls,     \* bound on the commands issued, and on them and the reports before
  MaxReports    \* bound on the frames devices send unasked, before the last call

ASSUME UsedAssumption == Used \subseteq Commands
ASSUME ValuesAssumption == {0, PERCENT} \subseteq Values

VARIABLES
  calls,        \* the requests issued so far
  state,        \* "none", "waiting", "CODE_OK" or "CODE_ERROR": the call
  req,          \* the request of the call
  heard,        \* what OnMessage copied to dataRsp
  sent,         \* the requests that left the gateway
  frames        \* the frames devices have sent

vars == <<calls, state, req, heard, sent, frames>>

\* The choices of parameters: all alike, or one unlike the others.
Arguments(c) ==
  {[p \in c.params |-> v] : v \in Values} \cup
  {[p \in c.params |-> IF p = q THEN PERCENT ELSE 0] : q \in c.params}

Target(c) == IF c.system THEN {Module} ELSE Devices

Request(c, d, a) == [cmd |-> c, dev |-> d, args |-> a]

\* The frames a device may answer a request with: "ok" is the status that
\* some answers carry, "re" the request and not part of the frame.
Answer(r, ok, told) ==
  [hci |-> r.cmd.hci, from |-> r.dev, opcode |-> r.cmd.opcode, header |-> r.cmd.reply,
   args |-> [p \in r.cmd.params \cup r.cmd.shows |->
               IF p \in r.cmd.params THEN r.args[p] ELSE told[p]],
   ok |-> ok, re |-> {r}]
\* The answers the code knows to carry a status; others are not given at all
\* by a device that refuses.
WithStatus ==
  {"Provision", "BindingAll", "UpdateAppKey", "UpdateMaxAddr", "CallScene",
   "SaveSeftPowerRemote", "SetSceneSeftPowerRemote", "DelSceneSeftPowerRemote",
   "ResetSeftPowerRemote"}

Answers(r) ==
  {Answer(r, ok, told) : ok \in IF r.cmd.name \in WithStatus THEN BOOLEAN ELSE {TRUE},
                         told \in [r.cmd.shows -> Values]}

\* A press of a battery-less remote, and a light switched by hand.
Reports(d) ==
  {[hci |-> "RSP_OP_CODE", from |-> d, opcode |-> "e3", header |-> "0b0b",
    args |-> [p \in {"button"} |-> v], ok |-> TRUE, re |-> {}] : v \in Values} \cup
  {[hci |-> "RSP_OP_CODE", from |-> d, opcode |-> "8204", header |-> "none",
    args |-> [p \in {"onoff"} |-> v], ok |-> TRUE, re |-> {}] : v \in Values}

-----------------------------------------------------------------------------
\* Whether frame f agrees with request r on a field that the frame has.
Same(f, r, field) ==
  CASE field = "addr"   -> f.from = r.dev
    [] field = "opcode" -> f.opcode = r.cmd.opcode
    [] field = "header" -> f.header = r.cmd.header
    [] field = "ok"     -> f.ok
    [] OTHER -> field \in DOMAIN f.args /\ f.args[field] = r.args[field]

\* A plausible bug: the comparison starts behind the address.
PassesAnyone(f, r) ==
  f.hci = r.cmd.hci /\ \A field \in r.cmd.filter \ {"addr"} : Same(f, r, field)

\* The comparison of OnMessage.
Passes(f, r) == f.hci = r.cmd.hci /\ \A field \in r.cmd.filter : Same(f, r, field)

\* The fields the function compares: the percentage only if the type has one.
Compared(r) ==
  IF "percent" \in r.cmd.params /\ r.args["type"] = PERCENT
  THEN r.cmd.check \cup {"percent"} ELSE r.cmd.check

\* A parameter that the frame does not carry is read from what dataRsp held
\* behind it: it may or may not agree.
Unwritten(f, r) ==
  Compared(r) \ ({"addr", "opcode", "header", "ok"} \cup DOMAIN f.args)

\* A plausible bug: the function trusts the comparison of OnMessage.
VerdictsUnread(f, r) == {"CODE_OK"}

Verdicts(f, r) ==
  IF \E field \in Compared(r) \ Unwritten(f, r) : ~Same(f, r, field) THEN {"CODE_ERROR"}
  ELSE IF Unwritten(f, r) # {} THEN {"CODE_OK", "CODE_ERROR"}
  ELSE {"CODE_OK"}

-----------------------------------------------------------------------------
Init ==
  /\ calls = 0
  /\ state = "none"
  /\ req = NoFrame
  /\ heard = NoFrame
  /\ sent = {}
  /\ frames = {}

\* A call is made after another one has returned.
Unasked == {f \in frames : f.re = {}}
Idle == state # "waiting" /\ calls < MaxCalls /\ calls + Cardinality(Unasked) < MaxCalls

\* A command that waits for no answer succeeds when it is sent.
Issue(c, d, a) ==
  /\ calls' = calls + 1
  /\ req' = Request(c, d, a)
  /\ sent' = sent \cup {Request(c, d, a)}
  /\ state' = IF c.waits THEN "waiting" ELSE "CODE_OK"
  /\ heard' = NoFrame
  /\ UNCHANGED frames

\* A key that is not 32 digits long is not sent.
RejectKey(c, a) ==
  /\ "key" \in c.params
  /\ \E d \in Target(c) : req' = Request(c, d, a)
  /\ calls' = calls + 1
  /\ state' = "CODE_ERROR"
  /\ heard' = NoFrame
  /\ UNCHANGED <<sent, frames>>

\* A device acts on a request, or refuses it, and answers.
Act(r) ==
  /\ r.cmd.waits
  /\ \E f \in Answers(r) : frames' = frames \cup {f}
  /\ UNCHANGED <<calls, state, req, heard, sent>>

Report(d) ==
  /\ calls < MaxCalls /\ Cardinality(Unasked) < MaxReports
  /\ \E f \in Reports(d) : frames' = frames \cup {f}
  /\ UNCHANGED <<calls, state, req, heard, sent>>

\* OnMessage, while a call waits: a later match is copied over the first.
Receive(f) ==
  /\ state = "waiting"
  /\ heard' = IF Passes(f, req) THEN f ELSE heard
  /\ UNCHANGED <<calls, state, req, sent, frames>>

\* SendMessage sees the status, and the function judges the frame.
Judge ==
  /\ state = "waiting"
  /\ heard # NoFrame
  /\ state' \in Verdicts(heard, req)
  /\ UNCHANGED <<calls, req, heard, sent, frames>>

Timeout ==
  /\ state = "waiting"
  /\ heard = NoFrame
  /\ state' = "CODE_ERROR"
  /\ UNCHANGED <<calls, req, heard, sent, frames>>

Next ==
  \/ Idle /\ \E c \in Used : \E d \in Target(c), a \in Arguments(c) : Issue(c, d, a)
  \/ Idle /\ \E c \in Used : \E a \in Arguments(c) : RejectKey(c, a)
  \/ \E r \in sent : Act(r)
  \/ \E d \in Devices : Report(d)
  \/ \E f \in frames : Receive(f)
  \/ Judge
  \/ Timeout

Spec == Init /\ [][Next]_vars

-----------------------------------------------------------------------------
(* Properties *)

\* The variables keep to their values, and dataRsp holds a frame that some
\* device sent and OnMessage compared with the request it is judged for.
TypeOK ==
  /\ calls \in 0..MaxCalls
  /\ state \in {"none", "waiting", "CODE_OK", "CODE_ERROR"}
  /\ heard # NoFrame => heard \in frames /\ Passes(heard, req)

\* The requests that devices have acted on.
Acted == UNION {f.re : f \in {g \in frames : g.ok}}

\* The commands whose success says nothing about the device, and why: a
\* frame of any device ends the call,
FromAnyone == {"SetGwAddr", "UpdateStatusSensorsPm"}
\* or any frame of the device, or of the device and of the vendor,
FromTheDevice ==
  {"ControlRelayOfSwitch", "Request_Pair_K9B", "resetWifiCTCU", "AddDev2Room",
   "DelDev2Room", "SetSensiPirLightSensor", "SetDistanceSensor", "SetTimeRspSensor",
   "ScanStopSeftPowerRemote", "UpdateStatusRelaySwitch"}
\* or the status in the answer, a refusal, is not read,
StatusUnread ==
  {"SetSceneSeftPowerRemote", "DelSceneSeftPowerRemote", "ResetSeftPowerRemote",
   "UpdateAppKey", "UpdateMaxAddr"}
\* or the answer to another command looks the same.
SharedAnswer ==
  {"GetNetKey", "GetInfoMesh", "SetNetKey", "UpdateNetKey", "Provision", "BindingAll",
   "AddDev2Group", "DelDev2Group", "SetSceneBle", "DelSceneBle", "SetOnOffLight",
   "GetOnoffLight", "SetLevelDim", "UpdateStatusCurtain", "ControlOpenClosePausePercent"}
Uncertain == FromAnyone \cup FromTheDevice \cup StatusUnread \cup SharedAnswer

\* Which they are: those whose answers differ in nothing the function looks
\* at, in the first of them at least.
Twins ==
  {{"GetNetKey", "GetInfoMesh"}, {"SetNetKey", "UpdateNetKey"}, {"Provision", "UpdateMaxAddr"},
   {"BindingAll", "UpdateAppKey"}, {"AddDev2Group", "DelDev2Group"},
   {"SetSceneBle", "DelSceneBle"}, {"GetOnoffLight", "SetOnOffLight"},
   {"SetLevelDim", "CallModeRgb", "UpdateLights"},
   {"UpdateStatusCurtain", "ControlOpenClosePausePercent"}}
MixesUp(b, c) == b = c \/ \E t \in Twins : {b, c} \subseteq t
\* A light switched by hand reports what it would answer to these.
LikeReports == {"GetOnoffLight", "SetOnOffLight"}

\* The parameters a success does not vouch for: no answer is compared on them.
Unsaid ==
  {<<c, "transition">> : c \in {"SetDimmingLight", "SetCctLight", "SetHSLLight",
                                "SetCctDimLight", "CallScene"}} \cup
  {<<"SetScenePirLightSensor", "condition">>, <<"SceneForScreenTouch", "type">>,
   <<"SendWeatherIndoor", "pm25">>, <<"SaveSeftPowerRemote", "childDev">>,
   <<"ControlRgbSwitch", "colour">>, <<"CountDownSwitch", "timer">>,
   <<"ConfigModeInputModuleInOut", "index">>, <<"SetSceneModuleInOut", "indexIn">>,
   <<"SetSceneModuleInOut", "status">>}

\* CODE_OK is true: a command that waits for its answer succeeds only if the
\* device addressed has acted on that command, now or after an earlier call,
\* with the same parameters, but for the commands and the parameters above
\* (lines 596 to 4372 of BleProtocol.cpp, OnMessage and SendMessage).
OkMeansDone ==
  state = "CODE_OK" /\ req.cmd.waits /\ req.cmd.name \notin Uncertain =>
    \E r \in Acted :
      /\ r.cmd.name = req.cmd.name
      /\ r.dev = req.dev
      /\ \A p \in req.cmd.params : <<req.cmd.name, p>> \in Unsaid \/ r.args[p] = req.args[p]

\* A success that another command's answer can end is no worse than that: the
\* device addressed has acted on the command or on one of its twins, or was
\* switched by hand, and what the frame tells of the parameters that the
\* function compares is what was asked (AddDev2Group and DelDev2Group, lines
\* 1443 to 1511; SetLevelDim, which compares bytes a twin's answer does not
\* have, line 1433; and the others of SharedAnswer).
MixedUpOnlyWithTwins ==
  LET Agrees(args) == \A p \in req.cmd.check \cap DOMAIN args : args[p] = req.args[p]
  IN  state = "CODE_OK" /\ req.cmd.waits /\ req.cmd.name \in SharedAnswer =>
        \/ \E r \in Acted :
             r.dev = req.dev /\ MixesUp(r.cmd.name, req.cmd.name) /\ Agrees(r.args)
        \/ /\ req.cmd.name \in LikeReports
           /\ \E f \in Unasked :
                f.from = req.dev /\ f.opcode = req.cmd.opcode /\ Agrees(f.args)
=============================================================================
