--------------------------- MODULE BleCommandTable ---------------------------
(***************************************************************************)
(* The commands of BleProtocol.cpp, lines 552 to 4372. Each of them fills  *)
(* a message, hands it to SendMessage with the answer to wait for, and     *)
(* judges the frame that came back. A record keeps of it                   *)
(*                                                                         *)
(*   waits   whether SendMessage is given an answer to wait for            *)
(*   hci     the HCI opcode of that answer                                 *)
(*   opcode  the mesh opcode of the answer, "e3" for the vendor's          *)
(*   header  the two bytes that say which vendor command is answered       *)
(*   reply   the header of the answer the device gives, which is not in    *)
(*           this code: the one the function waits for                     *)
(*   params  the parameters of the function                                *)
(*   filter  what OnMessage compares before it takes a frame for the answer*)
(*   check   what the function compares in the frame it got                *)
(*   shows   what an answer tells beyond the parameters of its request     *)
(*                                                                         *)
(* The layout of the messages is left out; so are the timeouts.            *)
(***************************************************************************)
EXTENDS FiniteSets

\* A request on the mesh, whose answer comes as HCI_GATEWAY_RSP_OP_CODE.
App(name, opcode, header, params, filter, check) ==
  [name |-> name, waits |-> TRUE, system |-> FALSE, hci |-> "RSP_OP_CODE", opcode |-> opcode,
   header |-> header, reply |-> header, params |-> params, filter |-> filter, check |-> check,
   shows |-> {}]

\* A request to the gateway's own BLE module.
System(name, hci, params, check) ==
  [App(name, "none", "none", params, {}, check) EXCEPT !.system = TRUE, !.hci = hci]

\* A request nobody waits for: SendMessage sleeps, and succeeds.
Blind(name, params) == [App(name, "none", "none", params, {}, {}) EXCEPT !.waits = FALSE]

\* A foundation or light command of the mesh standard: six bytes are compared.
Mesh(name, opcode, params, check) == App(name, opcode, "none", params, {"addr", "opcode"}, check)

\* A vendor command: OnMessage compares seven bytes, the function the header.
Config(name, header, params, check) ==
  App(name, "e3", header, params, {"addr", "opcode"}, {"header"} \cup check)

\* A vendor command whose function does not look at the frame.
ConfigUnread(name, header, params) == App(name, "e3", header, params, {"addr", "opcode"}, {})

-----------------------------------------------------------------------------
(* The gateway's module, and provisioning *)

GetNetKey   == System("GetNetKey", "PRO_STS_RSP", {}, {})
SetNetKey   == System("SetNetKey", "SEND_IVI", {}, {})
SetGwKey    == Blind("SetGwKey", {})
StartScan   == Blind("StartScan", {})
StopScan    == Blind("StopScan", {})
ResetBle    == Blind("ResetBle", {})
SelectMac   == Blind("SelectMac", {"mac"})
Provision   == System("Provision", "PROVISION_EVT", {"deviceAddr"}, {"ok"})
BindingAll  == System("BindingAll", "KEY_BIND_EVT", {}, {"ok"})
GetInfogw   == Blind("GetInfogw", {})
GetInfoMesh == System("GetInfoMesh", "PRO_STS_RSP", {}, {})

UpdateDeviceKeyDev     == Blind("UpdateDeviceKeyDev", {"key"})
UpdateDeviceKeyGateway == Blind("UpdateDeviceKeyGateway", {"key"})
UpdateNetKey == System("UpdateNetKey", "SEND_IVI", {"key"}, {})
UpdateDevKey == Blind("UpdateDevKey", {"key"})
UpdateAppKey == System("UpdateAppKey", "KEY_BIND_EVT", {"key"}, {})
UpdateMaxAddr == System("UpdateMaxAddr", "PROVISION_EVT", {"maxAddr"}, {})

\* The comparison starts at the opcode: the address is not in it, and the
\* lines that looked at it are commented out.
SetGwAddr == App("SetGwAddr", "e1", "0002", {"gwAddr"}, {"opcode", "header"}, {})

GetDeviceType ==
  App("GetDeviceType", "e1", "0003", {}, {"opcode", "header"}, {"addr", "opcode", "header"})

ResetDev    == Mesh("ResetDev", "804a", {}, {})
ResetDelAll == Blind("ResetDelAll", {})
GetTTL      == Mesh("GetTTL", "800e", {}, {"opcode"})

-----------------------------------------------------------------------------
(* Lights, groups and scenes of the mesh standard *)

SetOnOffLight(ack) ==
  IF ack THEN App("SetOnOffLight", "8204", "none", {"onoff", "transition"},
                  {"addr"}, {"opcode", "onoff"})
         ELSE Blind("SetOnOffLightNoAck", {"onoff", "transition"})
GetOnoffLight ==
  [Mesh("GetOnoffLight", "8204", {}, {"opcode"}) EXCEPT !.shows = {"onoff"}]
SetDimmingLight(ack) ==
  IF ack THEN Mesh("SetDimmingLight", "824e", {"dim", "transition"}, {"dim"})
         ELSE Blind("SetDimmingLightNoAck", {"dim", "transition"})
SetCctLight(ack) ==
  IF ack THEN Mesh("SetCctLight", "8266", {"cct", "transition"}, {"cct"})
         ELSE Blind("SetCctLightNoAck", {"cct", "transition"})
SetHSLLight(ack) ==
  IF ack THEN Mesh("SetHSLLight", "8278", {"h", "s", "l", "transition"}, {"h", "s", "l"})
         ELSE Blind("SetHSLLightNoAck", {"h", "s", "l", "transition"})
SetCctDimLight(ack) ==
  IF ack THEN Mesh("SetCctDimLight", "8260", {"cct", "dim", "transition"}, {"cct", "dim"})
         ELSE Blind("SetCctDimLightNoAck", {"cct", "dim", "transition"})

\* Three functions wait for 8252, and the first does not read its header.
LinearStatus(name, header, params, check) ==
  App(name, "8252", header, params, {"addr", "opcode"}, check)
SetLevelDim  == LinearStatus("SetLevelDim", "08", {"dimMax", "dimMin"}, {"opcode", "dimMax", "dimMin"})
CallModeRgb  == LinearStatus("CallModeRgb", "0919", {"modeRgb"}, {"header", "modeRgb"})
UpdateLights == LinearStatus("UpdateLights", "02", {}, {"header"})

AddDev2Group == Mesh("AddDev2Group", "801f", {"element", "group"}, {"element", "group"})
DelDev2Group == Mesh("DelDev2Group", "801f", {"element", "group"}, {})
AddDev2Room  == ConfigUnread("AddDev2Room", "0c0a", {"group", "scene"})
DelDev2Room  == ConfigUnread("DelDev2Room", "0d0a", {"room", "scene"})
SetSceneBle  == Mesh("SetSceneBle", "8245", {"scene", "modeRgb"}, {"scene"})
DelSceneBle  == Mesh("DelSceneBle", "8245", {"scene"}, {})
\* The sixth byte compared is not of the opcode 5e: it is the status, zero.
CallScene(ack) ==
  IF ack THEN App("CallScene", "5e", "none", {"scene", "transition"},
                  {"addr", "opcode", "ok"}, {"scene"})
         ELSE Blind("CallSceneNoAck", {"scene", "transition"})

-----------------------------------------------------------------------------
(* Scene switches and sensors *)

\* No answer is described and no buffer given: any frame of a device will do.
UpdateStatusSensorsPm == App("UpdateStatusSensorsPm", "e3", "e405", {}, {}, {})

SetSceneSwitchSceneDC ==
  Config("SetSceneSwitchSceneDC", "0102", {"button", "mode", "scene", "type"},
         {"button", "mode", "scene", "type"})
SetSceneSwitchSceneAC ==
  Config("SetSceneSwitchSceneAC", "0103", {"button", "mode", "scene", "type"},
         {"button", "mode", "scene", "type"})
DelSceneSwitchSceneDC ==
  Config("DelSceneSwitchSceneDC", "0202", {"button", "mode"}, {"button", "mode"})
DelSceneSwitchSceneAC ==
  Config("DelSceneSwitchSceneAC", "0203", {"button", "mode"}, {"button", "mode"})

SetScenePirLightSensor ==
  Config("SetScenePirLightSensor", "0145", {"condition", "scene"}, {"scene"})
DelScenePirLightSensor == Config("DelScenePirLightSensor", "0245", {"scene"}, {"scene"})
TimeActionPirLightSensor == Config("TimeActionPirLightSensor", "0345", {"time"}, {"time"})
SetModeActionPirLightSensor ==
  Config("SetModeActionPirLightSensor", "0445", {"mode"}, {"mode"})
SetSensiPirLightSensor == ConfigUnread("SetSensiPirLightSensor", "0545", {"sensi"})
SetDistanceSensor == ConfigUnread("SetDistanceSensor", "0745", {"distance"})
SetTimeRspSensor == ConfigUnread("SetTimeRspSensor", "0845", {"time"})

-----------------------------------------------------------------------------
(* Touch screens *)

SceneForScreenTouch ==
  Config("SceneForScreenTouch", "010a", {"scene", "icon", "type"}, {"scene", "icon"})
EditIconScreenTouch ==
  Config("EditIconScreenTouch", "070a", {"scene", "icon"}, {"scene", "icon"})
DelSceneScreenTouch == Config("DelSceneScreenTouch", "020a", {"scene"}, {"scene"})
DelAllScene == Config("DelAllScene", "0a0a", {}, {})
SendWeatherOutdoor ==
  Config("SendWeatherOutdoor", "050a", {"status", "temp"}, {"status", "temp"})
SendWeatherIndoor ==
  Config("SendWeatherIndoor", "030a", {"temp", "hum", "pm25"}, {"temp", "hum"})
SendDate ==
  Config("SendDate", "080a", {"years", "month", "date", "day"},
         {"years", "month", "date", "day"})
SendTime ==
  Config("SendTime", "090a", {"hours", "minute", "second"}, {"hours", "minute", "second"})
SetGroup == Config("SetGroup", "0b0a", {"group"}, {"group"})

-----------------------------------------------------------------------------
(* Curtains *)

\* The answer to a request 0011 comes with the header 0311 of a report; the
\* percentage is compared only when the type asks for one (Compared, below).
ControlOpenClosePausePercent ==
  Config("ControlOpenClosePausePercent", "0311", {"type", "percent"}, {"type"})
UpdateStatusCurtain ==
  [Config("UpdateStatusCurtain", "0311", {}, {}) EXCEPT !.shows = {"type", "percent"}]
ConfigMotor  == Config("ConfigMotor", "0511", {"typeMotor"}, {"typeMotor"})
CalibCurtain == Config("CalibCurtain", "0411", {"status"}, {"status"})
CalibAuto    == Config("CalibAuto", "0711", {"time"}, {"time"})
LockDevice   == Config("LockDevice", "0811", {"locked"}, {"locked"})
SetModeWifi  == Config("SetModeWifi", "0911", {"mode"}, {"mode"})

-----------------------------------------------------------------------------
(* Battery-less remotes, paired through a parent device *)

ScanStopSeftPowerRemote == ConfigUnread("ScanStopSeftPowerRemote", "0a0b", {"status"})
SaveSeftPowerRemote ==
  App("SaveSeftPowerRemote", "e3", "0d0b", {"mac", "childDev"},
      {"addr", "opcode", "header"}, {"mac", "ok"})
SetSceneSeftPowerRemote ==
  Config("SetSceneSeftPowerRemote", "0c0b", {"childDev", "button", "mode", "scene"}, {})
DelSceneSeftPowerRemote ==
  Config("DelSceneSeftPowerRemote", "0f0b", {"childDev", "button", "mode"}, {})
ResetSeftPowerRemote == Config("ResetSeftPowerRemote", "0e0b", {"childDev"}, {})

-----------------------------------------------------------------------------
(* Switches and input/output modules *)

ControlRgbSwitch == Config("ControlRgbSwitch", "050b", {"button", "colour"}, {"button"})
ControlRelayOfSwitch ==
  App("ControlRelayOfSwitch", "e3", "000b", {"relay", "value"}, {"addr"}, {})
SetIdCombine == Config("SetIdCombine", "060b", {"id"}, {"id"})
CountDownSwitch == Config("CountDownSwitch", "070b", {"status", "timer"}, {"status"})
\* The type chooses one of the headers 030e, 030d, 030c, 030b and 090b.
UpdateStatusRelaySwitch == ConfigUnread("UpdateStatusRelaySwitch", "090b", {})
ConfigStatusStartupSwitch == Config("ConfigStatusStartupSwitch", "100b", {"status"}, {"status"})
ConfigModeInputSwitchOnoff == Config("ConfigModeInputSwitchOnoff", "0012", {"mode"}, {"mode"})
ConfigModeInputModuleInOut ==
  Config("ConfigModeInputModuleInOut", "0315", {"index", "mode"}, {"mode"})
ConfigCombinInOutModuleInOut ==
  Config("ConfigCombinInOutModuleInOut", "0415", {"indexIn", "indexOut"}, {"indexIn", "indexOut"})
SetSceneModuleInOut ==
  Config("SetSceneModuleInOut", "0515", {"type", "scene", "indexIn", "status"}, {"type", "scene"})
ConfigDeltaADC == Config("ConfigDeltaADC", "0715", {"delta"}, {"delta"})
ConfigStatusStartupRelay ==
  Config("ConfigStatusStartupRelay", "0815", {"relay", "status"}, {"relay", "status"})

Request_Training == Blind("Request_Training", {"enable"})
Request_Pair_K9B == App("Request_Pair_K9B", "e3", "150b", {"button", "mac"}, {"addr"}, {})
resetWifiCTCU == App("resetWifiCTCU", "e1", "fffe", {}, {"addr"}, {})

-----------------------------------------------------------------------------
BlindCommands ==
  {SetGwKey, StartScan, StopScan, ResetBle, SelectMac, GetInfogw, UpdateDeviceKeyDev,
   UpdateDeviceKeyGateway, UpdateDevKey, ResetDelAll, Request_Training} \cup
  {SetOnOffLight(FALSE), SetDimmingLight(FALSE), SetCctLight(FALSE), SetHSLLight(FALSE),
   SetCctDimLight(FALSE), CallScene(FALSE)}

SystemCommands ==
  {GetNetKey, SetNetKey, Provision, BindingAll, GetInfoMesh, UpdateNetKey, UpdateAppKey,
   UpdateMaxAddr}

MeshCommands ==
  {ResetDev, GetTTL, SetOnOffLight(TRUE), GetOnoffLight, SetDimmingLight(TRUE),
   SetCctLight(TRUE), SetHSLLight(TRUE), SetCctDimLight(TRUE), SetLevelDim, CallModeRgb,
   UpdateLights, AddDev2Group, DelDev2Group, SetSceneBle, DelSceneBle, CallScene(TRUE)}

VendorCommands ==
  {SetGwAddr, GetDeviceType, AddDev2Room, DelDev2Room, UpdateStatusSensorsPm,
   SetSceneSwitchSceneDC, SetSceneSwitchSceneAC, DelSceneSwitchSceneDC, DelSceneSwitchSceneAC,
   SetScenePirLightSensor, DelScenePirLightSensor, TimeActionPirLightSensor,
   SetModeActionPirLightSensor, SetSensiPirLightSensor, SetDistanceSensor, SetTimeRspSensor,
   SceneForScreenTouch, EditIconScreenTouch, DelSceneScreenTouch, DelAllScene,
   SendWeatherOutdoor, SendWeatherIndoor, SendDate, SendTime, SetGroup,
   ControlOpenClosePausePercent, UpdateStatusCurtain, ConfigMotor, CalibCurtain, CalibAuto,
   LockDevice, SetModeWifi, ScanStopSeftPowerRemote, SaveSeftPowerRemote,
   SetSceneSeftPowerRemote, DelSceneSeftPowerRemote, ResetSeftPowerRemote, ControlRgbSwitch,
   ControlRelayOfSwitch, SetIdCombine, CountDownSwitch, UpdateStatusRelaySwitch,
   ConfigStatusStartupSwitch, ConfigModeInputSwitchOnoff, ConfigModeInputModuleInOut,
   ConfigCombinInOutModuleInOut, SetSceneModuleInOut, ConfigDeltaADC,
   ConfigStatusStartupRelay, Request_Pair_K9B, resetWifiCTCU}

Commands == BlindCommands \cup SystemCommands \cup MeshCommands \cup VendorCommands
=============================================================================
