----------------------------- MODULE BleNotices -----------------------------
(***************************************************************************)
(* What the station does with the frames nobody waits for: the thread      *)
(* HandleOpcodeBle takes them from messageCheckOpcodeList, which           *)
(* BleProtocol::OnMessage fills (module BleLink), and CheckOpcodeException *)
(* looks at advertisements, reports and node infos.                        *)
(*                                                                         *)
(* It reads the mac that the QR reader writes, through a pointer that main *)
(* sets after the thread was started.  The dongle may be scanning when the *)
(* process starts: only main's last step stops it.                         *)
(***************************************************************************)
EXTENDS Integers, Sequences, FiniteSets

CONSTANTS
  Macs,       \* of products
  Levels,     \* rssi
  Keys,       \* what a node info, or the data of a report, holds
  Queue_Max,  \* BLE_CHECK_OPCODE_BUFFER_MAX_SIZE
  MaxFrames,  \* bound: frames of the dongle
  MaxScans,   \* bound: scans of a QR code
  None

Adverts == [opcode : {"UPDATE_MAC"}, mac : Macs, rssi : Levels]
ReportFrames == [opcode : {"RSP_OP_CODE"}, data : Keys]
NodeInfos == [opcode : {"SEND_NODE_INFO"}, data : Keys]
Others == [opcode : {"other"}]
Frames == Adverts \cup ReportFrames \cup NodeInfos \cup Others

\* A mac of a QR code is spelled in capitals or not.
Spellings == [mac : Macs, lower : BOOLEAN]
NoMac == [mac |-> None, lower |-> TRUE]

ASSUME BleNoticesAssumption ==
  /\ None \notin Macs \cup Levels \cup Keys
  /\ None \notin Frames /\ None \notin Spellings
  /\ Queue_Max \in Nat \ {0} /\ MaxScans \in Nat /\ MaxFrames \in Nat

VARIABLES
  main,         \* "ble", "reader", "handler", "qr", "run"; or "crash"
  scanning,     \* the dongle scans
  messageCheckOpcodeList,
  message_rsp,  \* the frame HandleOpcodeBle has taken, or None
  qr,           \* qrProtocol->mac
  writing,      \* the QR reader is assigning it: what it will be, or None
  isMatchMac, rssi, deviceKey,
  seen,         \* history: the mac whose rssi was taken
  scanned,      \* history: macs scanned
  raced,        \* history: a mac was compared while it was assigned
  node,         \* history: the last node info handled
  overwritten,  \* history: a report was handled after it
  frameCount, scans  \* how many there were

noticesVars ==
  <<main, scanning, messageCheckOpcodeList, message_rsp, qr, writing, isMatchMac, rssi,
    deviceKey, seen, scanned, raced, node, overwritten, frameCount, scans>>
handled == <<isMatchMac, rssi, deviceKey, seen, raced, node, overwritten>>
reader == <<qr, writing, scanned, scans>>

NoticesInit ==
  /\ main = "ble"
  /\ scanning \in BOOLEAN
  /\ messageCheckOpcodeList = <<>>
  /\ message_rsp = None
  /\ qr = NoMac /\ writing = None
  /\ isMatchMac = FALSE /\ rssi = None /\ deviceKey = None
  /\ seen = None /\ scanned = {} /\ raced = FALSE
  /\ node = None /\ overwritten = FALSE
  /\ frameCount = 0 /\ scans = 0
-----------------------------------------------------------------------------
(* main                                                                    *)

Goto(from, to) == main = from /\ main' = to

\* Uart::init, and the thread of BleProtocol::init
StartReader ==
  /\ Goto("ble", "reader")
  /\ UNCHANGED <<scanning, messageCheckOpcodeList, message_rsp, handled, reader, frameCount>>
init ==
  /\ Goto("reader", "handler")
  /\ UNCHANGED <<scanning, messageCheckOpcodeList, message_rsp, handled, reader, frameCount>>

\* qrProtocol = new QrProtocol
CreateQr ==
  /\ Goto("handler", "qr")
  /\ UNCHANGED <<scanning, messageCheckOpcodeList, message_rsp, handled, reader, frameCount>>

\* StopScan
BleStopScan ==
  /\ Goto("qr", "run")
  /\ scanning' = FALSE
  /\ UNCHANGED <<messageCheckOpcodeList, message_rsp, handled, reader, frameCount>>
-----------------------------------------------------------------------------
(* The other threads                                                       *)

\* The dongle sends a frame and OnMessage queues it, if there is room.
Queue ==
  /\ main \notin {"ble", "crash"}
  /\ frameCount < MaxFrames
  /\ frameCount' = frameCount + 1
  /\ \E f \in IF scanning THEN Frames ELSE Frames \ Adverts :
       messageCheckOpcodeList' =
         IF Len(messageCheckOpcodeList) < Queue_Max
           THEN Append(messageCheckOpcodeList, f) ELSE messageCheckOpcodeList
  /\ UNCHANGED <<main, scanning, message_rsp, handled, reader>>

\* QrProtocol::OnMessage begins to assign the mac ...
Scan ==
  /\ main \in {"qr", "run"}
  /\ writing = None /\ scans < MaxScans
  /\ scans' = scans + 1
  /\ writing' \in Spellings
  /\ UNCHANGED <<main, scanning, messageCheckOpcodeList, message_rsp, qr, scanned,
                 handled, frameCount>>

\* ... and has assigned it
Assign ==
  /\ main # "crash"
  /\ writing # None
  /\ qr' = writing
  /\ scanned' = scanned \cup {writing}
  /\ writing' = None
  /\ UNCHANGED <<main, scanning, messageCheckOpcodeList, message_rsp, scans, handled,
                 frameCount>>

\* A plausible bug: the frame taken is not erased from the list.
TakeAgain ==
  /\ main \in {"handler", "qr", "run"}
  /\ message_rsp = None
  /\ messageCheckOpcodeList # <<>>
  /\ message_rsp' = Head(messageCheckOpcodeList)
  /\ UNCHANGED <<main, scanning, messageCheckOpcodeList, handled, reader, frameCount>>

GetOpcodeExceptionMessage ==
  /\ main \in {"handler", "qr", "run"}
  /\ message_rsp = None
  /\ messageCheckOpcodeList # <<>>
  /\ message_rsp' = Head(messageCheckOpcodeList)
  /\ messageCheckOpcodeList' = Tail(messageCheckOpcodeList)
  /\ UNCHANGED <<main, scanning, handled, reader, frameCount>>
-----------------------------------------------------------------------------
(* CheckOpcodeException                                                    *)

\* The mac of the frame, reversed and in small letters, against the QR code's;
\* while that is being assigned, anything may come out.
Match(m) == IF writing = None THEN {qr.mac = m /\ qr.lower} ELSE BOOLEAN

\* A plausible bug: the pointer is read again before the rssi is kept, and a
\* reader that has no mac yet is taken for none.
UpdateMacWithoutMac ==
  /\ message_rsp \in Adverts
  /\ IF qr = NoMac
       THEN main' = "crash" /\ UNCHANGED <<message_rsp, handled>>
       ELSE /\ message_rsp' = None
            /\ UNCHANGED <<main, handled>>
  /\ UNCHANGED <<scanning, messageCheckOpcodeList, reader, frameCount>>

UpdateMac ==
  /\ message_rsp \in Adverts
  /\ IF main = "handler"   \* qrProtocol is NULL
       THEN main' = "crash" /\ UNCHANGED <<message_rsp, handled>>
       ELSE /\ \E match \in Match(message_rsp.mac) :
                 /\ isMatchMac' = (isMatchMac \/ match)
                 /\ rssi' = IF match THEN message_rsp.rssi ELSE rssi
                 /\ seen' = IF match THEN message_rsp.mac ELSE seen
            /\ raced' = (raced \/ writing # None)
            /\ message_rsp' = None
            /\ UNCHANGED <<main, deviceKey, node, overwritten>>
  /\ UNCHANGED <<scanning, messageCheckOpcodeList, reader, frameCount>>

\* The case of a report ends without a break: its data become the device key.
SendNodeInfo ==
  /\ message_rsp \in ReportFrames \cup NodeInfos
  /\ deviceKey' = message_rsp.data
  /\ node' = IF message_rsp \in NodeInfos THEN message_rsp.data ELSE node
  /\ overwritten' = (message_rsp \in ReportFrames)
  /\ message_rsp' = None
  /\ UNCHANGED <<main, scanning, messageCheckOpcodeList, isMatchMac, rssi, seen,
                 raced, reader, frameCount>>

Ignore ==
  /\ message_rsp \in Others
  /\ message_rsp' = None
  /\ UNCHANGED <<main, scanning, messageCheckOpcodeList, handled, reader, frameCount>>

CheckOpcodeException == main # "crash" /\ (UpdateMac \/ SendNodeInfo \/ Ignore)

NoticesNext ==
  \/ StartReader \/ init \/ CreateQr \/ BleStopScan
  \/ Queue \/ Scan \/ Assign
  \/ GetOpcodeExceptionMessage \/ CheckOpcodeException

NoticesSpec ==
  /\ NoticesInit /\ [][NoticesNext]_noticesVars
  /\ WF_noticesVars(GetOpcodeExceptionMessage) /\ WF_noticesVars(CheckOpcodeException)
-----------------------------------------------------------------------------
NoticesTypeOK ==
  /\ main \in {"ble", "reader", "handler", "qr", "run", "crash"}
  /\ messageCheckOpcodeList \in Seq(Frames)
  /\ Len(messageCheckOpcodeList) <= Queue_Max
  /\ message_rsp \in Frames \cup {None}
  /\ qr \in Spellings \cup {NoMac} /\ writing \in Spellings \cup {None}
  /\ rssi \in Levels \cup {None} /\ deviceKey \in Keys \cup {None}
  /\ scanning \in BOOLEAN /\ isMatchMac \in BOOLEAN
  /\ raced \in BOOLEAN /\ overwritten \in BOOLEAN

\* The null pointer is met only if the dongle was scanning before the station
\* started, and only before main has created the QR reader
\* (BleProtocol.cpp:298, main.cpp:58-62, 94).
CrashNeedsAnOldScan == main = "crash" => scanning /\ scans = 0

\* The rssi kept is that of a product that was scanned, now or before, and
\* whose mac its code spells in small letters, unless it was compared in the
\* middle of an assignment (BleProtocol.cpp:294-302, QrProtocol.cpp:100).
RssiIsOfAScan ==
  (isMatchMac /\ ~raced) =>
    seen # None /\ [mac |-> seen, lower |-> TRUE] \in scanned

\* The device key is that of the last node info, until a report overwrites it:
\* the case of a report has no break (BleProtocol.cpp:307-328).
KeyIsOfANode == overwritten \/ deviceKey = node

\* Every frame that was queued is handled, or the process is gone
\* (BleProtocol.cpp:77-90).
NoticesAreHandled ==
  (messageCheckOpcodeList # <<>> /\ main \notin {"ble", "reader"}) ~>
    (messageCheckOpcodeList = <<>> \/ main = "crash")
-----------------------------------------------------------------------------
(* The inductive invariant.                                                *)

Waiting == {messageCheckOpcodeList[i] : i \in 1 .. Len(messageCheckOpcodeList)}

StartInv ==
  /\ main \in {"ble", "reader", "handler"} => scans = 0 /\ writing = None
  /\ main # "run" /\ (Waiting \cup {message_rsp}) \cap Adverts # {} => scanning
ScanInv == qr = NoMac \/ qr \in scanned

\* What makes the properties above inductive: before StopScan an advertisement
\* under way comes from a dongle that was scanning (main.cpp:55-94).
NoticesInv ==
  /\ NoticesTypeOK /\ StartInv /\ ScanInv
  /\ CrashNeedsAnOldScan /\ RssiIsOfAScan /\ KeyIsOfANode
=============================================================================
