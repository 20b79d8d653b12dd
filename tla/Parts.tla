------------------------------- MODULE Parts -------------------------------
(***************************************************************************)
(* The parts of the gateway that share no state with another: Config, the  *)
(* log files, the button, the LEDs' locks, the pins, the two UARTs that    *)
(* are only read, and the lookup of topics.  A behaviour is one of one     *)
(* part, while the variables of the others stay off.  The constants are    *)
(* those of the parts.                                                     *)
(***************************************************************************)
EXTENDS Config, Sequences

CONSTANTS
  \* LogFiles
  Loggers, MaxDay, Other, DateOf, NoDate, Short, Nowhere, Gone,
  maxLogFileSize, maxNumLogFiles, Line,
  \* ButtonSignal
  DOUBLE_CLICK_TIME, Hold, Never, MaxTime, MaxPresses,
  \* ServiceLed and StationPins: threads of the station
  Handlers,
  Reader, MaxUses, MaxRestores,
  MaxHandled, MaxTests, MaxRestarts,
  \* RelayUart and QrScan
  RelayStreams, RELAY_BUFFER_SIZE, Slack, QrStreams, QR_BUFFER_SIZE,
  \* MqttTopic
  Filters, MaxFilters, Levels,
  Off   \* the value of what takes no part

VARIABLES
  part,
  day, files, open, doomed, removing, crashed, spared,
  now, down, pressedAt, held, presses, pending, base, stack, mtxWaitSendUart,
  pressTime, releaseTime, clickCount, isBlinkLed, dormitory, ended, done, wrong,
  inverted, overlapped, early,
  ledServiceCount, ledService, ledBle, ledPc, loaded, uses, started, restoring,
  restores, lost, ledCrossed,
  value, todo, running, test, passed, since, heard, crossed, handled, tests, pinExits,
  sent, arrived, taken, uart, len_one_read, rx_buf, d, rl, cut, paused,
  scanned, scanTaken, prod_num, prod_code, serial, mac, addr, startTest, block,
  actionCallbacks, topic, handler, topicCrashed

logVars == <<day, files, open, doomed, removing, crashed, spared>>
buttonVars ==
  <<now, down, pressedAt, held, presses, pending, base, stack, mtxWaitSendUart,
    pressTime, releaseTime, clickCount, isBlinkLed, dormitory, ended, done, wrong,
    inverted, overlapped, early>>
ledVars ==
  <<ledServiceCount, ledService, ledBle, ledPc, loaded, uses, started, restoring,
    restores, lost, ledCrossed>>
pinVars ==
  <<value, todo, running, test, passed, since, heard, crossed, handled, tests, pinExits>>
relayVars == <<sent, arrived, taken, uart, len_one_read, rx_buf, d, rl, cut, paused>>
qrVars == <<scanned, scanTaken, prod_num, prod_code, serial, mac, addr, startTest, block>>
topicVars == <<actionCallbacks, topic, handler, topicCrashed>>
-----------------------------------------------------------------------------
Log == INSTANCE LogFiles
Button == INSTANCE ButtonSignal
Led == INSTANCE ServiceLed WITH pc <- ledPc, crossed <- ledCrossed
Station == INSTANCE StationPins WITH MaxExits <- MaxRestarts, exits <- pinExits
Relay == INSTANCE RelayUart WITH
  Streams <- RelayStreams, BUFFER_SIZE <- RELAY_BUFFER_SIZE, stream <- sent, at <- uart
Qr == INSTANCE QrScan WITH
  Streams <- QrStreams, BUFFER_SIZE <- QR_BUFFER_SIZE, stream <- scanned,
  taken <- scanTaken
Topic == INSTANCE MqttTopic WITH crashed <- topicCrashed

ASSUME PartsAssumption ==
  /\ Log!LogFilesAssumption
  /\ Button!ButtonSignalAssumption
  /\ Led!ServiceLedAssumption
  /\ Station!StationPinsAssumption
  /\ Relay!RelayUartAssumption
  /\ Qr!QrScanAssumption
  /\ Topic!MqttTopicAssumption
-----------------------------------------------------------------------------
LogOff ==
  /\ day = Off /\ files = Off /\ open = Off /\ doomed = Off /\ removing = Off
  /\ crashed = Off /\ spared = Off
ButtonOff ==
  /\ now = Off /\ down = Off /\ pressedAt = Off /\ held = Off /\ presses = Off
  /\ pending = Off /\ base = Off /\ stack = Off /\ mtxWaitSendUart = Off
  /\ pressTime = Off /\ releaseTime = Off /\ clickCount = Off /\ isBlinkLed = Off
  /\ dormitory = Off /\ ended = Off /\ done = Off /\ wrong = Off
  /\ inverted = Off /\ overlapped = Off /\ early = Off
LedOff ==
  /\ ledServiceCount = Off /\ ledService = Off /\ ledBle = Off /\ ledPc = Off
  /\ loaded = Off /\ uses = Off /\ started = Off /\ restoring = Off
  /\ restores = Off /\ lost = Off /\ ledCrossed = Off
PinsOff ==
  /\ value = Off /\ todo = Off /\ running = Off /\ test = Off /\ passed = Off
  /\ since = Off /\ heard = Off /\ crossed = Off /\ handled = Off /\ tests = Off
  /\ pinExits = Off
RelayOff ==
  /\ sent = Off /\ arrived = Off /\ taken = Off /\ uart = Off /\ len_one_read = Off
  /\ rx_buf = Off /\ d = Off /\ rl = Off /\ cut = Off /\ paused = Off
QrOff ==
  /\ scanned = Off /\ scanTaken = Off /\ prod_num = Off /\ prod_code = Off
  /\ serial = Off /\ mac = Off /\ addr = Off /\ startTest = Off /\ block = Off
TopicOff ==
  /\ actionCallbacks = Off /\ topic = Off /\ handler = Off /\ topicCrashed = Off

Parts == {"config", "log", "button", "led", "pins", "relay", "qr", "topic"}

PartsInit ==
  /\ part \in Parts
  /\ Init
  /\ part # "config" => file = NoFile
  /\ IF part = "log" THEN Log!Init ELSE LogOff
  /\ IF part = "button" THEN Button!Init ELSE ButtonOff
  /\ IF part = "led" THEN Led!Init ELSE LedOff
  /\ IF part = "pins" THEN Station!Init ELSE PinsOff
  /\ IF part = "relay" THEN Relay!Init ELSE RelayOff
  /\ IF part = "qr" THEN Qr!Init ELSE QrOff
  /\ IF part = "topic" THEN Topic!Init ELSE TopicOff

PartsNext ==
  /\ UNCHANGED part
  /\ \/ /\ part = "config" /\ Next
        /\ UNCHANGED <<logVars, buttonVars, ledVars, pinVars, relayVars, qrVars, topicVars>>
     \/ /\ part = "log" /\ Log!Next
        /\ UNCHANGED <<vars, buttonVars, ledVars, pinVars, relayVars, qrVars, topicVars>>
     \/ /\ part = "button" /\ Button!Next
        /\ UNCHANGED <<vars, logVars, ledVars, pinVars, relayVars, qrVars, topicVars>>
     \/ /\ part = "led" /\ Led!Next
        /\ UNCHANGED <<vars, logVars, buttonVars, pinVars, relayVars, qrVars, topicVars>>
     \/ /\ part = "pins" /\ Station!Next
        /\ UNCHANGED <<vars, logVars, buttonVars, ledVars, relayVars, qrVars, topicVars>>
     \/ /\ part = "relay" /\ Relay!Next
        /\ UNCHANGED <<vars, logVars, buttonVars, ledVars, pinVars, qrVars, topicVars>>
     \/ /\ part = "qr" /\ Qr!Next
        /\ UNCHANGED <<vars, logVars, buttonVars, ledVars, pinVars, relayVars, topicVars>>
     \/ /\ part = "topic" /\ Topic!Next
        /\ UNCHANGED <<vars, logVars, buttonVars, ledVars, pinVars, relayVars, qrVars>>

partsVars ==
  <<part, vars, logVars, buttonVars, ledVars, pinVars, relayVars, qrVars, topicVars>>

PartsSpec == PartsInit /\ [][PartsNext]_partsVars
-----------------------------------------------------------------------------
(* What each part keeps, its types included.                               *)

\* A check of the log directory keeps the newest logs and leaves no more than
\* it should, and no log outgrows its limit by more than a line of each thread
\* (Log.cpp:117-127, 231-252).
LogsAreTrimmed ==
  [][part = "log" =>
       /\ Log!TypeOK /\ Log!SizeIsBounded
       /\ Log!KeepsNewest /\ Log!LeavesFew]_partsVars

\* What can go wrong with the button - a click that locks a thread against
\* itself, one that meets no object, one that does more than its hold asks for
\* - needs a click during the start, a quick one or two that overlap
\* (ButtonSignal.cpp:50-81, main.cpp:48-95).
ButtonFaultsNeedARace ==
  part = "button" =>
    /\ Button!TypeOK
    /\ Button!StuckNeedsARace /\ Button!CrashIsEarly /\ Button!ReleaseFitsHold

\* The service and the BLE LED are lit at rest unless two updates of the count
\* overlapped or a restore wrote back an old value (Util.cpp:413-434).
LedsOnAtRest ==
  part = "led" =>
    /\ Led!TypeOK
    /\ Led!CountIsHolders /\ Led!ServiceOnAtRest /\ Led!BleOnAtRest

\* The LEDs show verdict and connection, and the pins are at rest, whatever
\* messages, events, tests and exits met (Gateway.cpp:90-161,
\* gpioProtocol.cpp:172-259).
PinsShowTheState ==
  part = "pins" =>
    /\ Station!TypeOK
    /\ Station!DarkMeansFail /\ Station!VerdictShown
    /\ Station!WarningTellsTheFlag /\ Station!PinsAtRest

\* The relays shown are those of a frame of the board, and in the end of the
\* last one, whatever noise without a header came around it, unless a block was
\* cut, which needs a pause or a burst (RelayProtocol.cpp:62-65, Uart.cpp:159-176).
RelaysAreTheBoards ==
  part = "relay" =>
    /\ Relay!TypeOK
    /\ Relay!RelaysWereSent /\ Relay!LastFrameWins /\ Relay!CutNeedsAPause

\* A test is about one code that was scanned, and talks to an address a node
\* can have, however the UART cut the codes, but for short codes in one block
\* (QrProtocol.cpp:83-99, 171; Uart.cpp:174).
QrTestIsOfOneCode ==
  part = "qr" => Qr!TypeOK /\ Qr!TestIsOfOneCode /\ Qr!AddressIsUnicast

\* With the topics of the station no message crashes the process, each goes to
\* the callback whose subscription brought it, and an answer to the mobile that
\* asked (Mqtt.cpp:396-421, CloudProtocol.cpp:237).
TopicsFindTheirCallbacks ==
  part = "topic" => Topic!StationDispatches /\ Topic!AnswerFindsTheMobile
=============================================================================
