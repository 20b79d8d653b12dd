# Verification of the HC production-line test station

The program in `src/` is the firmware of a test station on a production line. A QR
scanner on a UART identifies a product (a BLE-mesh wall switch or a curtain
controller); the station drives the product through a BLE-mesh gateway on a second
UART, reads the product's relays back on GPIO lines, publishes a report over MQTT and
shows the verdict on two LEDs. This directory holds TLA+ modules of that program, the TLC
configurations that check them and proofs checked by TLAPS.

Line numbers below are those of the files under `src/`.

## 1. The system

### Threads

| thread | started at | runs |
|---|---|---|
| main | `main.cpp` | reads the configuration, starts the UARTs and the gateway, `StopScan`, `ResetBle`, then sleeps; runs the signal handlers SIGUSR1/SIGUSR2 |
| three UART readers | `uart/Uart.cpp` `HandleInMessage` | read a block of bytes, call `OnMessage` of `BleProtocol`, `QrProtocol` or `RelayProtocol` |
| BLE opcode handler | `BleProtocol.cpp:77` `HandleOpcodeBle` | takes one received frame every 100 ms from `messageCheckOpcodeList` |
| TestSwitch | `Gateway.cpp:493` | waits for `startTest` and the cloud connection, runs one test, reports, starts over |
| two MQTT loops | `mqtt/Mqtt.cpp` | mosquitto's thread for the local and the cloud client; each `on_connect`, `on_disconnect` and `on_message` starts a detached thread |

### Components

| component | state | operations | what makes it correct |
|---|---|---|---|
| BLE link (`BleProtocol::SendMessage`, `OnMessage`, `HandleOpcodeBle`) | `mtxWaitSendUart`, `messageRespList`, one stack record per call, `messageCheckOpcodeList` | send and wait for an answer; match a received frame against waiting calls; hand a copy to the asynchronous handler | one call at a time; CODE_OK comes with an answer to that command, and no call is written to after its return, but for races that can be named; nobody waits forever |
| BLE commands (about 70 methods of `BleProtocol`) | none beyond the link, the provisioning keys and addresses | one request each, with its own opcode, byte filter, timeout and check of the answer | CODE_OK means that the device that was addressed did what was asked, not another device, an earlier command or a late answer |
| Test procedure (`Gateway.cpp`) | check_res_on/off, checkRelayOn/Off, stt, stt_k9b, checkOnAll, ..., `startTest`, `check_connect_cloud` | the test of CTCU, CTCC and CTR products, the reports, the LEDs | the report and the LED agree with each other and with what the relays did; nothing of an earlier product is left in the verdict |
| QR scanner (`QrProtocol.cpp`, `Product.cpp`) | mac, addr, prod_num, prod_code, serial | parse a scan, start a test | the scanned product does not change under a running test; a rejected scan changes nothing |
| Cloud and local RPC (`CloudProtocol.cpp`, `LocalProtocol.cpp`) | `requestList`, `isBusy` | publish a request and wait; match responses by rqi | a response reaches the request it answers; what is written to a request that returned needs a race that can be named |
| MQTT client (`Mqtt.cpp`) | connection, subscriptions, callbacks by topic | connect, reconnect, dispatch a message to its callbacks | subscriptions survive a reconnect; a topic reaches the callbacks of its filter |
| Service LED lock, LEDs (`Util.cpp`, `gpioProtocol.cpp`) | a counter without a mutex | lock, unlock, blink | lock and unlock pair up |
| Button (`ButtonSignal.cpp`) | press time | SIGUSR1/2 handlers | a press of 5 s resets, no deadlock with the main thread |
| Configuration (`Config.cpp`), log (`Log.cpp`) | files | read once at the start; the setters and the removal of old logs have no caller | a setting that was set is read back after a restart |
| Devices (`Device.cpp`, `DeviceBle.cpp`, `Module.cpp`) | attribute map | push telemetry | not used by the test flow |
| Wi-Fi, AES, Base64, JSON | | vendored or unused | not modelled |

### Interactions

`TestSwitch` calls the BLE commands, which call `SendMessage`; answers come back through
the BLE reader. The QR reader writes the product into `qrProtocol` and raises the plain
bool `startTest`, which `TestSwitch` polls and lowers. The MQTT threads set
`check_connect_cloud`, which `TestSwitch` polls. `TestSwitch` publishes through the cloud
client. No lock protects any of these flags and fields.

### What is hard to test

A frame that arrives while a call times out; a late answer that passes the filter of the
next command; a scan during a test; what is left of the previous product when
the next one is tested; a disconnect that is handled after the reconnect that followed it;
a queue at its limit. `PROJECT.json` lists them line by line under "hazards".

## 2. Modules

### How the modules are checked

`PROJECT.json` lists twelve runs; the parts that share no state with another are put together in
`Parts` and explored by `MCParts`.

| run | configuration | question | properties |
|---|---|---|---|
| ble_link | `MCBleLink`, `BleLink.cfg` | what CODE_OK of `SendMessage` is worth while the reader walks the list without a lock | `AnswerSound`, `ReturnedBufferStable`, `ImplementsRequest` |
| ble_link_live | `MCBleLink`, `BleLinkLive.cfg` | does the mutex come back, does the reader get past every block | `HolderReturns`, `BlockConsumed` |
| ble_link_race | `MCBleLink`, `BleLinkRace.cfg` | expected violation: the reader holds a pointer into a call that returned | `NoUseAfterReturn` |
| commands | `MCBleAnswers`, `BleCommands.cfg` | which successes of the commands can be believed, and what the others still say | `OkMeansDone`, `MixedUpOnlyWithTwins` |
| station | `MCTestStation`, `TestStation.cfg` | is the verdict right, and the report the product's own | `ReportNamesScan`, `PassedWorks`, `WorkingPasses`, `VerdictIsReport` |
| station_live | `MCTestStation`, `TestStationLive.cfg` | are scans served, do tests end, is it a `TestBench` | `ScanServed`, `TestEnds`, `ImplementsBench` |
| mqtt_connection | `MCMqttConnection`, `MqttConnection.cfg` | what the flag, the LEDs, the subscriptions and a lost report say about the connection | `LedsAreRight`, `ReportReachesCloud`, `Resubscribed`, `ConnectionNoticed` |
| mqtt_subscribe | `MqttSubscribe`, `MqttSubscribe.cfg` | whose record an acknowledgement marks | `OkIsGranted`, `LateMarksAreRare`, `AllReturn` |
| rpc | `MCRpc`, `CloudRpc.cfg` | what CODE_OK of a remote call says, and what a response can still touch | `OkIsAnswered`, `CrashNeedsARace`, `CloudOkIsFinal`, `LocalDataAreLate`, `ImplementsRpcCall`, `CallsReturn` |
| rpc_server | `MCRpcServer`, `RpcServer.cfg` | what `isBusy` and the published answers say | `BusyTellsTheTruth`, `RequestsEnd` |
| ble_notices | `BleNotices`, `BleNotices.cfg` | what becomes of frames nobody waits for, and when a null pointer is met | `CrashNeedsAnOldScan`, `NoticesAreHandled` |
| parts | `MCParts`, `Parts.cfg` | configuration, logs, button, LEDs, pins, relay board, scanner, topics | `TrueMeansStored`, `DeadNeedsATornWrite`, `LogsAreTrimmed`, `ButtonFaultsNeedARace`, `LedsOnAtRest`, `PinsShowTheState`, `RelaysAreTheBoards`, `QrTestIsOfOneCode`, `TopicsFindTheirCallbacks` |

An operator marked "a plausible bug" is a changed version of the definition that follows it, and is
used nowhere in the specifications: put in its place, it makes the property that watches that
code fail. Deadlock is not checked where the program may stop for good: a process that ended, requests that
have all been answered, or a bound that has been reached.

### BleLink: SendMessage, OnMessage, HandleOpcodeBle

Each thread that calls `SendMessage` has a program counter: `Call` (wait for the mutex),
`Lock` (take it, initialise the entry), `Register` (push_back), `Write`, `Poll` (the
1 ms loop ends, by an answer or by the timeout, which is a nondeterministic choice), `Erase`, `Return`,
and `Sleep` for commands without an answer. The reader has its own steps: `Receive` a block,
`SkipDuplicate`, `DropTruncated`, `BeginWalk`, `Compare`, `SetStatus`, `CopyAnswer`,
`QueueFrame`, `EndBlock`. The range-for evaluates begin and end once, at `BeginWalk`, and takes no lock, so any step
of a caller may come between.

The list never holds more than one entry, so a walk visits one slot of the vector or none. The loop variable is a
reference to that slot (`auto &messageResp`): `Compare`, `SetStatus` and `CopyAnswer` go each to what the slot holds by then, or to
what an earlier access read, as the compiler pleases. `pointers` is the set of callers whose entry that can be: the one that
`BeginWalk` found, and every one that registers before the visit ends. So a frame may be compared with the filter of one
call, and its status and bytes be given to the next one, which is alive and never asked for it.

An entry lives in the stack frame of its call. A call that returns under a visit joins `dead`; what is read
through its entry from then on is indeterminate, and what is written may hit the
next call of the same thread, or nothing. `torn` remembers which
thread's last call registered or returned under a visit, or began in a frame in `dead`, and the positive properties are about the calls that
are not torn: nothing that a visit of another entry does late reaches them. They are not empty: in the runs most behaviours tear nothing.

Frames are an opcode and a body; a command's `compare_data` is the set of bodies
that pass it. The scan for magic bytes and the bytes of a frame cut by the end of a block are
not modelled beyond the frame being lost.

`BleRequest` is the abstract specification: one request at a time, ended by an error, by an answer, or
torn. `ImplementsRequest` is the refinement.

Bounds: 2 threads, 2 commands (with and without an answer), 2 opcodes, 2 bodies, a queue of 1, and as blocks (`MCBlocks`) every frame
by itself and two blocks of three; for liveness 1 opcode and a command that waits.
Two threads suffice for every conflict between a holder and a thread that waits, and for a slot that changes hands under a visit; a block of three
frames is the smallest with a skipped repetition, because the duplicate test
reads two bytes past its frame, the length of the frame behind.

Left out: the allocation of the vector's memory by the first `push_back` of the program, if a walk evaluates begin and end around
it. What an answer was sent for is not in it: a late answer that passes the filter of the next call is that call's answer here, as it is
in the code, and `BleCommands` says what this means for each command.

Fairness (`FairSpec`): a thread inside the critical section keeps running (it
waits for nothing but a timeout), the reader ends the block it has begun, and
HandleOpcodeBle keeps polling. Nothing is assumed about who gets the mutex or about the gateway
answering.

### BleCommandTable, BleCommands, BleAnswers: about seventy commands, one request each

A command function of `BleProtocol` builds a message, calls `SendMessage` with an opcode, a byte
filter and a timeout, and compares some bytes of the answer. `BleCommandTable` has one
definition per function, named after it: a record of what it waits for, which of the answer's address, header and
parameters `OnMessage` compares (`filter`) and which the function compares itself (`check`).

`BleCommands` runs any of them one after another against a mesh that is a set of frames: a
device acts on a request it may or may not hear, any number of times and however late, and a frame once sent may be received
at any time; a device may also report on its own. There are no queues to bound, and every loss, delay, reordering and repetition is
a behaviour. What `OnMessage` compares is decided at `Receive`, what the function compares at
`Judge`, on the frame that was copied last; bytes of `dataRsp` that a short frame did not write are
indeterminate.

`OkMeansDone` is the main property: a command that returned CODE_OK was acted on, by the
device and with the parameters it names. Many commands promise less. The property leaves out those of
the first four lists, and the parameters of the fifth:

| list | what its CODE_OK does not say |
|---|---|
| `FromAnyone` | that the addressed device answered |
| `FromTheDevice` | that it answered this command and not an earlier one |
| `StatusUnread` | that the device accepted |
| `SharedAnswer` | which of several commands with the same answer was done |
| `Unsaid` | that a parameter was the one asked for |

`MixedUpOnlyWithTwins` says how far the fourth list goes. `Twins` names the commands that can be taken for one another:
a late answer to `AddDev2Group` ends a `DelDev2Group` with success, and `SetLevelDim` compares bytes that the answers of
`CallModeRgb` and `UpdateLights` do not have. Such a success still means that the device addressed acted on the command or
on a twin, or was switched by hand, and what the frame tells of the compared parameters is what was asked.

`BleAnswers` states what these rest on: assumptions about the table, a constant of the program, which TLC
evaluates (`TableAssumption`: a command outside the lists shares its answer with no other command and no
report, and reads address, status and parameters; one of the fourth list shares it with its twins only), and the
inductive invariant.

Bounds: two commands in a row, or one among two reports, of all the commands, with 2 devices and 2 values of each parameter.
Two calls are enough because a call's outcome depends on frames, not on what the caller did
before; two devices and two values give one right and one wrong candidate. Headers and statuses of the answers
are those that `BleProtocol` itself names; what a device sends is not in this repository and is marked external.

### TestStation: Gateway.cpp, QrProtocol.cpp

The state has the names of the code: `prod_code`, `mac`, `addr`, `startTest`,
`check_connect_cloud`, and `check`, which gathers the result globals `check_res_on`, `check_res_off`, `checkRelayOn`, ..., `stt_k9b`.
`prod_num` and `serial` are written together with `prod_code` and go with it.

- The QR reader: `BeginScan` (the length is right and `startTest` is down), `WriteFields`, `WriteMac`,
  `RaiseStart`: `OnMessage` write by write, so that a poll or a scan can come between.
- TestSwitch: `StartTest` or `DropProduct`, `Prepare`, then for a switch `ClearAll`, one `TurnOn` per output,
  `ReadOn`, one `TurnOff` per output, `ReadOff`, `AllOn`, `AllOff`, `PairCtcu`, `ReadLast`, `ResetWifi`,
  and for a curtain controller one `Press` per output, `PairCtr`, one `WatchRemote` per output; then
  `Publish`, `ShowVerdict`, `EndTest`.
- The cloud: `OnCloudConnect` at any time.
- The bench: a product is on it from `RaiseStart` on, with its outputs in any position, and each
  of them sound, stuck high or stuck low.

A command is executed or not, answered in time or not, and its answer may stay under way
(`stale`), where the next command to the address takes it for its own: the byte filter of
`ControlRelayOfSwitch` and `Request_Pair_K9B` is the address alone. So `check_res_on` can be set by the
answer to an earlier command; `PassedWorks` holds all the same, because the pins are read.

`TestBench` is the abstract specification: accept a scan, judge it at most once and pass it only if
it works, free the bench.

Bounds: for safety a switch of 2 and one of 1 outputs, a CTR, an untestable product, one mac, at most one faulty output;
for liveness and the refinement the single switch, the CTR and a code not in `product_map`, with two macs of one address.
Two outputs are the fewest with "this one and not that one", and a single output is wired to another pin
(`Pin`). Faults of two outputs at once only add causes to fail.

What these runs do not promise, because the code does not:

- `start_process` clears `check_res_on` twice and `check_res_off` never (`Gateway.cpp:484`). The
  reading of the pins is what keeps an answer of the last product from passing this one.
- A curtain controller that leaves a command unanswered is not failed for it (`Gateway.cpp:379`): success
  with `"open": false` in the report. `VerdictIsReport` says what holds instead.
- An output that is always high looks like a pulse to the test of a curtain controller, and two
  outputs wired to each other's relay pass the loops of a switch, which read all pins after all commands.
  `Works` is what the test can tell.

Fairness (`FairSpec`): the QR reader finishes the scan it has begun, and TestSwitch goes on;
each of its waits is a bounded sleep or a command with a timeout. The cloud is not assumed to connect.

### MqttConnection: connection events and their threads

`Connect`, `on_connect`, `on_disconnect` and `on_message` run on mosquitto's thread, one at a time; what
they start runs on `threads`, detached, one assignment per step: `OnCloudConnect` writes the flag and two LEDs,
`SubscribeList` subscribes topic by topic, a message's handler blinks the LED. `on_connect` ignores its
reason code, so a refused connection (`broker = "refused"`) raises everything too. The session is clean: a new connection has no
subscription. The test thread reads `check_connect_cloud`, publishes (`CloudPublish`, lost if the connection is gone) and shows its
verdict on the LED that the others drive.

`LedsAreRight`: at rest the flag and the LEDs show the connection, unless the last event's thread met
another one (`alone`), and the verdict can be read off GPIO 17 whoever drove the other LED. `ReportReachesCloud`: a
report is lost only if an event came during the test or before the flag had settled. That the station registers a topic
at all is assumed, as a `SubscribeList` thread starts at the first. `Resubscribed` and
`ConnectionNoticed`: a connection that holds at last has every topic and lets a test begin.

Bounds: 3 connection events, 1 message, 1 test, 2 topics of which one's handler blinks. Three events are a connection, its
loss and the next connection, so that threads of three can overlap. Fairness: the start goes on and every detached thread
runs to its end; the broker need not come. That threads can be created is taken for granted.

### MqttSubscribe: Subscribe, Unsubscribe and their acknowledgements

A call takes the mutex and puts its record, on its stack, in a list (`Begin`); it sends the request and sets the
record's number in two steps (`Send`, `Request`), polls, and repeats the request under a new number (`Repeat`); after the
last repetition it does not look again. The acknowledgement of a number comes at any time after its request, or never, on
mosquitto's thread, which takes no lock. `SubscribeList` sends requests that no record waits for.

The range-for of `on_subscribe` holds a reference to the slot of the list and reads the pointer through it to compare
(`Match`, `Mismatch`) and again to mark (`setState`), so the handler's steps are apart and `slot` is read in each; where
the build keeps the pointer in a register the mark goes to the record that matched, and the model allows both. A list
never has more than one record (`OneWaits`), and the slot keeps the last pointer after the record left. The number of a
record that has none yet, or whose call returned, is `Unset`: it reads as anything. A mark of a call that returned falls
on its thread's stack (`Callers` are the threads), where the record of the thread's next call may be.

So CODE_OK is not always the broker's word: `OkIsGranted` names the two ways out, an answer to another number that matched
the record (`stray`), and a call that began while a handler was at an earlier record (`torn`). `LateMarksAreRare`: a call
that returned CODE_OK is written to only in these cases or if it had more than one request. The names of the module
(`SubInit`, `SubNext`, `FairSubSpec`, ...) are apart from those of `MqttConnection`, so that `MqttProofs` can be about both.

Bounds: two Subscribes and an Unsubscribe, so that a record can follow another in the same slot and on the same stack; two
repetitions (the code has more, each like the second), and four requests in all with those of `SubscribeList`: after them
mosquitto refuses, as it may at any time. Fairness: a call keeps running. In this build nothing calls them while
connected: the model is of what the class offers.

### MqttTopic: which callback gets a message

A topic is the sequence of its levels. `splitString` drops the empty ones; `checkMqttTopic` compares level by level, with the
unchecked `at(i)` that its guard lets through (`Verdict`, "out_of_range"); the first registered topic that matches
gets the message. `NoLevel` is the empty level. `Matches` is the broker's rule and decides what arrives. `TopicsFindTheirCallbacks`: with the station's
five topics in any order, and any level, empty ones too, in place of a "+", no message crashes the process, each goes to the callback
whose subscription brought it, and the level that names the sender is in its place. It holds because of what `MqttTopicAssumption`
says of the station's topics: no "#", and none hides in another (`Apart`). A registered `a/b` beside `a/b/c` would crash.

### RpcCalls, CloudRpc, LocalRpc, RpcCall: requests to cloud and mobiles

`RpcCalls` has what the two protocols share: `Register` a pointer to a record of the caller's frame under an rqi, which is the
second it was made in (`genRandRQI`) with the map it is in (`Side`), `Publish`, `Poll`, `Judge`, `Erase`; and the steps of a handler's
thread, `Find` the rqi, `Look` it up again with operator[], `Compare` the command. `CloudRpc` then copies the data and raises the
status, `LocalRpc` the other way round. An answer has an object "data" or none: without one nothing is copied and the status is raised
all the same. A handler whose entry was erased between `Find` and `Look` meets a null pointer. Every access of
the map is a step; that a race may corrupt the `std::map` itself is not modelled.

A thread makes its calls one after the other (`Free`), to the local broker and then to the cloud in `Device::PushTelemetry`, and a
record may lie where that of an earlier call lay (`Reused`): a handler that still points to the earlier one raises the status of the
later, or copies data into its place, or hits nothing that matters. The records of JSON requests to the two sides begin alike; what a
handler of a binary transfer, which has no caller, overwrites in a record of the other kind is not followed. `torn` collects the calls
that began with such a handler about.

`OkIsAnswered`: CODE_OK means that an answer came; if the call is not torn, to its command; and to this call unless its rqi was shared.
`CloudOkIsFinal`: nothing touches the frame of an undisturbed call that returned CODE_OK; the data of the answer that ended it are
there; and data in a caller's place are its own, when it returned CODE_ERROR as well (`DataAreOwn`). `LocalDataAreLate`: data may
come after the return, but the handler copies them, or finds the frame gone. `CrashNeedsARace` asks for a call that was published and has
returned, and that gave up, shared its rqi or was answered twice. A call that times out is written to after its return: the properties
bound what that does, they do not deny it. `RpcCall` is the abstract specification: a call is refused, or waits, and ends with CODE_OK
exactly if its status was raised while it waited. `OnMobileResp` is `OnServerResp` on another topic; `OnServerBinResp` compares no
command, and copies as many bytes as fit. `Rpc` puts the two protocols together, over the same threads.

Bounds (`MCRpc`): two requests of two threads, to the cloud or on the local broker, in one second or two; a request and a binary transfer
out of one thread, the request answered twice; one to each side of one thread; a binary transfer beside another; and a local request
answered twice. A wait is one poll; the station waits none. Two calls are what it takes to share an rqi or a frame. Fairness: calling
threads keep running.

### RpcServer: requests to the station

`OnServerReq`, `OnMobileReq` and `OnLocalReq`, each request on a thread of its own: `Parse`, `Lock` (not the server's),
`Callback` with any result, `Unlock`, `Clear` of `isBusy`, `Answer` and `End` as the branches of each handler have it, an exit among
them. The commands are registered before `Start`. In this build the registrations are commented out
(`Gateway.cpp:67-72`): the module is of the interface that is there, and a request for an unknown command is among its behaviours.

`BusyTellsTheTruth`: a busy protocol has a command under way, and if it denies it, each of those ran beside another that
ended first (`met`, a history). `RequestsEnd`: no failed command keeps the mutex. Proved, and not run: `AnswersTellTheTruth`, how often a request was answered agrees with
what its callback returned. Bounds: the server and two mobiles, or a mobile and two
on the local broker, one command, arrays of up to 2. Fairness: threads run on and callbacks return.

### BleNotices: frames that no call waits for

`HandleOpcodeBle` takes frames from the bounded list (`Queue`, `GetOpcodeExceptionMessage`) and `CheckOpcodeException` looks at three kinds: an advertisement
(compared with the QR code's mac, through a pointer that main sets after the thread was started), a
report and a node info, whose case the report's falls into. main's start is a sequence of steps, `StopScan` the last. `CrashNeedsAnOldScan`: the null
pointer is met only if the dongle was scanning before the process started. `NoticesAreHandled`: what is in the list is handled.
`RssiIsOfAScan` and `KeyIsOfANode` are part of the invariant. The mac may be compared while the QR reader assigns it: any outcome. Bounds: a list of 2, four frames, two scans, two macs; four
frames overfill the list and leave one to be handled. Fairness: the handler's thread runs.

### Parts: what shares no state

Each part is a module of its own, instantiated by `Parts`; a behaviour follows one of them, while the variables of the others are
`Off`. `MCParts` gives the constants their values.

**Config**: `ReadConfig` and a setter step by step: `OpenFile` reads the document, `set_config_entry` changes an entry of the copy, `Truncate`,
`Write`; `Exit` at any moment, and a start after it. An empty file is `Broken`, and the parser throws: nothing catches it. Integers are set in a copy of
a copy, so they never change. The setters have no caller here, and `SetKeepAlive` changes nothing. Two callers, three calls and two exits give a lost
update, a torn write and the start after it; at first the file is whole, though entries may be missing or of another type.
`TrueMeansStored` holds with setters overlapping and writes failing: the histories `written` and `undone` name the values that are lost, those whose own
write failed and those that a setter which had read the file before wrote over with its document. Those
losses are the code's, which locks nothing and looks at no result; the property says that there is no other.

**LogFiles**: `log_write` as look, open and append; `checkLogFile` as a reading of the directory (`TooOld`) and one `Remove` per file, while the clock
jumps. It has no caller; the module says what it would do. A log may outgrow its limit by a line of each thread. Two threads, four days, two files to be kept, other files beside them.

**ButtonSignal**: the handlers of SIGUSR1 and SIGUSR2 as frames on a thread's stack, over what the thread was doing: `main`, the
start, `StopScan` under `mtxWaitSendUart`, or a command of another thread ("test" stands for them all). A signal blocks itself only. A
process-directed signal goes to the main thread first. `ButtonFaultsNeedARace`: a release that meets no object and a main
thread locked against itself need a click during the start, another thread locked against itself two clicks that overlap, and a release that
does more than its hold asks for a quick or an overlapping one. Two clicks, nine moments: enough for each hold and for a second click within the time of the first.

**ServiceLed**: `++` and `--` as a load and a store by the reader and two MQTT threads, `LedRestoreLastValue` from the button. One message each.

**StationPins**: the files of sysfs, and for each thread the assignments it has left; two tests, three events, messages or releases, one
exit, after which main starts again on the pins as they are. Each "out" makes a pin low, as the kernel documents it.

**RelayUart**: `HandleInMessage` read by read, and `RelayProtocol::OnMessage` position by position, on streams of frames and noise. The buffer
takes 24 bytes with 6 to spare, so that bursts overflow it. The thread is the one every UART has. `RelaysAreTheBoards` is about
streams whose noise holds no header (`NoiseHasNoHeader`): one stream of the run ends its noise in one, and nothing is promised of what is then
shown.

**QrScan**: codes of the real length, and of others, in blocks that end at any byte. No mac holds a sign or
an x, which strtol would take, and no code holds a CR before its end.

## 3. Proofs

Every theorem holds for all values of the constants that satisfy the module's named assumption. In each proof
module a theorem `Invariance` (or `LedInvariance`, `QrInvariance` and so on, where the module is about several parts) proves an
inductive invariant, `IInv` (`SubInv`, `NoticesInv`), defined at the end of the module proved about, or
in `BleAnswers`, step by step: one lemma per action or per conjunct. The other theorems follow from it.
Every safety property that a passing run checks is a theorem.

| module | theorems about the runs' properties | what else `IInv` says, and why it is needed |
|---|---|---|
| `BleLinkProofs` | `AnswersAreSound`, `BuffersStayStable`, `LinkImplementsRequest` | `MutexInv`, `ListInv`: `pc`, the mutex and the list agree, so that the list holds only the holder's entry (`ListBelongsToHolder`). `PointerInv`: where a visit can lead, and that it leads to a call that is not torn alone. `AnswerInv`: status is set only for an entry whose answer is there or being copied |
| `TestStationProofs` | `ReportsNameScans`, `PassedProductsWork`, `WorkingProductsPass`, `VerdictsAreReports`, `StationImplementsBench` | `ScanInv`: how much of a scan the fields hold. `ProductInv`: a test is on `product_map[prod_code]`. `ReadingInv`: while `err` is 1, the readings made so far exclude a fault; it carries what was read at `ReadOn` to the verdict. `VerdictInv`, `ReportInv`: `err` is the conjunction of the checks made so far, and they are what is reported. `CleanInv`: where the outputs of a sound product are while every command is clean |
| `BleMeshProofs`, of `BleCommands` | `SuccessIsTrue`, `MixedUpOnlyWithTwinsAlways` | `Origins`: every frame answers a request that was sent, or is a report. `JudgedFits`: a frame judged CODE_OK agrees with its request in every field that is looked at and that it has |
| `RpcProofs` | `OkIsAnsweredAlways`, `CrashNeedsARaceAlways`, `CloudOkIsFinalAlways`, `LocalDataAreLateAlways`, `Refinement` | for both sides: `ListPointsToCalls`: the map points to calls that wait (`PointersLive`). `KeyInv`: what a call's rqi is. `EntryInv`: why the entry of a call that waits can be missing. `HandlerInv`, `NumberInv`: what a handler may write to, and that each answer has one. `ThreadInv`: a thread is in one call, and handlers that point to an earlier one were there when it began. `StatusInv`: a raised status has its answer. `SpentInv`: the one answer to a call that is alone is spent when it has raised the status; `StrayInv`: another raises it only after a race. `DeadInv`, `DataInv`: which frames are touched after their call, and where the data are meanwhile |
| `RpcServerProofs` | `BusyIsTrue`, `AnswersAreTrue` | `StartedInv`, `KnownInv`: only registered commands get past the search. `MetInv`: requests under way together have met. `MutexInv`: who holds a mutex (`MobilesExclude`: two commands of one protocol run side by side only if the server asked for one). `AnswerInv`: only the last steps publish |
| `MqttProofs`, of `MqttConnection` | `LedsAreRightAlways`, `ReportReachesCloudAlways` | `ThreadInv`: how far each detached thread can be, and that names are given once. `BrokerInv`: what the broker's side says of the events so far. `ShownInv`: when the last event met no other thread, all that still write, write the connection, each place when its turn comes; so it is right once they have ended. `VerdictInv`: the halves of the verdict, one per LED and writer. `UndisturbedInv`: a test no event came into has its connection |
| `MqttProofs`, of `MqttSubscribe` | `OkIsGrantedAlways`, `LateMarksAreRareAlways` | `HolderInv`: the holder of the mutex has the one record in the lists (`OneWaitsAlways`). `NumberInv`: numbers are given once. `SlotInv`: a handler's slot holds the call with the mutex, or a call that began since. `GrantInv`: what marked a record that nothing else met is an answer already handled. `DeadInv`: a call that asked once and was not met by another's answer is not marked again |
| `BleMeshProofs`, of `BleNotices` | `CrashesNeedAnOldScan` | `StartInv`: before `StopScan` an advertisement under way needs a dongle that was scanning. `ScanInv`: the QR code is of a scan (`RssiIsOfAProduct`) |
| `PartsProofs`, of `Config` | `SettersStore`, `DeathNeedsATornWrite` | `ProcessInv`, `CallInv`: who is in a setter. `BrokenInv`: an empty file has a writer, or had two or one cut off. `KeptInv`: what no setter may touch (`OnlyStringsAreSet`: numbers never change). `StoredInv`: a setter holds the document it read with its one entry changed; it lacks only what others wrote since (`written`) and what is lost already (`undone`) |
| `PartsProofs`, of `ServiceLed` | `LedsOnAtRestAlways` | `CountInv`: the count, and what a thread has read of it, never exceeds the uses that have begun nor falls below minus those that have ended, whatever updates were lost. `ServiceInv`, `BleInv`: the LEDs follow it, or a thread is about to light them |
| `PartsProofs`, of `StationPins` | `PinsShowTheStateAlways` | `ProgramInv`: every thread has a rest of one of its programs left. The other parts say the same of each LED and pin: whatever is wrong now, a thread has an assignment left that puts it right, and threads that did not cross leave the same value (`AgreeInv`) |
| `PartsProofs`, of `LogFiles` | `LogsAreTrimmedAlways` | `SizeInv`: what threads have still to append fits. `KeptInv`: while a check has a file to remove, enough files stay that are not older. `FewInv`: what it leaves |
| `PartsProofs`, of `ButtonSignal` | `ButtonFaultsNeedARaceAlways` | `StackInv`: no thread handles a signal on top of itself. `StartInv`: main has started unless a press was early. `MutexInv`: who holds `mtxWaitSendUart`. `ClickInv`, `TimeInv`: clicks that do not overlap are handled by main, with their own times. `CountInv`: every click is one of the presses |
| `StreamProofs`, of `QrScan` | `QrTestIsOfOneCodeAlways` | `AddressInv`: the address is that of the mac. The rest is about the line: at every CR of the stream ends one code, whole (`CodesEnd`), so a block of a product's length with no CR inside lies in one |
| `StreamProofs`, of `RelayUart` | `RelaysAreTheBoardsAlways` | `BlockInv`: the block is what was read last. `PauseInv`: where nothing is left to be read an item ends, or a pause was seen. `ScanInv`: `OnMessage` stands at the end of an item or in the noise behind it, and shows the last frame before |
| `StreamProofs`, of `MqttTopic` | `TopicsFindTheirCallbacksAlways` | no exception was met, and the callback is the first that fits; `TopicMeets` says what `checkMqttTopic` returns for a topic that one filter brought and for any other filter |

The refinements are proved step by step too. For `LinkImplementsRequest`, every step of `BleLink` is a `Begin`, an
`End` or a stutter of `BleRequest`. For `StationImplementsBench`, `RaiseStart` is an `Accept`, `ShowVerdict` a `Judge`,
`EndTest` and `DropProduct` a `Free`, and everything else a stutter. For `Refinement`, a registered call begins to wait in
`RpcCall`, raising its status answers it, and `Judge` ends it.

Recursive definitions are functions here (`splitString`, `HexNumber`, the community's `FlattenSeq`), and what they compute is proved by
induction: the smallest number of which a statement fails is taken from `WFMin`, whose parameter is a set (`Induction` in
`StreamProofs`), so no lemma takes an operator for a parameter.

The assumptions are about the shape of the constants (sets are disjoint or finite, bounds are naturals), but for a few. Those of `RelayUart`
and `QrScan` say what the peripherals send: well-formed frames or noise, and codes without a CR. `MqttTopicAssumption` says what the
station's topics are like, and TLC evaluates it on them. And those of
`BleAnswers`: `UsedAssumption`, `ValuesAssumption` and `TableAssumption` are about the table of commands. The table
is the program's own, and TLC evaluates them on it at the start of the commands run; so `OkMeansDone` and `MixedUpOnlyWithTwins` hold for that table and any devices,
parameters' values and number of calls.

Only model-checked: the liveness properties (`HolderReturns`, `BlockConsumed`, `ScanServed`, `TestEnds`,
`ConnectionNoticed`, `Resubscribed`, `AllReturn`, `CallsReturn`, `RequestsEnd`, `NoticesAreHandled`), as fairness is
out of the prover's reach; and the counterexample to `NoUseAfterReturn`.

## 4. Plan

- Proofs: abstract specifications of the configuration (a setting that was stored is read back) and of the MQTT connection
  (up, down or between), with their refinements.
- Composition: `TestStation` with `MqttConnection` in place of `OnCloudConnect`, and with `BleCommands` in place
  of the outcomes of `ControlRelayOfSwitch` and `Request_Pair_K9B`.
- `BleProtocol::OnMessage` byte by byte, as `RelayUart` has it for the relay board: the search for the magic bytes, lengths, and
  a frame cut by the end of a block.

## 5. Not modelled

- Third-party code: JSON (`json/`), AES and Base64 (`util/`); mosquitto, the broker, the mobiles and the server
  are external and send anything the models' small sets hold.
- Wi-Fi: shell commands and files of the access point.
- Devices, modules and telemetry (`device/`): nothing in this build creates a device.
- Provisioning: `AddDevice` is a stub, `AddDeviceThread` is not started, `InitKey` and `CheckKeyBle` have no caller. The requests they
  would send are in `BleCommandTable`.
- The layout of messages, durations as numbers, versions and rssi in the report.
- Failure to create a thread; what a data race does to the inside of a `std::map`, a vector or a string beyond the
  lost, stale and dangling values that the modules name.
- `Mqtt::reconnected`, which is passed on and tested nowhere; `startProcess`, which is never lowered.
- Log formatting, levels and output.
