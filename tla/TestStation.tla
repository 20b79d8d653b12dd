---------------------------- MODULE TestStation ----------------------------
(***************************************************************************)
(* The test procedure of Gateway.cpp, run by the TestSwitch thread, with   *)
(* the QR reader thread that names the product (QrProtocol), the MQTT      *)
(* threads that report the connection (OnCloudConnect), and the product on *)
(* the bench: its outputs are wired to the station's GPIO inputs.          *)
(*                                                                         *)
(* A command to the product may be lost, executed without an answer, or    *)
(* executed and answered; its answer may come late or twice, and an answer *)
(* under way is taken for the answer to the next command to the same       *)
(* address, since ControlRelayOfSwitch and Request_Pair_K9B compare        *)
(* nothing else (see BleCommands).                                         *)
(***************************************************************************)
EXTENDS Integers, FiniteSets

CONSTANTS
  Codes,        \* what a QR code holds before the '-': number, code, serial
  Macs,         \* what it holds after it
  product_map,  \* Product.cpp: [kind, num_ele] of the codes it lists
  Addr,         \* the mesh address computed from a mac
  Faults,       \* the ways the outputs of a product may fail
  Positions,    \* the states its outputs may be in when it is mounted
  Nothing       \* no product, no report

Pins == 0 .. 3
Kinds == {"CTCU_BLE", "CTCU_WF", "CTR", "OTHER"}
ProductInfo == [kind : Kinds, num_ele : 1 .. 4]
Scans == [code : Codes, mac : Macs]

ASSUME TestStationAssumption ==
  /\ DOMAIN product_map \subseteq Codes
  /\ \A c \in DOMAIN product_map : product_map[c] \in ProductInfo
  /\ DOMAIN Addr = Macs
  /\ Faults \subseteq [Pins -> {"none", "high", "low"}]
  /\ Positions \subseteq [Pins -> BOOLEAN]
  /\ Nothing \notin Scans \cup [code : Codes, mac : Macs, dash : BOOLEAN]
  /\ Nothing \notin ProductInfo \cup [scan : Scans, pass : BOOLEAN]

VARIABLES
  \* the QR reader
  qpc,                  \* where OnMessage stands
  scan,                 \* the block it handles: [code, mac, dash]
  prod_code, mac, addr, \* the product; prod_num and serial go with prod_code
  startTest,
  accepted,             \* the last scan that raised startTest
  \* the cloud connection, the success LED
  check_connect_cloud,
  ledSuccess,
  \* the TestSwitch thread
  tpc,                  \* where it stands
  i,                    \* the index of its loop
  prod,                 \* the product's entry of product_map
  err,                  \* 1 as long as nothing failed
  check,                \* the results: check_res_on, checkRelayOn, ..., stt_k9b
  report,               \* what was published about the product, or Nothing
  \* the product on the bench
  closed,               \* the outputs it has switched on
  fault,                \* how each of its outputs fails
  stale,                \* the addresses with an answer under way to nobody
  \* about the test in progress
  clean                 \* every command was executed and answered in time

qrVars == <<qpc, scan, prod_code, mac, addr, startTest, accepted>>
testVars == <<tpc, i, prod, err, check, report>>
benchVars == <<closed, fault, stale, clean>>
vars == <<qrVars, check_connect_cloud, ledSuccess, testVars, benchVars>>

\* bool checkRelayOn[4], stt[3] and the like, all false
AllFalse(n) == [k \in 0 .. n - 1 |-> FALSE]

\* What start_process leaves in the results. It clears check_res_on twice and
\* check_res_off never.
NoResults(res_off) ==
  [check_res_on |-> AllFalse(4), check_res_off |-> res_off,
   checkRelayOn |-> AllFalse(4), checkRelayOff |-> AllFalse(4),
   checkOnAll |-> FALSE, checkOffAll |-> FALSE,
   check_pair_k9b |-> FALSE, check_stt_last |-> FALSE,
   stt |-> AllFalse(3), stt_k9b |-> AllFalse(3)]

Init ==
  /\ qpc = "idle" /\ scan = Nothing
  /\ prod_code = Nothing /\ mac = Nothing /\ addr = Nothing
  /\ startTest = FALSE /\ accepted = Nothing
  /\ check_connect_cloud = FALSE
  /\ ledSuccess = FALSE
  /\ tpc = "poll" /\ i = 0 /\ prod = Nothing /\ err = 1
  /\ check = NoResults(AllFalse(4))
  /\ report = Nothing
  /\ closed = AllFalse(4) /\ fault = [j \in Pins |-> "none"] /\ stale = {}
  /\ clean = TRUE

-----------------------------------------------------------------------------
(* The bench                                                               *)

\* The pin the code reads for output k of a product with n outputs: j.
Pin(n, k) == IF n = 1 THEN 3 ELSE k

\* gpio_get(j) with the outputs in on switched on: TRUE is high, an output that
\* is on pulls its pin low.
gpio_get(j, on) == fault[j] = "high" \/ (fault[j] = "none" /\ ~on[j])

\* The number under which the code addresses output k: i + 1 - pos.
pos == IF prod.kind = "CTCU_WF" THEN 1 ELSE 0

\* Mutant: relays are counted from 0 for every product.
NumberFromZero(k) == k

Number(k) == k + 1 - pos

\* The number under which a product knows its output k.
OwnNumber(k) == IF prod.kind = "CTCU_BLE" THEN k + 1 ELSE k

Outputs == 0 .. prod.num_ele - 1

\* The pins that follow when the product is told to switch a relay; 255 is all.
Moved(relay) ==
  {Pin(prod.num_ele, k) : k \in {o \in Outputs : relay = 255 \/ OwnNumber(o) = relay}}

\* The product works as far as its test can tell: every output of a switch
\* follows its relay, no output of a curtain controller is dead.
Works(p, f) ==
  CASE p.kind \in {"CTCU_BLE", "CTCU_WF"} ->
         \A k \in 0 .. p.num_ele - 1 : f[Pin(p.num_ele, k)] = "none"
    [] p.kind = "CTR" -> \A k \in 0 .. 2 : f[k] # "low"
    [] OTHER -> TRUE

\* What may become of a command: it is executed, SendMessage returns CODE_OK,
\* and the command's own answer is in time.
Outcomes ==
  {r \in [executed : BOOLEAN, ok : BOOLEAN, own : BOOLEAN] :
     /\ r.own => r.executed /\ r.ok
     /\ r.ok => r.own \/ addr \in stale}

\* The answers under way after a command with outcome r: an executed command
\* may leave one, and one that was under way may have come and gone.
Send(r) ==
  /\ r \in Outcomes
  /\ stale' \in {stale, stale \ {addr}} \cup
                (IF r.executed THEN {stale \cup {addr}} ELSE {})
  /\ UNCHANGED fault

\* ControlRelayOfSwitch(addr, 4, relay, value).
ControlRelayOfSwitch(relay, value, r) ==
  /\ Send(r)
  /\ closed' = IF r.executed
               THEN [j \in Pins |-> IF j \in Moved(relay) THEN value ELSE closed[j]]
               ELSE closed
  /\ clean' = (clean /\ r.own)

-----------------------------------------------------------------------------
(* QrProtocol::OnMessage. A block that is no scan at all, or comes while    *)
(* startTest is up, changes nothing.                                       *)

qrRest == <<check_connect_cloud, ledSuccess, testVars>>

\* Mutant: a scan is read during a test.
BeginScanDuringTest(s, d) ==
  /\ qpc = "idle"
  /\ scan' = [code |-> s.code, mac |-> s.mac, dash |-> d]
  /\ qpc' = "fields"
  /\ UNCHANGED <<prod_code, mac, addr, startTest, accepted, qrRest, benchVars>>

\* A block of the right length, with the '-' where it must be or without.
BeginScan(s, d) ==
  /\ qpc = "idle"
  /\ ~startTest
  /\ scan' = [code |-> s.code, mac |-> s.mac, dash |-> d]
  /\ qpc' = "fields"
  /\ UNCHANGED <<prod_code, mac, addr, startTest, accepted, qrRest, benchVars>>

\* prod_num, prod_code and serial are written before the '-' is looked for.
WriteFields ==
  /\ qpc = "fields"
  /\ prod_code' = scan.code
  /\ qpc' = IF scan.dash THEN "mac" ELSE "idle"
  /\ UNCHANGED <<scan, mac, addr, startTest, accepted, qrRest, benchVars>>

WriteMac ==
  /\ qpc = "mac"
  /\ mac' = scan.mac
  /\ addr' = Addr[scan.mac]
  /\ qpc' = "start"
  /\ UNCHANGED <<scan, prod_code, startTest, accepted, qrRest, benchVars>>

\* startTest goes up. The product that was scanned is on the bench, in any
\* state and with any fault.
RaiseStart ==
  /\ qpc = "start"
  /\ startTest' = TRUE
  /\ qpc' = "idle"
  /\ accepted' = [code |-> scan.code, mac |-> scan.mac]
  /\ fault' \in Faults
  /\ closed' \in Positions
  /\ UNCHANGED <<scan, prod_code, mac, addr, qrRest, stale, clean>>

QrOnMessage ==
  \/ \E s \in Scans, d \in BOOLEAN : BeginScan(s, d)
  \/ WriteFields \/ WriteMac \/ RaiseStart

-----------------------------------------------------------------------------
\* OnCloudConnect, on a thread of its own for each event. The LED it drives, which
\* every message and set_led_fail also switch, is not part of the model.
OnCloudConnect(isConnected) ==
  /\ check_connect_cloud' = isConnected
  /\ UNCHANGED <<qrVars, ledSuccess, testVars, benchVars>>

-----------------------------------------------------------------------------
(* TestSwitch: the beginning and the end of a test                         *)

testRest == <<qrVars, check_connect_cloud, ledSuccess, prod, report>>

Testable(code) ==
  code \in DOMAIN product_map /\ product_map[code].kind # "OTHER"

\* The poll finds startTest up and the cloud connected: start_process, then the
\* product is looked up.
StartProcess ==
  /\ tpc = "poll" /\ startTest /\ check_connect_cloud
  /\ ledSuccess' = FALSE
  /\ UNCHANGED <<qpc, scan, prod_code, mac, addr, accepted, check_connect_cloud,
                 report, closed, fault, stale>>

BeginTest ==
  /\ Testable(prod_code)
  /\ prod' = product_map[prod_code]
  /\ tpc' = "prepare" /\ i' = 0 /\ err' = 1
  /\ clean' = TRUE
  /\ UNCHANGED startTest

\* Mutant: the results of the test before are left in those of this one.
StartTestKeepingResults == StartProcess /\ BeginTest /\ UNCHANGED check

StartTest ==
  StartProcess /\ BeginTest /\ check' = NoResults(check.check_res_off)

\* Mutant: a product that cannot be tested keeps the scanner blocked.
DropProductForever ==
  /\ StartProcess
  /\ ~Testable(prod_code)
  /\ check' = NoResults(check.check_res_off)
  /\ UNCHANGED <<startTest, tpc, i, prod, err, clean>>

\* A product that is not in product_map, or of a type no case names.
DropProduct ==
  /\ StartProcess
  /\ ~Testable(prod_code)
  /\ check' = NoResults(check.check_res_off)
  /\ startTest' = FALSE
  /\ UNCHANGED <<tpc, i, prod, err, clean>>

\* GetDeviceType, whose result nobody looks at, and Request_Training, which
\* waits for no answer: both may leave an answer under way.
Prepare ==
  /\ tpc = "prepare"
  /\ \E heard \in BOOLEAN :
       /\ clean' = (clean /\ heard)
       /\ stale' \in {stale, stale \ {addr}} \cup
                     (IF heard THEN {stale \cup {addr}} ELSE {})
  /\ tpc' = IF prod.kind = "CTR" THEN "open" ELSE "clear"
  /\ UNCHANGED <<testRest, i, err, check, closed, fault>>

\* The fields of the report on a product that are true.
CtcuFields ==
  {<<"on_relay", k>> : k \in {o \in Outputs : check.checkRelayOn[o]}} \cup
  {<<"off_relay", k>> : k \in {o \in Outputs : check.checkRelayOff[o]}} \cup
  (IF check.checkOnAll THEN {<<"on_all">>} ELSE {}) \cup
  (IF check.checkOffAll THEN {<<"off_all">>} ELSE {}) \cup
  (IF check.check_pair_k9b THEN {<<"remote_learn">>} ELSE {}) \cup
  (IF check.check_stt_last THEN {<<"remote_control">>} ELSE {})
CtrFields ==
  {<<"button", k>> : k \in {o \in 0 .. 2 : check.stt[o]}} \cup
  {<<"remote_control", k>> : k \in {o \in 0 .. 2 : check.stt_k9b[o]}} \cup
  (IF check.check_pair_k9b THEN {<<"remote_learn">>} ELSE {})

\* rd_reporting_proc_*: the report is published ...
Publish ==
  /\ tpc = "report"
  /\ report' = [code |-> prod_code, mac |-> mac,
                holds |-> IF prod.kind = "CTR" THEN CtrFields ELSE CtcuFields]
  /\ tpc' = "led"
  /\ UNCHANGED <<qrVars, check_connect_cloud, ledSuccess, prod, i, err,
                 check, benchVars>>

\* ... and the success LED shows the verdict while the thread sleeps.
ShowVerdict ==
  /\ tpc = "led"
  /\ ledSuccess' = (err = 1)
  /\ tpc' = "rest"
  /\ UNCHANGED <<qrVars, check_connect_cloud, prod, report, i, err, check, benchVars>>

EndTest ==
  /\ tpc = "rest"
  /\ startTest' = FALSE
  /\ tpc' = "poll" /\ prod' = Nothing /\ report' = Nothing
  /\ UNCHANGED <<qpc, scan, prod_code, mac, addr, accepted, check_connect_cloud,
                 ledSuccess, i, err, check, benchVars>>

-----------------------------------------------------------------------------
(* process_test_ctcu                                                       *)

\* The pins of the outputs are all low, or all high, with those in on switched on.
AllLow(on) == \A k \in Outputs : ~gpio_get(Pin(prod.num_ele, k), on)
AllHigh(on) == \A k \in Outputs : gpio_get(Pin(prod.num_ele, k), on)

ClearAll ==
  /\ tpc = "clear"
  /\ \E r \in Outcomes : ControlRelayOfSwitch(255, FALSE, r)
  /\ tpc' = "on" /\ i' = 0
  /\ UNCHANGED <<testRest, err, check>>

\* One round of the loops that switch the outputs on, or off; noted is the
\* results with this command's.
SwitchOne(value, noted) ==
  /\ i < prod.num_ele
  /\ \E r \in Outcomes :
       /\ ControlRelayOfSwitch(Number(i), value, r)
       /\ check' = IF r.ok THEN noted ELSE check
  /\ i' = i + 1
  /\ UNCHANGED <<testRest, tpc, err>>

\* What was found of each output, the places of no output as they were.
Found(good, old) == [k \in 0 .. 3 |-> IF k \in Outputs THEN good[k] ELSE old[k]]

\* The loops that read the pins afterwards.
ReadEach(good, noted) ==
  /\ i = prod.num_ele
  /\ check' = noted
  /\ err' = IF \A k \in Outputs : good[k] THEN err ELSE 0
  /\ i' = 0
  /\ UNCHANGED <<testRest, closed, fault, stale, clean>>

TurnOn == tpc = "on" /\ SwitchOne(TRUE, [check EXCEPT !.check_res_on[i] = TRUE])

ReadOn ==
  LET good == [k \in Outputs |-> check.check_res_on[k]
                              /\ ~gpio_get(Pin(prod.num_ele, k), closed)]
  IN /\ tpc = "on"
     /\ ReadEach(good, [check EXCEPT !.checkRelayOn = Found(good, @)])
     /\ tpc' = "off"

TurnOff == tpc = "off" /\ SwitchOne(FALSE, [check EXCEPT !.check_res_off[i] = TRUE])

ReadOff ==
  LET good == [k \in Outputs |-> check.check_res_off[k]
                              /\ gpio_get(Pin(prod.num_ele, k), closed)]
  IN /\ tpc = "off"
     /\ ReadEach(good, [check EXCEPT !.checkRelayOff = Found(good, @)])
     /\ tpc' = "allOn"

\* All outputs at once: the answer is not looked at, the pins are.
AllOn ==
  /\ tpc = "allOn"
  /\ \E r \in Outcomes : ControlRelayOfSwitch(255, TRUE, r)
  /\ check' = [check EXCEPT !.checkOnAll = AllLow(closed')]
  /\ err' = IF AllLow(closed') THEN err ELSE 0
  /\ tpc' = "allOff"
  /\ UNCHANGED <<testRest, i>>

AllOff ==
  /\ tpc = "allOff"
  /\ \E r \in Outcomes : ControlRelayOfSwitch(255, FALSE, r)
  /\ check' = [check EXCEPT !.checkOffAll = AllHigh(closed')]
  /\ err' = IF AllHigh(closed') THEN err ELSE 0
  /\ tpc' = "pair"
  /\ UNCHANGED <<testRest, i>>

\* Where a test of a switch goes after its last reading.
AfterCtcu == IF pos = 1 THEN "resetWifi" ELSE "report"

\* Request_Pair_K9B, and if it is answered the power for the remote control,
\* which switches all outputs on if it was learnt.
PairCtcu ==
  /\ tpc = "pair"
  /\ \E r \in Outcomes, pressed \in BOOLEAN :
       /\ Send(r)
       /\ pressed => r.executed /\ r.ok
       /\ closed' = [j \in Pins |-> closed[j] \/ (pressed /\ j \in Moved(255))]
       /\ clean' = (clean /\ r.own /\ pressed)
       /\ check' = IF r.ok THEN [check EXCEPT !.check_pair_k9b = TRUE] ELSE check
       /\ err' = IF r.ok THEN err ELSE 0
       /\ tpc' = IF r.ok THEN "last" ELSE AfterCtcu
  /\ UNCHANGED <<testRest, i>>

ReadLast ==
  /\ tpc = "last"
  /\ check' = [check EXCEPT !.check_stt_last = AllLow(closed)]
  /\ err' = IF AllLow(closed) THEN err ELSE 0
  /\ tpc' = AfterCtcu
  /\ UNCHANGED <<testRest, i, benchVars>>

\* Mutant: the reset is sent until it is answered.
ResetWifiUntilAnswered ==
  /\ tpc = "resetWifi"
  /\ \E r \in Outcomes : Send(r) /\ tpc' = IF r.ok THEN "report" ELSE "resetWifi"
  /\ UNCHANGED <<testRest, i, err, check, closed, clean>>

ResetWifi ==
  /\ tpc = "resetWifi"
  /\ \E r \in Outcomes : Send(r)
  /\ tpc' = "report"
  /\ UNCHANGED <<testRest, i, err, check, closed, clean>>

-----------------------------------------------------------------------------
(* test_ctcc_and_ctr                                                       *)

\* What the poll of pin k, twenty times in 200 ms, may see of a pulse.
Pulses(k) == {seen \in BOOLEAN : (fault[k] = "high" => seen) /\ (fault[k] = "low" => ~seen)}

\* ControlRelayOfSwitch(addr, 4, i, 1); only if it is answered is the pin read,
\* and only a pulse that was looked for and not seen fails the product.
Press ==
  /\ tpc = "open" /\ i < 3
  /\ \E r \in Outcomes, seen \in Pulses(i) :
       /\ Send(r)
       /\ clean' = (clean /\ r.own /\ seen)
       /\ check' = IF r.ok THEN [check EXCEPT !.stt[i] = seen] ELSE check
       /\ err' = IF r.ok /\ ~seen THEN 0 ELSE err
  /\ i' = i + 1
  /\ UNCHANGED <<testRest, tpc, closed>>

PairCtr ==
  /\ tpc = "open" /\ i = 3
  /\ \E r \in Outcomes :
       /\ Send(r)
       /\ clean' = (clean /\ r.own)
       /\ check' = IF r.ok THEN [check EXCEPT !.check_pair_k9b = TRUE] ELSE check
       /\ err' = IF r.ok THEN err ELSE 0
       /\ tpc' = IF r.ok THEN "remote" ELSE "report"
  /\ i' = 0
  /\ UNCHANGED <<testRest, closed>>

\* Mutant: the last output decides.
WatchRemoteLastWins ==
  /\ tpc = "remote" /\ i < 3
  /\ \E seen \in Pulses(i) :
       /\ clean' = (clean /\ seen)
       /\ check' = [check EXCEPT !.stt_k9b[i] = seen]
       /\ err' = IF seen THEN 1 ELSE 0
  /\ i' = i + 1
  /\ tpc' = IF i = 2 THEN "report" ELSE "remote"
  /\ UNCHANGED <<testRest, closed, fault, stale>>

WatchRemote ==
  /\ tpc = "remote" /\ i < 3
  /\ \E seen \in Pulses(i) :
       /\ clean' = (clean /\ seen)
       /\ check' = [check EXCEPT !.stt_k9b[i] = seen]
       /\ err' = IF seen THEN err ELSE 0
  /\ i' = i + 1
  /\ tpc' = IF i = 2 THEN "report" ELSE "remote"
  /\ UNCHANGED <<testRest, closed, fault, stale>>

-----------------------------------------------------------------------------
CtcuStep ==
  \/ ClearAll \/ TurnOn \/ ReadOn \/ TurnOff \/ ReadOff \/ AllOn \/ AllOff
  \/ PairCtcu \/ ReadLast \/ ResetWifi

CtrStep == Press \/ PairCtr \/ WatchRemote

TestSwitch ==
  \/ StartTest \/ DropProduct \/ Prepare \/ CtcuStep \/ CtrStep
  \/ Publish \/ ShowVerdict \/ EndTest

Next ==
  \/ QrOnMessage
  \/ \E b \in BOOLEAN : OnCloudConnect(b)
  \/ TestSwitch

Spec == Init /\ [][Next]_vars

\* The threads run: a scan that is read is read to its end, and a test goes on,
\* whose every command and sleep is bounded.
FairSpec == Spec /\ WF_vars(WriteFields \/ WriteMac \/ RaiseStart) /\ WF_vars(TestSwitch)

-----------------------------------------------------------------------------
Bools(n) == [0 .. n - 1 -> BOOLEAN]
AllCtcu(n) ==
  {<<f, k>> : f \in {"on_relay", "off_relay"}, k \in 0 .. n - 1} \cup
  {<<"on_all">>, <<"off_all">>, <<"remote_learn">>, <<"remote_control">>}
Results ==
  [check_res_on : Bools(4), check_res_off : Bools(4),
   checkRelayOn : Bools(4), checkRelayOff : Bools(4),
   checkOnAll : BOOLEAN, checkOffAll : BOOLEAN,
   check_pair_k9b : BOOLEAN, check_stt_last : BOOLEAN,
   stt : Bools(3), stt_k9b : Bools(3)]
Remote == {<<"remote_control", k>> : k \in 0 .. 2} \cup {<<"remote_learn">>}
AllCtr == {<<"button", k>> : k \in 0 .. 2} \cup Remote

TypeOK ==
  /\ qpc \in {"idle", "fields", "mac", "start"}
  /\ scan \in [code : Codes, mac : Macs, dash : BOOLEAN] \cup {Nothing}
  /\ prod_code \in Codes \cup {Nothing}
  /\ mac \in Macs \cup {Nothing}
  /\ startTest \in BOOLEAN
  /\ accepted \in Scans \cup {Nothing}
  /\ check_connect_cloud \in BOOLEAN
  /\ ledSuccess \in BOOLEAN
  /\ tpc \in {"poll", "prepare", "clear", "on", "off", "allOn", "allOff", "pair",
              "last", "resetWifi", "open", "remote", "report", "led", "rest"}
  /\ i \in 0 .. 4
  /\ prod \in ProductInfo \cup {Nothing}
  /\ err \in {0, 1}
  /\ check \in Results
  /\ report = Nothing \/ /\ report.code \in Codes /\ report.mac \in Macs
                         /\ report.holds \subseteq AllCtcu(4) \cup AllCtr
  /\ closed \in [Pins -> BOOLEAN]
  /\ fault \in [Pins -> {"none", "high", "low"}]
  /\ clean \in BOOLEAN

\* The report names the code and the mac of one accepted scan, the one whose
\* product is on the bench, and the commands went to that product's address.
ReportNamesScan ==
  report # Nothing =>
    /\ [code |-> report.code, mac |-> report.mac] = accepted
    /\ addr = Addr[accepted.mac]

\* A success LED means that the product works: no lost or late answer, and
\* nothing left by the product before, passes one that does not.
PassedWorks == tpc = "rest" /\ ledSuccess => Works(prod, fault)

\* A product that works and hears and answers every command in time passes.
WorkingPasses == tpc = "rest" /\ clean /\ Works(prod, fault) => ledSuccess

\* The LED and the report agree: a switch passes exactly if every field of its
\* report is true; a curtain controller passes if every field is, and only if
\* those about the remote control are.
VerdictIsReport ==
  tpc = "rest" =>
    IF prod.kind = "CTR"
    THEN /\ ledSuccess => Remote \subseteq report.holds
         /\ report.holds = AllCtr => ledSuccess
    ELSE ledSuccess <=> report.holds = AllCtcu(prod.num_ele)

\* The product's fields are those of the scan in progress up to where it got,
\* and those of the accepted scan from startTest on: no scan is read meanwhile.
ScanInv ==
  /\ qpc # "idle" => ~startTest /\ scan # Nothing
  /\ qpc \in {"mac", "start"} => prod_code = scan.code
  /\ qpc = "start" => mac = scan.mac /\ addr = Addr[scan.mac]
  /\ startTest => /\ accepted # Nothing
                  /\ prod_code = accepted.code /\ mac = accepted.mac
                  /\ addr = Addr[accepted.mac]

\* A test runs with startTest up, on the product the fields name.
SwitchSteps == {"clear", "on", "off", "allOn", "allOff", "pair", "last", "resetWifi"}
ProductInv ==
  /\ tpc # "poll" => startTest /\ Testable(prod_code) /\ prod = product_map[prod_code]
  /\ tpc \in SwitchSteps => prod.kind # "CTR"
  /\ tpc \in {"open", "remote"} => prod.kind = "CTR"
  /\ report # Nothing => tpc \in {"led", "rest"}
  /\ tpc \in {"led", "rest"} => report.code = prod_code /\ report.mac = mac

\* As long as nothing failed, the readings made so far have ruled faults out.
Ended == {"report", "led", "rest"}
ReadingInv ==
  err = 1 =>
    /\ tpc \in (SwitchSteps \ {"clear", "on"}) \cup Ended /\ prod.kind # "CTR" =>
         \A k \in Outputs : fault[Pin(prod.num_ele, k)] # "high"
    /\ tpc \in (SwitchSteps \ {"clear", "on", "off"}) \cup Ended /\ prod.kind # "CTR" =>
         \A k \in Outputs : fault[Pin(prod.num_ele, k)] # "low"
    /\ tpc = "remote" => \A k \in 0 .. 2 : k < i => fault[k] # "low"
    /\ tpc \in Ended /\ prod.kind = "CTR" => \A k \in 0 .. 2 : fault[k] # "low"
VerdictInv == tpc = "rest" => (ledSuccess <=> err = 1)

\* What err says of the results so far: of a switch exactly whether those of
\* the steps behind it are all good, of a curtain controller less.
AfterOn == (SwitchSteps \ {"clear", "on"}) \cup Ended
AfterOff == AfterOn \ {"off"}
AfterAllOn == AfterOff \ {"allOn"}
AfterAllOff == AfterAllOn \ {"allOff"}
AfterPair == AfterAllOff \ {"pair"}
AfterLast == AfterPair \ {"last"}

SwitchInv ==
  tpc # "poll" /\ prod.kind # "CTR" =>
    (err = 1 <=> /\ tpc \in AfterOn => \A k \in Outputs : check.checkRelayOn[k]
                 /\ tpc \in AfterOff => \A k \in Outputs : check.checkRelayOff[k]
                 /\ tpc \in AfterAllOn => check.checkOnAll
                 /\ tpc \in AfterAllOff => check.checkOffAll
                 /\ tpc \in AfterPair => check.check_pair_k9b
                 /\ tpc \in AfterLast => check.check_stt_last)

CurtainInv ==
  tpc # "poll" /\ prod.kind = "CTR" =>
    /\ err = 1 => /\ tpc \in Ended \cup {"remote"} => check.check_pair_k9b
                  /\ tpc = "remote" => \A k \in 0 .. 2 : k < i => check.stt_k9b[k]
                  /\ tpc \in Ended => \A k \in 0 .. 2 : check.stt_k9b[k]
    /\ err = 0 => \/ \E k \in 0 .. 2 : ~check.stt[k] /\ (tpc = "open" => k < i)
                  \/ tpc = "remote" /\ \E k \in 0 .. 2 : k < i /\ ~check.stt_k9b[k]
                  \/ tpc \in Ended /\ ~check.check_pair_k9b
                  \/ tpc \in Ended /\ \E k \in 0 .. 2 : ~check.stt_k9b[k]

\* Each test starts without failures and pairings; what is published stays true.
StartInv ==
  /\ tpc \in {"prepare", "clear", "on"} => err = 1
  /\ tpc \notin {"poll", "last", "resetWifi", "remote"} \cup Ended => ~check.check_pair_k9b
PublishInv ==
  tpc \in {"led", "rest"} =>
    report.holds = IF prod.kind = "CTR" THEN CtrFields ELSE CtcuFields
ReportInv == SwitchInv /\ CurtainInv /\ StartInv /\ PublishInv

\* What a test knows of a product that works while every command is clean: its
\* outputs are where they were put, and every answer is noted.
PositionInv ==
  \A k \in Outputs :
    LET on == closed[Pin(prod.num_ele, k)]
    IN /\ tpc = "on" /\ k < i => on /\ check.check_res_on[k]
       /\ tpc = "off" => IF k < i THEN ~on /\ check.check_res_off[k] ELSE on
       /\ tpc \in {"allOn", "pair"} => ~on
       /\ tpc \in {"allOff", "last"} => on
CleanInv ==
  tpc # "poll" /\ clean /\ Works(prod, fault) =>
    err = 1 /\ (prod.kind # "CTR" => PositionInv)

\* The inductive invariant behind the properties above and ImplementsBench
\* (TestStationProofs).
IInv == TypeOK /\ ScanInv /\ ProductInv /\ ReadingInv /\ VerdictInv /\ ReportInv /\ CleanInv

\* A scan is served, or the cloud is away; and a test that began ends.
ScanServed == startTest ~> (~startTest \/ ~check_connect_cloud)
TestEnds == tpc # "poll" ~> ~startTest

\* What TestBench sees of the station.
Judgeable == {s \in Scans : Testable(s.code)}
current == IF startTest THEN accepted ELSE Nothing
works == IF accepted # Nothing /\ Testable(accepted.code)
         THEN Works(product_map[accepted.code], fault) ELSE TRUE
judgement == IF tpc = "rest"
             THEN [scan |-> [code |-> report.code, mac |-> report.mac], pass |-> ledSuccess]
             ELSE Nothing

Bench == INSTANCE TestBench WITH Judgeable <- Judgeable, current <- current,
                                 works <- works, judgement <- judgement

\* Scanner, test and verdict together behave as TestBench: every scan is judged
\* at most once, under its own name, and passes only if it works.
ImplementsBench == Bench!Spec
=============================================================================
