------------------------- MODULE TestStationProofs -------------------------
(* Machine-checked proofs about TestStation, for any catalogue of          *)
(* products, any macs and addresses, and any faults of the outputs.        *)
EXTENDS TestStation, Sequences, TLAPS

\* The groups of variables, expanded wherever a step leaves a group alone.
USE DEF qrVars, testVars, benchVars, qrRest, testRest

-----------------------------------------------------------------------------
(* What the products and their outputs are                                 *)

\* The product under test is one of product_map's, and of a type with a test.
LEMMA ProductUnderTest ==
  ASSUME ProductInv, tpc # "poll"
  PROVE  /\ prod \in ProductInfo /\ prod.kind \in {"CTCU_BLE", "CTCU_WF", "CTR"}
         /\ prod.num_ele \in 1 .. 4
         /\ startTest
  BY TestStationAssumption DEF ProductInv, Testable, ProductInfo, Kinds

-----------------------------------------------------------------------------
(* Types                                                                   *)

\* The fields of a report are among those a report has.
LEMMA FieldsAreKnown ==
  ASSUME prod.num_ele \in 1 .. 4
  PROVE  CtcuFields \cup CtrFields \subseteq AllCtcu(4) \cup AllCtr
  <1>1. Outputs \subseteq 0 .. 3
    BY DEF Outputs
  <1>2. CtcuFields \subseteq AllCtcu(4)
    BY <1>1 DEF CtcuFields, AllCtcu
  <1>3. CtrFields \subseteq AllCtr
    BY DEF CtrFields, AllCtr, Remote
  <1>4. QED
    BY <1>2, <1>3

LEMMA QrTypeOK ==
  ASSUME TypeOK, ScanInv, QrOnMessage
  PROVE  TypeOK'
  <1> USE TestStationAssumption DEF TypeOK, Scans
  <1>1. CASE \E s \in Scans, d \in BOOLEAN : BeginScan(s, d)
    BY <1>1 DEF BeginScan
  <1>2. CASE WriteFields
    BY <1>2 DEF WriteFields, ScanInv
  <1>3. CASE WriteMac
    BY <1>3 DEF WriteMac, ScanInv
  <1>4. CASE RaiseStart
    BY <1>4 DEF RaiseStart, ScanInv
  <1>5. QED
    BY <1>1, <1>2, <1>3, <1>4 DEF QrOnMessage

\* A command leaves the outputs a Boolean each, and clean a Boolean.
LEMMA CommandTypeOK ==
  ASSUME TypeOK, NEW relay, NEW value \in BOOLEAN, NEW r \in Outcomes,
         ControlRelayOfSwitch(relay, value, r)
  PROVE  closed' \in [Pins -> BOOLEAN] /\ clean' \in BOOLEAN /\ fault' = fault
  BY DEF TypeOK, ControlRelayOfSwitch, Send, Outcomes

LEMMA GpioBoolean ==
  ASSUME NEW j, NEW on \in [Pins -> BOOLEAN]
  PROVE  gpio_get(j, on) \in BOOLEAN
  BY DEF gpio_get

LEMMA FoundTypeOK ==
  ASSUME NEW good, NEW old \in Bools(4), \A k \in Outputs : good[k] \in BOOLEAN
  PROVE  Found(good, old) \in Bools(4)
  BY DEF Found, Bools

\* A step of a test changes only where it stands, the results and the bench.
Steps == {"prepare", "open", "remote", "report"} \cup SwitchSteps
LEMMA StepTypeOK ==
  ASSUME TypeOK, UNCHANGED testRest, fault' = fault,
         tpc' \in Steps, i' \in 0 .. 4, err' \in {0, 1}, check' \in Results,
         closed' \in [Pins -> BOOLEAN], clean' \in BOOLEAN
  PROVE  TypeOK'
  BY DEF TypeOK, Steps, SwitchSteps, Results, Bools, AllCtcu, AllCtr, Remote

\* A result that is noted is a result: one place of an array, an array, a flag.
LEMMA NotePlace ==
  ASSUME check \in Results, NEW k \in 0 .. 3, NEW b \in BOOLEAN
  PROVE  /\ [check EXCEPT !.check_res_on[k] = b] \in Results
         /\ [check EXCEPT !.check_res_off[k] = b] \in Results
         /\ k < 3 => [check EXCEPT !.stt[k] = b] \in Results
         /\ k < 3 => [check EXCEPT !.stt_k9b[k] = b] \in Results
  <1> DEFINE On == [check.check_res_on EXCEPT ![k] = b]
             Off == [check.check_res_off EXCEPT ![k] = b]
             Stt == [check.stt EXCEPT ![k] = b]
             K9b == [check.stt_k9b EXCEPT ![k] = b]
  <1>1. On \in Bools(4) /\ Off \in Bools(4)
    BY DEF Results, Bools
  <1>2. k < 3 => Stt \in Bools(3) /\ K9b \in Bools(3)
    BY DEF Results, Bools
  <1> HIDE DEF On, Off, Stt, K9b
  <1>3. /\ [check EXCEPT !.check_res_on = On] \in Results
        /\ [check EXCEPT !.check_res_off = Off] \in Results
    BY <1>1 DEF Results
  <1>4. k < 3 => /\ [check EXCEPT !.stt = Stt] \in Results
                /\ [check EXCEPT !.stt_k9b = K9b] \in Results
    BY <1>2 DEF Results
  <1>5. QED
    BY <1>3, <1>4 DEF On, Off, Stt, K9b

LEMMA NoteReadings ==
  ASSUME check \in Results, NEW a \in Bools(4)
  PROVE  /\ [check EXCEPT !.checkRelayOn = a] \in Results
         /\ [check EXCEPT !.checkRelayOff = a] \in Results
  BY DEF Results

LEMMA NoteFlag ==
  ASSUME check \in Results, NEW b \in BOOLEAN
  PROVE  /\ [check EXCEPT !.checkOnAll = b] \in Results
         /\ [check EXCEPT !.checkOffAll = b] \in Results
         /\ [check EXCEPT !.check_pair_k9b = b] \in Results
         /\ [check EXCEPT !.check_stt_last = b] \in Results
  BY DEF Results

LEMMA ClearedTypeOK ==
  ASSUME NEW old \in Bools(4)
  PROVE  NoResults(old) \in Results
  <1>1. AllFalse(4) \in Bools(4) /\ AllFalse(3) \in Bools(3)
    BY DEF AllFalse, Bools
  <1>2. QED
    BY <1>1 DEF NoResults, Results

LEMMA SwitchTypeOK ==
  ASSUME TypeOK, ProductInv, CtcuStep
  PROVE  TypeOK'
  <1>0. check \in Results /\ closed \in [Pins -> BOOLEAN] /\ err \in {0, 1} /\ i \in 0 .. 4
    BY DEF TypeOK
  <1>0a. tpc # "poll" => prod.num_ele \in 1 .. 4
    BY ProductUnderTest
  <1>1. CASE ClearAll
    <2>1. PICK r \in Outcomes : ControlRelayOfSwitch(255, FALSE, r)
      BY <1>1 DEF ClearAll
    <2>2. closed' \in [Pins -> BOOLEAN] /\ clean' \in BOOLEAN /\ fault' = fault
      BY <2>1, CommandTypeOK
    <2>3. QED
      BY <1>0, <1>1, <2>2, StepTypeOK DEF ClearAll, Steps, SwitchSteps
  <1>2. CASE TurnOn
    <2>1. PICK r \in Outcomes :
            /\ ControlRelayOfSwitch(Number(i), TRUE, r)
            /\ check' = IF r.ok THEN [check EXCEPT !.check_res_on[i] = TRUE] ELSE check
      BY <1>2 DEF TurnOn, SwitchOne
    <2>2. closed' \in [Pins -> BOOLEAN] /\ clean' \in BOOLEAN /\ fault' = fault
      BY <2>1, CommandTypeOK
    <2>3. i \in 0 .. 3 /\ i' \in 0 .. 4 /\ tpc' = "on" /\ err' = err
      BY <1>0, <1>0a, <1>2 DEF TurnOn, SwitchOne
    <2>4. check' \in Results
      BY <1>0, <2>1, <2>3, NotePlace
    <2>5. QED
      BY <1>0, <1>2, <2>2, <2>3, <2>4, StepTypeOK DEF TurnOn, SwitchOne, Steps, SwitchSteps
  <1>3. CASE ReadOn
    <2> DEFINE good == [k \in Outputs |-> check.check_res_on[k]
                                      /\ ~gpio_get(Pin(prod.num_ele, k), closed)]
    <2>1. Found(good, check.checkRelayOn) \in Bools(4)
      BY <1>0, FoundTypeOK DEF Results
    <2>2. check' \in Results
      BY <1>0, <1>3, <2>1, NoteReadings DEF ReadOn, ReadEach
    <2>3. QED
      BY <1>0, <1>3, <2>2, StepTypeOK DEF ReadOn, ReadEach, Steps, SwitchSteps, TypeOK
  <1>4. CASE TurnOff
    <2>1. PICK r \in Outcomes :
            /\ ControlRelayOfSwitch(Number(i), FALSE, r)
            /\ check' = IF r.ok THEN [check EXCEPT !.check_res_off[i] = TRUE] ELSE check
      BY <1>4 DEF TurnOff, SwitchOne
    <2>2. closed' \in [Pins -> BOOLEAN] /\ clean' \in BOOLEAN /\ fault' = fault
      BY <2>1, CommandTypeOK
    <2>3. i \in 0 .. 3 /\ i' \in 0 .. 4 /\ tpc' = "off" /\ err' = err
      BY <1>0, <1>0a, <1>4 DEF TurnOff, SwitchOne
    <2>4. check' \in Results
      BY <1>0, <2>1, <2>3, NotePlace
    <2>5. QED
      BY <1>0, <1>4, <2>2, <2>3, <2>4, StepTypeOK DEF TurnOff, SwitchOne, Steps, SwitchSteps
  <1>5. CASE ReadOff
    <2> DEFINE good == [k \in Outputs |-> check.check_res_off[k]
                                      /\ gpio_get(Pin(prod.num_ele, k), closed)]
    <2>1. Found(good, check.checkRelayOff) \in Bools(4)
      BY <1>0, FoundTypeOK DEF Results
    <2>2. check' \in Results
      BY <1>0, <1>5, <2>1, NoteReadings DEF ReadOff, ReadEach
    <2>3. QED
      BY <1>0, <1>5, <2>2, StepTypeOK DEF ReadOff, ReadEach, Steps, SwitchSteps, TypeOK
  <1>6. CASE AllOn
    <2>1. PICK r \in Outcomes : ControlRelayOfSwitch(255, TRUE, r)
      BY <1>6 DEF AllOn
    <2>2. closed' \in [Pins -> BOOLEAN] /\ clean' \in BOOLEAN /\ fault' = fault
      BY <2>1, CommandTypeOK
    <2>3. check' \in Results
      BY <1>0, <1>6, NoteFlag DEF AllOn, AllLow
    <2>4. QED
      BY <1>0, <1>6, <2>2, <2>3, StepTypeOK DEF AllOn, Steps, SwitchSteps
  <1>7. CASE AllOff
    <2>1. PICK r \in Outcomes : ControlRelayOfSwitch(255, FALSE, r)
      BY <1>7 DEF AllOff
    <2>2. closed' \in [Pins -> BOOLEAN] /\ clean' \in BOOLEAN /\ fault' = fault
      BY <2>1, CommandTypeOK
    <2>3. check' \in Results
      BY <1>0, <1>7, NoteFlag DEF AllOff, AllHigh
    <2>4. QED
      BY <1>0, <1>7, <2>2, <2>3, StepTypeOK DEF AllOff, Steps, SwitchSteps
  <1>8. CASE PairCtcu
    <2>1. check' \in Results /\ err' \in {0, 1} /\ tpc' \in Steps
      BY <1>0, <1>8, NoteFlag DEF PairCtcu, AfterCtcu, Steps, SwitchSteps
    <2>2. closed' \in [Pins -> BOOLEAN] /\ clean' \in BOOLEAN /\ fault' = fault
      BY <1>0, <1>8 DEF PairCtcu, Send, Outcomes, TypeOK
    <2>3. QED
      BY <1>0, <1>8, <2>1, <2>2, StepTypeOK DEF PairCtcu
  <1>9. CASE ReadLast
    <2>1. check' \in Results
      BY <1>0, <1>9, NoteFlag DEF ReadLast, AllLow
    <2>2. QED
      BY <1>0, <1>9, <2>1, StepTypeOK DEF ReadLast, AfterCtcu, Steps, SwitchSteps, TypeOK
  <1>10. CASE ResetWifi
    BY <1>0, <1>10, StepTypeOK DEF ResetWifi, Send, Steps, TypeOK
  <1>11. QED
    BY <1>1, <1>2, <1>3, <1>4, <1>5, <1>6, <1>7, <1>8, <1>9, <1>10 DEF CtcuStep

LEMMA CurtainTypeOK ==
  ASSUME TypeOK, CtrStep
  PROVE  TypeOK'
  <1>0. check \in Results /\ err \in {0, 1} /\ i \in 0 .. 4 /\ clean \in BOOLEAN
    BY DEF TypeOK
  <1>1. CASE Press
    <2>1. PICK r \in Outcomes, seen \in Pulses(i) :
            /\ Send(r)
            /\ clean' = (clean /\ r.own /\ seen)
            /\ check' = IF r.ok THEN [check EXCEPT !.stt[i] = seen] ELSE check
            /\ err' = IF r.ok /\ ~seen THEN 0 ELSE err
      BY <1>1 DEF Press
    <2>2. seen \in BOOLEAN /\ i \in 0 .. 3 /\ i < 3
      BY <1>0, <1>1 DEF Press, Pulses
    <2>3. check' \in Results
      BY <1>0, <2>1, <2>2, NotePlace
    <2>4. fault' = fault /\ clean' \in BOOLEAN /\ err' \in {0, 1}
      BY <1>0, <2>1, <2>2 DEF Send, Outcomes
    <2>5. QED
      BY <1>0, <1>1, <2>2, <2>3, <2>4, StepTypeOK DEF Press, Steps, TypeOK
  <1>2. CASE PairCtr
    <2>1. check' \in Results
      BY <1>0, <1>2, NoteFlag DEF PairCtr
    <2>2. QED
      BY <1>0, <1>2, <2>1, StepTypeOK DEF PairCtr, Send, Outcomes, Steps, TypeOK
  <1>3. CASE WatchRemote
    <2>1. PICK seen \in Pulses(i) :
            /\ clean' = (clean /\ seen)
            /\ check' = [check EXCEPT !.stt_k9b[i] = seen]
            /\ err' = IF seen THEN err ELSE 0
      BY <1>3 DEF WatchRemote
    <2>2. seen \in BOOLEAN /\ i \in 0 .. 3 /\ i < 3
      BY <1>0, <1>3 DEF WatchRemote, Pulses
    <2>3. check' \in Results
      BY <1>0, <2>1, <2>2, NotePlace
    <2>4. QED
      BY <1>0, <1>3, <2>1, <2>2, <2>3, StepTypeOK DEF WatchRemote, Steps, TypeOK
  <1>4. QED
    BY <1>1, <1>2, <1>3 DEF CtrStep

LEMMA InitIInv == Init => IInv
  <1> SUFFICES ASSUME Init PROVE IInv
    OBVIOUS
  <1>1. AllFalse(4) \in Bools(4) /\ AllFalse(4) \in [Pins -> BOOLEAN]
    BY DEF AllFalse, Bools, Pins
  <1>1a. check \in Results /\ closed \in [Pins -> BOOLEAN]
         /\ fault \in [Pins -> {"none", "high", "low"}]
    BY <1>1, ClearedTypeOK DEF Init
  <1>1b. startTest \in BOOLEAN /\ check_connect_cloud \in BOOLEAN
         /\ ledSuccess \in BOOLEAN /\ clean \in BOOLEAN
    BY DEF Init
  <1>1c. TypeOK
    BY <1>1a, <1>1b DEF Init, TypeOK
  <1>2. ScanInv /\ ProductInv /\ ReadingInv /\ VerdictInv
    BY DEF Init, ScanInv, ProductInv, ReadingInv, VerdictInv, SwitchSteps, Ended
  <1>3. ReportInv /\ CleanInv
    BY DEF Init, ReportInv, SwitchInv, CurtainInv, StartInv, PublishInv, CleanInv
  <1>4. QED
    BY <1>1c, <1>2, <1>3 DEF IInv

LEMMA NextTypeOK ==
  ASSUME TypeOK, ScanInv, ProductInv, [Next]_vars
  PROVE  TypeOK'
  <1>1. CASE QrOnMessage
    BY <1>1, QrTypeOK
  <1>2. CASE \E b \in BOOLEAN : OnCloudConnect(b)
    BY <1>2 DEF OnCloudConnect, TypeOK
  <1>3. CASE StartTest
    <2>1. check' \in Results
      BY <1>3, ClearedTypeOK DEF StartTest, TypeOK, Results
    <2>2. prod' \in ProductInfo
      BY <1>3, TestStationAssumption DEF StartTest, BeginTest, Testable
    <2>3. UNCHANGED <<qpc, scan, prod_code, mac, startTest, accepted, report, closed,
                      fault, check_connect_cloud>>
      BY <1>3 DEF StartTest, StartProcess, BeginTest
    <2>4. ledSuccess' \in BOOLEAN /\ clean' \in BOOLEAN
          /\ tpc' = "prepare" /\ i' = 0 /\ err' = 1
      BY <1>3 DEF StartTest, StartProcess, BeginTest
    <2>5. QED
      BY <2>1, <2>2, <2>3, <2>4 DEF TypeOK, AllCtcu, AllCtr, Remote, Results
  <1>4. CASE DropProduct
    <2>1. check' \in Results
      BY <1>4, ClearedTypeOK DEF DropProduct, TypeOK, Results
    <2>2. QED
      BY <1>4, <2>1 DEF DropProduct, StartProcess, TypeOK
  <1>5. CASE Prepare
    BY <1>5 DEF Prepare, TypeOK
  <1>6. CASE CtcuStep
    BY <1>6, SwitchTypeOK
  <1>7. CASE CtrStep
    BY <1>7, CurtainTypeOK
  <1>8. CASE Publish
    <2>1. prod_code \in Codes /\ mac \in Macs
      BY <1>8 DEF Publish, ProductInv, ScanInv, TypeOK, Scans
    <2>2. report' = [code |-> prod_code, mac |-> mac, holds |-> report'.holds]
          /\ report'.holds \subseteq AllCtcu(4) \cup AllCtr
      BY <1>8, ProductUnderTest, FieldsAreKnown DEF Publish
    <2>3. QED
      BY <1>8, <2>1, <2>2 DEF Publish, TypeOK
  <1>9. CASE ShowVerdict
    BY <1>9 DEF ShowVerdict, TypeOK
  <1>10. CASE EndTest
    BY <1>10 DEF EndTest, TypeOK
  <1>11. CASE UNCHANGED vars
    BY <1>11 DEF vars, TypeOK, AllCtcu, AllCtr, Remote, Bools
  <1>12. QED
    BY <1>1, <1>2, <1>3, <1>4, <1>5, <1>6, <1>7, <1>8, <1>9, <1>10, <1>11
    DEF Next, TestSwitch

-----------------------------------------------------------------------------
(* The scan                                                                *)

\* Only the QR reader and the end of a test touch what a scan wrote.
LEMMA TestKeepsScan ==
  ASSUME TestSwitch \/ \E b \in BOOLEAN : OnCloudConnect(b)
  PROVE  /\ UNCHANGED <<qpc, scan, prod_code, mac, addr, accepted>>
         /\ startTest' => startTest
         /\ startTest => startTest' \/ tpc' = "poll"
  <1>1. CASE \E b \in BOOLEAN : OnCloudConnect(b)
    BY <1>1 DEF OnCloudConnect
  <1>2. CASE StartTest \/ DropProduct
    BY <1>2 DEF StartTest, DropProduct, StartProcess, BeginTest
  <1>3. CASE Prepare \/ Publish \/ ShowVerdict \/ EndTest
    BY <1>3 DEF Prepare, Publish, ShowVerdict, EndTest
  <1>4. CASE CtcuStep
    <2>1. UNCHANGED testRest
      BY <1>4 DEF CtcuStep, ClearAll, TurnOn, SwitchOne, ReadOn, TurnOff, ReadOff, ReadEach,
                  AllOn, AllOff, PairCtcu, ReadLast, ResetWifi
    <2>2. QED
      BY <2>1
  <1>5. CASE CtrStep
    BY <1>5 DEF CtrStep, Press, PairCtr, WatchRemote
  <1>6. QED
    BY <1>1, <1>2, <1>3, <1>4, <1>5 DEF TestSwitch

LEMMA NextScanInv ==
  ASSUME TypeOK, ScanInv, [Next]_vars
  PROVE  ScanInv'
  <1> USE DEF ScanInv
  <1>1. CASE \E s \in Scans, d \in BOOLEAN : BeginScan(s, d)
    <2>1. PICK s \in Scans, d \in BOOLEAN : BeginScan(s, d)
      BY <1>1
    <2>2. [code |-> s.code, mac |-> s.mac, dash |-> d]
            \in [code : Codes, mac : Macs, dash : BOOLEAN]
      BY DEF Scans
    <2>3. scan' # Nothing
      BY <2>1, <2>2, TestStationAssumption DEF BeginScan
    <2>4. QED
      BY <2>1, <2>3 DEF BeginScan
  <1>2. CASE WriteFields
    BY <1>2 DEF WriteFields
  <1>3. CASE WriteMac
    BY <1>3 DEF WriteMac
  <1>4. CASE RaiseStart
    <2>1. scan \in [code : Codes, mac : Macs, dash : BOOLEAN]
      BY <1>4 DEF RaiseStart, TypeOK
    <2>2. accepted' = [code |-> scan.code, mac |-> scan.mac] /\ accepted' \in Scans
      BY <1>4, <2>1 DEF RaiseStart, Scans
    <2>3. accepted' # Nothing
      BY <2>2, TestStationAssumption
    <2>4. QED
      BY <1>4, <2>2, <2>3 DEF RaiseStart
  <1>5. CASE TestSwitch \/ \E b \in BOOLEAN : OnCloudConnect(b)
    BY <1>5, TestKeepsScan
  <1>6. CASE UNCHANGED vars
    BY <1>6 DEF vars
  <1>7. QED
    BY <1>1, <1>2, <1>3, <1>4, <1>5, <1>6 DEF Next, QrOnMessage

-----------------------------------------------------------------------------
(* The product under test                                                  *)

\* While a test runs the QR reader is idle, so nothing else moves the bench.
LEMMA QrKeepsTest ==
  ASSUME TypeOK, ScanInv, ProductInv,
         QrOnMessage \/ \E b \in BOOLEAN : OnCloudConnect(b)
  PROVE  /\ UNCHANGED testVars
         /\ tpc # "poll" =>
              UNCHANGED <<prod_code, mac, fault, closed, clean, ledSuccess, startTest>>
  <1>1. CASE \E s \in Scans, d \in BOOLEAN : BeginScan(s, d)
    BY <1>1 DEF BeginScan
  <1>2. CASE WriteFields \/ WriteMac \/ RaiseStart
    BY <1>2 DEF WriteFields, WriteMac, RaiseStart, ScanInv, ProductInv
  <1>3. CASE \E b \in BOOLEAN : OnCloudConnect(b)
    BY <1>3 DEF OnCloudConnect
  <1>4. QED
    BY <1>1, <1>2, <1>3 DEF QrOnMessage

\* A step of a running test stays on its product, and goes on to where that
\* product's test goes.
LEMMA TestKeepsProduct ==
  ASSUME ProductInv, CtcuStep \/ CtrStep
  PROVE  /\ UNCHANGED <<prod_code, mac, startTest, prod, report, ledSuccess, fault>>
         /\ CtcuStep => tpc \in SwitchSteps /\ tpc' \in SwitchSteps \cup {"report"}
         /\ CtrStep => /\ tpc \in {"open", "remote"}
                       /\ tpc' \in {"open", "remote", "report"}
  <1> USE DEF SwitchSteps
  <1>1. CASE CtcuStep
    BY <1>1 DEF CtcuStep, ClearAll, TurnOn, SwitchOne, ReadOn, TurnOff, ReadOff, ReadEach,
                AllOn, AllOff, PairCtcu, ReadLast, ResetWifi, AfterCtcu,
                ControlRelayOfSwitch, Send, CtrStep, Press, PairCtr, WatchRemote
  <1>2. CASE CtrStep
    BY <1>2 DEF CtrStep, Press, PairCtr, WatchRemote, Send,
                CtcuStep, ClearAll, TurnOn, ReadOn, TurnOff, ReadOff,
                AllOn, AllOff, PairCtcu, ReadLast, ResetWifi
  <1>3. QED
    BY <1>1, <1>2

LEMMA NextProductInv ==
  ASSUME TypeOK, ScanInv, ProductInv, [Next]_vars
  PROVE  ProductInv'
  <1>1. CASE QrOnMessage \/ \E b \in BOOLEAN : OnCloudConnect(b)
    BY <1>1, QrKeepsTest DEF ProductInv, Testable, SwitchSteps
  <1>2. CASE StartTest
    BY <1>2 DEF StartTest, StartProcess, BeginTest, ProductInv, Testable, SwitchSteps
  <1>3. CASE DropProduct
    BY <1>3 DEF DropProduct, StartProcess, ProductInv, SwitchSteps
  <1>4. CASE Prepare
    BY <1>4 DEF Prepare, ProductInv, Testable, SwitchSteps
  <1>5. CASE CtcuStep \/ CtrStep
    <2>1. tpc # "poll" /\ report = Nothing
      BY <1>5, TestKeepsProduct DEF ProductInv, SwitchSteps
    <2>2. QED
      BY <1>5, <2>1, TestKeepsProduct DEF ProductInv, Testable, SwitchSteps
  <1>6. CASE Publish
    BY <1>6 DEF Publish, ProductInv, Testable, SwitchSteps
  <1>7. CASE ShowVerdict
    BY <1>7 DEF ShowVerdict, ProductInv, Testable, SwitchSteps
  <1>8. CASE EndTest
    BY <1>8 DEF EndTest, ProductInv, SwitchSteps
  <1>9. CASE UNCHANGED vars
    BY <1>9 DEF vars, ProductInv, Testable
  <1>10. QED
    BY <1>1, <1>2, <1>3, <1>4, <1>5, <1>6, <1>7, <1>8, <1>9 DEF Next, TestSwitch

-----------------------------------------------------------------------------
(* The verdict                                                             *)

\* The outputs of the product keep their numbers and faults through a step.
LEMMA StepKeepsFaults ==
  ASSUME ProductInv, CtcuStep \/ CtrStep
  PROVE  prod' = prod /\ fault' = fault /\ Outputs' = Outputs
  BY TestKeepsProduct DEF Outputs

LEMMA SwitchReadings ==
  ASSUME TypeOK, ProductInv, ReadingInv, CtcuStep
  PROVE  ReadingInv'
  <1> USE DEF ReadingInv, SwitchSteps, Ended
  <1>0. prod' = prod /\ fault' = fault /\ Outputs' = Outputs /\ prod.kind # "CTR"
    BY StepKeepsFaults, TestKeepsProduct DEF ProductInv
  <1>1. CASE ClearAll \/ TurnOn \/ TurnOff
    BY <1>0, <1>1 DEF ClearAll, TurnOn, TurnOff, SwitchOne
  <1>2. CASE ReadOn
    <2> DEFINE low(k) == ~gpio_get(Pin(prod.num_ele, k), closed)
               good == [k \in Outputs |-> check.check_res_on[k] /\ low(k)]
    <2>1. tpc' = "off" /\ (err' = 1 => \A k \in Outputs : good[k])
      BY <1>2 DEF ReadOn, ReadEach
    <2>2. \A k \in Outputs : good[k] = (check.check_res_on[k] /\ low(k))
      OBVIOUS
    <2> HIDE DEF good
    <2>3. err' = 1 => \A k \in Outputs : low(k)
      BY <2>1, <2>2
    <2>4. QED
      BY <1>0, <2>1, <2>3 DEF gpio_get
  <1>3. CASE ReadOff
    <2> DEFINE high(k) == gpio_get(Pin(prod.num_ele, k), closed)
               good == [k \in Outputs |-> check.check_res_off[k] /\ high(k)]
    <2>1. tpc = "off" /\ tpc' = "allOn" /\ (err' = 1 => err = 1 /\ \A k \in Outputs : good[k])
      BY <1>3 DEF ReadOff, ReadEach
    <2>2. \A k \in Outputs : good[k] = (check.check_res_off[k] /\ high(k))
      OBVIOUS
    <2> HIDE DEF good
    <2>3. err' = 1 => err = 1 /\ \A k \in Outputs : high(k)
      BY <2>1, <2>2
    <2>4. QED
      BY <1>0, <2>1, <2>3 DEF gpio_get
  <1>4. CASE AllOn \/ AllOff
    <2>1. tpc \in {"allOn", "allOff"} /\ tpc' \in {"allOff", "pair"}
      BY <1>4 DEF AllOn, AllOff
    <2>2. err' = err \/ err' = 0
      BY <1>4 DEF AllOn, AllOff
    <2>3. QED
      BY <1>0, <2>1, <2>2
  <1>5. CASE PairCtcu \/ ReadLast \/ ResetWifi
    BY <1>0, <1>5 DEF PairCtcu, ReadLast, ResetWifi, AfterCtcu
  <1>6. QED
    BY <1>1, <1>2, <1>3, <1>4, <1>5 DEF CtcuStep

LEMMA CurtainReadings ==
  ASSUME TypeOK, ProductInv, ReadingInv, CtrStep
  PROVE  ReadingInv'
  <1> USE DEF ReadingInv, SwitchSteps, Ended
  <1>0. prod' = prod /\ fault' = fault /\ prod.kind = "CTR"
    BY StepKeepsFaults, TestKeepsProduct DEF ProductInv
  <1>1. CASE Press
    BY <1>0, <1>1 DEF Press
  <1>2. CASE PairCtr
    BY <1>0, <1>2 DEF PairCtr
  <1>3. CASE WatchRemote
    <2>1. tpc = "remote" /\ i \in 0 .. 2 /\ i' = i + 1
          /\ tpc' = IF i = 2 THEN "report" ELSE "remote"
      BY <1>3 DEF WatchRemote, TypeOK
    <2>2. err' = 1 => err = 1 /\ fault[i] # "low"
      BY <1>3 DEF WatchRemote, Pulses
    <2>3. err' = 1 => \A k \in 0 .. 2 : k < i + 1 => fault[k] # "low"
      BY <2>1, <2>2
    <2>4. QED
      BY <1>0, <2>1, <2>3
  <1>4. QED
    BY <1>1, <1>2, <1>3 DEF CtrStep

LEMMA NextVerdict ==
  ASSUME IInv, [Next]_vars
  PROVE  ReadingInv' /\ VerdictInv'
  <1> USE DEF IInv, ReadingInv, VerdictInv, SwitchSteps, Ended
  <1>1. CASE QrOnMessage \/ \E b \in BOOLEAN : OnCloudConnect(b)
    BY <1>1, QrKeepsTest DEF Outputs
  <1>2. CASE StartTest
    BY <1>2 DEF StartTest, StartProcess, BeginTest
  <1>3. CASE DropProduct
    BY <1>3 DEF DropProduct, StartProcess
  <1>4. CASE Prepare
    BY <1>4 DEF Prepare
  <1>5. CASE CtcuStep
    BY <1>5, SwitchReadings, TestKeepsProduct
  <1>6. CASE CtrStep
    BY <1>6, CurtainReadings, TestKeepsProduct
  <1>7. CASE Publish
    BY <1>7 DEF Publish, Outputs
  <1>8. CASE ShowVerdict
    BY <1>8 DEF ShowVerdict, Outputs, TypeOK
  <1>9. CASE EndTest
    BY <1>9 DEF EndTest
  <1>10. CASE UNCHANGED vars
    BY <1>10 DEF vars, Outputs
  <1>11. QED
    BY <1>1, <1>2, <1>3, <1>4, <1>5, <1>6, <1>7, <1>8, <1>9, <1>10 DEF Next, TestSwitch

-----------------------------------------------------------------------------
(* The report                                                              *)

LEMMA OutputsOfSwitch ==
  ASSUME ProductInv, tpc # "poll"
  PROVE  Outputs = 0 .. prod.num_ele - 1 /\ Outputs \subseteq 0 .. 3 /\ Outputs # {}
  <1>1. prod.num_ele \in 1 .. 4
    BY ProductUnderTest
  <1>2. QED
    BY <1>1 DEF Outputs

\* A step of a switch's test changes err and the results like this.
LEMMA SwitchReport ==
  ASSUME TypeOK, ProductInv, SwitchInv, StartInv, CtcuStep
  PROVE  SwitchInv' /\ StartInv'
  <1> USE DEF SwitchSteps, Ended
  <1>0. /\ prod' = prod /\ Outputs' = Outputs /\ prod.kind # "CTR" /\ tpc # "poll"
        /\ check \in Results /\ err \in {0, 1} /\ Outputs \subseteq 0 .. 3
    BY StepKeepsFaults, TestKeepsProduct, OutputsOfSwitch DEF ProductInv, TypeOK
  <1>a. SwitchInv' <=>
          (err' = 1 <=> /\ tpc' \in AfterOn => \A k \in Outputs : check'.checkRelayOn[k]
                        /\ tpc' \in AfterOff => \A k \in Outputs : check'.checkRelayOff[k]
                        /\ tpc' \in AfterAllOn => check'.checkOnAll
                        /\ tpc' \in AfterAllOff => check'.checkOffAll
                        /\ tpc' \in AfterPair => check'.check_pair_k9b
                        /\ tpc' \in AfterLast => check'.check_stt_last)
    <2>1. tpc' # "poll"
      BY TestKeepsProduct
    <2> QED
      BY <1>0, <2>1 DEF SwitchInv, AfterOn, AfterOff, AfterAllOn, AfterAllOff, AfterPair, AfterLast
  <1>b. err = 1 <=> /\ tpc \in AfterOn => \A k \in Outputs : check.checkRelayOn[k]
                    /\ tpc \in AfterOff => \A k \in Outputs : check.checkRelayOff[k]
                    /\ tpc \in AfterAllOn => check.checkOnAll
                    /\ tpc \in AfterAllOff => check.checkOffAll
                    /\ tpc \in AfterPair => check.check_pair_k9b
                    /\ tpc \in AfterLast => check.check_stt_last
    BY <1>0 DEF SwitchInv
  <1>c. tpc \in {"clear", "on"} => err = 1
    BY DEF StartInv
  <1>d. tpc \in SwitchSteps \ {"last", "resetWifi"} => ~check.check_pair_k9b
    BY DEF StartInv
  <1> USE DEF AfterOn, AfterOff, AfterAllOn, AfterAllOff, AfterPair, AfterLast
  <1>1. CASE ClearAll \/ TurnOn \/ TurnOff
    <2>1. /\ check'.checkRelayOn = check.checkRelayOn /\ check'.checkRelayOff = check.checkRelayOff
          /\ check'.checkOnAll = check.checkOnAll /\ check'.checkOffAll = check.checkOffAll
          /\ check'.check_pair_k9b = check.check_pair_k9b
          /\ check'.check_stt_last = check.check_stt_last /\ err' = err
      BY <1>0, <1>1 DEF ClearAll, TurnOn, TurnOff, SwitchOne, Results
    <2>2. /\ tpc \in {"clear", "on", "off"}
          /\ tpc' = IF tpc = "clear" THEN "on" ELSE tpc
      BY <1>1 DEF ClearAll, TurnOn, TurnOff, SwitchOne
    <2>3. QED
      BY <1>a, <1>b, <1>c, <1>d, <2>1, <2>2 DEF StartInv
  <1>2. CASE ReadOn
    <2> DEFINE good == [k \in Outputs |-> check.check_res_on[k]
                                      /\ ~gpio_get(Pin(prod.num_ele, k), closed)]
    <2>1. /\ tpc = "on" /\ tpc' = "off"
          /\ check' = [check EXCEPT !.checkRelayOn = Found(good, @)]
          /\ err' = IF \A k \in Outputs : good[k] THEN err ELSE 0
      BY <1>2 DEF ReadOn, ReadEach
    <2> HIDE DEF good
    <2>2. /\ \A k \in Outputs : check'.checkRelayOn[k] = good[k]
          /\ check'.check_pair_k9b = check.check_pair_k9b
      BY <1>0, <2>1 DEF Found, Results
    <2>3. QED
      BY <1>0, <1>a, <1>c, <1>d, <2>1, <2>2 DEF StartInv
  <1>3. CASE ReadOff
    <2> DEFINE good == [k \in Outputs |-> check.check_res_off[k]
                                      /\ gpio_get(Pin(prod.num_ele, k), closed)]
    <2>1. /\ tpc = "off" /\ tpc' = "allOn"
          /\ check' = [check EXCEPT !.checkRelayOff = Found(good, @)]
          /\ err' = IF \A k \in Outputs : good[k] THEN err ELSE 0
      BY <1>3 DEF ReadOff, ReadEach
    <2> HIDE DEF good
    <2>2. /\ \A k \in Outputs : check'.checkRelayOff[k] = good[k]
          /\ check'.checkRelayOn = check.checkRelayOn
          /\ check'.check_pair_k9b = check.check_pair_k9b
      BY <1>0, <2>1 DEF Found, Results
    <2>3. QED
      BY <1>0, <1>a, <1>b, <1>d, <2>1, <2>2 DEF StartInv
  <1>4. CASE AllOn
    <2> DEFINE low == AllLow(closed')
    <2>1. /\ tpc = "allOn" /\ tpc' = "allOff"
          /\ check' = [check EXCEPT !.checkOnAll = low]
          /\ err' = IF low THEN err ELSE 0
      BY <1>4 DEF AllOn
    <2>2. low \in BOOLEAN
      BY DEF AllLow
    <2> HIDE DEF low
    <2>3. /\ check'.checkOnAll = low
          /\ check'.checkRelayOn = check.checkRelayOn /\ check'.checkRelayOff = check.checkRelayOff
          /\ check'.check_pair_k9b = check.check_pair_k9b
      BY <1>0, <2>1 DEF Results
    <2>4. QED
      BY <1>0, <1>a, <1>b, <1>d, <2>1, <2>2, <2>3 DEF StartInv
  <1>5. CASE AllOff
    <2> DEFINE high == AllHigh(closed')
    <2>1. /\ tpc = "allOff" /\ tpc' = "pair"
          /\ check' = [check EXCEPT !.checkOffAll = high]
          /\ err' = IF high THEN err ELSE 0
      BY <1>5 DEF AllOff
    <2>2. high \in BOOLEAN
      BY DEF AllHigh
    <2> HIDE DEF high
    <2>3. /\ check'.checkOffAll = high /\ check'.checkOnAll = check.checkOnAll
          /\ check'.checkRelayOn = check.checkRelayOn /\ check'.checkRelayOff = check.checkRelayOff
          /\ check'.check_pair_k9b = check.check_pair_k9b
      BY <1>0, <2>1 DEF Results
    <2>4. QED
      BY <1>0, <1>a, <1>b, <1>d, <2>1, <2>2, <2>3 DEF StartInv
  <1>6. CASE PairCtcu
    <2>1. PICK r \in Outcomes :
            /\ check' = IF r.ok THEN [check EXCEPT !.check_pair_k9b = TRUE] ELSE check
            /\ err' = IF r.ok THEN err ELSE 0
            /\ tpc' = IF r.ok THEN "last" ELSE AfterCtcu
      BY <1>6 DEF PairCtcu
    <2>2. tpc = "pair" /\ AfterCtcu \in {"resetWifi", "report"}
      BY <1>6 DEF PairCtcu, AfterCtcu
    <2>3. /\ check'.checkRelayOn = check.checkRelayOn /\ check'.checkRelayOff = check.checkRelayOff
          /\ check'.checkOnAll = check.checkOnAll /\ check'.checkOffAll = check.checkOffAll
          /\ r.ok => check'.check_pair_k9b
          /\ ~r.ok => check'.check_pair_k9b = check.check_pair_k9b
      BY <1>0, <2>1 DEF Results
    <2>4. QED
      BY <1>0, <1>a, <1>b, <1>d, <2>1, <2>2, <2>3 DEF StartInv
  <1>7. CASE ReadLast
    <2> DEFINE low == AllLow(closed)
    <2>1. /\ tpc = "last" /\ tpc' = AfterCtcu /\ AfterCtcu \in {"resetWifi", "report"}
          /\ check' = [check EXCEPT !.check_stt_last = low]
          /\ err' = IF low THEN err ELSE 0
      BY <1>7 DEF ReadLast, AfterCtcu
    <2>2. low \in BOOLEAN
      BY DEF AllLow
    <2> HIDE DEF low
    <2>3. /\ check'.checkRelayOn = check.checkRelayOn /\ check'.checkRelayOff = check.checkRelayOff
          /\ check'.checkOnAll = check.checkOnAll /\ check'.checkOffAll = check.checkOffAll
          /\ check'.check_pair_k9b = check.check_pair_k9b /\ check'.check_stt_last = low
      BY <1>0, <2>1 DEF Results
    <2>4. QED
      BY <1>0, <1>a, <1>b, <2>1, <2>2, <2>3 DEF StartInv
  <1>8. CASE ResetWifi
    <2>1. tpc = "resetWifi" /\ tpc' = "report" /\ err' = err /\ check' = check
      BY <1>8 DEF ResetWifi
    <2>2. QED
      BY <1>a, <1>b, <2>1 DEF StartInv
  <1>9. QED
    BY <1>1, <1>2, <1>3, <1>4, <1>5, <1>6, <1>7, <1>8 DEF CtcuStep

LEMMA CurtainReport ==
  ASSUME TypeOK, ProductInv, CurtainInv, StartInv, CtrStep
  PROVE  CurtainInv' /\ StartInv'
  <1> USE DEF Ended, SwitchSteps
  <1>0. /\ prod' = prod /\ prod.kind = "CTR" /\ tpc # "poll" /\ tpc' # "poll"
        /\ check \in Results /\ err \in {0, 1} /\ i \in 0 .. 4
    BY StepKeepsFaults, TestKeepsProduct DEF ProductInv, TypeOK
  <1>1. CASE Press
    <2>1. PICK r \in Outcomes, seen \in Pulses(i) :
            /\ check' = IF r.ok THEN [check EXCEPT !.stt[i] = seen] ELSE check
            /\ err' = IF r.ok /\ ~seen THEN 0 ELSE err
      BY <1>1 DEF Press
    <2>2. tpc = "open" /\ tpc' = "open" /\ i \in 0 .. 2 /\ i' = i + 1 /\ seen \in BOOLEAN
      BY <1>0, <1>1 DEF Press, Pulses
    <2>3. /\ check'.check_pair_k9b = check.check_pair_k9b
          /\ \A k \in 0 .. 2 : k # i => check'.stt[k] = check.stt[k]
          /\ r.ok => check'.stt[i] = seen
      BY <1>0, <2>1, <2>2 DEF Results, Bools
    <2>4. err = 0 => \E k \in 0 .. 2 : ~check.stt[k] /\ k < i
      BY <1>0, <2>2 DEF CurtainInv
    <2>5. err' = 0 => \E k \in 0 .. 2 : ~check'.stt[k] /\ k < i + 1
      BY <1>0, <2>1, <2>2, <2>3, <2>4
    <2>6. QED
      BY <1>0, <2>2, <2>3, <2>5 DEF CurtainInv, StartInv
  <1>2. CASE PairCtr
    <2>1. PICK r \in Outcomes :
            /\ check' = IF r.ok THEN [check EXCEPT !.check_pair_k9b = TRUE] ELSE check
            /\ err' = IF r.ok THEN err ELSE 0
            /\ tpc' = IF r.ok THEN "remote" ELSE "report"
      BY <1>2 DEF PairCtr
    <2>2. tpc = "open" /\ i' = 0
      BY <1>2 DEF PairCtr
    <2>3. /\ r.ok => check'.check_pair_k9b
          /\ check'.stt = check.stt
          /\ ~r.ok => check' = check
      BY <1>0, <2>1 DEF Results
    <2>4. err = 0 => \E k \in 0 .. 2 : ~check.stt[k]
      BY <1>0, <2>2 DEF CurtainInv
    <2>5. ~check.check_pair_k9b
      BY <2>2 DEF StartInv
    <2>6. QED
      BY <1>0, <2>1, <2>2, <2>3, <2>4, <2>5 DEF CurtainInv, StartInv
  <1>3. CASE WatchRemote
    <2>1. PICK seen \in Pulses(i) :
            /\ check' = [check EXCEPT !.stt_k9b[i] = seen]
            /\ err' = IF seen THEN err ELSE 0
      BY <1>3 DEF WatchRemote
    <2>2. /\ tpc = "remote" /\ i \in 0 .. 2 /\ i' = i + 1 /\ seen \in BOOLEAN
          /\ tpc' = IF i = 2 THEN "report" ELSE "remote"
      BY <1>0, <1>3 DEF WatchRemote, Pulses
    <2>3. /\ check'.check_pair_k9b = check.check_pair_k9b /\ check'.stt = check.stt
          /\ \A k \in 0 .. 2 : k # i => check'.stt_k9b[k] = check.stt_k9b[k]
          /\ check'.stt_k9b[i] = seen
      BY <1>0, <2>1, <2>2 DEF Results, Bools
    <2>4. /\ err = 1 => check.check_pair_k9b /\ \A k \in 0 .. 2 : k < i => check.stt_k9b[k]
          /\ err = 0 => \/ \E k \in 0 .. 2 : ~check.stt[k]
                        \/ \E k \in 0 .. 2 : k < i /\ ~check.stt_k9b[k]
      BY <1>0, <2>2 DEF CurtainInv
    <2>5. err' = 1 => check'.check_pair_k9b /\ \A k \in 0 .. 2 : k < i + 1 => check'.stt_k9b[k]
      BY <1>0, <2>1, <2>2, <2>3, <2>4
    <2>6. err' = 0 => \/ \E k \in 0 .. 2 : ~check'.stt[k]
                      \/ \E k \in 0 .. 2 : k < i + 1 /\ ~check'.stt_k9b[k]
      <3>1. CASE ~seen
        BY <2>2, <2>3, <3>1
      <3>2. CASE seen
        BY <2>1, <2>2, <2>3, <2>4, <3>2
      <3>3. QED
        BY <3>1, <3>2
    <2>7. QED
      BY <1>0, <2>2, <2>5, <2>6 DEF CurtainInv, StartInv
  <1>4. QED
    BY <1>1, <1>2, <1>3 DEF CtrStep

LEMMA NextReport ==
  ASSUME IInv, [Next]_vars
  PROVE  ReportInv'
  <1> USE DEF IInv, ReportInv
  <1>1. CASE QrOnMessage \/ \E b \in BOOLEAN : OnCloudConnect(b)
    <2>1. UNCHANGED <<tpc, i, prod, err, check, report>>
      BY <1>1, QrKeepsTest
    <2>2. UNCHANGED <<Outputs, CtrFields, CtcuFields>>
      BY <2>1 DEF CtrFields, CtcuFields, Outputs
    <2>3. SwitchInv' /\ CurtainInv'
      BY <2>1, <2>2 DEF SwitchInv, CurtainInv
    <2>4. StartInv' /\ PublishInv'
      BY <2>1, <2>2 DEF StartInv, PublishInv
    <2>5. QED
      BY <2>3, <2>4
  <1>2. CASE StartTest
    <2>1. /\ tpc' = "prepare" /\ err' = 1 /\ check'.check_pair_k9b = FALSE
      BY <1>2 DEF StartTest, StartProcess, BeginTest, NoResults
    <2>2. QED
      BY <2>1 DEF SwitchInv, CurtainInv, StartInv, PublishInv, SwitchSteps, Ended,
                  AfterOn, AfterOff, AfterAllOn, AfterAllOff, AfterPair, AfterLast
  <1>3. CASE DropProduct \/ EndTest
    <2>1. tpc' = "poll"
      BY <1>3 DEF DropProduct, StartProcess, EndTest
    <2>2. QED
      BY <2>1 DEF SwitchInv, CurtainInv, StartInv, PublishInv
  <1>4. CASE Prepare
    <2>1. /\ tpc = "prepare" /\ tpc' = IF prod.kind = "CTR" THEN "open" ELSE "clear"
          /\ UNCHANGED <<prod, err, check>>
      BY <1>4 DEF Prepare
    <2>2. err = 1 /\ ~check.check_pair_k9b
      BY <2>1 DEF StartInv, Ended
    <2>3. QED
      BY <2>1, <2>2 DEF SwitchInv, CurtainInv, StartInv, PublishInv, SwitchSteps, Ended,
                  AfterOn, AfterOff, AfterAllOn, AfterAllOff, AfterPair, AfterLast
  <1>5. CASE CtcuStep
    <2>1. tpc' \notin {"led", "rest"} /\ prod' = prod /\ prod.kind # "CTR"
      BY <1>5, TestKeepsProduct, StepKeepsFaults DEF SwitchSteps, ProductInv
    <2>2. QED
      BY <1>5, <2>1, SwitchReport DEF CurtainInv, PublishInv
  <1>6. CASE CtrStep
    <2>1. tpc' \notin {"led", "rest"} /\ prod' = prod /\ prod.kind = "CTR"
      BY <1>6, TestKeepsProduct, StepKeepsFaults DEF SwitchSteps, ProductInv
    <2>2. QED
      BY <1>6, <2>1, CurtainReport DEF SwitchInv, PublishInv
  <1>7. CASE Publish \/ ShowVerdict
    <2>1. /\ UNCHANGED <<prod, err, check>>
          /\ tpc \in {"report", "led"} /\ tpc' \in {"led", "rest"}
      BY <1>7 DEF Publish, ShowVerdict
    <2>2. SwitchInv' /\ CurtainInv' /\ StartInv'
      BY <2>1 DEF SwitchInv, CurtainInv, StartInv, SwitchSteps, Ended, Outputs,
                  AfterOn, AfterOff, AfterAllOn, AfterAllOff, AfterPair, AfterLast
    <2>3. CtrFields' = CtrFields /\ CtcuFields' = CtcuFields
      BY <2>1 DEF CtrFields, CtcuFields, Outputs
    <2>4. report'.holds = IF prod.kind = "CTR" THEN CtrFields ELSE CtcuFields
      BY <1>7 DEF Publish, ShowVerdict, PublishInv
    <2>5. PublishInv'
      BY <2>1, <2>3, <2>4 DEF PublishInv
    <2>6. QED
      BY <2>2, <2>5
  <1>8. CASE UNCHANGED vars
    BY <1>8 DEF vars, SwitchInv, CurtainInv, StartInv, PublishInv, CtrFields, CtcuFields, Outputs
  <1>9. QED
    BY <1>1, <1>2, <1>3, <1>4, <1>5, <1>6, <1>7, <1>8 DEF Next, TestSwitch

\* A report holds a field exactly if the result is good.
LEMMA FieldsOfSwitch ==
  ASSUME prod.num_ele \in 1 .. 4
  PROVE  CtcuFields = AllCtcu(prod.num_ele) <=>
           /\ \A k \in Outputs : check.checkRelayOn[k]
           /\ \A k \in Outputs : check.checkRelayOff[k]
           /\ check.checkOnAll /\ check.checkOffAll
           /\ check.check_pair_k9b /\ check.check_stt_last
  <1> DEFINE n == prod.num_ele
  <1>1. Outputs = 0 .. n - 1
    BY DEF Outputs
  <1>2. \A f, g, k : <<f, k>> # <<g>>
    <2> SUFFICES ASSUME NEW f, NEW g, NEW k, <<f, k>> = <<g>> PROVE FALSE
      OBVIOUS
    <2>1. Len(<<f, k>>) = 2 /\ Len(<<g>>) = 1
      OBVIOUS
    <2>2. QED
      BY <2>1
  <1>3. \A k : <<"on_relay", k>> \in CtcuFields <=> k \in Outputs /\ check.checkRelayOn[k]
    BY <1>2 DEF CtcuFields
  <1>4. \A k : <<"off_relay", k>> \in CtcuFields <=> k \in Outputs /\ check.checkRelayOff[k]
    BY <1>2 DEF CtcuFields
  <1>5. /\ <<"on_all">> \in CtcuFields <=> check.checkOnAll
        /\ <<"off_all">> \in CtcuFields <=> check.checkOffAll
        /\ <<"remote_learn">> \in CtcuFields <=> check.check_pair_k9b
        /\ <<"remote_control">> \in CtcuFields <=> check.check_stt_last
    BY <1>2 DEF CtcuFields
  <1>6. CtcuFields \subseteq AllCtcu(n)
    BY <1>1 DEF CtcuFields, AllCtcu
  <1>7. AllCtcu(n) \subseteq CtcuFields <=>
          /\ \A k \in Outputs : <<"on_relay", k>> \in CtcuFields /\ <<"off_relay", k>> \in CtcuFields
          /\ <<"on_all">> \in CtcuFields /\ <<"off_all">> \in CtcuFields
          /\ <<"remote_learn">> \in CtcuFields /\ <<"remote_control">> \in CtcuFields
    <2>1. \A x \in AllCtcu(n) :
            \/ \E k \in Outputs : x = <<"on_relay", k>> \/ x = <<"off_relay", k>>
            \/ x \in {<<"on_all">>, <<"off_all">>, <<"remote_learn">>, <<"remote_control">>}
      BY <1>1 DEF AllCtcu
    <2>2. \A k \in Outputs : <<"on_relay", k>> \in AllCtcu(n) /\ <<"off_relay", k>> \in AllCtcu(n)
      BY <1>1 DEF AllCtcu
    <2>3. {<<"on_all">>, <<"off_all">>, <<"remote_learn">>, <<"remote_control">>} \subseteq AllCtcu(n)
      BY DEF AllCtcu
    <2> HIDE DEF n
    <2>4. QED
      BY <2>1, <2>2, <2>3
  <1>8. QED
    BY <1>3, <1>4, <1>5, <1>6, <1>7

LEMMA FieldsOfCurtain ==
  /\ Remote \subseteq CtrFields <=> check.check_pair_k9b /\ \A k \in 0 .. 2 : check.stt_k9b[k]
  /\ CtrFields = AllCtr => \A k \in 0 .. 2 : check.stt[k]
  <1>1. \A f, g, k : <<f, k>> # <<g>>
    <2> SUFFICES ASSUME NEW f, NEW g, NEW k, <<f, k>> = <<g>> PROVE FALSE
      OBVIOUS
    <2>1. Len(<<f, k>>) = 2 /\ Len(<<g>>) = 1
      OBVIOUS
    <2>2. QED
      BY <2>1
  <1>2. /\ \A k \in 0 .. 2 : <<"button", k>> \in CtrFields <=> check.stt[k]
        /\ \A k \in 0 .. 2 : <<"remote_control", k>> \in CtrFields <=> check.stt_k9b[k]
        /\ <<"remote_learn">> \in CtrFields <=> check.check_pair_k9b
    BY <1>1 DEF CtrFields
  <1>3. Remote \subseteq CtrFields <=>
          /\ \A k \in 0 .. 2 : <<"remote_control", k>> \in CtrFields
          /\ <<"remote_learn">> \in CtrFields
    BY DEF Remote
  <1>4. \A k \in 0 .. 2 : <<"button", k>> \in AllCtr
    BY DEF AllCtr
  <1>5. QED
    BY <1>2, <1>3, <1>4

LEMMA VerdictIsReportFromIInv == IInv => VerdictIsReport
  <1> SUFFICES ASSUME IInv, tpc = "rest"
               PROVE  IF prod.kind = "CTR"
                      THEN /\ ledSuccess => Remote \subseteq report.holds
                           /\ report.holds = AllCtr => ledSuccess
                      ELSE ledSuccess <=> report.holds = AllCtcu(prod.num_ele)
    BY DEF VerdictIsReport
  <1>1. (ledSuccess <=> err = 1) /\ err \in {0, 1} /\ prod.num_ele \in 1 .. 4
    BY ProductUnderTest DEF IInv, VerdictInv, TypeOK
  <1>2. report.holds = IF prod.kind = "CTR" THEN CtrFields ELSE CtcuFields
    BY DEF IInv, ReportInv, PublishInv
  <1>3. CASE prod.kind = "CTR"
    <2>1. /\ err = 1 => check.check_pair_k9b /\ \A k \in 0 .. 2 : check.stt_k9b[k]
          /\ err = 0 => \/ \E k \in 0 .. 2 : ~check.stt[k]
                        \/ ~check.check_pair_k9b
                        \/ \E k \in 0 .. 2 : ~check.stt_k9b[k]
      BY <1>3 DEF IInv, ReportInv, CurtainInv, Ended
    <2>2. Remote \subseteq AllCtr
      BY DEF AllCtr
    <2>3. QED
      BY <1>1, <1>2, <1>3, <2>1, <2>2, FieldsOfCurtain
  <1>4. CASE prod.kind # "CTR"
    <2>1. err = 1 <=> /\ \A k \in Outputs : check.checkRelayOn[k]
                      /\ \A k \in Outputs : check.checkRelayOff[k]
                      /\ check.checkOnAll /\ check.checkOffAll
                      /\ check.check_pair_k9b /\ check.check_stt_last
      BY <1>4 DEF IInv, ReportInv, SwitchInv, SwitchSteps, Ended,
                  AfterOn, AfterOff, AfterAllOn, AfterAllOff, AfterPair, AfterLast
    <2>2. QED
      BY <1>1, <1>2, <1>4, <2>1, FieldsOfSwitch
  <1>5. QED
    BY <1>3, <1>4

-----------------------------------------------------------------------------
(* A product that works                                                    *)

\* A command that leaves a test clean has moved the outputs it was meant for.
LEMMA CleanCommand ==
  ASSUME TypeOK, NEW relay, NEW value, NEW r \in Outcomes,
         ControlRelayOfSwitch(relay, value, r), clean'
  PROVE  /\ clean /\ r.ok /\ r.own
         /\ \A j \in Pins : /\ j \in Moved(relay) => closed'[j] = value
                            /\ j \notin Moved(relay) => closed'[j] = closed[j]
  BY DEF ControlRelayOfSwitch, Outcomes, TypeOK

\* Each output has a pin of its own, and a command by number reaches that one.
LEMMA MovedPins ==
  ASSUME ProductInv, tpc \in SwitchSteps
  PROVE  /\ \A k \in Outputs : Pin(prod.num_ele, k) \in Pins
         /\ \A k \in Outputs : Pin(prod.num_ele, k) \in Moved(255)
         /\ \A k \in Outputs : Pin(prod.num_ele, k) \in Moved(Number(k))
         /\ \A k, o \in Outputs : k # o => Pin(prod.num_ele, o) \notin Moved(Number(k))
  <1>1. prod.num_ele \in 1 .. 4 /\ prod.kind \in {"CTCU_BLE", "CTCU_WF"} /\ Outputs \subseteq 0 .. 3
        /\ Outputs = 0 .. prod.num_ele - 1
    BY ProductUnderTest, OutputsOfSwitch DEF ProductInv, SwitchSteps
  <1>2. \A k, o \in Outputs : Pin(prod.num_ele, k) = Pin(prod.num_ele, o) => k = o
    BY <1>1 DEF Pin
  <1>3. \A k, o \in Outputs : OwnNumber(o) = Number(k) <=> o = k
    BY <1>1 DEF OwnNumber, Number, pos
  <1>4. \A k \in Outputs : Number(k) # 255
    BY <1>1 DEF Number, pos
  <1>5. \A k \in Outputs : Pin(prod.num_ele, k) \in Pins
    BY <1>1 DEF Pin, Pins
  <1>6. QED
    BY <1>2, <1>3, <1>4, <1>5 DEF Moved

\* A pin that works shows the state of its output.
LEMMA PinsShow ==
  ASSUME NEW j, NEW on, fault[j] = "none"
  PROVE  gpio_get(j, on) <=> ~on[j]
  BY DEF gpio_get

LEMMA CleanSwitch ==
  ASSUME TypeOK, ProductInv, CleanInv, CtcuStep
  PROVE  CleanInv'
  <1> USE DEF SwitchSteps
  <1> DEFINE n == prod.num_ele
             P(k) == Pin(n, k)
  <1>0. /\ prod' = prod /\ fault' = fault /\ Outputs' = Outputs /\ prod.kind # "CTR"
        /\ tpc # "poll" /\ tpc \in SwitchSteps /\ check \in Results /\ i \in 0 .. 4
    BY StepKeepsFaults, TestKeepsProduct DEF ProductInv, TypeOK
  <1>1. /\ n \in 1 .. 4 /\ Outputs = 0 .. n - 1 /\ Outputs \subseteq 0 .. 3
        /\ prod.kind \in {"CTCU_BLE", "CTCU_WF"}
    BY <1>0, ProductUnderTest, OutputsOfSwitch
  <1> SUFFICES ASSUME clean', Works(prod, fault)
               PROVE  err' = 1 /\ PositionInv'
    BY <1>0 DEF CleanInv, Works
  <1>2. \A k \in Outputs : fault[P(k)] = "none"
    BY <1>1 DEF Works
  <1>3. \A k \in Outputs : P(k) \in Pins
    BY <1>0, MovedPins
  <1>4. clean => err = 1 /\ PositionInv
    BY <1>0 DEF CleanInv
  <1>5. PositionInv' <=>
          \A k \in Outputs :
            /\ tpc' = "on" /\ k < i' => closed'[P(k)] /\ check'.check_res_on[k]
            /\ tpc' = "off" => IF k < i' THEN ~closed'[P(k)] /\ check'.check_res_off[k]
                                         ELSE closed'[P(k)]
            /\ tpc' \in {"allOn", "pair"} => ~closed'[P(k)]
            /\ tpc' \in {"allOff", "last"} => closed'[P(k)]
    BY <1>0 DEF PositionInv, Pin
  <1>6. PositionInv =>
          \A k \in Outputs :
            /\ tpc = "on" /\ k < i => closed[P(k)] /\ check.check_res_on[k]
            /\ tpc = "off" => IF k < i THEN ~closed[P(k)] /\ check.check_res_off[k]
                                       ELSE closed[P(k)]
            /\ tpc \in {"allOn", "pair"} => ~closed[P(k)]
            /\ tpc \in {"allOff", "last"} => closed[P(k)]
    BY DEF PositionInv
  <1>7. \A on : /\ (\A k \in Outputs : on[P(k)]) => AllLow(on)
                /\ (\A k \in Outputs : ~on[P(k)]) => AllHigh(on)
    BY <1>2, PinsShow DEF AllLow, AllHigh
  <1> HIDE DEF P, n
  <1>8. CASE ClearAll
    <2>1. PICK r \in Outcomes : ControlRelayOfSwitch(255, FALSE, r)
      BY <1>8 DEF ClearAll
    <2>2. clean
      BY <2>1, CleanCommand
    <2>3. tpc' = "on" /\ i' = 0 /\ err' = err
      BY <1>8 DEF ClearAll
    <2>4. QED
      BY <1>1, <1>4, <1>5, <2>2, <2>3
  <1>9. CASE TurnOn
    <2>1. PICK r \in Outcomes :
            /\ ControlRelayOfSwitch(Number(i), TRUE, r)
            /\ check' = IF r.ok THEN [check EXCEPT !.check_res_on[i] = TRUE] ELSE check
      BY <1>9 DEF TurnOn, SwitchOne
    <2>2. /\ clean /\ r.ok
          /\ \A j \in Pins : /\ j \in Moved(Number(i)) => closed'[j] = TRUE
                             /\ j \notin Moved(Number(i)) => closed'[j] = closed[j]
      BY <2>1, CleanCommand
    <2>3. tpc = "on" /\ tpc' = "on" /\ i < n /\ i' = i + 1 /\ err' = err /\ i \in Outputs
      BY <1>0, <1>1, <1>9 DEF TurnOn, SwitchOne, n
    <2>4. /\ check'.check_res_on[i]
          /\ \A k \in Outputs : k # i => check'.check_res_on[k] = check.check_res_on[k]
      BY <1>0, <1>1, <2>1, <2>2, <2>3 DEF Results, Bools
    <2>5. /\ closed'[P(i)]
          /\ \A k \in Outputs : k # i => closed'[P(k)] = closed[P(k)]
      BY <1>0, <1>3, <2>2, <2>3, MovedPins DEF P, n
    <2>6. QED
      BY <1>0, <1>1, <1>4, <1>5, <1>6, <2>2, <2>3, <2>4, <2>5
  <1>10. CASE ReadOn
    <2> DEFINE good == [k \in Outputs |-> check.check_res_on[k]
                                      /\ ~gpio_get(Pin(prod.num_ele, k), closed)]
    <2>1. /\ tpc = "on" /\ tpc' = "off" /\ i = n /\ i' = 0 /\ clean /\ closed' = closed
          /\ err' = IF \A k \in Outputs : good[k] THEN err ELSE 0
      BY <1>10 DEF ReadOn, ReadEach, n
    <2>2. \A k \in Outputs : closed[P(k)] /\ check.check_res_on[k]
      BY <1>1, <1>4, <1>6, <2>1
    <2>3. \A k \in Outputs : good[k]
      BY <1>2, <2>2, PinsShow DEF P, n
    <2> HIDE DEF good
    <2>4. QED
      BY <1>1, <1>4, <1>5, <2>1, <2>2, <2>3
  <1>11. CASE TurnOff
    <2>1. PICK r \in Outcomes :
            /\ ControlRelayOfSwitch(Number(i), FALSE, r)
            /\ check' = IF r.ok THEN [check EXCEPT !.check_res_off[i] = TRUE] ELSE check
      BY <1>11 DEF TurnOff, SwitchOne
    <2>2. /\ clean /\ r.ok
          /\ \A j \in Pins : /\ j \in Moved(Number(i)) => closed'[j] = FALSE
                             /\ j \notin Moved(Number(i)) => closed'[j] = closed[j]
      BY <2>1, CleanCommand
    <2>3. tpc = "off" /\ tpc' = "off" /\ i < n /\ i' = i + 1 /\ err' = err /\ i \in Outputs
      BY <1>0, <1>1, <1>11 DEF TurnOff, SwitchOne, n
    <2>4. /\ check'.check_res_off[i]
          /\ \A k \in Outputs : k # i => check'.check_res_off[k] = check.check_res_off[k]
      BY <1>0, <1>1, <2>1, <2>2, <2>3 DEF Results, Bools
    <2>5. /\ ~closed'[P(i)]
          /\ \A k \in Outputs : k # i => closed'[P(k)] = closed[P(k)]
      BY <1>0, <1>3, <2>2, <2>3, MovedPins DEF P, n
    <2>6. QED
      BY <1>0, <1>1, <1>4, <1>5, <1>6, <2>2, <2>3, <2>4, <2>5
  <1>12. CASE ReadOff
    <2> DEFINE good == [k \in Outputs |-> check.check_res_off[k]
                                      /\ gpio_get(Pin(prod.num_ele, k), closed)]
    <2>1. /\ tpc = "off" /\ tpc' = "allOn" /\ i = n /\ i' = 0 /\ clean /\ closed' = closed
          /\ err' = IF \A k \in Outputs : good[k] THEN err ELSE 0
      BY <1>12 DEF ReadOff, ReadEach, n
    <2>2. \A k \in Outputs : ~closed[P(k)] /\ check.check_res_off[k]
      BY <1>1, <1>4, <1>6, <2>1
    <2>3. \A k \in Outputs : good[k]
      BY <1>2, <2>2, PinsShow DEF P, n
    <2> HIDE DEF good
    <2>4. QED
      BY <1>1, <1>4, <1>5, <2>1, <2>2, <2>3
  <1>13. CASE AllOn
    <2>1. PICK r \in Outcomes : ControlRelayOfSwitch(255, TRUE, r)
      BY <1>13 DEF AllOn
    <2>2. clean /\ \A k \in Outputs : closed'[P(k)]
      <3>1. /\ clean
            /\ \A j \in Pins : /\ j \in Moved(255) => closed'[j] = TRUE
                               /\ j \notin Moved(255) => closed'[j] = closed[j]
        BY <2>1, CleanCommand
      <3>2. \A k \in Outputs : P(k) \in Moved(255)
        BY <1>0, MovedPins DEF P, n
      <3>3. QED
        BY <1>3, <3>1, <3>2
    <2>3. tpc' = "allOff" /\ err' = IF AllLow(closed') THEN err ELSE 0
      BY <1>13 DEF AllOn
    <2>4. QED
      BY <1>4, <1>5, <1>7, <2>2, <2>3
  <1>14. CASE AllOff
    <2>1. PICK r \in Outcomes : ControlRelayOfSwitch(255, FALSE, r)
      BY <1>14 DEF AllOff
    <2>2. clean /\ \A k \in Outputs : ~closed'[P(k)]
      <3>1. /\ clean
            /\ \A j \in Pins : /\ j \in Moved(255) => closed'[j] = FALSE
                               /\ j \notin Moved(255) => closed'[j] = closed[j]
        BY <2>1, CleanCommand
      <3>2. \A k \in Outputs : P(k) \in Moved(255)
        BY <1>0, MovedPins DEF P, n
      <3>3. QED
        BY <1>3, <3>1, <3>2
    <2>3. tpc' = "pair" /\ err' = IF AllHigh(closed') THEN err ELSE 0
      BY <1>14 DEF AllOff
    <2>4. QED
      BY <1>4, <1>5, <1>7, <2>2, <2>3
  <1>15. CASE PairCtcu
    <2>1. PICK r \in Outcomes, pressed \in BOOLEAN :
            /\ closed' = [j \in Pins |-> closed[j] \/ (pressed /\ j \in Moved(255))]
            /\ clean' = (clean /\ r.own /\ pressed)
            /\ err' = IF r.ok THEN err ELSE 0
            /\ tpc' = IF r.ok THEN "last" ELSE AfterCtcu
      BY <1>15 DEF PairCtcu
    <2>2. clean /\ r.own /\ r.ok /\ pressed
      BY <2>1 DEF Outcomes
    <2>3. \A k \in Outputs : closed'[P(k)]
      BY <1>0, <1>3, <2>1, <2>2, MovedPins DEF P, n
    <2>4. QED
      BY <1>4, <1>5, <2>1, <2>2, <2>3
  <1>16. CASE ReadLast
    <2>1. /\ tpc = "last" /\ clean' = clean /\ tpc' \in {"resetWifi", "report"}
          /\ err' = IF AllLow(closed) THEN err ELSE 0
      BY <1>16 DEF ReadLast, AfterCtcu
    <2>2. QED
      BY <1>4, <1>5, <1>6, <1>7, <2>1
  <1>17. CASE ResetWifi
    <2>1. clean' = clean /\ tpc' = "report" /\ err' = err
      BY <1>17 DEF ResetWifi
    <2>2. QED
      BY <1>4, <1>5, <2>1
  <1>18. QED
    BY <1>8, <1>9, <1>10, <1>11, <1>12, <1>13, <1>14, <1>15, <1>16, <1>17 DEF CtcuStep

LEMMA CleanCurtain ==
  ASSUME TypeOK, ProductInv, CleanInv, CtrStep
  PROVE  CleanInv'
  <1>0. prod' = prod /\ fault' = fault /\ prod.kind = "CTR" /\ tpc # "poll"
    BY StepKeepsFaults, TestKeepsProduct DEF ProductInv
  <1>1. clean' => clean /\ err' = err
    BY DEF CtrStep, Press, PairCtr, WatchRemote, Outcomes
  <1>2. QED
    BY <1>0, <1>1 DEF CleanInv, Works

LEMMA NextClean ==
  ASSUME IInv, [Next]_vars
  PROVE  CleanInv'
  <1> USE DEF IInv
  <1>1. CASE QrOnMessage \/ \E b \in BOOLEAN : OnCloudConnect(b)
    BY <1>1, QrKeepsTest DEF CleanInv, Works, PositionInv, Outputs
  <1>2. CASE StartTest
    <2>1. tpc' = "prepare" /\ err' = 1
      BY <1>2 DEF StartTest, BeginTest
    <2>2. QED
      BY <2>1 DEF CleanInv, PositionInv
  <1>3. CASE DropProduct \/ EndTest
    <2>1. tpc' = "poll"
      BY <1>3 DEF DropProduct, StartProcess, EndTest
    <2>2. QED
      BY <2>1 DEF CleanInv
  <1>4. CASE Prepare \/ Publish \/ ShowVerdict
    <2>1. /\ UNCHANGED <<prod, err, fault>>
          /\ clean' => clean
          /\ tpc # "poll" /\ tpc' \in {"open", "clear", "led", "rest"}
      <3>1. CASE Prepare
        <4>1. clean' => clean
          BY <3>1 DEF Prepare
        <4>2. UNCHANGED <<prod, err, fault>> /\ tpc = "prepare" /\ tpc' \in {"open", "clear"}
          BY <3>1 DEF Prepare
        <4>3. QED
          BY <4>1, <4>2
      <3>2. CASE Publish \/ ShowVerdict
        BY <3>2 DEF Publish, ShowVerdict
      <3>3. QED
        BY <1>4, <3>1, <3>2
    <2>2. PositionInv'
      BY <2>1 DEF PositionInv
    <2>3. QED
      BY <2>1, <2>2 DEF CleanInv, Works
  <1>5. CASE CtcuStep
    BY <1>5, CleanSwitch
  <1>6. CASE CtrStep
    BY <1>6, CleanCurtain
  <1>7. CASE UNCHANGED vars
    BY <1>7 DEF vars, CleanInv, Works, PositionInv, Outputs
  <1>8. QED
    BY <1>1, <1>2, <1>3, <1>4, <1>5, <1>6, <1>7 DEF Next, TestSwitch

LEMMA WorkingPassesFromIInv == IInv => WorkingPasses
  BY DEF IInv, CleanInv, VerdictInv, WorkingPasses

LEMMA NextIInv == IInv /\ [Next]_vars => IInv'
  BY NextTypeOK, NextScanInv, NextProductInv, NextVerdict, NextReport, NextClean DEF IInv

-----------------------------------------------------------------------------
(* The theorems                                                            *)

\* Every reachable state satisfies the inductive invariant: the scan, the
\* product, the readings and the verdict of a test belong together.
THEOREM Invariance == Spec => []IInv
  BY InitIInv, NextIInv, PTL DEF Spec

\* Every variable keeps its type.
THEOREM TypeCorrectness == Spec => []TypeOK
  BY Invariance, PTL DEF IInv

\* Whatever is scanned and whenever the cloud comes or goes, the report names the
\* code and the mac of one accepted scan, whose product the commands went to.
THEOREM ReportsNameScans == Spec => []ReportNamesScan
  <1>1. IInv => ReportNamesScan
    <2> SUFFICES ASSUME IInv, report # Nothing
                 PROVE  /\ [code |-> report.code, mac |-> report.mac] = accepted
                        /\ addr = Addr[accepted.mac]
      BY DEF ReportNamesScan
    <2>1. report.code = prod_code /\ report.mac = mac /\ startTest
      BY DEF IInv, ProductInv
    <2>2. accepted \in Scans /\ accepted.code = prod_code /\ accepted.mac = mac
          /\ addr = Addr[accepted.mac]
      BY <2>1 DEF IInv, ScanInv, TypeOK
    <2>3. QED
      BY <2>1, <2>2 DEF Scans
  <1>2. QED
    BY Invariance, <1>1, PTL

\* A product whose test shows success works, whatever was lost, came late or was
\* left by the products before it.
LEMMA PassedWorksFromIInv == IInv => PassedWorks
  <1> SUFFICES ASSUME IInv, tpc = "rest", ledSuccess
               PROVE  Works(prod, fault)
    BY DEF PassedWorks
  <1>1. err = 1 /\ prod \in ProductInfo /\ prod.kind \in {"CTCU_BLE", "CTCU_WF", "CTR"}
    BY ProductUnderTest DEF IInv, VerdictInv
  <1>2. CASE prod.kind = "CTR"
    BY <1>1, <1>2 DEF IInv, ReadingInv, Ended, Works
  <1>3. CASE prod.kind # "CTR"
    <2>1. \A k \in Outputs : Pin(prod.num_ele, k) \in Pins
      BY <1>1 DEF Outputs, Pin, Pins, ProductInfo
    <2>2. \A k \in Outputs : fault[Pin(prod.num_ele, k)] = "none"
      BY <1>1, <1>3, <2>1 DEF IInv, TypeOK, ReadingInv, Ended
    <2>3. QED
      BY <1>1, <1>3, <2>2 DEF Works, Outputs
  <1>4. QED
    BY <1>2, <1>3

THEOREM PassedProductsWork == Spec => []PassedWorks
  BY Invariance, PassedWorksFromIInv, PTL

\* A product that works, and hears and answers every command in time, passes.
THEOREM WorkingProductsPass == Spec => []WorkingPasses
  BY Invariance, WorkingPassesFromIInv, PTL

\* The LED and the report agree, for a switch exactly, for a curtain controller
\* in what its verdict depends on.
THEOREM VerdictsAreReports == Spec => []VerdictIsReport
  BY Invariance, VerdictIsReportFromIInv, PTL

-----------------------------------------------------------------------------
(* TestStation implements TestBench                                        *)

LEMMA WorksBoolean == works \in BOOLEAN
  BY DEF works, Works

\* What the accepted scan says of the test in progress.
LEMMA CurrentTest ==
  ASSUME IInv, tpc # "poll"
  PROVE  /\ current = accepted /\ accepted \in Scans /\ accepted # Nothing
         /\ current \in Judgeable
         /\ works = Works(prod, fault)
  <1>1. startTest /\ Testable(prod_code) /\ prod = product_map[prod_code]
    BY DEF IInv, ProductInv
  <1>2. accepted \in Scans /\ accepted # Nothing /\ accepted.code = prod_code
    BY <1>1 DEF IInv, ScanInv, TypeOK
  <1>3. QED
    BY <1>1, <1>2 DEF current, works, Judgeable

\* A scan that raises startTest is an Accept.
LEMMA RaiseStartAccepts ==
  ASSUME IInv, RaiseStart
  PROVE  /\ current = Nothing /\ current' \in Scans
         /\ judgement' = judgement
  <1>1. ~startTest /\ tpc = "poll" /\ scan \in [code : Codes, mac : Macs, dash : BOOLEAN]
    BY DEF RaiseStart, IInv, ScanInv, ProductInv, TypeOK
  <1>2. startTest' /\ tpc' = tpc /\ accepted' = [code |-> scan.code, mac |-> scan.mac]
    BY DEF RaiseStart
  <1>3. QED
    BY <1>1, <1>2 DEF current, judgement, Scans

\* Everything that leaves the accepted scan, its product's faults and the flag
\* alone, outside of "rest", is a stutter.
LEMMA UnseenSteps ==
  ASSUME UNCHANGED <<startTest, accepted, fault>>, tpc # "rest", tpc' # "rest"
  PROVE  UNCHANGED <<current, works, judgement>>
  BY DEF current, works, judgement, Testable, Works

\* TestBench's steps in terms of what it sees.
Accepts == \E s \in Scans : /\ current = Nothing /\ current' = s
                            /\ works' \in BOOLEAN /\ judgement' = judgement
Judges == \E p \in BOOLEAN : /\ current \in Judgeable /\ judgement = Nothing
                             /\ p => works
                             /\ judgement' = [scan |-> current, pass |-> p]
                             /\ current' = current /\ works' = works
Frees == /\ current # Nothing
         /\ judgement # Nothing \/ current \notin Judgeable
         /\ current' = Nothing /\ judgement' = Nothing /\ works' = works

LEMMA SeenSteps ==
  ASSUME Accepts \/ Judges \/ Frees \/ UNCHANGED <<current, works, judgement>>
  PROVE  [Bench!Next]_(Bench!vars)
  <1>1. CASE Accepts
    BY <1>1 DEF Accepts, Bench!Next, Bench!Accept
  <1>2. CASE Judges
    BY <1>2 DEF Judges, Bench!Next, Bench!Judge
  <1>3. CASE Frees
    BY <1>3 DEF Frees, Bench!Next, Bench!Free
  <1>4. CASE UNCHANGED <<current, works, judgement>>
    BY <1>4 DEF Bench!vars
  <1>5. QED
    BY <1>1, <1>2, <1>3, <1>4

LEMMA StepImplementsBench ==
  ASSUME IInv, [Next]_vars
  PROVE  Accepts \/ Judges \/ Frees \/ UNCHANGED <<current, works, judgement>>
  <1> USE DEF Accepts, Judges, Frees
  <1>1. CASE RaiseStart
    <2>1. (works \in BOOLEAN)'
      BY WorksBoolean, PTL
    <2>2. QED
      BY <1>1, <2>1, RaiseStartAccepts
  <1>2. CASE (\E s \in Scans, d \in BOOLEAN : BeginScan(s, d)) \/ WriteFields \/ WriteMac
    <2>1. UNCHANGED <<startTest, accepted, fault>> /\ tpc = "poll" /\ tpc' = "poll"
      BY <1>2 DEF BeginScan, WriteFields, WriteMac, IInv, ScanInv, ProductInv
    <2>2. QED
      BY <2>1, UnseenSteps
  <1>3. CASE \E b \in BOOLEAN : OnCloudConnect(b)
    BY <1>3 DEF OnCloudConnect, current, works, judgement, Testable, Works
  <1>4. CASE StartTest
    <2>1. UNCHANGED <<startTest, accepted, fault>> /\ tpc = "poll" /\ tpc' = "prepare"
      BY <1>4, TestKeepsScan DEF StartTest, StartProcess, BeginTest
    <2>2. QED
      BY <2>1, UnseenSteps
  <1>5. CASE DropProduct
    <2>1. startTest /\ startTest' = FALSE /\ tpc = "poll" /\ tpc' = "poll"
          /\ ~Testable(prod_code) /\ UNCHANGED <<accepted, fault>>
      BY <1>5 DEF DropProduct, StartProcess
    <2>2. current = accepted /\ accepted # Nothing /\ accepted.code = prod_code
      BY <2>1 DEF current, IInv, ScanInv
    <2>3. QED
      BY <2>1, <2>2 DEF current, works, judgement, Judgeable, Testable, Works
  <1>6. CASE Prepare \/ Publish
    <2>1. UNCHANGED <<startTest, accepted, fault>> /\ tpc # "rest" /\ tpc' # "rest"
      BY <1>6 DEF Prepare, Publish
    <2>2. QED
      BY <2>1, UnseenSteps
  <1>7. CASE CtcuStep \/ CtrStep
    <2>1. UNCHANGED <<startTest, accepted, fault>> /\ tpc # "rest" /\ tpc' # "rest"
      BY <1>7, TestKeepsProduct, TestKeepsScan DEF SwitchSteps, TestSwitch, IInv
    <2>2. QED
      BY <2>1, UnseenSteps
  <1>8. CASE ShowVerdict
    <2>1. tpc = "led" /\ tpc' = "rest" /\ UNCHANGED <<startTest, accepted, fault, report, prod, err>>
      BY <1>8 DEF ShowVerdict
    <2>2. ledSuccess' = (err = 1)
      BY <1>8 DEF ShowVerdict
    <2>3. current = accepted /\ current \in Judgeable /\ works = Works(prod, fault)
      BY <2>1, CurrentTest
    <2>4. [code |-> report.code, mac |-> report.mac] = accepted
      <3>1. report.code = accepted.code /\ report.mac = accepted.mac /\ accepted \in Scans
        BY <2>1, CurrentTest DEF IInv, ProductInv, ScanInv
      <3>2. QED
        BY <3>1 DEF Scans
    <2>5. UNCHANGED <<current, works>> /\ judgement = Nothing
          /\ judgement' = [scan |-> current, pass |-> ledSuccess']
      BY <2>1, <2>3, <2>4 DEF current, works, judgement, Testable, Works
    <2>6. IInv'
      BY NextIInv
    <2>7. PassedWorks' /\ works' = Works(prod', fault')
      <3>1. PassedWorks'
        BY <2>6, PassedWorksFromIInv, PTL
      <3>2. QED
        BY <2>1, <2>3, <2>5, <3>1
    <2>8. ledSuccess' \in BOOLEAN /\ (ledSuccess' => works)
      BY <2>1, <2>2, <2>5, <2>7 DEF PassedWorks
    <2>9. QED
      BY <2>3, <2>5, <2>8
  <1>9. CASE EndTest
    <2>1. tpc = "rest" /\ tpc' = "poll" /\ startTest' = FALSE /\ UNCHANGED <<accepted, fault>>
      BY <1>9 DEF EndTest
    <2>2. current = accepted /\ accepted # Nothing
      BY <2>1, CurrentTest
    <2>3. judgement # Nothing
      <3>1. report.code \in Codes /\ report.mac \in Macs /\ ledSuccess \in BOOLEAN
        BY <2>1, CurrentTest DEF IInv, ProductInv, ScanInv, TypeOK, Scans
      <3>2. judgement \in [scan : Scans, pass : BOOLEAN]
        BY <2>1, <3>1 DEF judgement, Scans
      <3>3. QED
        BY <3>2, TestStationAssumption
    <2>4. QED
      BY <2>1, <2>2, <2>3 DEF current, works, judgement, Testable, Works
  <1>10. CASE UNCHANGED vars
    BY <1>10 DEF vars, current, works, judgement, Testable, Works
  <1>11. QED
    BY <1>1, <1>2, <1>3, <1>4, <1>5, <1>6, <1>7, <1>8, <1>9, <1>10
    DEF Next, QrOnMessage, TestSwitch

\* Scanner, test and verdict together implement TestBench: every scan is judged at
\* most once, under its own name, and passes only if its product works.
THEOREM StationImplementsBench == Spec => ImplementsBench
  <1>1. Init => Bench!Init
    BY WorksBoolean DEF Init, Bench!Init, current, judgement
  <1>2. IInv /\ [Next]_vars => [Bench!Next]_(Bench!vars)
    BY StepImplementsBench, SeenSteps
  <1>3. QED
    BY <1>1, <1>2, Invariance, PTL DEF Spec, ImplementsBench, Bench!Spec
=============================================================================
