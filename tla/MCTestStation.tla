--------------------------- MODULE MCTestStation ---------------------------
(* Instances of TestStation: a switch with two outputs, one with a single  *)
(* output, a curtain controller, a product no case of TestSwitch names and *)
(* a code product_map does not list; at most one output fails.             *)
EXTENDS TestStation, TLC

CONSTANTS ble2, wf1, ctr, other, unlisted, m1, m2, a1

Catalogue ==
  (ble2  :> [kind |-> "CTCU_BLE", num_ele |-> 2]) @@
  (wf1   :> [kind |-> "CTCU_WF",  num_ele |-> 1]) @@
  (ctr   :> [kind |-> "CTR",      num_ele |-> 3]) @@
  (other :> [kind |-> "OTHER",    num_ele |-> 1])

MCProductMap == [c \in Codes \cap DOMAIN Catalogue |-> Catalogue[c]]

\* Both macs lead to one address: their last four digits differ by 0x8000.
MCAddr == [m \in Macs |-> a1]

NoFault == [j \in Pins |-> "none"]
MCFaults == {NoFault} \cup
            {[NoFault EXCEPT ![j] = f] : j \in {0, 1, 3}, f \in {"high", "low"}}

MCPositions == {[j \in Pins |-> v] : v \in BOOLEAN}
=============================================================================
