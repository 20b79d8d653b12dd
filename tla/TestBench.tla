----------------------------- MODULE TestBench -----------------------------
(***************************************************************************)
(* What the station promises about a scan: the scanned product is judged   *)
(* at most once, under its own code and mac, while no other scan can take  *)
(* its place; it passes only if it works; and a product that is not in the *)
(* catalogue of testable ones is dropped without a word.                   *)
(***************************************************************************)
CONSTANTS
  Scans,        \* what a scan identifies: records [code, mac]
  Judgeable,     \* the scans of products the station can test
  Nothing       \* no scan, no judgement

VARIABLES
  current,      \* the scan being served, or Nothing
  works,        \* whether the product on the bench works
  judgement     \* the report on it [scan, pass], or Nothing

vars == <<current, works, judgement>>

Init ==
  /\ current = Nothing
  /\ works \in BOOLEAN
  /\ judgement = Nothing

\* A scan is accepted when none is being served; its product is mounted.
Accept(s) ==
  /\ current = Nothing
  /\ current' = s
  /\ works' \in BOOLEAN
  /\ UNCHANGED judgement

Judge(pass) ==
  /\ current \in Judgeable
  /\ judgement = Nothing
  /\ pass => works
  /\ judgement' = [scan |-> current, pass |-> pass]
  /\ UNCHANGED <<current, works>>

\* The bench is free again: after a judgement, or at once for a product that
\* cannot be tested.
Free ==
  /\ current # Nothing
  /\ judgement # Nothing \/ current \notin Judgeable
  /\ current' = Nothing
  /\ judgement' = Nothing
  /\ UNCHANGED works

Next == (\E s \in Scans : Accept(s)) \/ (\E p \in BOOLEAN : Judge(p)) \/ Free

Spec == Init /\ [][Next]_vars
=============================================================================
