SPECIFICATION FairSpec
CONSTANTS
  ble2 = ble2
  wf1 = wf1
  ctr = ctr
  other = other
  unlisted = unlisted
  m1 = m1
  m2 = m2
  a1 = a1
  Nothing = Nothing
  Codes = {wf1, ctr, unlisted}
  Macs = {m1, m2}
  product_map <- MCProductMap
  Addr <- MCAddr
  Faults <- MCFaults
  Positions <- MCPositions
PROPERTIES
  ScanServed
  TestEnds
  ImplementsBench
