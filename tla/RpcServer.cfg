SPECIFICATION MCSpec
CONSTANTS
  s1 = s1
  m1 = m1
  m2 = m2
  l1 = l1
  l2 = l2
  Requests = {s1, m1, m2, l1, l2}
  Side <- MCSide
  Commands = {"cmd"}
  MaxArray = 2
INVARIANTS
  BusyTellsTheTruth
PROPERTIES
  RequestsEnd
CHECK_DEADLOCK FALSE
