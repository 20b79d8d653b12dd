SPECIFICATION FairSubSpec
CONSTANTS
  Calls = {a, b, u}
  Subscribes = {a, b}
  Callers = {{a, u}, {b}}
  maxTime = 2
  MaxRequests = 4
INVARIANTS
  OkIsGranted
  LateMarksAreRare
PROPERTIES
  AllReturn
CHECK_DEADLOCK FALSE
