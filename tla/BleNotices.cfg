SPECIFICATION NoticesSpec
CONSTANTS
  Macs = {m1, m2}
  Levels = {near}
  Keys = {k1, k2}
  Queue_Max = 2
  MaxFrames = 4
  MaxScans = 2
  None = None
INVARIANTS
  CrashNeedsAnOldScan
PROPERTIES
  NoticesAreHandled
CHECK_DEADLOCK FALSE
