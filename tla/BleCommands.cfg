SPECIFICATION Spec
CONSTANTS
  Devices = {d1, d2}
  Module = module
  Values = {0, 1}
  PERCENT = 1
  Used <- MCUsed
  NoFrame = NoFrame
  MaxCalls = 2
  MaxReports = 2
SYMMETRY Symmetry
INVARIANTS
  OkMeansDone
  MixedUpOnlyWithTwins
CHECK_DEADLOCK FALSE
