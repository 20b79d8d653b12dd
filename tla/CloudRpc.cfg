SPECIFICATION MCSpec
CONSTANTS
  c1 = c1
  c2 = c2
  c3 = c3
  c4 = c4
  l1 = l1
  l2 = l2
  t1 = t1
  t2 = t2
  Calls = {c1, c2, c3, c4, l1, l2}
  Thread <- MCThread
  None = None
  Locals = {l1, l2}
  Given = {c3, c4}
  BinCalls = {c4}
  Wants = {c1, c4, l1}
  RespCmd <- MCRespCmd
  Timeout = 1
  MaxSeconds = 2
  MaxAnswers = 2
INVARIANTS
  OkIsAnswered
  CrashNeedsARace
  CloudOkIsFinal
  LocalDataAreLate
PROPERTIES
  ImplementsRpcCall
  CallsReturn
CHECK_DEADLOCK FALSE
