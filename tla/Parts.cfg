SPECIFICATION PartsSpec
CONSTANTS
  StrKeys = {host, mac_kb9}
  IntKeys = {port}
  Values = {v1, v2}
  Default = default
  NoFile = NoFile
  Broken = Broken
  Callers = {c1, c2}
  MaxCalls = 3
  MaxExits = 2
  Handlers = {h1, h2}
  Loggers = {t1, t2}
  backup = backup
  config = config
  prog = prog
  NoDate = NoDate
  Short = Short
  Nowhere = Nowhere
  Gone = Gone
  MaxDay = 3
  Other <- MCOther
  DateOf <- MCDateOf
  maxLogFileSize = 2
  maxNumLogFiles = 2
  Line = 1
  DOUBLE_CLICK_TIME = 1
  Hold <- MCHold
  Never <- MCNever
  MaxTime = 8
  MaxPresses = 2
  Reader = "reader"
  MaxUses = 1
  MaxRestores = 1
  MaxHandled = 3
  MaxTests = 2
  MaxRestarts = 1
  RelayStreams <- MCSent
  RELAY_BUFFER_SIZE = 24
  Slack = 6
  QrStreams <- MCScanned
  QR_BUFFER_SIZE = 2048
  Filters <- MCTopics
  MaxFilters = 5
  Levels = {"", "mac", "hc", "json_req", "m1"}
  Off = Off
SYMMETRY Symmetry
INVARIANTS
  TrueMeansStored
  DeadNeedsATornWrite
  ButtonFaultsNeedARace
  LedsOnAtRest
  PinsShowTheState
  RelaysAreTheBoards
  QrTestIsOfOneCode
  TopicsFindTheirCallbacks
PROPERTIES
  LogsAreTrimmed
CHECK_DEADLOCK FALSE
