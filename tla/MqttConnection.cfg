SPECIFICATION FairSpec
CONSTANTS
  Topics <- MCTopics
  LedTopics <- MCLedTopics
  MaxEvents = 3
  MaxMessages = 1
  MaxTests = 1
INVARIANTS
  LedsAreRight
  ReportReachesCloud
PROPERTIES
  Resubscribed
  ConnectionNoticed
CHECK_DEADLOCK FALSE
