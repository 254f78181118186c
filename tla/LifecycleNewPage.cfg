SPECIFICATION FairSpec
CONSTANTS
  NPage = 2
  Context <- OneContext
  HasTimezone = {}
PROPERTY ChainKeepsRunning
CHECK_DEADLOCK FALSE
