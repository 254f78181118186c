SPECIFICATION FairSpec
CONSTANTS
  NPage = 3
  Context <- OneContext
  HasTimezone <- OneContext
INVARIANTS SessionsMatchTargets RemovedIsEmpty KeptOnlyWhenLast
PROPERTIES CrashNeverQuits CrashedTabsGo RemovalEnds NewPageSettles
CHECK_DEADLOCK FALSE
