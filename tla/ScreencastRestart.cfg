SPECIFICATION FairSpec
CONSTANTS
  MaxSession = 3
  MaxFrame = 2
  MaxTime = 4
  None = None
  Overlap = FALSE
  Hasty = TRUE
INVARIANT KeepsItsSource
CHECK_DEADLOCK FALSE
