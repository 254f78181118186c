SPECIFICATION FairSpec
CONSTANTS
  MaxSession = 3
  MaxFrame = 2
  MaxTime = 4
  None = None
  Overlap = FALSE
  Hasty = FALSE
INVARIANTS TypeOK KeepsItsSource NoStall VideoComplete
PROPERTIES Throttled VideoFinishes DisposeQuiesces
CHECK_DEADLOCK FALSE
