SPECIFICATION Spec
CONSTANTS
  NInstance = 2
  NActor = 2
  MaxId = 1
  MaxRequest <- OneEach
  UidOf <- UniqueUid
  MayPause = {}
  MayUnregister = {0}
  MayDispose = {}
  Async = {1, 2}
  NoMethod = {}
INVARIANTS OwnAnswer
CHECK_DEADLOCK FALSE
