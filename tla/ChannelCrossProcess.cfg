SPECIFICATION Spec
CONSTANTS
  NInstance = 2
  NActor = 2
  MaxId = 1
  MaxRequest <- OneEach
  UidOf <- UniqueUid
  MayPause = {}
  MayUnregister = {}
  MayDispose = {0}
  Async = {1, 2}
  NoMethod <- LastUnknown
INVARIANTS OwnAnswer ReadyMeansPeer
PROPERTIES NoRerunAfterAnswer ImplementsRpc
CHECK_DEADLOCK FALSE
