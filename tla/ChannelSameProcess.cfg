SPECIFICATION FairSpec
CONSTANTS
  NInstance = 1
  NActor = 2
  MaxId = 2
  MaxRequest <- ParentOnly
  UidOf <- UniqueUid
  MayPause = {1}
  MayUnregister = {1}
  MayDispose = {}
  Async = {1}
  NoMethod = {}
PROPERTIES InOrder CallsSettle
CHECK_DEADLOCK FALSE
