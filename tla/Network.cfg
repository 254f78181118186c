SPECIFICATION FairSpec
CONSTANTS
  Load = {1, 2}
  Worker = {2}
  Untracked = {2}
  Cancelled = {1}
  Hops <- MCHops
  MaxRedirect = 1
  Chunk = 2
  MaxBody <- MCMaxBody
  MaxTotalSize = 3
  MaxResponseSize = 2
  None = None
INVARIANTS ClientSeesLife InterceptionServes StorageAccounts
PROPERTY RequestsEnd
CHECK_DEADLOCK FALSE
