SPECIFICATION FairSpec
CONSTANTS
  NUL = NUL
  BufSize = 3
  PacketSize = 2
  EnableRequest = {enable}
  CloseRequest = {close}
  PageRequest = {page}
  Blank = Blank
  Nobody = Nobody
INVARIANTS Framing NoOrphanSession
PROPERTIES SilentOnceClosed RequestsSettle CloseQuits
CHECK_DEADLOCK FALSE
