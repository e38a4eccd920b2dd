CONSTANTS
  Block = {b1, b2, b3}
  Thread = {t1, t2}
  None = None
  MAXOPBLOCKS = 3
  LOGSIZE = 6
  LogSectors = 6
  OpBlocks = 2
  MaxOps = 2
  MaxCrashes = 1
SPECIFICATION FairSpec
INVARIANTS QuiescentIsDurable ReservationsHold
PROPERTIES AtomicOps BeginReturns
CHECK_DEADLOCK FALSE
