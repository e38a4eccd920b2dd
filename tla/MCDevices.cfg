CONSTANTS
  Thread = {t1, t2, t3}
  None = None
  Intr = intr
  NUM = 8
  WRAP = 8
  Starts = {0, 6}
  Data = {0, 1}
  MaxRequests = 4
  Process = {q1, q2, q3}
  First = q1
  NFILE = 3
  NOFILE = 2
  Inode = {o1, d1}
  Device = {d1}
  Page = {g1}
  Nothing = Nothing
  CHUNK = 1
  MaxSize = 3
  MaxWrite = 2
  MaxCalls = 4
  Owner = {i1, i2}
  NBlock = 9
  BPB = 2
  BSIZE = 2
  NDIRECT = 1
  NINDIRECT = 4
  MAXOPBLOCKS = 10
  Foreign = {{3, 5, 7}}
  Count = {7}
  BlockCalls = 3
SPECIFICATION DevSpec
SYMMETRY Symmetry
INVARIANTS DiskSynced FilesCounted BlocksConserved
CHECK_DEADLOCK FALSE
