CONSTANTS
  Thread = {t1, t2, t3}
  None = None
  Intr = intr
  NUM = 8
  WRAP = 8
  Starts = {6}
  Data = {0}
  MaxRequests = 3
SPECIFICATION FairSpec
PROPERTY TransfersEnd
CHECK_DEADLOCK FALSE
