CONSTANTS
  Reader = {r1}
  Writer = {w1, w2}
  None = None
  Byte = {a, b}
  PIPESIZE = 2
  WRAP = 4
  MaxCount = 2
  Killable = {r1}
SPECIFICATION FairSpec
INVARIANTS SleepersHaveReason FreedByLastClose
PROPERTIES IsFifo OtherEndSeen
CHECK_DEADLOCK FALSE
