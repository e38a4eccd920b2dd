CONSTANTS
  NPROC = 2
  CPU = {c0, c1}
  None = None
  Hart0 = c0
  LAST = 1
  BOOST = 6
  LEAST = 100
  MaxTime = 9
SPECIFICATION Spec
INVARIANT OneHart
CHECK_DEADLOCK FALSE
