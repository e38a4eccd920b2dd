CONSTANTS
  NPROC = 2
  CPU = {c1, c2}
  None = None
  MaxPid = 3
  KillPids = {2}
SPECIFICATION FairSpec
PROPERTIES NoStarvation WaitReturns
