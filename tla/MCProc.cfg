CONSTANTS
  NPROC = 3
  CPU = {c1, c2}
  None = None
  MaxPid = 5
  KillPids = {0, 2}
SPECIFICATION Spec
SYMMETRY Symmetry
INVARIANTS OneCpuPerStack SchedAssertions ParentAlive NoLostWakeup ChildStillOurs
PROPERTIES ZombieIsFinal KillsByPid
