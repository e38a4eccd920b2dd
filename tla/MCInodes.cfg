SPECIFICATION FairSpec
CONSTANTS
  Thread = {t1, t2}
  None = None
  NInode = 3
  Name = {"a", "b", ".."}
  DotDot = ".."
  Home = "a"
  Path <- Paths
  NewPath <- NewPaths
  DiskMayFill = TRUE
  MaxCalls = 3
INVARIANTS NoPanic RefsCounted LinksCovered
PROPERTIES CallsReturn
CHECK_DEADLOCK FALSE
