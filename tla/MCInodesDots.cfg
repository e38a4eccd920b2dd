SPECIFICATION Spec
CONSTANTS
  Thread = {t1, t2}
  None = None
  NInode = 3
  Name = {"a", "b", ".."}
  DotDot = ".."
  Home = "a"
  Path <- DotPaths
  NewPath = {}
  DiskMayFill = FALSE
  MaxCalls = 4
INVARIANT NoPanic
CHECK_DEADLOCK FALSE
