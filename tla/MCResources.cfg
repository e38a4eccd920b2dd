CONSTANTS
  NPages = 9
  Proc = {p1, p2}
  None = None
  RootTables = 3
  LeafTables = 2
  MaxSize = 2
  MaxUses = 1
  NBUF = 3
  Block = {k1, k2, k3, k4}
  User = {u1, u2}
  Value = {0, 1}
  MaxPins = 2
  NFRAME = 8
  PGSIZE = 2
  NPTE = 3
  MAXPAGE = 9
  WRAP = 19
  WORD = 2
  MaxLen = 3
  ShellProcs = 6
  NPIPE = 3
  PIPESIZE = 1
  MAXARGS = 3
  MaxLength = 5
  HEADER = 2
  MINCORE = 4
  HeapEnd = 14
  Request = {0, 3, 8}
  HeapCalls = 8
  BPB = 2
  BSIZE = 2
  NDIRECT = 1
  NINDIRECT = 4
  NMETA = 2
  NBLOCKS = 28
SPECIFICATION ResSpec
SYMMETRY Symmetry
INVARIANTS PagesConserved Coherent MemoryRight ProgramsRight LayoutsSound
CHECK_DEADLOCK FALSE
