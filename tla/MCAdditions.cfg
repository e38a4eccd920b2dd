CONSTANTS
  Intervals = {0, 1, 2, 3}
  Rearms = {0}
  ForkCode = {"main"}
  MaxPoint = 3
  MaxTicks = 4
  NPROC = 3
  None = None
  CPU = {c0}
  MaxCalls = 4
  MaxForks = 3
  KillingOn = TRUE
  OrphansOn = FALSE
  Hart0 = c0
  LAST = 1
  BOOST = 6
  LEAST = 100
  MaxTime = 8
  Tickets = {2, 3}
  MaxStamp = 5
  N = 3
  Client = {u1, u2}
  MAX_RETRIES = 5
  MAX_CHUNKS = 3
  MaxSends = 2
  MaxMishaps = 0
  Process = {p1, p2}
  TICKS_WRAP = 16
  FirstTick = 14
  Interrupts = 3
  HartCount = 2
  Hart = {h1, h2}
  Boot = h1
  Thread = {s1, s2}
  tickslock = tickslock
  INPUT_BUF_SIZE = 2
  UART_TX_BUF_SIZE = 1
  INDEX_WRAP = 4
  TX_WRAP = 2
  Reader = {r1}
  Writer = {w1}
  Killable = {r1}
  Uart = uart
  MaxRead = 2
SPECIFICATION AddSpec
SYMMETRY Symmetry
INVARIANTS NoOvershoot LocksRight CountsRight QueuesRight GamesFair FairExchange
INVARIANTS TypedIsRead
PROPERTIES ResumesExactly RunsTheBest TimesRight
CHECK_DEADLOCK FALSE
