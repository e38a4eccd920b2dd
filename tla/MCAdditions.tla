---------------------------- MODULE MCAdditions ----------------------------
(***************************************************************************)
(* What this repository adds: to the kernel alarms, system call counters,  *)
(* the times of waitx(), and the schedulers MLFQ and LBS, of which         *)
(* SCHEDULER in the Makefile builds in one, and the programs of networks/. *)
(* And what else has to do with interrupts, spin locks and the console.    *)
(* They share no state, so a behaviour is one of them; x1, x2, ... are the *)
(* variables of that part, in the order in which it declares them; those   *)
(* of Spinlock, Alarm and Console, which Interrupts puts side by side,     *)
(* have their own names.                                                   *)
(*   Alarm     alarms of up to three ticks, a program of four points       *)
(*   Spinlock  the harts that the timer interrupts: two, and two threads   *)
(*   Syscount  init, two more processes, four counted calls                *)
(*   Mlfq      one hart, three slots, two queues with slices of one and    *)
(*             four ticks, a boost every sixth tick                        *)
(*   Lbs       one hart, three slots, one to three tickets                 *)
(*   games     the board of the code, two clients                          *)
(*   Chunks    messages of up to three chunks, two from each side          *)
(*   Clock     two harts, two processes, a counter that wraps at 16        *)
(*   Console   rings of two characters for input and one for output; a     *)
(*             reader that may be killed, and a writer                     *)
(***************************************************************************)
EXTENDS Interrupts, TLC

CONSTANTS
  NPROC, CPU,
  MaxCalls, MaxForks, KillingOn, OrphansOn,
  Hart0, LAST, BOOST, LEAST, MaxTime,
  Tickets, MaxStamp,
  N, Client,
  MAX_RETRIES, MAX_CHUNKS, MaxSends, MaxMishaps,
  Process, TICKS_WRAP, FirstTick, Interrupts, HartCount

VARIABLES
  part,
  x1, x2, x3, x4, x5, x6, x7, x8, x9, x10, x11, x12, x13, x14, x15, x16, x17

from13 == <<x13, x14, x15, x16, x17>>
from12 == <<x12, from13>>
from11 == <<x11, from12>>
from10 == <<x10, from11>>
from9 == <<x9, from10>>
all == <<x1, x2, x3, x4, x5, x6, x7, x8, from9>>

fixed == <<vars, user, terminal>>
variables == <<part, fixed, all>>

Counters == INSTANCE Syscount WITH
  state <- x1, parent <- x2, cnt <- x3, pc <- x4, reg <- x5, target <- x6,
  calls <- x7, forks <- x8, due <- x9, raced <- x10, killed <- x11
Mlfq == INSTANCE Mlfq WITH
  state <- x1, queue <- x2, used <- x3, arr <- x4, inKernel <- x5,
  ticks <- x6, sysTime <- x7, cpuProc <- x8, pc <- x9, at <- x10,
  mlfq <- x11, lvl <- x12, best <- x13, least <- x14, dev <- x15,
  boosted <- x16, tmp <- x17
Lbs == INSTANCE Lbs WITH
  MaxTime <- MaxStamp, state <- x1, tickets <- x2, arr <- x3,
  sysTime <- x4, cpuProc <- x5, pc <- x6, child <- x7, at <- x8,
  total <- x9, cur <- x10, win <- x11, winner <- x12
Udp == INSTANCE GameUdp WITH
  board <- x1, current <- x2, client_addrs <- x3, spc <- x4, agreed <- x5,
  in <- x6, out <- x7, cpc <- x8
Tcp == INSTANCE GameTcp WITH
  board <- x1, current <- x2, spc <- x3, i <- x4, ready <- x5, again <- x6,
  in <- x7, out <- x8, cpc <- x9
Messages == INSTANCE Chunks WITH
  mode <- x1, sent <- x2, size <- x3, acked <- x4, retries <- x5,
  total <- x6, got <- x7, rec_buf <- x8, heard <- x9, net <- x10,
  seen <- x11, mishaps <- x12

Amounts == {-1, 2}
Time == INSTANCE Clock WITH
  W <- TICKS_WRAP, Start <- FirstTick, MaxTicks <- Interrupts,
  Harts <- HartCount, Amount <- Amounts, ticks <- x1, time <- x2,
  toCount <- x3, tickslock <- x4, state <- x5, killed <- x6, ctime <- x7,
  etime <- x8, rtime <- x9, call <- x10

ASSUME Udp!BoardAssumption /\ Messages!ChunksAssumption
ASSUME Counters!SyscountAssumption /\ Mlfq!MlfqAssumption /\ Lbs!LbsAssumption
ASSUME Time!ClockAssumption

Zeros13 == x13 = 0 /\ x14 = 0 /\ x15 = 0 /\ x16 = 0 /\ x17 = 0
Zeros12 == x12 = 0 /\ Zeros13
Zeros11 == x11 = 0 /\ Zeros12
Zeros10 == x10 = 0 /\ Zeros11
Zeros9 == x9 = 0 /\ Zeros10
Zeros1 ==
  /\ x1 = 0 /\ x2 = 0 /\ x3 = 0 /\ x4 = 0 /\ x5 = 0 /\ x6 = 0 /\ x7 = 0 /\ x8 = 0
  /\ Zeros9

AddInit ==
  /\ Init /\ User!Init /\ Tty!Init
  /\ \/ part \in {"alarm", "harts", "console"} /\ Zeros1
     \/ part = "syscount" /\ Counters!Init /\ Zeros12
     \/ part = "mlfq" /\ Mlfq!Init
     \/ part = "lbs" /\ Lbs!Init /\ Zeros13
     \/ part = "udp" /\ Udp!Init /\ Zeros9
     \/ part = "tcp" /\ Tcp!Init /\ Zeros10
     \/ part = "chunks" /\ Messages!Init /\ Zeros13
     \/ part = "clock" /\ Time!Init /\ Zeros11

AddNext ==
  \/ part = "alarm" /\ User!Next /\ UNCHANGED <<part, vars, terminal, all>>
  \/ part = "harts" /\ Next /\ UNCHANGED <<part, user, terminal, all>>
  \/ part = "console" /\ Tty!Next /\ UNCHANGED <<part, vars, user, all>>
  \/ /\ UNCHANGED <<part, fixed>>
     /\ \/ part = "syscount" /\ Counters!Next /\ UNCHANGED from12
        \/ part = "mlfq" /\ Mlfq!Next
        \/ part = "lbs" /\ Lbs!Next /\ UNCHANGED from13
        \/ part = "udp" /\ Udp!Next /\ UNCHANGED from9
        \/ part = "tcp" /\ Tcp!Next /\ UNCHANGED from10
        \/ part = "chunks" /\ Messages!Next /\ UNCHANGED from13
        \/ part = "clock" /\ Time!Next /\ UNCHANGED from11

Symmetry == Permutations(Thread)

AddSpec == AddInit /\ [][AddNext]_variables

(* Counters: races and killed children make one too small, never too       *)
(* large, as long as parents outlive their children; it is exact as long   *)
(* as no two updates overlap and every child ends by calling exit().       *)
CountsRight == part = "syscount" => Counters!TypeOK /\ Counters!CountsRight

(* MLFQ: a process in user mode has not used up its slice, and the "=="    *)
(* that ends a slice cannot be jumped over; after a boost every process    *)
(* that can run is in the highest queue.                                   *)
QueuesRight ==
  part = "mlfq" => Mlfq!TypeOK /\ Mlfq!SliceNotOverrun /\ Mlfq!BoostLiftsAll

(* MLFQ: of the processes collected that are still RUNNABLE, the one of    *)
(* the highest queue runs, and in it the first to arrive; the scheduler    *)
(* does not start over while there is one.  LBS: on one hart a draw always *)
(* finds a winner, and of the later slots with as many tickets none        *)
(* arrived before it.                                                      *)
RunsTheBest ==
  [][/\ part = "mlfq" => Mlfq!PicksTheBest
     /\ part = "lbs" => Lbs!TypeOK /\ Lbs!DrawsWinner]_variables

(* Games: the players take turns until one has won or the board is full.   *)
(* TCP: the line a player has sent is one, for what the server asks that   *)
(* player now; in a game the server never waits in vain.  UDP: a mark is   *)
(* placed for the player who sent it, and a new game begins when both have *)
(* agreed.                                                                 *)
GamesFair ==
  /\ part = "tcp" => Tcp!TypeOK /\ Tcp!AnswersMatch /\ Tcp!FairGame
  /\ part = "udp" => Udp!TypeOK /\ Udp!OwnMarks /\ Udp!FairGame

(* Messages: as long as only chunks are lost, and neither side makes up an *)
(* acknowledgement, gives up or sends again what is under way, every       *)
(* message arrives intact, and what is acknowledged has arrived.           *)
FairExchange == part = "chunks" => Messages!TypeOK /\ Messages!FairExchange

(* Clock: a sleeper is woken when its time is over, and not before unless  *)
(* it is killed; and waitx() returns times that add up.                    *)
TimesRight ==
  /\ [](part = "clock" => Time!NobodyOversleeps /\ Time!TimesRight)
  /\ [][part = "clock" =>
          \A p \in Process : Time!IsBack(p) => Time!MayReturn(p)]_variables

=============================================================================
