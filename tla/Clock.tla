-------------------------------- MODULE Clock -------------------------------
(***************************************************************************)
(* kernel/trap.c, sysproc.c and proc.c on time: clockintr(), sleep() and   *)
(* uptime(), and the times that waitx() returns.  ticks is a uint, an      *)
(* integer modulo W here; tickslock is held by the clock while it counts   *)
(* and wakes, and by a process from its look at ticks until it sleeps.     *)
(***************************************************************************)
EXTENDS Integers, FiniteSets

CONSTANTS Process, None, W, Start, MaxTicks, Harts, Amount

ClockAssumption ==
  /\ IsFiniteSet(Process) /\ None \notin Process
  /\ {W, MaxTicks, Harts} \subseteq Nat \ {0} /\ Start \in 0 .. W - 1 /\ Amount \subseteq Int

VARIABLES
  ticks, time,          \* the counter, and the interrupts there have been
  toCount, tickslock,   \* whom update_time() has still to look at; who holds tickslock
  state, killed,
  ctime, etime, rtime,  \* struct proc
  call                  \* a call of sleep(): n, ticks0, when it began, and what killed() last said

clock == <<ticks, time, toCount>>
times == <<ctime, etime, rtime>>
vars == <<clock, tickslock, state, killed, times, call>>

(* No call has begun before the first tick. *)
NoCall == [n |-> 0, ticks0 |-> 0, began |-> -1, killed |-> FALSE]
Uint(x) == x % W
Is(p, s) == state[p] = s
Goes(p, s) == state' = [state EXCEPT ![p] = s]

-----------------------------------------------------------------------------
Clock == "clock"

(* clockintr(): ticks++, update_time() process by process, wakeup().       *)
TickBegins ==
  /\ tickslock = None /\ time < MaxTicks
  /\ tickslock' = Clock
  /\ ticks' = Uint(ticks + 1) /\ time' = time + 1
  /\ toCount' = Process
  /\ UNCHANGED <<state, killed, times, call>>

UpdateTime(p) ==
  /\ tickslock = Clock /\ p \in toCount
  /\ toCount' = toCount \ {p}
  /\ rtime' = IF Is(p, "running") THEN [rtime EXCEPT ![p] = @ + 1] ELSE rtime
  /\ UNCHANGED <<ticks, time, tickslock, state, killed, ctime, etime, call>>

(* Slip: only one sleeper is woken.                                     *)
OneWoken(p) == Is(p, "sleeping") /\ \A q \in Process : Is(q, "sleeping") => p = q

Woken(p) == Is(p, "sleeping")

TickEnds ==
  /\ tickslock = Clock /\ toCount = {}
  /\ state' = [p \in Process |-> IF Woken(p) THEN "runnable" ELSE state[p]]
  /\ tickslock' = None
  /\ UNCHANGED <<clock, killed, times, call>>

-----------------------------------------------------------------------------
(* Slip: rtime is that of the last process in the slot.                 *)
KeptRtime(p) == rtime

FreshRtime(p) == [rtime EXCEPT ![p] = 0]

(* allocproc(): reads ticks without tickslock.                             *)
Fork(p) ==
  /\ Is(p, "unused")
  /\ Goes(p, "runnable")
  /\ killed' = [killed EXCEPT ![p] = FALSE]
  /\ ctime' = [ctime EXCEPT ![p] = ticks]
  /\ etime' = [etime EXCEPT ![p] = 0]
  /\ rtime' = FreshRtime(p)
  /\ UNCHANGED <<clock, tickslock, call>>

Run(p) ==
  /\ Is(p, "runnable")
  /\ Cardinality({q \in Process : Is(q, "running")}) < Harts
  /\ Goes(p, "running")
  /\ UNCHANGED <<clock, tickslock, killed, times, call>>

Yield(p) ==
  /\ Is(p, "running") /\ tickslock # p
  /\ Goes(p, "runnable")
  /\ UNCHANGED <<clock, tickslock, killed, times, call>>

Kill(p) ==
  /\ state[p] \in {"runnable", "running", "sleeping"} /\ ~killed[p]
  /\ killed' = [killed EXCEPT ![p] = TRUE]
  /\ IF Is(p, "sleeping") THEN Goes(p, "runnable") ELSE UNCHANGED state
  /\ UNCHANGED <<clock, tickslock, times, call>>

Exit(p) ==
  /\ Is(p, "running") /\ call[p] = NoCall /\ tickslock # p
  /\ Goes(p, "zombie")
  /\ etime' = [etime EXCEPT ![p] = ticks]
  /\ UNCHANGED <<clock, tickslock, killed, ctime, rtime, call>>

(* waitx() returns rtime and this.                                         *)
Wtime(p) == Uint(etime[p] - ctime[p] - rtime[p])

Waitx(p) ==
  /\ Is(p, "zombie")
  /\ Goes(p, "unused")
  /\ UNCHANGED <<clock, tickslock, killed, times, call>>

-----------------------------------------------------------------------------
(* sys_sleep(): n is compared as a uint.  A kill() that comes between the  *)
(* look at killed and sleep() is not seen before the next tick.            *)
SleepCall(p, n) ==
  /\ Is(p, "running") /\ call[p] = NoCall /\ tickslock = None
  /\ tickslock' = p
  /\ call' = [call EXCEPT ![p] = [n |-> n, ticks0 |-> ticks, began |-> time, killed |-> killed[p]]]
  /\ UNCHANGED <<clock, state, killed, times>>

(* Slip: the times are compared, not their difference.                  *)
NoDifference(p) == ticks < Uint(call[p].ticks0 + call[p].n)

NotYet(p) == Uint(ticks - call[p].ticks0) < Uint(call[p].n)

InSleep(p) == call[p] # NoCall /\ Is(p, "running")

Sleep(p) ==
  /\ InSleep(p) /\ tickslock = p /\ NotYet(p) /\ ~call[p].killed
  /\ Goes(p, "sleeping") /\ tickslock' = None
  /\ UNCHANGED <<clock, killed, times, call>>

(* Awake again, and the lock taken again.                                  *)
Reacquire(p) ==
  /\ InSleep(p) /\ tickslock = None
  /\ tickslock' = p
  /\ call' = [call EXCEPT ![p].killed = killed[p]]
  /\ UNCHANGED <<clock, state, killed, times>>

(* It returns -1 if the process is killed, even before it has slept, and 0 *)
(* when the time is over.                                                  *)
Return(p) ==
  /\ InSleep(p) /\ tickslock = p /\ (~NotYet(p) \/ call[p].killed)
  /\ call' = [call EXCEPT ![p] = NoCall] /\ tickslock' = None
  /\ UNCHANGED <<clock, state, killed, times>>

-----------------------------------------------------------------------------
Init ==
  /\ ticks = Start /\ time = 0 /\ toCount = {} /\ tickslock = None
  /\ state = [p \in Process |-> "unused"]
  /\ killed = [p \in Process |-> FALSE]
  /\ ctime = [p \in Process |-> 0] /\ etime = ctime /\ rtime = ctime
  /\ call = [p \in Process |-> NoCall]

ClockStep == TickBegins \/ (\E p \in Process : UpdateTime(p)) \/ TickEnds

Step(p) ==
  \/ Fork(p) \/ Run(p) \/ Yield(p) \/ Kill(p) \/ Exit(p) \/ Waitx(p)
  \/ (\E n \in Amount : SleepCall(p, n)) \/ Sleep(p) \/ Reacquire(p) \/ Return(p)

Next == ClockStep \/ \E p \in Process : Step(p)

Spec == Init /\ [][Next]_vars

-----------------------------------------------------------------------------
Elapsed(p) == time - call[p].began

(* sleep(n) is over after n ticks, not before, even if the counter wraps   *)
(* around; a negative n is a very large one.                               *)
IsBack(p) == call[p] # NoCall /\ call'[p] = NoCall
MayReturn(p) == killed[p] \/ Elapsed(p) >= Uint(call[p].n)
SleptEnough == [][\A p \in Process : IsBack(p) => MayReturn(p)]_vars

(* Between two clock interrupts nobody sleeps whose time is over.          *)
NobodyOversleeps ==
  tickslock = None => \A p \in Process : Is(p, "sleeping") => Elapsed(p) < Uint(call[p].n)

(* What waitx() says of a process that is gone: the ticks it ran and those *)
(* it did not make up its life.  A process that began to run between the   *)
(* two halves of an interrupt has run one tick more than it lived, and     *)
(* its waiting time may then be -1, the largest uint.                      *)
Life(p) == Uint(etime[p] - ctime[p])
TimesRight ==
  \A p \in Process :
    Is(p, "zombie") =>
      /\ rtime[p] <= Life(p) + 1
      /\ Wtime(p) \in 0 .. Life(p) \cup {W - 1}

=============================================================================
