-------------------------------- MODULE Mlfq --------------------------------
(***************************************************************************)
(* The multi-level feedback queue scheduler (-DMLFQ): scheduler() of       *)
(* kernel/proc.c, the accounting at the end of usertrap() in kernel/trap.c *)
(* and the arrival stamps set by fork() and wakeup().                      *)
(*                                                                         *)
(* The actor is a hart.  It runs its scheduler loop, or the process        *)
(* cpuProc[c]: in user mode, in a system call ("kernel"), or in the end of *)
(* usertrap().  A p->lock critical section is one action.  The accounting  *)
(* in usertrap() takes no lock, so each of its accesses that another hart  *)
(* can see is an action of its own.                                        *)
(***************************************************************************)
EXTENDS Naturals, FiniteSets

CONSTANTS
  NPROC,       \* slots of proc[]
  CPU, None,
  Hart0,       \* the hart whose timer interrupts advance ticks
  LAST,        \* the lowest queue: 3 in the code
  BOOST,       \* ticks between two boosts: 48 in the code
  LEAST,       \* the first value of leasttime: 1000000 in the code
  MaxTime      \* bound on sys_time

MlfqAssumption ==
  /\ NPROC \in Nat \ {0} /\ Hart0 \in CPU /\ None \notin Nat
  /\ LAST \in Nat \ {0} /\ BOOST \in Nat \ {0} /\ LEAST \in Nat /\ MaxTime \in Nat

Slots == 0 .. NPROC - 1
Queues == 0 .. LAST

VARIABLES
  state,       \* p->state; "NONE" stands for UNUSED and ZOMBIE
  queue, used, arr,  \* p->queue_num, p->ticks_in_queue, p->arrival_time_queue
  inKernel,    \* the processes whose thread resumes in a system call
  ticks,       \* modulo BOOST
  sysTime,     \* sys_time
  cpuProc, pc,
  at,          \* loop index of the scheduler and of the boost
  mlfq,        \* the local queues: slot -> the queue it is in, or None
  lvl, best, least,  \* i, schedule and leasttime of the scheduler
  dev, boosted, tmp  \* which_dev, boosted, and a value read but not written yet

procVars == <<state, queue, used, arr, inKernel>>
schedVars == <<at, mlfq, lvl, best, least>>
trapVars == <<dev, boosted, tmp>>
vars == <<procVars, ticks, sysTime, cpuProc, pc, schedVars, trapVars>>

NoQueue == [p \in Slots |-> None]

TypeOK ==
  /\ state \in [Slots -> {"NONE", "SLEEPING", "RUNNABLE", "RUNNING"}]
  /\ queue \in [Slots -> Queues] /\ used \in [Slots -> Nat]
  /\ arr \in [Slots -> 0 .. MaxTime] /\ inKernel \subseteq Slots
  /\ ticks \in 0 .. BOOST - 1 /\ sysTime \in 0 .. MaxTime
  /\ cpuProc \in [CPU -> Slots \cup {None}]
  /\ pc \in [CPU -> {"queues", "pick", "switch", "user", "kernel", "boost",
                     "count", "store", "device", "yield"}]
  /\ at \in [CPU -> 0 .. NPROC] /\ lvl \in [CPU -> Queues]
  /\ mlfq \in [CPU -> [Slots -> Queues \cup {None}]]
  /\ best \in [CPU -> Slots \cup {None}] /\ least \in [CPU -> 0 .. LEAST]
  /\ dev \in [CPU -> {"none", "timer", "device"}] /\ boosted \subseteq CPU
  /\ tmp \in [CPU -> Nat]

(* The first process is RUNNABLE; allocproc() took two stamps.             *)
Init ==
  /\ state = [p \in Slots |-> IF p = 0 THEN "RUNNABLE" ELSE "NONE"]
  /\ queue = [p \in Slots |-> 0] /\ used = [p \in Slots |-> 0]
  /\ arr = [p \in Slots |-> 0] /\ inKernel = {}
  /\ ticks = 0 /\ sysTime = 2
  /\ cpuProc = [c \in CPU |-> None] /\ pc = [c \in CPU |-> "queues"]
  /\ at = [c \in CPU |-> 0] /\ mlfq = [c \in CPU |-> NoQueue]
  /\ lvl = [c \in CPU |-> 0] /\ best = [c \in CPU |-> None]
  /\ least = [c \in CPU |-> LEAST]
  /\ dev = [c \in CPU |-> "none"] /\ boosted = {} /\ tmp = [c \in CPU |-> 0]

Goto(c, l) == pc' = [pc EXCEPT ![c] = l]

(* The time slice of queue q, in ticks.                                    *)
Slice(q) == IF q = 0 THEN 1 ELSE 2 ^ (q + 1)

(* n times sys_time++.  No lock orders the increments of two harts: one of *)
(* them can be lost.                                                       *)
Stamp(n) ==
  /\ sysTime + n <= MaxTime
  /\ \/ sysTime' = sysTime + n
     \/ Cardinality(CPU) > 1 /\ sysTime' = sysTime + n - 1

(* swtch() back into the scheduler, whose loop starts over.                *)
StartOver(c) ==
  /\ at' = [at EXCEPT ![c] = 0] /\ mlfq' = [mlfq EXCEPT ![c] = NoQueue]
  /\ lvl' = [lvl EXCEPT ![c] = 0] /\ best' = [best EXCEPT ![c] = None]
  /\ least' = [least EXCEPT ![c] = LEAST]
  /\ Goto(c, "queues")

LeaveCpu(c) ==
  /\ cpuProc' = [cpuProc EXCEPT ![c] = None]
  /\ dev' = [dev EXCEPT ![c] = "none"] /\ boosted' = boosted \ {c}
  /\ tmp' = [tmp EXCEPT ![c] = 0]
  /\ StartOver(c)

(***************************************************************************)
(* scheduler()                                                             *)
(***************************************************************************)

(* The first loop: collect the RUNNABLE processes.                         *)
Collect(c) ==
  /\ pc[c] = "queues"
  /\ IF at[c] < NPROC
     THEN /\ at' = [at EXCEPT ![c] = @ + 1]
          /\ mlfq' = IF state[at[c]] = "RUNNABLE"
                     THEN [mlfq EXCEPT ![c][at[c]] = queue[at[c]]] ELSE mlfq
          /\ UNCHANGED pc
     ELSE /\ at' = [at EXCEPT ![c] = 0] /\ UNCHANGED mlfq /\ Goto(c, "pick")
  /\ UNCHANGED <<procVars, ticks, sysTime, cpuProc, lvl, best, least, trapVars>>

(* The end of the j loop: the index past the last slot.                    *)
ScanEnd == NPROC

(* "if (schedule != 0) break;": lower queues are not looked at.            *)
FoundNever(c) == FALSE
Found(c) == best[c] # None

(* The second loop: the process with the least stamp in the first queue    *)
(* that has one.                                                           *)
Pick(c) ==
  LET p == at[c] IN
  /\ pc[c] = "pick" /\ p < ScanEnd
  /\ at' = [at EXCEPT ![c] = p + 1]
  /\ IF mlfq[c][p] = lvl[c] /\ state[p] = "RUNNABLE" /\ least[c] > arr[p]
     THEN best' = [best EXCEPT ![c] = p] /\ least' = [least EXCEPT ![c] = arr[p]]
     ELSE UNCHANGED <<best, least>>
  /\ UNCHANGED <<procVars, ticks, sysTime, cpuProc, pc, mlfq, lvl, trapVars>>

NextLevel(c) ==
  /\ pc[c] = "pick" /\ at[c] = ScanEnd
  /\ ~Found(c) /\ lvl[c] < LAST
  /\ lvl' = [lvl EXCEPT ![c] = @ + 1] /\ at' = [at EXCEPT ![c] = 0]
  /\ UNCHANGED <<procVars, ticks, sysTime, cpuProc, pc, mlfq, best, least, trapVars>>

(* "if (schedule == 0) continue;"                                          *)
Picked(c) ==
  /\ pc[c] = "pick" /\ at[c] = ScanEnd
  /\ Found(c) \/ lvl[c] = LAST
  /\ IF best[c] = None
     THEN StartOver(c)
     ELSE Goto(c, "switch") /\ UNCHANGED schedVars
  /\ UNCHANGED <<procVars, ticks, sysTime, cpuProc, trapVars>>

Switch(c) ==
  LET p == best[c] IN
  /\ pc[c] = "switch"
  /\ IF state[p] = "RUNNABLE"
     THEN /\ state' = [state EXCEPT ![p] = "RUNNING"]
          /\ cpuProc' = [cpuProc EXCEPT ![c] = p]
          /\ at' = [at EXCEPT ![c] = 0] /\ mlfq' = [mlfq EXCEPT ![c] = NoQueue]
          /\ lvl' = [lvl EXCEPT ![c] = 0] /\ best' = [best EXCEPT ![c] = None]
          /\ least' = [least EXCEPT ![c] = LEAST]
          /\ Goto(c, IF p \in inKernel THEN "kernel" ELSE "user")
     ELSE StartOver(c) /\ UNCHANGED <<state, cpuProc>>
  /\ UNCHANGED <<queue, used, arr, inKernel, ticks, sysTime, trapVars>>

(***************************************************************************)
(* Interrupts and system calls.                                            *)
(***************************************************************************)

NextTick(c) == IF c = Hart0 THEN (ticks + 1) % BOOST ELSE ticks

(* wakeup(): the sleeper p gets a new stamp.  An interrupt wakes at most   *)
(* one process here.                                                       *)
Wakeup(p) ==
  /\ state[p] = "SLEEPING"
  /\ state' = [state EXCEPT ![p] = "RUNNABLE"]
  /\ arr' = [arr EXCEPT ![p] = sysTime] /\ Stamp(1)

MayWake ==
  \/ UNCHANGED <<state, arr, sysTime>>
  \/ \E p \in Slots : Wakeup(p)

(* usertrap() after the cause was served: "if (ticks % 48 == 0)".          *)
Tail(c, kind, t) ==
  /\ dev' = [dev EXCEPT ![c] = kind]
  /\ at' = [at EXCEPT ![c] = 0]
  /\ IF t = 0
     THEN boosted' = boosted \cup {c} /\ Goto(c, "boost")
     ELSE /\ UNCHANGED boosted
          /\ Goto(c, CASE kind = "timer" -> "count" [] kind = "device" -> "device"
                       [] OTHER -> "user")
  /\ UNCHANGED <<mlfq, lvl, best, least, tmp>>

(* A timer or device interrupt in user mode.                               *)
UserTimer(c) ==
  /\ pc[c] = "user" /\ ticks' = NextTick(c) /\ MayWake
  /\ Tail(c, "timer", NextTick(c))
  /\ UNCHANGED <<queue, used, inKernel, cpuProc>>

UserDevice(c) ==
  /\ pc[c] = "user" /\ MayWake /\ Tail(c, "device", ticks)
  /\ UNCHANGED <<queue, used, inKernel, ticks, cpuProc>>

(* An interrupt in the scheduler loop.                                     *)
SchedulerInterrupt(c) ==
  /\ pc[c] \in {"queues", "pick", "switch"}
  /\ ticks' \in {ticks, NextTick(c)} /\ MayWake
  /\ UNCHANGED <<queue, used, inKernel, cpuProc, pc, schedVars, trapVars>>

(* kerneltrap(): a timer interrupt in a system call yields, and counts     *)
(* nothing.                                                                *)
KernelTimer(c) ==
  LET p == cpuProc[c] IN
  /\ pc[c] = "kernel" /\ ticks' = NextTick(c)
  /\ \/ /\ state' = [state EXCEPT ![p] = "RUNNABLE"] /\ UNCHANGED <<arr, sysTime>>
     \/ \E q \in Slots :
          /\ state[q] = "SLEEPING" /\ arr' = [arr EXCEPT ![q] = sysTime] /\ Stamp(1)
          /\ state' = [state EXCEPT ![p] = "RUNNABLE", ![q] = "RUNNABLE"]
  /\ LeaveCpu(c)
  /\ UNCHANGED <<queue, used, inKernel>>

Syscall(c) ==
  /\ pc[c] = "user" /\ Goto(c, "kernel")
  /\ inKernel' = inKernel \cup {cpuProc[c]}
  /\ UNCHANGED <<state, queue, used, arr, ticks, sysTime, cpuProc, schedVars, trapVars>>

SyscallEnd(c) ==
  /\ pc[c] = "kernel" /\ inKernel' = inKernel \ {cpuProc[c]}
  /\ Tail(c, "none", ticks)
  /\ UNCHANGED <<state, queue, used, arr, ticks, sysTime, cpuProc>>

SleepCall(c) ==
  /\ pc[c] = "kernel" /\ state' = [state EXCEPT ![cpuProc[c]] = "SLEEPING"]
  /\ LeaveCpu(c)
  /\ UNCHANGED <<queue, used, arr, inKernel, ticks, sysTime>>

Exit(c) ==
  /\ pc[c] = "kernel" /\ state' = [state EXCEPT ![cpuProc[c]] = "NONE"]
  /\ inKernel' = inKernel \ {cpuProc[c]}
  /\ LeaveCpu(c)
  /\ UNCHANGED <<queue, used, arr, ticks, sysTime>>

(* fork(): allocproc() stamps the child, twice; the last stamp goes to the *)
(* parent.                                                                 *)
Fork(c, np) ==
  /\ pc[c] = "kernel" /\ state[np] = "NONE"
  /\ state' = [state EXCEPT ![np] = "RUNNABLE"]
  /\ queue' = [queue EXCEPT ![np] = 0] /\ used' = [used EXCEPT ![np] = 0]
  /\ arr' = [arr EXCEPT ![np] = sysTime, ![cpuProc[c]] = sysTime + 2] /\ Stamp(3)
  /\ UNCHANGED <<inKernel, ticks, cpuProc, pc, schedVars, trapVars>>

(***************************************************************************)
(* The end of usertrap().                                                  *)
(***************************************************************************)

BoostsRunningOnly(p) == state[p] = "RUNNING"
Boosts(p) == state[p] \in {"RUNNABLE", "RUNNING"}

(* What the boost resets.                                                  *)
ResetQueueOnly(p) == queue' = [queue EXCEPT ![p] = 0] /\ UNCHANGED used
ResetQueue(p) ==
  queue' = [queue EXCEPT ![p] = 0] /\ used' = [used EXCEPT ![p] = 0]

(* One turn of the boost loop; its p ends as &proc[NPROC].                 *)
Boost(c) ==
  /\ pc[c] = "boost"
  /\ IF at[c] < NPROC
     THEN /\ at' = [at EXCEPT ![c] = @ + 1] /\ UNCHANGED pc
          /\ IF Boosts(at[c])
             THEN /\ ResetQueue(at[c])
                  /\ arr' = [arr EXCEPT ![at[c]] = sysTime] /\ Stamp(1)
             ELSE UNCHANGED <<queue, used, arr, sysTime>>
     ELSE /\ at' = [at EXCEPT ![c] = 0]
          /\ Goto(c, CASE dev[c] = "timer" -> "yield" [] dev[c] = "device" -> "device"
                       [] OTHER -> "user")
          /\ UNCHANGED <<queue, used, arr, sysTime>>
  /\ boosted' = IF pc'[c] = "user" THEN boosted \ {c} ELSE boosted
  /\ UNCHANGED <<state, inKernel, ticks, cpuProc, mlfq, lvl, best, least, dev, tmp>>

(* queue_num++, where it is not the lowest queue already.                  *)
Demoted(q) == IF q < LAST THEN q + 1 ELSE q

(* p->ticks_in_queue++, without p->lock: the read ...                      *)
Count(c) ==
  /\ pc[c] = "count" /\ tmp' = [tmp EXCEPT ![c] = used[cpuProc[c]] + 1]
  /\ Goto(c, "store")
  /\ UNCHANGED <<procVars, ticks, sysTime, cpuProc, schedVars, dev, boosted>>

(* ... and the write, with the demotion: its p->state = RUNNABLE is not    *)
(* under p->lock either.                                                   *)
Store(c) ==
  LET p == cpuProc[c] IN
  /\ pc[c] = "store"
  /\ IF tmp[c] = Slice(queue[p])
     THEN /\ used' = [used EXCEPT ![p] = 0]
          /\ arr' = [arr EXCEPT ![p] = sysTime] /\ Stamp(1)
          /\ state' = [state EXCEPT ![p] = "RUNNABLE"]
          /\ queue' = [queue EXCEPT ![p] = Demoted(@)]
     ELSE used' = [used EXCEPT ![p] = tmp[c]] /\ UNCHANGED <<arr, sysTime, state, queue>>
  /\ tmp' = [tmp EXCEPT ![c] = 0] /\ Goto(c, "yield")
  /\ UNCHANGED <<inKernel, ticks, cpuProc, schedVars, dev, boosted>>

(* which_dev == 1.  After a boost p is &proc[NPROC], and no process gets   *)
(* the new stamp.                                                          *)
DeviceStamp(c) ==
  LET p == IF c \in boosted THEN NPROC ELSE cpuProc[c] IN
  /\ pc[c] = "device" /\ Stamp(1)
  /\ IF p \in Slots
     THEN arr' = [arr EXCEPT ![p] = sysTime] /\ used' = [used EXCEPT ![p] = 0]
     ELSE UNCHANGED <<arr, used>>
  /\ Goto(c, "yield")
  /\ UNCHANGED <<state, queue, inKernel, ticks, cpuProc, schedVars, trapVars>>

Yield(c) ==
  /\ pc[c] = "yield" /\ state' = [state EXCEPT ![cpuProc[c]] = "RUNNABLE"]
  /\ LeaveCpu(c)
  /\ UNCHANGED <<queue, used, arr, inKernel, ticks, sysTime>>

Next ==
  \E c \in CPU :
    \/ Collect(c) \/ Pick(c) \/ NextLevel(c) \/ Picked(c) \/ Switch(c)
    \/ UserTimer(c) \/ UserDevice(c) \/ SchedulerInterrupt(c) \/ KernelTimer(c)
    \/ Syscall(c) \/ SyscallEnd(c) \/ SleepCall(c) \/ Exit(c)
    \/ \E np \in Slots : Fork(c, np)
    \/ Boost(c) \/ Count(c) \/ Store(c) \/ DeviceStamp(c) \/ Yield(c)

Spec == Init /\ [][Next]_vars

(***************************************************************************)
(* Properties.                                                             *)
(***************************************************************************)

(* A process in user mode has not used up its slice: no path leaves        *)
(* ticks_in_queue beyond the value that usertrap()'s "==" waits for.       *)
SliceNotOverrun ==
  \A c \in CPU : pc[c] = "user" => used[cpuProc[c]] < Slice(queue[cpuProc[c]])

(* scheduler() runs, of the processes it collected that are still          *)
(* RUNNABLE, the one of the highest queue, and in it the first to arrive;  *)
(* and it does not start over while there is one.                          *)
PicksTheBest ==
  \A c \in CPU :
    LET q \prec p == queue[q] < queue[p] \/ (queue[q] = queue[p] /\ arr[q] < arr[p])
        Candidates == {q \in Slots : mlfq[c][q] # None /\ state[q] = "RUNNABLE"}
    IN /\ cpuProc[c] = None /\ cpuProc'[c] # None =>
            \A q \in Candidates \ {cpuProc'[c]} : cpuProc'[c] \prec q
       /\ pc[c] = "pick" /\ pc'[c] = "queues" => Candidates = {}
RunsTheBest == [][PicksTheBest]_vars

(* After a boost every process that can run is in the highest queue.       *)
BoostLiftsAll ==
  \A c \in boosted : pc[c] \in {"device", "yield"} =>
    \A p \in Slots : state[p] \in {"RUNNABLE", "RUNNING"} => queue[p] = 0 /\ used[p] = 0

(* A process is on one hart at a time, and so is its kernel stack.         *)
OneHart ==
  \A c, d \in CPU : c # d /\ cpuProc[c] # None => cpuProc[c] # cpuProc[d]

=============================================================================
