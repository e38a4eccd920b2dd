-------------------------------- MODULE Proc --------------------------------
(***************************************************************************)
(* The process table of kernel/proc.c under the round-robin scheduler:     *)
(* fork, exit, wait, kill, sleep, wakeup, yield, sched and scheduler, run  *)
(* by several CPUs.                                                        *)
(*                                                                         *)
(* The actor is a CPU: it executes either its scheduler loop               *)
(* (cpuProc[c] = None) or the kernel thread of the process cpuProc[c].     *)
(* p->lock (lock[p]) and wait_lock (waitLock) are spinlocks owned by a     *)
(* CPU, as struct spinlock's cpu field says.  A critical section that      *)
(* takes one p->lock and releases it before anything else is one action;   *)
(* a lock held from one action to the next is kept in lock or waitLock.    *)
(***************************************************************************)
EXTENDS Naturals, FiniteSets

CONSTANTS
  NPROC,      \* number of slots of proc[]; slot 0 is initproc
  CPU,        \* the harts
  None,       \* "no cpu", "no process"
  MaxPid,     \* bound on nextpid
  KillPids    \* what programs pass to kill()

ASSUME NPROCAssumption == NPROC \in Nat \ {0}
ASSUME CPUAssumption == None \notin CPU /\ None \notin Nat
ASSUME PidAssumption == MaxPid \in Nat /\ KillPids \subseteq Nat

Slots == 0 .. NPROC - 1
Indices == 0 .. NPROC        \* of a loop over the slots, its end included
Init0 == 0                   \* initproc: the slot userinit() fills

States == {"UNUSED", "USED", "SLEEPING", "RUNNABLE", "RUNNING", "ZOMBIE"}

(***************************************************************************)
(* Program points of a kernel thread.  At the first group it holds no      *)
(* spinlock, so a timer interrupt may preempt it; at the second it holds   *)
(* wait_lock; at the third it holds its own p->lock.                       *)
(***************************************************************************)
OpenPcs == {"user", "ret", "alloc", "fork_parent", "fork_run", "fork_tix",
            "exit", "wait", "kill"}
WaitLockPcs == {"reparent", "wake_init", "wake_parent", "exit_zombie",
                "wait_scan", "sleep_lock", "sleep_go"}
OwnLockPcs == {"sleep_go", "sched", "resume"}
Pcs == OpenPcs \cup WaitLockPcs \cup OwnLockPcs

VARIABLES
  state, parent, pid, chan,   \* the fields of struct proc
  killed,      \* the processes whose p->killed is set
  lock,        \* lock[p]: the CPU that holds p->lock, or None
  waitLock,    \* the CPU that holds wait_lock, or None
  nextpid,
  cpuProc,     \* c->proc
  scan,        \* scheduler()'s p, as an index
  pc,          \* where the kernel thread of the process is
  idx,         \* its loop index over proc[]
  widx,        \* the loop index of the wakeup() it is in
  arg,         \* np in fork, pid in kill
  kids,        \* the processes whose havekids, in wait, is set
  resume       \* where the thread goes on after swtch() returns to it

table == <<state, parent, pid, chan, killed>>
locks == <<lock, waitLock>>
cpus == <<cpuProc, scan>>
regs == <<idx, widx, arg, kids, resume>>
vars == <<table, locks, nextpid, cpus, pc, regs>>

TypeOK ==
  /\ state \in [Slots -> States]
  /\ parent \in [Slots -> Slots \cup {None}]
  /\ pid \in [Slots -> Nat]
  /\ chan \in [Slots -> Slots \cup {None}]
  /\ killed \subseteq Slots
  /\ lock \in [Slots -> CPU \cup {None}]
  /\ waitLock \in CPU \cup {None}
  /\ nextpid \in Nat
  /\ cpuProc \in [CPU -> Slots \cup {None}]
  /\ scan \in [CPU -> Slots]
  /\ pc \in [Slots -> Pcs]
  /\ idx \in [Slots -> Indices]
  /\ widx \in [Slots -> Indices]
  /\ arg \in [Slots -> Nat]
  /\ kids \subseteq Slots
  /\ resume \in [Slots -> OpenPcs]

(* userinit(): slot 0 is RUNNABLE and will start in forkret().             *)
Init ==
  /\ state = [p \in Slots |-> IF p = Init0 THEN "RUNNABLE" ELSE "UNUSED"]
  /\ parent = [p \in Slots |-> None]
  /\ pid = [p \in Slots |-> IF p = Init0 THEN 1 ELSE 0]
  /\ chan = [p \in Slots |-> None]
  /\ killed = {}
  /\ lock = [p \in Slots |-> None]
  /\ waitLock = None
  /\ nextpid = 2
  /\ cpuProc = [c \in CPU |-> None]
  /\ scan = [c \in CPU |-> 0]
  /\ pc = [p \in Slots |-> "resume"]
  /\ idx = [p \in Slots |-> 0]
  /\ widx = [p \in Slots |-> 0]
  /\ arg = [p \in Slots |-> 0]
  /\ kids = {}
  /\ resume = [p \in Slots |-> "user"]

At(c, p, l) == cpuProc[c] = p /\ pc[p] = l
Goto(p, l) == pc' = [pc EXCEPT ![p] = l]
Free(p) == lock[p] = None

(***************************************************************************)
(* Parts of the code below, each preceded by the slips that the mutation   *)
(* checks of the properties put in its place.                              *)
(***************************************************************************)

(* p++ in the loops of scheduler(), which start over after the last slot.  *)
NextSlotStuck(p) == p
NextSlot(p) == (p + 1) % NPROC

(* pp->parent == p in wait and reparent.                                   *)
IsChildOfAny(pp, p) == parent[pp] # None
IsChild(pp, p) == parent[pp] = p

(* "make sure the child isn't still in exit() or swtch()": wait acquires   *)
(* pp->lock before it looks at a child.                                    *)
ChildLockSkipped(pp) == TRUE
ChildLock(pp) == Free(pp)

(* p->state == SLEEPING && p->chan == chan, in wakeup.                     *)
WakesOthers(q, ch) == state[q] = "SLEEPING" /\ chan[q] # ch
Wakes(q, ch) == state[q] = "SLEEPING" /\ chan[q] = ch

(* p->state == SLEEPING, in kill.                                          *)
KillWakesAll(q) == state[q] \notin {"UNUSED", "RUNNING"}
KillWakes(q) == state[q] = "SLEEPING"

(* pp->parent = initproc, in reparent.                                     *)
AdoptZombiesOnly(pp) ==
  parent' = IF state[pp] = "ZOMBIE" THEN [parent EXCEPT ![pp] = Init0] ELSE parent
Adopt(pp) == parent' = [parent EXCEPT ![pp] = Init0]

(* release(lk) in sleep(), and the lock it returns with.                   *)
KeepLk == UNCHANGED waitLock
ReleaseLk == waitLock' = None

(* freeproc(np): what struct proc forgets.                                 *)
FreeProcKilled(np) ==
  /\ state' = [state EXCEPT ![np] = "UNUSED"]
  /\ pid' = [pid EXCEPT ![np] = 0]
  /\ parent' = [parent EXCEPT ![np] = None]
  /\ chan' = [chan EXCEPT ![np] = None]
  /\ UNCHANGED killed
FreeProc(np) ==
  /\ state' = [state EXCEPT ![np] = "UNUSED"]
  /\ pid' = [pid EXCEPT ![np] = 0]
  /\ parent' = [parent EXCEPT ![np] = None]
  /\ chan' = [chan EXCEPT ![np] = None]
  /\ killed' = killed \ {np}

(***************************************************************************)
(* Entering the kernel from user mode, and leaving it.                     *)
(***************************************************************************)

(* usertrap() for a system call, of a process that was not killed.  A      *)
(* program calls fork only while nextpid is below MaxPid (a bound of the   *)
(* model).                                                                 *)
Syscall(c, p) ==
  /\ At(c, p, "user")
  /\ \/ nextpid < MaxPid /\ Goto(p, "alloc") /\ UNCHANGED arg
     \/ Goto(p, "wait") /\ UNCHANGED arg
     \/ p # Init0 /\ Goto(p, "exit") /\ UNCHANGED arg
     \/ \E k \in KillPids : /\ Goto(p, "kill")
                            /\ arg' = [arg EXCEPT ![p] = k]
  /\ p \notin killed
  /\ UNCHANGED <<table, locks, nextpid, cpus, idx, widx, kids, resume>>

(* usertrap(): a killed process that traps, and an unexpected scause,      *)
(* which ends in setkilled(p).  init makes neither.                        *)
Fault(c, p) ==
  /\ At(c, p, "user") /\ p # Init0 /\ Free(p)
  /\ killed' = killed \cup {p}
  /\ Goto(p, "ret")
  /\ UNCHANGED <<state, parent, pid, chan, locks, nextpid, cpus, regs>>

(* The end of usertrap(): if(killed(p)) exit(-1); usertrapret().           *)
Return(c, p) ==
  /\ At(c, p, "ret") /\ Free(p)
  /\ Goto(p, IF p \in killed THEN "exit" ELSE "user")
  /\ UNCHANGED <<table, locks, nextpid, cpus, regs>>

(***************************************************************************)
(* fork() and allocproc().                                                 *)
(***************************************************************************)

(* One turn of allocproc()'s loop, up to the release of np->lock in fork.  *)
(* kalloc or uvmcopy may fail, and then freeproc(np) makes np UNUSED       *)
(* again.                                                                  *)
Alloc(c, p) ==
  LET np == idx[p] IN
  /\ At(c, p, "alloc")
  /\ \/ /\ np < NPROC /\ Free(np) /\ state[np] # "UNUSED"
        /\ idx' = [idx EXCEPT ![p] = np + 1]
        /\ UNCHANGED <<table, nextpid, pc, arg>>
     \/ /\ np < NPROC /\ Free(np) /\ state[np] = "UNUSED"
        /\ nextpid' = nextpid + 1
        /\ idx' = [idx EXCEPT ![p] = 0]
        /\ \/ /\ state' = [state EXCEPT ![np] = "USED"]
              /\ pid' = [pid EXCEPT ![np] = nextpid]
              /\ arg' = [arg EXCEPT ![p] = np]
              /\ Goto(p, "fork_parent")
              /\ UNCHANGED <<parent, chan, killed>>
           \/ FreeProc(np) /\ Goto(p, "ret") /\ UNCHANGED arg
     \/ /\ np = NPROC
        /\ idx' = [idx EXCEPT ![p] = 0]
        /\ Goto(p, "ret")
        /\ UNCHANGED <<table, nextpid, arg>>
  /\ UNCHANGED <<locks, cpus, widx, kids, resume>>

(* acquire(&wait_lock); np->parent = p; release(&wait_lock)                *)
ForkParent(c, p) ==
  /\ At(c, p, "fork_parent") /\ waitLock = None
  /\ parent' = [parent EXCEPT ![arg[p]] = p]
  /\ Goto(p, "fork_run")
  /\ UNCHANGED <<state, pid, chan, killed, locks, nextpid, cpus, regs>>

(* acquire(&np->lock); np->state = RUNNABLE; release(&np->lock)            *)
ForkRun(c, p) ==
  /\ At(c, p, "fork_run") /\ Free(arg[p])
  /\ state' = [state EXCEPT ![arg[p]] = "RUNNABLE"]
  /\ Goto(p, "fork_tix")
  /\ UNCHANGED <<parent, pid, chan, killed, locks, nextpid, cpus, regs>>

(* The second acquire(&np->lock), for np->tickets = p->tickets: the child  *)
(* may already run, or have exited.  The tickets are those of module Lbs.  *)
ForkTickets(c, p) ==
  /\ At(c, p, "fork_tix") /\ Free(arg[p])
  /\ arg' = [arg EXCEPT ![p] = 0]
  /\ Goto(p, "ret")
  /\ UNCHANGED <<table, locks, nextpid, cpus, idx, widx, kids, resume>>

(***************************************************************************)
(* exit(), reparent() and wakeup().                                        *)
(***************************************************************************)

(* acquire(&wait_lock), after the files and the directory are given back.  *)
(* exit() panics in init: it never gets here.                              *)
ExitLock(c, p) ==
  /\ At(c, p, "exit") /\ waitLock = None /\ p # Init0
  /\ waitLock' = c
  /\ Goto(p, "reparent")
  /\ UNCHANGED <<table, lock, nextpid, cpus, regs>>

(* One turn of reparent()'s loop: a child goes to init, which is woken.    *)
Reparent(c, p) ==
  LET pp == idx[p] IN
  /\ At(c, p, "reparent")
  /\ IF pp = NPROC
     THEN /\ idx' = [idx EXCEPT ![p] = 0]
          /\ Goto(p, "wake_parent")
          /\ UNCHANGED parent
     ELSE /\ idx' = [idx EXCEPT ![p] = pp + 1]
          /\ IF IsChild(pp, p)
             THEN Adopt(pp) /\ Goto(p, "wake_init")
             ELSE UNCHANGED <<parent, pc>>
  /\ UNCHANGED <<state, pid, chan, killed, locks, nextpid, cpus, widx, arg,
                 kids, resume>>

(* One turn of wakeup(ch)'s loop, in process p; next is where it returns.  *)
WakeupLoop(p, ch, next) ==
  LET q == widx[p] IN
  IF q = NPROC
  THEN /\ widx' = [widx EXCEPT ![p] = 0]
       /\ Goto(p, next)
       /\ UNCHANGED state
  ELSE /\ q # p => Free(q)
       /\ widx' = [widx EXCEPT ![p] = q + 1]
       /\ state' = IF q # p /\ Wakes(q, ch)
                   THEN [state EXCEPT ![q] = "RUNNABLE"]
                   ELSE state
       /\ UNCHANGED pc

WakeInit(c, p) ==
  /\ At(c, p, "wake_init")
  /\ WakeupLoop(p, Init0, "reparent")
  /\ UNCHANGED <<parent, pid, chan, killed, locks, nextpid, cpus, idx, arg,
                 kids, resume>>

WakeParent(c, p) ==
  /\ At(c, p, "wake_parent")
  /\ WakeupLoop(p, parent[p], "exit_zombie")
  /\ UNCHANGED <<parent, pid, chan, killed, locks, nextpid, cpus, idx, arg,
                 kids, resume>>

(* acquire(&p->lock); p->state = ZOMBIE; release(&wait_lock); sched()      *)
ExitZombie(c, p) ==
  /\ At(c, p, "exit_zombie") /\ Free(p)
  /\ lock' = [lock EXCEPT ![p] = c]
  /\ state' = [state EXCEPT ![p] = "ZOMBIE"]
  /\ waitLock' = None
  /\ Goto(p, "sched")
  /\ UNCHANGED <<parent, pid, chan, killed, nextpid, cpus, regs>>

(***************************************************************************)
(* wait(), waitx() and the sleep() they end in.                            *)
(***************************************************************************)

WaitLock(c, p) ==
  /\ At(c, p, "wait") /\ waitLock = None
  /\ waitLock' = c
  /\ kids' = kids \ {p}
  /\ Goto(p, "wait_scan")
  /\ UNCHANGED <<table, lock, nextpid, cpus, idx, widx, arg, resume>>

(* One turn of the scan over proc[].  A zombie child is freed, unless the  *)
(* copyout of its status fails.                                            *)
WaitScan(c, p) ==
  LET pp == idx[p] IN
  /\ At(c, p, "wait_scan") /\ pp < NPROC
  /\ IsChild(pp, p) => ChildLock(pp)
  /\ \/ /\ IsChild(pp, p) /\ state[pp] = "ZOMBIE"
        /\ idx' = [idx EXCEPT ![p] = 0]
        /\ kids' = kids \ {p}
        /\ FreeProc(pp) \/ UNCHANGED table
        /\ waitLock' = None
        /\ Goto(p, "ret")
     \/ /\ ~(IsChild(pp, p) /\ state[pp] = "ZOMBIE")
        /\ idx' = [idx EXCEPT ![p] = pp + 1]
        /\ kids' = IF IsChild(pp, p) THEN kids \cup {p} ELSE kids
        /\ UNCHANGED <<table, waitLock, pc>>
  /\ UNCHANGED <<lock, nextpid, cpus, widx, arg, resume>>

(* No zombie: give up, or sleep(p, &wait_lock).  wait reads p->killed      *)
(* under p->lock; waitx reads it without.                                  *)
WaitCheck(c, p) ==
  /\ At(c, p, "wait_scan") /\ idx[p] = NPROC
  /\ idx' = [idx EXCEPT ![p] = 0]
  /\ kids' = kids \ {p}
  /\ IF p \notin kids \/ p \in killed
     THEN waitLock' = None /\ Goto(p, "ret")
     ELSE UNCHANGED waitLock /\ Goto(p, "sleep_lock")
  /\ UNCHANGED <<table, lock, nextpid, cpus, widx, arg, resume>>

(* sleep(): acquire(&p->lock), before release(lk).                         *)
SleepLockLate(c, p) ==
  /\ At(c, p, "sleep_lock") /\ Free(p)
  /\ IF waitLock = c THEN waitLock' = None /\ UNCHANGED <<lock, pc>>
     ELSE /\ lock' = [lock EXCEPT ![p] = c]
          /\ Goto(p, "sleep_go")
          /\ UNCHANGED waitLock
  /\ UNCHANGED <<table, nextpid, cpus, regs>>
SleepLock(c, p) ==
  /\ At(c, p, "sleep_lock") /\ Free(p)
  /\ lock' = [lock EXCEPT ![p] = c]
  /\ Goto(p, "sleep_go")
  /\ UNCHANGED <<table, waitLock, nextpid, cpus, regs>>

(* sleep(): release(lk); p->chan = chan; p->state = SLEEPING; sched().     *)
(* wait's loop starts over when it has lk back.                            *)
SleepGo(c, p) ==
  /\ At(c, p, "sleep_go")
  /\ ReleaseLk
  /\ chan' = [chan EXCEPT ![p] = p]
  /\ state' = [state EXCEPT ![p] = "SLEEPING"]
  /\ resume' = [resume EXCEPT ![p] = "wait"]
  /\ Goto(p, "sched")
  /\ UNCHANGED <<parent, pid, killed, lock, nextpid, cpus, idx, widx, arg,
                 kids>>

(***************************************************************************)
(* kill(): one turn of its loop over proc[].                               *)
(***************************************************************************)
KillDone(p) ==
  /\ idx' = [idx EXCEPT ![p] = 0]
  /\ arg' = [arg EXCEPT ![p] = 0]
  /\ Goto(p, "ret")

Kill(c, p) ==
  LET q == idx[p] IN
  /\ At(c, p, "kill")
  /\ \/ /\ q < NPROC /\ Free(q) /\ pid[q] # arg[p]
        /\ idx' = [idx EXCEPT ![p] = q + 1]
        /\ UNCHANGED <<killed, state, arg, pc>>
     \/ /\ q < NPROC /\ Free(q) /\ pid[q] = arg[p]
        /\ killed' = killed \cup {q}
        /\ state' = IF KillWakes(q)
                    THEN [state EXCEPT ![q] = "RUNNABLE"] ELSE state
        /\ KillDone(p)
     \/ q = NPROC /\ KillDone(p) /\ UNCHANGED <<killed, state>>
  /\ UNCHANGED <<parent, pid, chan, locks, nextpid, cpus, widx, kids, resume>>

(***************************************************************************)
(* yield(), sched(), and the return from swtch().                          *)
(***************************************************************************)

(* A timer interrupt at a point where interrupts are on: yield().          *)
Yield(c, p) ==
  /\ cpuProc[c] = p /\ pc[p] \in OpenPcs /\ Free(p)
  /\ lock' = [lock EXCEPT ![p] = c]
  /\ state' = [state EXCEPT ![p] = "RUNNABLE"]
  /\ resume' = [resume EXCEPT ![p] = IF pc[p] = "user" THEN "ret" ELSE pc[p]]
  /\ Goto(p, "sched")
  /\ UNCHANGED <<parent, pid, chan, killed, waitLock, nextpid, cpus, idx, widx,
                 arg, kids>>

(* sched()'s swtch back to scheduler(), which clears c->proc and releases  *)
(* p->lock.                                                                *)
Sched(c, p) ==
  /\ At(c, p, "sched")
  /\ cpuProc' = [cpuProc EXCEPT ![c] = None]
  /\ lock' = [lock EXCEPT ![p] = None]
  /\ scan' = [scan EXCEPT ![c] = NextSlot(p)]
  /\ Goto(p, "resume")
  /\ UNCHANGED <<table, waitLock, nextpid, regs>>

(* swtch returned in yield, sleep or forkret: p->chan = 0, release p->lock *)
Resume(c, p) ==
  /\ At(c, p, "resume")
  /\ chan' = [chan EXCEPT ![p] = None]
  /\ lock' = [lock EXCEPT ![p] = None]
  /\ Goto(p, resume[p])
  /\ resume' = [resume EXCEPT ![p] = "user"]
  /\ UNCHANGED <<state, parent, pid, killed, waitLock, nextpid, cpus, idx, widx,
                 arg, kids>>

(***************************************************************************)
(* scheduler(), round robin: one turn of its loop.                         *)
(***************************************************************************)
Dispatch(c) ==
  LET p == scan[c] IN
  /\ cpuProc[c] = None /\ Free(p)
  /\ IF state[p] = "RUNNABLE"
     THEN /\ lock' = [lock EXCEPT ![p] = c]
          /\ state' = [state EXCEPT ![p] = "RUNNING"]
          /\ cpuProc' = [cpuProc EXCEPT ![c] = p]
          /\ UNCHANGED scan
     ELSE /\ scan' = [scan EXCEPT ![c] = NextSlot(p)]
          /\ UNCHANGED <<lock, state, cpuProc>>
  /\ UNCHANGED <<parent, pid, chan, killed, waitLock, nextpid, pc, regs>>

(* The work of a kernel thread, apart from switching.                      *)
Work(c, p) ==
  \/ Return(c, p)     \/ Alloc(c, p)      \/ ForkParent(c, p)
  \/ ForkRun(c, p)    \/ ForkTickets(c, p)
  \/ ExitLock(c, p)   \/ Reparent(c, p)   \/ WakeInit(c, p)
  \/ WakeParent(c, p) \/ ExitZombie(c, p)
  \/ WaitLock(c, p)   \/ WaitScan(c, p)   \/ WaitCheck(c, p)
  \/ SleepLock(c, p)  \/ SleepGo(c, p)    \/ Kill(c, p)

Switch(c, p) == Sched(c, p) \/ Resume(c, p)

Next ==
  \E c \in CPU :
    \/ Dispatch(c)
    \/ \E p \in Slots : \/ Work(c, p) \/ Switch(c, p) \/ Yield(c, p)
                        \/ Syscall(c, p) \/ Fault(c, p)

Spec == Init /\ [][Next]_vars

(***************************************************************************)
(* Fairness.  Every hart executes its instructions, and the hardware's     *)
(* atomic swap does not starve one hart for ever, so a step that is        *)
(* enabled again and again (a spinlock that is free again and again) is    *)
(* taken: strong fairness.  A time slice is longer than a kernel step, so  *)
(* preemption does not keep a thread from working.  A timer interrupt      *)
(* stays pending until interrupts are on, so Yield is strongly fair too.   *)
(* Nothing is assumed of user mode.                                        *)
(***************************************************************************)
Fairness ==
  /\ \A c \in CPU : SF_vars(Dispatch(c))
  /\ \A p \in Slots : /\ SF_vars(\E c \in CPU : Work(c, p))
                       /\ WF_vars(\E c \in CPU : Switch(c, p))
                       /\ SF_vars(\E c \in CPU : Yield(c, p))

FairSpec == Spec /\ Fairness

(***************************************************************************)
(* Properties.                                                             *)
(***************************************************************************)

(* No kernel stack is in use on two harts: c->proc is injective, and a     *)
(* process whose slot was freed is on no hart (wait: "make sure the child  *)
(* isn't still in exit() or swtch()").                                     *)
OneCpuPerStack ==
  \A c \in CPU : cpuProc[c] # None =>
    /\ state[cpuProc[c]] \notin {"UNUSED", "USED"}
    /\ \A d \in CPU : cpuProc[d] = cpuProc[c] => d = c

(* The panics of sched() cannot happen: p->lock is held by this hart, it   *)
(* holds no other lock (noff is 1), and the state is no longer RUNNING.    *)
SchedAssertions ==
  \A c \in CPU, p \in Slots : At(c, p, "sched") =>
    /\ lock[p] = c /\ waitLock # c
    /\ \A q \in Slots \ {p} : lock[q] # c
    /\ state[p] # "RUNNING"

(* No orphans: the parent of a process is neither a free slot nor a        *)
(* zombie (the purpose of reparent), even in the middle of an exit.        *)
ParentAlive ==
  \A p \in Slots :
    parent[p] # None => state[parent[p]] \notin {"UNUSED", "USED", "ZOMBIE"}

(* No lost wakeup: outside wait_lock's critical sections nobody sleeps in  *)
(* wait() over a child that is already a zombie.                           *)
NoLostWakeup ==
  waitLock = None => \A p, q \in Slots :
    ~(state[p] = "SLEEPING" /\ chan[p] = p /\ parent[q] = p
      /\ state[q] = "ZOMBIE")

(* fork() locks np a third time, to set its tickets: although np may have  *)
(* run and exited meanwhile, the slot still holds that child.              *)
ChildStillOurs ==
  \A p \in Slots : pc[p] \in {"fork_run", "fork_tix"} =>
    /\ parent[arg[p]] = p
    /\ state[arg[p]] # "UNUSED"

(* Nobody dies of a kill() that was meant for another: a mark is set by a  *)
(* kill() with the pid in that slot, or by the process itself; and it      *)
(* stays no longer than that pid, since freeproc() clears it.  A free slot *)
(* has pid 0, so only kill(0) marks one, and only that mark passes to the  *)
(* next process there (proc.c:841).  (And everything has its type.)        *)
KillsByPid ==
  /\ [](TypeOK /\ \A p \in Slots : state[p] = "UNUSED" => pid[p] = 0)
  /\ [][\A p \in Slots :
         /\ p \in killed' \ killed =>
              \/ pc[p] = "user" /\ pc'[p] = "ret"
              \/ \E q \in Slots : pc[q] = "kill" /\ arg[q] = pid[p]
         /\ p \in killed \cap killed' => pid'[p] = pid[p] \/ pid[p] = 0]_vars

(* A zombie never runs again: it leaves that state only when its parent,   *)
(* on some hart and holding wait_lock, frees the slot.                     *)
ZombieIsFinal ==
  [][\A p \in Slots : state[p] = "ZOMBIE" /\ state'[p] # "ZOMBIE" =>
       /\ state'[p] = "UNUSED" /\ lock[p] = None
       /\ waitLock # None /\ cpuProc[waitLock] = parent[p]]_vars

(* Round robin starves nobody: a RUNNABLE process is eventually run.       *)
NoStarvation ==
  \A p \in Slots : state[p] = "RUNNABLE" ~> state[p] # "RUNNABLE"

InWait(p) ==
  \/ pc[p] \in {"wait", "wait_scan", "sleep_lock", "sleep_go"}
  \/ pc[p] \in {"sched", "resume"} /\ resume[p] = "wait"

(* A parent in wait() with a zombie child returns.                         *)
WaitReturns ==
  \A p, q \in Slots :
    (InWait(p) /\ parent[q] = p /\ state[q] = "ZOMBIE") ~> ~InWait(p)

=============================================================================
