------------------------------ MODULE ProcProof ------------------------------
(***************************************************************************)
(* Proofs about the process table: type correctness, the locking and       *)
(* stack discipline of sched() and scheduler(), the family tree, and the   *)
(* absence of lost wakeups between exit() and wait(), for any number of    *)
(* slots and harts.                                                        *)
(***************************************************************************)
EXTENDS Proc, TLAPS

OnCpu(p) == \E c \in CPU : cpuProc[c] = p

(* The program point of a thread: a switched-out one is at resume[p].      *)
Point(p) == IF pc[p] \in {"sched", "resume"} THEN resume[p] ELSE pc[p]

ForkPcs == {"fork_parent", "fork_run"}

(***************************************************************************)
(* Locking: which thread holds which lock, where the state of a process    *)
(* agrees with its place on a hart.                                        *)
(***************************************************************************)
RunInv ==
  \A c \in CPU : cpuProc[c] # None =>
    /\ \A d \in CPU : cpuProc[d] = cpuProc[c] => d = c
    /\ IF pc[cpuProc[c]] = "sched"
       THEN state[cpuProc[c]] \in {"RUNNABLE", "SLEEPING", "ZOMBIE"}
       ELSE state[cpuProc[c]] = "RUNNING"
    /\ pc[cpuProc[c]] \in OwnLockPcs => lock[cpuProc[c]] = c
    /\ pc[cpuProc[c]] \in WaitLockPcs => waitLock = c

IdleInv ==
  \A p \in Slots :
    /\ ~OnCpu(p) => pc[p] = "resume" /\ state[p] # "RUNNING"
    /\ pc[p] \notin {"sched", "resume"} => resume[p] = "user"

LockInv ==
  /\ \A p \in Slots : lock[p] # None =>
       cpuProc[lock[p]] = p /\ pc[p] \in OwnLockPcs
  /\ waitLock # None =>
       cpuProc[waitLock] # None /\ pc[cpuProc[waitLock]] \in WaitLockPcs

(* The slot a fork fills is USED, and its own.                             *)
ForkInv ==
  \A p \in Slots : Point(p) \in ForkPcs =>
    /\ arg[p] \in Slots /\ state[arg[p]] = "USED"
    /\ \A q \in Slots : Point(q) \in ForkPcs /\ arg[q] = arg[p] => q = p

StackInv == RunInv /\ IdleInv /\ LockInv /\ ForkInv

(***************************************************************************)
(* The family tree.                                                        *)
(***************************************************************************)
Alive == {"SLEEPING", "RUNNABLE", "RUNNING"}

FamilyInv ==
  /\ state[Init0] \in Alive /\ parent[Init0] = None
  /\ \A p \in Slots :
       /\ parent[p] # None => state[parent[p]] \in Alive
       /\ parent[p] # p
       /\ Point(p) = "fork_parent" => parent[arg[p]] = None
       /\ state[p] = "UNUSED" => parent[p] = None
       /\ Point(p) \in {"fork_run", "fork_tix"} =>
            /\ arg[p] \in Slots
            /\ parent[arg[p]] = p /\ state[arg[p]] # "UNUSED"
       /\ Point(p) \notin {"alloc", "reparent", "wake_init", "wait_scan", "kill"} =>
            idx[p] = 0
       /\ pc[p] \in {"reparent", "wake_init"} =>
            /\ p # Init0
            /\ \A q \in Slots : q < idx[p] => parent[q] # p
       /\ pc[p] \in {"wake_parent", "exit_zombie"} =>
            /\ p # Init0
            /\ \A q \in Slots : parent[q] # p

(***************************************************************************)
(* Wakeups.                                                                *)
(***************************************************************************)
Zombie(q, p) == parent[q] = p /\ state[q] = "ZOMBIE"
Sleeper(p) == state[p] = "SLEEPING" /\ chan[p] = p

WakeupInv ==
  /\ \A p, q \in Slots : Sleeper(p) /\ Zombie(q, p) =>
       /\ waitLock # None /\ p = Init0
       /\ pc[cpuProc[waitLock]] = "wake_init" /\ widx[cpuProc[waitLock]] = 0
  /\ \A p \in Slots :
       /\ pc[p] = "wait_scan" =>
            \A q \in Slots : q < idx[p] => ~Zombie(q, p)
       /\ pc[p] \in {"sleep_lock", "sleep_go"} =>
            \A q \in Slots : ~Zombie(q, p)
       /\ pc[p] = "wake_parent" =>
            \A q \in Slots : q < widx[p] /\ q = parent[p] => ~Sleeper(q)
       /\ pc[p] = "exit_zombie" =>
            \A q \in Slots : q = parent[p] => ~Sleeper(q)
       /\ pc[p] \notin {"wake_init", "wake_parent"} => widx[p] = 0

(* freeproc() has taken the pid of a free slot away.                       *)
FreeInv == \A p \in Slots : state[p] = "UNUSED" => pid[p] = 0

(***************************************************************************)
(* Facts about slots and loop indices.                                     *)
(***************************************************************************)
LEMMA Zero ==
  /\ Init0 \in Slots /\ 0 \in Slots /\ 0 \in Indices
  /\ None \notin Slots /\ None \notin CPU
BY NPROCAssumption, CPUAssumption DEF Slots, Indices, Init0

LEMMA SlotIndex ==
  ASSUME NEW p \in Slots
  PROVE  /\ p \in Nat /\ p < NPROC /\ p # NPROC
         /\ p + 1 \in Indices /\ (p + 1) % NPROC \in Slots
BY NPROCAssumption DEF Slots, Indices

LEMMA Below ==
  ASSUME NEW q \in Slots
  PROVE  /\ ~(q < 0) /\ q < NPROC
         /\ \A i \in Slots : q < i + 1 => q < i \/ q = i
BY NPROCAssumption DEF Slots

LEMMA IndexCases ==
  ASSUME NEW i \in Indices
  PROVE  \/ i = NPROC /\ ~(i < NPROC)
         \/ i \in Slots /\ i < NPROC /\ i # NPROC
BY NPROCAssumption DEF Slots, Indices

(* Type correctness of the process table of kernel/proc.c.                 *)
THEOREM TypeCorrect == Spec => []TypeOK
<1>1. Init => TypeOK
  BY Zero DEF Init, TypeOK, Pcs, OpenPcs, OwnLockPcs, States
<1>2. TypeOK /\ [Next]_vars => TypeOK'
  <2> SUFFICES ASSUME TypeOK, [Next]_vars PROVE TypeOK'
    OBVIOUS
  <2> USE DEF TypeOK, Pcs, OpenPcs, OwnLockPcs, WaitLockPcs, States,
              At, Goto, Free, table, locks, cpus, regs
  <2>0. CASE UNCHANGED vars
    BY <2>0 DEF vars
  <2>1. ASSUME NEW c \in CPU, Dispatch(c) PROVE TypeOK'
    <3>1. scan[c] \in Slots /\ (scan[c] + 1) % NPROC \in Slots
      BY SlotIndex
    <3>2. QED
      BY <2>1, <3>1 DEF Dispatch, NextSlot
  <2>2. ASSUME NEW c \in CPU, NEW p \in Slots, Return(c, p) PROVE TypeOK'
    BY <2>2 DEF Return
  <2>3. ASSUME NEW c \in CPU, NEW p \in Slots, Alloc(c, p) PROVE TypeOK'
    <3>1. CASE idx[p] = NPROC /\ ~(idx[p] < NPROC)
      BY <2>3, <3>1, Zero DEF Alloc, FreeProc
    <3>2. CASE idx[p] \in Slots /\ idx[p] < NPROC /\ idx[p] # NPROC
      <4>1. idx[p] + 1 \in Indices
        BY <3>2, SlotIndex
      <4>2. CASE state[idx[p]] # "UNUSED"
        BY <2>3, <3>2, <4>1, <4>2 DEF Alloc, FreeProc
      <4>3. CASE state[idx[p]] = "UNUSED"
        BY SMTT(60), <2>3, <3>2, <4>3, Zero, SlotIndex DEF Alloc, FreeProc
      <4>4. QED
        BY <4>2, <4>3
    <3>3. QED
      BY <3>1, <3>2, IndexCases
  <2>4. ASSUME NEW c \in CPU, NEW p \in Slots, ForkParent(c, p) PROVE TypeOK'
    BY <2>4 DEF ForkParent
  <2>5. ASSUME NEW c \in CPU, NEW p \in Slots, ForkRun(c, p) PROVE TypeOK'
    BY <2>5 DEF ForkRun
  <2>6. ASSUME NEW c \in CPU, NEW p \in Slots, ForkTickets(c, p) PROVE TypeOK'
    BY <2>6 DEF ForkTickets
  <2>7. ASSUME NEW c \in CPU, NEW p \in Slots, ExitLock(c, p) PROVE TypeOK'
    BY <2>7 DEF ExitLock
  <2>8. ASSUME NEW c \in CPU, NEW p \in Slots, Reparent(c, p) PROVE TypeOK'
    <3>1. CASE idx[p] = NPROC /\ ~(idx[p] < NPROC)
      BY <2>8, <3>1, Zero DEF Reparent, IsChild, Adopt
    <3>2. CASE idx[p] \in Slots /\ idx[p] < NPROC /\ idx[p] # NPROC
      <4>1. idx[p] + 1 \in Indices
        BY <3>2, SlotIndex
      <4>2. QED
        BY <2>8, <3>2, <4>1, Zero DEF Reparent, IsChild, Adopt
    <3>3. QED
      BY <3>1, <3>2, IndexCases
  <2>9. ASSUME NEW c \in CPU, NEW p \in Slots, WakeInit(c, p) PROVE TypeOK'
    <3>1. CASE widx[p] = NPROC /\ ~(widx[p] < NPROC)
      BY <2>9, <3>1, Zero DEF WakeInit, WakeupLoop, Wakes
    <3>2. CASE widx[p] \in Slots /\ widx[p] < NPROC /\ widx[p] # NPROC
      <4>1. widx[p] + 1 \in Indices
        BY <3>2, SlotIndex
      <4>2. QED
        BY <2>9, <3>2, <4>1, Zero DEF WakeInit, WakeupLoop, Wakes
    <3>3. QED
      BY <3>1, <3>2, IndexCases
  <2>10. ASSUME NEW c \in CPU, NEW p \in Slots, WakeParent(c, p) PROVE TypeOK'
    <3>1. CASE widx[p] = NPROC /\ ~(widx[p] < NPROC)
      BY <2>10, <3>1, Zero DEF WakeParent, WakeupLoop, Wakes
    <3>2. CASE widx[p] \in Slots /\ widx[p] < NPROC /\ widx[p] # NPROC
      <4>1. widx[p] + 1 \in Indices
        BY <3>2, SlotIndex
      <4>2. QED
        BY <2>10, <3>2, <4>1, Zero DEF WakeParent, WakeupLoop, Wakes
    <3>3. QED
      BY <3>1, <3>2, IndexCases
  <2>11. ASSUME NEW c \in CPU, NEW p \in Slots, ExitZombie(c, p) PROVE TypeOK'
    BY <2>11 DEF ExitZombie
  <2>12. ASSUME NEW c \in CPU, NEW p \in Slots, WaitLock(c, p) PROVE TypeOK'
    BY <2>12 DEF WaitLock
  <2>13. ASSUME NEW c \in CPU, NEW p \in Slots, WaitScan(c, p) PROVE TypeOK'
    <3>1. CASE idx[p] = NPROC /\ ~(idx[p] < NPROC)
      BY <2>13, <3>1, Zero DEF WaitScan, IsChild, ChildLock, FreeProc
    <3>2. CASE idx[p] \in Slots /\ idx[p] < NPROC /\ idx[p] # NPROC
      <4>1. idx[p] + 1 \in Indices
        BY <3>2, SlotIndex
      <4>2. CASE parent[idx[p]] = p /\ state[idx[p]] = "ZOMBIE"
        BY <2>13, <3>2, <4>2, Zero DEF WaitScan, IsChild, ChildLock, FreeProc
      <4>3. CASE ~(parent[idx[p]] = p /\ state[idx[p]] = "ZOMBIE")
        BY <2>13, <3>2, <4>1, <4>3 DEF WaitScan, IsChild, ChildLock, FreeProc
      <4>4. QED
        BY <4>2, <4>3
    <3>3. QED
      BY <3>1, <3>2, IndexCases
  <2>14. ASSUME NEW c \in CPU, NEW p \in Slots, WaitCheck(c, p) PROVE TypeOK'
    BY <2>14, Zero DEF WaitCheck
  <2>15. ASSUME NEW c \in CPU, NEW p \in Slots, SleepLock(c, p) PROVE TypeOK'
    BY <2>15 DEF SleepLock
  <2>16. ASSUME NEW c \in CPU, NEW p \in Slots, SleepGo(c, p) PROVE TypeOK'
    BY <2>16 DEF SleepGo, ReleaseLk
  <2>17. ASSUME NEW c \in CPU, NEW p \in Slots, Kill(c, p) PROVE TypeOK'
    <3>1. CASE idx[p] = NPROC /\ ~(idx[p] < NPROC)
      BY <2>17, <3>1, Zero DEF Kill, KillDone, KillWakes
    <3>2. CASE idx[p] \in Slots /\ idx[p] < NPROC /\ idx[p] # NPROC
      <4>1. idx[p] + 1 \in Indices
        BY <3>2, SlotIndex
      <4>2. CASE pid[idx[p]] # arg[p]
        BY <2>17, <3>2, <4>1, <4>2 DEF Kill, KillWakes
      <4>3. CASE pid[idx[p]] = arg[p]
        BY <2>17, <3>2, <4>3, Zero DEF Kill, KillDone, KillWakes
      <4>4. QED
        BY <4>2, <4>3
    <3>3. QED
      BY <3>1, <3>2, IndexCases
  <2>18. ASSUME NEW c \in CPU, NEW p \in Slots, Sched(c, p) PROVE TypeOK'
    BY <2>18, SlotIndex DEF Sched, NextSlot
  <2>19. ASSUME NEW c \in CPU, NEW p \in Slots, Resume(c, p) PROVE TypeOK'
    BY <2>19 DEF Resume
  <2>20. ASSUME NEW c \in CPU, NEW p \in Slots, Yield(c, p) PROVE TypeOK'
    BY <2>20 DEF Yield
  <2>21. ASSUME NEW c \in CPU, NEW p \in Slots, Syscall(c, p) PROVE TypeOK'
    BY <2>21, PidAssumption DEF Syscall
  <2>22. ASSUME NEW c \in CPU, NEW p \in Slots, Fault(c, p) PROVE TypeOK'
    BY <2>22 DEF Fault
  <2>23. QED
    BY <2>0, <2>1, <2>2, <2>3, <2>4, <2>5, <2>6, <2>7, <2>8, <2>9, <2>10, <2>11, <2>12, <2>13, <2>14, <2>15, <2>16, <2>17, <2>18, <2>19, <2>20, <2>21, <2>22 DEF Next, Work, Switch
<1>3. QED
  BY <1>1, <1>2, PTL DEF Spec

LEMMA StackInductive ==
  TypeOK /\ StackInv /\ [Next]_vars => StackInv'
<1> SUFFICES ASSUME TypeOK, StackInv, [Next]_vars PROVE StackInv'
  OBVIOUS
<1> USE DEF StackInv, RunInv, IdleInv, LockInv, ForkInv, OnCpu, Point, ForkPcs
<1> USE DEF TypeOK, Pcs, OpenPcs, OwnLockPcs, WaitLockPcs, States,
            At, Goto, Free, table, locks, cpus, regs
<1>0. CASE UNCHANGED vars
  BY <1>0 DEF vars
<1>1. ASSUME NEW c \in CPU, Dispatch(c) PROVE StackInv'
  BY <1>1, Zero DEF Dispatch, NextSlot
<1>2. ASSUME NEW c \in CPU, NEW p \in Slots, Return(c, p) PROVE StackInv'
  BY <1>2, Zero DEF Return
<1>3. ASSUME NEW c \in CPU, NEW p \in Slots, Alloc(c, p) PROVE StackInv'
  <2>1. RunInv' /\ IdleInv' /\ LockInv'
    BY <1>3, Zero DEF Alloc, FreeProc
  <2>2. ForkInv'
    <3>1. \A q \in Slots : Point(q) \in ForkPcs => arg[q] # idx[p] \/ state[idx[p]] # "UNUSED"
      OBVIOUS
    <3>2. \A q \in Slots : Point(q)' \in ForkPcs /\ q # p =>
            Point(q) \in ForkPcs /\ arg'[q] = arg[q]
      BY <1>3 DEF Alloc, FreeProc
    <3>3. CASE state' = state
      <4>1. pc'[p] \notin ForkPcs
        BY <1>3, <3>3, IndexCases DEF Alloc, FreeProc
      <4>2. pc'[p] \notin {"sched", "resume"}
        BY <1>3 DEF Alloc, FreeProc
      <4>3. QED
        BY <3>2, <3>3, <4>1, <4>2
    <3>4. CASE state' # state
      <4>1. /\ idx[p] \in Slots /\ state[idx[p]] = "UNUSED"
            /\ state' = [state EXCEPT ![idx[p]] = "USED"]
            /\ arg' = [arg EXCEPT ![p] = idx[p]]
        BY <1>3, <3>4, IndexCases DEF Alloc, FreeProc
      <4>2. QED
        BY <3>1, <3>2, <4>1
    <3>5. QED
      BY <3>3, <3>4
  <2>3. QED
    BY <2>1, <2>2
<1>4. ASSUME NEW c \in CPU, NEW p \in Slots, ForkParent(c, p) PROVE StackInv'
  BY <1>4, Zero DEF ForkParent
<1>5. ASSUME NEW c \in CPU, NEW p \in Slots, ForkRun(c, p) PROVE StackInv'
  BY <1>5, Zero DEF ForkRun
<1>6. ASSUME NEW c \in CPU, NEW p \in Slots, ForkTickets(c, p) PROVE StackInv'
  BY <1>6, Zero DEF ForkTickets
<1>7. ASSUME NEW c \in CPU, NEW p \in Slots, ExitLock(c, p) PROVE StackInv'
  BY <1>7, Zero, Below DEF ExitLock
<1>8. ASSUME NEW c \in CPU, NEW p \in Slots, Reparent(c, p) PROVE StackInv'
  BY <1>8, Zero DEF Reparent, IsChild, Adopt
<1>9. ASSUME NEW c \in CPU, NEW p \in Slots, WakeInit(c, p) PROVE StackInv'
  BY <1>9, Zero DEF WakeInit, WakeupLoop, Wakes
<1>10. ASSUME NEW c \in CPU, NEW p \in Slots, WakeParent(c, p) PROVE StackInv'
  BY <1>10, Zero DEF WakeParent, WakeupLoop, Wakes
<1>11. ASSUME NEW c \in CPU, NEW p \in Slots, ExitZombie(c, p) PROVE StackInv'
  BY <1>11, Zero DEF ExitZombie
<1>12. ASSUME NEW c \in CPU, NEW p \in Slots, WaitLock(c, p) PROVE StackInv'
  BY <1>12, Zero, Below DEF WaitLock
<1>13. ASSUME NEW c \in CPU, NEW p \in Slots, WaitScan(c, p) PROVE StackInv'
  BY <1>13, Zero DEF WaitScan, IsChild, ChildLock, FreeProc
<1>14. ASSUME NEW c \in CPU, NEW p \in Slots, WaitCheck(c, p) PROVE StackInv'
  BY <1>14, Zero DEF WaitCheck
<1>15. ASSUME NEW c \in CPU, NEW p \in Slots, SleepLock(c, p) PROVE StackInv'
  BY <1>15, Zero DEF SleepLock
<1>16. ASSUME NEW c \in CPU, NEW p \in Slots, SleepGo(c, p) PROVE StackInv'
  BY <1>16, Zero DEF SleepGo, ReleaseLk
<1>17. ASSUME NEW c \in CPU, NEW p \in Slots, Kill(c, p) PROVE StackInv'
  BY <1>17, Zero DEF KillDone, KillWakes, Kill
<1>18. ASSUME NEW c \in CPU, NEW p \in Slots, Sched(c, p) PROVE StackInv'
  BY <1>18, Zero DEF Sched, NextSlot
<1>19. ASSUME NEW c \in CPU, NEW p \in Slots, Resume(c, p) PROVE StackInv'
  BY <1>19, Zero DEF Resume
<1>20. ASSUME NEW c \in CPU, NEW p \in Slots, Yield(c, p) PROVE StackInv'
  BY <1>20, Zero DEF Yield
<1>21. ASSUME NEW c \in CPU, NEW p \in Slots, Syscall(c, p) PROVE StackInv'
  BY <1>21, Zero DEF Syscall
<1>22. ASSUME NEW c \in CPU, NEW p \in Slots, Fault(c, p) PROVE StackInv'
  BY <1>22, Zero DEF Fault
<1>23. QED
  BY ZenonT(60), <1>0, <1>1, <1>2, <1>3, <1>4, <1>5, <1>6, <1>7, <1>8, <1>9, <1>10, <1>11, <1>12, <1>13, <1>14, <1>15, <1>16, <1>17, <1>18, <1>19, <1>20, <1>21, <1>22 DEF Next, Work, Switch

LEMMA FamilyInductive ==
  TypeOK /\ StackInv /\ FamilyInv /\ [Next]_vars => FamilyInv'
<1> SUFFICES ASSUME TypeOK, StackInv, FamilyInv, [Next]_vars PROVE FamilyInv'
  OBVIOUS
<1> USE DEF FamilyInv, Alive
<1> USE DEF StackInv, RunInv, IdleInv, LockInv, ForkInv, OnCpu, Point, ForkPcs
<1> USE DEF TypeOK, Pcs, OpenPcs, OwnLockPcs, WaitLockPcs, States,
            At, Goto, Free, table, locks, cpus, regs
<1>0. CASE UNCHANGED vars
  BY <1>0 DEF vars
<1>1. ASSUME NEW c \in CPU, Dispatch(c) PROVE FamilyInv'
  BY <1>1, Zero DEF Dispatch, NextSlot
<1>2. ASSUME NEW c \in CPU, NEW p \in Slots, Return(c, p) PROVE FamilyInv'
  BY <1>2, Zero DEF Return
<1>3. ASSUME NEW c \in CPU, NEW p \in Slots, Alloc(c, p) PROVE FamilyInv'
  <2>1. CASE idx[p] = NPROC
    BY <1>3, <2>1, Zero, IndexCases DEF Alloc, FreeProc
  <2>2. CASE idx[p] \in Slots /\ state[idx[p]] # "UNUSED"
    BY <1>3, <2>2, Zero, Below DEF Alloc, FreeProc
  <2>3. CASE idx[p] \in Slots /\ state[idx[p]] = "UNUSED"
    <3>1. CASE state' = [state EXCEPT ![idx[p]] = "USED"]
      BY SMTT(60), <1>3, <2>3, <3>1, Zero, Below DEF Alloc, FreeProc
    <3>2. CASE state' # [state EXCEPT ![idx[p]] = "USED"]
      BY <1>3, <2>3, <3>2, Zero, Below DEF Alloc, FreeProc
    <3>3. QED
      BY <3>1, <3>2
  <2>4. QED
    BY <2>1, <2>2, <2>3, IndexCases
<1>4. ASSUME NEW c \in CPU, NEW p \in Slots, ForkParent(c, p) PROVE FamilyInv'
  BY <1>4, Zero DEF ForkParent
<1>5. ASSUME NEW c \in CPU, NEW p \in Slots, ForkRun(c, p) PROVE FamilyInv'
  BY <1>5, Zero DEF ForkRun
<1>6. ASSUME NEW c \in CPU, NEW p \in Slots, ForkTickets(c, p) PROVE FamilyInv'
  BY <1>6, Zero DEF ForkTickets
<1>7. ASSUME NEW c \in CPU, NEW p \in Slots, ExitLock(c, p) PROVE FamilyInv'
  BY <1>7, Zero, Below DEF ExitLock
<1>8. ASSUME NEW c \in CPU, NEW p \in Slots, Reparent(c, p) PROVE FamilyInv'
  <2>1. CASE idx[p] = NPROC
    BY <1>8, <2>1, Zero, SlotIndex DEF Reparent, IsChild, Adopt
  <2>2. CASE idx[p] \in Slots
    <3>1. \A q \in Slots : q < idx[p] + 1 => q < idx[p] \/ q = idx[p]
      BY <2>2, Below
    <3>2. idx[p] # NPROC
      BY <2>2, SlotIndex
    <3>3. QED
      BY <1>8, <2>2, <3>1, <3>2, Zero DEF Reparent, IsChild, Adopt
  <2>3. QED
    BY <2>1, <2>2, IndexCases
<1>9. ASSUME NEW c \in CPU, NEW p \in Slots, WakeInit(c, p) PROVE FamilyInv'
  BY <1>9, Zero DEF WakeInit, WakeupLoop, Wakes
<1>10. ASSUME NEW c \in CPU, NEW p \in Slots, WakeParent(c, p) PROVE FamilyInv'
  BY <1>10, Zero DEF WakeParent, WakeupLoop, Wakes
<1>11. ASSUME NEW c \in CPU, NEW p \in Slots, ExitZombie(c, p) PROVE FamilyInv'
  BY <1>11, Zero DEF ExitZombie
<1>12. ASSUME NEW c \in CPU, NEW p \in Slots, WaitLock(c, p) PROVE FamilyInv'
  BY <1>12, Zero, Below DEF WaitLock
<1>13. ASSUME NEW c \in CPU, NEW p \in Slots, WaitScan(c, p) PROVE FamilyInv'
  BY <1>13, Zero DEF WaitScan, IsChild, ChildLock, FreeProc
<1>14. ASSUME NEW c \in CPU, NEW p \in Slots, WaitCheck(c, p) PROVE FamilyInv'
  BY <1>14, Zero DEF WaitCheck
<1>15. ASSUME NEW c \in CPU, NEW p \in Slots, SleepLock(c, p) PROVE FamilyInv'
  BY <1>15, Zero DEF SleepLock
<1>16. ASSUME NEW c \in CPU, NEW p \in Slots, SleepGo(c, p) PROVE FamilyInv'
  BY <1>16, Zero DEF SleepGo, ReleaseLk
<1>17. ASSUME NEW c \in CPU, NEW p \in Slots, Kill(c, p) PROVE FamilyInv'
  BY <1>17, Zero DEF KillDone, KillWakes, Kill
<1>18. ASSUME NEW c \in CPU, NEW p \in Slots, Sched(c, p) PROVE FamilyInv'
  BY <1>18, Zero DEF Sched, NextSlot
<1>19. ASSUME NEW c \in CPU, NEW p \in Slots, Resume(c, p) PROVE FamilyInv'
  BY <1>19, Zero DEF Resume
<1>20. ASSUME NEW c \in CPU, NEW p \in Slots, Yield(c, p) PROVE FamilyInv'
  BY <1>20, Zero DEF Yield
<1>21. ASSUME NEW c \in CPU, NEW p \in Slots, Syscall(c, p) PROVE FamilyInv'
  BY <1>21, Zero DEF Syscall
<1>22. ASSUME NEW c \in CPU, NEW p \in Slots, Fault(c, p) PROVE FamilyInv'
  BY <1>22, Zero DEF Fault
<1>23. QED
  BY SMTT(60), ZenonT(60), <1>0, <1>1, <1>2, <1>3, <1>4, <1>5, <1>6, <1>7, <1>8, <1>9, <1>10, <1>11, <1>12, <1>13, <1>14, <1>15, <1>16, <1>17, <1>18, <1>19, <1>20, <1>21, <1>22 DEF Next, Work, Switch

LEMMA WakeupInductive ==
  TypeOK /\ StackInv /\ FamilyInv /\ WakeupInv /\ [Next]_vars => WakeupInv'
<1> SUFFICES ASSUME TypeOK, StackInv, FamilyInv, WakeupInv, [Next]_vars PROVE WakeupInv'
  OBVIOUS
<1> USE DEF WakeupInv, FamilyInv, Alive, Zombie, Sleeper
<1> USE DEF StackInv, RunInv, IdleInv, LockInv, ForkInv, OnCpu, Point, ForkPcs
<1> USE DEF TypeOK, Pcs, OpenPcs, OwnLockPcs, WaitLockPcs, States,
            At, Goto, Free, table, locks, cpus, regs
<1>0. CASE UNCHANGED vars
  BY <1>0 DEF vars
<1>1. ASSUME NEW c \in CPU, Dispatch(c) PROVE WakeupInv'
  BY <1>1, Zero DEF Dispatch, NextSlot
<1>2. ASSUME NEW c \in CPU, NEW p \in Slots, Return(c, p) PROVE WakeupInv'
  BY <1>2, Zero DEF Return
<1>3. ASSUME NEW c \in CPU, NEW p \in Slots, Alloc(c, p) PROVE WakeupInv'
  BY <1>3, Zero DEF Alloc, FreeProc
<1>4. ASSUME NEW c \in CPU, NEW p \in Slots, ForkParent(c, p) PROVE WakeupInv'
  BY <1>4, Zero DEF ForkParent
<1>5. ASSUME NEW c \in CPU, NEW p \in Slots, ForkRun(c, p) PROVE WakeupInv'
  BY <1>5, Zero DEF ForkRun
<1>6. ASSUME NEW c \in CPU, NEW p \in Slots, ForkTickets(c, p) PROVE WakeupInv'
  BY <1>6, Zero DEF ForkTickets
<1>7. ASSUME NEW c \in CPU, NEW p \in Slots, ExitLock(c, p) PROVE WakeupInv'
  BY <1>7, Zero, Below DEF ExitLock
<1>8. ASSUME NEW c \in CPU, NEW p \in Slots, Reparent(c, p) PROVE WakeupInv'
  <2>1. CASE idx[p] = NPROC
    BY <1>8, <2>1, Zero, Below DEF Reparent, IsChild, Adopt
  <2>2. CASE idx[p] \in Slots
    <3>1. CASE parent[idx[p]] = p
      BY <1>8, <2>2, <3>1, Zero, SlotIndex DEF Reparent, IsChild, Adopt
    <3>2. CASE parent[idx[p]] # p
      BY <1>8, <2>2, <3>2, Zero, SlotIndex DEF Reparent, IsChild, Adopt
    <3>3. QED
      BY <3>1, <3>2
  <2>3. QED
    BY <2>1, <2>2, IndexCases
<1>9. ASSUME NEW c \in CPU, NEW p \in Slots, WakeInit(c, p) PROVE WakeupInv'
  <2>1. CASE widx[p] = NPROC
    BY SMTT(60), <1>9, <2>1, Zero, SlotIndex DEF WakeInit, WakeupLoop, Wakes
  <2>2. CASE widx[p] \in Slots
    <3>1. \A q \in Slots : q < widx[p] + 1 => q < widx[p] \/ q = widx[p]
      BY <2>2, Below
    <3>2. widx[p] # NPROC
      BY <2>2, SlotIndex
    <3>3. QED
      BY <1>9, <2>2, <3>1, <3>2, Zero DEF WakeInit, WakeupLoop, Wakes, Init0
  <2>3. QED
    BY <2>1, <2>2, IndexCases
<1>10. ASSUME NEW c \in CPU, NEW p \in Slots, WakeParent(c, p) PROVE WakeupInv'
  <2>1. CASE widx[p] = NPROC
    BY <1>10, <2>1, Zero, SlotIndex DEF WakeParent, WakeupLoop, Wakes
  <2>2. CASE widx[p] \in Slots
    <3>1. \A q \in Slots : q < widx[p] + 1 => q < widx[p] \/ q = widx[p]
      BY <2>2, Below
    <3>2. widx[p] # NPROC
      BY <2>2, SlotIndex
    <3>3. QED
      BY <1>10, <2>2, <3>1, <3>2, Zero DEF WakeParent, WakeupLoop, Wakes
  <2>3. QED
    BY <2>1, <2>2, IndexCases
<1>11. ASSUME NEW c \in CPU, NEW p \in Slots, ExitZombie(c, p) PROVE WakeupInv'
  BY <1>11, Zero DEF ExitZombie
<1>12. ASSUME NEW c \in CPU, NEW p \in Slots, WaitLock(c, p) PROVE WakeupInv'
  BY <1>12, Zero, Below DEF WaitLock
<1>13. ASSUME NEW c \in CPU, NEW p \in Slots, WaitScan(c, p) PROVE WakeupInv'
  <2>1. CASE idx[p] = NPROC
    BY <1>13, <2>1, Zero, SlotIndex DEF WaitScan, IsChild, ChildLock, FreeProc
  <2>2. CASE idx[p] \in Slots
    <3>1. \A q \in Slots : q < idx[p] + 1 => q < idx[p] \/ q = idx[p]
      BY <2>2, Below
    <3>2. idx[p] # NPROC
      BY <2>2, SlotIndex
    <3>3. QED
      <4>1. CASE parent[idx[p]] = p /\ state[idx[p]] = "ZOMBIE"
        <5>0. waitLock = c /\ cpuProc[c] = p /\ pc[p] = "wait_scan" /\ c # None
          BY <1>13, Zero DEF WaitScan, IsChild, ChildLock, FreeProc
        <5>1. \A q, r \in Slots : ~(Sleeper(r) /\ Zombie(q, r))
          BY <5>0
        <5>2. \A q, r \in Slots : /\ Sleeper(r)' => Sleeper(r)
                                  /\ Zombie(q, r)' => Zombie(q, r)
          BY <1>13, <2>2, <3>2, <4>1, Zero DEF WaitScan, IsChild, ChildLock, FreeProc
        <5>3. /\ widx' = widx /\ pc' = [pc EXCEPT ![p] = "ret"]
              /\ idx' = [idx EXCEPT ![p] = 0]
          BY <1>13, <4>1 DEF WaitScan, IsChild, ChildLock, FreeProc
        <5>4. ASSUME NEW r \in Slots, pc[r] \in WaitLockPcs PROVE r = p
          <6>1. PICK d \in CPU : cpuProc[d] = r
            BY <5>4
          <6>2. QED
            BY <5>0, <5>4, <6>1, Zero
        <5>5. \A r \in Slots : pc'[r] \notin WaitLockPcs /\ widx'[r] = 0
          BY <5>0, <5>3, <5>4
        <5>6. QED
          BY <5>1, <5>2, <5>5
      <4>2. CASE ~(parent[idx[p]] = p /\ state[idx[p]] = "ZOMBIE")
        BY <1>13, <2>2, <3>1, <3>2, <4>2, Zero DEF WaitScan, IsChild, ChildLock, FreeProc
      <4>3. QED
        BY <4>1, <4>2
  <2>3. QED
    BY <2>1, <2>2, IndexCases
<1>14. ASSUME NEW c \in CPU, NEW p \in Slots, WaitCheck(c, p) PROVE WakeupInv'
  BY <1>14, Zero, SlotIndex DEF WaitCheck
<1>15. ASSUME NEW c \in CPU, NEW p \in Slots, SleepLock(c, p) PROVE WakeupInv'
  BY <1>15, Zero DEF SleepLock
<1>16. ASSUME NEW c \in CPU, NEW p \in Slots, SleepGo(c, p) PROVE WakeupInv'
  BY <1>16, Zero DEF SleepGo, ReleaseLk
<1>17. ASSUME NEW c \in CPU, NEW p \in Slots, Kill(c, p) PROVE WakeupInv'
  BY SMTT(60), <1>17, Zero DEF KillDone, KillWakes, Kill
<1>18. ASSUME NEW c \in CPU, NEW p \in Slots, Sched(c, p) PROVE WakeupInv'
  BY <1>18, Zero DEF Sched, NextSlot
<1>19. ASSUME NEW c \in CPU, NEW p \in Slots, Resume(c, p) PROVE WakeupInv'
  BY <1>19, Zero DEF Resume
<1>20. ASSUME NEW c \in CPU, NEW p \in Slots, Yield(c, p) PROVE WakeupInv'
  BY <1>20, Zero DEF Yield
<1>21. ASSUME NEW c \in CPU, NEW p \in Slots, Syscall(c, p) PROVE WakeupInv'
  BY <1>21, Zero DEF Syscall
<1>22. ASSUME NEW c \in CPU, NEW p \in Slots, Fault(c, p) PROVE WakeupInv'
  BY <1>22, Zero DEF Fault
<1>23. QED
  BY <1>0, <1>1, <1>2, <1>3, <1>4, <1>5, <1>6, <1>7, <1>8, <1>9, <1>10, <1>11, <1>12, <1>13, <1>14, <1>15, <1>16, <1>17, <1>18, <1>19, <1>20, <1>21, <1>22 DEF Next, Work, Switch

LEMMA FreeInductive ==
  TypeOK /\ StackInv /\ FreeInv /\ [Next]_vars => FreeInv'
<1> SUFFICES ASSUME TypeOK, StackInv, FreeInv, [Next]_vars PROVE FreeInv'
  OBVIOUS
<1> USE DEF FreeInv
<1> USE DEF StackInv, RunInv, IdleInv, LockInv, ForkInv, OnCpu, Point, ForkPcs
<1> USE DEF TypeOK, Pcs, OpenPcs, OwnLockPcs, WaitLockPcs, States,
            At, Goto, Free, table, locks, cpus, regs
<1>0. CASE UNCHANGED vars
  BY <1>0 DEF vars
<1>1. ASSUME NEW c \in CPU, Dispatch(c) PROVE FreeInv'
  BY <1>1, Zero DEF Dispatch, NextSlot
<1>2. ASSUME NEW c \in CPU, NEW p \in Slots, Return(c, p) PROVE FreeInv'
  BY <1>2, Zero DEF Return
<1>3. ASSUME NEW c \in CPU, NEW p \in Slots, Alloc(c, p) PROVE FreeInv'
  BY <1>3, Zero DEF Alloc, FreeProc
<1>4. ASSUME NEW c \in CPU, NEW p \in Slots, ForkParent(c, p) PROVE FreeInv'
  BY <1>4, Zero DEF ForkParent
<1>5. ASSUME NEW c \in CPU, NEW p \in Slots, ForkRun(c, p) PROVE FreeInv'
  BY <1>5, Zero DEF ForkRun
<1>6. ASSUME NEW c \in CPU, NEW p \in Slots, ForkTickets(c, p) PROVE FreeInv'
  BY <1>6, Zero DEF ForkTickets
<1>7. ASSUME NEW c \in CPU, NEW p \in Slots, ExitLock(c, p) PROVE FreeInv'
  BY <1>7, Zero DEF ExitLock
<1>8. ASSUME NEW c \in CPU, NEW p \in Slots, Reparent(c, p) PROVE FreeInv'
  BY <1>8, Zero DEF Reparent, IsChild, Adopt
<1>9. ASSUME NEW c \in CPU, NEW p \in Slots, WakeInit(c, p) PROVE FreeInv'
  BY <1>9, Zero DEF WakeInit, WakeupLoop, Wakes
<1>10. ASSUME NEW c \in CPU, NEW p \in Slots, WakeParent(c, p) PROVE FreeInv'
  BY <1>10, Zero DEF WakeParent, WakeupLoop, Wakes
<1>11. ASSUME NEW c \in CPU, NEW p \in Slots, ExitZombie(c, p) PROVE FreeInv'
  BY <1>11, Zero DEF ExitZombie
<1>12. ASSUME NEW c \in CPU, NEW p \in Slots, WaitLock(c, p) PROVE FreeInv'
  BY <1>12, Zero DEF WaitLock
<1>13. ASSUME NEW c \in CPU, NEW p \in Slots, WaitScan(c, p) PROVE FreeInv'
  BY <1>13, Zero DEF WaitScan, IsChild, ChildLock, FreeProc
<1>14. ASSUME NEW c \in CPU, NEW p \in Slots, WaitCheck(c, p) PROVE FreeInv'
  BY <1>14, Zero DEF WaitCheck
<1>15. ASSUME NEW c \in CPU, NEW p \in Slots, SleepLock(c, p) PROVE FreeInv'
  BY <1>15, Zero DEF SleepLock
<1>16. ASSUME NEW c \in CPU, NEW p \in Slots, SleepGo(c, p) PROVE FreeInv'
  BY <1>16, Zero DEF SleepGo, ReleaseLk
<1>17. ASSUME NEW c \in CPU, NEW p \in Slots, Kill(c, p) PROVE FreeInv'
  BY <1>17, Zero DEF KillDone, KillWakes, Kill
<1>18. ASSUME NEW c \in CPU, NEW p \in Slots, Sched(c, p) PROVE FreeInv'
  BY <1>18, Zero DEF Sched, NextSlot
<1>19. ASSUME NEW c \in CPU, NEW p \in Slots, Resume(c, p) PROVE FreeInv'
  BY <1>19, Zero DEF Resume
<1>20. ASSUME NEW c \in CPU, NEW p \in Slots, Yield(c, p) PROVE FreeInv'
  BY <1>20, Zero DEF Yield
<1>21. ASSUME NEW c \in CPU, NEW p \in Slots, Syscall(c, p) PROVE FreeInv'
  BY <1>21, Zero DEF Syscall
<1>22. ASSUME NEW c \in CPU, NEW p \in Slots, Fault(c, p) PROVE FreeInv'
  BY <1>22, Zero DEF Fault
<1>23. QED
  BY <1>0, <1>1, <1>2, <1>3, <1>4, <1>5, <1>6, <1>7, <1>8, <1>9, <1>10, <1>11, <1>12, <1>13, <1>14, <1>15, <1>16, <1>17, <1>18, <1>19, <1>20, <1>21, <1>22 DEF Next, Work, Switch

(* What a step does to a zombie.                                           *)
ZombieStep ==
  \A p \in Slots : state[p] = "ZOMBIE" /\ state'[p] # "ZOMBIE" =>
    /\ state'[p] = "UNUSED" /\ lock[p] = None
    /\ waitLock # None /\ cpuProc[waitLock] = parent[p]

LEMMA ZombieSteps ==
  TypeOK /\ StackInv /\ [Next]_vars => ZombieStep
<1> SUFFICES ASSUME TypeOK, StackInv, [Next]_vars PROVE ZombieStep
  OBVIOUS
<1> USE DEF ZombieStep
<1> USE DEF StackInv, RunInv, IdleInv, LockInv, ForkInv, OnCpu, Point, ForkPcs
<1> USE DEF TypeOK, Pcs, OpenPcs, OwnLockPcs, WaitLockPcs, States,
            At, Goto, Free, table, locks, cpus, regs
<1>0. CASE UNCHANGED vars
  BY <1>0 DEF vars
<1>1. ASSUME NEW c \in CPU, Dispatch(c) PROVE ZombieStep
  BY <1>1, Zero DEF Dispatch, NextSlot
<1>2. ASSUME NEW c \in CPU, NEW p \in Slots, Return(c, p) PROVE ZombieStep
  BY <1>2, Zero DEF Return
<1>3. ASSUME NEW c \in CPU, NEW p \in Slots, Alloc(c, p) PROVE ZombieStep
  BY <1>3, Zero DEF Alloc, FreeProc
<1>4. ASSUME NEW c \in CPU, NEW p \in Slots, ForkParent(c, p) PROVE ZombieStep
  BY <1>4, Zero DEF ForkParent
<1>5. ASSUME NEW c \in CPU, NEW p \in Slots, ForkRun(c, p) PROVE ZombieStep
  BY <1>5, Zero DEF ForkRun
<1>6. ASSUME NEW c \in CPU, NEW p \in Slots, ForkTickets(c, p) PROVE ZombieStep
  BY <1>6, Zero DEF ForkTickets
<1>7. ASSUME NEW c \in CPU, NEW p \in Slots, ExitLock(c, p) PROVE ZombieStep
  BY <1>7, Zero DEF ExitLock
<1>8. ASSUME NEW c \in CPU, NEW p \in Slots, Reparent(c, p) PROVE ZombieStep
  BY <1>8, Zero DEF Reparent, IsChild, Adopt
<1>9. ASSUME NEW c \in CPU, NEW p \in Slots, WakeInit(c, p) PROVE ZombieStep
  BY <1>9, Zero DEF WakeInit, WakeupLoop, Wakes
<1>10. ASSUME NEW c \in CPU, NEW p \in Slots, WakeParent(c, p) PROVE ZombieStep
  BY <1>10, Zero DEF WakeParent, WakeupLoop, Wakes
<1>11. ASSUME NEW c \in CPU, NEW p \in Slots, ExitZombie(c, p) PROVE ZombieStep
  BY <1>11, Zero DEF ExitZombie
<1>12. ASSUME NEW c \in CPU, NEW p \in Slots, WaitLock(c, p) PROVE ZombieStep
  BY <1>12, Zero DEF WaitLock
<1>13. ASSUME NEW c \in CPU, NEW p \in Slots, WaitScan(c, p) PROVE ZombieStep
  BY <1>13, Zero DEF WaitScan, IsChild, ChildLock, FreeProc
<1>14. ASSUME NEW c \in CPU, NEW p \in Slots, WaitCheck(c, p) PROVE ZombieStep
  BY <1>14, Zero DEF WaitCheck
<1>15. ASSUME NEW c \in CPU, NEW p \in Slots, SleepLock(c, p) PROVE ZombieStep
  BY <1>15, Zero DEF SleepLock
<1>16. ASSUME NEW c \in CPU, NEW p \in Slots, SleepGo(c, p) PROVE ZombieStep
  BY <1>16, Zero DEF SleepGo, ReleaseLk
<1>17. ASSUME NEW c \in CPU, NEW p \in Slots, Kill(c, p) PROVE ZombieStep
  BY <1>17, Zero DEF KillDone, KillWakes, Kill
<1>18. ASSUME NEW c \in CPU, NEW p \in Slots, Sched(c, p) PROVE ZombieStep
  BY <1>18, Zero DEF Sched, NextSlot
<1>19. ASSUME NEW c \in CPU, NEW p \in Slots, Resume(c, p) PROVE ZombieStep
  BY <1>19, Zero DEF Resume
<1>20. ASSUME NEW c \in CPU, NEW p \in Slots, Yield(c, p) PROVE ZombieStep
  BY <1>20, Zero DEF Yield
<1>21. ASSUME NEW c \in CPU, NEW p \in Slots, Syscall(c, p) PROVE ZombieStep
  BY <1>21, Zero DEF Syscall
<1>22. ASSUME NEW c \in CPU, NEW p \in Slots, Fault(c, p) PROVE ZombieStep
  BY <1>22, Zero DEF Fault
<1>23. QED
  BY <1>0, <1>1, <1>2, <1>3, <1>4, <1>5, <1>6, <1>7, <1>8, <1>9, <1>10, <1>11, <1>12, <1>13, <1>14, <1>15, <1>16, <1>17, <1>18, <1>19, <1>20, <1>21, <1>22 DEF Next, Work, Switch

(* What a step does to the marks of killed processes.                      *)
KillStep ==
  \A p \in Slots :
    /\ p \in killed' \ killed =>
         \/ pc[p] = "user" /\ pc'[p] = "ret"
         \/ \E q \in Slots : pc[q] = "kill" /\ arg[q] = pid[p]
    /\ p \in killed \cap killed' => pid'[p] = pid[p] \/ pid[p] = 0

LEMMA KillSteps ==
  TypeOK /\ StackInv /\ FreeInv /\ [Next]_vars => KillStep
<1> SUFFICES ASSUME TypeOK, StackInv, FreeInv, [Next]_vars PROVE KillStep
  OBVIOUS
<1> USE DEF KillStep, FreeInv
<1> USE DEF StackInv, RunInv, IdleInv, LockInv, ForkInv, OnCpu, Point, ForkPcs
<1> USE DEF TypeOK, Pcs, OpenPcs, OwnLockPcs, WaitLockPcs, States,
            At, Goto, Free, table, locks, cpus, regs
<1>0. CASE UNCHANGED vars
  BY <1>0 DEF vars
<1>1. ASSUME NEW c \in CPU, Dispatch(c) PROVE KillStep
  BY <1>1, Zero DEF Dispatch, NextSlot
<1>2. ASSUME NEW c \in CPU, NEW p \in Slots, Return(c, p) PROVE KillStep
  BY <1>2, Zero DEF Return
<1>3. ASSUME NEW c \in CPU, NEW p \in Slots, Alloc(c, p) PROVE KillStep
  BY <1>3, Zero DEF Alloc, FreeProc
<1>4. ASSUME NEW c \in CPU, NEW p \in Slots, ForkParent(c, p) PROVE KillStep
  BY <1>4, Zero DEF ForkParent
<1>5. ASSUME NEW c \in CPU, NEW p \in Slots, ForkRun(c, p) PROVE KillStep
  BY <1>5, Zero DEF ForkRun
<1>6. ASSUME NEW c \in CPU, NEW p \in Slots, ForkTickets(c, p) PROVE KillStep
  BY <1>6, Zero DEF ForkTickets
<1>7. ASSUME NEW c \in CPU, NEW p \in Slots, ExitLock(c, p) PROVE KillStep
  BY <1>7, Zero DEF ExitLock
<1>8. ASSUME NEW c \in CPU, NEW p \in Slots, Reparent(c, p) PROVE KillStep
  BY <1>8, Zero DEF Reparent, IsChild, Adopt
<1>9. ASSUME NEW c \in CPU, NEW p \in Slots, WakeInit(c, p) PROVE KillStep
  BY <1>9, Zero DEF WakeInit, WakeupLoop, Wakes
<1>10. ASSUME NEW c \in CPU, NEW p \in Slots, WakeParent(c, p) PROVE KillStep
  BY <1>10, Zero DEF WakeParent, WakeupLoop, Wakes
<1>11. ASSUME NEW c \in CPU, NEW p \in Slots, ExitZombie(c, p) PROVE KillStep
  BY <1>11, Zero DEF ExitZombie
<1>12. ASSUME NEW c \in CPU, NEW p \in Slots, WaitLock(c, p) PROVE KillStep
  BY <1>12, Zero DEF WaitLock
<1>13. ASSUME NEW c \in CPU, NEW p \in Slots, WaitScan(c, p) PROVE KillStep
  BY <1>13, Zero DEF WaitScan, IsChild, ChildLock, FreeProc
<1>14. ASSUME NEW c \in CPU, NEW p \in Slots, WaitCheck(c, p) PROVE KillStep
  BY <1>14, Zero DEF WaitCheck
<1>15. ASSUME NEW c \in CPU, NEW p \in Slots, SleepLock(c, p) PROVE KillStep
  BY <1>15, Zero DEF SleepLock
<1>16. ASSUME NEW c \in CPU, NEW p \in Slots, SleepGo(c, p) PROVE KillStep
  BY <1>16, Zero DEF SleepGo, ReleaseLk
<1>17. ASSUME NEW c \in CPU, NEW p \in Slots, Kill(c, p) PROVE KillStep
  BY <1>17, Zero DEF KillDone, KillWakes, Kill
<1>18. ASSUME NEW c \in CPU, NEW p \in Slots, Sched(c, p) PROVE KillStep
  BY <1>18, Zero DEF Sched, NextSlot
<1>19. ASSUME NEW c \in CPU, NEW p \in Slots, Resume(c, p) PROVE KillStep
  BY <1>19, Zero DEF Resume
<1>20. ASSUME NEW c \in CPU, NEW p \in Slots, Yield(c, p) PROVE KillStep
  BY <1>20, Zero DEF Yield
<1>21. ASSUME NEW c \in CPU, NEW p \in Slots, Syscall(c, p) PROVE KillStep
  BY <1>21, Zero DEF Syscall
<1>22. ASSUME NEW c \in CPU, NEW p \in Slots, Fault(c, p) PROVE KillStep
  BY <1>22, Zero DEF Fault
<1>23. QED
  BY <1>0, <1>1, <1>2, <1>3, <1>4, <1>5, <1>6, <1>7, <1>8, <1>9, <1>10, <1>11, <1>12, <1>13, <1>14, <1>15, <1>16, <1>17, <1>18, <1>19, <1>20, <1>21, <1>22 DEF Next, Work, Switch

(***************************************************************************)
(* The invariant as a whole.                                               *)
(***************************************************************************)
LEMMA Invariance == Spec => [](TypeOK /\ StackInv /\ FamilyInv /\ WakeupInv)
<1>1. Init => StackInv /\ FamilyInv /\ WakeupInv
  BY Zero, CPUAssumption, Below
  DEF Init, StackInv, RunInv, IdleInv, LockInv, ForkInv, FamilyInv, WakeupInv,
      OnCpu, Point, ForkPcs, Alive, Sleeper, Zombie, WaitLockPcs, Slots
<1>2. QED
  BY <1>1, TypeCorrect, StackInductive, FamilyInductive, WakeupInductive, PTL
  DEF Spec

(* No kernel stack is in use on two harts, or on one after it was freed.   *)
THEOREM StackExclusion == Spec => []OneCpuPerStack
<1>1. TypeOK /\ StackInv => OneCpuPerStack
  BY DEF StackInv, RunInv, OneCpuPerStack
<1>2. QED
  BY <1>1, Invariance, PTL

(* sched() never panics: its caller holds p->lock and no other lock.       *)
THEOREM SchedNeverPanics == Spec => []SchedAssertions
<1>1. TypeOK /\ StackInv => SchedAssertions
  BY Zero DEF StackInv, RunInv, LockInv, SchedAssertions, At, OwnLockPcs,
              WaitLockPcs, TypeOK
<1>2. QED
  BY <1>1, Invariance, PTL

(* exit() leaves no orphan: a parent is never a free slot or a zombie.     *)
THEOREM NoOrphans == Spec => []ParentAlive
<1>1. FamilyInv => ParentAlive
  BY DEF FamilyInv, ParentAlive, Alive
<1>2. QED
  BY <1>1, Invariance, PTL

(* fork()'s late access to np is to the child it made.                     *)
THEOREM ForkOwnsChild == Spec => []ChildStillOurs
<1>1. FamilyInv => ChildStillOurs
  BY DEF FamilyInv, ChildStillOurs, Point
<1>2. QED
  BY <1>1, Invariance, PTL

(* sleep(p, &wait_lock) and the wakeup in exit() never miss each other.    *)
THEOREM WakeupNotLost == Spec => []NoLostWakeup
<1>1. WakeupInv => NoLostWakeup
  BY DEF WakeupInv, NoLostWakeup, Sleeper, Zombie
<1>2. QED
  BY <1>1, Invariance, PTL

(* Only wait() in the parent ends a zombie, and by freeing it.             *)
THEOREM ZombiesAreFinal == Spec => ZombieIsFinal
<1>1. TypeOK /\ StackInv /\ [Next]_vars => [ZombieStep]_vars
  BY ZombieSteps
<1>2. QED
  BY <1>1, Invariance, PTL DEF Spec, ZombieIsFinal, ZombieStep

(* A process dies of a kill() of its own pid, whatever pids are passed to  *)
(* kill(): no other mark but that of kill(0) on a free slot reaches it.    *)
THEOREM KillsAreByPid == Spec => KillsByPid
<1>1. Init => FreeInv
  BY Zero DEF Init, FreeInv
<1>2. TypeOK /\ FreeInv => TypeOK /\ \A p \in Slots : state[p] = "UNUSED" => pid[p] = 0
  BY DEF FreeInv
<1>3. TypeOK /\ StackInv /\ FreeInv /\ [Next]_vars => [KillStep]_vars
  BY KillSteps
<1>4. QED
  BY <1>1, <1>2, <1>3, Invariance, FreeInductive, PTL DEF Spec, KillsByPid, KillStep

=============================================================================
