------------------------------ MODULE Syscount ------------------------------
(***************************************************************************)
(* The system call counters: syscall() of kernel/syscall.c counts the      *)
(* calls of a process, sys_exit() of kernel/sysproc.c adds the counts of a *)
(* child to its parent, allocproc() clears them.  One counter stands for   *)
(* all: they do not interact.  No lock is held, so the read and the write  *)
(* of each += and ++ are actions of their own.                             *)
(***************************************************************************)
EXTENDS Naturals, FiniteSets

CONSTANTS
  NPROC,       \* slots; slot 0 is init
  None,
  MaxCalls,    \* bound on the counted calls in a run
  MaxForks,    \* bound on the forks in a run
  KillingOn,   \* processes may be killed, or fault
  OrphansOn    \* processes may exit before their children

SyscountAssumption ==
  /\ NPROC \in Nat \ {0} /\ None \notin Nat
  /\ MaxCalls \in Nat /\ MaxForks \in Nat
  /\ KillingOn \in BOOLEAN /\ OrphansOn \in BOOLEAN

Slots == 0 .. NPROC - 1

VARIABLES
  state, parent,   \* state: UNUSED, ZOMBIE or LIVE for the others
  cnt,         \* p->syscall_cnt[i]
  pc,          \* user, store (the ++), exit, read, write (the +=), gone
  reg,         \* the value read, not written yet
  target,      \* the local variable parent of sys_exit()
  calls, forks,\* counters
  due,         \* history: the calls of p and of its children that exited
  raced,       \* history: some update began while another was going on
  killed       \* history: some process ended without sys_exit()

vars == <<state, parent, cnt, pc, reg, target, calls, forks, due, raced, killed>>

TypeOK ==
  /\ state \in [Slots -> {"UNUSED", "LIVE", "ZOMBIE"}]
  /\ parent \in [Slots -> Slots \cup {None}]
  /\ cnt \in [Slots -> 0 .. MaxCalls] /\ reg \in [Slots -> 0 .. MaxCalls]
  /\ pc \in [Slots -> {"user", "store", "exit", "read", "write", "gone"}]
  /\ target \in [Slots -> Slots \cup {None}]
  /\ calls \in 0 .. MaxCalls /\ forks \in 0 .. MaxForks
  /\ due \in [Slots -> 0 .. MaxCalls]
  /\ raced \in BOOLEAN /\ killed \in BOOLEAN

Init ==
  /\ state = [p \in Slots |-> IF p = 0 THEN "LIVE" ELSE "UNUSED"]
  /\ parent = [p \in Slots |-> None]
  /\ cnt = [p \in Slots |-> 0] /\ reg = [p \in Slots |-> 0]
  /\ pc = [p \in Slots |-> "user"] /\ target = [p \in Slots |-> None]
  /\ calls = 0 /\ forks = 0 /\ due = [p \in Slots |-> 0]
  /\ raced = FALSE /\ killed = FALSE

Goto(p, l) == pc' = [pc EXCEPT ![p] = l]
Live(p, l) == state[p] = "LIVE" /\ pc[p] = l

(* A counted system call of p: p->syscall_cnt[num]++.                      *)
CountRead(p) ==
  /\ Live(p, "user") /\ calls < MaxCalls
  /\ calls' = calls + 1 /\ due' = [due EXCEPT ![p] = @ + 1]
  /\ reg' = [reg EXCEPT ![p] = cnt[p]]
  /\ raced' = (raced \/ \E q \in Slots : pc[q] = "write" /\ target[q] = p)
  /\ Goto(p, "store")
  /\ UNCHANGED <<state, parent, cnt, target, forks, killed>>

CountWrite(p) ==
  /\ Live(p, "store")
  /\ cnt' = [cnt EXCEPT ![p] = reg[p] + 1]
  /\ reg' = [reg EXCEPT ![p] = 0] /\ Goto(p, "user")
  /\ UNCHANGED <<state, parent, target, calls, forks, due, raced, killed>>

(* allocproc(): the counters of the new process.                           *)
ClearCounts(np) == cnt' = [cnt EXCEPT ![np] = 0]

Fork(p, np) ==
  /\ Live(p, "user") /\ state[np] = "UNUSED" /\ forks < MaxForks
  /\ forks' = forks + 1
  /\ state' = [state EXCEPT ![np] = "LIVE"]
  /\ parent' = [parent EXCEPT ![np] = p]
  /\ ClearCounts(np) /\ due' = [due EXCEPT ![np] = 0]
  /\ Goto(np, "user")
  /\ UNCHANGED <<reg, target, calls, raced, killed>>

Childless(p) == \A q \in Slots : parent[q] # p

(* sys_exit() reads p->parent without wait_lock.                           *)
SysExit(p) ==
  /\ p # 0 /\ Live(p, "user") /\ (OrphansOn \/ Childless(p))
  /\ target' = [target EXCEPT ![p] = parent[p]]
  /\ Goto(p, "read")
  /\ UNCHANGED <<state, parent, cnt, reg, calls, forks, due, raced, killed>>

(* parent->syscall_cnt[i] += p->syscall_cnt[i]: the read ...               *)
AddRead(p) ==
  /\ Live(p, "read")
  /\ reg' = [reg EXCEPT ![p] = cnt[target[p]]]
  /\ raced' = (raced \/ pc[target[p]] = "store"
                \/ \E q \in Slots \ {p} : pc[q] = "write" /\ target[q] = target[p])
  /\ Goto(p, "write")
  /\ UNCHANGED <<state, parent, cnt, target, calls, forks, due, killed>>

(* ... and the write.                                                      *)
SumTwice(p) == reg[p] + 2 * cnt[p]
SumIgnored(p) == reg[p]
Sum(p) == reg[p] + cnt[p]

AddWrite(p) ==
  LET t == target[p] IN
  /\ Live(p, "write")
  /\ cnt' = [cnt EXCEPT ![t] = Sum(p)]
  /\ due' = IF t = parent[p] THEN [due EXCEPT ![t] = @ + due[p]] ELSE due
  /\ reg' = [reg EXCEPT ![p] = 0] /\ target' = [target EXCEPT ![p] = None]
  /\ Goto(p, "exit")
  /\ UNCHANGED <<state, parent, calls, forks, raced, killed>>

(* A killed or faulting process: usertrap() calls exit(-1) itself.         *)
Killed(p) ==
  /\ KillingOn /\ p # 0 /\ Live(p, "user") /\ (OrphansOn \/ Childless(p))
  /\ killed' = TRUE /\ due' = IF parent[p] = None THEN due
                             ELSE [due EXCEPT ![parent[p]] = @ + due[p]]
  /\ Goto(p, "exit")
  /\ UNCHANGED <<state, parent, cnt, reg, target, calls, forks, raced>>

(* exit(): the children go to init, p becomes a zombie.                    *)
Exit(p) ==
  /\ Live(p, "exit")
  /\ parent' = [q \in Slots |-> IF parent[q] = p THEN 0 ELSE parent[q]]
  /\ state' = [state EXCEPT ![p] = "ZOMBIE"] /\ Goto(p, "gone")
  /\ UNCHANGED <<cnt, reg, target, calls, forks, due, raced, killed>>

(* wait(): freeproc() does not clear the counters.                         *)
Wait(p, q) ==
  /\ Live(p, "user") /\ parent[q] = p /\ state[q] = "ZOMBIE"
  /\ state' = [state EXCEPT ![q] = "UNUSED"]
  /\ parent' = [parent EXCEPT ![q] = None]
  /\ UNCHANGED <<cnt, pc, reg, target, calls, forks, due, raced, killed>>

Next ==
  \/ \E p \in Slots :
       \/ CountRead(p) \/ CountWrite(p) \/ SysExit(p) \/ AddRead(p) \/ AddWrite(p)
       \/ Killed(p) \/ Exit(p)
  \/ \E p, q \in Slots : Fork(p, q) \/ Wait(p, q)

Spec == Init /\ [][Next]_vars

(***************************************************************************)
(* Properties.                                                             *)
(***************************************************************************)

(* No system call or exit is about to write the counter of p.              *)
Quiet(p) == Live(p, "user") /\ \A q \in Slots : target[q] # p

(* getSysCount() at p returns the calls of p and of its children that have *)
(* exited (src/README.md:12).                                              *)
ExactCount == \A p \in Slots : Quiet(p) => cnt[p] = due[p]

(* Races and killed children make the count too small, never too large,    *)
(* and it is exact as long as no two updates overlap and every child ends  *)
(* by calling exit().                                                      *)
CountsRight ==
  /\ \A p \in Slots : Quiet(p) => cnt[p] <= due[p]
  /\ ~raced /\ ~killed => ExactCount

=============================================================================
