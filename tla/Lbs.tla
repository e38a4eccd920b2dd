-------------------------------- MODULE Lbs --------------------------------
(***************************************************************************)
(* The lottery scheduler (-DLBS): scheduler() of kernel/proc.c, the        *)
(* tickets set by allocproc(), fork() and settickets(), and the arrival    *)
(* stamps of allocproc(), fork() and wakeup().                             *)
(*                                                                         *)
(* The actor is a hart.  A p->lock critical section is one action.  The    *)
(* draw is any ticket of the range the code draws from.                    *)
(***************************************************************************)
EXTENDS Integers, FiniteSets

CONSTANTS
  NPROC, CPU, None,
  Tickets,     \* the arguments programs pass to settickets()
  MaxTime      \* bound on sys_time

LbsAssumption ==
  /\ NPROC \in Nat \ {0} /\ None \notin Nat /\ Tickets \subseteq Nat /\ MaxTime \in Nat

Slots == 0 .. NPROC - 1
AnyTickets == Tickets \cup {1}

VARIABLES
  state,       \* p->state; "NONE" stands for UNUSED and ZOMBIE
  tickets, arr,    \* p->tickets, p->arrival_time
  sysTime,
  cpuProc, pc,
  child,       \* per process: the np of its fork() that is not over, or None
  at,          \* loop index
  total, cur, win, winner \* total_tickets, current_tickets, winning_ticket, winner

procVars == <<state, tickets, arr, child>>
loopVars == <<at, total, cur, win, winner>>
vars == <<procVars, sysTime, cpuProc, pc, loopVars>>

TypeOK ==
  /\ state \in [Slots -> {"NONE", "SLEEPING", "RUNNABLE", "RUNNING"}]
  /\ tickets \in [Slots -> AnyTickets] /\ arr \in [Slots -> 0 .. MaxTime]
  /\ sysTime \in 0 .. MaxTime
  /\ cpuProc \in [CPU -> Slots \cup {None}]
  /\ pc \in [CPU -> {"total", "find", "switch", "proc"}]
  /\ child \in [Slots -> Slots \cup {None}]
  /\ at \in [CPU -> 0 .. NPROC] /\ total \in [CPU -> Nat] /\ cur \in [CPU -> Nat]
  /\ win \in [CPU -> Nat] /\ winner \in [CPU -> Slots \cup {None}]

Init ==
  /\ state = [p \in Slots |-> IF p = 0 THEN "RUNNABLE" ELSE "NONE"]
  /\ tickets = [p \in Slots |-> 1] /\ arr = [p \in Slots |-> 0]
  /\ sysTime = 1
  /\ cpuProc = [c \in CPU |-> None] /\ pc = [c \in CPU |-> "total"]
  /\ child = [p \in Slots |-> None]
  /\ at = [c \in CPU |-> 0] /\ total = [c \in CPU |-> 0] /\ cur = [c \in CPU |-> 0]
  /\ win = [c \in CPU |-> 0] /\ winner = [c \in CPU |-> None]

Goto(c, l) == pc' = [pc EXCEPT ![c] = l]

(* The next turn of for(;;).                                               *)
StartOver(c) ==
  /\ at' = [at EXCEPT ![c] = 0] /\ total' = [total EXCEPT ![c] = 0]
  /\ cur' = [cur EXCEPT ![c] = 0] /\ win' = [win EXCEPT ![c] = 0]
  /\ winner' = [winner EXCEPT ![c] = None]

(***************************************************************************)
(* scheduler()                                                             *)
(***************************************************************************)

(* The first loop adds up the tickets.                                     *)
Total(c) ==
  /\ pc[c] = "total" /\ at[c] < NPROC
  /\ at' = [at EXCEPT ![c] = @ + 1]
  /\ IF state[at[c]] = "RUNNABLE"
     THEN total' = [total EXCEPT ![c] = @ + tickets[at[c]]]
     ELSE UNCHANGED total
  /\ UNCHANGED <<procVars, sysTime, cpuProc, pc, cur, win, winner>>

(* get_random() % (total_tickets + 1)                                      *)
Draws(c) == 0 .. total[c]

Draw(c) ==
  /\ pc[c] = "total" /\ at[c] = NPROC
  /\ IF total[c] = 0
     THEN StartOver(c) /\ UNCHANGED pc
     ELSE /\ \E w \in Draws(c) : win' = [win EXCEPT ![c] = w]
          /\ at' = [at EXCEPT ![c] = 0] /\ Goto(c, "find")
          /\ UNCHANGED <<total, cur, winner>>
  /\ UNCHANGED <<procVars, sysTime, cpuProc>>

(* A later slot replaces the winner: as many tickets, arrived before it.   *)
BeatsLater(c, p) ==
  tickets[p] = tickets[winner[c]] /\ arr[p] > arr[winner[c]]
Beats(c, p) ==
  tickets[p] = tickets[winner[c]] /\ arr[p] < arr[winner[c]]

(* The second loop.                                                        *)
Find(c) ==
  LET p == at[c] IN
  /\ pc[c] = "find" /\ p < NPROC
  /\ at' = [at EXCEPT ![c] = p + 1]
  /\ IF state[p] = "RUNNABLE"
     THEN /\ cur' = [cur EXCEPT ![c] = @ + tickets[p]]
          /\ winner' = IF /\ cur'[c] >= win[c]
                          /\ winner[c] = None \/ Beats(c, p)
                       THEN [winner EXCEPT ![c] = p] ELSE winner
     ELSE UNCHANGED <<cur, winner>>
  /\ UNCHANGED <<procVars, sysTime, cpuProc, pc, total, win>>

Found(c) ==
  /\ pc[c] = "find" /\ at[c] = NPROC
  /\ IF winner[c] = None
     THEN StartOver(c) /\ Goto(c, "total")
     ELSE Goto(c, "switch") /\ UNCHANGED loopVars
  /\ UNCHANGED <<procVars, sysTime, cpuProc>>

Switch(c) ==
  LET p == winner[c] IN
  /\ pc[c] = "switch" /\ StartOver(c)
  /\ IF state[p] = "RUNNABLE"
     THEN /\ state' = [state EXCEPT ![p] = "RUNNING"]
          /\ cpuProc' = [cpuProc EXCEPT ![c] = p] /\ Goto(c, "proc")
     ELSE Goto(c, "total") /\ UNCHANGED <<state, cpuProc>>
  /\ UNCHANGED <<tickets, arr, child, sysTime>>

(***************************************************************************)
(* What processes do.                                                      *)
(***************************************************************************)

Leave(c, s) ==
  /\ pc[c] = "proc" /\ state' = [state EXCEPT ![cpuProc[c]] = s]
  /\ cpuProc' = [cpuProc EXCEPT ![c] = None] /\ Goto(c, "total")
  /\ UNCHANGED <<tickets, arr, child, sysTime, loopVars>>

Yield(c) == Leave(c, "RUNNABLE")
SleepCall(c) == pc[c] = "proc" /\ child[cpuProc[c]] = None /\ Leave(c, "SLEEPING")
Exit(c) == pc[c] = "proc" /\ child[cpuProc[c]] = None /\ Leave(c, "NONE")

(* wakeup(): at any time, from an interrupt or another hart.               *)
Wakeup(p) ==
  /\ state[p] = "SLEEPING" /\ sysTime < MaxTime
  /\ state' = [state EXCEPT ![p] = "RUNNABLE"]
  /\ arr' = [arr EXCEPT ![p] = sysTime] /\ sysTime' = sysTime + 1
  /\ UNCHANGED <<tickets, child, cpuProc, pc, loopVars>>

Settickets(c, n) ==
  LET p == cpuProc[c] IN
  /\ pc[c] = "proc" /\ child[p] = None
  /\ tickets' = [tickets EXCEPT ![p] = n]
  /\ UNCHANGED <<state, arr, child, sysTime, cpuProc, pc, loopVars>>

(* fork(): the child is RUNNABLE with one ticket ...                       *)
NewTicketsNone(np) == UNCHANGED tickets
NewTickets(np) == tickets' = [tickets EXCEPT ![np] = 1]

Fork(c, np) ==
  LET p == cpuProc[c] IN
  /\ pc[c] = "proc" /\ child[p] = None /\ state[np] = "NONE"
  /\ \A q \in Slots : child[q] # np
  /\ sysTime + 1 < MaxTime
  /\ state' = [state EXCEPT ![np] = "RUNNABLE"] /\ NewTickets(np)
  /\ arr' = [arr EXCEPT ![np] = sysTime] /\ sysTime' = sysTime + 1
  /\ child' = [child EXCEPT ![p] = np]
  /\ UNCHANGED <<cpuProc, pc, loopVars>>

(* np->tickets = p->tickets                                                *)
InheritedAdded(np, p) == tickets[np] + tickets[p]
Inherited(np, p) == tickets[p]

(* ... and later gets those of its parent, which takes the new stamp.      *)
ForkTickets(c) ==
  LET p == cpuProc[c] IN
  /\ pc[c] = "proc" /\ child[p] # None /\ sysTime < MaxTime
  /\ tickets' = [tickets EXCEPT ![child[p]] = Inherited(child[p], p)]
  /\ arr' = [arr EXCEPT ![p] = sysTime] /\ sysTime' = sysTime + 1
  /\ child' = [child EXCEPT ![p] = None]
  /\ UNCHANGED <<state, cpuProc, pc, loopVars>>

Next ==
  \/ \E c \in CPU :
       \/ Total(c) \/ Draw(c) \/ Find(c) \/ Found(c) \/ Switch(c)
       \/ Yield(c) \/ SleepCall(c) \/ Exit(c) \/ ForkTickets(c)
       \/ \E np \in Slots : Fork(c, np)
       \/ \E k \in Tickets : Settickets(c, k)
  \/ \E p \in Slots : Wakeup(p)

Spec == Init /\ [][Next]_vars

(***************************************************************************)
(* Properties.                                                             *)
(***************************************************************************)

Runnable == {p \in Slots : state[p] = "RUNNABLE"}

(* On one hart a draw always finds a winner, as the second loop sees at    *)
(* least the tickets the first one added up; and no process that comes     *)
(* after the winner in proc[] with as many tickets had arrived before it,  *)
(* processes woken during the loop included.                               *)
DrawsWinner ==
  \A c \in CPU :
    pc[c] = "find" /\ pc'[c] # "find" =>
      /\ pc'[c] = "switch"
      /\ \A q \in Runnable :
           q > winner[c] /\ tickets[q] = tickets[winner[c]] => arr[q] >= arr[winner[c]]
LotteryHasWinner == [][DrawsWinner]_vars

=============================================================================
