------------------------------- MODULE Alarm -------------------------------
(***************************************************************************)
(* sigalarm() and sigreturn(): the alarm of one process, in usertrap() of  *)
(* kernel/trap.c and in kernel/sysproc.c.  Its fields are private to the   *)
(* process, so one process and the timer interrupts it takes are enough.   *)
(*                                                                         *)
(* A user context (the trapframe) is the code that runs, the main program  *)
(* or the handler, the point it has reached, and the register a0.          *)
(***************************************************************************)
EXTENDS Naturals

CONSTANTS
  Intervals,   \* ticks the main program passes to sigalarm(); 0 turns it off
  Rearms,      \* ticks the handler passes to sigalarm()
  ForkCode,    \* the code that calls fork(): a subset of {"main", "handler"}
  MaxPoint,    \* points of a program, which loops over them
  MaxTicks     \* p->ticks is not followed beyond this value

AlarmAssumption ==
  /\ Intervals \subseteq 0 .. MaxTicks - 1 /\ Rearms \subseteq 0 .. MaxTicks - 1
  /\ ForkCode \subseteq {"main", "handler"}
  /\ MaxPoint \in Nat /\ MaxTicks \in Nat \ {0}

VARIABLES
  tf,          \* *p->trapframe, the registers of the process
  backup,      \* *p->backup
  alarmState, ticks, total,   \* p->alarm_state, p->ticks, p->total_ticks
  interrupted  \* history: the context that the last call of the handler stopped

vars == <<tf, backup, alarmState, ticks, total, interrupted>>

Values == {0, 1}               \* of a0
Points == 0 .. MaxPoint
Context == [code : {"main", "handler"}, point : Points, a0 : Values]
Junk == [code |-> "junk", point |-> 0, a0 |-> 0]   \* a page from kalloc()
Start == [code |-> "main", point |-> 0, a0 |-> 0]

(* Programs loop.                                                          *)
NextPoint(x) == IF x < MaxPoint THEN x + 1 ELSE 0

TypeOK ==
  /\ tf \in Context \cup {Junk} /\ backup \in Context \cup {Junk}
  /\ alarmState \in {0, 1}
  /\ ticks \in 0 .. MaxTicks /\ total \in 0 .. MaxTicks
  /\ interrupted \in Context \cup {Junk}

Init ==
  /\ tf = Start /\ backup = Junk
  /\ alarmState = 0 /\ ticks = 0 /\ total = 0 /\ interrupted = Junk

(* With the registers of a page that nobody wrote a process faults at its  *)
(* first instruction, unless the timer comes before.                       *)
Runs == tf # Junk

(* User code computes.                                                     *)
Compute ==
  /\ Runs
  /\ \E v \in Values :
       tf' = [tf EXCEPT !.point = NextPoint(@), !.a0 = v]
  /\ UNCHANGED <<backup, alarmState, ticks, total, interrupted>>

(* syscall() stores the result in a0; epc is behind the ecall.             *)
Returns(v) == [tf EXCEPT !.point = NextPoint(@), !.a0 = v]

(***************************************************************************)
(* A timer interrupt in user mode.                                         *)
(***************************************************************************)
Plus1 == IF ticks < MaxTicks THEN ticks + 1 ELSE ticks

(* "which_dev == 2 && p->alarm_state == 0"                                 *)
CountingAlways == TRUE
Counting == alarmState = 0

Save == backup' = tf

Timer ==
  /\ UNCHANGED total
  /\ IF Counting /\ Plus1 = total
     THEN /\ Save
          /\ alarmState' = 1 /\ ticks' = 0
          /\ tf' = [code |-> "handler", point |-> 0, a0 |-> tf.a0]
          /\ interrupted' = IF tf.code = "handler" THEN interrupted ELSE tf
     ELSE /\ ticks' = IF Counting THEN Plus1 ELSE ticks
          /\ UNCHANGED <<tf, backup, alarmState, interrupted>>

(***************************************************************************)
(* The system calls.                                                       *)
(***************************************************************************)

(* p->ticks = 0 in sys_sigalarm.                                           *)
TicksKept == UNCHANGED ticks
TicksReset == ticks' = 0

Sigalarm(n) ==
  /\ Runs /\ n \in IF tf.code = "main" THEN Intervals ELSE Rearms
  /\ total' = n /\ alarmState' = 0 /\ TicksReset
  /\ tf' = Returns(0)
  /\ UNCHANGED <<backup, interrupted>>

(* The registers after sigreturn(): it leaves through usertrapret(), so    *)
(* syscall() does not store a result in a0.                                *)
RestoredWithResult == [backup EXCEPT !.a0 = 0]
Restored == backup

(* Nothing keeps the main program from calling it, before the first alarm  *)
(* or after it.                                                            *)
Sigreturn ==
  /\ Runs
  /\ tf' = Restored
  /\ ticks' = 0 /\ alarmState' = 0
  /\ UNCHANGED <<backup, total, interrupted>>

(* fork(), followed in the child: allocproc() gives it no alarm and a new  *)
(* page for the backup.                                                    *)
ForkedChild ==
  /\ tf.code \in ForkCode
  /\ tf' = Returns(0) /\ backup' = Junk
  /\ alarmState' = 0 /\ ticks' = 0 /\ total' = 0
  /\ interrupted' = Junk

Next == Compute \/ Timer \/ Sigreturn \/ ForkedChild \/ \E n \in Intervals \cup Rearms : Sigalarm(n)

Spec == Init /\ [][Next]_vars

(***************************************************************************)
(* Properties.                                                             *)
(***************************************************************************)

(* sigreturn() goes on at the point where the timer interrupt called the   *)
(* last handler, with the registers of then (alarmtest.c:71-74), whoever   *)
(* calls it; before any alarm, with whatever the page holds.               *)
ResumesExactly == [][Sigreturn => tf' = interrupted]_vars

(* The handler is not called while it runs (alarmtest.c:113).              *)
NotReentrant == [][Timer /\ tf.code = "handler" => tf' = tf]_vars

(* The "==" of usertrap() cannot be jumped over: while an alarm is set and *)
(* its handler does not run, fewer than total_ticks ticks have been        *)
(* counted.  (And contexts are such as programs have.)                     *)
NoOvershoot == TypeOK /\ (alarmState = 0 /\ total > 0 => ticks < total)

=============================================================================
