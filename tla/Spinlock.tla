------------------------------ MODULE Spinlock ------------------------------
(***************************************************************************)
(* kernel/spinlock.c below the scheduler: spin locks that turn interrupts  *)
(* off, sched(), sleep() and wakeup(), and the timer interrupt.  A context *)
(* is a thread of a process or the scheduler loop of a hart, and has a     *)
(* list of operations still to do.  acquire() and release() go in small    *)
(* steps, kept by registers of the hart.  The locks are tickslock and the  *)
(* p->lock of every thread, which is named by the thread.                  *)
(***************************************************************************)
EXTENDS Integers, Sequences

CONSTANTS Hart, Boot, Thread, tickslock

Nobody == "none"

SpinAssumption ==
  Boot \in Hart /\ Nobody \notin Hart /\ Hart \cap Thread = {} /\ tickslock \notin Hart \cup Thread

Context == Hart \cup Thread
Lock == Thread \cup {tickslock}

VARIABLES
  on, sie, noff, intena,   \* struct cpu: what runs, SSTATUS_SIE, push_off()s, intena
  locked, cpu,             \* struct spinlock
  pc, lk, old,             \* where a hart is in acquire() or release()
  todo, state, saved,      \* of a context: operations; p->state; intena kept by sched()
  held, panicked           \* what each hart has taken; the panic that stopped the machine

hart == <<on, sie, noff, intena>>
regs == <<pc, lk, old>>
thread == <<todo, state, saved>>
vars == <<hart, locked, cpu, regs, thread, held, panicked>>

Op(op, l) == [op |-> op, l |-> l]
Acquire(l) == Op("acquire", l)
Release(l) == Op("release", l)
Sched(to) == Op("sched", to)
Iret(p, l, o) == [op |-> "iret", l |-> l, pc |-> p, old |-> o]

Next1(h, op) == pc[h] = "top" /\ todo[on[h]] # <<>> /\ Head(todo[on[h]]).op = op
Arg(h) == Head(todo[on[h]]).l
Done(h) == todo' = [todo EXCEPT ![on[h]] = Tail(@)]
Pc(h, at) == pc' = [pc EXCEPT ![h] = at]
Top(h) == Pc(h, "top") /\ lk' = [lk EXCEPT ![h] = tickslock]
Panic(h, what) == panicked' = what /\ UNCHANGED <<hart, locked, cpu, regs, thread, held>>
Holding(h, l) == locked[l] /\ cpu[l] = h

-----------------------------------------------------------------------------
(* acquire(): push_off(), which reads SSTATUS_SIE and then clears it, with *)
(* the check of holding(); the swap; the note of who has taken it.         *)
PushOff(h) ==
  /\ Next1(h, "acquire")
  /\ lk' = [lk EXCEPT ![h] = Arg(h)] /\ old' = [old EXCEPT ![h] = sie[h]]
  /\ Done(h) /\ Pc(h, "off")
  /\ UNCHANGED <<hart, locked, cpu, state, saved, held, panicked>>

IntrOff(h) ==
  /\ pc[h] = "off"
  /\ IF Holding(h, lk[h]) THEN Panic(h, "acquire")
     ELSE /\ sie' = [sie EXCEPT ![h] = FALSE]
          /\ intena' = IF noff[h] = 0 THEN [intena EXCEPT ![h] = old[h]] ELSE intena
          /\ noff' = [noff EXCEPT ![h] = @ + 1]
          /\ Pc(h, "swap") /\ old' = [old EXCEPT ![h] = FALSE]
          /\ UNCHANGED <<on, locked, cpu, lk, thread, held, panicked>>

Swap(h) ==
  /\ pc[h] = "swap" /\ ~locked[lk[h]]
  /\ locked' = [locked EXCEPT ![lk[h]] = TRUE]
  /\ held' = [held EXCEPT ![h] = @ \cup {lk[h]}]
  /\ Pc(h, "cpu")
  /\ UNCHANGED <<hart, cpu, lk, old, thread, panicked>>

SetCpu(h) ==
  /\ pc[h] = "cpu"
  /\ cpu' = [cpu EXCEPT ![lk[h]] = h]
  /\ Top(h)
  /\ UNCHANGED <<hart, locked, old, thread, held, panicked>>

(* Slip: cpu is left as it is.                                          *)
Forgotten(c, l) == c

Cleared(c, l) == [c EXCEPT ![l] = Nobody]

(* release(): the check and lk->cpu = 0; the unlocking, with pop_off().    *)
ClearCpu(h) ==
  /\ Next1(h, "release")
  /\ IF ~Holding(h, Arg(h)) THEN Panic(h, "release")
     ELSE /\ cpu' = Cleared(cpu, Arg(h))
          /\ lk' = [lk EXCEPT ![h] = Arg(h)]
          /\ Done(h) /\ Pc(h, "free")
          /\ UNCHANGED <<hart, locked, old, state, saved, held, panicked>>

(* Slip: interrupts come back at the first pop_off().                   *)
OnAgainAlways(h) == intena[h]

OnAgain(h) == noff[h] = 1 /\ intena[h]

Unlock(h) ==
  /\ pc[h] = "free"
  /\ IF sie[h] THEN Panic(h, "pop_off - interruptible")
     ELSE IF noff[h] < 1 THEN Panic(h, "pop_off")
     ELSE /\ locked' = [locked EXCEPT ![lk[h]] = FALSE]
          /\ held' = [held EXCEPT ![h] = @ \ {lk[h]}]
          /\ noff' = [noff EXCEPT ![h] = @ - 1]
          /\ sie' = [sie EXCEPT ![h] = OnAgain(h)]
          /\ Top(h)
          /\ UNCHANGED <<on, intena, cpu, old, thread, panicked>>

-----------------------------------------------------------------------------
(* sched(), called with p->state set: back to the scheduler of the hart.   *)
SchedStep(h) ==
  /\ Next1(h, "sched")
  /\ LET t == on[h]
     IN IF ~Holding(h, t) THEN Panic(h, "sched p->lock")
        ELSE IF noff[h] # 1 THEN Panic(h, "sched locks")
        ELSE IF sie[h] THEN Panic(h, "sched interruptible")
        ELSE /\ state' = [state EXCEPT ![t] = Arg(h)]
             /\ saved' = [saved EXCEPT ![t] = {intena[h]}]
             /\ on' = [on EXCEPT ![h] = h]
             /\ Done(h)
             /\ UNCHANGED <<sie, noff, intena, locked, cpu, regs, held, panicked>>

(* Slip: sched() does not put intena back.                              *)
KeepIntena(h, t) == intena[h]

(* What sched() puts back; a new thread begins in forkret() instead and    *)
(* finds the intena of whatever ran on the hart before.                    *)
Resumed(h, t) == IF saved[t] = {} THEN intena[h] ELSE TRUE \in saved[t]

Switch(h) ==
  /\ Next1(h, "switch")
  /\ Done(h)
  /\ LET t == Arg(h)
     IN IF state[t] # "runnable" THEN UNCHANGED <<on, intena, state>>
        ELSE /\ state' = [state EXCEPT ![t] = "running"]
             /\ on' = [on EXCEPT ![h] = t]
             /\ intena' = [intena EXCEPT ![h] = Resumed(h, t)]
  /\ UNCHANGED <<sie, noff, locked, cpu, regs, saved, held, panicked>>

(* The scheduler's loop takes up one of the threads, after intr_on() if it *)
(* begins a pass over the table.  Within a pass interrupts stay as the     *)
(* last thread's intena has left them.                                     *)
Scheduler(h) ==
  /\ on[h] = h /\ todo[h] = <<>> /\ pc[h] = "top"
  /\ sie' \in {sie, [sie EXCEPT ![h] = TRUE]}
  /\ \E t \in Thread : todo' = [todo EXCEPT ![h] = <<Acquire(t), Op("switch", t), Release(t)>>]
  /\ UNCHANGED <<on, noff, intena, locked, cpu, regs, state, saved, held, panicked>>

(* The end of forkret(): usertrapret() turns interrupts off and sret on,   *)
(* so that a new thread has them in user space whatever intena was.        *)
Usertrapret(h) ==
  /\ Next1(h, "sret")
  /\ sie' = [sie EXCEPT ![h] = TRUE]
  /\ Done(h)
  /\ UNCHANGED <<on, noff, intena, locked, cpu, regs, state, saved, held, panicked>>

(* Slip: sleep() goes on holding the lock it was given.                 *)
SleepHolding(t, l) == <<Acquire(t), Sched("sleeping"), Release(t), Release(l), Acquire(l)>>

Sleep(t, l) == <<Acquire(t), Release(l), Sched("sleeping"), Release(t), Acquire(l)>>

(* System calls: uptime(), sleep(), and one that does not touch a lock.    *)
Call(t) ==
  {<<Acquire(tickslock), Release(tickslock)>>,
   <<Acquire(tickslock)>> \o Sleep(t, tickslock) \o <<Release(tickslock)>>}

Syscall(h) ==
  /\ on[h] \in Thread /\ todo[on[h]] = <<>> /\ pc[h] = "top"
  /\ \E call \in Call(on[h]) : todo' = [todo EXCEPT ![on[h]] = call]
  /\ UNCHANGED <<hart, locked, cpu, regs, state, saved, held, panicked>>

-----------------------------------------------------------------------------
(* The timer interrupt: clockintr() with its wakeup() on the first hart,   *)
(* yield() if a thread was interrupted, and back.                          *)
Clockintr(x) == <<Acquire(tickslock), Op("wakeup", Thread \ {x}), Release(tickslock)>>
Yield(t) == <<Acquire(t), Sched("runnable"), Release(t)>>

(* wakeup(): every other thread in turn, under its lock.                   *)
Wakeup(h) ==
  /\ Next1(h, "wakeup")
  /\ IF Arg(h) = {} THEN Done(h)
     ELSE \E t \in Arg(h) :
            todo' = [todo EXCEPT ![on[h]] =
                       <<Acquire(t), Op("wake", t), Release(t), Op("wakeup", Arg(h) \ {t})>> \o Tail(@)]
  /\ UNCHANGED <<hart, locked, cpu, regs, state, saved, held, panicked>>

Wake(h) ==
  /\ Next1(h, "wake")
  /\ Done(h)
  /\ state' = IF state[Arg(h)] = "sleeping" THEN [state EXCEPT ![Arg(h)] = "runnable"] ELSE state
  /\ UNCHANGED <<hart, locked, cpu, regs, saved, held, panicked>>

(* Slip: interrupts while a lock is held.                               *)
AtAnyTime(h) == pc[h] = "top" /\ noff[h] < 2 /\ Len(todo[on[h]]) < 4

Interruptible(h) == sie[h]

Interrupt(h) ==
  /\ Interruptible(h)
  /\ LET x == on[h]
     IN todo' = [todo EXCEPT ![x] =
                   (IF h = Boot THEN Clockintr(x) ELSE <<>>)
                     \o (IF x \in Thread THEN Yield(x) ELSE <<>>)
                     \o <<Iret(pc[h], lk[h], old[h])>> \o @]
  /\ sie' = [sie EXCEPT ![h] = FALSE]
  /\ Top(h) /\ old' = [old EXCEPT ![h] = FALSE]
  /\ UNCHANGED <<on, noff, intena, locked, cpu, state, saved, held, panicked>>

Return(h) ==
  /\ Next1(h, "iret")
  /\ LET r == Head(todo[on[h]])
     IN Pc(h, r.pc) /\ lk' = [lk EXCEPT ![h] = r.l] /\ old' = [old EXCEPT ![h] = r.old]
  /\ sie' = [sie EXCEPT ![h] = TRUE]
  /\ Done(h)
  /\ UNCHANGED <<on, noff, intena, locked, cpu, state, saved, held, panicked>>

-----------------------------------------------------------------------------
(* The schedulers have called intr_on() once; a new thread begins in       *)
(* forkret().                                                              *)
Init ==
  /\ on = [h \in Hart |-> h] /\ sie = [h \in Hart |-> TRUE]
  /\ noff = [h \in Hart |-> 0] /\ intena = [h \in Hart |-> FALSE]
  /\ locked = [l \in Lock |-> FALSE] /\ cpu = [l \in Lock |-> Nobody]
  /\ pc = [h \in Hart |-> "top"] /\ lk = [h \in Hart |-> tickslock] /\ old = [h \in Hart |-> FALSE]
  /\ todo = [x \in Context |->
               IF x \in Thread THEN <<Release(x), Op("sret", tickslock)>> ELSE <<>>]
  /\ state = [t \in Thread |-> "runnable"] /\ saved = [t \in Thread |-> {}]
  /\ held = [h \in Hart |-> {}] /\ panicked = Nobody

Step(h) ==
  \/ PushOff(h) \/ IntrOff(h) \/ Swap(h) \/ SetCpu(h)
  \/ ClearCpu(h) \/ Unlock(h)
  \/ SchedStep(h) \/ Switch(h) \/ Scheduler(h) \/ Syscall(h)
  \/ Wakeup(h) \/ Wake(h) \/ Interrupt(h) \/ Return(h) \/ Usertrapret(h)

Next == panicked = Nobody /\ \E h \in Hart : Step(h)

Spec == Init /\ [][Next]_vars

-----------------------------------------------------------------------------
(* A lock is held by one hart at a time.                                   *)
Exclusion == \A g, h \in Hart : g # h => held[g] \cap held[h] = {}

(* No hart takes interrupts while it holds a lock: the handler would wait  *)
(* for a lock that only the interrupted code can release.                  *)
HeldUninterrupted == \A h \in Hart : sie[h] => held[h] = {}

(* A thread that is back in user space, on whatever hart it has come back  *)
(* to, takes interrupts; and no interrupt is taken inside a handler, which *)
(* would fill the kernel stack: intena is that of the thread, not of the   *)
(* hart's last one.                                                        *)
InterruptsAsBefore ==
  \A h \in Hart :
    /\ on[h] \in Thread /\ todo[on[h]] = <<>> /\ pc[h] = "top" => sie[h]
    /\ sie[h] => \A k \in DOMAIN todo[on[h]] : todo[on[h]][k].op # "iret"

(* None of the checks fails, and no thread is on two harts.                *)
NeverPanics ==
  panicked = Nobody /\ \A g, h \in Hart : on[g] = on[h] => g = h

LocksRight == Exclusion /\ HeldUninterrupted /\ InterruptsAsBefore /\ NeverPanics

=============================================================================
