--------------------------- MODULE InterruptsProof ---------------------------
(***************************************************************************)
(* Proofs about Interrupts: first Alarm, for any intervals and programs of *)
(* any length, then Spinlock, for any harts and threads, then Console, for *)
(* rings of any size, any readers and any writers.                         *)
(***************************************************************************)
EXTENDS Interrupts, FiniteSetTheorems, SequenceTheorems, WellFoundedInduction, TLAPS

(* The programs src/user/alarmtest.c shows: a handler only turns its alarm *)
(* off, and does not fork.                                                 *)
PlainHandlers == Rearms \subseteq {0} /\ ForkCode = {"main"}

(* backup holds what the last handler interrupted, which was no handler,   *)
(* or no handler has run; and while one runs, no tick can reach            *)
(* total_ticks.                                                            *)
HandlerInv ==
  /\ backup = interrupted /\ backup.code # "handler"
  /\ tf.code = "handler" => alarmState = 1 \/ total = 0

(* What a system call or a computation makes of a context is a context,    *)
(* of the same code.                                                       *)
LEMMA ContextStep ==
  ASSUME NEW k \in User!Context, NEW v \in User!Values
  PROVE  LET n == [k EXCEPT !.point = User!NextPoint(@), !.a0 = v]
         IN  n \in User!Context /\ n.code = k.code
<1>1. User!NextPoint(k.point) \in User!Points
  BY AlarmConstants DEF User!AlarmAssumption, User!Context, User!NextPoint, User!Points
<1> QED
  BY <1>1 DEF User!Context

(* What all the theorems rest on.                                          *)
AlarmInv == NoOvershoot /\ HandlerInv

(* The invariant is inductive when handlers are plain.                     *)
LEMMA AlarmStep == ASSUME PlainHandlers, AlarmInv, [User!Next]_(User!vars) PROVE AlarmInv'
<1> USE AlarmConstants
   DEF User!AlarmAssumption, PlainHandlers, AlarmInv, User!TypeOK, HandlerInv, NoOvershoot,
       User!NoOvershoot
<1>1. ASSUME User!Compute PROVE AlarmInv'
  <2>1. PICK v \in User!Values : tf' = [tf EXCEPT !.point = User!NextPoint(@), !.a0 = v]
    BY <1>1 DEF User!Compute, User!NextPoint
  <2>2. tf' \in User!Context /\ tf'.code = tf.code
    BY <1>1, <2>1, ContextStep DEF User!Compute, User!Runs
  <2> QED
    BY <1>1, <2>2 DEF User!Compute
<1>2. ASSUME User!Timer PROVE AlarmInv'
  <2>1. CASE User!Counting /\ User!Plus1 = total
    <3>1. /\ backup' = tf /\ alarmState' = 1 /\ ticks' = 0 /\ total' = total
          /\ tf' = [code |-> "handler", point |-> 0, a0 |-> tf.a0]
          /\ interrupted' = IF tf.code = "handler" THEN interrupted ELSE tf
      BY <1>2, <2>1 DEF User!Timer, User!Save
    <3>2. tf' \in User!Context /\ tf'.code = "handler"
      BY <3>1 DEF User!Context, User!Points, User!Junk, User!Values
    <3>3. tf.code # "handler"
      BY <2>1 DEF User!Counting, User!Plus1
    <3> QED
      BY <3>1, <3>2, <3>3
  <2>2. CASE ~(User!Counting /\ User!Plus1 = total)
    <3>1. /\ UNCHANGED <<tf, backup, alarmState, interrupted, total>>
          /\ ticks' = IF User!Counting THEN User!Plus1 ELSE ticks
      BY <1>2, <2>2 DEF User!Timer
    <3> QED
      BY <2>2, <3>1 DEF User!Counting, User!Plus1
  <2> QED
    BY <2>1, <2>2
<1>3. ASSUME User!Sigreturn PROVE AlarmInv'
  BY <1>3 DEF User!Sigreturn, User!Restored
<1>4. ASSUME User!Runs PROVE User!Returns(0) \in User!Context /\ User!Returns(0).code = tf.code
  BY <1>4, ContextStep, 0 \in User!Values DEF User!Returns, User!Values, User!Runs
<1>5. ASSUME User!ForkedChild PROVE AlarmInv'
  <2>1. User!Runs
    BY <1>5 DEF User!ForkedChild, User!Runs, User!Junk
  <2> QED
    BY <1>4, <1>5, <2>1 DEF User!ForkedChild, User!Junk
<1>6. ASSUME NEW n \in Intervals \cup Rearms, User!Sigalarm(n) PROVE AlarmInv'
  <2>1. User!Runs /\ n \in (IF tf.code = "main" THEN Intervals ELSE Rearms)
    BY <1>6 DEF User!Sigalarm
  <2>2. n \in 0 .. MaxTicks - 1 /\ (tf.code = "handler" => n = 0)
    BY <2>1
  <2>3. tf' \in User!Context /\ tf'.code = tf.code
    BY <1>4, <1>6, <2>1 DEF User!Sigalarm
  <2> QED
    BY <1>6, <2>2, <2>3 DEF User!Sigalarm, User!TicksReset
<1>7. ASSUME UNCHANGED User!vars PROVE AlarmInv'
  BY <1>7 DEF User!vars
<1> QED
  BY <1>1, <1>2, <1>3, <1>5, <1>6, <1>7 DEF User!Next

(* The initial state satisfies it, so every state does.                    *)
LEMMA AlarmInvariance == ASSUME PlainHandlers PROVE User!Spec => []AlarmInv
<1>1. User!Init => AlarmInv
  BY AlarmConstants
     DEF User!AlarmAssumption, User!Init, AlarmInv, User!TypeOK, HandlerInv, NoOvershoot,
         User!NoOvershoot, User!Start, User!Junk, User!Context, User!Points, User!Values
<1> QED
  BY <1>1, AlarmStep, PTL DEF User!Spec

(* No alarm is jumped over, whatever intervals the program sets one after  *)
(* the other.                                                              *)
THEOREM AlarmNotJumped == ASSUME PlainHandlers PROVE User!Spec => []NoOvershoot
<1>1. AlarmInv => NoOvershoot
  BY DEF AlarmInv
<1> QED
  BY <1>1, AlarmInvariance, PTL

(* sigreturn() resumes the very context the timer interrupted, a0          *)
(* included, whether the handler calls it or the program does.             *)
THEOREM HandlerIsTransparent == ASSUME PlainHandlers PROVE User!Spec => ResumesExactly
<1>1. AlarmInv /\ [User!Next]_(User!vars) => [User!Sigreturn => tf' = interrupted]_(User!vars)
  BY DEF AlarmInv, HandlerInv, User!Sigreturn, User!Restored
<1> QED
  BY <1>1, AlarmInvariance, PTL DEF User!Spec, ResumesExactly, User!ResumesExactly

(* The handler is not called while it runs.                                *)
THEOREM HandlerNotReentered == ASSUME PlainHandlers PROVE User!Spec => NotReentrant
<1>1. AlarmInv /\ [User!Next]_(User!vars) => [User!Timer /\ tf.code = "handler" => tf' = tf]_(User!vars)
  BY AlarmConstants
     DEF User!AlarmAssumption, AlarmInv, NoOvershoot, User!NoOvershoot, User!TypeOK,
         HandlerInv, User!Timer, User!Counting, User!Plus1
<1> QED
  BY <1>1, AlarmInvariance, PTL DEF User!Spec, NotReentrant, User!NotReentrant

(***************************************************************************)
(* The harts and their locks: what a context still has to do.              *)
(***************************************************************************)
Instr ==
  [op : {"acquire", "release"}, l : Lock]
    \cup [op : {"sched"}, l : {"sleeping", "runnable"}]
    \cup [op : {"switch", "wake"}, l : Thread] \cup [op : {"wakeup"}, l : SUBSET Thread]
    \cup [op : {"iret"}, l : Lock, pc : {"top", "off"}, old : BOOLEAN]
    \cup [op : {"sret"}, l : {tickslock}]

(* The lock that an operation takes, with the acquire() that an interrupt  *)
(* has stopped before its swap.                                            *)
Takes(a) == IF a.op = "acquire" \/ (a.op = "iret" /\ a.pc = "off") THEN {a.l} ELSE {}
Gives(a) == IF a.op = "release" THEN {a.l} ELSE {}

(* The locks that the operations of s from k on release before they take   *)
(* them: those that are held when it is the turn of k.                     *)
Owed(s, k) ==
  {l \in Lock : \E m \in DOMAIN s : /\ k <= m /\ l \in Gives(s[m])
                                    /\ \A j \in DOMAIN s : k <= j /\ j < m => l \notin Takes(s[j])}
Owes(s) == Owed(s, 1)

(* The kinds of operations from k on, and of all.                          *)
Later(s, k) == {s[j].op : j \in {i \in DOMAIN s : k <= i}}
Ops(s) == Later(s, 1)

Handles(s) == "iret" \in Ops(s)
Newborn(s) == "sret" \in Ops(s)    \* a thread that has not been in user space

(* Operation a of context x may come when the locks O are held after it    *)
(* and operations of the kinds L follow.                                   *)
Fits(x, a, O, L) ==
  CASE a.op = "acquire" -> a.l \in O
    [] a.op = "release" -> a.l \notin O
    [] a.op = "sched"   -> x \in Thread /\ O = {x}
    [] a.op = "switch"  -> x \in Hart /\ O = {a.l} /\ L \subseteq {"release"}
    [] a.op = "wake"    -> TRUE
    [] a.op = "wakeup"  -> O = {tickslock}
    [] a.op = "iret"    -> /\ O \ Takes(a) = {} /\ (a.pc = "off" => a.l \in O)
                           /\ (a.old <=> a.pc = "off") /\ "iret" \notin L
    [] a.op = "sret"    -> O = {} /\ L = {}

Sound(x, s) ==
  s \in Seq(Instr) /\ \A k \in DOMAIN s : Fits(x, s[k], Owed(s, k + 1), Later(s, k + 1))

(***************************************************************************)
(* The invariant.                                                          *)
(***************************************************************************)
Ranges(h) ==
  /\ on[h] \in {h} \cup Thread /\ pc[h] \in {"top", "off", "swap", "cpu", "free"}
  /\ lk[h] \in Lock /\ sie[h] \in BOOLEAN /\ intena[h] \in BOOLEAN /\ old[h] \in BOOLEAN

(* What a hart holds and how deep its push_off()s are follow from what it  *)
(* runs.                                                                   *)
Holds(h) ==
  LET O == Owes(todo[on[h]])
  IN /\ pc[h] \in {"top", "cpu"} => held[h] = O
     /\ pc[h] \in {"off", "swap"} => held[h] = O \ {lk[h]}
     /\ pc[h] = "free" => held[h] = O \cup {lk[h]} /\ lk[h] \notin O
     /\ pc[h] \in {"off", "swap", "cpu"} => lk[h] \in O
     /\ IsFiniteSet(held[h])
     /\ noff[h] = Cardinality(held[h]) + IF pc[h] = "swap" THEN 1 ELSE 0

(* Interrupts are off while a lock is held, and come back in a thread      *)
(* exactly if it does not handle one, once it has been in user space.      *)
Masks(h) ==
  LET s == todo[on[h]]
  IN /\ sie[h] => noff[h] = 0
     /\ old[h] <=> pc[h] = "off" /\ sie[h]
     /\ Handles(s) => ~sie[h] /\ (noff[h] > 0 => ~intena[h])
     /\ ~Handles(s) /\ on[h] \in Thread /\ ~Newborn(s) =>
          (noff[h] = 0 => sie[h]) /\ (noff[h] > 0 => intena[h])

(* A thread runs on a hart whose scheduler will find its lock held.        *)
Runs(h) ==
  on[h] \in Thread =>
    state[on[h]] = "running" /\ Owes(todo[h]) = {on[h]} /\ Ops(todo[h]) \subseteq {"release"}

HartInv(h) == Ranges(h) /\ Holds(h) /\ Masks(h) /\ Runs(h)

(* A thread that is on no hart will find its own lock held, and sched()    *)
(* has noted whether it handles an interrupt.                              *)
ThreadInv(t) ==
  /\ state[t] \in {"runnable", "running", "sleeping"} /\ saved[t] \in SUBSET BOOLEAN
  /\ (\A h \in Hart : on[h] # t) =>
       /\ state[t] # "running" /\ Owes(todo[t]) = {t}
       /\ Handles(todo[t]) => saved[t] # {} /\ TRUE \notin saved[t]
       /\ ~Handles(todo[t]) /\ ~Newborn(todo[t]) => TRUE \in saved[t]

LockInv(l) ==
  /\ locked[l] \in BOOLEAN /\ (locked[l] <=> \E h \in Hart : l \in held[h])
  /\ \A h \in Hart :
       /\ cpu[l] = h => l \in held[h]
       /\ l \in held[h] => cpu[l] = h \/ (pc[h] \in {"cpu", "free"} /\ lk[h] = l)
       /\ pc[h] = "free" /\ lk[h] = l => cpu[l] # h

Functions ==
  /\ on \in [Hart -> Context] /\ DOMAIN sie = Hart /\ DOMAIN noff = Hart /\ DOMAIN intena = Hart
  /\ DOMAIN pc = Hart /\ DOMAIN lk = Hart /\ DOMAIN old = Hart /\ DOMAIN held = Hart
  /\ DOMAIN locked = Lock /\ DOMAIN cpu = Lock /\ DOMAIN state = Thread /\ DOMAIN saved = Thread
  /\ DOMAIN todo = Context

Inv ==
  /\ Functions /\ panicked = Nobody
  /\ \A x \in Context : Sound(x, todo[x])
  /\ \A h \in Hart : HartInv(h)
  /\ \A t \in Thread : ThreadInv(t)
  /\ \A l \in Lock : LockInv(l)
  /\ Exclusion /\ \A g, h \in Hart : on[g] = on[h] => g = h

(***************************************************************************)
(* Operations in front of others.                                          *)
(***************************************************************************)
LEMMA Gifts ==
  ASSUME NEW a \in Instr
  PROVE  /\ Takes(a) \subseteq Lock /\ Gives(a) \subseteq Lock /\ Takes(a) \cap Gives(a) = {}
         /\ a.op \in {"acquire", "release", "sched", "switch", "wake", "wakeup", "iret", "sret"}
BY DEF Takes, Gives, Instr, Lock

Cons(a, s) == <<a>> \o s

(* t is a and then s.                                                      *)
Follows(t, a, s, n) ==
  /\ DOMAIN s = 1 .. n /\ DOMAIN t = 1 .. n + 1
  /\ t[1] = a /\ \A k \in 1 .. n : t[k + 1] = s[k]

LEMMA Shifted ==
  ASSUME NEW a \in Instr, NEW s \in Seq(Instr), NEW t \in Seq(Instr), NEW n \in Nat,
         Follows(t, a, s, n), NEW k \in 1 .. n + 1
  PROVE  Owed(t, k + 1) = Owed(s, k) /\ Later(t, k + 1) = Later(s, k)
<1>1. \A j \in 1 .. n : j + 1 \in 1 .. n + 1 /\ t[j + 1] = s[j]
  BY DEF Follows
<1>2. \A j \in 1 .. n + 1 : j > 1 => j - 1 \in 1 .. n /\ t[j] = s[j - 1]
  <2> TAKE j \in 1 .. n + 1
  <2> HAVE j > 1
  <2>1. j - 1 \in 1 .. n /\ (j - 1) + 1 = j
    OBVIOUS
  <2> QED
    BY <2>1, <1>1
<1>3. ASSUME NEW l \in Owed(t, k + 1) PROVE l \in Owed(s, k)
  <2>1. PICK m \in 1 .. n + 1 : /\ k + 1 <= m /\ l \in Gives(t[m])
                                /\ \A j \in 1 .. n + 1 : k + 1 <= j /\ j < m => l \notin Takes(t[j])
    BY <1>3 DEF Owed, Follows
  <2>2. m - 1 \in 1 .. n /\ k <= m - 1 /\ l \in Gives(s[m - 1])
    BY <2>1, <1>2
  <2>3. \A j \in 1 .. n : k <= j /\ j < m - 1 => l \notin Takes(s[j])
    <3> TAKE j \in 1 .. n
    <3> HAVE k <= j /\ j < m - 1
    <3>1. k + 1 <= j + 1 /\ j + 1 < m /\ j + 1 \in 1 .. n + 1
      OBVIOUS
    <3> QED
      BY <1>1, <2>1, <3>1
  <2> QED
    BY <1>3, <2>2, <2>3 DEF Owed, Follows
<1>4. ASSUME NEW l \in Owed(s, k) PROVE l \in Owed(t, k + 1)
  <2>1. PICK m \in 1 .. n : /\ k <= m /\ l \in Gives(s[m])
                            /\ \A j \in 1 .. n : k <= j /\ j < m => l \notin Takes(s[j])
    BY <1>4 DEF Owed, Follows
  <2>2. m + 1 \in 1 .. n + 1 /\ k + 1 <= m + 1 /\ l \in Gives(t[m + 1])
    BY <2>1, <1>1
  <2>3. \A j \in 1 .. n + 1 : k + 1 <= j /\ j < m + 1 => l \notin Takes(t[j])
    <3> TAKE j \in 1 .. n + 1
    <3> HAVE k + 1 <= j /\ j < m + 1
    <3>1. k <= j - 1 /\ j - 1 < m /\ j > 1
      OBVIOUS
    <3> QED
      BY <1>2, <2>1, <3>1
  <2> QED
    BY <1>4, <2>2, <2>3 DEF Owed, Follows
<1>5. Later(t, k + 1) \subseteq Later(s, k)
  <2> SUFFICES ASSUME NEW j \in 1 .. n + 1, k + 1 <= j PROVE t[j].op \in Later(s, k)
    BY DEF Later, Follows
  <2>1. k <= j - 1 /\ j > 1
    OBVIOUS
  <2>2. j - 1 \in 1 .. n /\ t[j] = s[j - 1]
    BY <1>2, <2>1
  <2> QED
    BY <2>1, <2>2 DEF Later, Follows
<1>6. Later(s, k) \subseteq Later(t, k + 1)
  <2> SUFFICES ASSUME NEW j \in 1 .. n, k <= j PROVE s[j].op \in Later(t, k + 1)
    BY DEF Later, Follows
  <2>1. k + 1 <= j + 1
    OBVIOUS
  <2>2. j + 1 \in 1 .. n + 1 /\ t[j + 1] = s[j]
    BY <1>1
  <2> QED
    BY <2>1, <2>2 DEF Later, Follows
<1> QED
  BY <1>3, <1>4, <1>5, <1>6

(* The locks held before an operation are those held after it, but those   *)
(* that it takes, and those that it gives back.                            *)
LEMMA Carried ==
  ASSUME NEW a \in Instr, NEW s \in Seq(Instr), NEW t \in Seq(Instr), NEW n \in Nat,
         Follows(t, a, s, n)
  PROVE  /\ Owes(t) = (Owes(s) \ Takes(a)) \cup Gives(a)
         /\ Ops(t) = {a.op} \cup Ops(s)
<1>1. 1 \in 1 .. n + 1 /\ t[1] = a /\ DOMAIN t = 1 .. n + 1
  BY DEF Follows
<1>2. Owed(t, 2) = Owes(s) /\ Later(t, 2) = Ops(s)
  <2>1. Owed(t, 1 + 1) = Owed(s, 1) /\ Later(t, 1 + 1) = Later(s, 1)
    BY <1>1, Shifted
  <2>2. 1 + 1 = 2
    OBVIOUS
  <2> QED
    BY <2>1, <2>2 DEF Owes, Ops
<1>3. ASSUME NEW l \in Owes(t) PROVE l \in (Owes(s) \ Takes(a)) \cup Gives(a)
  <2>1. PICK m \in 1 .. n + 1 : /\ l \in Gives(t[m])
                                /\ \A j \in 1 .. n + 1 : 1 <= j /\ j < m => l \notin Takes(t[j])
    BY <1>1, <1>3 DEF Owes, Owed
  <2>2. CASE m = 1
    BY <1>1, <2>1, <2>2
  <2>3. CASE m # 1
    <3>1. 2 <= m /\ 1 < m
      BY <2>3
    <3>2. l \notin Takes(a)
      BY <1>1, <2>1, <3>1
    <3>3. \A j \in 1 .. n + 1 : 2 <= j /\ j < m => l \notin Takes(t[j])
      BY <2>1
    <3>4. l \in Owed(t, 2)
      BY <1>1, <1>3, <2>1, <3>1, <3>3 DEF Owes, Owed
    <3> QED
      BY <1>2, <3>2, <3>4
  <2> QED
    BY <2>2, <2>3
<1>4. ASSUME NEW l \in Gives(a) PROVE l \in Owes(t)
  <2>1. l \in Lock
    BY <1>4, Gifts
  <2>2. \A j \in 1 .. n + 1 : ~(1 <= j /\ j < 1)
    OBVIOUS
  <2> QED
    BY <1>1, <1>4, <2>1, <2>2 DEF Owes, Owed
<1>5. ASSUME NEW l \in Owes(s), l \notin Takes(a) PROVE l \in Owes(t)
  <2>1. PICK m \in 1 .. n + 1 : /\ 2 <= m /\ l \in Gives(t[m])
                                /\ \A j \in 1 .. n + 1 : 2 <= j /\ j < m => l \notin Takes(t[j])
    BY <1>1, <1>2, <1>5 DEF Owed
  <2>2. \A j \in 1 .. n + 1 : 1 <= j /\ j < m => l \notin Takes(t[j])
    <3> TAKE j \in 1 .. n + 1
    <3>1. j = 1 \/ 2 <= j
      OBVIOUS
    <3> QED
      BY <1>1, <1>5, <2>1, <3>1
  <2>3. l \in Lock /\ 1 <= m
    BY <1>2, <1>5, <2>1 DEF Owed
  <2> QED
    BY <1>1, <2>1, <2>2, <2>3 DEF Owes, Owed
<1>6. Ops(t) = {a.op} \cup Ops(s)
  <2>1. \A j \in 1 .. n + 1 : 1 <= j /\ (j = 1 \/ 2 <= j)
    OBVIOUS
  <2>2. Ops(t) = {t[j].op : j \in 1 .. n + 1}
    BY <1>1, <2>1 DEF Ops, Later
  <2>3. Later(t, 2) = {t[j].op : j \in {i \in 1 .. n + 1 : 2 <= i}}
    BY <1>1 DEF Later
  <2> QED
    BY <1>1, <1>2, <2>1, <2>2, <2>3
<1> QED
  BY <1>3, <1>4, <1>5, <1>6

LEMMA SoundFollows ==
  ASSUME NEW x, NEW a \in Instr, NEW s \in Seq(Instr), NEW t \in Seq(Instr), NEW n \in Nat,
         Follows(t, a, s, n)
  PROVE  Sound(x, t) <=> Sound(x, s) /\ Fits(x, a, Owes(s), Ops(s))
<1>1. /\ t[1] = a /\ DOMAIN t = 1 .. n + 1 /\ DOMAIN s = 1 .. n
      /\ \A k \in 1 .. n : t[k + 1] = s[k]
  BY DEF Follows
<1>2. \A k \in 1 .. n + 1 : Owed(t, k + 1) = Owed(s, k) /\ Later(t, k + 1) = Later(s, k)
  BY Shifted
<1>3. Owed(t, 1 + 1) = Owes(s) /\ Later(t, 1 + 1) = Ops(s) /\ 1 \in 1 .. n + 1
  BY <1>2 DEF Owes, Ops
<1>4. ASSUME Sound(x, t) PROVE Sound(x, s) /\ Fits(x, a, Owes(s), Ops(s))
  <2>1. \A k \in 1 .. n + 1 : Fits(x, t[k], Owed(t, k + 1), Later(t, k + 1))
    BY <1>1, <1>4 DEF Sound
  <2>2. ASSUME NEW k \in 1 .. n PROVE Fits(x, s[k], Owed(s, k + 1), Later(s, k + 1))
    <3>1. k + 1 \in 1 .. n + 1
      OBVIOUS
    <3>2. Fits(x, t[k + 1], Owed(t, (k + 1) + 1), Later(t, (k + 1) + 1))
      BY <2>1, <3>1
    <3> QED
      BY <1>1, <1>2, <3>1, <3>2
  <2> QED
    BY <1>1, <1>3, <2>1, <2>2 DEF Sound
<1>5. ASSUME Sound(x, s), Fits(x, a, Owes(s), Ops(s)) PROVE Sound(x, t)
  <2>1. \A k \in 1 .. n : Fits(x, s[k], Owed(s, k + 1), Later(s, k + 1))
    BY <1>1, <1>5 DEF Sound
  <2>2. ASSUME NEW k \in 1 .. n + 1, k # 1 PROVE Fits(x, t[k], Owed(t, k + 1), Later(t, k + 1))
    <3> DEFINE j == k - 1
    <3>1. j \in 1 .. n /\ j + 1 = k
      BY <2>2
    <3> HIDE DEF j
    <3>2. Fits(x, s[j], Owed(s, j + 1), Later(s, j + 1))
      BY <2>1, <3>1
    <3>3. t[k] = s[j] /\ Owed(t, k + 1) = Owed(s, j + 1) /\ Later(t, k + 1) = Later(s, j + 1)
      BY <1>1, <1>2, <3>1
    <3> QED
      BY <3>2, <3>3
  <2> QED
    BY <1>1, <1>3, <1>5, <2>2 DEF Sound
<1> QED
  BY <1>4, <1>5

(* s without its head, and with another.                                   *)
LEMMA Popped ==
  ASSUME NEW s \in Seq(Instr), s # <<>>
  PROVE  /\ Head(s) \in Instr /\ Tail(s) \in Seq(Instr)
         /\ \E n \in Nat : Follows(s, Head(s), Tail(s), n)
<1>1. Head(s) \in Instr /\ Tail(s) \in Seq(Instr)
  BY HeadTailProperties
<1>2. PICK n \in Nat : n = Len(Tail(s)) /\ Len(s) = n + 1
  <2>1. PICK k \in Nat, m \in Nat : k = Len(Tail(s)) /\ m = Len(s)
    BY <1>1, LenProperties
  <2>2. k = m - 1
    BY <2>1, HeadTailProperties, Zenon
  <2>3. m = k + 1
    BY <2>2
  <2> QED
    BY <2>1, <2>3
<1>3. DOMAIN s = 1 .. n + 1 /\ DOMAIN Tail(s) = 1 .. n
  BY <1>1, <1>2, LenProperties
<1>4. s[1] = Head(s)
  OBVIOUS
<1>5. \A k \in 1 .. n : Tail(s)[k] = s[k + 1]
  BY <1>2, HeadTailProperties
<1> QED
  BY <1>1, <1>3, <1>4, <1>5 DEF Follows

LEMMA Pushed ==
  ASSUME NEW a \in Instr, NEW s \in Seq(Instr)
  PROVE  /\ Cons(a, s) \in Seq(Instr) /\ Cons(a, s) # <<>>
         /\ \E n \in Nat : Follows(Cons(a, s), a, s, n)
<1> DEFINE t == <<a>> \o s
<1>1. <<a>> \in Seq(Instr) /\ Len(<<a>>) = 1 /\ <<a>>[1] = a
  OBVIOUS
<1>2. t \in Seq(Instr) /\ Len(t) = 1 + Len(s)
  BY <1>1, ConcatProperties
<1>3. PICK n \in Nat : n = Len(s) /\ Len(t) = n + 1
  BY <1>2, LenProperties
<1>4. DOMAIN t = 1 .. n + 1 /\ DOMAIN s = 1 .. n
  BY <1>2, <1>3, LenProperties
<1>5. \A k \in 1 .. n + 1 : t[k] = IF k <= 1 THEN <<a>>[k] ELSE s[k - 1]
  BY <1>1, <1>3, ConcatProperties
<1>6. t[1] = a /\ \A k \in 1 .. n : t[k + 1] = s[k]
  <2>1. t[1] = a
    BY <1>1, <1>5
  <2>2. ASSUME NEW k \in 1 .. n PROVE t[k + 1] = s[k]
    <3>1. k + 1 \in 1 .. n + 1 /\ ~(k + 1 <= 1) /\ (k + 1) - 1 = k
      OBVIOUS
    <3> QED
      BY <1>5, <3>1
  <2> QED
    BY <2>1, <2>2
<1>7. t # <<>>
  <2>1. ASSUME t = <<>> PROVE FALSE
    <3>1. Len(t) = 0
      BY <2>1
    <3> QED
      BY <1>3, <3>1
  <2> QED
    BY <2>1
<1> QED
  BY <1>2, <1>4, <1>6, <1>7 DEF Follows, Cons

(* What is known of a list of operations t that is a and then s.           *)
Split(x, a, s, t) ==
  /\ Sound(x, s) /\ Fits(x, a, Owes(s), Ops(s)) /\ a \in Instr
  /\ Owes(s) \subseteq Lock /\ Owes(t) = (Owes(s) \ Takes(a)) \cup Gives(a)
  /\ Ops(t) = {a.op} \cup Ops(s)

LEMMA SplitOps ==
  ASSUME NEW x, NEW a \in Instr, NEW s \in Seq(Instr), NEW t \in Seq(Instr), NEW n \in Nat,
         Follows(t, a, s, n), Sound(x, s), Fits(x, a, Owes(s), Ops(s))
  PROVE  Split(x, a, s, t)
<1>1. Owes(t) = (Owes(s) \ Takes(a)) \cup Gives(a) /\ Ops(t) = {a.op} \cup Ops(s)
  BY Carried
<1>2. Owes(s) \subseteq Lock
  BY DEF Owes, Owed
<1> QED
  BY <1>1, <1>2 DEF Split

LEMMA Pop ==
  ASSUME NEW x, NEW s, Sound(x, s), s # <<>>
  PROVE  Split(x, Head(s), Tail(s), s)
<1>1. s \in Seq(Instr)
  BY DEF Sound
<1>2. Head(s) \in Instr /\ Tail(s) \in Seq(Instr)
  BY <1>1, Popped
<1>3. PICK n \in Nat : Follows(s, Head(s), Tail(s), n)
  BY <1>1, Popped
<1>4. PICK a, r : a = Head(s) /\ r = Tail(s)
  OBVIOUS
<1>5. Sound(x, r) /\ Fits(x, a, Owes(r), Ops(r))
  BY <1>1, <1>2, <1>3, <1>4, SoundFollows
<1> QED
  BY <1>1, <1>2, <1>3, <1>4, <1>5, SplitOps

LEMMA Push ==
  ASSUME NEW x, NEW a \in Instr, NEW s, Sound(x, s), Fits(x, a, Owes(s), Ops(s)),
         NEW t, t = Cons(a, s)
  PROVE  Sound(x, t) /\ Split(x, a, s, t)
<1>1. s \in Seq(Instr)
  BY DEF Sound
<1>3. t \in Seq(Instr)
  BY <1>1, Pushed
<1>4. PICK n \in Nat : Follows(t, a, s, n)
  BY <1>1, Pushed
<1>5. Sound(x, t)
  BY <1>1, <1>3, <1>4, SoundFollows
<1> QED
  BY <1>1, <1>3, <1>4, <1>5, SplitOps

LEMMA Nothing ==
  ASSUME NEW x
  PROVE  Sound(x, <<>>) /\ Owes(<<>>) = {} /\ Ops(<<>>) = {}
<1>1. <<>> \in Seq(Instr) /\ DOMAIN <<>> = {}
  OBVIOUS
<1> QED
  BY <1>1 DEF Sound, Owes, Owed, Ops, Later

(* The operations there are.                                               *)
LEMMA Kinds ==
  /\ \A l \in Lock : Acquire(l) \in Instr /\ Release(l) \in Instr
  /\ \A t \in Thread : Op("switch", t) \in Instr /\ Op("wake", t) \in Instr
  /\ \A S \in SUBSET Thread : Op("wakeup", S) \in Instr
  /\ Sched("sleeping") \in Instr /\ Sched("runnable") \in Instr
  /\ \A l \in Lock, p \in {"top", "off"}, o \in BOOLEAN : Iret(p, l, o) \in Instr
  /\ Op("sret", tickslock) \in Instr
BY DEF Instr, Acquire, Release, Op, Sched, Iret

LEMMA PushAcquire ==
  ASSUME NEW x, NEW l \in Lock, NEW s, Sound(x, s), l \in Owes(s),
         NEW t, t = Cons(Acquire(l), s)
  PROVE  Sound(x, t) /\ Owes(t) = Owes(s) \ {l} /\ Ops(t) = Ops(s) \cup {"acquire"}
<1> DEFINE a == Acquire(l)
<1>1. /\ a \in Instr /\ a.op = "acquire" /\ a.l = l
      /\ Takes(a) = {l} /\ Gives(a) = {}
  BY Kinds DEF Acquire, Op, Takes, Gives
<1> HIDE DEF a
<1>2. Fits(x, a, Owes(s), Ops(s))
  BY <1>1 DEF Fits, Handles
<1>3. Sound(x, t) /\ Split(x, a, s, t)
  BY <1>1, <1>2, Push DEF a
<1> QED
  BY <1>1, <1>3 DEF Split

LEMMA PushRelease ==
  ASSUME NEW x, NEW l \in Lock, NEW s, Sound(x, s), l \notin Owes(s),
         NEW t, t = Cons(Release(l), s)
  PROVE  Sound(x, t) /\ Owes(t) = Owes(s) \cup {l} /\ Ops(t) = Ops(s) \cup {"release"}
<1> DEFINE a == Release(l)
<1>1. /\ a \in Instr /\ a.op = "release" /\ a.l = l
      /\ Takes(a) = {} /\ Gives(a) = {l}
  BY Kinds DEF Release, Op, Takes, Gives
<1> HIDE DEF a
<1>2. Fits(x, a, Owes(s), Ops(s))
  BY <1>1 DEF Fits, Handles
<1>3. Sound(x, t) /\ Split(x, a, s, t)
  BY <1>1, <1>2, Push DEF a
<1> QED
  BY <1>1, <1>3 DEF Split

LEMMA PushSched ==
  ASSUME NEW x \in Thread, NEW to \in {"sleeping", "runnable"}, NEW s, Sound(x, s), Owes(s) = {x},
         NEW t, t = Cons(Sched(to), s)
  PROVE  Sound(x, t) /\ Owes(t) = {x} /\ Ops(t) = Ops(s) \cup {"sched"}
<1> DEFINE a == Sched(to)
<1>1. /\ a \in Instr /\ a.op = "sched" /\ a.l = to
      /\ Takes(a) = {} /\ Gives(a) = {}
  BY Kinds DEF Sched, Op, Takes, Gives
<1> HIDE DEF a
<1>2. Fits(x, a, Owes(s), Ops(s))
  BY <1>1 DEF Fits, Handles
<1>3. Sound(x, t) /\ Split(x, a, s, t)
  BY <1>1, <1>2, Push DEF a
<1> QED
  BY <1>1, <1>3 DEF Split

LEMMA PushWakeup ==
  ASSUME NEW x, NEW S \in SUBSET Thread, NEW s, Sound(x, s), Owes(s) = {tickslock},
         NEW t, t = Cons(Op("wakeup", S), s)
  PROVE  Sound(x, t) /\ Owes(t) = {tickslock} /\ Ops(t) = Ops(s) \cup {"wakeup"}
<1> DEFINE a == Op("wakeup", S)
<1>1. /\ a \in Instr /\ a.op = "wakeup" /\ a.l = S
      /\ Takes(a) = {} /\ Gives(a) = {}
  BY Kinds DEF Op, Takes, Gives
<1> HIDE DEF a
<1>2. Fits(x, a, Owes(s), Ops(s))
  BY <1>1 DEF Fits, Handles
<1>3. Sound(x, t) /\ Split(x, a, s, t)
  BY <1>1, <1>2, Push DEF a
<1> QED
  BY <1>1, <1>3 DEF Split

LEMMA PushWake ==
  ASSUME NEW x, NEW u \in Thread, NEW s, Sound(x, s),
         NEW t, t = Cons(Op("wake", u), s)
  PROVE  Sound(x, t) /\ Owes(t) = Owes(s) /\ Ops(t) = Ops(s) \cup {"wake"}
<1> DEFINE a == Op("wake", u)
<1>1. /\ a \in Instr /\ a.op = "wake" /\ a.l = u
      /\ Takes(a) = {} /\ Gives(a) = {}
  BY Kinds DEF Op, Takes, Gives
<1> HIDE DEF a
<1>2. Fits(x, a, Owes(s), Ops(s))
  BY <1>1 DEF Fits, Handles
<1>3. Sound(x, t) /\ Split(x, a, s, t)
  BY <1>1, <1>2, Push DEF a
<1> QED
  BY <1>1, <1>3 DEF Split

(* The scheduler of x has chosen u.                                        *)
LEMMA PushSwitch ==
  ASSUME NEW x \in Hart, NEW u \in Thread, NEW s, Sound(x, s), Owes(s) = {u}, Ops(s) \subseteq {"release"},
         NEW t, t = Cons(Op("switch", u), s)
  PROVE  Sound(x, t) /\ Owes(t) = {u} /\ Ops(t) = Ops(s) \cup {"switch"}
<1> DEFINE a == Op("switch", u)
<1>1. /\ a \in Instr /\ a.op = "switch" /\ a.l = u
      /\ Takes(a) = {} /\ Gives(a) = {}
  BY Kinds DEF Op, Takes, Gives
<1> HIDE DEF a
<1>2. Fits(x, a, Owes(s), Ops(s))
  BY <1>1 DEF Fits, Handles
<1>3. Sound(x, t) /\ Split(x, a, s, t)
  BY <1>1, <1>2, Push DEF a
<1> QED
  BY <1>1, <1>3 DEF Split

(* The start of x in user space.                                           *)
LEMMA PushSret ==
  ASSUME NEW x, NEW s, Sound(x, s), Owes(s) = {}, Ops(s) = {}, NEW t, t = Cons(Op("sret", tickslock), s)
  PROVE  Sound(x, t) /\ Owes(t) = {} /\ Ops(t) = {"sret"}
<1> DEFINE a == Op("sret", tickslock)
<1>1. /\ a \in Instr /\ a.op = "sret"
      /\ Takes(a) = {} /\ Gives(a) = {}
  BY Kinds DEF Op, Takes, Gives
<1> HIDE DEF a
<1>2. Fits(x, a, Owes(s), Ops(s))
  BY <1>1 DEF Fits, Handles
<1>3. Sound(x, t) /\ Split(x, a, s, t)
  BY <1>1, <1>2, Push DEF a
<1> QED
  BY <1>1, <1>3 DEF Split

(* The return from an interrupt that stopped an acquire() or came between  *)
(* operations, when no lock was held.                                      *)
LEMMA PushIret ==
  ASSUME NEW x, NEW a \in Instr, a.op = "iret", NEW s, Sound(x, s), ~Handles(s),
         a.old <=> a.pc = "off", a.pc = "top" => Owes(s) = {},
         a.pc = "off" => a.l \in Owes(s) /\ Owes(s) \ {a.l} = {},
         NEW t, t = Cons(a, s)
  PROVE  Sound(x, t) /\ Owes(t) = {} /\ Ops(t) = Ops(s) \cup {"iret"}
<1>1. /\ Takes(a) = (IF a.pc = "off" THEN {a.l} ELSE {}) /\ Gives(a) = {}
      /\ a.pc \in {"top", "off"}
  BY DEF Takes, Gives, Instr
<1>2. Owes(s) \ Takes(a) = {} /\ (a.pc = "off" => a.l \in Owes(s))
  BY <1>1
<1>3. Fits(x, a, Owes(s), Ops(s))
  BY <1>2 DEF Fits, Handles
<1>4. Sound(x, t) /\ Split(x, a, s, t)
  BY <1>3, Push
<1> QED
  BY <1>1, <1>2, <1>4 DEF Split

(***************************************************************************)
(* The lists of operations that are given to a context.                    *)
(***************************************************************************)
LEMMA Joined2 ==
  ASSUME NEW X, NEW s \in Seq(X), NEW a \in X, NEW b \in X
  PROVE  <<a, b>> \o s = Cons(a, Cons(b, s))
<1>1. <<a>> \in Seq(X) /\ <<b>> \in Seq(X)
  OBVIOUS
<1>2. <<a, b>> = Append(<<a>>, b)
  OBVIOUS
<1>3. Append(<<a>>, b) = <<a>> \o <<b>>
  BY <1>1, AppendIsConcat
<1>4. (<<a>> \o <<b>>) \o s = <<a>> \o (<<b>> \o s)
  BY <1>1, ConcatAssociative
<1> QED
  BY <1>2, <1>3, <1>4, Zenon DEF Cons

LEMMA Joined3 ==
  ASSUME NEW X, NEW s \in Seq(X), NEW a \in X, NEW b \in X, NEW c \in X
  PROVE  <<a, b, c>> \o s = Cons(a, Cons(b, Cons(c, s)))
<1>1. <<a>> \in Seq(X) /\ <<b, c>> \in Seq(X)
  OBVIOUS
<1>2. <<a, b, c>> = <<a>> \o <<b, c>>
  OBVIOUS
<1>3. (<<a>> \o <<b, c>>) \o s = <<a>> \o (<<b, c>> \o s)
  BY <1>1, ConcatAssociative
<1>4. <<b, c>> \o s = Cons(b, Cons(c, s))
  BY Joined2
<1> QED
  BY <1>2, <1>3, <1>4, Zenon DEF Cons

LEMMA Joined4 ==
  ASSUME NEW X, NEW s \in Seq(X), NEW a \in X, NEW b \in X, NEW c \in X, NEW d \in X
  PROVE  <<a, b, c, d>> \o s = Cons(a, Cons(b, Cons(c, Cons(d, s))))
<1>1. <<a>> \in Seq(X) /\ <<b, c, d>> \in Seq(X)
  OBVIOUS
<1>2. <<a, b, c, d>> = <<a>> \o <<b, c, d>>
  OBVIOUS
<1>3. (<<a>> \o <<b, c, d>>) \o s = <<a>> \o (<<b, c, d>> \o s)
  BY <1>1, ConcatAssociative
<1>4. <<b, c, d>> \o s = Cons(b, Cons(c, Cons(d, s)))
  BY Joined3
<1> QED
  BY <1>2, <1>3, <1>4, Zenon DEF Cons

LEMMA Locks ==
  /\ tickslock \in Lock /\ Thread \subseteq Lock /\ tickslock \notin Thread
  /\ Hart \subseteq Context /\ Thread \subseteq Context /\ Hart \cap Thread = {}
  /\ tickslock \notin Hart /\ Nobody \notin Hart
BY SpinConstants DEF SpinAssumption, Lock, Context

(* What the scheduler does next.                                           *)
LEMMA SchedulerChain ==
  ASSUME NEW h \in Hart, NEW t \in Thread, NEW n, n = <<>>,
         NEW s, s = Cons(Acquire(t), Cons(Op("switch", t), Cons(Release(t), n)))
  PROVE  Sound(h, s) /\ Owes(s) = {} /\ Ops(s) = {"acquire", "switch", "release"}
<1>1. t \in Lock
  BY Locks
<1>2. PICK r : r = Cons(Release(t), n)
  OBVIOUS
<1>3. Sound(h, n) /\ Owes(n) = {} /\ Ops(n) = {}
  BY Nothing
<1>4. Sound(h, r) /\ Owes(r) = {t} /\ Ops(r) = {"release"}
  BY <1>1, <1>2, <1>3, PushRelease
<1>5. PICK w : w = Cons(Op("switch", t), r)
  OBVIOUS
<1>6. Sound(h, w) /\ Owes(w) = {t} /\ Ops(w) = {"release", "switch"}
  BY <1>4, <1>5, PushSwitch
<1>7. s = Cons(Acquire(t), w)
  BY <1>2, <1>5
<1>8. Sound(h, s) /\ Owes(s) = Owes(w) \ {t} /\ Ops(s) = Ops(w) \cup {"acquire"}
  BY <1>1, <1>6, <1>7, PushAcquire
<1> QED
  BY ONLY <1>6, <1>8

LEMMA SchedulerSound ==
  ASSUME NEW h \in Hart, NEW t \in Thread,
         NEW s, s = <<Acquire(t), Op("switch", t), Release(t)>>
  PROVE  Sound(h, s) /\ Owes(s) = {} /\ Ops(s) = {"acquire", "switch", "release"}
<1>1. Acquire(t) \in Instr /\ Op("switch", t) \in Instr /\ Release(t) \in Instr
  BY Locks, Kinds
<1>2. PICK n \in Seq(Instr) : n = <<>>
  <2>1. <<>> \in Seq(Instr)
    OBVIOUS
  <2> QED
    BY <2>1, Zenon
<1>3. ASSUME NEW a, NEW b, NEW c PROVE <<a, b, c>> \o n = <<a, b, c>>
  BY <1>2
<1>4. <<Acquire(t), Op("switch", t), Release(t)>> \o n
        = Cons(Acquire(t), Cons(Op("switch", t), Cons(Release(t), n)))
  BY ONLY <1>1, n \in Seq(Instr), Joined3
<1>5. s = Cons(Acquire(t), Cons(Op("switch", t), Cons(Release(t), n)))
  BY <1>3, <1>4
<1> QED
  BY ONLY <1>2, <1>5, SchedulerChain, h \in Hart, t \in Thread

(* yield(), before what it returns to.                                     *)
LEMMA YieldChain ==
  ASSUME NEW t \in Thread, NEW s, Sound(t, s), Owes(s) = {},
         NEW y, y = Cons(Acquire(t), Cons(Sched("runnable"), Cons(Release(t), s)))
  PROVE  Sound(t, y) /\ Owes(y) = {} /\ Ops(y) = Ops(s) \cup {"acquire", "sched", "release"}
<1>1. t \in Lock
  BY Locks
<1>2. PICK r : r = Cons(Release(t), s)
  OBVIOUS
<1>3. Sound(t, r) /\ Owes(r) = {t} /\ Ops(r) = Ops(s) \cup {"release"}
  BY <1>1, <1>2, PushRelease
<1>4. PICK w : w = Cons(Sched("runnable"), r)
  OBVIOUS
<1>5. Sound(t, w) /\ Owes(w) = {t} /\ Ops(w) = Ops(s) \cup {"release", "sched"}
  BY <1>3, <1>4, PushSched
<1>6. y = Cons(Acquire(t), w)
  BY <1>2, <1>4
<1> QED
  BY <1>1, <1>5, <1>6, PushAcquire

LEMMA YieldSound ==
  ASSUME NEW t \in Thread, NEW s, Sound(t, s), Owes(s) = {}, NEW y, y = Yield(t) \o s
  PROVE  Sound(t, y) /\ Owes(y) = {} /\ Ops(y) = Ops(s) \cup {"acquire", "sched", "release"}
<1>1. Acquire(t) \in Instr /\ Sched("runnable") \in Instr /\ Release(t) \in Instr
  BY Locks, Kinds
<1>2. s \in Seq(Instr)
  BY DEF Sound
<1>3. y = Cons(Acquire(t), Cons(Sched("runnable"), Cons(Release(t), s)))
  BY <1>1, <1>2, Joined3 DEF Yield
<1> QED
  BY ONLY <1>3, YieldChain, t \in Thread, Sound(t, s), Owes(s) = {}

(* clockintr(), before what it returns to.                                 *)
LEMMA ClockChain ==
  ASSUME NEW x, NEW s, Sound(x, s), Owes(s) = {}, NEW S \in SUBSET Thread,
         NEW y, y = Cons(Acquire(tickslock), Cons(Op("wakeup", S), Cons(Release(tickslock), s)))
  PROVE  Sound(x, y) /\ Owes(y) = {} /\ Ops(y) = Ops(s) \cup {"acquire", "wakeup", "release"}
<1>1. tickslock \in Lock
  BY Locks
<1>2. PICK r : r = Cons(Release(tickslock), s)
  OBVIOUS
<1>3. Sound(x, r) /\ Owes(r) = {tickslock} /\ Ops(r) = Ops(s) \cup {"release"}
  BY <1>1, <1>2, PushRelease
<1>4. PICK w : w = Cons(Op("wakeup", S), r)
  OBVIOUS
<1>5. Sound(x, w) /\ Owes(w) = {tickslock} /\ Ops(w) = Ops(s) \cup {"release", "wakeup"}
  BY <1>3, <1>4, PushWakeup
<1>6. y = Cons(Acquire(tickslock), w)
  BY <1>2, <1>4
<1> QED
  BY <1>1, <1>5, <1>6, PushAcquire

(* What comes before s when x is interrupted on the first hart.            *)
Clocked(x, s) == Clockintr(x) \o s

LEMMA ClockSound ==
  ASSUME NEW x, NEW s, Sound(x, s), Owes(s) = {}, NEW y, y = Clocked(x, s)
  PROVE  Sound(x, y) /\ Owes(y) = {} /\ Ops(y) = Ops(s) \cup {"acquire", "wakeup", "release"}
<1>1. PICK S \in SUBSET Thread : S = Thread \ {x}
  OBVIOUS
<1>2. Acquire(tickslock) \in Instr /\ Op("wakeup", S) \in Instr /\ Release(tickslock) \in Instr
  BY <1>1, Locks, Kinds
<1>3. s \in Seq(Instr)
  BY DEF Sound
<1>4. y = Cons(Acquire(tickslock), Cons(Op("wakeup", S), Cons(Release(tickslock), s)))
  <2>1. Clockintr(x) = <<Acquire(tickslock), Op("wakeup", S), Release(tickslock)>>
    BY <1>1, Zenon DEF Clockintr
  <2>2. <<Acquire(tickslock), Op("wakeup", S), Release(tickslock)>> \o s
          = Cons(Acquire(tickslock), Cons(Op("wakeup", S), Cons(Release(tickslock), s)))
    BY ONLY <1>2, <1>3, Joined3
  <2> QED
    BY <2>1, <2>2, Zenon DEF Clocked
<1> QED
  BY ONLY <1>4, ClockChain, Sound(x, s), Owes(s) = {}, S \in SUBSET Thread

(* One turn of wakeup(), before the rest of its loop.                      *)
LEMMA TurnChain ==
  ASSUME NEW x, NEW s, Sound(x, s), Owes(s) = {tickslock},
         NEW S \in SUBSET Thread, NEW u \in Thread,
         NEW y, y = Cons(Acquire(u), Cons(Op("wake", u), Cons(Release(u), Cons(Op("wakeup", S), s))))
  PROVE  /\ Sound(x, y) /\ Owes(y) = {tickslock}
         /\ Ops(y) = Ops(s) \cup {"acquire", "wake", "release", "wakeup"}
<1>1. u \in Lock /\ u # tickslock
  BY Locks
<1>2. PICK v : v = Cons(Op("wakeup", S), s)
  OBVIOUS
<1>3. Sound(x, v) /\ Owes(v) = {tickslock} /\ Ops(v) = Ops(s) \cup {"wakeup"}
  BY <1>2, PushWakeup
<1>4. PICK r : r = Cons(Release(u), v)
  OBVIOUS
<1>5. Sound(x, r) /\ Owes(r) = {tickslock, u} /\ Ops(r) = Ops(s) \cup {"release", "wakeup"}
  BY <1>1, <1>3, <1>4, PushRelease
<1>6. PICK w : w = Cons(Op("wake", u), r)
  OBVIOUS
<1>7. Sound(x, w) /\ Owes(w) = {tickslock, u} /\ Ops(w) = Ops(s) \cup {"wake", "release", "wakeup"}
  BY <1>1, <1>5, <1>6, PushWake
<1>8. y = Cons(Acquire(u), w)
  BY <1>2, <1>4, <1>6
<1> QED
  BY <1>1, <1>7, <1>8, PushAcquire

(* The turn of thread u in wakeup(), with the threads S still to come.      *)
Turn(u, S, s) == <<Acquire(u), Op("wake", u), Release(u), Op("wakeup", S)>> \o s

LEMMA TurnSound ==
  ASSUME NEW x, NEW s, Sound(x, s), Owes(s) = {tickslock},
         NEW S \in SUBSET Thread, NEW u \in Thread,
         NEW y, y = Turn(u, S, s)
  PROVE  /\ Sound(x, y) /\ Owes(y) = {tickslock}
         /\ Ops(y) = Ops(s) \cup {"acquire", "wake", "release", "wakeup"}
<1>1. /\ Acquire(u) \in Instr /\ Op("wake", u) \in Instr
      /\ Release(u) \in Instr /\ Op("wakeup", S) \in Instr
  BY Locks, Kinds
<1>2. s \in Seq(Instr)
  BY DEF Sound
<1>3. y = Cons(Acquire(u), Cons(Op("wake", u), Cons(Release(u), Cons(Op("wakeup", S), s))))
  BY <1>1, <1>2, Joined4 DEF Turn
<1> QED
  BY ONLY <1>3, TurnChain, Sound(x, s), Owes(s) = {tickslock}, S \in SUBSET Thread, u \in Thread

(***************************************************************************)
(* One step of a hart.                                                     *)
(***************************************************************************)
(* What an operation a of context x, with r after it, says of the locks.   *)
LEMMA SplitOp ==
  ASSUME NEW x \in Context, NEW a, NEW r, NEW s, Split(x, a, r, s)
  PROVE  /\ Sound(x, r) /\ Ops(s) = {a.op} \cup Ops(r)
         /\ a.op = "acquire" => a.l \in Lock /\ a.l \in Owes(r) /\ Owes(s) = Owes(r) \ {a.l}
         /\ a.op = "release" => a.l \in Lock /\ a.l \notin Owes(r) /\ Owes(s) = Owes(r) \cup {a.l}
         /\ a.op = "sched" => /\ x \in Thread /\ a.l \in {"sleeping", "runnable"}
                              /\ Owes(r) = {x} /\ Owes(s) = {x}
         /\ a.op = "switch" => /\ x \in Hart /\ a.l \in Thread /\ Ops(r) \subseteq {"release"}
                               /\ Owes(r) = {a.l} /\ Owes(s) = {a.l}
         /\ a.op = "wake" => a.l \in Thread /\ Owes(s) = Owes(r)
         /\ a.op = "wakeup" => /\ a.l \in SUBSET Thread
                               /\ Owes(r) = {tickslock} /\ Owes(s) = {tickslock}
         /\ a.op = "iret" => /\ a.l \in Lock /\ a.pc \in {"top", "off"} /\ (a.old <=> a.pc = "off")
                             /\ "iret" \notin Ops(r) /\ Owes(s) = {}
                             /\ a.pc = "top" => Owes(r) = {}
                             /\ a.pc = "off" => a.l \in Owes(r) /\ Owes(r) \ {a.l} = {}
         /\ a.op = "sret" => Ops(r) = {} /\ Owes(r) = {} /\ Owes(s) = {}
<1>1. /\ Sound(x, r) /\ Fits(x, a, Owes(r), Ops(r)) /\ a \in Instr
      /\ Owes(s) = (Owes(r) \ Takes(a)) \cup Gives(a) /\ Ops(s) = {a.op} \cup Ops(r)
  BY DEF Split
<1>2. /\ a.op \in {"acquire", "release", "iret"} => a.l \in Lock
      /\ a.op = "sched" => a.l \in {"sleeping", "runnable"}
      /\ a.op \in {"switch", "wake"} => a.l \in Thread
      /\ a.op = "wakeup" => a.l \in SUBSET Thread
      /\ a.op = "iret" => a.pc \in {"top", "off"}
  BY <1>1 DEF Instr
<1>3. /\ a.op = "acquire" => Takes(a) = {a.l} /\ Gives(a) = {}
      /\ a.op = "release" => Takes(a) = {} /\ Gives(a) = {a.l}
      /\ a.op \in {"sched", "switch", "wake", "wakeup", "sret"} => Takes(a) = {} /\ Gives(a) = {}
      /\ a.op = "iret" => Takes(a) = (IF a.pc = "off" THEN {a.l} ELSE {}) /\ Gives(a) = {}
  BY DEF Takes, Gives
<1>4. a.op = "acquire" => a.l \in Owes(r) /\ Owes(s) = Owes(r) \ {a.l}
  BY <1>1, <1>3 DEF Fits
<1>5. a.op = "release" => a.l \notin Owes(r) /\ Owes(s) = Owes(r) \cup {a.l}
  BY <1>1, <1>3 DEF Fits
<1>6. a.op = "sched" => x \in Thread /\ Owes(r) = {x} /\ Owes(s) = {x}
  BY <1>1, <1>3 DEF Fits
<1>7. a.op = "switch" => /\ x \in Hart /\ Ops(r) \subseteq {"release"}
                        /\ Owes(r) = {a.l} /\ Owes(s) = {a.l}
  BY <1>1, <1>3 DEF Fits
<1>8. /\ a.op = "wake" => Owes(s) = Owes(r)
      /\ a.op = "wakeup" => Owes(r) = {tickslock} /\ Owes(s) = {tickslock}
  BY <1>1, <1>3 DEF Fits
<1>10. a.op = "sret" => Ops(r) = {} /\ Owes(r) = {} /\ Owes(s) = {}
  BY <1>1, <1>3 DEF Fits
<1>9. ASSUME a.op = "iret"
      PROVE  /\ (a.old <=> a.pc = "off") /\ "iret" \notin Ops(r) /\ Owes(s) = {}
             /\ a.pc = "top" => Owes(r) = {}
             /\ a.pc = "off" => a.l \in Owes(r) /\ Owes(r) \ {a.l} = {}
  <2>1. /\ Owes(r) \ Takes(a) = {} /\ (a.pc = "off" => a.l \in Owes(r))
        /\ (a.old <=> a.pc = "off") /\ "iret" \notin Ops(r)
    BY <1>1, <1>9 DEF Fits
  <2>2. Takes(a) = (IF a.pc = "off" THEN {a.l} ELSE {}) /\ Gives(a) = {}
    BY <1>3, <1>9
  <2> QED
    BY <1>1, <2>1, <2>2
<1> QED
  BY <1>1, <1>2, <1>4, <1>5, <1>6, <1>7, <1>8, <1>9, <1>10

(* The operation that hart h is about to begin.                            *)
LEMMA Begins ==
  ASSUME Inv, NEW h \in Hart, NEW op, Next1(h, op)
  PROVE  /\ on[h] \in Context /\ pc[h] = "top"
         /\ \E s, a, r : /\ s = todo[on[h]] /\ a = Head(s) /\ r = Tail(s)
                        /\ Split(on[h], a, r, s) /\ a.op = op /\ a.l = Arg(h)
<1>1. PICK s : s = todo[on[h]]
  OBVIOUS
<1>2. on[h] \in Context /\ Sound(on[h], s) /\ s # <<>>
  BY <1>1 DEF Inv, Functions, Next1
<1>3. Split(on[h], Head(s), Tail(s), s)
  BY <1>2, Pop
<1> QED
  BY <1>1, <1>2, <1>3 DEF Next1, Arg

(* Hart h leaves what the others run alone.                                *)
Elsewhere(h) ==
  /\ \A g \in Hart : g # h =>
       /\ on'[g] = on[g] /\ sie'[g] = sie[g] /\ noff'[g] = noff[g] /\ intena'[g] = intena[g]
       /\ pc'[g] = pc[g] /\ lk'[g] = lk[g] /\ old'[g] = old[g] /\ held'[g] = held[g]
  /\ \A y \in Context : y # on[h] /\ y # h => todo'[y] = todo[y]

Awake ==
  \A t \in Thread : state'[t] = state[t] \/ (state[t] = "sleeping" /\ state'[t] = "runnable")

LEMMA OthersGoOn ==
  ASSUME Inv, NEW h \in Hart, Elsewhere(h), NEW g \in Hart, g # h,
         on[g] \in Thread => state'[on[g]] = "running"
  PROVE  HartInv(g)'
<1>1. /\ on'[g] = on[g] /\ sie'[g] = sie[g] /\ noff'[g] = noff[g] /\ intena'[g] = intena[g]
      /\ pc'[g] = pc[g] /\ lk'[g] = lk[g] /\ old'[g] = old[g] /\ held'[g] = held[g]
  BY DEF Elsewhere
<1>2. on[g] # on[h] /\ on[g] # h /\ on[h] # g /\ on[g] \in Context /\ g \in Context
  BY Locks DEF Inv, HartInv, Ranges, Functions
<1>3. todo'[on[g]] = todo[on[g]] /\ todo'[g] = todo[g]
  BY <1>2 DEF Elsewhere
<1>4. HartInv(g)
  BY DEF Inv
<1> QED
  BY <1>1, <1>3, <1>4 DEF HartInv, Ranges, Holds, Masks, Runs

(* A step of a hart that goes on with what it runs.                        *)
LEMMA Alone ==
  ASSUME Inv, NEW h \in Hart, Elsewhere(h), on' = on, saved' = saved, panicked' = panicked, Awake,
         on[h] \in Thread => todo'[h] = todo[h],
         Functions', Sound(on[h], todo'[on[h]]), HartInv(h)',
         \A l \in Lock : LockInv(l)', \A g \in Hart : g # h => held'[h] \cap held[g] = {}
  PROVE  Inv'
<1>1. \A g \in Hart : HartInv(g)'
  <2> SUFFICES ASSUME NEW g \in Hart, g # h PROVE HartInv(g)'
    OBVIOUS
  <2>1. on[g] \in Thread => state'[on[g]] = "running"
    <3>1. on[g] \in Thread => state[on[g]] = "running"
      BY DEF Inv, HartInv, Runs
    <3> QED
      BY <3>1 DEF Awake
  <2> QED
    BY <2>1, OthersGoOn
<1>2. \A x \in Context : Sound(x, todo'[x])
  <2> TAKE x \in Context
  <2>1. Sound(x, todo[x])
    BY DEF Inv
  <2>2. x = on[h] \/ todo'[x] = todo[x]
    BY Locks DEF Elsewhere, Inv, HartInv, Ranges
  <2> QED
    BY <2>1, <2>2
<1>3. \A t \in Thread : ThreadInv(t)'
  <2> TAKE t \in Thread
  <2>1. ThreadInv(t) /\ t # h /\ t \in Context
    BY Locks DEF Inv
  <2>2. (\A g \in Hart : on[g] # t) => todo'[t] = todo[t]
    BY <2>1 DEF Elsewhere
  <2> QED
    BY <2>1, <2>2 DEF ThreadInv, Awake, Handles, Newborn
<1>4. Exclusion'
  <2>1. \A g \in Hart : g # h => held'[g] = held[g]
    BY DEF Elsewhere
  <2> QED
    BY <2>1 DEF Inv, Exclusion
<1>5. (\A f, g \in Hart : on'[f] = on'[g] => f = g) /\ panicked' = Nobody
  BY DEF Inv
<1> QED
  BY <1>1, <1>2, <1>3, <1>4, <1>5 DEF Inv

(* A step that neither takes nor releases a lock.                          *)
LEMMA Quiet ==
  ASSUME Inv, NEW h \in Hart, Elsewhere(h), on' = on, held' = held, locked' = locked,
         cpu' = cpu, saved' = saved, panicked' = panicked,
         pc[h] \notin {"cpu", "free"}, pc'[h] # "free", Awake,
         on[h] \in Thread => todo'[h] = todo[h],
         Functions', Sound(on[h], todo'[on[h]]), HartInv(h)'
  PROVE  Inv'
<1>1. \A l \in Lock : LockInv(l)'
  <2> TAKE l \in Lock
  <2>1. LockInv(l)
    BY DEF Inv
  <2>2. \A g \in Hart : g # h => pc'[g] = pc[g] /\ lk'[g] = lk[g]
    BY DEF Elsewhere
  <2> QED
    BY <2>1, <2>2 DEF LockInv
<1>2. \A g \in Hart : g # h => held'[h] \cap held[g] = {}
  BY DEF Inv, Exclusion
<1> QED
  BY <1>1, <1>2, Alone

(***************************************************************************)
(* The steps that neither take nor release a lock.                         *)
(***************************************************************************)
(* The operation at the head of the list of hart h is taken off it.        *)
LEMMA Shorter ==
  ASSUME Inv, NEW h \in Hart, Done(h)
  PROVE  /\ DOMAIN todo' = Context /\ todo'[on[h]] = Tail(todo[on[h]])
         /\ \A y \in Context : y # on[h] => todo'[y] = todo[y]
         /\ on[h] \in Thread => todo'[h] = todo[h]
<1>1. on[h] \in Context /\ h \in Context /\ h \notin Thread /\ DOMAIN todo = Context
  BY Locks DEF Inv, Functions
<1> QED
  BY <1>1 DEF Done

LEMMA PushOffKeeps ==
  ASSUME Inv, NEW h \in Hart, PushOff(h)
  PROVE  Inv'
<1>a. Next1(h, "acquire")
  BY DEF PushOff
<1>1. PICK s, a, r : /\ s = todo[on[h]] /\ a = Head(s) /\ r = Tail(s)
                     /\ Split(on[h], a, r, s) /\ a.op = "acquire" /\ a.l = Arg(h)
  BY <1>a, Begins
<1>2. on[h] \in Context /\ pc[h] = "top"
  BY <1>a, Begins
<1>3. /\ Sound(on[h], r) /\ Ops(s) = {"acquire"} \cup Ops(r)
      /\ a.l \in Lock /\ a.l \in Owes(r) /\ Owes(s) = Owes(r) \ {a.l}
  BY <1>1, <1>2, SplitOp
<1>4. /\ todo'[on[h]] = r /\ DOMAIN todo' = Context
      /\ \A y \in Context : y # on[h] => todo'[y] = todo[y]
      /\ on[h] \in Thread => todo'[h] = todo[h]
  BY <1>1, Shorter DEF PushOff
<1>5. /\ lk' = [lk EXCEPT ![h] = a.l] /\ old' = [old EXCEPT ![h] = sie[h]]
      /\ pc' = [pc EXCEPT ![h] = "off"]
      /\ UNCHANGED <<hart, locked, cpu, state, saved, held, panicked>>
  BY <1>1 DEF PushOff, Pc
<1>6. HartInv(h) /\ Functions
  BY DEF Inv
<1>7. /\ on' = on /\ sie' = sie /\ noff' = noff /\ intena' = intena /\ locked' = locked
      /\ cpu' = cpu /\ state' = state /\ saved' = saved /\ held' = held /\ panicked' = panicked
  BY <1>5 DEF hart
<1>8. lk'[h] = a.l /\ old'[h] = sie[h] /\ pc'[h] = "off"
  BY <1>5, <1>6 DEF Functions
<1>9. Functions' /\ Elsewhere(h) /\ Awake
  BY <1>4, <1>5, <1>6, <1>7 DEF Functions, Elsewhere, Awake
<1>10. Ranges(h)' /\ Runs(h)'
  BY <1>3, <1>4, <1>6, <1>7, <1>8 DEF HartInv, Ranges, Runs
<1>11. Holds(h)'
  <2>1. held[h] = Owes(s) /\ IsFiniteSet(held[h]) /\ noff[h] = Cardinality(held[h])
    BY <1>1, <1>2, <1>6, FS_CardinalityType DEF HartInv, Holds
  <2>2. noff[h] \in Nat
    BY <2>1, FS_CardinalityType
  <2> QED
    BY <1>3, <1>4, <1>7, <1>8, <2>1, <2>2 DEF Holds
<1>12. Masks(h)'
  <2>1. (Handles(s) <=> Handles(r)) /\ (Newborn(s) <=> Newborn(r))
    BY <1>3 DEF Handles, Newborn
  <2> QED
    BY <1>1, <1>2, <1>4, <1>6, <1>7, <1>8, <2>1 DEF HartInv, Masks, Ranges
<1> QED
  BY <1>2, <1>3, <1>4, <1>7, <1>8, <1>9, <1>10, <1>11, <1>12, Quiet DEF HartInv

LEMMA IntrOffKeeps ==
  ASSUME Inv, NEW h \in Hart, IntrOff(h)
  PROVE  Inv'
<1>1. HartInv(h) /\ Functions
  BY DEF Inv
<1>2. PICK s, k : s = todo[on[h]] /\ k = lk[h]
  OBVIOUS
<1>3. /\ pc[h] = "off" /\ k \in Lock /\ k \in Owes(s) /\ held[h] = Owes(s) \ {k}
      /\ IsFiniteSet(held[h]) /\ noff[h] = Cardinality(held[h]) /\ noff[h] \in Nat
  BY <1>1, <1>2, FS_CardinalityType DEF IntrOff, HartInv, Holds, Ranges
<1>4. ~Holding(h, k)
  <2>1. LockInv(k)
    BY <1>3 DEF Inv
  <2> QED
    BY <1>3, <2>1 DEF Holding, LockInv
<1>5. /\ sie' = [sie EXCEPT ![h] = FALSE]
      /\ intena' = IF noff[h] = 0 THEN [intena EXCEPT ![h] = old[h]] ELSE intena
      /\ noff' = [noff EXCEPT ![h] = noff[h] + 1]
      /\ pc' = [pc EXCEPT ![h] = "swap"] /\ old' = [old EXCEPT ![h] = FALSE]
      /\ on' = on /\ locked' = locked /\ cpu' = cpu /\ lk' = lk /\ held' = held
      /\ todo' = todo /\ state' = state /\ saved' = saved /\ panicked' = panicked
  BY <1>2, <1>4 DEF IntrOff, Pc, thread
<1>6. /\ sie'[h] = FALSE /\ noff'[h] = noff[h] + 1 /\ pc'[h] = "swap" /\ old'[h] = FALSE
      /\ intena'[h] = IF noff[h] = 0 THEN old[h] ELSE intena[h]
  BY <1>1, <1>5 DEF Functions
<1>7. Functions' /\ Elsewhere(h) /\ Awake
  BY <1>1, <1>5 DEF Functions, Elsewhere, Awake
<1>8. Ranges(h)' /\ Runs(h)'
  BY <1>1, <1>5, <1>6 DEF HartInv, Ranges, Runs
<1>9. Holds(h)'
  BY <1>2, <1>3, <1>5, <1>6 DEF Holds
<1>10. Masks(h)'
  <2>1. old[h] <=> sie[h]
    BY <1>1, <1>3 DEF HartInv, Masks
  <2>2. /\ Handles(s) => ~sie[h] /\ (noff[h] > 0 => ~intena[h])
        /\ ~Handles(s) /\ on[h] \in Thread /\ ~Newborn(s) =>
             (noff[h] = 0 => sie[h]) /\ (noff[h] > 0 => intena[h])
    BY <1>1, <1>2 DEF HartInv, Masks
  <2>3. (Handles(s) => ~intena'[h])
        /\ (~Handles(s) /\ on[h] \in Thread /\ ~Newborn(s) => intena'[h])
    BY <1>3, <1>6, <2>1, <2>2
  <2>4. noff'[h] > 0
    BY <1>3, <1>6
  <2> QED
    BY <1>2, <1>5, <1>6, <2>3, <2>4 DEF Masks
<1>11. Sound(on[h], todo'[on[h]])
  BY <1>1, <1>5 DEF Inv, Functions
<1> QED
  BY <1>3, <1>5, <1>7, <1>8, <1>9, <1>10, <1>11, Quiet DEF HartInv

LEMMA SchedulerKeeps ==
  ASSUME Inv, NEW h \in Hart, Scheduler(h)
  PROVE  Inv'
<1>1. HartInv(h) /\ Functions /\ h \in Context /\ h \notin Thread
  BY Locks DEF Inv
<1>2. PICK s, t : /\ t \in Thread /\ s = <<Acquire(t), Op("switch", t), Release(t)>>
                  /\ todo' = [todo EXCEPT ![h] = s]
  BY DEF Scheduler
<1>3. Sound(h, s) /\ Owes(s) = {} /\ Ops(s) = {"acquire", "switch", "release"}
  BY <1>2, SchedulerSound
<1>4. /\ on[h] = h /\ pc[h] = "top" /\ todo[h] = <<>> /\ sie' \in {sie, [sie EXCEPT ![h] = TRUE]}
      /\ on' = on /\ noff' = noff /\ intena' = intena /\ locked' = locked /\ cpu' = cpu
      /\ pc' = pc /\ lk' = lk /\ old' = old /\ state' = state /\ saved' = saved /\ held' = held
      /\ panicked' = panicked
  BY DEF Scheduler, regs
<1>5. sie'[h] \in {sie[h], TRUE} /\ todo'[h] = s
  BY <1>1, <1>2, <1>4 DEF Functions
<1>6. Functions' /\ Elsewhere(h) /\ Awake
  BY <1>1, <1>2, <1>4 DEF Functions, Elsewhere, Awake
<1>7. Ranges(h)' /\ Runs(h)'
  BY <1>1, <1>4, <1>5 DEF HartInv, Ranges, Runs
<1>8. held[h] = {} /\ noff[h] = Cardinality(held[h]) /\ IsFiniteSet(held[h]) /\ noff[h] = 0
  <2>1. held[h] = {} /\ IsFiniteSet(held[h]) /\ noff[h] = Cardinality(held[h]) + 0
    BY <1>1, <1>4, Nothing DEF HartInv, Holds
  <2> QED
    BY <2>1, FS_EmptySet
<1>9. Holds(h)'
  BY <1>3, <1>4, <1>5, <1>8 DEF Holds
<1>10. Masks(h)'
  <2>1. ~Handles(s) /\ ~old[h]
    BY <1>1, <1>3, <1>4 DEF Handles, HartInv, Masks
  <2> QED
    <3>1. on'[h] = h /\ noff'[h] = 0 /\ ~old'[h] /\ pc'[h] = "top" /\ h \notin Thread
      BY <1>1, <1>4, <1>8, <2>1
    <3> QED
      BY ONLY <1>5, <2>1, <3>1 DEF Masks
<1> QED
  BY <1>1, <1>3, <1>4, <1>5, <1>6, <1>7, <1>9, <1>10, Quiet DEF HartInv

(* What a thread does in a system call.                                    *)
LEMMA SleepChain ==
  ASSUME NEW t \in Thread, NEW n, n = <<>>, NEW T, T = tickslock, NEW s,
         s = Cons(Acquire(T), Cons(Acquire(t), Cons(Release(T), Cons(Sched("sleeping"),
               Cons(Release(t), Cons(Acquire(T), Cons(Release(T), n)))))))
  PROVE  /\ Sound(t, s) /\ Owes(s) = {}
         /\ Ops(s) = {"acquire", "release", "sched"}
<1>1. t \in Lock /\ T \in Lock /\ T # t
  BY Locks
<1>2. PICK a : a = Cons(Release(T), n)
  OBVIOUS
<1>3. Sound(t, n) /\ Owes(n) = {} /\ Ops(n) = {}
  BY Nothing
<1>4. Sound(t, a) /\ Owes(a) = {T} /\ Ops(a) = {"release"}
  BY ONLY <1>1, <1>2, <1>3, PushRelease
<1>5. PICK b : b = Cons(Acquire(T), a)
  OBVIOUS
<1>6. Sound(t, b) /\ Owes(b) = {} /\ Ops(b) = {"release", "acquire"}
  BY ONLY <1>1, <1>4, <1>5, PushAcquire
<1>7. PICK c : c = Cons(Release(t), b)
  OBVIOUS
<1>8. Sound(t, c) /\ Owes(c) = {t} /\ Ops(c) = {"release", "acquire"}
  BY ONLY <1>1, <1>6, <1>7, PushRelease
<1>9. PICK d : d = Cons(Sched("sleeping"), c)
  OBVIOUS
<1>10. Sound(t, d) /\ Owes(d) = {t} /\ Ops(d) = {"release", "acquire", "sched"}
  BY <1>8, <1>9, PushSched
<1>11. PICK e : e = Cons(Release(T), d)
  OBVIOUS
<1>12. Sound(t, e) /\ Owes(e) = {t, T} /\ Ops(e) = {"release", "acquire", "sched"}
  BY <1>1, <1>10, <1>11, PushRelease
<1>13. PICK f : f = Cons(Acquire(t), e)
  OBVIOUS
<1>14. Sound(t, f) /\ Owes(f) = {T} /\ Ops(f) = {"release", "acquire", "sched"}
  BY ONLY <1>1, <1>12, <1>13, PushAcquire
<1>15. s = Cons(Acquire(T), f)
  BY <1>2, <1>5, <1>7, <1>9, <1>11, <1>13, Zenon
<1>16. Sound(t, s) /\ Owes(s) = Owes(f) \ {T} /\ Ops(s) = Ops(f) \cup {"acquire"}
  BY ONLY <1>1, <1>14, <1>15, PushAcquire
<1> QED
  BY ONLY <1>14, <1>16

LEMMA UptimeChain ==
  ASSUME NEW t \in Thread, NEW n, n = <<>>, NEW T, T = tickslock, NEW s,
         s = Cons(Acquire(T), Cons(Release(T), n))
  PROVE  Sound(t, s) /\ Owes(s) = {} /\ Ops(s) = {"acquire", "release"}
<1>1. T \in Lock
  BY Locks
<1>2. PICK a : a = Cons(Release(T), n)
  OBVIOUS
<1>3. Sound(t, n) /\ Owes(n) = {} /\ Ops(n) = {}
  BY Nothing
<1>4. Sound(t, a) /\ Owes(a) = {T} /\ Ops(a) = {"release"}
  BY <1>1, <1>2, <1>3, PushRelease
<1>5. s = Cons(Acquire(T), a)
  BY <1>2
<1>6. Sound(t, s) /\ Owes(s) = Owes(a) \ {T} /\ Ops(s) = Ops(a) \cup {"acquire"}
  BY <1>1, <1>4, <1>5, PushAcquire
<1> QED
  BY ONLY <1>4, <1>6

(* sleep(), as a system call, one operation after the other.               *)
LEMMA SleepJoined ==
  ASSUME NEW t \in Thread, NEW T, T = tickslock, NEW n \in Seq(Instr), n = <<>>
  PROVE  <<Acquire(T)>> \o Sleep(t, T) \o <<Release(T)>>
           = Cons(Acquire(T), Cons(Acquire(t), Cons(Release(T), Cons(Sched("sleeping"),
               Cons(Release(t), Cons(Acquire(T), Cons(Release(T), n)))))))
<1>1. /\ Acquire(T) \in Instr /\ Release(T) \in Instr /\ Acquire(t) \in Instr
      /\ Release(t) \in Instr /\ Sched("sleeping") \in Instr
  BY Locks, Kinds
<1>2. PICK A \in Instr, R \in Instr, a \in Instr, r \in Instr, z \in Instr :
        A = Acquire(T) /\ R = Release(T) /\ a = Acquire(t) /\ r = Release(t)
          /\ z = Sched("sleeping")
  BY ONLY <1>1
<1>3. <<R>> = Cons(R, n) /\ <<R>> \in Seq(Instr)
  BY DEF Cons
<1>4. PICK e \in Seq(Instr) : e = <<R>>
  BY <1>3, Zenon
<1>5. Sleep(t, T) = <<a, R, z>> \o <<r, A>>
  <2>1. Sleep(t, T) = <<a, R, z, r, A>>
    BY <1>2, Zenon DEF Sleep
  <2> QED
    BY <2>1
<1>6. <<a, R, z>> \in Seq(Instr) /\ <<r, A>> \in Seq(Instr) /\ <<A>> \in Seq(Instr)
  OBVIOUS
<1>7. PICK u \in Seq(Instr), v \in Seq(Instr) : u = <<a, R, z>> /\ v = <<r, A>>
  BY <1>6, Zenon
<1>8. u \o v \in Seq(Instr) /\ v \o e \in Seq(Instr)
  BY ConcatProperties
<1>9. (<<A>> \o (u \o v)) \o e = <<A>> \o ((u \o v) \o e)
  BY <1>6, <1>8, ConcatAssociative
<1>10. (u \o v) \o e = u \o (v \o e)
  BY ConcatAssociative
<1>11. v \o e = Cons(r, Cons(A, e))
  BY ONLY <1>7, r \in Instr, A \in Instr, e \in Seq(Instr), Joined2
<1>12. u \o (v \o e) = Cons(a, Cons(R, Cons(z, v \o e)))
  <2>1. PICK w \in Seq(Instr) : w = v \o e
    BY <1>8
  <2>2. <<a, R, z>> \o w = Cons(a, Cons(R, Cons(z, w)))
    BY ONLY w \in Seq(Instr), a \in Instr, R \in Instr, z \in Instr, Joined3
  <2> QED
    BY ONLY <1>7, <2>1, <2>2, Zenon
<1>13. <<A>> \o (u \o (v \o e)) = Cons(A, u \o (v \o e))
  BY DEF Cons
<1>14. <<Acquire(T)>> \o Sleep(t, T) \o <<Release(T)>> = (<<A>> \o (u \o v)) \o e
  BY ONLY <1>2, <1>4, <1>5, <1>7, Zenon
<1> QED
  BY ONLY <1>2, <1>3, <1>4, <1>9, <1>10, <1>11, <1>12, <1>13, <1>14, Zenon

LEMMA CallSound ==
  ASSUME NEW t \in Thread, NEW s \in Call(t)
  PROVE  Sound(t, s) /\ Owes(s) = {} /\ Ops(s) \subseteq {"acquire", "release", "sched"}
<1>1. PICK n \in Seq(Instr) : n = <<>>
  <2>1. <<>> \in Seq(Instr)
    OBVIOUS
  <2> QED
    BY <2>1, Zenon
<1>2. PICK T : T = tickslock
  OBVIOUS
<1>3. /\ Acquire(T) \in Instr /\ Release(T) \in Instr /\ Acquire(t) \in Instr
      /\ Release(t) \in Instr /\ Sched("sleeping") \in Instr
  BY <1>2, Locks, Kinds
<1>4. CASE s = <<Acquire(T), Release(T)>>
  <2>1. ASSUME NEW a, NEW b PROVE <<a, b>> \o n = <<a, b>>
    BY <1>1
  <2>2. <<Acquire(T), Release(T)>> \o n = Cons(Acquire(T), Cons(Release(T), n))
    BY ONLY <1>3, n \in Seq(Instr), Joined2
  <2>3. s = Cons(Acquire(T), Cons(Release(T), n))
    BY <1>4, <2>1, <2>2
  <2>4. Sound(t, s) /\ Owes(s) = {} /\ Ops(s) = {"acquire", "release"}
    BY ONLY <1>1, <1>2, <2>3, t \in Thread, UptimeChain
  <2> QED
    BY ONLY <2>4
<1>5. CASE s = <<Acquire(T)>> \o Sleep(t, T) \o <<Release(T)>>
  <2>3. s = Cons(Acquire(T), Cons(Acquire(t), Cons(Release(T), Cons(Sched("sleeping"),
              Cons(Release(t), Cons(Acquire(T), Cons(Release(T), n)))))))
    BY ONLY <1>1, <1>2, <1>5, n \in Seq(Instr), SleepJoined, t \in Thread
  <2>4. Sound(t, s) /\ Owes(s) = {} /\ Ops(s) = {"acquire", "release", "sched"}
    BY ONLY <1>1, <1>2, <2>3, t \in Thread, SleepChain
  <2> QED
    BY ONLY <2>4
<1> QED
  BY <1>2, <1>4, <1>5, Zenon DEF Call

LEMMA SyscallKeeps ==
  ASSUME Inv, NEW h \in Hart, Syscall(h)
  PROVE  Inv'
<1>1. HartInv(h) /\ Functions /\ on[h] \in Thread /\ on[h] # h
  BY Locks DEF Inv, Syscall
<1>2. PICK s \in Call(on[h]) : todo' = [todo EXCEPT ![on[h]] = s]
  BY DEF Syscall
<1>3. Sound(on[h], s) /\ Owes(s) = {} /\ Ops(s) \subseteq {"acquire", "release", "sched"}
  BY <1>1, CallSound
<1>4. /\ pc[h] = "top" /\ todo[on[h]] = <<>> /\ sie' = sie
      /\ on' = on /\ noff' = noff /\ intena' = intena /\ locked' = locked /\ cpu' = cpu
      /\ pc' = pc /\ lk' = lk /\ old' = old /\ state' = state /\ saved' = saved /\ held' = held
      /\ panicked' = panicked
  BY DEF Syscall, regs, hart
<1>5. todo'[on[h]] = s /\ todo'[h] = todo[h]
  BY <1>1, <1>2, Locks DEF Functions
<1>6. Functions' /\ Elsewhere(h) /\ Awake
  BY <1>1, <1>2, <1>4 DEF Functions, Elsewhere, Awake
<1>7. Ranges(h)' /\ Runs(h)'
  BY <1>1, <1>4, <1>5 DEF HartInv, Ranges, Runs
<1>8. Holds(h)'
  <2>1. held[h] = {} /\ IsFiniteSet(held[h]) /\ noff[h] = Cardinality(held[h]) + 0
    BY <1>1, <1>4, Nothing DEF HartInv, Holds
  <2> QED
    BY <1>3, <1>4, <1>5, <2>1 DEF Holds
<1>9. Masks(h)'
  <2>1. ~Handles(s) /\ ~Newborn(s) /\ ~Handles(<<>>) /\ ~Newborn(<<>>)
    BY <1>3, Nothing DEF Handles, Newborn
  <2> QED
    BY <1>1, <1>4, <1>5, <2>1 DEF Masks, HartInv
<1> QED
  BY <1>1, <1>3, <1>4, <1>5, <1>6, <1>7, <1>8, <1>9, Quiet DEF HartInv

LEMMA WakeupKeeps ==
  ASSUME Inv, NEW h \in Hart, Wakeup(h)
  PROVE  Inv'
<1>a. Next1(h, "wakeup")
  BY DEF Wakeup
<1>1. PICK s, a, r : /\ s = todo[on[h]] /\ a = Head(s) /\ r = Tail(s)
                     /\ Split(on[h], a, r, s) /\ a.op = "wakeup" /\ a.l = Arg(h)
  BY <1>a, Begins
<1>2. on[h] \in Context /\ pc[h] = "top"
  BY <1>a, Begins
<1>3. /\ Sound(on[h], r) /\ Ops(s) = {"wakeup"} \cup Ops(r)
      /\ a.l \in SUBSET Thread /\ Owes(r) = {tickslock} /\ Owes(s) = {tickslock}
  BY <1>1, <1>2, SplitOp
<1>4. HartInv(h) /\ Functions /\ h \in Context /\ h \notin Thread
  BY Locks DEF Inv
<1>5. PICK n : /\ todo' = [todo EXCEPT ![on[h]] = n] /\ Sound(on[h], n) /\ Owes(n) = {tickslock}
               /\ (Handles(s) <=> Handles(n)) /\ (Newborn(s) <=> Newborn(n))
  <2>1. CASE Arg(h) = {}
    <3>1. todo' = [todo EXCEPT ![on[h]] = r]
      BY <1>1, <2>1 DEF Wakeup, Done
    <3>2. (Handles(s) <=> Handles(r)) /\ (Newborn(s) <=> Newborn(r))
      BY <1>3 DEF Handles, Newborn
    <3> QED
      BY <1>3, <3>1, <3>2
  <2>2. CASE Arg(h) # {}
    <3>1. PICK t, n :
            /\ t \in a.l
            /\ n = <<Acquire(t), Op("wake", t), Release(t), Op("wakeup", a.l \ {t})>> \o r
            /\ todo' = [todo EXCEPT ![on[h]] = n]
      BY <1>1, <2>2 DEF Wakeup
    <3>2. PICK S \in SUBSET Thread : S = a.l \ {t}
      BY <1>3
    <3>3. t \in Thread
      BY <1>3, <3>1
    <3>4. n = Turn(t, S, r)
      BY <3>1, <3>2, Zenon DEF Turn
    <3>5. /\ Sound(on[h], n) /\ Owes(n) = {tickslock}
          /\ Ops(n) = Ops(r) \cup {"acquire", "wake", "release", "wakeup"}
      BY ONLY <1>3, <3>3, <3>4, S \in SUBSET Thread, TurnSound
    <3>6. (Handles(s) <=> Handles(n)) /\ (Newborn(s) <=> Newborn(n))
      BY ONLY <1>3, <3>5 DEF Handles, Newborn
    <3> QED
      BY <3>1, <3>5, <3>6
  <2> QED
    BY <2>1, <2>2
<1>6. /\ sie' = sie /\ on' = on /\ noff' = noff /\ intena' = intena /\ locked' = locked
      /\ cpu' = cpu /\ pc' = pc /\ lk' = lk /\ old' = old /\ state' = state /\ saved' = saved
      /\ held' = held /\ panicked' = panicked
  BY DEF Wakeup, regs, hart
<1>7. todo'[on[h]] = n /\ (on[h] \in Thread => todo'[h] = todo[h])
  BY <1>2, <1>4, <1>5 DEF Functions
<1>8. Functions' /\ Elsewhere(h) /\ Awake
  BY <1>2, <1>4, <1>5, <1>6 DEF Functions, Elsewhere, Awake
<1>9. Ranges(h)' /\ Runs(h)'
  BY <1>4, <1>6, <1>7 DEF HartInv, Ranges, Runs
<1>10. Holds(h)'
  BY <1>1, <1>2, <1>3, <1>4, <1>5, <1>6, <1>7 DEF HartInv, Holds
<1>11. Masks(h)'
  BY <1>1, <1>2, <1>4, <1>5, <1>6, <1>7 DEF HartInv, Masks
<1> QED
  BY <1>2, <1>5, <1>6, <1>7, <1>8, <1>9, <1>10, <1>11, Quiet DEF HartInv

LEMMA WakeKeeps ==
  ASSUME Inv, NEW h \in Hart, Wake(h)
  PROVE  Inv'
<1>a. Next1(h, "wake")
  BY DEF Wake
<1>1. PICK s, a, r : /\ s = todo[on[h]] /\ a = Head(s) /\ r = Tail(s)
                     /\ Split(on[h], a, r, s) /\ a.op = "wake" /\ a.l = Arg(h)
  BY <1>a, Begins
<1>2. on[h] \in Context /\ pc[h] = "top"
  BY <1>a, Begins
<1>3. /\ Sound(on[h], r) /\ Ops(s) = {"wake"} \cup Ops(r)
      /\ a.l \in Thread /\ Owes(s) = Owes(r)
  BY <1>1, <1>2, SplitOp
<1>4. HartInv(h) /\ Functions
  BY DEF Inv
<1>5. /\ todo'[on[h]] = r /\ DOMAIN todo' = Context
      /\ \A y \in Context : y # on[h] => todo'[y] = todo[y]
      /\ on[h] \in Thread => todo'[h] = todo[h]
  BY <1>1, Shorter DEF Wake
<1>6. /\ sie' = sie /\ on' = on /\ noff' = noff /\ intena' = intena /\ locked' = locked
      /\ cpu' = cpu /\ pc' = pc /\ lk' = lk /\ old' = old /\ saved' = saved
      /\ held' = held /\ panicked' = panicked
      /\ state' = IF state[a.l] = "sleeping" THEN [state EXCEPT ![a.l] = "runnable"] ELSE state
  BY <1>1 DEF Wake, regs, hart
<1>7. Functions' /\ Elsewhere(h) /\ Awake
  BY <1>3, <1>4, <1>5, <1>6 DEF Functions, Elsewhere, Awake
<1>8. Ranges(h)'
  BY <1>4, <1>6 DEF HartInv, Ranges
<1>9. Runs(h)'
  BY <1>4, <1>5, <1>6, <1>7 DEF HartInv, Runs, Awake
<1>10. Holds(h)'
  BY <1>1, <1>2, <1>3, <1>4, <1>5, <1>6 DEF HartInv, Holds
<1>11. Masks(h)'
  <2>1. (Handles(s) <=> Handles(r)) /\ (Newborn(s) <=> Newborn(r))
    BY <1>3 DEF Handles, Newborn
  <2> QED
    BY <1>1, <1>2, <1>4, <1>5, <1>6, <2>1 DEF HartInv, Masks
<1> QED
  BY <1>2, <1>3, <1>5, <1>6, <1>7, <1>8, <1>9, <1>10, <1>11, Quiet DEF HartInv

(* The list of an interrupted context: what the handler does comes first.  *)
Glued(A, B, i, s) == A \o B \o <<i>> \o s

LEMMA Joined ==
  ASSUME NEW X, NEW s \in Seq(X), NEW A \in Seq(X), NEW B \in Seq(X), NEW i \in X
  PROVE  Glued(A, B, i, s) = A \o (B \o Cons(i, s))
<1>1. PICK I \in Seq(X) : I = <<i>>
  <2>1. <<i>> \in Seq(X)
    OBVIOUS
  <2> QED
    BY <2>1, Zenon
<1>2. PICK C \in Seq(X), J \in Seq(X) : C = A \o B /\ J = I \o s
  BY ConcatProperties
<1>3. (C \o I) \o s = C \o (I \o s)
  BY ONLY C \in Seq(X), I \in Seq(X), s \in Seq(X), ConcatAssociative, SMTT(30)
<1>4. (A \o B) \o J = A \o (B \o J)
  BY ONLY A \in Seq(X), B \in Seq(X), J \in Seq(X), ConcatAssociative, SMTT(30)
<1> QED
  BY ONLY <1>1, <1>2, <1>3, <1>4, Zenon DEF Cons, Glued

(* What h does next when it is interrupted in x, which has s to do and     *)
(* comes back by i.                                                        *)
Entered(h, x, i, s) ==
  (IF h = Boot THEN Clockintr(x) ELSE <<>>) \o (IF x \in Thread THEN Yield(x) ELSE <<>>)
    \o <<i>> \o s

LEMMA Handler ==
  ASSUME NEW x \in Context, NEW i \in Instr, NEW s, Sound(x, s), NEW j, j = Cons(i, s),
         Sound(x, j), Owes(j) = {}, NEW h \in Hart, NEW n, n = Entered(h, x, i, s)
  PROVE  Sound(x, n) /\ Owes(n) = {} /\ Ops(j) \subseteq Ops(n)
<1>1. s \in Seq(Instr) /\ j \in Seq(Instr)
  BY DEF Sound
<1>2. PICK A \in Seq(Instr) : A = IF h = Boot THEN Clockintr(x) ELSE <<>>
  <2>1. PICK S \in SUBSET Thread : S = Thread \ {x}
    OBVIOUS
  <2>2. Acquire(tickslock) \in Instr /\ Op("wakeup", S) \in Instr /\ Release(tickslock) \in Instr
    BY <2>1, Locks, Kinds
  <2>3. Clockintr(x) = <<Acquire(tickslock), Op("wakeup", S), Release(tickslock)>>
    BY <2>1, Zenon DEF Clockintr
  <2>4. Clockintr(x) \in Seq(Instr) /\ <<>> \in Seq(Instr)
    BY <2>2, <2>3
  <2> QED
    BY <2>4
<1>3. PICK B \in Seq(Instr) : B = IF x \in Thread THEN Yield(x) ELSE <<>>
  <2>1. x \in Thread => /\ Acquire(x) \in Instr /\ Sched("runnable") \in Instr
                        /\ Release(x) \in Instr
    BY Locks, Kinds
  <2>2. x \in Thread => Yield(x) \in Seq(Instr)
    BY <2>1 DEF Yield
  <2>3. <<>> \in Seq(Instr)
    OBVIOUS
  <2> QED
    BY <2>2, <2>3
<1>4. PICK y : y = B \o j
  OBVIOUS
<1>5. Sound(x, y) /\ Owes(y) = {} /\ Ops(j) \subseteq Ops(y)
  <2>1. CASE x \in Thread
    <3>1. y = Yield(x) \o j
      BY <1>3, <1>4, <2>1, Zenon
    <3> QED
      <4>1. PICK t \in Thread : t = x
        BY <2>1
      <4>2. y = Yield(t) \o j /\ Sound(t, j) /\ Owes(j) = {}
        BY ONLY <3>1, <4>1, Sound(x, j), Owes(j) = {}, Zenon
      <4>3. Sound(t, y) /\ Owes(y) = {} /\ Ops(y) = Ops(j) \cup {"acquire", "sched", "release"}
        BY ONLY t \in Thread, <4>2, YieldSound
      <4> QED
        BY ONLY <4>1, <4>3
  <2>2. CASE x \notin Thread
    <3>1. B = <<>>
      BY <1>3, <2>2, Zenon
    <3>2. y = j
      BY ONLY <1>1, <1>4, <3>1, ConcatEmptySeq
    <3> QED
      BY <3>2, Zenon
  <2> QED
    BY <2>1, <2>2
<1>6. PICK z : z = A \o y
  OBVIOUS
<1>7. Sound(x, z) /\ Owes(z) = {} /\ Ops(y) \subseteq Ops(z)
  <2>1. CASE h = Boot
    <3>1. z = Clocked(x, y)
      BY <1>2, <1>6, <2>1, Zenon DEF Clocked
    <3>2. Sound(x, z) /\ Owes(z) = {} /\ Ops(z) = Ops(y) \cup {"acquire", "wakeup", "release"}
      BY ONLY <3>1, <1>5, ClockSound
    <3> QED
      BY ONLY <3>2
  <2>2. CASE h # Boot
    <3>1. A = <<>>
      BY <1>2, <2>2, Zenon
    <3>2. y \in Seq(Instr)
      BY <1>5 DEF Sound
    <3>3. z = y
      BY ONLY <1>6, <3>1, <3>2, ConcatEmptySeq
    <3> QED
      BY <1>5, <3>3, Zenon
  <2> QED
    BY <2>1, <2>2
<1>8. n = Glued(A, B, i, s)
  BY ONLY <1>2, <1>3, n = Entered(h, x, i, s), Zenon DEF Entered, Glued
<1>9. Glued(A, B, i, s) = A \o (B \o Cons(i, s))
  BY ONLY <1>1, A \in Seq(Instr), B \in Seq(Instr), i \in Instr, Joined
<1>10. n = z
  BY ONLY <1>4, <1>6, <1>8, <1>9, j = Cons(i, s), Zenon
<1> QED
  BY ONLY <1>5, <1>7, <1>10

LEMMA InterruptKeeps ==
  ASSUME Inv, NEW h \in Hart, Interrupt(h)
  PROVE  Inv'
<1>1. HartInv(h) /\ Functions /\ sie[h] /\ h \in Context /\ h \notin Thread
  BY Locks DEF Inv, Interrupt, Interruptible
<1>2. PICK x, s, p, k, o, i, j :
        /\ x = on[h] /\ s = todo[x] /\ p = pc[h] /\ k = lk[h] /\ o = old[h]
        /\ i = Iret(p, k, o) /\ j = Cons(i, s)
  OBVIOUS
<1>3. /\ x \in Context /\ Sound(x, s) /\ k \in Lock /\ o \in BOOLEAN
      /\ p \in {"top", "off", "swap", "cpu", "free"}
  BY <1>1, <1>2 DEF Inv, Functions, HartInv, Ranges
<1>4. held[h] = {} /\ IsFiniteSet(held[h]) /\ noff[h] = 0 /\ Cardinality(held[h]) = 0 /\ p # "swap"
  <2>1. noff[h] = 0 /\ IsFiniteSet(held[h]) /\ Cardinality(held[h]) \in Nat
    BY <1>1, FS_CardinalityType DEF HartInv, Masks, Holds
  <2>2. noff[h] = Cardinality(held[h]) + IF p = "swap" THEN 1 ELSE 0
    BY <1>1, <1>2 DEF HartInv, Holds
  <2>3. p # "swap" /\ Cardinality(held[h]) = 0
    BY <2>1, <2>2
  <2> QED
    BY <2>1, <2>3, FS_EmptySet
<1>5. /\ p \in {"top", "off"} /\ (p = "top" => Owes(s) = {})
      /\ (p = "off" => k \in Owes(s) /\ Owes(s) \ {k} = {})
  BY <1>1, <1>2, <1>3, <1>4 DEF HartInv, Holds
<1>6. ~Handles(s) /\ (o <=> p = "off")
  BY <1>1, <1>2 DEF HartInv, Masks
<1>7. Sound(x, j) /\ Owes(j) = {} /\ Ops(j) = Ops(s) \cup {"iret"} /\ i \in Instr
  <2>1. i \in Instr
    BY <1>2, <1>3, <1>5, Kinds
  <2>3. Sound(x, j) /\ Owes(j) = {} /\ Ops(j) = Ops(s) \cup {"iret"}
    <3>1. i.op = "iret" /\ i.pc = p /\ i.l = k /\ (i.old <=> o)
      BY <1>2, <1>3 DEF Iret
    <3>2. /\ i.old <=> i.pc = "off"
          /\ i.pc = "top" => Owes(s) = {}
          /\ i.pc = "off" => i.l \in Owes(s) /\ Owes(s) \ {i.l} = {}
      BY ONLY <1>5, <1>6, <3>1
    <3>3. Sound(x, s) /\ i.op = "iret" /\ ~Handles(s) /\ j = Cons(i, s)
      BY <1>2, <1>3, <1>6, <3>1
    <3> QED
      BY ONLY <2>1, <3>2, <3>3, PushIret
  <2> QED
    BY <2>1, <2>3
<1>8. PICK n : n = Entered(h, x, i, s)
  OBVIOUS
<1>9. Sound(x, n) /\ Owes(n) = {} /\ Ops(j) \subseteq Ops(n)
  <2>1. j = Cons(i, s) /\ x \in Context /\ i \in Instr
    BY <1>2, <1>3, <1>7
  <2> QED
    BY ONLY <1>3, <1>7, <1>8, <2>1, h \in Hart, Handler
<1>10. /\ todo' = [todo EXCEPT ![x] = n] /\ sie' = [sie EXCEPT ![h] = FALSE]
       /\ pc' = [pc EXCEPT ![h] = "top"] /\ lk' = [lk EXCEPT ![h] = tickslock]
       /\ old' = [old EXCEPT ![h] = FALSE]
       /\ on' = on /\ noff' = noff /\ intena' = intena /\ locked' = locked /\ cpu' = cpu
       /\ state' = state /\ saved' = saved /\ held' = held /\ panicked' = panicked
  <2>1. todo' = [todo EXCEPT ![x] = (IF h = Boot THEN Clockintr(x) ELSE <<>>)
                     \o (IF x \in Thread THEN Yield(x) ELSE <<>>) \o <<i>> \o s]
    BY <1>2, Zenon DEF Interrupt
  <2>2. todo' = [todo EXCEPT ![x] = n]
    BY <1>8, <2>1, Zenon DEF Entered
  <2> QED
    BY <2>2 DEF Interrupt, Top, Pc
<1>11. /\ todo'[x] = n /\ sie'[h] = FALSE /\ pc'[h] = "top" /\ lk'[h] = tickslock /\ old'[h] = FALSE
       /\ (on[h] \in Thread => todo'[h] = todo[h])
  BY <1>1, <1>2, <1>3, <1>10 DEF Functions
<1>12. Functions' /\ Elsewhere(h) /\ Awake
  BY <1>1, <1>2, <1>3, <1>10 DEF Functions, Elsewhere, Awake
<1>13. Ranges(h)' /\ Runs(h)'
  BY <1>1, <1>10, <1>11, Locks DEF HartInv, Ranges, Runs
<1>14. Holds(h)'
  <2>1. on'[h] = x /\ held'[h] = {} /\ noff'[h] = 0 /\ Owes(todo'[on'[h]]) = {}
    BY <1>2, <1>4, <1>9, <1>10, <1>11
  <2> QED
    BY <1>4, <1>11, <2>1 DEF Holds
<1>15. Masks(h)'
  <2>1. Handles(n)
    BY <1>7, <1>9 DEF Handles
  <2> QED
    BY <1>2, <1>4, <1>10, <1>11, <2>1 DEF Masks
<1>16. Sound(on[h], todo'[on[h]]) /\ pc[h] \notin {"cpu", "free"} /\ pc'[h] # "free"
  BY <1>2, <1>5, <1>9, <1>11
<1> QED
  BY <1>10, <1>11, <1>12, <1>13, <1>14, <1>15, <1>16, Quiet DEF HartInv

LEMMA ReturnKeeps ==
  ASSUME Inv, NEW h \in Hart, Return(h)
  PROVE  Inv'
<1>a. Next1(h, "iret")
  BY DEF Return
<1>1. PICK s, a, r : /\ s = todo[on[h]] /\ a = Head(s) /\ r = Tail(s)
                     /\ Split(on[h], a, r, s) /\ a.op = "iret" /\ a.l = Arg(h)
  BY <1>a, Begins
<1>2. on[h] \in Context /\ pc[h] = "top"
  BY <1>a, Begins
<1>3. /\ Sound(on[h], r) /\ Ops(s) = {"iret"} \cup Ops(r)
      /\ a.l \in Lock /\ a.pc \in {"top", "off"} /\ (a.old <=> a.pc = "off")
      /\ "iret" \notin Ops(r) /\ Owes(s) = {} /\ (a.pc = "top" => Owes(r) = {})
      /\ (a.pc = "off" => a.l \in Owes(r) /\ Owes(r) \ {a.l} = {})
  BY <1>1, <1>2, SplitOp
<1>b. a.old \in BOOLEAN
  <2>1. a \in Instr
    BY <1>1 DEF Split
  <2> QED
    BY <1>1, <2>1 DEF Instr
<1>4. HartInv(h) /\ Functions
  BY DEF Inv
<1>5. /\ todo'[on[h]] = r /\ DOMAIN todo' = Context
      /\ \A y \in Context : y # on[h] => todo'[y] = todo[y]
      /\ on[h] \in Thread => todo'[h] = todo[h]
  BY <1>1, Shorter DEF Return
<1>6. /\ pc' = [pc EXCEPT ![h] = a.pc] /\ lk' = [lk EXCEPT ![h] = a.l]
      /\ old' = [old EXCEPT ![h] = a.old] /\ sie' = [sie EXCEPT ![h] = TRUE]
      /\ on' = on /\ noff' = noff /\ intena' = intena /\ locked' = locked /\ cpu' = cpu
      /\ state' = state /\ saved' = saved /\ held' = held /\ panicked' = panicked
  BY <1>1 DEF Return, Pc
<1>7. pc'[h] = a.pc /\ lk'[h] = a.l /\ old'[h] = a.old /\ sie'[h] = TRUE
  BY <1>4, <1>6 DEF Functions
<1>8. Functions' /\ Elsewhere(h) /\ Awake
  BY <1>4, <1>5, <1>6 DEF Functions, Elsewhere, Awake
<1>9. Ranges(h)' /\ Runs(h)'
  BY <1>3, <1>4, <1>5, <1>6, <1>7, <1>b DEF HartInv, Ranges, Runs
<1>10. held[h] = {} /\ IsFiniteSet(held[h]) /\ noff[h] = Cardinality(held[h]) /\ noff[h] = 0
  <2>1. held[h] = {} /\ IsFiniteSet(held[h]) /\ noff[h] = Cardinality(held[h]) + 0
    BY <1>1, <1>2, <1>3, <1>4 DEF HartInv, Holds
  <2> QED
    BY <2>1, FS_EmptySet
<1>11. Holds(h)'
  BY <1>3, <1>5, <1>6, <1>7, <1>10 DEF Holds
<1>12. Masks(h)'
  <2>1. ~Handles(r)
    BY <1>3 DEF Handles
  <2> QED
    BY <1>3, <1>5, <1>6, <1>7, <1>10, <2>1 DEF Masks
<1>13. Sound(on[h], todo'[on[h]]) /\ pc[h] \notin {"cpu", "free"} /\ pc'[h] # "free"
  BY <1>2, <1>3, <1>5, <1>7
<1> QED
  BY <1>5, <1>6, <1>8, <1>9, <1>11, <1>12, <1>13, Quiet DEF HartInv

LEMMA UsertrapretKeeps ==
  ASSUME Inv, NEW h \in Hart, Usertrapret(h)
  PROVE  Inv'
<1>a. Next1(h, "sret")
  BY DEF Usertrapret
<1>1. PICK s, a, r : /\ s = todo[on[h]] /\ a = Head(s) /\ r = Tail(s)
                     /\ Split(on[h], a, r, s) /\ a.op = "sret" /\ a.l = Arg(h)
  BY <1>a, Begins
<1>2. on[h] \in Context /\ pc[h] = "top"
  BY <1>a, Begins
<1>3. /\ Sound(on[h], r) /\ Ops(s) = {"sret"} \cup Ops(r)
      /\ Ops(r) = {} /\ Owes(r) = {} /\ Owes(s) = {}
  BY <1>1, <1>2, SplitOp
<1>4. HartInv(h) /\ Functions
  BY DEF Inv
<1>5. /\ todo'[on[h]] = r /\ DOMAIN todo' = Context
      /\ \A y \in Context : y # on[h] => todo'[y] = todo[y]
      /\ on[h] \in Thread => todo'[h] = todo[h]
  BY <1>1, Shorter DEF Usertrapret
<1>6. /\ sie' = [sie EXCEPT ![h] = TRUE] /\ pc' = pc /\ lk' = lk /\ old' = old
      /\ on' = on /\ noff' = noff /\ intena' = intena /\ locked' = locked /\ cpu' = cpu
      /\ state' = state /\ saved' = saved /\ held' = held /\ panicked' = panicked
  BY DEF Usertrapret, regs
<1>7. sie'[h] = TRUE
  BY <1>4, <1>6 DEF Functions
<1>8. Functions' /\ Elsewhere(h) /\ Awake
  BY <1>4, <1>5, <1>6 DEF Functions, Elsewhere, Awake
<1>9. Ranges(h)' /\ Runs(h)'
  BY <1>4, <1>5, <1>6, <1>7 DEF HartInv, Ranges, Runs
<1>10. held[h] = {} /\ IsFiniteSet(held[h]) /\ noff[h] = Cardinality(held[h]) /\ noff[h] = 0
  <2>1. held[h] = {} /\ IsFiniteSet(held[h]) /\ noff[h] = Cardinality(held[h]) + 0
    BY <1>1, <1>2, <1>3, <1>4 DEF HartInv, Holds
  <2> QED
    BY <2>1, FS_EmptySet
<1>11. Holds(h)'
  BY <1>2, <1>3, <1>5, <1>6, <1>10 DEF Holds
<1>12. Masks(h)'
  <2>1. ~Handles(r) /\ ~old[h]
    BY <1>2, <1>3, <1>4 DEF Handles, HartInv, Masks
  <2> QED
    BY <1>2, <1>5, <1>6, <1>7, <1>10, <2>1 DEF Masks
<1>13. Sound(on[h], todo'[on[h]]) /\ pc[h] \notin {"cpu", "free"} /\ pc'[h] # "free"
  BY <1>2, <1>3, <1>5, <1>6
<1> QED
  BY <1>5, <1>6, <1>8, <1>9, <1>11, <1>12, <1>13, Quiet DEF HartInv

(***************************************************************************)
(* The steps that take and release a lock.                                 *)
(***************************************************************************)
LEMMA SwapKeeps ==
  ASSUME Inv, NEW h \in Hart, Swap(h)
  PROVE  Inv'
<1>1. HartInv(h) /\ Functions /\ Exclusion
  BY DEF Inv
<1>2. PICK s, k : s = todo[on[h]] /\ k = lk[h]
  OBVIOUS
<1>3. /\ pc[h] = "swap" /\ k \in Lock /\ k \in Owes(s) /\ held[h] = Owes(s) \ {k}
      /\ IsFiniteSet(held[h]) /\ noff[h] = Cardinality(held[h]) + 1
  BY <1>1, <1>2 DEF Swap, HartInv, Holds, Ranges
<1>4. /\ locked[k] = FALSE /\ locked' = [locked EXCEPT ![k] = TRUE]
      /\ held' = [held EXCEPT ![h] = held[h] \cup {k}] /\ pc' = [pc EXCEPT ![h] = "cpu"]
      /\ on' = on /\ sie' = sie /\ noff' = noff /\ intena' = intena /\ cpu' = cpu /\ lk' = lk
      /\ old' = old /\ todo' = todo /\ state' = state /\ saved' = saved /\ panicked' = panicked
  <2>1. LockInv(k)
    BY <1>3 DEF Inv
  <2> QED
    BY <1>2, <2>1 DEF LockInv, Swap, Pc, hart, thread
<1>5. held'[h] = held[h] \cup {k} /\ pc'[h] = "cpu"
  BY <1>1, <1>4 DEF Functions
<1>6. Functions' /\ Elsewhere(h) /\ Awake
  BY <1>1, <1>4 DEF Functions, Elsewhere, Awake
<1>7. Ranges(h)' /\ Runs(h)'
  BY <1>1, <1>4, <1>5 DEF HartInv, Ranges, Runs
<1>8. Holds(h)'
  <2>1. k \notin held[h] /\ held'[h] = Owes(s)
    BY <1>3, <1>5
  <2>2. IsFiniteSet(held'[h]) /\ Cardinality(held'[h]) = Cardinality(held[h]) + 1
    <3>1. PICK H : H = held[h]
      OBVIOUS
    <3>2. IsFiniteSet(H \cup {k}) /\ Cardinality(H \cup {k}) = Cardinality(H) + 1
      BY <1>3, <2>1, <3>1, FS_AddElement
    <3> QED
      BY <1>5, <3>1, <3>2
  <2>3. Cardinality(held'[h]) \in Nat
    BY <2>2, FS_CardinalityType
  <2> QED
    BY <1>2, <1>3, <1>4, <1>5, <2>1, <2>2, <2>3 DEF Holds
<1>9. Masks(h)'
  BY <1>1, <1>3, <1>4, <1>5 DEF HartInv, Masks
<1>10. \A g \in Hart : g # h => k \notin held[g]
  <2>1. LockInv(k)
    BY <1>3 DEF Inv
  <2> QED
    BY <1>4, <2>1 DEF LockInv
<1>11. \A l \in Lock : LockInv(l)'
  <2> TAKE l \in Lock
  <2>1. LockInv(l)
    BY DEF Inv
  <2>2. \A g \in Hart : g # h => held'[g] = held[g] /\ pc'[g] = pc[g]
    BY <1>6 DEF Elsewhere
  <2>3. CASE l = k
    <3>1. locked'[k] = TRUE /\ k \in held'[h]
      BY <1>1, <1>3, <1>4, <1>5 DEF Functions
    <3> QED
      BY <1>2, <1>4, <1>5, <1>10, <2>1, <2>2, <2>3, <3>1 DEF LockInv
  <2>4. CASE l # k
    <3>1. locked'[l] = locked[l] /\ (l \in held'[h] <=> l \in held[h])
      BY <1>1, <1>4, <1>5, <2>4 DEF Functions
    <3>2. l \in held[h] => cpu[l] = h
      BY <1>3, <2>1 DEF LockInv
    <3>3. locked'[l] <=> \E g \in Hart : l \in held'[g]
      BY <2>1, <2>2, <3>1 DEF LockInv
    <3>4. \A g \in Hart : g # h =>
            (l \in held'[g] <=> l \in held[g]) /\ pc'[g] = pc[g] /\ lk'[g] = lk[g]
      BY <1>4, <2>2
    <3>5. locked'[l] \in BOOLEAN
      BY <2>1, <3>1 DEF LockInv
    <3>6. ASSUME NEW g \in Hart
          PROVE  /\ cpu'[l] = g => l \in held'[g]
                 /\ l \in held'[g] => cpu'[l] = g \/ (pc'[g] \in {"cpu", "free"} /\ lk'[g] = l)
                 /\ pc'[g] = "free" /\ lk'[g] = l => cpu'[l] # g
      <4>1. CASE g = h
        BY <1>4, <1>5, <2>1, <3>1, <3>2, <4>1 DEF LockInv
      <4>2. CASE g # h
        BY <1>4, <2>1, <3>4, <4>2 DEF LockInv
      <4> QED
        BY <4>1, <4>2
    <3> QED
      BY <3>3, <3>5, <3>6 DEF LockInv
  <2> QED
    BY <2>3, <2>4
<1>12. \A g \in Hart : g # h => held'[h] \cap held[g] = {}
  BY <1>1, <1>5, <1>10 DEF Exclusion
<1>13. Sound(on[h], todo'[on[h]])
  BY <1>1, <1>4 DEF Inv, Functions
<1> QED
  BY <1>4, <1>6, <1>7, <1>8, <1>9, <1>11, <1>12, <1>13, Alone DEF HartInv

LEMMA SetCpuKeeps ==
  ASSUME Inv, NEW h \in Hart, SetCpu(h)
  PROVE  Inv'
<1>1. HartInv(h) /\ Functions /\ Exclusion
  BY DEF Inv
<1>2. PICK s, k : s = todo[on[h]] /\ k = lk[h]
  OBVIOUS
<1>3. /\ pc[h] = "cpu" /\ k \in Lock /\ k \in held[h] /\ held[h] = Owes(s)
      /\ IsFiniteSet(held[h]) /\ noff[h] = Cardinality(held[h]) + 0
  BY <1>1, <1>2 DEF SetCpu, HartInv, Holds, Ranges
<1>4. /\ cpu' = [cpu EXCEPT ![k] = h] /\ pc' = [pc EXCEPT ![h] = "top"]
      /\ lk' = [lk EXCEPT ![h] = tickslock]
      /\ on' = on /\ sie' = sie /\ noff' = noff /\ intena' = intena /\ locked' = locked
      /\ old' = old /\ todo' = todo /\ state' = state /\ saved' = saved /\ held' = held
      /\ panicked' = panicked
  BY <1>2 DEF SetCpu, Top, Pc, hart, thread
<1>5. lk'[h] = tickslock /\ pc'[h] = "top"
  BY <1>1, <1>4 DEF Functions
<1>6. Functions' /\ Elsewhere(h) /\ Awake
  BY <1>1, <1>4 DEF Functions, Elsewhere, Awake
<1>7. Ranges(h)' /\ Runs(h)'
  BY <1>1, <1>4, <1>5, Locks DEF HartInv, Ranges, Runs
<1>8. Holds(h)'
  BY <1>2, <1>3, <1>4, <1>5 DEF Holds
<1>9. Masks(h)'
  BY <1>1, <1>3, <1>4, <1>5 DEF HartInv, Masks
<1>10. \A g \in Hart : g # h => k \notin held[g]
  BY <1>1, <1>3 DEF Exclusion
<1>11. \A l \in Lock : LockInv(l)'
  <2> TAKE l \in Lock
  <2>1. LockInv(l)
    BY DEF Inv
  <2>2. \A g \in Hart : g # h => pc'[g] = pc[g] /\ lk'[g] = lk[g]
    BY <1>6 DEF Elsewhere
  <2>3. CASE l = k
    <3>1. cpu'[k] = h
      BY <1>1, <1>3, <1>4 DEF Functions
    <3> QED
      BY <1>3, <1>4, <1>5, <1>10, <2>1, <2>2, <2>3, <3>1 DEF LockInv
  <2>4. CASE l # k
    <3>1. cpu'[l] = cpu[l]
      BY <1>1, <1>4, <2>4 DEF Functions
    <3> QED
      BY <1>2, <1>3, <1>4, <1>5, <2>1, <2>2, <2>4, <3>1 DEF LockInv
  <2> QED
    BY <2>3, <2>4
<1>12. \A g \in Hart : g # h => held'[h] \cap held[g] = {}
  BY <1>1, <1>4 DEF Exclusion
<1>13. Sound(on[h], todo'[on[h]])
  BY <1>1, <1>4 DEF Inv, Functions
<1> QED
  BY <1>4, <1>6, <1>7, <1>8, <1>9, <1>11, <1>12, <1>13, Alone DEF HartInv

LEMMA ClearCpuKeeps ==
  ASSUME Inv, NEW h \in Hart, ClearCpu(h)
  PROVE  Inv'
<1>a. Next1(h, "release")
  BY DEF ClearCpu
<1>1. PICK s, a, r : /\ s = todo[on[h]] /\ a = Head(s) /\ r = Tail(s)
                     /\ Split(on[h], a, r, s) /\ a.op = "release" /\ a.l = Arg(h)
  BY <1>a, Begins
<1>2. on[h] \in Context /\ pc[h] = "top"
  BY <1>a, Begins
<1>3. /\ Sound(on[h], r) /\ Ops(s) = {"release"} \cup Ops(r)
      /\ a.l \in Lock /\ a.l \notin Owes(r) /\ Owes(s) = Owes(r) \cup {a.l}
  BY <1>1, <1>2, SplitOp
<1>4. HartInv(h) /\ Functions /\ Exclusion
  BY DEF Inv
<1>5. /\ held[h] = Owes(r) \cup {a.l} /\ IsFiniteSet(held[h]) /\ noff[h] = Cardinality(held[h]) + 0
      /\ a.l \in held[h]
  BY <1>1, <1>2, <1>3, <1>4 DEF HartInv, Holds
<1>6. Holding(h, a.l)
  <2>1. LockInv(a.l)
    BY <1>3 DEF Inv
  <2> QED
    BY <1>2, <1>5, <2>1 DEF Holding, LockInv
<1>7. /\ todo'[on[h]] = r /\ DOMAIN todo' = Context
      /\ \A y \in Context : y # on[h] => todo'[y] = todo[y]
      /\ on[h] \in Thread => todo'[h] = todo[h]
  BY <1>1, <1>6, Shorter DEF ClearCpu
<1>8. /\ cpu' = [cpu EXCEPT ![a.l] = Nobody] /\ lk' = [lk EXCEPT ![h] = a.l]
      /\ pc' = [pc EXCEPT ![h] = "free"]
      /\ on' = on /\ sie' = sie /\ noff' = noff /\ intena' = intena /\ locked' = locked
      /\ old' = old /\ state' = state /\ saved' = saved /\ held' = held /\ panicked' = panicked
  BY <1>1, <1>6 DEF ClearCpu, Cleared, Pc, hart
<1>9. lk'[h] = a.l /\ pc'[h] = "free"
  BY <1>4, <1>8 DEF Functions
<1>10. Functions' /\ Elsewhere(h) /\ Awake
  BY <1>4, <1>7, <1>8 DEF Functions, Elsewhere, Awake
<1>11. Ranges(h)' /\ Runs(h)'
  BY <1>3, <1>4, <1>7, <1>8, <1>9 DEF HartInv, Ranges, Runs
<1>12. Holds(h)'
  BY <1>3, <1>5, <1>7, <1>8, <1>9 DEF Holds
<1>13. Masks(h)'
  <2>1. (Handles(s) <=> Handles(r)) /\ (Newborn(s) <=> Newborn(r))
    BY <1>3 DEF Handles, Newborn
  <2> QED
    BY <1>1, <1>2, <1>4, <1>7, <1>8, <1>9, <2>1 DEF HartInv, Masks
<1>14. \A l \in Lock : LockInv(l)'
  <2> TAKE l \in Lock
  <2>1. LockInv(l)
    BY DEF Inv
  <2>2. \A g \in Hart : g # h => pc'[g] = pc[g] /\ lk'[g] = lk[g] /\ a.l \notin held[g]
    BY <1>4, <1>5, <1>10 DEF Elsewhere, Exclusion
  <2>3. CASE l = a.l
    <3>1. cpu'[l] = Nobody /\ Nobody \notin Hart
      BY <1>4, <1>8, <2>3, Locks DEF Functions
    <3> QED
      BY <1>5, <1>8, <1>9, <2>1, <2>2, <2>3, <3>1 DEF LockInv
  <2>4. CASE l # a.l
    <3>1. cpu'[l] = cpu[l]
      BY <1>4, <1>8, <2>4 DEF Functions
    <3> QED
      BY <1>2, <1>8, <1>9, <2>1, <2>2, <2>4, <3>1 DEF LockInv
  <2> QED
    BY <2>3, <2>4
<1>15. \A g \in Hart : g # h => held'[h] \cap held[g] = {}
  BY <1>4, <1>8 DEF Exclusion
<1>16. Sound(on[h], todo'[on[h]])
  BY <1>3, <1>7
<1> QED
  BY <1>7, <1>8, <1>10, <1>11, <1>12, <1>13, <1>14, <1>15, <1>16, Alone DEF HartInv

LEMMA UnlockKeeps ==
  ASSUME Inv, NEW h \in Hart, Unlock(h)
  PROVE  Inv'
<1>1. HartInv(h) /\ Functions /\ Exclusion
  BY DEF Inv
<1>2. PICK s, k : s = todo[on[h]] /\ k = lk[h]
  OBVIOUS
<1>3. /\ pc[h] = "free" /\ k \in Lock /\ k \notin Owes(s) /\ held[h] = Owes(s) \cup {k}
      /\ IsFiniteSet(held[h]) /\ noff[h] = Cardinality(held[h]) + 0
  BY <1>1, <1>2 DEF Unlock, HartInv, Holds, Ranges
<1>4. /\ held[h] \ {k} = Owes(s) /\ IsFiniteSet(Owes(s)) /\ Cardinality(Owes(s)) \in Nat
      /\ noff[h] = Cardinality(Owes(s)) + 1
  <2>1. held[h] \ {k} = Owes(s) /\ k \in held[h]
    BY <1>3
  <2>2. IsFiniteSet(held[h] \ {k}) /\ Cardinality(held[h] \ {k}) = Cardinality(held[h]) - 1
    BY <1>3, <2>1, FS_RemoveElement
  <2>3. Cardinality(held[h]) \in Nat
    BY <1>3, FS_CardinalityType
  <2>4. Cardinality(Owes(s)) \in Nat
    BY <2>1, <2>2, FS_CardinalityType
  <2>5. PICK c, d : c \in Nat /\ c = Cardinality(held[h]) /\ d = Cardinality(Owes(s))
    BY <2>3
  <2>6. d = c - 1 /\ noff[h] = c + 0
    BY <1>3, <2>1, <2>2, <2>5
  <2>7. noff[h] = d + 1
    BY <2>4, <2>5, <2>6
  <2> QED
    BY <2>1, <2>2, <2>4, <2>5, <2>7
<1>5. ~sie[h]
  BY <1>1, <1>4 DEF HartInv, Masks
<1>6. /\ locked' = [locked EXCEPT ![k] = FALSE] /\ held' = [held EXCEPT ![h] = held[h] \ {k}]
      /\ noff' = [noff EXCEPT ![h] = noff[h] - 1]
      /\ sie' = [sie EXCEPT ![h] = noff[h] = 1 /\ intena[h]]
      /\ pc' = [pc EXCEPT ![h] = "top"] /\ lk' = [lk EXCEPT ![h] = tickslock]
      /\ on' = on /\ intena' = intena /\ cpu' = cpu
      /\ old' = old /\ todo' = todo /\ state' = state /\ saved' = saved /\ panicked' = panicked
  BY <1>2, <1>4, <1>5 DEF Unlock, OnAgain, Top, Pc, thread
<1>7. /\ held'[h] = Owes(s) /\ noff'[h] = Cardinality(Owes(s)) /\ pc'[h] = "top"
      /\ lk'[h] = tickslock /\ (sie'[h] <=> noff[h] = 1 /\ intena[h])
  <2>1. /\ held'[h] = held[h] \ {k} /\ noff'[h] = noff[h] - 1 /\ pc'[h] = "top"
        /\ lk'[h] = tickslock
    BY <1>1, <1>6 DEF Functions
  <2>2. sie'[h] <=> noff[h] = 1 /\ intena[h]
    BY <1>1, <1>6 DEF Functions
  <2>3. (Cardinality(Owes(s)) + 1) - 1 = Cardinality(Owes(s))
    BY <1>4
  <2> QED
    BY <1>4, <2>1, <2>2, <2>3
<1>8. Functions' /\ Elsewhere(h) /\ Awake
  BY <1>1, <1>6 DEF Functions, Elsewhere, Awake
<1>9. Ranges(h)' /\ Runs(h)'
  <2>1. sie'[h] \in BOOLEAN
    BY <1>1, <1>6 DEF Functions
  <2> QED
    BY <1>1, <1>6, <1>7, <2>1, Locks DEF HartInv, Ranges, Runs
<1>10. Holds(h)'
  BY <1>2, <1>4, <1>6, <1>7 DEF Holds
<1>11. Masks(h)'
  <2>1. /\ Handles(s) => ~intena[h]
        /\ ~Handles(s) /\ on[h] \in Thread /\ ~Newborn(s) => intena[h]
        /\ ~old[h]
    BY <1>1, <1>2, <1>3, <1>4 DEF HartInv, Masks
  <2>2. sie'[h] <=> noff'[h] = 0 /\ intena[h]
    BY <1>4, <1>7
  <2> QED
    BY <1>2, <1>6, <1>7, <2>1, <2>2 DEF Masks
<1>12. \A g \in Hart : g # h => k \notin held[g]
  BY <1>1, <1>3 DEF Exclusion
<1>13. \A l \in Lock : LockInv(l)'
  <2> TAKE l \in Lock
  <2>1. LockInv(l)
    BY DEF Inv
  <2>2. \A g \in Hart : g # h => held'[g] = held[g] /\ pc'[g] = pc[g] /\ lk'[g] = lk[g]
    BY <1>8 DEF Elsewhere
  <2>3. CASE l = k
    <3>1. locked'[k] = FALSE /\ k \notin held'[h] /\ cpu[k] # h
      BY <1>1, <1>2, <1>3, <1>6, <1>7, <2>1, <2>3 DEF Functions, LockInv
    <3> QED
      BY <1>6, <1>7, <1>12, <2>1, <2>2, <2>3, <3>1 DEF LockInv
  <2>4. CASE l # k
    <3>1. locked'[l] = locked[l] /\ (l \in held'[h] <=> l \in held[h])
      BY <1>1, <1>3, <1>6, <1>7, <2>4 DEF Functions
    <3> QED
      BY <1>2, <1>6, <1>7, <2>1, <2>2, <2>4, <3>1 DEF LockInv
  <2> QED
    BY <2>3, <2>4
<1>14. \A g \in Hart : g # h => held'[h] \cap held[g] = {}
  BY <1>1, <1>3, <1>7 DEF Exclusion
<1>15. Sound(on[h], todo'[on[h]])
  BY <1>1, <1>6 DEF Inv, Functions
<1> QED
  BY <1>6, <1>8, <1>9, <1>10, <1>11, <1>13, <1>14, <1>15, Alone DEF HartInv

(***************************************************************************)
(* The steps between a thread and the scheduler of its hart.               *)
(***************************************************************************)
LEMMA SchedStepKeeps ==
  ASSUME Inv, NEW h \in Hart, SchedStep(h)
  PROVE  Inv'
<1>a. Next1(h, "sched")
  BY DEF SchedStep
<1>1. PICK t, s, a, r :
        /\ t = on[h] /\ s = todo[t] /\ a = Head(s) /\ r = Tail(s)
        /\ Split(t, a, r, s) /\ a.op = "sched" /\ a.l = Arg(h)
  BY <1>a, Begins
<1>2. t \in Context /\ pc[h] = "top"
  BY <1>1, <1>a, Begins
<1>3. /\ Sound(t, r) /\ Ops(s) = {"sched"} \cup Ops(r) /\ t \in Thread
      /\ a.l \in {"sleeping", "runnable"} /\ Owes(r) = {t} /\ Owes(s) = {t}
  BY <1>1, <1>2, SplitOp
<1>4. HartInv(h) /\ Functions /\ Exclusion /\ t \in Lock /\ t # h /\ h \in Context /\ h \notin Thread
  BY <1>3, Locks DEF Inv
<1>5. held[h] = {t} /\ IsFiniteSet(held[h]) /\ noff[h] = Cardinality(held[h]) + 0 /\ noff[h] = 1
  <2>1. held[h] = {t} /\ IsFiniteSet(held[h]) /\ noff[h] = Cardinality(held[h]) + 0
    BY <1>1, <1>2, <1>3, <1>4 DEF HartInv, Holds
  <2> QED
    BY <2>1, FS_Singleton
<1>6. /\ ~sie[h] /\ ~old[h] /\ (Handles(s) => ~intena[h])
      /\ ~Handles(s) /\ ~Newborn(s) => intena[h]
  BY <1>1, <1>2, <1>3, <1>4, <1>5 DEF HartInv, Masks
<1>7. Holding(h, t)
  <2>1. LockInv(t)
    BY <1>4 DEF Inv
  <2> QED
    BY <1>2, <1>5, <2>1 DEF Holding, LockInv
<1>8. /\ todo'[t] = r /\ DOMAIN todo' = Context
      /\ \A y \in Context : y # t => todo'[y] = todo[y]
  BY <1>1, <1>5, <1>6, <1>7, Shorter DEF SchedStep
<1>9. /\ state' = [state EXCEPT ![t] = a.l] /\ saved' = [saved EXCEPT ![t] = {intena[h]}]
      /\ on' = [on EXCEPT ![h] = h]
      /\ sie' = sie /\ noff' = noff /\ intena' = intena /\ locked' = locked /\ cpu' = cpu
      /\ pc' = pc /\ lk' = lk /\ old' = old /\ held' = held /\ panicked' = panicked
  BY <1>1, <1>5, <1>6, <1>7 DEF SchedStep, regs
<1>10. /\ on'[h] = h /\ state'[t] = a.l /\ saved'[t] = {intena[h]}
       /\ \A g \in Hart : g # h => on'[g] = on[g] /\ on[g] # t /\ on[g] # h
       /\ \A u \in Thread : u # t => state'[u] = state[u] /\ saved'[u] = saved[u]
  <2>1. \A g \in Hart : g # h => on[g] # t /\ on[g] # h
    BY <1>1, Locks DEF Inv, HartInv, Ranges
  <2> QED
    BY <1>3, <1>4, <1>9, <2>1 DEF Functions
<1>11. Functions'
  BY <1>4, <1>8, <1>9, Locks DEF Functions
<1>12. \A x \in Context : Sound(x, todo'[x])
  BY <1>3, <1>8 DEF Inv
<1>13. HartInv(h)'
  <2>1. Owes(todo[h]) = {t} /\ Ops(todo[h]) \subseteq {"release"} /\ todo'[h] = todo[h]
    BY <1>1, <1>3, <1>4, <1>8 DEF HartInv, Runs
  <2>2. Ranges(h)' /\ Runs(h)'
    BY <1>4, <1>9, <1>10 DEF HartInv, Ranges, Runs
  <2>3. Holds(h)'
    BY <1>2, <1>5, <1>9, <1>10, <2>1 DEF Holds
  <2>4. ~Handles(todo[h])
    BY <2>1 DEF Handles
  <2>5. Masks(h)'
    BY <1>2, <1>4, <1>6, <1>9, <1>10, <2>1, <2>4 DEF Masks
  <2> QED
    BY <2>2, <2>3, <2>5 DEF HartInv
<1>14. \A g \in Hart : HartInv(g)'
  <2> SUFFICES ASSUME NEW g \in Hart, g # h PROVE HartInv(g)'
    BY <1>13
  <2>1. HartInv(g) /\ on[g] \in Context /\ g \in Context /\ g # t
    BY <1>3, <1>4, Locks DEF Inv, Functions
  <2>2. on'[g] = on[g] /\ todo'[on[g]] = todo[on[g]] /\ todo'[g] = todo[g]
    BY <1>8, <1>10, <2>1
  <2>3. on[g] \in Thread => state'[on[g]] = state[on[g]]
    BY <1>10
  <2> QED
    BY <1>9, <2>1, <2>2, <2>3 DEF HartInv, Ranges, Holds, Masks, Runs
<1>15. \A u \in Thread : ThreadInv(u)'
  <2> TAKE u \in Thread
  <2>1. CASE u = t
    <3>1. (Handles(r) <=> Handles(s)) /\ (Newborn(r) <=> Newborn(s))
      BY <1>3 DEF Handles, Newborn
    <3>2. intena[h] \in BOOLEAN
      BY <1>4 DEF HartInv, Ranges
    <3>3. /\ Handles(r) => saved'[t] # {} /\ TRUE \notin saved'[t]
          /\ ~Handles(r) /\ ~Newborn(r) => TRUE \in saved'[t]
      BY <1>6, <1>10, <3>1, <3>2
    <3> QED
      BY <1>3, <1>8, <1>10, <2>1, <3>2, <3>3 DEF ThreadInv
  <2>2. CASE u # t
    <3>1. ThreadInv(u) /\ u \in Context /\ u # h
      BY <1>4, Locks DEF Inv
    <3>2. todo'[u] = todo[u] /\ state'[u] = state[u] /\ saved'[u] = saved[u]
      BY <1>8, <1>10, <2>2, <3>1
    <3>3. (\A g \in Hart : on'[g] # u) => (\A g \in Hart : on[g] # u)
      BY <1>1, <1>10, <2>2
    <3> QED
      BY <3>1, <3>2, <3>3 DEF ThreadInv
  <2> QED
    BY <2>1, <2>2
<1>16. \A l \in Lock : LockInv(l)'
  BY <1>9 DEF Inv, LockInv
<1>17. Exclusion' /\ (\A f, g \in Hart : on'[f] = on'[g] => f = g) /\ panicked' = Nobody
  BY <1>9, <1>10 DEF Inv, Exclusion
<1> QED
  BY <1>11, <1>12, <1>14, <1>15, <1>16, <1>17 DEF Inv

LEMMA SwitchKeeps ==
  ASSUME Inv, NEW h \in Hart, Switch(h)
  PROVE  Inv'
<1>a. Next1(h, "switch")
  BY DEF Switch
<1>1. PICK s, a, r : /\ s = todo[on[h]] /\ a = Head(s) /\ r = Tail(s)
                     /\ Split(on[h], a, r, s) /\ a.op = "switch" /\ a.l = Arg(h)
  BY <1>a, Begins
<1>2. on[h] \in Context /\ pc[h] = "top"
  BY <1>a, Begins
<1>3. PICK t : t = a.l
  OBVIOUS
<1>4. /\ Sound(on[h], r) /\ Ops(s) = {"switch"} \cup Ops(r) /\ on[h] \in Hart /\ t \in Thread
      /\ Ops(r) \subseteq {"release"} /\ Owes(r) = {t} /\ Owes(s) = {t}
  BY <1>1, <1>2, <1>3, SplitOp
<1>5. /\ HartInv(h) /\ Functions /\ Exclusion /\ t # h /\ h \in Context /\ h \notin Thread
      /\ t \in Context
  BY <1>4, Locks DEF Inv
<1>6. on[h] = h
  BY <1>4, <1>5, Locks DEF HartInv, Ranges
<1>7. held[h] = {t} /\ IsFiniteSet(held[h]) /\ noff[h] = Cardinality(held[h]) + 0 /\ noff[h] = 1
  <2>1. held[h] = {t} /\ IsFiniteSet(held[h]) /\ noff[h] = Cardinality(held[h]) + 0
    BY <1>1, <1>2, <1>4, <1>5 DEF HartInv, Holds
  <2> QED
    BY <2>1, FS_Singleton
<1>8. ~Handles(s) /\ ~Handles(r)
  BY <1>4 DEF Handles
<1>9. ~sie[h] /\ ~old[h] /\ intena[h] \in BOOLEAN
  BY <1>1, <1>2, <1>5, <1>7 DEF HartInv, Masks, Ranges
<1>10. /\ todo'[h] = r /\ DOMAIN todo' = Context
       /\ \A y \in Context : y # h => todo'[y] = todo[y]
  BY <1>1, <1>6, Shorter DEF Switch
<1>11. /\ sie' = sie /\ noff' = noff /\ locked' = locked /\ cpu' = cpu /\ pc' = pc /\ lk' = lk
       /\ old' = old /\ saved' = saved /\ held' = held /\ panicked' = panicked
  BY DEF Switch, regs
<1>12. CASE state[t] # "runnable"
  <2>1. on' = on /\ intena' = intena /\ state' = state
    BY <1>1, <1>3, <1>12 DEF Switch
  <2>2. Functions' /\ Elsewhere(h) /\ Awake
    BY <1>5, <1>6, <1>10, <1>11, <2>1 DEF Functions, Elsewhere, Awake
  <2>3. Ranges(h)' /\ Runs(h)'
    BY <1>5, <1>6, <1>11, <2>1 DEF HartInv, Ranges, Runs
  <2>4. Holds(h)'
    BY <1>2, <1>4, <1>6, <1>7, <1>10, <1>11, <2>1 DEF Holds
  <2>5. Masks(h)'
    BY <1>2, <1>5, <1>6, <1>8, <1>9, <1>10, <1>11, <2>1 DEF Masks
  <2> QED
    BY <1>2, <1>4, <1>5, <1>6, <1>10, <1>11, <2>1, <2>2, <2>3, <2>4, <2>5, Quiet DEF HartInv
<1>13. CASE state[t] = "runnable"
  <2>1. /\ state' = [state EXCEPT ![t] = "running"] /\ on' = [on EXCEPT ![h] = t]
        /\ intena' = [intena EXCEPT ![h] = Resumed(h, t)]
    BY <1>1, <1>3, <1>13 DEF Switch
  <2>2. \A g \in Hart : on[g] # t
    BY <1>4, <1>13 DEF Inv, HartInv, Runs
  <2>3. /\ state[t] # "running" /\ Owes(todo[t]) = {t}
        /\ Handles(todo[t]) => saved[t] # {} /\ TRUE \notin saved[t]
        /\ ~Handles(todo[t]) /\ ~Newborn(todo[t]) => TRUE \in saved[t]
        /\ saved[t] \in SUBSET BOOLEAN
    <3>1. ThreadInv(t)
      BY <1>4 DEF Inv
    <3> QED
      BY <2>2, <3>1 DEF ThreadInv
  <2>4. /\ on'[h] = t /\ state'[t] = "running" /\ intena'[h] = Resumed(h, t)
        /\ \A g \in Hart : g # h => on'[g] = on[g] /\ intena'[g] = intena[g] /\ on[g] # h
        /\ \A u \in Thread : u # t => state'[u] = state[u]
    <3>1. \A g \in Hart : g # h => on[g] # h
      BY <1>6 DEF Inv
    <3> QED
      BY <1>4, <1>5, <2>1, <3>1 DEF Functions
  <2>5. Functions'
    BY <1>5, <1>10, <1>11, <2>1 DEF Functions
  <2>6. \A x \in Context : Sound(x, todo'[x])
    BY <1>4, <1>6, <1>10 DEF Inv
  <2>7. HartInv(h)'
    <3>1. todo'[t] = todo[t]
      BY <1>5, <1>10
    <3>2. /\ intena'[h] \in BOOLEAN /\ (Handles(todo[t]) => ~intena'[h])
          /\ ~Handles(todo[t]) /\ ~Newborn(todo[t]) => intena'[h]
      <4>1. CASE saved[t] = {}
        BY <1>9, <2>3, <2>4, <4>1 DEF Resumed
      <4>2. CASE saved[t] # {}
        <5>1. CASE TRUE \in saved[t]
          <6>1. intena'[h] = TRUE
            BY <2>4, <4>2, <5>1 DEF Resumed
          <6> QED
            BY <2>3, <5>1, <6>1
        <5>2. CASE TRUE \notin saved[t]
          <6>1. intena'[h] = (TRUE \in saved[t])
            BY <2>4, <4>2, Zenon DEF Resumed
          <6>2. ~intena'[h]
            BY <5>2, <6>1, Zenon
          <6>3. intena'[h] \in BOOLEAN
            BY <6>1
          <6> QED
            BY <2>3, <4>2, <5>2, <6>2, <6>3
        <5> QED
          BY <5>1, <5>2
      <4> QED
        BY <4>1, <4>2
    <3>3. Ranges(h)' /\ Runs(h)'
      BY <1>4, <1>5, <1>10, <1>11, <2>4, <3>2 DEF HartInv, Ranges, Runs
    <3>4. Holds(h)'
      BY <1>2, <1>7, <1>11, <2>3, <2>4, <3>1 DEF Holds
    <3>5. Masks(h)'
      BY <1>2, <1>7, <1>9, <1>11, <2>4, <3>1, <3>2 DEF Masks
    <3> QED
      BY <3>3, <3>4, <3>5 DEF HartInv
  <2>8. \A g \in Hart : HartInv(g)'
    <3> SUFFICES ASSUME NEW g \in Hart, g # h PROVE HartInv(g)'
      BY <2>7
    <3>1. HartInv(g) /\ on[g] \in Context /\ g \in Context
      BY Locks DEF Inv, Functions
    <3>2. on'[g] = on[g] /\ todo'[on[g]] = todo[on[g]] /\ todo'[g] = todo[g] /\ intena'[g] = intena[g]
      BY <1>10, <2>4, <3>1
    <3>3. on[g] \in Thread => state'[on[g]] = state[on[g]]
      BY <2>2, <2>4
    <3> QED
      BY <1>11, <3>1, <3>2, <3>3 DEF HartInv, Ranges, Holds, Masks, Runs
  <2>9. \A u \in Thread : ThreadInv(u)'
    <3> TAKE u \in Thread
    <3>1. ThreadInv(u) /\ u \in Context /\ u # h
      BY <1>5, Locks DEF Inv
    <3>2. todo'[u] = todo[u] /\ saved'[u] = saved[u]
      BY <1>10, <1>11, <3>1
    <3>3. CASE u = t
      BY <2>4, <3>1, <3>2, <3>3 DEF ThreadInv
    <3>4. CASE u # t
      <4>1. (\A g \in Hart : on'[g] # u) => (\A g \in Hart : on[g] # u)
        BY <1>6, <2>4, <3>1
      <4> QED
        BY <2>4, <3>1, <3>2, <3>4, <4>1 DEF ThreadInv
    <3> QED
      BY <3>3, <3>4
  <2>10. \A l \in Lock : LockInv(l)'
    BY <1>11 DEF Inv, LockInv
  <2>11. Exclusion' /\ (\A f, g \in Hart : on'[f] = on'[g] => f = g) /\ panicked' = Nobody
    BY <1>11, <2>2, <2>4 DEF Inv, Exclusion
  <2> QED
    BY <2>5, <2>6, <2>8, <2>9, <2>10, <2>11 DEF Inv
<1> QED
  BY <1>12, <1>13

(***************************************************************************)
(* The invariant holds, and says what is wanted.                           *)
(***************************************************************************)
LEMMA First ==
  ASSUME NEW t \in Thread, NEW s, s = <<Release(t), Op("sret", tickslock)>>
  PROVE  Sound(t, s) /\ Owes(s) = {t} /\ Ops(s) = {"release", "sret"}
<1>1. t \in Lock
  BY Locks
<1>2. PICK n \in Seq(Instr) : n = <<>>
  <2>1. <<>> \in Seq(Instr)
    OBVIOUS
  <2> QED
    BY <2>1, Zenon
<1>3. Sound(t, n) /\ Owes(n) = {} /\ Ops(n) = {}
  BY <1>2, Nothing
<1>4. PICK e : e = Cons(Op("sret", tickslock), n)
  OBVIOUS
<1>5. Sound(t, e) /\ Owes(e) = {} /\ Ops(e) = {"sret"}
  BY <1>3, <1>4, PushSret
<1>6. Release(t) \in Instr /\ Op("sret", tickslock) \in Instr
  BY <1>1, Kinds
<1>7. ASSUME NEW a, NEW b PROVE <<a, b>> \o n = <<a, b>>
  BY <1>2
<1>8. <<Release(t), Op("sret", tickslock)>> \o n = Cons(Release(t), e)
  BY ONLY <1>4, <1>6, n \in Seq(Instr), Joined2
<1>9. s = Cons(Release(t), e)
  BY <1>7, <1>8
<1>10. Sound(t, e) /\ t \notin Owes(e)
  BY <1>5
<1>11. Sound(t, s) /\ Owes(s) = Owes(e) \cup {t} /\ Ops(s) = Ops(e) \cup {"release"}
  BY <1>1, <1>9, <1>10, PushRelease
<1>12. Owes(s) = {t} /\ Ops(s) = {"release", "sret"}
  BY ONLY <1>5, <1>11
<1> QED
  BY <1>11, <1>12

LEMMA InitKeeps == Init => Inv
<1> SUFFICES ASSUME Init PROVE Inv
  OBVIOUS
<1>1. Functions /\ panicked = Nobody
  BY Locks DEF Init, Functions
<1>2. \A t \in Thread : Sound(t, todo[t]) /\ Owes(todo[t]) = {t} /\ Ops(todo[t]) = {"release", "sret"}
  <2> TAKE t \in Thread
  <2>1. todo[t] = <<Release(t), Op("sret", tickslock)>>
    BY Locks DEF Init
  <2> QED
    BY <2>1, First
<1>3. \A h \in Hart : Sound(h, todo[h]) /\ Owes(todo[h]) = {} /\ Ops(todo[h]) = {}
  <2> TAKE h \in Hart
  <2>1. todo[h] = <<>>
    BY Locks DEF Init
  <2> QED
    BY <2>1, Nothing
<1>4. \A x \in Context : Sound(x, todo[x])
  BY <1>2, <1>3 DEF Context
<1>5. \A h \in Hart : HartInv(h)
  <2> TAKE h \in Hart
  <2>1. /\ on[h] = h /\ pc[h] = "top" /\ lk[h] = tickslock /\ sie[h] = TRUE /\ intena[h] = FALSE
        /\ old[h] = FALSE /\ held[h] = {} /\ noff[h] = 0 /\ h \notin Thread /\ tickslock \in Lock
    BY Locks DEF Init
  <2>2. IsFiniteSet({}) /\ Cardinality({}) = 0
    BY FS_EmptySet
  <2>3. ~Handles(todo[h])
    BY <1>3 DEF Handles
  <2>4. Ranges(h) /\ Runs(h)
    BY <2>1 DEF Ranges, Runs
  <2>5. Holds(h)
    BY <1>3, <2>1, <2>2 DEF Holds
  <2>6. Masks(h)
    BY <2>1, <2>3 DEF Masks
  <2> QED
    BY <2>4, <2>5, <2>6 DEF HartInv
<1>6. \A t \in Thread : ThreadInv(t)
  <2> TAKE t \in Thread
  <2>1. state[t] = "runnable" /\ saved[t] = {} /\ ~Handles(todo[t]) /\ Newborn(todo[t])
    <3>1. state[t] = "runnable" /\ saved[t] = {}
      BY DEF Init
    <3>2. Ops(todo[t]) = {"release", "sret"}
      BY <1>2
    <3> QED
      BY <3>1, <3>2 DEF Handles, Newborn
  <2> QED
    BY <1>2, <2>1 DEF ThreadInv
<1>7. \A l \in Lock : LockInv(l)
  BY Locks DEF Init, LockInv
<1>8. Exclusion /\ \A g, h \in Hart : on[g] = on[h] => g = h
  BY DEF Init, Exclusion
<1> QED
  BY <1>1, <1>4, <1>5, <1>6, <1>7, <1>8 DEF Inv

LEMMA StepKeeps == Inv /\ [Next]_vars => Inv'
<1> SUFFICES ASSUME Inv, [Next]_vars PROVE Inv'
  OBVIOUS
<1>1. CASE UNCHANGED vars
  <2>1. /\ on' = on /\ sie' = sie /\ noff' = noff /\ intena' = intena /\ locked' = locked
        /\ cpu' = cpu /\ pc' = pc /\ lk' = lk /\ old' = old /\ todo' = todo /\ state' = state
        /\ saved' = saved /\ held' = held /\ panicked' = panicked
    BY <1>1 DEF vars, hart, regs, thread
  <2>2. Functions' /\ panicked' = Nobody /\ \A x \in Context : Sound(x, todo'[x])
    BY <2>1 DEF Inv, Functions
  <2>3. \A h \in Hart : HartInv(h)'
    BY <2>1 DEF Inv, HartInv, Ranges, Holds, Masks, Runs
  <2>4. (\A t \in Thread : ThreadInv(t)') /\ \A l \in Lock : LockInv(l)'
    BY <2>1 DEF Inv, ThreadInv, LockInv
  <2>5. Exclusion' /\ \A g, h \in Hart : on'[g] = on'[h] => g = h
    BY <2>1 DEF Inv, Exclusion
  <2> QED
    BY <2>2, <2>3, <2>4, <2>5 DEF Inv
<1>2. ASSUME NEW h \in Hart, Step(h) PROVE Inv'
  BY <1>2, PushOffKeeps, IntrOffKeeps, SwapKeeps, SetCpuKeeps, ClearCpuKeeps, UnlockKeeps,
     SchedStepKeeps, SwitchKeeps, SchedulerKeeps, SyscallKeeps, WakeupKeeps, WakeKeeps,
     InterruptKeeps, ReturnKeeps, UsertrapretKeeps DEF Step
<1> QED
  BY <1>1, <1>2 DEF Next

LEMMA Enough == Inv => LocksRight
<1> SUFFICES ASSUME Inv PROVE LocksRight
  OBVIOUS
<1>1. Exclusion /\ NeverPanics
  BY DEF Inv, NeverPanics
<1>2. ASSUME NEW h \in Hart, sie[h] PROVE held[h] = {}
  <2>1. IsFiniteSet(held[h]) /\ Cardinality(held[h]) \in Nat
    BY FS_CardinalityType DEF Inv, HartInv, Holds
  <2>2. noff[h] = 0 /\ noff[h] = Cardinality(held[h]) + IF pc[h] = "swap" THEN 1 ELSE 0
    BY <1>2 DEF Inv, HartInv, Holds, Masks
  <2> QED
    BY <2>1, <2>2, FS_EmptySet
<1>3. HeldUninterrupted
  BY <1>2 DEF HeldUninterrupted
<1>4. ASSUME NEW h \in Hart
      PROVE  /\ on[h] \in Thread /\ todo[on[h]] = <<>> /\ pc[h] = "top" => sie[h]
             /\ sie[h] => \A k \in DOMAIN todo[on[h]] : todo[on[h]][k].op # "iret"
  <2>1. PICK s : s = todo[on[h]]
    OBVIOUS
  <2>2. HartInv(h)
    BY DEF Inv
  <2>3. ASSUME on[h] \in Thread, s = <<>>, pc[h] = "top" PROVE sie[h]
    <3>1. ~Handles(s) /\ ~Newborn(s) /\ Owes(s) = {}
      BY <2>3, Nothing DEF Handles, Newborn
    <3>2. held[h] = {} /\ noff[h] = Cardinality(held[h]) + 0
      BY <2>1, <2>2, <2>3, <3>1 DEF HartInv, Holds
    <3>3. noff[h] = 0
      BY <3>2, FS_EmptySet
    <3> QED
      BY <2>1, <2>2, <2>3, <3>1, <3>3 DEF HartInv, Masks
  <2>4. ASSUME sie[h], NEW k \in DOMAIN s PROVE s[k].op # "iret"
    <3>1. ~Handles(s)
      BY <2>1, <2>2, <2>4 DEF HartInv, Masks
    <3>2. s \in Seq(Instr)
      BY <2>1 DEF Inv, Functions, Sound
    <3>3. 1 <= k
      BY <3>2
    <3> QED
      BY <3>1, <3>3 DEF Handles, Ops, Later
  <2> QED
    BY <2>1, <2>3, <2>4
<1>5. InterruptsAsBefore
  BY <1>4 DEF InterruptsAsBefore
<1> QED
  BY <1>1, <1>3, <1>5 DEF LocksRight

(* However many harts and threads there are: a lock is held by one hart at *)
(* a time, no hart takes interrupts while it holds one, interrupts are on  *)
(* again in user space and off in handlers, and acquire(), release(),      *)
(* pop_off() and sched() never panic.                                      *)
THEOREM LocksAreRight == Spec => []LocksRight
BY InitKeeps, StepKeeps, Enough, PTL DEF Spec

(***************************************************************************)
(* The console: arithmetic of indices that wrap at W, a multiple of the    *)
(* size P of the ring.                                                     *)
(***************************************************************************)
Ahead(W, a, b) == (b + W - a) % W

(* A sum of two indices wraps at most once.                                *)
LEMMA Wrapped ==
  ASSUME NEW W \in Nat \ {0}, NEW x \in 0 .. 2 * W - 1
  PROVE  /\ x < W => x % W = x
         /\ x >= W => x % W = x - W
         /\ x % W \in 0 .. W - 1
<1>1. ASSUME NEW y \in Nat, y < W PROVE y % W = y /\ (W + y) % W = y
  BY <1>1
<1>2. CASE x < W
  BY <1>1, <1>2
<1>3. CASE x >= W
  <2>1. PICK y \in Nat : y = x - W
    BY <1>3
  <2>2. y < W /\ x = W + y
    BY <2>1
  <2>3. x % W = y
    BY <1>1, <2>2
  <2> QED
    BY <1>3, <2>1, <2>2, <2>3
<1> QED
  BY <1>2, <1>3

(* The way from one index to another, around the wrap or not.              *)
LEMMA Way ==
  ASSUME NEW W \in Nat \ {0}, NEW a \in 0 .. W - 1, NEW b \in 0 .. W - 1
  PROVE  /\ b >= a => Ahead(W, a, b) = b - a
         /\ b < a => Ahead(W, a, b) = b + W - a
         /\ Ahead(W, a, b) \in 0 .. W - 1
<1>1. PICK x \in 0 .. 2 * W - 1 : x = b + W - a
  OBVIOUS
<1>2. /\ x < W => x % W = x
      /\ x >= W => x % W = x - W
      /\ x % W \in 0 .. W - 1
  BY Wrapped
<1>3. Ahead(W, a, b) = x % W
  BY <1>1 DEF Ahead
<1> QED
  BY <1>1, <1>2, <1>3

(* Where the index d after a is.                                           *)
LEMMA After ==
  ASSUME NEW W \in Nat \ {0}, NEW a \in 0 .. W - 1, NEW d \in 0 .. W - 1
  PROVE  /\ a + d < W => (a + d) % W = a + d
         /\ a + d >= W => (a + d) % W = a + d - W
         /\ (a + d) % W \in 0 .. W - 1
<1>1. PICK x \in 0 .. 2 * W - 1 : x = a + d
  OBVIOUS
<1>2. /\ x < W => x % W = x
      /\ x >= W => x % W = x - W
      /\ x % W \in 0 .. W - 1
  BY Wrapped
<1> QED
  BY <1>1, <1>2

(* Wrapping does not change the place in the ring.                         *)
LEMMA Round ==
  ASSUME NEW P \in Nat \ {0}, NEW K \in Nat, NEW x \in Nat
  PROVE  (P * K + x) % P = x % P
<1>1. x = P * (x \div P) + (x % P) /\ x \div P \in Nat /\ x % P \in 0 .. P - 1
  OBVIOUS
<1>2. ASSUME NEW k \in Nat, NEW m \in 0 .. P - 1 PROVE (P * k + m) % P = m
  OBVIOUS
<1>3. P * K + x = P * (K + (x \div P)) + (x % P) /\ K + (x \div P) \in Nat
  BY <1>1
<1> QED
  BY <1>1, <1>2, <1>3

(* Numbers that are less than P apart have different places.               *)
LEMMA Places ==
  ASSUME NEW P \in Nat \ {0}, NEW a \in Nat, NEW d \in 1 .. P - 1
  PROVE  (a + d) % P # a % P
<1>1. PICK q \in Nat, m \in 0 .. P - 1 : a = P * q + m /\ a % P = m
  <2>1. a = P * (a \div P) + (a % P) /\ a \div P \in Nat /\ a % P \in 0 .. P - 1
    OBVIOUS
  <2> QED
    BY <2>1
<1>2. ASSUME NEW k \in Nat, NEW x \in 0 .. P - 1 PROVE (P * k + x) % P = x
  OBVIOUS
<1>3. CASE m + d < P
  <2>1. a + d = P * q + (m + d) /\ m + d \in 0 .. P - 1 /\ m + d # m
    BY <1>1, <1>3
  <2>2. (a + d) % P = m + d
    BY <1>2, <2>1
  <2> QED
    BY <1>1, <2>1, <2>2
<1>4. CASE m + d >= P
  <2>1. a + d = P * (q + 1) + (m + d - P) /\ m + d - P \in 0 .. P - 1 /\ q + 1 \in Nat
    BY <1>1, <1>4
  <2>2. (a + d) % P = m + d - P
    BY <1>2, <2>1
  <2>3. m + d - P # m
    OBVIOUS
  <2> QED
    BY <1>1, <2>2, <2>3
<1> QED
  BY <1>1, <1>3, <1>4

(***************************************************************************)
(* The invariant: Typed says that the ring holds what was typed, Asleep    *)
(* and Sending that nobody overlooks it.                                   *)
(***************************************************************************)
Gap(i, j) == Ahead(INDEX_WRAP, i, j)
Room == INPUT_BUF_SIZE

Keys ==
  /\ inBuf \in [0 .. Room - 1 -> Tty!Char]
  /\ inR \in 0 .. INDEX_WRAP - 1 /\ inW \in 0 .. INDEX_WRAP - 1 /\ inE \in 0 .. INDEX_WRAP - 1
  /\ line \in Seq(Tty!Char) /\ draft \in Seq(Tty!Char)

(* line[k] is where the ring has it.                                       *)
Stored(s, i) == \A k \in 1 .. Len(s) : s[k] = inBuf[(i + k - 1) % Room]

Typed ==
  /\ Len(line) = Gap(inR, inW) /\ Len(draft) = Gap(inW, inE)
  /\ Len(line) + Len(draft) = Gap(inR, inE) /\ Gap(inR, inE) <= Room
  /\ Gap(inR, inE) = Room => line # <<>>
  /\ Stored(line, inR) /\ Stored(draft, inW)
  /\ \A k \in 1 .. Len(draft) : draft[k] = "a"

Threads ==
  /\ at \in [Reader \cup Writer \cup {Uart} -> {"idle", "asleep", "woken", "start", "getc"}]
  /\ \A t \in Reader : at[t] \in {"idle", "asleep", "woken"}
  /\ \A t \in Writer : at[t] # "getc"
  /\ at[Uart] \in {"idle", "getc", "start"}
  /\ \A t \in Writer \cup {Uart} : at[t] = "start" <=> outLock = t
  /\ outLock \in Writer \cup {Uart, None}

Reading ==
  /\ left \in [Reader -> 0 .. MaxRead] /\ first \in [Reader -> BOOLEAN] /\ dead \subseteq Reader
  /\ \A t \in Reader : at[t] # "idle" => left[t] # 0
  /\ \A t \in Reader : at[t] = "asleep" => line = <<>>

Sending ==
  /\ outR \in 0 .. TX_WRAP - 1 /\ outW \in 0 .. TX_WRAP - 1
  /\ rx \in BOOLEAN /\ busy \in BOOLEAN /\ txIrq \in BOOLEAN
  /\ \A t \in Writer : at[t] = "asleep" => Tty!TxFull
  /\ outR # outW => busy \/ txIrq \/ at[Uart] # "idle" \/ outLock # None

TtyInv == Keys /\ Typed /\ Threads /\ Reading /\ Sending

LEMMA Sizes ==
  /\ Room \in Nat \ {0} /\ INDEX_WRAP \in Nat \ {0} /\ Room < INDEX_WRAP
  /\ TX_WRAP \in Nat \ {0} /\ UART_TX_BUF_SIZE \in Nat \ {0} /\ MaxRead \in Nat
  /\ \E K \in Nat : INDEX_WRAP = Room * K
<1>1. PICK k \in 2 .. INDEX_WRAP : INDEX_WRAP = k * INPUT_BUF_SIZE
  BY ConsoleConstants DEF Tty!ConsoleAssumption
<1>2. PICK j \in 2 .. TX_WRAP : TX_WRAP = j * UART_TX_BUF_SIZE
  BY ConsoleConstants DEF Tty!ConsoleAssumption
<1>3. /\ INPUT_BUF_SIZE \in Nat \ {0} /\ UART_TX_BUF_SIZE \in Nat \ {0} /\ MaxRead \in Nat
  BY ConsoleConstants DEF Tty!ConsoleAssumption
<1>4. ASSUME NEW P \in Nat \ {0}, NEW W, NEW m \in 2 .. W, W = m * P
      PROVE  W \in Nat \ {0} /\ P < W /\ W = P * m /\ m \in Nat
  <2>1. m \in Int /\ 2 <= m
    OBVIOUS
  <2>2. PICK x \in Nat : m = x + 2
    BY <2>1
  <2>3. P * x \in Nat
    BY <2>2
  <2>4. W = P * x + 2 * P
    BY <1>4, <2>2
  <2> QED
    BY <2>2, <2>3, <2>4
<1> QED
  BY <1>1, <1>2, <1>3, <1>4 DEF Room

(* Distances are those of the ring.                                        *)
LEMMA Gaps ==
  ASSUME NEW i \in 0 .. INDEX_WRAP - 1, NEW j \in 0 .. INDEX_WRAP - 1
  PROVE  /\ Tty!Distance(i, j) = Gap(i, j) /\ Gap(i, j) \in 0 .. INDEX_WRAP - 1
         /\ j >= i => Gap(i, j) = j - i
         /\ j < i => Gap(i, j) = j + INDEX_WRAP - i
         /\ Gap(i, j) = 0 <=> i = j
<1>1. /\ j >= i => Gap(i, j) = j - i
      /\ j < i => Gap(i, j) = j + INDEX_WRAP - i
      /\ Gap(i, j) \in 0 .. INDEX_WRAP - 1
  BY Sizes, Way DEF Gap
<1>2. Gap(i, j) = 0 <=> i = j
  BY <1>1, Sizes
<1>3. Tty!Distance(i, j) = Gap(i, j)
  BY DEF Tty!Distance, Gap, Ahead
<1> QED
  BY <1>1, <1>2, <1>3

(* What the ring has from i on, as a sequence.                             *)
LEMMA RingIs ==
  ASSUME Keys, NEW i \in 0 .. INDEX_WRAP - 1, NEW j \in 0 .. INDEX_WRAP - 1,
         NEW s \in Seq(Tty!Char), Len(s) = Gap(i, j), Stored(s, i)
  PROVE  Tty!Ring(i, j) = s
<1>1. Tty!Ring(i, j) = [k \in 1 .. Len(s) |-> inBuf[(i + k - 1) % Room]]
  BY Gaps DEF Tty!Ring, Room
<1>2. s = [k \in 1 .. Len(s) |-> s[k]]
  BY LenProperties
<1> QED
  BY <1>1, <1>2 DEF Stored

LEMMA TtyFirst == Tty!Init => TtyInv
<1> SUFFICES ASSUME Tty!Init PROVE TtyInv
  OBVIOUS
<1> USE DEF Tty!Init
<1>1. Keys
  BY Sizes DEF Keys, Tty!Char, Room
<1>2. Typed
  <2>1. Gap(inR, inW) = 0 /\ Gap(inW, inE) = 0 /\ Gap(inR, inE) = 0
    BY Sizes, Way DEF Gap
  <2>2. Len(line) = 0 /\ Len(draft) = 0
    OBVIOUS
  <2> QED
    BY <2>1, <2>2, Sizes DEF Typed, Stored
<1>3. Threads
  BY ConsoleConstants DEF Threads, Tty!ConsoleAssumption
<1>4. Reading
  BY Sizes DEF Reading
<1>5. Sending
  <2>1. outR = outW /\ outR \in 0 .. TX_WRAP - 1
    BY Sizes
  <2>2. \A t \in Writer : at[t] # "asleep"
    OBVIOUS
  <2> QED
    BY <2>1, <2>2 DEF Sending
<1> QED
  BY <1>1, <1>2, <1>3, <1>4, <1>5 DEF TtyInv

LEMMA Smallest ==
  ASSUME NEW S \in SUBSET Nat, S # {}
  PROVE  Tty!Min(S) \in S /\ \A x \in S : Tty!Min(S) <= x
<1>1. PICK d \in S : \A x \in S : <<x, d>> \notin OpToRel(<, Nat)
  BY NatLessThanWellFounded, WFMin, ZenonT(60)
<1>2. \A x \in S : ~(x < d)
  BY <1>1 DEF OpToRel
<1>3. \E y \in S : \A x \in S : y <= x
  BY <1>2
<1> QED
  BY <1>3 DEF Tty!Min

(* What is proved is what the run checks.                                  *)
LEMMA TtyEnough == TtyInv => TypedIsRead
<1> SUFFICES ASSUME TtyInv PROVE TypedIsRead
  OBVIOUS
<1>1. Tty!Ring(inR, inW) = line /\ Tty!Ring(inW, inE) = draft
  BY RingIs DEF TtyInv, Typed, Keys
<1>2. Tty!TypeOK
  <2>1. \A t \in DOMAIN at : at[t] \in {"idle", "asleep", "woken", "start", "getc"}
    BY DEF TtyInv, Threads
  <2>2. /\ left \in [Reader -> 0 .. MaxRead] /\ first \in [Reader -> BOOLEAN]
        /\ dead \subseteq Reader /\ {rx, busy} \subseteq BOOLEAN /\ txIrq \in BOOLEAN
    BY DEF TtyInv, Reading, Sending
  <2>3. /\ inBuf \in [0 .. INPUT_BUF_SIZE - 1 -> Tty!Char]
        /\ {inR, inW, inE} \subseteq 0 .. INDEX_WRAP - 1 /\ {outR, outW} \subseteq 0 .. TX_WRAP - 1
        /\ line \in Seq(Tty!Char) /\ draft \in Seq(Tty!Char)
    BY DEF TtyInv, Keys, Sending, Room
  <2>4. outLock \in Writer \cup {Uart, None}
    BY DEF TtyInv, Threads
  <2> QED
    BY <2>1, <2>2, <2>3, <2>4 DEF Tty!TypeOK
<1>3. Tty!ConsoleAwake
  <2>1. inR = inW <=> line = <<>>
    <3>1. Gap(inR, inW) = 0 <=> inR = inW
      BY Gaps DEF TtyInv, Keys
    <3> QED
      BY <3>1, EmptySeq DEF TtyInv, Typed, Keys
  <2>2. Tty!Distance(inR, inE) = Gap(inR, inE)
    BY Gaps DEF TtyInv, Keys
  <2>3. \A t \in Reader : at[t] = "asleep" => inR = inW
    BY <2>1 DEF TtyInv, Reading
  <2>4. Tty!Distance(inR, inE) = INPUT_BUF_SIZE => inR # inW
    BY <2>1, <2>2 DEF TtyInv, Typed, Room
  <2> QED
    BY <2>3, <2>4 DEF Tty!ConsoleAwake, TtyInv, Sending
<1> QED
  BY <1>1, <1>2, <1>3 DEF TypedIsRead, Tty!TypedIsRead

(* What consoleread() does in one go: it takes d characters, and only      *)
(* sleeps when these are all and not enough.                               *)
LEMMA ReadDoes ==
  ASSUME Keys, Typed, NEW t \in Reader, NEW n \in 1 .. MaxRead, NEW all \in BOOLEAN,
         Tty!ReadLine(t, n, all)
  PROVE  \E d \in 0 .. Len(line), x \in {"idle", "asleep"} :
           /\ d <= n /\ (x = "asleep" => d = Len(line) /\ d < n)
           /\ at' = [at EXCEPT ![t] = x]
           /\ inR' = (inR + d) % INDEX_WRAP /\ line' = SubSeq(line, d + 1, Len(line))
           /\ left' = [left EXCEPT ![t] = IF at'[t] = "idle" THEN 0 ELSE n - d]
           /\ first' = [first EXCEPT ![t] = at'[t] = "idle" \/ (all /\ d = 0)]
           /\ dead' = dead \ {t}
           /\ UNCHANGED <<inBuf, inW, inE, draft, outR, outW, rx, busy, txIrq, outLock>>
<1>1. PICK s : s = Tty!Ring(inR, inW)
  OBVIOUS
<1>2. s = line
  BY <1>1, RingIs DEF Typed, Keys
<1>3. PICK m : m = Tty!Min({n} \cup {k \in 1 .. Len(s) : s[k] \in {"newline", "eof"}})
  OBVIOUS
<1>4. Len(s) \in Nat
  BY <1>2 DEF Keys
<1>5. m \in 1 .. n
  <2>1. PICK S : S = {n} \cup {k \in 1 .. Len(s) : s[k] \in {"newline", "eof"}}
    OBVIOUS
  <2>2. S \in SUBSET Nat /\ n \in S /\ \A k \in S : 1 <= k
    BY <2>1, <1>4, Sizes
  <2>3. Tty!Min(S) \in S /\ Tty!Min(S) <= n
    BY <2>2, Smallest
  <2> QED
    BY <1>3, <2>1, <2>2, <2>3
<1>6. PICK found \in BOOLEAN : found <=> m <= Len(s)
  OBVIOUS
<1>7. PICK kept \in BOOLEAN : kept <=> found /\ s[m] = "eof" /\ ~(all /\ m = 1)
  OBVIOUS
<1>8. PICK d : d = IF kept THEN m - 1 ELSE Tty!Min({m, Len(s)})
  OBVIOUS
<1>9. PICK x : x = IF found \/ t \in dead THEN "idle" ELSE "asleep"
  OBVIOUS
<1>10. /\ at' = [at EXCEPT ![t] = x]
       /\ inR' = (inR + d) % INDEX_WRAP /\ line' = SubSeq(line, d + 1, Len(line))
       /\ left' = [left EXCEPT ![t] = IF at'[t] = "idle" THEN 0 ELSE n - d]
       /\ first' = [first EXCEPT ![t] = at'[t] = "idle" \/ (all /\ d = 0)]
       /\ dead' = dead \ {t}
       /\ UNCHANGED <<inBuf, inW, inE, draft, outR, outW, rx, busy, txIrq, outLock>>
  BY <1>1, <1>3, <1>6, <1>7, <1>8, <1>9
     DEF Tty!ReadLine, Tty!Goto, Tty!sending, Tty!device
<1>11. d \in 0 .. Len(s) /\ d <= n /\ (~found => d = Len(s) /\ d < n)
  <2>1. CASE kept
    BY <1>4, <1>5, <1>6, <1>7, <1>8, <2>1
  <2>2. CASE ~kept
    <3>1. Tty!Min({m, Len(s)}) \in {m, Len(s)} /\ Tty!Min({m, Len(s)}) <= m /\ Tty!Min({m, Len(s)}) <= Len(s)
      BY <1>4, <1>5, Smallest
    <3> QED
      BY <1>4, <1>5, <1>6, <1>8, <2>2, <3>1
  <2> QED
    BY <2>1, <2>2
<1>12. x \in {"idle", "asleep"} /\ (x = "asleep" => ~found)
  BY <1>9
<1>13. d \in 0 .. Len(line) /\ d <= n /\ (x = "asleep" => d = Len(line) /\ d < n)
  BY <1>2, <1>11, <1>12
<1> QED
  BY <1>10, <1>12, <1>13

(***************************************************************************)
(* How the indices move: the one that reads, the one that is typed at, and *)
(* back.                                                                   *)
(***************************************************************************)
LEMMA Turns ==
  ASSUME NEW k \in Nat, NEW x \in {k, k + INDEX_WRAP} PROVE x % Room = k % Room
<1>1. PICK K \in Nat : INDEX_WRAP = Room * K
  BY Sizes
<1>2. (Room * K + k) % Room = k % Room
  BY Sizes, Round
<1>3. k + INDEX_WRAP = Room * K + k
  BY <1>1, Sizes
<1> QED
  BY <1>2, <1>3

LEMMA Advanced ==
  ASSUME NEW i \in 0 .. INDEX_WRAP - 1, NEW j \in 0 .. INDEX_WRAP - 1, NEW d \in 0 .. Gap(i, j)
  PROVE  /\ (i + d) % INDEX_WRAP \in 0 .. INDEX_WRAP - 1
         /\ Gap((i + d) % INDEX_WRAP, j) = Gap(i, j) - d
         /\ \A k \in Nat : (((i + d) % INDEX_WRAP) + k) % Room = (i + d + k) % Room
<1>1. Gap(i, j) \in 0 .. INDEX_WRAP - 1 /\ d \in 0 .. INDEX_WRAP - 1
  BY Gaps, Sizes
<1>2. PICK x : x = (i + d) % INDEX_WRAP
  OBVIOUS
<1>3. /\ i + d < INDEX_WRAP => x = i + d
      /\ i + d >= INDEX_WRAP => x = i + d - INDEX_WRAP
      /\ x \in 0 .. INDEX_WRAP - 1
  BY <1>1, <1>2, Sizes, After
<1>4. /\ j >= i => Gap(i, j) = j - i
      /\ j < i => Gap(i, j) = j + INDEX_WRAP - i
  BY Gaps
<1>5. /\ j >= x => Gap(x, j) = j - x
      /\ j < x => Gap(x, j) = j + INDEX_WRAP - x
  BY <1>3, Gaps
<1>6. Gap(x, j) = Gap(i, j) - d
  BY <1>1, <1>3, <1>4, <1>5, Sizes
<1>7. ASSUME NEW k \in Nat PROVE (x + k) % Room = (i + d + k) % Room
  <2>1. x + k \in Nat /\ (i + d + k = x + k \/ i + d + k = (x + k) + INDEX_WRAP)
    BY <1>1, <1>3, Sizes
  <2> QED
    BY <2>1, Turns
<1> QED
  BY <1>2, <1>3, <1>6, <1>7

LEMMA Grown ==
  ASSUME NEW i \in 0 .. INDEX_WRAP - 1, NEW j \in 0 .. INDEX_WRAP - 1, Gap(i, j) + 1 < INDEX_WRAP
  PROVE  (j + 1) % INDEX_WRAP \in 0 .. INDEX_WRAP - 1 /\ Gap(i, (j + 1) % INDEX_WRAP) = Gap(i, j) + 1
<1>1. Gap(i, j) \in 0 .. INDEX_WRAP - 1 /\ 1 \in 0 .. INDEX_WRAP - 1
  BY Gaps, Sizes
<1>2. PICK y : y = (j + 1) % INDEX_WRAP
  OBVIOUS
<1>3. /\ j + 1 < INDEX_WRAP => y = j + 1
      /\ j + 1 >= INDEX_WRAP => y = j + 1 - INDEX_WRAP
      /\ y \in 0 .. INDEX_WRAP - 1
  BY <1>1, <1>2, Sizes, After
<1>4. /\ j >= i => Gap(i, j) = j - i
      /\ j < i => Gap(i, j) = j + INDEX_WRAP - i
      /\ y >= i => Gap(i, y) = y - i
      /\ y < i => Gap(i, y) = y + INDEX_WRAP - i
  BY <1>3, Gaps
<1>5. Gap(i, y) = Gap(i, j) + 1
  BY <1>1, <1>3, <1>4, Sizes
<1> QED
  BY <1>2, <1>3, <1>5

LEMMA Shrunk ==
  ASSUME NEW i \in 0 .. INDEX_WRAP - 1, NEW j \in 0 .. INDEX_WRAP - 1, i # j
  PROVE  /\ (j + INDEX_WRAP - 1) % INDEX_WRAP \in 0 .. INDEX_WRAP - 1
         /\ Gap(i, (j + INDEX_WRAP - 1) % INDEX_WRAP) = Gap(i, j) - 1
<1>1. INDEX_WRAP - 1 \in 0 .. INDEX_WRAP - 1 /\ j + (INDEX_WRAP - 1) = j + INDEX_WRAP - 1
  BY Sizes
<1>2. PICK y : y = (j + INDEX_WRAP - 1) % INDEX_WRAP
  OBVIOUS
<1>3. /\ j + (INDEX_WRAP - 1) < INDEX_WRAP => y = j + INDEX_WRAP - 1
      /\ j + (INDEX_WRAP - 1) >= INDEX_WRAP => y = j + INDEX_WRAP - 1 - INDEX_WRAP
      /\ y \in 0 .. INDEX_WRAP - 1
  <2>1. PICK v \in 0 .. INDEX_WRAP - 1 : v = INDEX_WRAP - 1
    BY <1>1
  <2>2. /\ j + v < INDEX_WRAP => (j + v) % INDEX_WRAP = j + v
        /\ j + v >= INDEX_WRAP => (j + v) % INDEX_WRAP = j + v - INDEX_WRAP
        /\ (j + v) % INDEX_WRAP \in 0 .. INDEX_WRAP - 1
    BY Sizes, After
  <2>3. j + v = j + INDEX_WRAP - 1
    BY <2>1, Sizes
  <2> QED
    BY <1>1, <1>2, <2>1, <2>2, <2>3
<1>4. /\ j >= i => Gap(i, j) = j - i
      /\ j < i => Gap(i, j) = j + INDEX_WRAP - i
      /\ y >= i => Gap(i, y) = y - i
      /\ y < i => Gap(i, y) = y + INDEX_WRAP - i
  BY <1>3, Gaps
<1>5. Gap(i, y) = Gap(i, j) - 1
  BY <1>3, <1>4, Sizes
<1> QED
  BY <1>2, <1>3, <1>5

LEMMA Meets ==
  ASSUME NEW i \in 0 .. INDEX_WRAP - 1, NEW j \in 0 .. INDEX_WRAP - 1, NEW k \in Nat
  PROVE  (i + Gap(i, j) + k) % Room = (j + k) % Room
<1>1. Gap(i, j) \in 0 .. INDEX_WRAP - 1
  BY Gaps
<1>2. i + Gap(i, j) = j \/ i + Gap(i, j) = j + INDEX_WRAP
  <2>1. PICK g \in Nat : g = Gap(i, j)
    BY <1>1
  <2>2. (j >= i => g = j - i) /\ (j < i => g = j + INDEX_WRAP - i)
    BY <2>1, Gaps
  <2>3. i + g = j \/ i + g = j + INDEX_WRAP
    BY <2>2, Sizes
  <2> QED
    BY <2>1, <2>3
<1>3. PICK x : x = i + Gap(i, j) + k
  OBVIOUS
<1>4. j + k \in Nat /\ x \in {j + k, (j + k) + INDEX_WRAP}
  BY <1>2, <1>3, Sizes
<1>5. x % Room = (j + k) % Room
  BY <1>4, Turns
<1> QED
  BY <1>3, <1>5

(***************************************************************************)
(* What the steps do to the ring.                                          *)
(***************************************************************************)
LEMMA RingRead ==
  ASSUME Keys, Typed, NEW d \in 0 .. Len(line),
         inR' = (inR + d) % INDEX_WRAP, line' = SubSeq(line, d + 1, Len(line)),
         UNCHANGED <<inBuf, inW, inE, draft>>
  PROVE  Keys' /\ Typed' /\ Len(line') = Len(line) - d
<1>1. Len(line) \in Nat /\ line \in Seq(Tty!Char)
  BY DEF Keys
<1>2. /\ line' \in Seq(Tty!Char) /\ Len(line') = Len(line) - d
      /\ \A k \in 1 .. Len(line) - d : line'[k] = line[d + k]
  BY <1>1
<1>3. /\ inR' \in 0 .. INDEX_WRAP - 1 /\ Gap(inR', inW) = Gap(inR, inW) - d
      /\ \A k \in Nat : (inR' + k) % Room = (inR + d + k) % Room
  BY Advanced DEF Keys, Typed
<1>4. Gap(inR', inE) = Gap(inR, inE) - d
  <2>1. d \in 0 .. Gap(inR, inE)
    BY <1>1 DEF Typed, Keys
  <2> QED
    BY <2>1, Advanced DEF Keys
<1>5. Keys'
  BY <1>2, <1>3 DEF Keys
<1>6. Stored(line, inR)'
  <2>1. ASSUME NEW k \in 1 .. Len(line') PROVE line'[k] = inBuf[(inR' + k - 1) % Room]
    <3>1. d + k \in 1 .. Len(line) /\ k \in 1 .. Len(line) - d /\ k - 1 \in Nat
      BY <1>1, <1>2
    <3>2. line'[k] = inBuf[(inR + (d + k) - 1) % Room]
      BY <1>2, <3>1 DEF Typed, Stored
    <3>3. (inR' + (k - 1)) % Room = (inR + d + (k - 1)) % Room
      BY <1>3, <3>1
    <3>4. inR' + (k - 1) = inR' + k - 1 /\ inR + d + (k - 1) = inR + (d + k) - 1
      BY <1>3, <3>1 DEF Keys
    <3> QED
      BY <3>2, <3>3, <3>4
  <2> QED
    BY <2>1 DEF Stored
<1>7. Gap(inR', inE) = Room => line' # <<>>
  <2>1. ASSUME Gap(inR', inE) = Room PROVE d = 0 /\ line # <<>>
    BY <1>1, <1>4, <2>1, Sizes DEF Typed, Keys
  <2>2. ASSUME d = 0 PROVE line' = line
    BY <1>1, <2>2
  <2> QED
    BY <2>1, <2>2
<1>8. Stored(draft, inW)'
  BY DEF Typed, Stored
<1>9. Typed'
  <2>1. Gap(inR, inW)' = Gap(inR', inW) /\ Gap(inW, inE)' = Gap(inW, inE) /\ Gap(inR, inE)' = Gap(inR', inE)
    BY DEF Gap
  <2>2. Len(draft) \in Nat
    BY DEF Keys
  <2>3. Gap(inR', inE) <= Room /\ Len(line') + Len(draft) = Gap(inR', inE)
    <3>1. Gap(inR, inE) \in Nat /\ Gap(inR, inE) = Len(line) + Len(draft) /\ Gap(inR, inE) <= Room
      BY <1>1, <2>2 DEF Typed
    <3> QED
      BY <1>1, <1>2, <1>4, <2>2, <3>1, Sizes
  <2> QED
    BY <1>1, <1>2, <1>3, <1>6, <1>7, <1>8, <2>1, <2>3 DEF Typed
<1> QED
  BY <1>2, <1>5, <1>9

LEMMA RingErased ==
  ASSUME Keys, Typed, inE # inW, inE' = (inE + INDEX_WRAP - 1) % INDEX_WRAP,
         draft' = SubSeq(draft, 1, Len(draft) - 1), UNCHANGED <<inBuf, inR, inW, line>>
  PROVE  Keys' /\ Typed'
<1>1. Len(draft) \in Nat /\ Len(draft) # 0 /\ Len(line) \in Nat /\ draft \in Seq(Tty!Char)
  BY Gaps DEF Keys, Typed
<1>2. /\ draft' \in Seq(Tty!Char) /\ Len(draft') = Len(draft) - 1
      /\ \A k \in 1 .. Len(draft) - 1 : draft'[k] = draft[k]
  <2>1. PICK n \in Nat : n = Len(draft) - 1
    BY SMTT(60), <1>1
  <2>2. n <= Len(draft) /\ draft' = SubSeq(draft, 1, n)
    BY <1>1, <2>1
  <2>3. /\ draft' \in Seq(Tty!Char) /\ Len(draft') = n
        /\ \A k \in 1 .. n : draft'[k] = draft[k]
    BY <1>1, <2>2
  <2> QED
    BY <2>1, <2>3
<1>3. inR # inE
  <2>1. Gap(inR, inE) # 0
    BY <1>1 DEF Typed
  <2> QED
    BY <2>1, Gaps DEF Keys
<1>4. /\ inE' \in 0 .. INDEX_WRAP - 1
      /\ Gap(inW, inE') = Gap(inW, inE) - 1 /\ Gap(inR, inE') = Gap(inR, inE) - 1
  BY <1>3, Shrunk DEF Keys
<1>5. Keys'
  BY <1>2, <1>4 DEF Keys
<1>6. Stored(draft, inW)' /\ \A k \in 1 .. Len(draft') : draft'[k] = "a"
  <2>1. ASSUME NEW k \in 1 .. Len(draft')
        PROVE  draft'[k] = inBuf[(inW + k - 1) % Room] /\ draft'[k] = "a"
    <3>1. k \in 1 .. Len(draft) /\ k \in 1 .. Len(draft) - 1
      BY <1>1, <1>2
    <3> QED
      BY <1>2, <3>1 DEF Typed, Stored
  <2> QED
    BY <2>1 DEF Stored
<1>7. Typed'
  <2>1. Gap(inR, inW)' = Gap(inR, inW) /\ Gap(inW, inE)' = Gap(inW, inE') /\ Gap(inR, inE)' = Gap(inR, inE')
    BY DEF Gap
  <2>2. Gap(inR, inE) \in Nat
    BY <1>1 DEF Typed
  <2>3. /\ Gap(inR, inE') <= Room /\ Gap(inR, inE') # Room
        /\ Len(line') + Len(draft') = Gap(inR, inE') /\ Len(draft') = Gap(inW, inE')
    BY <1>1, <1>2, <1>4, <2>2, Sizes DEF Typed
  <2>4. Stored(line, inR)'
    BY DEF Typed, Stored
  <2> QED
    BY <1>6, <2>1, <2>3, <2>4 DEF Typed
<1> QED
  BY <1>5, <1>7

(* C('U') erases all that is not committed: no end of a line is there.     *)
LEMMA RingKilled ==
  ASSUME Keys, Typed, Tty!KillLine, draft' = <<>>, UNCHANGED <<inBuf, inR, inW, line>>
  PROVE  Keys' /\ Typed'
<1>1. PICK s : s = Tty!Ring(inW, inE)
  OBVIOUS
<1>2. s = draft
  BY <1>1, RingIs DEF Typed, Keys
<1>3. PICK m : m = Tty!Max({0} \cup {k \in 1 .. Len(s) : s[k] = "newline"})
  OBVIOUS
<1>4. inE' = (inW + m) % INDEX_WRAP
  BY <1>1, <1>3 DEF Tty!KillLine
<1>5. m = 0
  <2>1. {k \in 1 .. Len(s) : s[k] = "newline"} = {}
    BY <1>2 DEF Typed
  <2>2. {0} \cup {k \in 1 .. Len(s) : s[k] = "newline"} = {0}
    BY <2>1
  <2>3. m = Tty!Max({0})
    BY <1>3, <2>2
  <2> QED
    BY <2>3 DEF Tty!Max
<1>6. inE' = inW
  <2>1. inW + m = inW /\ inW \in 0 .. INDEX_WRAP - 1 /\ inW \in Nat /\ inW < INDEX_WRAP
    BY <1>5, Sizes DEF Keys
  <2>2. inW % INDEX_WRAP = inW
    BY <2>1, Sizes
  <2> QED
    BY <1>4, <2>1, <2>2
<1>7. Keys'
  BY <1>6 DEF Keys
<1>8. Typed'
  <2>1. Gap(inR, inW)' = Gap(inR, inW) /\ Gap(inW, inE)' = 0 /\ Gap(inR, inE)' = Gap(inR, inW)
    BY <1>6, Gaps DEF Gap, Keys
  <2>2. Len(line) \in Nat /\ Len(draft) \in Nat /\ Len(draft') = 0
    BY DEF Keys
  <2>3. Gap(inR, inW) <= Room /\ Len(line') + Len(draft') = Gap(inR, inW)
    BY <2>2, Sizes DEF Typed
  <2>4. Gap(inR, inW) = Room => line' # <<>>
    BY <2>2, Sizes, EmptySeq DEF Typed
  <2>5. Stored(line, inR)' /\ Stored(draft, inW)'
    BY <2>2 DEF Typed, Stored
  <2> QED
    BY <2>1, <2>2, <2>3, <2>4, <2>5 DEF Typed
<1> QED
  BY <1>7, <1>8

(* Where the next character goes, nothing is stored.                       *)
LEMMA FreePlace ==
  ASSUME Keys, NEW i \in 0 .. INDEX_WRAP - 1, Gap(i, inE) < Room, NEW k \in 1 .. Gap(i, inE)
  PROVE  (i + k - 1) % Room # inE % Room
<1>1. PICK g \in Nat : g = Gap(i, inE)
  BY Gaps DEF Keys
<1>2. PICK a \in Nat : a = i + k - 1
  BY <1>1
<1>3. PICK d \in 1 .. Room - 1 : d = g - (k - 1)
  BY <1>1, Sizes
<1>4. (a + d) % Room # a % Room
  BY Sizes, Places
<1>5. a + d = i + g + 0 /\ inE + 0 = inE
  BY <1>1, <1>2, <1>3 DEF Keys
<1>6. (i + g + 0) % Room = (inE + 0) % Room
  BY <1>1, Meets DEF Keys
<1> QED
  BY <1>2, <1>4, <1>5, <1>6

LEMMA RingStored ==
  ASSUME Keys, Typed, NEW c \in Tty!Char, Gap(inR, inE) < Room,
         inBuf' = [inBuf EXCEPT ![inE % Room] = c], inE' = (inE + 1) % INDEX_WRAP, inR' = inR,
         \/ inW' = inE' /\ line' = line \o Append(draft, c) /\ draft' = <<>>
         \/ /\ c = "a" /\ Gap(inR, inE') # Room
            /\ draft' = Append(draft, c) /\ inW' = inW /\ line' = line
  PROVE  Keys' /\ Typed'
<1>1. PICK n \in Nat, m \in Nat : n = Len(line) /\ m = Len(draft)
  BY DEF Keys
<1>2. /\ Gap(inR, inW) = n /\ Gap(inW, inE) = m /\ Gap(inR, inE) = n + m
      /\ n + m + 1 <= Room /\ n + m < Room /\ m < Room
  BY <1>1, Sizes DEF Typed
<1>3. inE' \in 0 .. INDEX_WRAP - 1 /\ Gap(inR, inE') = n + m + 1 /\ Gap(inW, inE') = m + 1
  <2>1. n + m + 1 < INDEX_WRAP /\ m + 1 < INDEX_WRAP
    <3>1. Room \in Nat /\ INDEX_WRAP \in Nat /\ Room < INDEX_WRAP
      BY Sizes
    <3> QED
      BY <1>2, <3>1
  <2>2. Gap(inR, inE) + 1 < INDEX_WRAP /\ Gap(inW, inE) + 1 < INDEX_WRAP
    BY <1>2, <2>1
  <2>3. inE' \in 0 .. INDEX_WRAP - 1 /\ Gap(inR, inE') = Gap(inR, inE) + 1
    BY <2>2, Grown DEF Keys
  <2>4. Gap(inW, inE') = Gap(inW, inE) + 1
    BY <2>2, Grown DEF Keys
  <2> QED
    BY <1>2, <2>3, <2>4
<1>4. inE % Room \in 0 .. Room - 1 /\ inBuf' \in [0 .. Room - 1 -> Tty!Char]
  BY Sizes DEF Keys
<1>5. ASSUME NEW i \in 0 .. INDEX_WRAP - 1, NEW k \in 1 .. Gap(i, inE), Gap(i, inE) < Room
      PROVE  inBuf'[(i + k - 1) % Room] = inBuf[(i + k - 1) % Room]
  <2>1. Gap(i, inE) \in Nat
    BY Gaps DEF Keys
  <2>2. PICK x \in Nat : x = i + k - 1
    BY <2>1
  <2>3. x % Room \in 0 .. Room - 1
    BY <2>2, Sizes
  <2>4. x % Room # inE % Room
    BY <1>5, <2>2, FreePlace
  <2> QED
    BY <2>2, <2>3, <2>4 DEF Keys
<1>6. ASSUME NEW k \in 1 .. n PROVE line[k] = inBuf'[(inR + k - 1) % Room]
  <2>1. k \in 1 .. Gap(inR, inE)
    BY <1>2
  <2>2. inBuf'[(inR + k - 1) % Room] = inBuf[(inR + k - 1) % Room]
    BY <1>2, <1>5, <2>1 DEF Keys
  <2> QED
    BY <1>1, <2>2 DEF Typed, Stored
<1>7. ASSUME NEW k \in 1 .. m PROVE draft[k] = inBuf'[(inW + k - 1) % Room]
  <2>1. inBuf'[(inW + k - 1) % Room] = inBuf[(inW + k - 1) % Room]
    BY <1>2, <1>5 DEF Keys
  <2> QED
    BY <1>1, <2>1 DEF Typed, Stored
<1>8. inBuf'[inE % Room] = c
  BY <1>4 DEF Keys
<1>9. (inW + m) % Room = inE % Room /\ (inR + (n + m)) % Room = inE % Room
  <2>3. (inW + Gap(inW, inE) + 0) % Room = (inE + 0) % Room
    BY Meets DEF Keys
  <2>4. (inR + Gap(inR, inE) + 0) % Room = (inE + 0) % Room
    BY Meets DEF Keys
  <2>1. (inW + m + 0) % Room = (inE + 0) % Room /\ (inR + (n + m) + 0) % Room = (inE + 0) % Room
    BY <1>2, <2>3, <2>4
  <2>2. inW + m + 0 = inW + m /\ inR + (n + m) + 0 = inR + (n + m) /\ inE + 0 = inE
    BY DEF Keys
  <2> QED
    BY <2>1, <2>2
<1>10. PICK s : s = Append(draft, c)
  OBVIOUS
<1>11. /\ s \in Seq(Tty!Char) /\ Len(s) = m + 1 /\ s[m + 1] = c
       /\ \A k \in 1 .. m : s[k] = draft[k]
  BY <1>1, <1>10 DEF Keys
<1>12. CASE c = "a" /\ Gap(inR, inE') # Room /\ draft' = s /\ inW' = inW /\ line' = line
  <2>1. Keys'
    BY <1>3, <1>4, <1>11, <1>12 DEF Keys
  <2>2. Stored(line, inR)'
    BY <1>1, <1>6, <1>12 DEF Stored
  <2>3. ASSUME NEW k \in 1 .. m + 1 PROVE s[k] = inBuf'[(inW + k - 1) % Room] /\ s[k] = "a"
    <3>1. CASE k = m + 1
      <4>1. inW + k - 1 = inW + m
        BY <3>1 DEF Keys
      <4> QED
        BY <1>8, <1>9, <1>11, <1>12, <3>1, <4>1
    <3>2. CASE k \in 1 .. m
      BY <1>1, <1>7, <1>11, <3>2 DEF Typed
    <3> QED
      BY <3>1, <3>2
  <2>4. Stored(draft, inW)' /\ \A k \in 1 .. Len(draft') : draft'[k] = "a"
    BY <1>11, <1>12, <2>3 DEF Stored
  <2>5. Gap(inR, inW)' = n /\ Gap(inW, inE)' = m + 1 /\ Gap(inR, inE)' = n + m + 1
    BY <1>2, <1>3, <1>12 DEF Gap
  <2>6. Gap(inR, inE)' # Room
    BY <1>12 DEF Gap
  <2> QED
    BY <1>1, <1>2, <1>11, <1>12, <2>1, <2>2, <2>4, <2>5, <2>6 DEF Typed
<1>13. CASE inW' = inE' /\ line' = line \o s /\ draft' = <<>>
  <2>1. PICK v : v = line \o s
    OBVIOUS
  <2>2. /\ v \in Seq(Tty!Char) /\ Len(v) = n + m + 1
        /\ \A k \in 1 .. n : v[k] = line[k]
        /\ \A k \in n + 1 .. n + m + 1 : v[k] = s[k - n]
    <3>1. line \in Seq(Tty!Char) /\ s \in Seq(Tty!Char)
      BY <1>11 DEF Keys
    <3>2. /\ v \in Seq(Tty!Char) /\ Len(v) = Len(line) + Len(s)
          /\ \A k \in 1 .. Len(line) + Len(s) : v[k] = IF k <= Len(line) THEN line[k] ELSE s[k - Len(line)]
      BY <2>1, <3>1, ConcatProperties
    <3>3. \A k \in 1 .. n + (m + 1) : v[k] = IF k <= n THEN line[k] ELSE s[k - n]
      BY <1>1, <1>11, <3>2
    <3>4. n + (m + 1) = n + m + 1
      OBVIOUS
    <3> QED
      BY <1>1, <1>11, <3>2, <3>3, <3>4
  <2>3. Keys'
    BY <1>3, <1>4, <1>13, <2>1, <2>2 DEF Keys
  <2>4. ASSUME NEW k \in 1 .. n + m + 1 PROVE v[k] = inBuf'[(inR + k - 1) % Room]
    <3>1. CASE k \in 1 .. n
      BY <1>6, <2>2, <3>1
    <3>2. CASE k \in n + 1 .. n + m
      <4>1. PICK j \in 1 .. m : j = k - n
        BY <3>2
      <4>2. v[k] = s[j] /\ s[j] = draft[j] /\ draft[j] = inBuf'[(inW + j - 1) % Room]
        BY <1>7, <1>11, <2>2, <3>2, <4>1
      <4>3. (inR + n + (j - 1)) % Room = (inW + (j - 1)) % Room
        <5>1. j - 1 \in Nat
          OBVIOUS
        <5>2. (inR + Gap(inR, inW) + (j - 1)) % Room = (inW + (j - 1)) % Room
          BY <5>1, Meets DEF Keys
        <5> QED
          BY <1>2, <5>2
      <4>4. inR + n + (j - 1) = inR + k - 1 /\ inW + (j - 1) = inW + j - 1
        BY <4>1 DEF Keys
      <4> QED
        BY <4>2, <4>3, <4>4
    <3>3. CASE k = n + m + 1
      <4>1. v[k] = c
        BY <1>11, <2>2, <3>3
      <4>2. inR + k - 1 = inR + (n + m)
        BY <3>3 DEF Keys
      <4> QED
        BY <1>8, <1>9, <4>1, <4>2
    <3> QED
      BY <3>1, <3>2, <3>3
  <2>5. Stored(line, inR)'
    BY <1>13, <2>1, <2>2, <2>4 DEF Stored
  <2>6. Gap(inR, inW)' = n + m + 1 /\ Gap(inW, inE)' = 0 /\ Gap(inR, inE)' = n + m + 1
    <3>1. Gap(inE', inE') = 0
      BY <1>3, Gaps
    <3> QED
      BY <1>3, <1>13, <3>1 DEF Gap
  <2>7. line' # <<>> /\ Len(line') = n + m + 1 /\ Len(draft') = 0
    BY <1>13, <2>1, <2>2
  <2>8. Stored(draft, inW)' /\ \A k \in 1 .. Len(draft') : draft'[k] = "a"
    BY <2>7 DEF Stored
  <2> QED
    BY <1>2, <2>3, <2>5, <2>6, <2>7, <2>8 DEF Typed
<1> QED
  BY <1>10, <1>12, <1>13

(***************************************************************************)
(* What the steps do to those who wait.                                    *)
(***************************************************************************)
LEMMA Names ==
  /\ Reader \cap Writer = {} /\ Uart \notin Reader /\ Uart \notin Writer /\ None # Uart
  /\ None \notin Reader /\ None \notin Writer /\ Killable \subseteq Reader
BY ConsoleConstants DEF Tty!ConsoleAssumption

LEMMA InputKept ==
  ASSUME Keys, Typed, UNCHANGED Tty!input PROVE Keys' /\ Typed'
BY DEF Keys, Typed, Stored, Gap, Tty!input

LEMMA ReadingKept ==
  ASSUME Reading, line' = line, UNCHANGED Tty!reading, \A t \in Reader : at'[t] = at[t]
  PROVE  Reading'
BY DEF Reading, Tty!reading

LEMMA Reads ==
  ASSUME TtyInv, NEW t \in Reader, at[t] \in {"idle", "woken"},
         NEW n \in 1 .. MaxRead, NEW all \in BOOLEAN, Tty!ReadLine(t, n, all)
  PROVE  TtyInv'
<1>1. PICK d \in 0 .. Len(line), x \in {"idle", "asleep"} :
           /\ d <= n /\ (x = "asleep" => d = Len(line) /\ d < n)
           /\ at' = [at EXCEPT ![t] = x]
           /\ inR' = (inR + d) % INDEX_WRAP /\ line' = SubSeq(line, d + 1, Len(line))
           /\ left' = [left EXCEPT ![t] = IF at'[t] = "idle" THEN 0 ELSE n - d]
           /\ first' = [first EXCEPT ![t] = at'[t] = "idle" \/ (all /\ d = 0)]
           /\ dead' = dead \ {t}
           /\ UNCHANGED <<inBuf, inW, inE, draft, outR, outW, rx, busy, txIrq, outLock>>
  BY ReadDoes DEF TtyInv
<1>2. Keys' /\ Typed' /\ Len(line') = Len(line) - d
  BY <1>1, RingRead DEF TtyInv
<1>3. /\ at'[t] = x /\ \A u \in Reader \cup Writer \cup {Uart} : u # t => at'[u] = at[u]
      /\ at' \in [Reader \cup Writer \cup {Uart} -> {"idle", "asleep", "woken", "start", "getc"}]
  BY <1>1 DEF TtyInv, Threads
<1>4. Threads'
  BY <1>1, <1>3, Names DEF TtyInv, Threads
<1>5. Reading'
  <2>1. Len(line) \in Nat /\ line' \in Seq(Tty!Char)
    BY <1>2 DEF TtyInv, Keys
  <2>2. left' \in [Reader -> 0 .. MaxRead] /\ (x # "idle" => left'[t] # 0)
    <3>1. CASE x = "idle"
      BY <1>1, <1>3, <3>1, Sizes DEF TtyInv, Reading
    <3>2. CASE x = "asleep"
      <4>1. PICK j \in 1 .. MaxRead : j = n - d
        BY <1>1, <2>1, <3>2, Sizes
      <4>2. left' = [left EXCEPT ![t] = j]
        BY <1>1, <1>3, <3>2, <4>1
      <4> QED
        BY <4>2 DEF TtyInv, Reading
    <3> QED
      BY <3>1, <3>2
  <2>3. first' \in [Reader -> BOOLEAN]
    <3>1. PICK b \in BOOLEAN : b = (at'[t] = "idle" \/ (all /\ d = 0))
      OBVIOUS
    <3>2. first' = [first EXCEPT ![t] = b]
      BY <1>1, <3>1
    <3> QED
      BY <3>2 DEF TtyInv, Reading
  <2>4. ASSUME NEW u \in Reader, at'[u] = "asleep" PROVE line' = <<>>
    <3>1. CASE u = t
      <4>1. Len(line') = 0
        BY <1>1, <1>2, <1>3, <2>1, <2>4, <3>1
      <4> QED
        BY <2>1, <4>1, EmptySeq
    <3>2. CASE u # t
      <4>1. line = <<>>
        BY <1>3, <2>4, <3>2 DEF TtyInv, Reading
      <4>2. Len(line') = 0
        BY <1>1, <1>2, <2>1, <4>1
      <4> QED
        BY <2>1, <4>2, EmptySeq
    <3> QED
      BY <3>1, <3>2
  <2>5. ASSUME NEW u \in Reader, at'[u] # "idle" PROVE left'[u] # 0
    <3>1. CASE u = t
      BY <1>3, <2>2, <2>5, <3>1
    <3>2. CASE u # t
      BY <1>1, <1>3, <2>5, <3>2 DEF TtyInv, Reading
    <3> QED
      BY <3>1, <3>2
  <2>6. dead' \subseteq Reader
    BY <1>1 DEF TtyInv, Reading
  <2> QED
    BY <2>2, <2>3, <2>4, <2>5, <2>6 DEF Reading
<1>6. Sending'
  <2>1. \A u \in Writer \cup {Uart} : at'[u] = at[u]
    BY <1>3, Names
  <2> QED
    BY <1>1, <2>1 DEF TtyInv, Sending, Tty!TxFull
<1> QED
  BY <1>2, <1>4, <1>5, <1>6 DEF TtyInv

LEMMA Kills ==
  ASSUME TtyInv, NEW t \in Killable, Tty!Kill(t) PROVE TtyInv'
<1>1. t \in Reader /\ at[t] = "asleep" /\ at' = [at EXCEPT ![t] = "woken"] /\ dead' = dead \cup {t}
  BY Names DEF Tty!Kill, Tty!Goto
<1>2. UNCHANGED <<Tty!input, left, first, outR, outW, rx, busy, txIrq, outLock>>
  BY DEF Tty!Kill, Tty!sending, Tty!device
<1>3. /\ at'[t] = "woken" /\ \A u \in Reader \cup Writer \cup {Uart} : u # t => at'[u] = at[u]
      /\ at' \in [Reader \cup Writer \cup {Uart} -> {"idle", "asleep", "woken", "start", "getc"}]
  BY <1>1 DEF TtyInv, Threads
<1>4. Keys' /\ Typed'
  BY <1>2, InputKept DEF TtyInv
<1>5. Threads'
  BY <1>1, <1>2, <1>3, Names DEF TtyInv, Threads
<1>6. Reading'
  BY <1>1, <1>2, <1>3 DEF TtyInv, Reading, Tty!input
<1>7. Sending'
  <2>1. \A u \in Writer \cup {Uart} : at'[u] = at[u]
    BY <1>1, <1>3, Names
  <2> QED
    BY <1>2, <2>1 DEF TtyInv, Sending, Tty!TxFull
<1> QED
  BY <1>4, <1>5, <1>6, <1>7 DEF TtyInv

(* A step of the handler or of a writer.                                   *)
LEMMA Moves ==
  ASSUME TtyInv, NEW t \in Writer \cup {Uart}, NEW x \in {"idle", "asleep", "woken", "start", "getc"},
         at' = [at EXCEPT ![t] = x], UNCHANGED <<Tty!input, Tty!reading>>
  PROVE  /\ Keys' /\ Typed' /\ Reading' /\ at'[t] = x
         /\ \A u \in Reader \cup Writer \cup {Uart} : u # t => at'[u] = at[u]
         /\ at' \in [Reader \cup Writer \cup {Uart} -> {"idle", "asleep", "woken", "start", "getc"}]
<1>1. /\ at'[t] = x
      /\ \A u \in Reader \cup Writer \cup {Uart} : u # t => at'[u] = at[u]
      /\ at' \in [Reader \cup Writer \cup {Uart} -> {"idle", "asleep", "woken", "start", "getc"}]
  BY DEF TtyInv, Threads
<1>2. \A u \in Reader : at'[u] = at[u]
  BY <1>1, Names
<1>3. Keys' /\ Typed'
  BY InputKept DEF TtyInv
<1>4. Reading'
  BY <1>2, ReadingKept DEF TtyInv, Tty!input
<1> QED
  BY <1>1, <1>3, <1>4

LEMMA Claims ==
  ASSUME TtyInv, Tty!Interrupt \/ Tty!NoInput PROVE TtyInv'
<1>1. CASE Tty!Interrupt
  <2>1. at[Uart] = "idle" /\ at' = [at EXCEPT ![Uart] = "getc"] /\ txIrq' = FALSE
    BY <1>1 DEF Tty!Interrupt, Tty!Goto
  <2>2. UNCHANGED <<Tty!input, Tty!reading, outR, outW, rx, busy, outLock>>
    BY <1>1 DEF Tty!Interrupt, Tty!sending
  <2>3. /\ Keys' /\ Typed' /\ Reading' /\ at'[Uart] = "getc"
        /\ \A u \in Reader \cup Writer \cup {Uart} : u # Uart => at'[u] = at[u]
        /\ at' \in [Reader \cup Writer \cup {Uart} -> {"idle", "asleep", "woken", "start", "getc"}]
    BY <2>1, <2>2, Moves
  <2>4. Threads'
    BY <2>1, <2>2, <2>3, Names DEF TtyInv, Threads
  <2>5. Sending'
    <3>1. \A u \in Writer : at'[u] = at[u]
      BY <2>3, Names
    <3> QED
      BY <2>1, <2>2, <2>3, <3>1 DEF TtyInv, Sending, Tty!TxFull
  <2> QED
    BY <2>3, <2>4, <2>5 DEF TtyInv
<1>2. CASE Tty!NoInput
  <2>1. /\ at[Uart] = "getc" /\ outLock = None /\ outLock' = Uart
        /\ at' = [at EXCEPT ![Uart] = "start"]
    BY <1>2 DEF Tty!NoInput, Tty!Goto
  <2>2. UNCHANGED <<Tty!input, Tty!reading, outR, outW, rx, busy, txIrq>>
    BY <1>2 DEF Tty!NoInput, Tty!sending, Tty!device
  <2>3. /\ Keys' /\ Typed' /\ Reading' /\ at'[Uart] = "start"
        /\ \A u \in Reader \cup Writer \cup {Uart} : u # Uart => at'[u] = at[u]
        /\ at' \in [Reader \cup Writer \cup {Uart} -> {"idle", "asleep", "woken", "start", "getc"}]
    BY <2>1, <2>2, Moves
  <2>4. Threads'
    BY <2>1, <2>2, <2>3, Names DEF TtyInv, Threads
  <2>5. Sending'
    <3>1. \A u \in Writer : at'[u] = at[u]
      BY <2>3, Names
    <3> QED
      BY <2>1, <2>2, <2>3, <3>1 DEF TtyInv, Sending, Tty!TxFull
  <2> QED
    BY <2>3, <2>4, <2>5 DEF TtyInv
<1> QED
  BY <1>1, <1>2

LEMMA Puts ==
  ASSUME TtyInv, NEW t \in Writer, Tty!Uartputc(t) PROVE TtyInv'
<1>1. at[t] \in {"idle", "woken"} /\ outLock = None
  BY DEF Tty!Uartputc
<1>2. UNCHANGED <<Tty!input, Tty!reading, rx, busy, txIrq, outR>>
  BY DEF Tty!Uartputc, Tty!device, Tty!sending
<1>3. CASE Tty!TxFull /\ at' = [at EXCEPT ![t] = "asleep"] /\ UNCHANGED <<outW, outLock>>
  <2>1. /\ Keys' /\ Typed' /\ Reading' /\ at'[t] = "asleep"
        /\ \A u \in Reader \cup Writer \cup {Uart} : u # t => at'[u] = at[u]
        /\ at' \in [Reader \cup Writer \cup {Uart} -> {"idle", "asleep", "woken", "start", "getc"}]
    BY <1>2, <1>3, Moves
  <2>2. Threads'
    BY <1>1, <1>3, <2>1, Names DEF TtyInv, Threads
  <2>3. Sending'
    <3>1. at'[Uart] = at[Uart] /\ Tty!TxFull'
      BY <1>2, <1>3, <2>1, Names DEF Tty!TxFull
    <3> QED
      BY <1>2, <1>3, <3>1 DEF TtyInv, Sending
  <2> QED
    BY <2>1, <2>2, <2>3 DEF TtyInv
<1>4. CASE /\ ~Tty!TxFull /\ at' = [at EXCEPT ![t] = "start"]
           /\ outLock' = t /\ outW' = (outW + 1) % TX_WRAP
  <2>1. /\ Keys' /\ Typed' /\ Reading' /\ at'[t] = "start"
        /\ \A u \in Reader \cup Writer \cup {Uart} : u # t => at'[u] = at[u]
        /\ at' \in [Reader \cup Writer \cup {Uart} -> {"idle", "asleep", "woken", "start", "getc"}]
    BY <1>2, <1>4, Moves
  <2>2. Threads'
    BY <1>1, <1>4, <2>1, Names DEF TtyInv, Threads
  <2>3. Sending'
    <3>1. \A u \in Writer : at'[u] # "asleep"
      BY <1>4, <2>1, Names DEF TtyInv, Sending
    <3>2. outW' \in 0 .. TX_WRAP - 1
      <4>1. outW \in Nat /\ TX_WRAP \in Nat \ {0}
        BY Sizes DEF TtyInv, Sending
      <4> QED
        BY <1>4, <4>1
    <3>3. outLock' # None
      BY <1>4, Names
    <3> QED
      BY <1>2, <3>1, <3>2, <3>3 DEF TtyInv, Sending
  <2> QED
    BY <2>1, <2>2, <2>3 DEF TtyInv
<1> QED
  BY <1>3, <1>4 DEF Tty!Uartputc, Tty!Goto, Tty!sending

LEMMA Starts ==
  ASSUME TtyInv, NEW t \in Writer \cup {Uart}, Tty!UartStart(t) PROVE TtyInv'
<1>1. at[t] = "start" /\ outLock = t
  BY DEF Tty!UartStart, TtyInv, Threads
<1>2. UNCHANGED <<Tty!input, Tty!reading, rx, txIrq>>
  BY DEF Tty!UartStart
<1>3. CASE /\ outR = outW \/ busy
           /\ at' = [at EXCEPT ![t] = "idle"] /\ outLock' = None /\ UNCHANGED <<outR, outW, busy>>
  <2>1. /\ Keys' /\ Typed' /\ Reading' /\ at'[t] = "idle"
        /\ \A u \in Reader \cup Writer \cup {Uart} : u # t => at'[u] = at[u]
        /\ at' \in [Reader \cup Writer \cup {Uart} -> {"idle", "asleep", "woken", "start", "getc"}]
    BY <1>2, <1>3, Moves
  <2>2. Threads'
    BY <1>1, <1>3, <2>1, Names DEF TtyInv, Threads
  <2>3. Sending'
    <3>1. \A u \in Writer : at'[u] = "asleep" => at[u] = "asleep"
      BY <2>1
    <3>2. outR' # outW' => busy'
      BY <1>3
    <3> QED
      BY <1>2, <1>3, <3>1, <3>2 DEF TtyInv, Sending, Tty!TxFull
  <2> QED
    BY <2>1, <2>2, <2>3 DEF TtyInv
<1>4. CASE /\ outR # outW /\ ~busy /\ busy' = TRUE
           /\ outR' = (outR + 1) % TX_WRAP
           /\ at' = [s \in DOMAIN at |-> IF s \in Writer /\ at[s] = "asleep" THEN "woken" ELSE at[s]]
           /\ UNCHANGED <<outW, outLock>>
  <2>1. /\ at' \in [Reader \cup Writer \cup {Uart} -> {"idle", "asleep", "woken", "start", "getc"}]
        /\ \A u \in Reader \cup {Uart} : at'[u] = at[u]
        /\ \A u \in Writer : at'[u] = IF at[u] = "asleep" THEN "woken" ELSE at[u]
    BY <1>4, Names DEF TtyInv, Threads
  <2>2. Threads'
    BY <1>4, <2>1, Names DEF TtyInv, Threads
  <2>3. Keys' /\ Typed' /\ Reading'
    BY <1>2, <2>1, InputKept, ReadingKept DEF TtyInv, Tty!input
  <2>4. Sending'
    <3>1. \A u \in Writer : at'[u] # "asleep"
      BY <2>1
    <3>2. outR' \in 0 .. TX_WRAP - 1
      <4>1. outR \in Nat /\ TX_WRAP \in Nat \ {0}
        BY Sizes DEF TtyInv, Sending
      <4> QED
        BY <1>4, <4>1
    <3> QED
      BY <1>2, <1>4, <3>1, <3>2 DEF TtyInv, Sending
  <2> QED
    BY <2>2, <2>3, <2>4 DEF TtyInv
<1> QED
  BY <1>3, <1>4 DEF Tty!UartStart, Tty!Goto, Tty!sending

LEMMA Device ==
  ASSUME TtyInv, Tty!Sent \/ Tty!Type PROVE TtyInv'
<1>1. UNCHANGED <<Tty!input, Tty!reading, outR, outW, outLock, at>>
  BY DEF Tty!Sent, Tty!Type, Tty!sending
<1>2. Keys' /\ Typed' /\ Reading' /\ Threads'
  BY <1>1, InputKept, ReadingKept DEF TtyInv, Tty!input, Threads
<1>3. Sending'
  <2>1. CASE Tty!Sent
    BY <1>1, <2>1 DEF Tty!Sent, TtyInv, Sending, Tty!TxFull
  <2>2. CASE Tty!Type
    BY <1>1, <2>2 DEF Tty!Type, TtyInv, Sending, Tty!TxFull
  <2> QED
    BY <2>1, <2>2
<1> QED
  BY <1>2, <1>3 DEF TtyInv

LEMMA Typing ==
  ASSUME TtyInv, NEW c \in Tty!Key, Tty!ConsoleIntr(c) PROVE TtyInv'
<1>1. at[Uart] = "getc" /\ rx' = FALSE /\ inR' = inR
  BY DEF Tty!ConsoleIntr
<1>2. UNCHANGED <<Tty!reading, outR, outW, txIrq, outLock>>
  BY DEF Tty!ConsoleIntr, Tty!sending
<1>3. CASE /\ Keys' /\ Typed' /\ busy' \in BOOLEAN /\ (busy => busy')
           /\ \/ at' = at /\ line' = line
              \/ Tty!WakeReaders
  <2>1. /\ at' \in [Reader \cup Writer \cup {Uart} -> {"idle", "asleep", "woken", "start", "getc"}]
        /\ \A u \in Writer \cup {Uart} : at'[u] = at[u]
    BY <1>3, Names DEF TtyInv, Threads, Tty!WakeReaders
  <2>2. \A u \in Reader : /\ at'[u] \in {"idle", "asleep", "woken"}
                          /\ at'[u] # "idle" => at[u] # "idle"
                          /\ at'[u] = "asleep" => at[u] = "asleep" /\ line' = line
    BY <1>3, Names DEF TtyInv, Threads, Tty!WakeReaders
  <2>3. Threads'
    BY <1>2, <2>1, <2>2 DEF TtyInv, Threads
  <2>4. Reading'
    BY <1>2, <2>2 DEF TtyInv, Reading, Tty!reading
  <2>5. Sending'
    BY <1>1, <1>2, <1>3, <2>1 DEF TtyInv, Sending, Tty!TxFull
  <2> QED
    BY <1>3, <2>3, <2>4, <2>5 DEF TtyInv
<1>4. CASE c \in Tty!Char /\ Tty!Store(c)
  <2>1. CASE /\ Tty!Room /\ Tty!Echo
             /\ inBuf' = [inBuf EXCEPT ![inE % Room] = c] /\ inE' = (inE + 1) % INDEX_WRAP
             /\ \/ inW' = inE' /\ line' = line \o Append(draft, c) /\ draft' = <<>> /\ Tty!WakeReaders
                \/ /\ c \notin {"newline", "eof"} /\ Tty!Distance(inR, inE') # Room
                   /\ draft' = Append(draft, c) /\ UNCHANGED <<inW, line, at>>
    <3>1. Gap(inR, inE) < Room
      BY <2>1, Gaps DEF Tty!Room, TtyInv, Keys, Room
    <3>2. inE' \in 0 .. INDEX_WRAP - 1
      <4>1. Gap(inR, inE) + 1 < INDEX_WRAP
        <5>1. Gap(inR, inE) \in Nat /\ Room \in Nat /\ INDEX_WRAP \in Nat /\ Room < INDEX_WRAP
          BY Gaps, Sizes DEF TtyInv, Keys
        <5> QED
          BY <3>1, <5>1
      <4> QED
        BY <2>1, <4>1, Grown DEF TtyInv, Keys
    <3>3. Tty!Distance(inR, inE') = Gap(inR, inE')
      BY <3>2, Gaps DEF TtyInv, Keys
    <3>4. \/ inW' = inE' /\ line' = line \o Append(draft, c) /\ draft' = <<>>
          \/ /\ c = "a" /\ Gap(inR, inE') # Room
             /\ draft' = Append(draft, c) /\ inW' = inW /\ line' = line
      BY <1>4, <2>1, <3>3 DEF Tty!Char
    <3>5. Keys' /\ Typed'
      BY <1>1, <1>4, <2>1, <3>1, <3>4, RingStored DEF TtyInv
    <3> QED
      BY <1>3, <2>1, <3>5 DEF Tty!Echo
  <2>2. CASE UNCHANGED <<inBuf, inW, inE, line, draft, busy, at>>
    <3>1. Keys' /\ Typed'
      BY <1>1, <2>2, InputKept DEF TtyInv, Tty!input
    <3> QED
      BY <1>3, <2>2, <3>1 DEF TtyInv, Sending
  <2> QED
    BY <1>4, <2>1, <2>2 DEF Tty!Store, Tty!Succ, Room
<1>5. CASE c \notin Tty!Char /\ Tty!Erase(c)
  <2>1. UNCHANGED <<inBuf, inW, line, at>>
    BY <1>5 DEF Tty!Erase
  <2>2. CASE Tty!Echo /\ Tty!KillLine /\ draft' = <<>>
    <3>1. Keys' /\ Typed'
      BY <1>1, <2>1, <2>2, RingKilled DEF TtyInv
    <3> QED
      BY <1>3, <2>1, <2>2, <3>1 DEF Tty!Echo
  <2>3. CASE /\ inE # inW /\ Tty!Echo /\ inE' = (inE + INDEX_WRAP - 1) % INDEX_WRAP
             /\ draft' = SubSeq(draft, 1, Len(draft) - 1)
    <3>1. Keys' /\ Typed'
      BY <1>1, <2>1, <2>3, RingErased DEF TtyInv
    <3> QED
      BY <1>3, <2>1, <2>3, <3>1 DEF Tty!Echo
  <2>4. CASE UNCHANGED <<inE, draft, busy>>
    <3>1. Keys' /\ Typed'
      BY <1>1, <2>1, <2>4, InputKept DEF TtyInv, Tty!input
    <3> QED
      BY <1>3, <2>1, <2>4, <3>1 DEF TtyInv, Sending
  <2> QED
    BY <1>5, <2>2, <2>3, <2>4 DEF Tty!Erase
<1> QED
  BY <1>4, <1>5 DEF Tty!ConsoleIntr

LEMMA TtyNext == ASSUME TtyInv, [Tty!Next]_(Tty!vars) PROVE TtyInv'
<1>1. ASSUME NEW t \in Reader, NEW n \in 1 .. MaxRead, Tty!Read(t, n) PROVE TtyInv'
  BY <1>1, Reads DEF Tty!Read
<1>2. ASSUME NEW t \in Reader, Tty!ReadOn(t) PROVE TtyInv'
  <2>1. at[t] = "woken" /\ Tty!ReadLine(t, left[t], first[t])
    BY <1>2 DEF Tty!ReadOn
  <2>2. left[t] \in 1 .. MaxRead /\ first[t] \in BOOLEAN
    BY <2>1, Sizes DEF TtyInv, Reading
  <2> QED
    BY <2>1, <2>2, Reads
<1>3. ASSUME NEW t \in Killable, Tty!Kill(t) PROVE TtyInv'
  BY <1>3, Kills
<1>4. ASSUME Tty!Interrupt \/ Tty!NoInput PROVE TtyInv'
  BY <1>4, Claims
<1>5. ASSUME NEW c \in Tty!Key, Tty!ConsoleIntr(c) PROVE TtyInv'
  BY <1>5, Typing
<1>6. ASSUME NEW t \in Writer, Tty!Uartputc(t) PROVE TtyInv'
  BY <1>6, Puts
<1>7. ASSUME NEW t \in Writer \cup {Uart}, Tty!UartStart(t) PROVE TtyInv'
  BY <1>7, Starts
<1>8. ASSUME Tty!Sent \/ Tty!Type PROVE TtyInv'
  BY <1>8, Device
<1>9. ASSUME UNCHANGED Tty!vars PROVE TtyInv'
  <2>1. UNCHANGED <<Tty!input, Tty!reading, outR, outW, rx, busy, txIrq, outLock, at>>
    BY <1>9 DEF Tty!vars, Tty!sending, Tty!device
  <2>2. Keys' /\ Typed' /\ Reading'
    BY <2>1, InputKept, ReadingKept DEF TtyInv, Tty!input
  <2> QED
    BY <2>1, <2>2 DEF TtyInv, Threads, Sending, Tty!TxFull
<1> QED
  BY <1>1, <1>2, <1>3, <1>4, <1>5, <1>6, <1>7, <1>8, <1>9 DEF Tty!Next

(* However long the rings are, however often their indices wrap, and       *)
(* whoever reads, writes and types: the input ring holds what was typed    *)
(* without what was erased, a reader sleeps only while there is no line, a *)
(* writer only while its ring is full, and what waits to be sent has an    *)
(* interrupt or somebody else to send it.                                  *)
THEOREM TypedStays == Tty!Spec => []TypedIsRead
<1>1. TtyInv /\ [Tty!Next]_(Tty!vars) => TtyInv'
  BY TtyNext
<1> QED
  BY <1>1, TtyFirst, TtyEnough, PTL DEF Tty!Spec

=============================================================================
