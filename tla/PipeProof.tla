----------------------------- MODULE PipeProof -----------------------------
(***************************************************************************)
(* Proofs about Pipe, for any numbers of readers and writers, any capacity *)
(* and any width of the counters.                                          *)
(***************************************************************************)
EXTENDS Pipe, Integers, SequenceTheorems, TLAPS

(***************************************************************************)
(* Sleepers.                                                               *)
(***************************************************************************)
(* Who is in a loop holds the lock, and nobody else does.                  *)
LockInv ==
  \A p \in Proc :
    /\ pc[p] \in {"loop", "copy"} <=> lock = p
    /\ pc[p] = "copy" => p \in Reader

(* A reader that sleeps has a reason to, or the process in the pipe is a   *)
(* writer, which will wake it; and the other way round.                    *)
SleepInv ==
  \A p \in Proc : pc[p] = "asleep" =>
    IF p \in Reader
    THEN writeopen = 1 /\ (Empty \/ (lock \in Writer /\ readopen = 1))
    ELSE readopen = 1 /\ (Full \/ (lock \in Reader /\ pc[lock] = "copy"))

(* Who is in the pipe has it open; an end is open until its last holder    *)
(* has gone and pipeclose() has run, which frees the page when the other   *)
(* end is closed, so never a second time.                                  *)
EndInv ==
  /\ \A p \in Proc : pc[p] # "user" => p \in holders
  /\ readopen = 0 \/ "read" \in closing => holders \cap Reader = {}
  /\ writeopen = 0 \/ "write" \in closing => holders \cap Writer = {}
  /\ "read" \in closing => readopen = 1
  /\ "write" \in closing => writeopen = 1
  /\ frees = IF readopen = 0 /\ writeopen = 0 THEN 1 ELSE 0

Base == TypeOK /\ LockInv /\ EndInv

IInv == Base /\ SleepInv

LEMMA Counters ==
  ASSUME NEW x \in 0 .. WRAP - 1
  PROVE  PlusOne(x) \in 0 .. WRAP - 1 /\ x % PIPESIZE \in 0 .. PIPESIZE - 1
<1>1. PIPESIZE \in Nat \ {0} /\ WRAP \in Nat \ {0}
  BY PipeAssumption
<1> QED
  BY <1>1 DEF PlusOne

(* A step keeps the types and the lock.                                    *)
LEMMA Types ==
  ASSUME Base, [Next]_vars PROVE (TypeOK /\ LockInv)'
<1>0. TypeOK /\ LockInv /\ frees \in {0, 1}
  BY DEF Base, EndInv
<1> USE <1>0, PipeAssumption DEF TypeOK, LockInv, Proc
<1>1. ASSUME NEW p \in Proc, NEW k \in 0 .. MaxCount, Call(p, k) PROVE (TypeOK /\ LockInv)'
  BY <1>1 DEF Call, Goto, pipe, fds
<1>2. ASSUME NEW p \in Proc, Acquire(p) PROVE (TypeOK /\ LockInv)'
  BY <1>2 DEF Acquire, Goto, pipe, fds
<1>3. ASSUME NEW p \in Proc, WriteFails(p) PROVE (TypeOK /\ LockInv)'
  BY <1>3 DEF WriteFails, Goto, Reset, pipe, fds
<1>4. ASSUME NEW p \in Proc, WriteSleeps(p) PROVE (TypeOK /\ LockInv)'
  BY <1>4 DEF WriteSleeps, CanWrite, WriteWakes, Woken, pipe, fds
<1>5. ASSUME NEW p \in Proc, NEW b \in Byte, WriteByte(p, b) PROVE (TypeOK /\ LockInv)'
  <2>1. PlusOne(nwrite) \in 0 .. WRAP - 1 /\ nwrite % PIPESIZE \in 0 .. PIPESIZE - 1
    BY Counters
  <2> QED
    BY <1>5, <2>1 DEF WriteByte, CanWrite, fds
<1>6. ASSUME NEW p \in Proc, WriteReturns(p) PROVE (TypeOK /\ LockInv)'
  BY <1>6 DEF WriteReturns, CanWrite, WriteWakes, Woken, Reset, pipe, fds
<1>7. ASSUME NEW p \in Proc, ReadSleeps(p) PROVE (TypeOK /\ LockInv)'
  <2>1. CASE p \in killed
    <3>1. pc' = [pc EXCEPT ![p] = "user"] /\ lock = p /\ lock' = None
      BY <1>7, <2>1 DEF ReadSleeps, Goto
    <3> QED
      BY <1>7, <2>1, <3>1 DEF ReadSleeps, Reset, pipe, fds
  <2>2. CASE p \notin killed
    BY <1>7, <2>2 DEF ReadSleeps, Goto, pipe, fds
  <2> QED
    BY <2>1, <2>2
<1>8. ASSUME NEW p \in Proc, ReadStarts(p) PROVE (TypeOK /\ LockInv)'
  BY <1>8 DEF ReadStarts, Goto, pipe, fds
<1>9. ASSUME NEW p \in Proc, ReadByte(p) PROVE (TypeOK /\ LockInv)'
  <2>1. PlusOne(nread) \in 0 .. WRAP - 1
    BY Counters
  <2>2. CASE i' = [i EXCEPT ![p] = @ + 1] /\ UNCHANGED <<lock, pc, n>>
    BY <1>9, <2>1, <2>2 DEF ReadByte, fds
  <2>3. CASE ReadReturns(p)
    BY <1>9, <2>1, <2>3 DEF ReadByte, ReadReturns, ReadWakes, Woken, Reset, fds
  <2> QED
    BY <1>9, <2>2, <2>3 DEF ReadByte
<1>10. ASSUME NEW p \in Proc, ReadEnds(p) PROVE (TypeOK /\ LockInv)'
  BY <1>10 DEF ReadEnds, ReadReturns, ReadWakes, Woken, Reset, pipe, fds
<1>11. ASSUME NEW p \in Proc, Fileclose(p) PROVE (TypeOK /\ LockInv)'
  BY <1>11 DEF Fileclose, End, pipe, fds
<1>12. ASSUME NEW p \in Proc, Kill(p) PROVE (TypeOK /\ LockInv)'
  BY <1>12 DEF Kill, Goto, pipe, fds
<1>13. ASSUME NEW e \in {"read", "write"}, Pipeclose(e) PROVE (TypeOK /\ LockInv)'
  BY <1>13 DEF Pipeclose, CloseWakes, Woken
<1>14. ASSUME UNCHANGED vars PROVE (TypeOK /\ LockInv)'
  BY <1>14 DEF vars, pipe, fds
<1> QED
  BY <1>1, <1>2, <1>3, <1>4, <1>5, <1>6, <1>7, <1>8, <1>9, <1>10, <1>11, <1>12,
     <1>13, <1>14 DEF Next

(* Nor does one let a process in whose end is closed, or free the page     *)
(* before the last close or again.                                         *)
LEMMA Ends ==
  ASSUME Base, [Next]_vars PROVE EndInv'
<1>0. TypeOK /\ LockInv /\ EndInv
  BY DEF Base
<1> USE DEF EndInv, Proc
<1>1. ASSUME NEW p \in Proc, NEW k \in 0 .. MaxCount, Call(p, k) PROVE EndInv'
  BY <1>0, <1>1 DEF Call, Goto, TypeOK, pipe, fds
<1>2. ASSUME NEW p \in Proc,
             Acquire(p) \/ WriteFails(p) \/ ReadStarts(p) \/ ReadSleeps(p)
      PROVE  EndInv'
  BY <1>0, <1>2 DEF Acquire, WriteFails, ReadStarts, ReadSleeps, Goto, TypeOK, pipe, fds
<1>3. ASSUME NEW p \in Proc, WriteSleeps(p) \/ WriteReturns(p) \/ ReadEnds(p)
      PROVE  EndInv'
  BY <1>0, <1>3
     DEF WriteSleeps, WriteReturns, ReadEnds, ReadReturns, CanWrite, Woken, TypeOK, pipe, fds
<1>4. ASSUME NEW p \in Proc, NEW b \in Byte, WriteByte(p, b) PROVE EndInv'
  BY <1>0, <1>4 DEF WriteByte, CanWrite, TypeOK, fds
<1>5. ASSUME NEW p \in Proc, ReadByte(p) PROVE EndInv'
  BY <1>0, <1>5 DEF ReadByte, ReadReturns, Woken, TypeOK, fds
<1>6. ASSUME NEW p \in Proc, Fileclose(p) PROVE EndInv'
  BY <1>0, <1>6, PipeAssumption DEF Fileclose, End, Peers, TypeOK, pipe
<1>7. ASSUME NEW p \in Proc, Kill(p) PROVE EndInv'
  BY <1>0, <1>7 DEF Kill, Goto, TypeOK, pipe, fds
<1>8. ASSUME NEW e \in {"read", "write"}, Pipeclose(e) PROVE EndInv'
  <2>1. readopen \in {0, 1} /\ writeopen \in {0, 1}
    BY <1>0 DEF TypeOK
  <2>2. CASE e = "read"
    <3>1. /\ readopen = 1 /\ readopen' = 0 /\ writeopen' = writeopen
          /\ closing' = closing \ {"read"} /\ holders' = holders
          /\ frees' = IF writeopen = 0 THEN frees + 1 ELSE frees
      BY <1>0, <1>8, <2>2 DEF Pipeclose, BothClosed
    <3>2. \A p \in Proc : pc'[p] # "user" => p \in holders
      BY <1>0, <1>8 DEF Pipeclose, Woken, TypeOK
    <3> QED
      BY <1>0, <2>1, <2>2, <3>1, <3>2, <1>8 DEF Pipeclose
  <2>3. CASE e = "write"
    <3>1. /\ writeopen = 1 /\ writeopen' = 0 /\ readopen' = readopen
          /\ closing' = closing \ {"write"} /\ holders' = holders
          /\ frees' = IF readopen = 0 THEN frees + 1 ELSE frees
      BY <1>0, <1>8, <2>3 DEF Pipeclose, BothClosed
    <3>2. \A p \in Proc : pc'[p] # "user" => p \in holders
      BY <1>0, <1>8 DEF Pipeclose, Woken, TypeOK
    <3> QED
      BY <1>0, <2>1, <2>3, <3>1, <3>2, <1>8 DEF Pipeclose
  <2> QED
    BY <2>2, <2>3
<1>9. ASSUME UNCHANGED vars PROVE EndInv'
  BY <1>0, <1>9 DEF vars, pipe, fds
<1> QED
  BY <1>1, <1>2, <1>3, <1>4, <1>5, <1>6, <1>7, <1>8, <1>9 DEF Next

LEMMA BaseKept ==
  /\ Init => Base
  /\ Base /\ [Next]_vars => Base'
<1>1. Init => Base
  BY PipeAssumption DEF Init, Base, TypeOK, LockInv, EndInv, Proc
<1>2. Base /\ [Next]_vars => Base'
  BY Types, Ends DEF Base
<1> QED
  BY <1>1, <1>2

(* The page of the pipe is freed by the last close, once, and nobody uses  *)
(* it then: for any processes, killed or not.                              *)
THEOREM PageFreedOnce == Spec => []FreedByLastClose
<1>1. Base => FreedByLastClose
  <2>1. SUFFICES ASSUME Base PROVE FreedByLastClose
    OBVIOUS
  <2>2. ASSUME frees > 0
        PROVE  /\ holders = {} /\ closing = {} /\ lock = None
               /\ \A p \in Proc : pc[p] = "user"
    <3>1. readopen = 0 /\ writeopen = 0
      BY <2>1, <2>2 DEF Base, EndInv
    <3>2. holders = {} /\ closing = {}
      BY <2>1, <3>1 DEF Base, EndInv, TypeOK, Proc
    <3>3. \A p \in Proc : pc[p] = "user"
      BY <2>1, <3>2 DEF Base, EndInv
    <3>4. lock = None
      BY <2>1, <3>3 DEF Base, TypeOK, LockInv
    <3> QED
      BY <3>2, <3>3, <3>4
  <2> QED
    BY <2>1, <2>2 DEF FreedByLastClose, Base, EndInv
<1> QED
  BY <1>1, BaseKept, PTL DEF Spec

(* When no writer is killed, no step leaves a sleeper without a reason.    *)
LEMMA Sleeps ==
  ASSUME Killable \subseteq Reader, IInv, [Next]_vars PROVE SleepInv'
<1> USE PipeAssumption DEF IInv, Base, TypeOK, LockInv, SleepInv, Proc, Empty, Full
<1>1. ASSUME NEW p \in Proc, NEW k \in 0 .. MaxCount, Call(p, k) PROVE SleepInv'
  BY <1>1 DEF Call, Goto, pipe
<1>2. ASSUME NEW p \in Proc, Acquire(p) PROVE SleepInv'
  BY <1>2 DEF Acquire, Goto, pipe
<1>3. ASSUME NEW p \in Proc, WriteFails(p) PROVE SleepInv'
  BY <1>3 DEF WriteFails, Goto, pipe
<1>4. ASSUME NEW p \in Proc, WriteSleeps(p) PROVE SleepInv'
  BY <1>4 DEF WriteSleeps, CanWrite, WriteWakes, Woken, pipe
<1>5. ASSUME NEW p \in Proc, NEW b \in Byte, WriteByte(p, b) PROVE SleepInv'
  BY <1>5 DEF WriteByte, CanWrite
<1>6. ASSUME NEW p \in Proc, WriteReturns(p) PROVE SleepInv'
  BY <1>6 DEF WriteReturns, CanWrite, WriteWakes, Woken, pipe
<1>7. ASSUME NEW p \in Proc, ReadSleeps(p) PROVE SleepInv'
  <2>1. lock = p /\ lock' = None /\ pc' \in {[pc EXCEPT ![p] = "user"], [pc EXCEPT ![p] = "asleep"]}
    BY <1>7 DEF ReadSleeps, Goto
  <2> QED
    BY <1>7, <2>1 DEF ReadSleeps, pipe
<1>8. ASSUME NEW p \in Proc, ReadStarts(p) PROVE SleepInv'
  BY <1>8 DEF ReadStarts, Goto, pipe
<1>9. ASSUME NEW p \in Proc, ReadByte(p) PROVE SleepInv'
  <2>1. CASE UNCHANGED <<lock, pc>>
    BY <1>9, <2>1 DEF ReadByte
  <2>2. CASE ReadReturns(p)
    BY <1>9, <2>2 DEF ReadByte, ReadReturns, ReadWakes, Woken
  <2> QED
    BY <1>9, <2>1, <2>2 DEF ReadByte
<1>10. ASSUME NEW p \in Proc, ReadEnds(p) PROVE SleepInv'
  BY <1>10 DEF ReadEnds, ReadReturns, ReadWakes, Woken, pipe
<1>11. ASSUME NEW p \in Proc, Fileclose(p) PROVE SleepInv'
  BY <1>11 DEF Fileclose, pipe
<1>12. ASSUME NEW p \in Proc, Kill(p) PROVE SleepInv'
  BY <1>12 DEF Kill, Goto, pipe
<1>13. ASSUME NEW e \in {"read", "write"}, Pipeclose(e) PROVE SleepInv'
  BY <1>13 DEF Pipeclose, CloseWakes, Woken
<1>14. ASSUME UNCHANGED vars PROVE SleepInv'
  BY <1>14 DEF vars, pipe
<1> QED
  BY <1>1, <1>2, <1>3, <1>4, <1>5, <1>6, <1>7, <1>8, <1>9, <1>10, <1>11, <1>12,
     <1>13, <1>14 DEF Next

(* A sleeping process has a reason to sleep whenever the lock is free: no  *)
(* wakeup of the pipe comes too early or goes to the wrong end, for any    *)
(* processes, as long as no writer is killed.                              *)
THEOREM NobodySleepsInVain ==
  ASSUME Killable \subseteq Reader PROVE Spec => []SleepersHaveReason
<1>1. Init => IInv
  BY BaseKept, PipeAssumption DEF Init, IInv, SleepInv, Proc
<1>2. IInv => SleepersHaveReason
  BY PipeAssumption DEF IInv, Base, LockInv, SleepInv, SleepersHaveReason, Proc
<1>3. IInv /\ [Next]_vars => IInv'
  BY BaseKept, Sleeps DEF IInv
<1> QED
  BY <1>1, <1>2, <1>3, PTL DEF Spec

(***************************************************************************)
(* Arithmetic of two indices into a ring of P entries that are never       *)
(* reduced modulo P, but wrap at W, a multiple of P: nread and nwrite of   *)
(* kernel/pipe.c.                                                          *)
(***************************************************************************)
(* How far index b is ahead of index a, around the wrap or not.            *)
Ahead(W, a, b) == (b + W - a) % W

LEMMA Multiple ==
  ASSUME NEW P \in Nat \ {0}, NEW W \in Nat, W % P = 0, NEW a \in Nat
  PROVE  (W + a) % P = a % P
<1>1. W = P * (W \div P) /\ W \div P \in Nat
  OBVIOUS
<1>2. a = P * (a \div P) + (a % P) /\ a \div P \in Nat /\ a % P \in 0 .. P - 1
  OBVIOUS
<1>3. ASSUME NEW k \in Nat, NEW r \in 0 .. P - 1 PROVE (P * k + r) % P = r
  OBVIOUS
<1>4. W + a = P * ((W \div P) + (a \div P)) + (a % P) /\ (W \div P) + (a \div P) \in Nat
  BY <1>1, <1>2
<1> QED
  BY <1>2, <1>3, <1>4

(* Less than P apart, two numbers have two places.                         *)
LEMMA Apart ==
  ASSUME NEW P \in Nat \ {0}, NEW a \in Nat, NEW d \in 1 .. P - 1
  PROVE  (a + d) % P # a % P
<1> DEFINE q == a \div P
           r == a % P
<1>1. a = P * q + r /\ q \in Nat /\ r \in 0 .. P - 1
  OBVIOUS
<1>2. ASSUME NEW k \in Nat, NEW x \in 0 .. P - 1 PROVE (P * k + x) % P = x
  OBVIOUS
<1>3. CASE r + d < P
  <2>1. a + d = P * q + (r + d) /\ r + d \in 0 .. P - 1
    BY <1>1, <1>3
  <2>2. (a + d) % P = r + d
    BY <1>1, <1>2, <2>1
  <2> QED
    BY <1>1, <2>2
<1>4. CASE r + d >= P
  <2>1. a + d = P * (q + 1) + (r + d - P) /\ r + d - P \in 0 .. P - 1 /\ q + 1 \in Nat
    BY <1>1, <1>4
  <2>2. (a + d) % P = r + d - P
    BY <1>2, <2>1
  <2> QED
    BY <1>1, <2>2
<1> QED
  BY <1>1, <1>3, <1>4

LEMMA Around ==
  ASSUME NEW P \in Nat \ {0}, NEW W \in Nat, W % P = 0, NEW x \in Nat
  PROVE  (W + x) % P = x % P /\ x % P \in 0 .. P - 1
<1>1. (W + x) % P = x % P
  BY Multiple, Zenon
<1>2. x % P \in 0 .. P - 1
  OBVIOUS
<1> QED
  BY <1>1, <1>2

LEMMA Distance ==
  ASSUME NEW W \in Nat \ {0}, NEW a \in 0 .. W - 1, NEW b \in 0 .. W - 1
  PROVE  /\ b >= a => Ahead(W, a, b) = b - a
         /\ b < a => Ahead(W, a, b) = b + W - a
         /\ Ahead(W, a, b) \in 0 .. W - 1
         /\ b = (a + Ahead(W, a, b)) % W
         /\ a = b <=> Ahead(W, a, b) = 0
<1>1. ASSUME NEW x \in Nat, x < W PROVE x % W = x /\ (W + x) % W = x
  BY <1>1
<1>2. a \in Nat /\ b \in Nat /\ a < W /\ b < W
  OBVIOUS
<1>3. CASE b >= a
  <2> DEFINE g == b - a
  <2>1. /\ b + W - a = W + g /\ g \in 0 .. W - 1 /\ g \in Nat /\ g < W
        /\ a + g = b /\ (a = b <=> g = 0) /\ ~(b < a)
    BY <1>3
  <2> HIDE DEF g
  <2>2. (W + g) % W = g /\ b % W = b
    BY <1>1, <1>2, <2>1
  <2>3. Ahead(W, a, b) = g
    BY <2>1, <2>2 DEF Ahead
  <2> QED
    BY <1>3, <2>1, <2>2, <2>3 DEF g
<1>4. CASE b < a
  <2> DEFINE g == b + W - a
  <2>1. /\ g \in 0 .. W - 1 /\ g \in Nat /\ g < W /\ g # 0
        /\ a + g = W + b /\ a # b /\ ~(b >= a)
    BY <1>4
  <2>2. g % W = Ahead(W, a, b)
    BY DEF Ahead
  <2> HIDE DEF g
  <2>3. Ahead(W, a, b) = g
    BY <1>1, <2>1, <2>2
  <2>4. (W + b) % W = b
    BY <1>1, <1>2
  <2> QED
    BY <2>1, <2>3, <2>4 DEF g
<1> QED
  BY <1>2, <1>3, <1>4

LEMMA Stepped ==
  ASSUME NEW W \in Nat \ {0}, NEW x \in 0 .. W - 1
  PROVE  /\ x = W - 1 => (x + 1) % W = 0
         /\ x # W - 1 => (x + 1) % W = x + 1
         /\ (x + 1) % W \in 0 .. W - 1
<1>1. CASE x = W - 1
  <2>1. x + 1 = W /\ W % W = 0
    BY <1>1
  <2> QED
    BY <1>1, <2>1
<1>2. CASE x # W - 1
  <2>1. x + 1 \in Nat /\ x + 1 < W
    BY <1>2
  <2>2. (x + 1) % W = x + 1
    BY <2>1
  <2> QED
    BY <1>2, <2>1, <2>2
<1> QED
  BY <1>1, <1>2

(* One step of the index ahead, and one of the index behind.               *)
LEMMA Longer ==
  ASSUME NEW W \in Nat \ {0}, NEW a \in 0 .. W - 1, NEW b \in 0 .. W - 1
  PROVE  Ahead(W, a, b) + 1 < W => Ahead(W, a, (b + 1) % W) = Ahead(W, a, b) + 1
<1> DEFINE f == Ahead(W, a, b)
           c == (b + 1) % W
<1>1. /\ f \in 0 .. W - 1
      /\ b >= a => f = b - a
      /\ b < a => f = b + W - a
  BY Distance
<1>2. /\ c \in 0 .. W - 1
      /\ b = W - 1 => c = 0
      /\ b # W - 1 => c = b + 1
  BY Stepped
<1> HIDE DEF c
<1>3. /\ c >= a => Ahead(W, a, c) = c - a
      /\ c < a => Ahead(W, a, c) = c + W - a
  BY <1>2, Distance
<1> HIDE DEF f
<1>4. f + 1 < W => Ahead(W, a, c) = f + 1
  BY <1>1, <1>2, <1>3
<1> QED
  BY <1>4 DEF f, c

LEMMA Shorter ==
  ASSUME NEW W \in Nat \ {0}, NEW a \in 0 .. W - 1, NEW b \in 0 .. W - 1, a # b
  PROVE  Ahead(W, (a + 1) % W, b) = Ahead(W, a, b) - 1
<1> DEFINE f == Ahead(W, a, b)
           s == (a + 1) % W
<1>1. /\ f \in 0 .. W - 1
      /\ b >= a => f = b - a
      /\ b < a => f = b + W - a
  BY Distance
<1>2. /\ s \in 0 .. W - 1
      /\ a = W - 1 => s = 0
      /\ a # W - 1 => s = a + 1
  BY Stepped
<1> HIDE DEF s
<1>3. /\ b >= s => Ahead(W, s, b) = b - s
      /\ b < s => Ahead(W, s, b) = b + W - s
  BY <1>2, Distance
<1> HIDE DEF f
<1>4. Ahead(W, s, b) = f - 1
  BY <1>1, <1>2, <1>3
<1> QED
  BY <1>4 DEF f, s

LEMMA SamePlace ==
  ASSUME NEW P \in Nat \ {0}, NEW W \in Nat \ {0}, W % P = 0,
         NEW a \in 0 .. W - 1, NEW b \in 0 .. W - 1
  PROVE  (a + Ahead(W, a, b)) % P = b % P
<1> DEFINE f == Ahead(W, a, b)
<1>1. f = b - a \/ f = b + W - a
  BY Distance
<1>2. b \in Nat /\ (a + f = b \/ a + f = W + b)
  BY <1>1
<1>3. (W + b) % P = b % P
  BY <1>2, Around, Zenon
<1> QED
  BY <1>2, <1>3

LEMMA NextPlace ==
  ASSUME NEW P \in Nat \ {0}, NEW W \in Nat \ {0}, W % P = 0,
         NEW a \in 0 .. W - 1, NEW k \in Nat
  PROVE  (((a + 1) % W) + k) % P = (a + (k + 1)) % P
<1> DEFINE s == (a + 1) % W
<1>1. (W + k) % P = k % P
  BY Around, Zenon
<1>2. (a = W - 1 => s = 0) /\ (a # W - 1 => s = a + 1)
  BY Stepped
<1> HIDE DEF s
<1>3. CASE a = W - 1
  <2>1. s + k = k /\ a + (k + 1) = W + k
    BY <1>2, <1>3
  <2> QED
    BY <1>1, <2>1 DEF s
<1>4. CASE a # W - 1
  <2>1. s + k = a + (k + 1)
    BY <1>2, <1>4
  <2> QED
    BY <2>1 DEF s
<1> QED
  BY <1>3, <1>4

(* The entry at the index ahead is none of those between the two.          *)
LEMMA OtherPlace ==
  ASSUME NEW P \in Nat \ {0}, NEW W \in Nat \ {0}, W % P = 0,
         NEW a \in 0 .. W - 1, NEW b \in 0 .. W - 1, Ahead(W, a, b) < P,
         NEW k \in 0 .. Ahead(W, a, b) - 1
  PROVE  (a + k) % P # b % P
<1> DEFINE f == Ahead(W, a, b)
           m == f - k
           x == a + k
<1>1. f \in 0 .. W - 1
  BY Distance
<1>2. (a + f) % P = b % P
  BY SamePlace
<1>3. x \in Nat /\ m \in 1 .. P - 1 /\ x + m = a + f
  BY <1>1
<1> HIDE DEF m, x, f
<1>4. (x + m) % P # x % P
  BY <1>3, Apart, Zenon
<1>5. x % P # b % P
  BY <1>2, <1>3, <1>4, Zenon
<1> QED
  BY <1>5 DEF x

(***************************************************************************)
(* The queue: arithmetic of counters that wrap, and of places in data.     *)
(***************************************************************************)
(* How far w is ahead of r, around the wrap or not; and the bytes at f     *)
(* places from r on.                                                       *)
Gap(r, w) == Ahead(WRAP, r, w)

Ring(d, r, f) == [k \in 1 .. f |-> d[(r + k - 1) % PIPESIZE]]

LEMMA Constants ==
  /\ PIPESIZE \in Nat \ {0} /\ WRAP \in Nat \ {0} /\ WRAP > PIPESIZE
  /\ WRAP % PIPESIZE = 0
BY PipeAssumption

LEMMA Place ==
  ASSUME NEW x \in Nat PROVE x % PIPESIZE \in 0 .. PIPESIZE - 1
BY Constants

(* The counters of the pipe.                                               *)
LEMMA Gaps ==
  ASSUME NEW r \in 0 .. WRAP - 1, NEW w \in 0 .. WRAP - 1
  PROVE  /\ Gap(r, w) \in 0 .. WRAP - 1
         /\ w = (r + Gap(r, w)) % WRAP
         /\ (r + Gap(r, w)) % PIPESIZE = w % PIPESIZE
         /\ r = w <=> Gap(r, w) = 0
         /\ Gap(r, w) < PIPESIZE =>
              /\ Gap(r, PlusOne(w)) = Gap(r, w) + 1
              /\ \A k \in 0 .. Gap(r, w) - 1 : (r + k) % PIPESIZE # w % PIPESIZE
         /\ r # w => Gap(PlusOne(r), w) = Gap(r, w) - 1
         /\ \A k \in Nat : (PlusOne(r) + k) % PIPESIZE = (r + (k + 1)) % PIPESIZE
<1>0. PIPESIZE \in Nat \ {0} /\ WRAP \in Nat \ {0}
  BY Constants
<1>1. /\ Gap(r, w) \in 0 .. WRAP - 1
      /\ w = (r + Gap(r, w)) % WRAP
      /\ r = w <=> Gap(r, w) = 0
  BY <1>0, Distance DEF Gap
<1>2. (r + Gap(r, w)) % PIPESIZE = w % PIPESIZE
  BY <1>0, Constants, SamePlace DEF Gap
<1>3. Gap(r, w) + 1 < WRAP => Gap(r, PlusOne(w)) = Gap(r, w) + 1
  BY Constants, Longer, Zenon DEF Gap, PlusOne
<1>4. Gap(r, w) < PIPESIZE =>
        \A k \in 0 .. Gap(r, w) - 1 : (r + k) % PIPESIZE # w % PIPESIZE
  BY <1>0, Constants, OtherPlace DEF Gap
<1>5. r # w => Gap(PlusOne(r), w) = Gap(r, w) - 1
  BY Constants, Shorter, Zenon DEF Gap, PlusOne
<1>6. \A k \in Nat : (PlusOne(r) + k) % PIPESIZE = (r + (k + 1)) % PIPESIZE
  BY ZenonT(60), Constants, NextPlace DEF PlusOne
<1>7. Gap(r, w) < PIPESIZE => Gap(r, w) + 1 < WRAP
  BY Constants, <1>1
<1> QED
  BY <1>1, <1>2, <1>3, <1>4, <1>5, <1>6, <1>7

(* The bytes in the ring are a queue of bytes.                             *)
LEMMA RingQueue ==
  ASSUME NEW d \in [0 .. PIPESIZE - 1 -> Byte], NEW r \in Nat, NEW f \in Nat
  PROVE  /\ Ring(d, r, f) \in Seq(Byte) /\ Len(Ring(d, r, f)) = f
         /\ \A k \in 1 .. f : Ring(d, r, f)[k] = d[(r + k - 1) % PIPESIZE]
<1>1. \A k \in 1 .. f : d[(r + k - 1) % PIPESIZE] \in Byte
  <2>1. TAKE k \in 1 .. f
  <2>2. r + k - 1 \in Nat
    OBVIOUS
  <2> QED
    BY Place, <2>2
<1> QED
  BY <1>1 DEF Ring

(* A byte behind the last one is a byte at the end of the queue: the       *)
(* places of the others are not written.                                   *)
LEMMA Enqueues ==
  ASSUME NEW d \in [0 .. PIPESIZE - 1 -> Byte], NEW b \in Byte,
         NEW r \in 0 .. WRAP - 1, NEW w \in 0 .. WRAP - 1, Gap(r, w) < PIPESIZE
  PROVE  /\ Gap(r, PlusOne(w)) = Gap(r, w) + 1
         /\ Ring([d EXCEPT ![w % PIPESIZE] = b], r, Gap(r, w) + 1)
              = Append(Ring(d, r, Gap(r, w)), b)
<1> DEFINE f == Gap(r, w)
           e == [d EXCEPT ![w % PIPESIZE] = b]
           old == Ring(d, r, f)
           new == Ring(e, r, f + 1)
<1>1. /\ f \in Nat /\ f < PIPESIZE /\ (r + f) % PIPESIZE = w % PIPESIZE
      /\ \A k \in 0 .. f - 1 : (r + k) % PIPESIZE # w % PIPESIZE
  BY Gaps
<1>4. Gap(r, PlusOne(w)) = f + 1
  BY Gaps
<1> HIDE DEF f
<1>5. w % PIPESIZE \in 0 .. PIPESIZE - 1 /\ r \in Nat
  BY Constants, Place
<1>6. e \in [0 .. PIPESIZE - 1 -> Byte] /\ e[w % PIPESIZE] = b
  BY <1>5
<1>7. ASSUME NEW k \in 1 .. f
      PROVE  e[(r + k - 1) % PIPESIZE] = d[(r + k - 1) % PIPESIZE]
  <2> DEFINE a == r + k - 1
  <2>1. a \in Nat /\ k - 1 \in 0 .. f - 1 /\ a = r + (k - 1)
    BY <1>1, <1>5
  <2> HIDE DEF a
  <2>2. a % PIPESIZE # w % PIPESIZE /\ a % PIPESIZE \in 0 .. PIPESIZE - 1
    BY <1>1, <2>1, Place
  <2> QED
    BY <2>2 DEF a
<1>8. /\ old \in Seq(Byte) /\ Len(old) = f
      /\ \A k \in 1 .. f : old[k] = d[(r + k - 1) % PIPESIZE]
  BY <1>1, <1>5, RingQueue
<1>9. f \in Nat /\ f + 1 \in Nat
  BY <1>1
<1>10. /\ new \in Seq(Byte) /\ Len(new) = f + 1
       /\ \A k \in 1 .. f + 1 : new[k] = e[(r + k - 1) % PIPESIZE]
  BY ZenonT(60), <1>5, <1>6, <1>9, RingQueue
<1> HIDE DEF old, new, e
<1>11. /\ Append(old, b) \in Seq(Byte) /\ Len(Append(old, b)) = f + 1
       /\ \A k \in 1 .. f : Append(old, b)[k] = old[k]
       /\ Append(old, b)[f + 1] = b
  BY <1>1, <1>8, AppendProperties
<1>12. \A k \in 1 .. f + 1 : new[k] = Append(old, b)[k]
  <2>1. TAKE k \in 1 .. f + 1
  <2>2. CASE k \in 1 .. f
    BY <1>7, <1>8, <1>10, <1>11, <2>2
  <2>3. CASE k = f + 1
    <3>1. r + k - 1 = r + f
      BY <1>1, <1>5, <2>3
    <3> QED
      BY <1>1, <1>6, <1>10, <1>11, <2>3, <3>1
  <2>4. k \in 1 .. f \/ k = f + 1
    BY <1>9
  <2> QED
    BY <2>2, <2>3, <2>4
<1>13. new = Append(old, b)
  BY <1>10, <1>11, <1>12, SeqEqual
<1> QED
  BY <1>4, <1>13 DEF f, new, old, e

(* The byte that is read is the first of the queue.                        *)
LEMMA Dequeues ==
  ASSUME NEW d \in [0 .. PIPESIZE - 1 -> Byte],
         NEW r \in 0 .. WRAP - 1, NEW w \in 0 .. WRAP - 1, r # w
  PROVE  /\ Gap(PlusOne(r), w) = Gap(r, w) - 1
         /\ Ring(d, r, Gap(r, w)) # <<>>
         /\ Ring(d, PlusOne(r), Gap(r, w) - 1) = Tail(Ring(d, r, Gap(r, w)))
<1> DEFINE f == Gap(r, w)
           s == PlusOne(r)
           old == Ring(d, r, f)
           new == Ring(d, s, f - 1)
<1>1. /\ f \in 0 .. WRAP - 1 /\ f # 0 /\ Gap(s, w) = f - 1
      /\ \A k \in Nat : (s + k) % PIPESIZE = (r + (k + 1)) % PIPESIZE
  BY Gaps
<1>2. s \in 0 .. WRAP - 1
  BY Counters
<1> HIDE DEF f, s
<1>4. Gap(s, w) = f - 1 /\ f \in Nat /\ f - 1 \in Nat
  BY Constants, <1>1
<1>5. r \in Nat /\ s \in Nat
  BY Constants, <1>2
<1>6. ASSUME NEW k \in 1 .. f - 1
      PROVE  (s + k - 1) % PIPESIZE = (r + k) % PIPESIZE
  <2>1. k - 1 \in Nat /\ s + k - 1 = s + (k - 1) /\ r + k = r + ((k - 1) + 1)
    BY <1>4, <1>5
  <2> QED
    BY <1>1, <2>1
<1>7. /\ old \in Seq(Byte) /\ Len(old) = f
      /\ \A k \in 1 .. f : old[k] = d[(r + k - 1) % PIPESIZE]
  BY <1>4, <1>5, RingQueue
<1>8. /\ new \in Seq(Byte) /\ Len(new) = f - 1
      /\ \A k \in 1 .. f - 1 : new[k] = d[(s + k - 1) % PIPESIZE]
  BY <1>4, <1>5, RingQueue
<1> HIDE DEF old, new
<1>9. old # <<>>
  BY <1>1, <1>7
<1>10. /\ Tail(old) \in Seq(Byte) /\ Len(Tail(old)) = f - 1
       /\ \A k \in 1 .. f - 1 : Tail(old)[k] = old[k + 1]
  BY <1>7, <1>9, HeadTailProperties
<1>11. \A k \in 1 .. f - 1 : new[k] = Tail(old)[k]
  <2>1. TAKE k \in 1 .. f - 1
  <2>2. k + 1 \in 1 .. f /\ r + (k + 1) - 1 = r + k
    BY <1>4, <1>5
  <2>3. old[k + 1] = d[(r + k) % PIPESIZE]
    BY <1>7, <2>2
  <2> QED
    BY <1>6, <1>8, <1>10, <2>3
<1>12. new = Tail(old)
  BY <1>8, <1>10, <1>11, SeqEqual
<1> QED
  BY <1>4, <1>9, <1>12 DEF f, s, new, old

(***************************************************************************)
(* The pipe implements the bounded queue.                                  *)
(***************************************************************************)
(* The ring is never overfilled.                                           *)
QueueInv == Base /\ Filled <= PIPESIZE

(* A step keeps that invariant and is a step of the queue, or leaves the   *)
(* queue as it is.                                                         *)
LEMMA Simulates ==
  ASSUME QueueInv, [Next]_vars
  PROVE  QueueInv' /\ [Fifo!PipeNext]_(Fifo!pipeVars)
<1>1. TypeOK /\ LockInv /\ EndInv /\ Filled <= PIPESIZE /\ Base'
  BY BaseKept DEF QueueInv, Base
<1>2. Filled = Gap(nread, nwrite) /\ Contents = Ring(data, nread, Gap(nread, nwrite))
  BY DEF Filled, Gap, Ahead, Contents, Ring
<1>3. (Filled = Gap(nread, nwrite) /\ Contents = Ring(data, nread, Gap(nread, nwrite)))'
  BY DEF Filled, Gap, Ahead, Contents, Ring
<1>4. ASSUME UNCHANGED <<data, nread, nwrite>> PROVE UNCHANGED <<Contents, Filled>>
  BY <1>4 DEF Contents, Filled
<1>5. ASSUME UNCHANGED pipe PROVE QueueInv' /\ [Fifo!PipeNext]_(Fifo!pipeVars)
  BY <1>1, <1>4, <1>5 DEF pipe, QueueInv, Fifo!pipeVars
<1>types. /\ data \in [0 .. PIPESIZE - 1 -> Byte]
       /\ nread \in 0 .. WRAP - 1 /\ nwrite \in 0 .. WRAP - 1
  BY <1>1 DEF TypeOK
<1> USE DEF EndInv, Proc
<1>6. ASSUME NEW p \in Proc, NEW k \in 0 .. MaxCount, Call(p, k) PROVE UNCHANGED pipe
  BY <1>6 DEF Call
<1>7. ASSUME NEW p \in Proc,
             Acquire(p) \/ WriteFails(p) \/ ReadStarts(p) \/ ReadSleeps(p)
      PROVE  UNCHANGED pipe
  BY <1>7 DEF Acquire, WriteFails, ReadStarts, ReadSleeps
<1>8. ASSUME NEW p \in Proc, WriteSleeps(p) \/ WriteReturns(p) \/ ReadEnds(p)
      PROVE  UNCHANGED pipe
  BY <1>8 DEF WriteSleeps, WriteReturns, ReadEnds
<1>9. ASSUME NEW p \in Proc, Kill(p) PROVE UNCHANGED pipe
  BY <1>9 DEF Kill
<1>10. ASSUME NEW p \in Proc, Fileclose(p) PROVE UNCHANGED pipe
  BY <1>10 DEF Fileclose
<1>11. ASSUME UNCHANGED vars PROVE UNCHANGED pipe
  BY <1>11 DEF vars
<1>12. ASSUME NEW p \in Proc, NEW b \in Byte, WriteByte(p, b)
       PROVE  QueueInv' /\ Fifo!PipeNext
  <2>1. readopen = 1 /\ writeopen = 1 /\ UNCHANGED <<readopen, writeopen>>
    BY <1>1, <1>12 DEF WriteByte, CanWrite, TypeOK, fds
  <2>2. /\ ~Full /\ nwrite' = PlusOne(nwrite) /\ nread' = nread
        /\ data' = [data EXCEPT ![nwrite % PIPESIZE] = b]
    BY <1>12 DEF WriteByte
  <2>3. Filled \in Nat /\ Filled < PIPESIZE
    <3>1. nwrite = (nread + Filled) % WRAP /\ Filled \in Nat
      BY <1>1, <1>2, Gaps, Constants DEF TypeOK
    <3>2. Filled # PIPESIZE
      BY <2>2, <3>1 DEF Full
    <3> QED
      BY <1>1, <3>1, <3>2, Constants
  <2>4. Contents' = Append(Contents, b) /\ Filled' = Filled + 1
    <3>0. Gap(nread, nwrite) < PIPESIZE
      BY <1>2, <2>3
    <3>1. /\ Gap(nread, PlusOne(nwrite)) = Gap(nread, nwrite) + 1
          /\ Ring([data EXCEPT ![nwrite % PIPESIZE] = b], nread, Gap(nread, nwrite) + 1)
               = Append(Ring(data, nread, Gap(nread, nwrite)), b)
      BY <1>types, <3>0, Enqueues, Zenon
    <3> QED
      BY <1>2, <1>3, <2>2, <3>1
  <2>5. Len(Contents) = Filled
    <3>1. Gap(nread, nwrite) \in Nat
      BY <1>2, <2>3
    <3>2. nread \in Nat
      BY <1>types, Constants
    <3>3. Len(Ring(data, nread, Gap(nread, nwrite))) = Gap(nread, nwrite)
      BY <1>types, <3>1, <3>2, RingQueue, Zenon
    <3> QED
      BY <1>2, <3>3
  <2>6. Filled' <= PIPESIZE
    BY <2>3, <2>4, Constants
  <2>7. Fifo!Put(b)
    BY <2>1, <2>3, <2>4, <2>5 DEF Fifo!Put
  <2> QED
    BY <1>1, <2>1, <2>6, <2>7 DEF QueueInv, Fifo!PipeNext
<1>13. ASSUME NEW p \in Proc, ReadByte(p) PROVE QueueInv' /\ Fifo!PipeNext
  <2>1. readopen = 1
    BY <1>1, <1>13 DEF ReadByte, LockInv, TypeOK
  <2>2. UNCHANGED <<readopen, writeopen>>
    BY <1>13 DEF ReadByte
  <2>3. nread # nwrite /\ nread' = PlusOne(nread) /\ UNCHANGED <<data, nwrite>>
    BY <1>13 DEF ReadByte, Empty
  <2>4. Contents # <<>> /\ Contents' = Tail(Contents) /\ Filled' = Filled - 1
    <3>1. /\ Gap(PlusOne(nread), nwrite) = Gap(nread, nwrite) - 1
          /\ Ring(data, nread, Gap(nread, nwrite)) # <<>>
          /\ Ring(data, PlusOne(nread), Gap(nread, nwrite) - 1)
               = Tail(Ring(data, nread, Gap(nread, nwrite)))
      BY <1>types, <2>3, Dequeues, Zenon
    <3> QED
      BY <1>2, <1>3, <2>3, <3>1
  <2>5. Filled' <= PIPESIZE
    <3>1. Gap(nread, nwrite) \in 0 .. WRAP - 1
      BY <1>1, Gaps DEF TypeOK
    <3> QED
      BY <1>1, <1>2, <2>4, <3>1, Constants
  <2>6. Fifo!Get
    BY <2>1, <2>2, <2>4 DEF Fifo!Get
  <2> QED
    BY <1>1, <2>2, <2>5, <2>6 DEF QueueInv, Fifo!PipeNext
<1>14. ASSUME NEW e \in {"read", "write"}, Pipeclose(e) PROVE QueueInv' /\ Fifo!PipeNext
  <2>1. UNCHANGED <<Contents, Filled>>
    BY <1>4, <1>14 DEF Pipeclose
  <2>3. ASSUME e = "read" PROVE Fifo!PipeNext
    <3>1. readopen = 1 /\ readopen' = 0 /\ writeopen' = writeopen
      BY <1>1, <1>14, <2>3 DEF Pipeclose
    <3> QED
      BY <2>1, <3>1 DEF Fifo!PipeNext, Fifo!CloseRead
  <2>4. ASSUME e = "write" PROVE Fifo!PipeNext
    <3>1. writeopen = 1 /\ writeopen' = 0 /\ readopen' = readopen
      BY <1>1, <1>14, <2>4 DEF Pipeclose
    <3> QED
      BY <2>1, <3>1 DEF Fifo!PipeNext, Fifo!CloseWrite
  <2> QED
    BY <1>1, <2>1, <2>3, <2>4 DEF QueueInv
<1> QED
  BY <1>5, <1>6, <1>7, <1>8, <1>9, <1>10, <1>11, <1>12, <1>13, <1>14 DEF Next

(* No byte is lost, repeated or overtaken, and none enters a full pipe or  *)
(* one whose read end is closed, for any capacity, any width of nread and  *)
(* nwrite, and any processes, killed or not.                               *)
THEOREM PipeIsFifo == Spec => IsFifo
<1>1. Init => QueueInv /\ Fifo!PipeInit
  <2>1. SUFFICES ASSUME Init PROVE QueueInv /\ Fifo!PipeInit
    OBVIOUS
  <2>2. Base
    BY <2>1, BaseKept
  <2>3. Filled = 0
    BY <2>1, Gaps, Constants DEF Init, Filled, Gap, Ahead
  <2>4. Contents = <<>>
    BY <2>3 DEF Contents
  <2> QED
    BY <2>1, <2>2, <2>3, <2>4, Constants DEF Init, QueueInv, Fifo!PipeInit
<1> QED
  BY <1>1, Simulates, PTL DEF Spec, IsFifo, Fifo!PipeSpec
=============================================================================
