------------------------------ MODULE LogProof ------------------------------
(***************************************************************************)
(* Proofs about Log: the log is an atomic store, for any blocks, threads,  *)
(* operations and sizes, and any crashes, also during recovery.            *)
(***************************************************************************)
EXTENDS Log, SequenceTheorems, FiniteSetTheorems, TLAPS

BootPcs == {"read_head", "install_rec", "clear_rec"}
CommitPcs == {"write_log", "write_head", "install", "clear", "done"}

Active == {t \in Thread : pc[t] \in {"in_op", "holding"}}

(***************************************************************************)
(* The invariant.                                                          *)
(***************************************************************************)
(* One thread commits, while no operation runs; after a crash one thread   *)
(* recovers, and all others wait for it.                                   *)
ControlInv ==
  /\ IsFiniteSet(Active) /\ outstanding = Cardinality(Active)
  /\ committing => Active = {}
  /\ \A t \in Thread : pc[t] \in CommitPcs => committing
  /\ \A s, t \in Thread : pc[s] \in CommitPcs /\ pc[t] \in CommitPcs => s = t
  /\ \A t \in Thread :
       /\ pc[t] \in BootPcs \cup {"off"} <=> Booting
       /\ pc[t] \in BootPcs => t = Booter
       /\ pc[t] \in {"write_log", "install", "install_rec"} => tail[t] \in 1 .. Len(lh)
       /\ pc[t] \notin {"write_log", "install", "install_rec"} => tail[t] = 1

(* The blocks whose buffers log_write() has pinned and install_trans() has *)
(* not yet released.                                                       *)
Installed(i) ==
  \E t \in Thread : pc[t] \in BootPcs \cup {"clear"} \/ (pc[t] = "install" /\ i < tail[t])
InLog(k) == \E i \in 1 .. Len(lh) : lh[i] = k
Pinned(k) == \E i \in 1 .. Len(lh) : lh[i] = k /\ ~Installed(i)

(* refcnt counts the holder and the pin; a pinned buffer is not recycled.  *)
BufferInv ==
  /\ \A t \in Thread : hold[t] # None <=> pc[t] \in {"reading", "holding"}
  /\ \A t \in Thread, k \in Block : hold[t] = k <=> locked[k] = t
  /\ \A k \in Block :
       /\ refcnt[k] = (IF locked[k] = None THEN 0 ELSE 1) + (IF Pinned(k) THEN 1 ELSE 0)
       /\ Pinned(k) => cache[k] # None

(* Neither the log in memory nor the header names a block twice, and each  *)
(* fits on disk.                                                           *)
ListInv ==
  /\ Len(lh) <= LogSectors - 1 /\ Len(header) <= LogSectors - 1
  /\ \A i, j \in 1 .. Len(lh) : lh[i] = lh[j] => i = j
  /\ \A i, j \in 1 .. Len(header) : header[i] = header[j] => i = j
  /\ lh # <<>> => Active # {} \/ committing \/ Booting
  /\ \A t \in Thread :
       /\ pc[t] \in {"read_head", "done"} => lh = <<>>
       /\ pc[t] = "write_head" => lh # <<>>
       /\ pc[t] \in {"install", "clear", "install_rec", "clear_rec"} => header = lh
  /\ header # <<>> => \E t \in Thread : pc[t] \in BootPcs \cup {"install", "clear"}

(* A block is on its home place unless the log holds it; and what is on    *)
(* disk, or in the log, at each point of a commit and of a recovery.       *)
DataInv ==
  /\ \A k \in Block : ~InLog(k) \/ Booting => Contents(k) = disk[k]
  /\ \A t \in Thread, i \in 1 .. Len(lh) :
       /\ \/ pc[t] = "write_log" /\ i < tail[t]
          \/ pc[t] \in {"write_head", "install"}
          => logDisk[i] = Contents(lh[i])
       /\ \/ pc[t] \in {"install", "install_rec"} /\ i < tail[t]
          \/ pc[t] \in {"clear", "clear_rec"}
          => logDisk[i] = disk[lh[i]] /\ Contents(lh[i]) = disk[lh[i]]

Inv == TypeOK /\ ControlInv /\ BufferInv /\ ListInv /\ DataInv

(***************************************************************************)
(* What recovery would find, and what processes see.                       *)
(***************************************************************************)
Rec(h, d, l) ==
  [k \in Block |-> LET at == {i \in 1 .. Len(h) : h[i] = k} IN
                   IF at = {} THEN d[k] ELSE l[CHOOSE i \in at : TRUE]]

View == [k \in Block |-> Contents(k)]
Seen == IF Booting THEN Recovered ELSE View

LEMMA Found ==
  ASSUME NEW h \in Seq(Block), NEW d, NEW l,
         \A i, j \in 1 .. Len(h) : h[i] = h[j] => i = j
  PROVE  /\ Rec(h, d, l) = [k \in Block |-> Rec(h, d, l)[k]]
         /\ \A i \in 1 .. Len(h) : Rec(h, d, l)[h[i]] = l[i]
         /\ \A k \in Block : (\A i \in 1 .. Len(h) : h[i] # k) => Rec(h, d, l)[k] = d[k]
<1>1. Rec(h, d, l) = [k \in Block |-> Rec(h, d, l)[k]]
  BY DEF Rec
<1>2. ASSUME NEW i \in 1 .. Len(h) PROVE Rec(h, d, l)[h[i]] = l[i]
  <2>1. h[i] \in Block
    OBVIOUS
  <2>2. {j \in 1 .. Len(h) : h[j] = h[i]} = {i}
    OBVIOUS
  <2>3. (CHOOSE j \in {i} : TRUE) = i
    OBVIOUS
  <2> QED
    BY <2>1, <2>2, <2>3 DEF Rec
<1>3. ASSUME NEW k \in Block, \A i \in 1 .. Len(h) : h[i] # k PROVE Rec(h, d, l)[k] = d[k]
  <2>1. {j \in 1 .. Len(h) : h[j] = k} = {}
    BY <1>3
  <2> QED
    BY <2>1 DEF Rec
<1> QED
  BY <1>1, <1>2, <1>3

LEMMA RecoveredIs == Recovered = Rec(header, disk, logDisk)
BY DEF Recovered, Rec

(* A step that changes none of the three is not seen by the store.         *)
LEMMA Unseen ==
  ASSUME UNCHANGED <<Recovered, Seen, Active>> PROVE UNCHANGED Store!storeVars
BY DEF Store!storeVars, Seen, View, Active

LEMMA ThreadFacts ==
  ASSUME TypeOK, ControlInv, NEW t \in Thread
  PROVE  /\ t # None /\ Booter \in Thread
         /\ pc[t] \in CommitPcs \cup {"in_op", "holding", "idle", "reading", "begin", "asleep"} => ~Booting
         /\ pc[t] \in BootPcs => Booting
         /\ pc[t] \in {"in_op", "holding"} =>
              /\ t \in Active /\ ~committing
              /\ \A s \in Thread : pc[s] \notin CommitPcs
         /\ pc[t] \in CommitPcs => \A s \in Thread : pc[s] \notin {"in_op", "holding"}
BY LogAssumption DEF TypeOK, ControlInv, Booting, Booter, BootPcs, CommitPcs, Active, Pcs

(***************************************************************************)
(* Steps that move threads between operations.                             *)
(***************************************************************************)
Between == {"idle", "begin", "asleep", "in_op", "done"}
Aside == Between \cup {"reading", "holding"}

(* Threads that do not read or write the log's blocks leave them as they   *)
(* are; so does filling a buffer from the disk, or emptying it.            *)
LEMMA Still ==
  ASSUME ControlInv, DataInv, UNCHANGED <<diskVars, lh, tail>>,
         \A k \in Block : Contents(k)' = Contents(k), lh \in Seq(Block),
         \A s \in Thread : \/ pc'[s] = pc[s]
                           \/ pc[s] \in Aside /\ pc'[s] \in Aside \cup {"write_log"}
  PROVE  /\ DataInv' /\ Booting' = Booting /\ UNCHANGED <<Recovered, Seen>>
         /\ \A k : Pinned(k)' = Pinned(k)
<1>1. UNCHANGED <<disk, logDisk, header>>
  BY DEF diskVars
<1>2. Booting' = Booting
  BY DEF Booting, Aside, Between
<1>3. \A i : Installed(i)' = Installed(i)
  BY DEF Installed, Aside, Between, BootPcs
<1>4. \A k : Pinned(k)' = Pinned(k)
  BY <1>3 DEF Pinned
<1>5. DataInv'
  <2>1. \A k : InLog(k)' = InLog(k)
    BY DEF InLog
  <2>2. ASSUME NEW s \in Thread, pc'[s] = "write_log", pc[s] # pc'[s] PROVE tail'[s] = 1
    BY <2>2 DEF ControlInv, Aside, Between
  <2>3. ASSUME NEW i \in 1 .. Len(lh) PROVE i >= 1 /\ lh[i] \in Block
    OBVIOUS
  <2> QED
    BY <1>1, <1>2, <2>1, <2>2, <2>3 DEF DataInv, Aside, Between
<1>6. View' = View
  BY DEF View
<1> QED
  BY <1>1, <1>2, <1>4, <1>5, <1>6 DEF Seen, Recovered

LEMMA Quiet ==
  ASSUME TypeOK, ControlInv, BufferInv, DataInv, pc' \in [Thread -> Pcs],
         UNCHANGED <<diskVars, bufVars, lh, tail, hold>>,
         \A s \in Thread : \/ pc'[s] = pc[s]
                           \/ pc[s] \in Between /\ pc'[s] \in Between \cup {"write_log"}
  PROVE  /\ BufferInv' /\ DataInv'
         /\ Booting' = Booting /\ UNCHANGED <<Recovered, Seen>>
<1>1. UNCHANGED <<disk, cache, refcnt, locked>>
  BY DEF diskVars, bufVars
<1>2. \A k \in Block : Contents(k)' = Contents(k)
  BY <1>1 DEF Contents
<1>3. \A s \in Thread : \/ pc'[s] = pc[s]
                        \/ pc[s] \in Aside /\ pc'[s] \in Aside \cup {"write_log"}
  BY DEF Aside
<1>4. /\ DataInv' /\ Booting' = Booting /\ UNCHANGED <<Recovered, Seen>>
      /\ \A k : Pinned(k)' = Pinned(k)
  <2>1. lh \in Seq(Block) /\ UNCHANGED <<diskVars, lh, tail>>
    BY DEF TypeOK
  <2> QED
    BY <1>2, <1>3, <2>1, Still
<1>5. BufferInv'
  BY <1>1, <1>4 DEF BufferInv, Between
<1> QED
  BY <1>4, <1>5

LEMMA SameActive ==
  ASSUME \A s \in Thread : pc'[s] \in {"in_op", "holding"} <=> pc[s] \in {"in_op", "holding"}
  PROVE  Active' = Active
BY Zenon DEF Active

LEMMA CallStep ==
  ASSUME Inv, NEW t \in Thread, Call(t) PROVE Inv' /\ UNCHANGED Store!storeVars
<1>1. /\ pc[t] = "idle" /\ pc' = [pc EXCEPT ![t] = "begin"]
      /\ UNCHANGED <<diskVars, bufVars, logVars, tail, hold>>
      /\ TypeOK /\ ControlInv /\ BufferInv /\ ListInv /\ DataInv
  BY DEF Call, At, Goto, Inv
<1>2. TypeOK'
  BY <1>1, LogAssumption, SMTT(30) DEF Call, TypeOK, Value, Pcs, diskVars, bufVars, logVars
<1>a. \A s \in Thread : pc'[s] = IF s = t THEN "begin" ELSE pc[s]
  BY <1>1 DEF TypeOK
<1>3. Active' = Active
  BY <1>1, <1>a, SameActive
<1>4. BufferInv' /\ DataInv' /\ Booting' = Booting /\ UNCHANGED <<Recovered, Seen>>
  <2>1. pc' \in [Thread -> Pcs] /\ UNCHANGED <<diskVars, bufVars, lh, tail, hold>>
    BY <1>1, <1>2 DEF TypeOK, logVars
  <2>2. \A s \in Thread : \/ pc'[s] = pc[s]
                          \/ pc[s] \in Between /\ pc'[s] \in Between \cup {"write_log"}
    BY <1>1, <1>a DEF Between
  <2> QED
    BY <1>1, <2>1, <2>2, Quiet
<1>5. ControlInv'
  BY <1>1, <1>3, <1>4 DEF ControlInv, TypeOK, BootPcs, CommitPcs, logVars
<1>6. ListInv'
  BY <1>1, <1>3, <1>4 DEF ListInv, TypeOK, BootPcs, logVars, diskVars
<1> QED
  BY <1>2, <1>3, <1>4, <1>5, <1>6, Unseen DEF Inv

LEMMA BeginStep ==
  ASSUME Inv, NEW t \in Thread, BeginOp(t)
  PROVE  Inv' /\ [Store!StoreNext]_(Store!storeVars)
<1>1. /\ pc[t] = "begin" /\ TypeOK /\ ControlInv /\ BufferInv /\ ListInv /\ DataInv
      /\ UNCHANGED <<diskVars, bufVars, lh, committing, opVars, tail, hold, crashes, panicked>>
  BY DEF BeginOp, At, Inv
<1>2. CASE pc' = [pc EXCEPT ![t] = "asleep"] /\ UNCHANGED outstanding
  <2>a. \A s \in Thread : pc'[s] = IF s = t THEN "asleep" ELSE pc[s]
    BY <1>1, <1>2 DEF TypeOK
  <2>1. TypeOK'
    BY <1>1, <1>2 DEF TypeOK, Pcs, diskVars, bufVars, opVars
  <2>2. Active' = Active
    BY <1>1, <2>a, SameActive
  <2>3. BufferInv' /\ DataInv' /\ Booting' = Booting /\ UNCHANGED <<Recovered, Seen>>
    <3>1. pc' \in [Thread -> Pcs] /\ UNCHANGED <<diskVars, bufVars, lh, tail, hold>>
      BY <1>1, <2>1 DEF TypeOK
    <3>2. \A s \in Thread : \/ pc'[s] = pc[s]
                            \/ pc[s] \in Between /\ pc'[s] \in Between \cup {"write_log"}
      BY <1>1, <2>a DEF Between
    <3> QED
      BY <1>1, <3>1, <3>2, Quiet
  <2>4. ControlInv'
    BY <1>1, <1>2, <2>2, <2>3 DEF ControlInv, TypeOK, BootPcs, CommitPcs
  <2>5. ListInv'
    BY <1>1, <1>2, <2>2, <2>3 DEF ListInv, TypeOK, BootPcs, diskVars
  <2> QED
    BY <2>1, <2>2, <2>3, <2>4, <2>5, Unseen DEF Inv
<1>3. CASE pc' = [pc EXCEPT ![t] = "in_op"] /\ outstanding' = outstanding + 1 /\ ~committing
  <2>a. \A s \in Thread : pc'[s] = IF s = t THEN "in_op" ELSE pc[s]
    BY <1>1, <1>3 DEF TypeOK
  <2>1. TypeOK'
    BY <1>1, <1>3 DEF TypeOK, Pcs, diskVars, bufVars, opVars
  <2>2. Active' = Active \cup {t} /\ t \notin Active
    BY <1>1, <1>3 DEF Active, TypeOK
  <2>3. IsFiniteSet(Active') /\ Cardinality(Active') = outstanding'
    <3>1. IsFiniteSet(Active) /\ outstanding = Cardinality(Active)
      BY <1>1 DEF ControlInv
    <3>2. IsFiniteSet(Active \cup {t}) /\ Cardinality(Active \cup {t}) = outstanding + 1
      BY <2>2, <3>1, FS_AddElement
    <3> QED
      BY <1>3, <2>2, <3>2
  <2>4. BufferInv' /\ DataInv' /\ Booting' = Booting /\ UNCHANGED <<Recovered, Seen>>
    <3>1. pc' \in [Thread -> Pcs] /\ UNCHANGED <<diskVars, bufVars, lh, tail, hold>>
      BY <1>1, <2>1 DEF TypeOK
    <3>2. \A s \in Thread : \/ pc'[s] = pc[s]
                            \/ pc[s] \in Between /\ pc'[s] \in Between \cup {"write_log"}
      BY <1>1, <2>a DEF Between
    <3> QED
      BY <1>1, <3>1, <3>2, Quiet
  <2>5. ControlInv'
    BY <1>1, <1>3, <2>3, <2>4 DEF ControlInv, TypeOK, BootPcs, CommitPcs
  <2>6. ListInv'
    BY <1>1, <1>3, <2>2, <2>4 DEF ListInv, TypeOK, BootPcs, diskVars
  <2>7. Store!StoreBegin(t)
    BY <2>2, <2>4 DEF Store!StoreBegin, Active, Seen, View
  <2> QED
    BY <2>1, <2>4, <2>5, <2>6, <2>7 DEF Inv, Store!StoreNext
<1> QED
  BY <1>1, <1>2, <1>3 DEF BeginOp, Waits, Goto

LEMMA EndStep ==
  ASSUME Inv, NEW t \in Thread, EndOp(t)
  PROVE  Inv' /\ [Store!StoreNext]_(Store!storeVars)
<1>1. /\ pc[t] = "in_op" /\ TypeOK /\ ControlInv /\ BufferInv /\ ListInv /\ DataInv
      /\ outstanding' = outstanding - 1 /\ panicked' = committing
      /\ opno' = [opno EXCEPT ![t] = 0] /\ wrote' = [wrote EXCEPT ![t] = {}]
      /\ UNCHANGED <<diskVars, bufVars, lh, ops, tail, hold, crashes>>
  BY DEF EndOp, At, Inv
<1>2. /\ t \in Active /\ ~committing
      /\ \A s \in Thread : pc[s] \notin CommitPcs
  BY <1>1, ThreadFacts
<1>3. /\ IsFiniteSet(Active \ {t})
      /\ Cardinality(Active \ {t}) = outstanding - 1
      /\ outstanding = 1 => Active \ {t} = {}
  <2>1. IsFiniteSet(Active) /\ outstanding = Cardinality(Active) /\ outstanding \in Nat
    BY <1>1 DEF ControlInv, TypeOK
  <2>2. IsFiniteSet(Active \ {t}) /\ Cardinality(Active \ {t}) = outstanding - 1
    BY <1>2, <2>1, FS_RemoveElement
  <2> QED
    BY <2>1, <2>2, FS_EmptySet
<1>4. CASE outstanding = 1
  <2> DEFINE to == IF Len(lh) > 0 THEN "write_log" ELSE "done"
  <2>1. committing' = TRUE /\ pc' = [pc EXCEPT ![t] = to]
    BY <1>4 DEF EndOp, LastOp, Goto
  <2>2. /\ pc' \in [Thread -> Pcs]
        /\ \A s \in Thread : pc'[s] = IF s = t THEN to ELSE pc[s]
    BY <1>1, <2>1 DEF TypeOK, Pcs
  <2>3. TypeOK'
    <3>1. opno' \in [Thread -> Value] /\ wrote' \in [Thread -> SUBSET Block]
      BY <1>1, LogAssumption DEF TypeOK, Value
    <3>2. outstanding' \in Nat /\ committing' \in BOOLEAN /\ panicked' \in BOOLEAN
      BY <1>1, <1>4, <2>1 DEF TypeOK
    <3> QED
      BY <1>1, <2>2, <3>1, <3>2 DEF TypeOK, diskVars, bufVars
  <2>4. Active' = {}
    <3>1. \A s \in Thread : pc'[s] \notin {"in_op", "holding"}
      BY <1>1, <1>3, <1>4, <2>2 DEF Active
    <3> QED
      BY <3>1 DEF Active
  <2>5. BufferInv' /\ DataInv' /\ Booting' = Booting /\ UNCHANGED <<Recovered, Seen>>
    <3>1. \A s \in Thread :
            \/ pc'[s] = pc[s]
            \/ pc[s] \in Between /\ pc'[s] \in Between \cup {"write_log"}
      BY <1>1, <2>2 DEF Between
    <3> QED
      BY <1>1, <2>2, <3>1, Quiet
  <2>6. ControlInv'
    <3>1. IsFiniteSet(Active') /\ outstanding' = Cardinality(Active')
      BY <1>1, <1>4, <2>4, FS_EmptySet
    <3>2. Len(lh) \in Nat
      BY <1>1 DEF TypeOK
    <3> QED
      BY <1>1, <1>2, <2>1, <2>2, <2>4, <2>5, <3>1, <3>2
         DEF ControlInv, BootPcs, CommitPcs
  <2>7. ListInv'
    <3>1. lh \in Seq(Block) /\ (to = "done" => lh = <<>>)
      BY <1>1 DEF TypeOK
    <3> QED
      BY <1>1, <2>1, <2>2, <2>5, <3>1 DEF ListInv, BootPcs, diskVars
  <2>8. Store!StoreEnd(t)
    BY <1>2, <1>3, <1>4, <2>4, <2>5 DEF Store!StoreEnd, Active, Seen, View
  <2> QED
    BY <2>3, <2>5, <2>6, <2>7, <2>8 DEF Inv, Store!StoreNext
<1>5. CASE outstanding # 1
  <2>1. /\ committing' = committing
        /\ pc' = [s \in Thread |-> IF s = t THEN "idle"
                                  ELSE IF Woken(s) THEN "begin" ELSE pc[s]]
    BY <1>5 DEF EndOp, LastOp
  <2>2. /\ pc' \in [Thread -> Pcs]
        /\ \A s \in Thread : pc'[s] = IF s = t THEN "idle"
                                     ELSE IF pc[s] = "asleep" THEN "begin" ELSE pc[s]
    BY <1>1, <2>1 DEF TypeOK, Pcs, Woken
  <2>3. outstanding' \in Nat
    BY <1>1, <1>3, FS_CardinalityType
  <2>4. TypeOK'
    BY <1>1, <1>2, <2>1, <2>2, <2>3, LogAssumption DEF TypeOK, diskVars, bufVars, Value
  <2>5. Active' = Active \ {t}
    BY <1>1, <2>2 DEF Active
  <2>6. BufferInv' /\ DataInv' /\ Booting' = Booting /\ UNCHANGED <<Recovered, Seen>>
    <3>1. \A s \in Thread :
            \/ pc'[s] = pc[s]
            \/ pc[s] \in Between /\ pc'[s] \in Between \cup {"write_log"}
      BY <1>1, <2>2 DEF Between
    <3> QED
      BY <1>1, <2>2, <3>1, Quiet
  <2>7. ControlInv'
    <3>1. IsFiniteSet(Active') /\ outstanding' = Cardinality(Active')
      BY <1>1, <1>3, <2>5
    <3> QED
      BY <1>1, <1>2, <2>1, <2>2, <2>6, <3>1 DEF ControlInv, BootPcs, CommitPcs
  <2>8. ListInv'
    <3>1. Cardinality(Active') # 0
      BY <1>1, <1>3, <1>5, <2>5 DEF TypeOK
    <3>2. Active' # {}
      BY <3>1, FS_EmptySet
    <3> QED
      BY <1>1, <2>1, <2>2, <2>6, <3>2 DEF ListInv, BootPcs, diskVars
  <2>9. Store!StoreEnd(t)
    BY <1>2, <2>5, <2>6 DEF Store!StoreEnd, Active, Seen, View
  <2> QED
    BY <2>4, <2>6, <2>7, <2>8, <2>9 DEF Inv, Store!StoreNext
<1> QED
  BY <1>4, <1>5

LEMMA DoneStep ==
  ASSUME Inv, NEW t \in Thread, Done(t) PROVE Inv' /\ UNCHANGED Store!storeVars
<1>1. /\ pc[t] = "done" /\ TypeOK /\ ControlInv /\ BufferInv /\ ListInv /\ DataInv
      /\ committing' = FALSE
      /\ UNCHANGED <<diskVars, bufVars, lh, outstanding, opVars, tail, hold, crashes,
                     panicked>>
  BY DEF Done, At, Inv
<1>2. /\ pc' \in [Thread -> Pcs]
      /\ \A s \in Thread : pc'[s] = IF s = t THEN "idle"
                                   ELSE IF pc[s] = "asleep" THEN "begin" ELSE pc[s]
  BY <1>1 DEF Done, TypeOK, Pcs, Woken
<1>3. TypeOK'
  BY <1>1, <1>2 DEF TypeOK, diskVars, bufVars, opVars
<1>4. Active' = Active
  BY <1>1, <1>2, SameActive
<1>5. BufferInv' /\ DataInv' /\ Booting' = Booting /\ UNCHANGED <<Recovered, Seen>>
  <2>1. \A s \in Thread :
          \/ pc'[s] = pc[s]
          \/ pc[s] \in Between /\ pc'[s] \in Between \cup {"write_log"}
    BY <1>1, <1>2 DEF Between
  <2> QED
    BY <1>1, <1>2, <2>1, Quiet
<1>6. lh = <<>>
  BY <1>1 DEF ListInv
<1>7. ControlInv'
  BY <1>1, <1>2, <1>4, <1>5 DEF ControlInv, BootPcs, CommitPcs
<1>8. ListInv'
  BY <1>1, <1>2, <1>5, <1>6 DEF ListInv, BootPcs, diskVars
<1> QED
  BY <1>3, <1>4, <1>5, <1>7, <1>8, Unseen DEF Inv

(***************************************************************************)
(* Steps on the buffers.                                                   *)
(***************************************************************************)
LEMMA ReadStep ==
  ASSUME Inv, NEW t \in Thread, NEW b \in Block, ReadBlock(t, b)
  PROVE  Inv' /\ UNCHANGED Store!storeVars
<1>1. /\ pc[t] = "idle" /\ TypeOK /\ ControlInv /\ BufferInv /\ ListInv /\ DataInv
      /\ locked[b] = None /\ locked' = [locked EXCEPT ![b] = t]
      /\ refcnt' = [refcnt EXCEPT ![b] = @ + 1]
      /\ cache' = [cache EXCEPT ![b] = Contents(b)]
      /\ hold' = [hold EXCEPT ![t] = b] /\ pc' = [pc EXCEPT ![t] = "reading"]
      /\ UNCHANGED <<diskVars, logVars, opVars, tail, crashes, panicked>>
  BY DEF ReadBlock, Bread, Goto, At, Inv
<1>2. \A s \in Thread : pc'[s] = IF s = t THEN "reading" ELSE pc[s]
  BY <1>1 DEF TypeOK
<1>3. Contents(b) \in Value /\ Contents(b) # None /\ t # None /\ b # None
  BY <1>1, LogAssumption DEF TypeOK, Contents, Value
<1>4. TypeOK'
  <2>1. /\ cache' \in [Block -> Value \cup {None}] /\ refcnt' \in [Block -> Nat]
        /\ locked' \in [Block -> Thread \cup {None}]
    BY <1>1, <1>3 DEF TypeOK
  <2>2. pc' \in [Thread -> Pcs] /\ hold' \in [Thread -> Block \cup {None}]
    BY <1>1 DEF TypeOK, Pcs
  <2> QED
    BY <1>1, <2>1, <2>2 DEF TypeOK, diskVars, logVars, opVars
<1>5. Active' = Active
  BY <1>1, <1>2, SameActive
<1>6. /\ DataInv' /\ Booting' = Booting /\ UNCHANGED <<Recovered, Seen>>
      /\ \A k : Pinned(k)' = Pinned(k)
  <2>1. \A k \in Block : Contents(k)' = Contents(k)
    BY <1>1, <1>3 DEF TypeOK, Contents, diskVars
  <2>2. \A s \in Thread : \/ pc'[s] = pc[s]
                          \/ pc[s] \in Aside /\ pc'[s] \in Aside \cup {"write_log"}
    BY <1>1, <1>2 DEF Aside, Between
  <2>3. lh \in Seq(Block) /\ UNCHANGED <<diskVars, lh, tail>>
    BY <1>1 DEF TypeOK, logVars
  <2> QED
    BY <1>1, <2>1, <2>2, <2>3, Still
<1>7. ControlInv'
  BY <1>1, <1>2, <1>5, <1>6 DEF ControlInv, BootPcs, CommitPcs, logVars
<1>8. BufferInv'
  <2>1. \A s \in Thread : hold'[s] = IF s = t THEN b ELSE hold[s]
    BY <1>1 DEF TypeOK
  <2>2. \A k \in Block : /\ locked'[k] = IF k = b THEN t ELSE locked[k]
                         /\ refcnt'[k] = IF k = b THEN refcnt[k] + 1 ELSE refcnt[k]
                         /\ cache[k] # None => cache'[k] # None
    BY <1>1, <1>3 DEF TypeOK
  <2>3. \A k \in Block : /\ Pinned(k) => cache[k] # None
                         /\ refcnt[k] = (IF locked[k] = None THEN 0 ELSE 1)
                                       + (IF Pinned(k) THEN 1 ELSE 0)
    BY <1>1 DEF BufferInv
  <2>4. \A s \in Thread : hold'[s] # None <=> pc'[s] \in {"reading", "holding"}
    BY <1>1, <1>2, <1>3, <2>1 DEF BufferInv
  <2>5. ASSUME NEW s \in Thread, NEW k \in Block PROVE hold'[s] = k <=> locked'[k] = s
    <3>1. (hold[s] = k <=> locked[k] = s) /\ s # None /\ k # None
      BY <1>1, LogAssumption DEF BufferInv
    <3>2. hold[t] = None
      BY <1>1 DEF BufferInv
    <3> QED
      BY <1>1, <1>3, <2>1, <2>2, <3>1, <3>2
  <2>6. \A k \in Block :
          /\ refcnt'[k] = (IF locked'[k] = None THEN 0 ELSE 1)
                         + (IF Pinned(k)' THEN 1 ELSE 0)
          /\ Pinned(k)' => cache'[k] # None
    BY <1>1, <1>3, <1>6, <2>2, <2>3
  <2> QED
    BY <2>4, <2>5, <2>6 DEF BufferInv
<1>9. ListInv'
  BY <1>1, <1>2, <1>5, <1>6 DEF ListInv, BootPcs, diskVars, logVars
<1> QED
  BY <1>4, <1>5, <1>6, <1>7, <1>8, <1>9, Unseen DEF Inv

LEMMA BrelseStep ==
  ASSUME Inv, NEW t \in Thread, Brelse(t) PROVE Inv' /\ UNCHANGED Store!storeVars
<1> DEFINE b == hold[t]
<1>1. /\ TypeOK /\ ControlInv /\ BufferInv /\ ListInv /\ DataInv
      /\ \/ pc[t] = "reading" /\ pc' = [pc EXCEPT ![t] = "idle"]
         \/ pc[t] = "holding" /\ pc' = [pc EXCEPT ![t] = "in_op"]
      /\ locked' = [locked EXCEPT ![b] = None]
      /\ refcnt' = [refcnt EXCEPT ![b] = @ - 1]
      /\ hold' = [hold EXCEPT ![t] = None]
      /\ UNCHANGED <<diskVars, cache, logVars, opVars, tail, crashes, panicked>>
  BY DEF Brelse, Goto, At, Inv
<1>2. /\ pc' \in [Thread -> Pcs]
      /\ \A s \in Thread : s # t => pc'[s] = pc[s]
      /\ pc'[t] = IF pc[t] = "reading" THEN "idle" ELSE "in_op"
  BY <1>1 DEF TypeOK, Pcs
<1>3. b \in Block /\ locked[b] = t /\ t # None /\ b # None
  BY <1>1, LogAssumption DEF BufferInv, TypeOK
<1>4. refcnt[b] = 1 + (IF Pinned(b) THEN 1 ELSE 0)
  BY <1>1, <1>3 DEF BufferInv
<1>5. TypeOK'
  <2>1. refcnt' \in [Block -> Nat] /\ locked' \in [Block -> Thread \cup {None}]
    BY <1>1, <1>3, <1>4 DEF TypeOK
  <2>2. hold' \in [Thread -> Block \cup {None}]
    BY <1>1 DEF TypeOK
  <2> QED
    BY <1>1, <1>2, <2>1, <2>2 DEF TypeOK, diskVars, logVars, opVars
<1>6. Active' = Active
  BY <1>1, <1>2, SameActive
<1>7. /\ DataInv' /\ Booting' = Booting /\ UNCHANGED <<Recovered, Seen>>
      /\ \A k : Pinned(k)' = Pinned(k)
  <2>1. \A k \in Block : Contents(k)' = Contents(k)
    BY <1>1 DEF Contents, diskVars
  <2>2. \A s \in Thread : \/ pc'[s] = pc[s]
                          \/ pc[s] \in Aside /\ pc'[s] \in Aside \cup {"write_log"}
    BY <1>1, <1>2 DEF Aside, Between
  <2>3. lh \in Seq(Block) /\ UNCHANGED <<diskVars, lh, tail>>
    BY <1>1 DEF TypeOK, logVars
  <2> QED
    BY <1>1, <2>1, <2>2, <2>3, Still
<1>8. ControlInv'
  BY <1>1, <1>2, <1>6, <1>7 DEF ControlInv, BootPcs, CommitPcs, logVars
<1>9. BufferInv'
  <2>1. \A s \in Thread : hold'[s] = IF s = t THEN None ELSE hold[s]
    BY <1>1 DEF TypeOK
  <2>2. \A k \in Block : /\ locked'[k] = IF k = b THEN None ELSE locked[k]
                         /\ refcnt'[k] = IF k = b THEN refcnt[k] - 1 ELSE refcnt[k]
    BY <1>1, <1>3 DEF TypeOK
  <2>3. \A k \in Block : /\ Pinned(k) => cache[k] # None
                         /\ refcnt[k] = (IF locked[k] = None THEN 0 ELSE 1)
                                       + (IF Pinned(k) THEN 1 ELSE 0)
    BY <1>1 DEF BufferInv
  <2>4. \A s \in Thread : hold'[s] # None <=> pc'[s] \in {"reading", "holding"}
    BY <1>1, <1>2, <2>1 DEF BufferInv
  <2>5. ASSUME NEW s \in Thread, NEW k \in Block PROVE hold'[s] = k <=> locked'[k] = s
    <3>1. (hold[s] = k <=> locked[k] = s) /\ s # None /\ k # None
      BY <1>1, LogAssumption DEF BufferInv
    <3> QED
      BY <1>3, <2>1, <2>2, <3>1
  <2>6. \A k \in Block :
          /\ refcnt'[k] = (IF locked'[k] = None THEN 0 ELSE 1)
                         + (IF Pinned(k)' THEN 1 ELSE 0)
          /\ Pinned(k)' => cache'[k] # None
    BY <1>1, <1>3, <1>4, <1>7, <2>2, <2>3
  <2> QED
    BY <2>4, <2>5, <2>6 DEF BufferInv
<1>10. ListInv'
  BY <1>1, <1>2, <1>6, <1>7 DEF ListInv, BootPcs, diskVars, logVars
<1> QED
  BY <1>5, <1>6, <1>7, <1>8, <1>9, <1>10, Unseen DEF Inv

LEMMA RecycleStep ==
  ASSUME Inv, NEW b \in Block, Recycle(b) PROVE Inv' /\ UNCHANGED Store!storeVars
<1>1. /\ TypeOK /\ ControlInv /\ BufferInv /\ ListInv /\ DataInv
      /\ refcnt[b] = 0 /\ cache' = [cache EXCEPT ![b] = None]
      /\ UNCHANGED <<diskVars, refcnt, locked, logVars, opVars, pc, tail, hold,
                     crashes, panicked>>
  BY DEF Recycle, Inv
<1>2. TypeOK'
  BY <1>1 DEF TypeOK, diskVars, logVars, opVars
<1>3. ~Pinned(b) /\ lh \in Seq(Block)
  BY <1>1 DEF BufferInv, TypeOK
<1>4. Contents(b) = disk[b]
  <2>1. CASE ~InLog(b) \/ Booting
    BY <1>1, <2>1 DEF DataInv
  <2>2. CASE InLog(b) /\ ~Booting
    <3>1. PICK i \in 1 .. Len(lh) : lh[i] = b
      BY <2>2 DEF InLog
    <3>2. PICK t \in Thread : pc[t] \in BootPcs \cup {"clear"} \/ (pc[t] = "install" /\ i < tail[t])
      BY <1>3, <3>1 DEF Pinned, Installed
    <3>3. pc[t] = "clear" \/ (pc[t] = "install" /\ i < tail[t])
      BY <2>2, <3>2 DEF Booting, BootPcs
    <3> QED
      BY <1>1, <3>1, <3>3 DEF DataInv
  <2> QED
    BY <2>1, <2>2
<1>5. Active' = Active
  BY <1>1, SameActive
<1>6. /\ DataInv' /\ Booting' = Booting /\ UNCHANGED <<Recovered, Seen>>
      /\ \A k : Pinned(k)' = Pinned(k)
  <2>1. \A k \in Block : Contents(k)' = Contents(k)
    BY <1>1, <1>4 DEF TypeOK, Contents, diskVars
  <2>2. UNCHANGED <<diskVars, lh, tail>> /\ \A s \in Thread : pc'[s] = pc[s]
    BY <1>1 DEF logVars
  <2> QED
    BY <1>1, <1>3, <2>1, <2>2, Still
<1>7. ControlInv'
  BY <1>1, <1>5, <1>6 DEF ControlInv, logVars
<1>8. BufferInv'
  <2>1. \A k \in Block : cache'[k] = IF k = b THEN None ELSE cache[k]
    BY <1>1 DEF TypeOK
  <2> QED
    BY <1>1, <1>3, <1>6, <2>1 DEF BufferInv
<1>9. ListInv'
  BY <1>1, <1>5, <1>6 DEF ListInv, diskVars, logVars
<1> QED
  BY <1>2, <1>5, <1>6, <1>7, <1>8, <1>9, Unseen DEF Inv

LEMMA WriteStep ==
  ASSUME Inv, NEW t \in Thread, NEW b \in Block, LogWrite(t, b)
  PROVE  Inv' /\ [Store!StoreNext]_(Store!storeVars)
<1> DEFINE full == Len(lh) >= LOGSIZE \/ Len(lh) >= LogSectors - 1
<1>1. /\ pc[t] = "in_op" /\ locked[b] = None
      /\ TypeOK /\ ControlInv /\ BufferInv /\ ListInv /\ DataInv
      /\ UNCHANGED <<diskVars, outstanding, committing, opno, ops, tail, crashes>>
  BY DEF LogWrite, At, Inv
<1>2. CASE full
  <2>1. panicked' = TRUE /\ UNCHANGED <<lh, cache, refcnt, locked, hold, wrote, pc>>
    BY <1>2 DEF LogWrite
  <2>2. TypeOK'
    BY <1>1, <2>1 DEF TypeOK, diskVars
  <2>3. Active' = Active
    BY <2>1, SameActive
  <2>4. /\ DataInv' /\ Booting' = Booting /\ UNCHANGED <<Recovered, Seen>>
        /\ \A k : Pinned(k)' = Pinned(k)
    <3>1. \A k \in Block : Contents(k)' = Contents(k)
      BY <1>1, <2>1 DEF Contents, diskVars
    <3>2. UNCHANGED <<diskVars, lh, tail>> /\ lh \in Seq(Block)
          /\ \A s \in Thread : pc'[s] = pc[s]
      BY <1>1, <2>1 DEF TypeOK
    <3> QED
      BY <1>1, <3>1, <3>2, Still
  <2>5. ControlInv' /\ BufferInv' /\ ListInv'
    BY <1>1, <2>1, <2>3, <2>4 DEF ControlInv, BufferInv, ListInv, diskVars
  <2> QED
    BY <2>2, <2>3, <2>4, <2>5, Unseen DEF Inv
<1>3. CASE ~full
  <2>1. /\ cache' = [cache EXCEPT ![b] = opno[t]]
        /\ refcnt' = [refcnt EXCEPT ![b] = @ + 1 + Pin(b)]
        /\ locked' = [locked EXCEPT ![b] = t] /\ hold' = [hold EXCEPT ![t] = b]
        /\ lh' = IF InLog(b) THEN lh ELSE Append(lh, b)
        /\ wrote' = [wrote EXCEPT ![t] = @ \cup {b}]
        /\ pc' = [pc EXCEPT ![t] = "holding"] /\ panicked' = panicked
    BY <1>3 DEF LogWrite, Goto, InLog
  <2>2. /\ pc' \in [Thread -> Pcs]
        /\ \A s \in Thread : pc'[s] = IF s = t THEN "holding" ELSE pc[s]
    BY <1>1, <2>1 DEF TypeOK, Pcs
  <2>3. /\ opno[t] \in Value /\ opno[t] # None /\ t # None /\ b # None
        /\ Pin(b) = IF InLog(b) THEN 0 ELSE 1
    BY <1>1, LogAssumption DEF TypeOK, Value, Pin, InLog
  <2>4. /\ t \in Active /\ ~committing /\ ~Booting
        /\ \A s \in Thread : pc[s] \notin CommitPcs \cup BootPcs
    BY <1>1, ThreadFacts
  <2>5. \A i : ~Installed(i) /\ ~Installed(i)'
    BY <2>2, <2>4 DEF Installed, CommitPcs, BootPcs
  <2>6. /\ lh' \in Seq(Block) /\ Len(lh') <= LogSectors - 1
        /\ \A i, j \in 1 .. Len(lh') : lh'[i] = lh'[j] => i = j
        /\ \A k \in Block : InLog(k)' <=> InLog(k) \/ k = b
    <3>1. lh \in Seq(Block) /\ Len(lh) \in Nat /\ LogSectors \in Nat
          /\ Len(lh) < LogSectors - 1
          /\ \A i, j \in 1 .. Len(lh) : lh[i] = lh[j] => i = j
      BY <1>1, <1>3, LogAssumption DEF TypeOK, ListInv
    <3>2. CASE InLog(b)
      BY <2>1, <3>1, <3>2 DEF InLog
    <3>3. CASE ~InLog(b)
      <4>1. /\ lh' \in Seq(Block) /\ Len(lh') = Len(lh) + 1
            /\ \A i \in 1 .. Len(lh) : lh'[i] = lh[i]
            /\ lh'[Len(lh) + 1] = b
        BY <2>1, <3>1, <3>3
      <4>2. \A i \in 1 .. Len(lh) : lh[i] # b
        BY <3>3 DEF InLog
      <4> QED
        BY <3>1, <4>1, <4>2 DEF InLog
    <3> QED
      BY <3>2, <3>3
  <2>7. TypeOK'
    <3>1. cache' \in [Block -> Value \cup {None}] /\ refcnt' \in [Block -> Nat]
      BY <1>1, <2>1, <2>3 DEF TypeOK
    <3>2. /\ locked' \in [Block -> Thread \cup {None}]
          /\ hold' \in [Thread -> Block \cup {None}] /\ wrote' \in [Thread -> SUBSET Block]
      BY <1>1, <2>1 DEF TypeOK
    <3> QED
      BY <1>1, <2>1, <2>2, <2>6, <3>1, <3>2 DEF TypeOK, diskVars
  <2>8. Active' = Active
    BY <1>1, <2>2, SameActive
  <2>9. Booting' = Booting
    BY <1>1, <2>2 DEF Booting
  <2>10. ControlInv'
    BY <1>1, <2>2, <2>4, <2>8, <2>9 DEF ControlInv, BootPcs, CommitPcs
  <2>11. BufferInv'
    <3>1. \A s \in Thread : hold'[s] = IF s = t THEN b ELSE hold[s]
      BY <1>1, <2>1 DEF TypeOK
    <3>2. \A k \in Block : /\ locked'[k] = IF k = b THEN t ELSE locked[k]
                           /\ refcnt'[k] = IF k = b THEN refcnt[b] + 1 + Pin(b) ELSE refcnt[k]
                           /\ cache'[k] = IF k = b THEN opno[t] ELSE cache[k]
      BY <1>1, <2>1 DEF TypeOK
    <3>3. \A k \in Block : (Pinned(k) <=> InLog(k)) /\ (Pinned(k)' <=> InLog(k)')
      BY <2>5 DEF Pinned, InLog
    <3>4. \A k \in Block : /\ InLog(k) => cache[k] # None
                           /\ refcnt[k] = (IF locked[k] = None THEN 0 ELSE 1)
                                         + (IF InLog(k) THEN 1 ELSE 0)
      BY <1>1, <3>3 DEF BufferInv
    <3>5. \A s \in Thread : hold'[s] # None <=> pc'[s] \in {"reading", "holding"}
      BY <1>1, <2>2, <2>3, <3>1 DEF BufferInv
    <3>6. ASSUME NEW s \in Thread, NEW k \in Block PROVE hold'[s] = k <=> locked'[k] = s
      <4>1. (hold[s] = k <=> locked[k] = s) /\ s # None /\ k # None /\ hold[t] = None
        BY <1>1, LogAssumption DEF BufferInv
      <4> QED
        BY <1>1, <2>3, <3>1, <3>2, <4>1
    <3>7. \A k \in Block :
            /\ refcnt'[k] = (IF locked'[k] = None THEN 0 ELSE 1)
                           + (IF InLog(k)' THEN 1 ELSE 0)
            /\ InLog(k)' => cache'[k] # None
      BY <1>1, <2>3, <2>6, <3>2, <3>4
    <3> QED
      BY <3>3, <3>5, <3>6, <3>7 DEF BufferInv
  <2>12. ListInv'
    BY <1>1, <2>2, <2>4, <2>6, <2>8, <2>9 DEF ListInv, BootPcs, CommitPcs, diskVars
  <2>13. \A k \in Block : Contents(k)' = IF k = b THEN opno[t] ELSE Contents(k)
    BY <1>1, <2>1, <2>3 DEF TypeOK, Contents, diskVars
  <2>14. DataInv'
    <3>1. \A k \in Block : ~InLog(k)' \/ Booting' => Contents(k)' = disk'[k]
      BY <1>1, <2>4, <2>6, <2>9, <2>13 DEF DataInv, diskVars
    <3>2. \A s \in Thread : pc'[s] \notin CommitPcs \cup BootPcs
      BY <2>2, <2>4 DEF CommitPcs, BootPcs
    <3> QED
      BY <3>1, <3>2 DEF DataInv, CommitPcs, BootPcs
  <2>15. Store!StoreWrite(t, b, opno[t])
    <3>1. Seen = View /\ Seen' = View' /\ t \in Active
      BY <2>4, <2>9 DEF Seen
    <3>2. View' = [View EXCEPT ![b] = opno[t]]
      BY <2>13 DEF View
    <3>3. Recovered' = Recovered
      BY <1>1 DEF Recovered, diskVars
    <3> QED
      BY <2>8, <3>1, <3>2, <3>3 DEF Store!StoreWrite, Active, Seen, View
  <2> QED
    BY <2>3, <2>7, <2>10, <2>11, <2>12, <2>14, <2>15 DEF Inv, Store!StoreNext
<1> QED
  BY <1>2, <1>3

(***************************************************************************)
(* Steps of a commit.                                                      *)
(***************************************************************************)
LEMMA CommitFacts ==
  ASSUME TypeOK, ControlInv, NEW t \in Thread, pc[t] \in CommitPcs
  PROVE  /\ committing /\ Active = {} /\ ~Booting
         /\ \A s \in Thread : s # t => pc[s] \notin CommitPcs \cup BootPcs \cup {"off"}
<1>1. committing /\ Active = {} /\ ~Booting
  BY ThreadFacts DEF ControlInv
<1>2. ASSUME NEW s \in Thread, s # t PROVE pc[s] \notin CommitPcs \cup BootPcs \cup {"off"}
  BY <1>1, <1>2 DEF ControlInv
<1> QED
  BY <1>1, <1>2

LEMMA WriteLogStep ==
  ASSUME Inv, NEW t \in Thread, WriteLog(t) PROVE Inv' /\ UNCHANGED Store!storeVars
<1> DEFINE n == tail[t]
           b == lh[n]
           last == n = Len(lh)
<1>1. /\ pc[t] = "write_log" /\ locked[b] = None
      /\ TypeOK /\ ControlInv /\ BufferInv /\ ListInv /\ DataInv
      /\ logDisk' = [logDisk EXCEPT ![n] = Contents(b)]
      /\ cache' = [cache EXCEPT ![b] = Contents(b)]
      /\ pc' = IF last THEN [pc EXCEPT ![t] = "write_head"] ELSE pc
      /\ tail' = [tail EXCEPT ![t] = IF last THEN 1 ELSE n + 1]
      /\ UNCHANGED <<disk, header, refcnt, locked, logVars, opVars, hold, crashes,
                     panicked>>
  BY DEF WriteLog, At, Goto, Inv
<1>2. /\ committing /\ Active = {} /\ ~Booting
      /\ \A s \in Thread : s # t => pc[s] \notin CommitPcs \cup BootPcs \cup {"off"}
  BY <1>1, CommitFacts DEF CommitPcs
<1>3. /\ n \in 1 .. Len(lh) /\ lh \in Seq(Block) /\ b \in Block /\ Len(lh) \in Nat
      /\ n \in 1 .. LogSectors - 1
  <2>1. n \in 1 .. Len(lh) /\ lh \in Seq(Block) /\ Len(lh) <= LogSectors - 1
    BY <1>1 DEF ControlInv, ListInv, TypeOK
  <2> QED
    BY <2>1, LogAssumption
<1>4. Contents(b) \in Value /\ Contents(b) # None
  BY <1>1, <1>3, LogAssumption DEF TypeOK, Contents, Value
<1>5. /\ pc' \in [Thread -> Pcs]
      /\ \A s \in Thread : s # t => pc'[s] = pc[s] /\ tail'[s] = tail[s]
      /\ pc'[t] = IF last THEN "write_head" ELSE "write_log"
      /\ tail'[t] = IF last THEN 1 ELSE n + 1
  BY <1>1 DEF TypeOK, Pcs
<1>6. TypeOK'
  <2>1. logDisk' \in [1 .. LogSectors - 1 -> Value] /\ cache' \in [Block -> Value \cup {None}]
    BY <1>1, <1>4 DEF TypeOK
  <2>2. tail' \in [Thread -> Nat]
    BY <1>1, <1>3 DEF TypeOK
  <2> QED
    BY <1>1, <1>5, <2>1, <2>2 DEF TypeOK, logVars, opVars
<1>7. Active' = Active
  BY <1>1, <1>5, SameActive
<1>8. Booting' = Booting
  BY <1>1, <1>5 DEF Booting
<1>9. ControlInv'
  BY <1>1, <1>2, <1>3, <1>5, <1>7, <1>8 DEF ControlInv, BootPcs, CommitPcs, logVars
<1>10. \A k \in Block : Contents(k)' = Contents(k)
  BY <1>1, <1>4 DEF TypeOK, Contents
<1>11. BufferInv'
  <2>1. \A i : Installed(i)' = Installed(i)
    BY <1>1, <1>2, <1>5 DEF Installed, BootPcs, CommitPcs
  <2>2. \A k : Pinned(k)' = Pinned(k)
    BY <1>1, <2>1 DEF Pinned, logVars
  <2>3. \A k \in Block : cache[k] # None => cache'[k] # None
    BY <1>1, <1>4 DEF TypeOK
  <2> QED
    BY <1>1, <1>5, <2>2, <2>3 DEF BufferInv
<1>12. header = <<>>
  BY <1>1, <1>2 DEF ListInv, BootPcs, CommitPcs
<1>13. ListInv'
  BY <1>1, <1>3, <1>5, <1>8, <1>12, <1>2 DEF ListInv, BootPcs, CommitPcs, logVars
<1>14. DataInv'
  <2>1. \A k \in Block : ~InLog(k)' => Contents(k)' = disk'[k]
    BY <1>1, <1>10 DEF DataInv, InLog, logVars
  <2>2. ASSUME NEW i \in 1 .. Len(lh), last \/ i < n + 1 PROVE logDisk'[i] = Contents(lh[i])
    <3>1. CASE i = n
      BY <1>1, <1>3, <3>1 DEF TypeOK
    <3>2. CASE i # n
      <4>1. i < n
        BY <1>3, <2>2, <3>2
      <4>2. logDisk[i] = Contents(lh[i])
        BY <1>1, <4>1 DEF DataInv
      <4> QED
        BY <1>1, <3>2, <4>2 DEF TypeOK
    <3> QED
      BY <3>1, <3>2
  <2>3. \A i \in 1 .. Len(lh) : Contents(lh[i])' = Contents(lh[i])
    BY <1>1, <1>3, <1>10 DEF logVars
  <2>4. ASSUME NEW s \in Thread, s # t
        PROVE  pc'[s] \notin {"write_log", "write_head", "install", "install_rec", "clear", "clear_rec"}
    BY <1>2, <1>5, <2>4 DEF BootPcs, CommitPcs
  <2> QED
    BY <1>1, <1>2, <1>3, <1>5, <1>8, <2>1, <2>2, <2>3, <2>4 DEF DataInv, logVars
<1>15. Recovered' = Recovered
  BY <1>1, <1>12 DEF Recovered
<1>16. Seen' = Seen
  <2>1. View' = View
    BY <1>10 DEF View
  <2> QED
    BY <1>8, <1>15, <2>1 DEF Seen
<1> QED
  BY <1>6, <1>7, <1>9, <1>11, <1>13, <1>14, <1>15, <1>16, Unseen DEF Inv

LEMMA WriteHeadStep ==
  ASSUME Inv, NEW t \in Thread, WriteHead(t)
  PROVE  Inv' /\ [Store!StoreNext]_(Store!storeVars)
<1>1. /\ pc[t] = "write_head"
      /\ TypeOK /\ ControlInv /\ BufferInv /\ ListInv /\ DataInv
      /\ header' = lh /\ pc' = [pc EXCEPT ![t] = "install"]
      /\ UNCHANGED <<disk, logDisk, bufVars, logVars, opVars, tail, hold, crashes,
                     panicked>>
  BY DEF WriteHead, At, Goto, Inv
<1>2. /\ committing /\ Active = {} /\ ~Booting
      /\ \A s \in Thread : s # t => pc[s] \notin CommitPcs \cup BootPcs \cup {"off"}
  BY <1>1, CommitFacts DEF CommitPcs
<1>3. /\ pc' \in [Thread -> Pcs]
      /\ \A s \in Thread : pc'[s] = IF s = t THEN "install" ELSE pc[s]
  BY <1>1 DEF TypeOK, Pcs
<1>4. lh \in Seq(Block) /\ lh # <<>> /\ Len(lh) \in Nat /\ Len(lh) > 0 /\ tail[t] = 1
  BY <1>1 DEF TypeOK, ListInv, ControlInv
<1>5. TypeOK'
  BY <1>1, <1>3 DEF TypeOK, bufVars, logVars, opVars
<1>6. Active' = Active
  BY <1>1, <1>3, SameActive
<1>7. Booting' = Booting
  BY <1>1, <1>3 DEF Booting
<1>8. ControlInv'
  BY <1>1, <1>2, <1>3, <1>4, <1>6, <1>7 DEF ControlInv, BootPcs, CommitPcs, logVars
<1>9. \A k : Contents(k)' = Contents(k)
  BY <1>1 DEF Contents, bufVars
<1>10. BufferInv'
  <2>1. \A i \in 1 .. Len(lh) : ~Installed(i) /\ ~Installed(i)'
    BY <1>1, <1>2, <1>3, <1>4 DEF Installed, BootPcs, CommitPcs
  <2>2. \A k \in Block : Pinned(k)' <=> Pinned(k)
    BY <1>1, <2>1 DEF Pinned, logVars
  <2> QED
    BY <1>1, <1>3, <2>2 DEF BufferInv, bufVars
<1>11. ListInv'
  BY <1>1, <1>2, <1>3, <1>4, <1>7 DEF ListInv, BootPcs, CommitPcs, logVars
<1>12. DataInv'
  <2>1. \A k \in Block : ~InLog(k)' => Contents(k)' = disk'[k]
    BY <1>1, <1>9 DEF DataInv, InLog, logVars
  <2>2. ASSUME NEW s \in Thread, s # t
        PROVE  pc'[s] \notin {"write_log", "write_head", "install", "install_rec", "clear", "clear_rec"}
    BY <1>2, <1>3, <2>2 DEF BootPcs, CommitPcs
  <2> QED
    BY <1>1, <1>2, <1>3, <1>4, <1>7, <1>9, <2>1, <2>2 DEF DataInv, logVars
<1>13. Recovered' = View
  <2>1. \A i, j \in 1 .. Len(lh) : lh[i] = lh[j] => i = j
    BY <1>1 DEF ListInv
  <2>2. Recovered' = Rec(lh, disk, logDisk)
    BY <1>1 DEF Recovered, Rec
  <2>3. ASSUME NEW k \in Block PROVE Rec(lh, disk, logDisk)[k] = Contents(k)
    <3>1. CASE InLog(k)
      <4>1. PICK i \in 1 .. Len(lh) : lh[i] = k
        BY <3>1 DEF InLog
      <4>2. Rec(lh, disk, logDisk)[lh[i]] = logDisk[i]
        BY <1>4, <2>1, Found
      <4>3. logDisk[i] = Contents(lh[i])
        BY <1>1 DEF DataInv
      <4> QED
        BY <4>1, <4>2, <4>3
    <3>2. CASE ~InLog(k)
      <4>1. Rec(lh, disk, logDisk)[k] = disk[k]
        BY <1>4, <2>1, <3>2, Found DEF InLog
      <4> QED
        BY <1>1, <3>2, <4>1 DEF DataInv
    <3> QED
      BY <3>1, <3>2
  <2> QED
    BY <2>2, <2>3 DEF Rec, View
<1>14. View' = View
  BY <1>9 DEF View
<1>15. Store!StoreCommit
  BY <1>2, <1>6, <1>7, <1>13, <1>14 DEF Store!StoreCommit, Active, View
<1> QED
  BY <1>5, <1>8, <1>10, <1>11, <1>12, <1>15 DEF Inv, Store!StoreNext

(* Copying a logged block to its home place does not change what recovery  *)
(* finds.                                                                  *)
LEMMA Copied ==
  ASSUME NEW h \in Seq(Block), NEW d, NEW l, NEW e, NEW n \in 1 .. Len(h),
         \A i, j \in 1 .. Len(h) : h[i] = h[j] => i = j,
         \A k \in Block : k # h[n] => e[k] = d[k]
  PROVE  Rec(h, e, l) = Rec(h, d, l)
<1>1. ASSUME NEW k \in Block PROVE Rec(h, e, l)[k] = Rec(h, d, l)[k]
  <2>1. CASE \E i \in 1 .. Len(h) : h[i] = k
    <3>1. PICK i \in 1 .. Len(h) : h[i] = k
      BY <2>1
    <3>2. Rec(h, e, l)[h[i]] = l[i] /\ Rec(h, d, l)[h[i]] = l[i]
      BY Found
    <3> QED
      BY <3>1, <3>2
  <2>2. CASE \A i \in 1 .. Len(h) : h[i] # k
    <3>1. Rec(h, e, l)[k] = e[k] /\ Rec(h, d, l)[k] = d[k]
      BY <2>2, Found
    <3> QED
      BY <2>2, <3>1
  <2> QED
    BY <2>1, <2>2
<1> QED
  BY <1>1 DEF Rec

LEMMA InstallStep ==
  ASSUME Inv, NEW t \in Thread, Install(t) PROVE Inv' /\ UNCHANGED Store!storeVars
<1> DEFINE n == tail[t]
           b == lh[n]
           last == n = Len(lh)
<1>1. /\ pc[t] = "install" /\ locked[b] = None
      /\ TypeOK /\ ControlInv /\ BufferInv /\ ListInv /\ DataInv
      /\ disk' = [disk EXCEPT ![b] = logDisk[n]]
      /\ cache' = [cache EXCEPT ![b] = logDisk[n]]
      /\ refcnt' = [refcnt EXCEPT ![b] = @ - 1]
      /\ pc' = IF last THEN [pc EXCEPT ![t] = "clear"] ELSE pc
      /\ tail' = [tail EXCEPT ![t] = IF last THEN 1 ELSE n + 1]
      /\ UNCHANGED <<logDisk, header, locked, logVars, opVars, hold, crashes, panicked>>
  BY DEF Install, InstallTo, At, Goto, Inv
<1>2. /\ committing /\ Active = {} /\ ~Booting
      /\ \A s \in Thread : s # t => pc[s] \notin CommitPcs \cup BootPcs \cup {"off"}
  BY <1>1, CommitFacts DEF CommitPcs
<1>3. /\ n \in 1 .. Len(lh) /\ lh \in Seq(Block) /\ b \in Block /\ Len(lh) \in Nat
      /\ n \in 1 .. LogSectors - 1 /\ header = lh
      /\ \A i, j \in 1 .. Len(lh) : lh[i] = lh[j] => i = j
  <2>1. /\ n \in 1 .. Len(lh) /\ lh \in Seq(Block) /\ Len(lh) <= LogSectors - 1
        /\ header = lh /\ \A i, j \in 1 .. Len(lh) : lh[i] = lh[j] => i = j
    BY <1>1 DEF ControlInv, ListInv, TypeOK
  <2> QED
    BY <2>1, LogAssumption
<1>4. /\ logDisk[n] \in Value /\ logDisk[n] # None
      /\ \A i \in 1 .. Len(lh) : logDisk[i] = Contents(lh[i])
  BY ZenonT(60), <1>1, <1>3, LogAssumption DEF TypeOK, Value, DataInv
<1>5. /\ pc' \in [Thread -> Pcs]
      /\ \A s \in Thread : s # t => pc'[s] = pc[s] /\ tail'[s] = tail[s]
      /\ pc'[t] = IF last THEN "clear" ELSE "install"
      /\ tail'[t] = IF last THEN 1 ELSE n + 1
  BY <1>1 DEF TypeOK, Pcs
<1>6. /\ \A i \in 1 .. Len(lh) : Installed(i) <=> i < n
      /\ \A i \in 1 .. Len(lh) : Installed(i)' <=> i < n + 1
  <2>1. \A i \in 1 .. Len(lh) : Installed(i) <=> i < n
    BY <1>1, <1>2 DEF Installed, BootPcs, CommitPcs
  <2>2. \A s \in Thread : s # t => pc'[s] \notin BootPcs \cup {"clear", "install"}
    BY <1>2, <1>5 DEF BootPcs, CommitPcs
  <2>3. \A i \in 1 .. Len(lh) : Installed(i)' <=> i < n + 1
    BY <1>3, <1>5, <2>2 DEF Installed, BootPcs
  <2> QED
    BY <2>1, <2>3
<1>7. Pinned(b) /\ \A k \in Block : Pinned(k)' <=> Pinned(k) /\ k # b
  <2>1. lh' = lh
    BY <1>1 DEF logVars
  <2>2. Pinned(b)
    BY <1>3, <1>6 DEF Pinned
  <2>3. ASSUME NEW k \in Block PROVE Pinned(k)' <=> Pinned(k) /\ k # b
    <3>1. \A i \in 1 .. Len(lh) : lh[i] = k /\ i < n + 1 /\ ~(i < n) => k = b
      BY <1>3
    <3>2. \A i \in 1 .. Len(lh) : lh[i] = b => i = n
      BY <1>3
    <3> QED
      BY <1>3, <1>6, <2>1, <3>1, <3>2 DEF Pinned
  <2> QED
    BY <2>2, <2>3
<1>8. refcnt[b] = 1
  BY <1>1, <1>3, <1>7 DEF BufferInv
<1>9. TypeOK'
  <2>1. /\ disk' \in [Block -> Value] /\ cache' \in [Block -> Value \cup {None}]
        /\ refcnt' \in [Block -> Nat]
    BY <1>1, <1>3, <1>4, <1>8 DEF TypeOK
  <2>2. tail' \in [Thread -> Nat]
    BY <1>1, <1>3 DEF TypeOK
  <2> QED
    BY <1>1, <1>5, <2>1, <2>2 DEF TypeOK, logVars, opVars
<1>10. Active' = Active
  BY <1>1, <1>5, SameActive
<1>11. Booting' = Booting
  BY <1>1, <1>5 DEF Booting
<1>12. ControlInv'
  BY <1>1, <1>2, <1>3, <1>5, <1>10, <1>11 DEF ControlInv, BootPcs, CommitPcs, logVars
<1>13. \A k \in Block : /\ disk'[k] = IF k = b THEN logDisk[n] ELSE disk[k]
                        /\ cache'[k] = IF k = b THEN logDisk[n] ELSE cache[k]
                        /\ refcnt'[k] = IF k = b THEN 0 ELSE refcnt[k]
                        /\ Contents(k)' = Contents(k)
  <2>1. \A k \in Block : /\ disk'[k] = IF k = b THEN logDisk[n] ELSE disk[k]
                         /\ cache'[k] = IF k = b THEN logDisk[n] ELSE cache[k]
                         /\ refcnt'[k] = IF k = b THEN 0 ELSE refcnt[k]
    BY <1>1, <1>8 DEF TypeOK
  <2> QED
    BY <1>3, <1>4, <2>1 DEF Contents
<1>14. BufferInv'
  <2>1. \A k \in Block :
          /\ refcnt'[k] = (IF locked'[k] = None THEN 0 ELSE 1)
                         + (IF Pinned(k)' THEN 1 ELSE 0)
          /\ Pinned(k)' => cache'[k] # None
    BY <1>1, <1>4, <1>7, <1>13 DEF BufferInv
  <2> QED
    BY <1>1, <1>5, <2>1 DEF BufferInv
<1>15. ListInv'
  BY <1>1, <1>2, <1>3, <1>5, <1>11 DEF ListInv, BootPcs, CommitPcs, logVars
<1>16. DataInv'
  <2>5. lh' = lh /\ logDisk' = logDisk
    BY <1>1 DEF logVars
  <2>1. \A k \in Block : ~InLog(k)' => Contents(k)' = disk'[k]
    <3>1. \A k \in Block : ~InLog(k)' => k # b /\ Contents(k) = disk[k]
      BY <1>1, <1>3 DEF DataInv, InLog, logVars
    <3> QED
      BY <1>13, <3>1
  <2>2. ASSUME NEW i \in 1 .. Len(lh), i < n + 1
        PROVE  logDisk[i] = disk'[lh[i]] /\ Contents(lh[i]) = disk'[lh[i]]
    <3>1. CASE i = n
      BY <1>3, <1>4, <1>13, <3>1 DEF Contents
    <3>2. CASE i # n
      <4>1. i < n /\ lh[i] # b /\ lh[i] \in Block
        BY <1>3, <2>2, <3>2
      <4>2. logDisk[i] = disk[lh[i]] /\ Contents(lh[i]) = disk[lh[i]]
        BY <1>1, <4>1 DEF DataInv
      <4> QED
        BY <1>13, <4>1, <4>2
    <3> QED
      BY <3>1, <3>2
  <2>3. \A i \in 1 .. Len(lh) : Contents(lh[i])' = Contents(lh[i])
    BY <1>3, <1>13, <2>5
  <2>4. ASSUME NEW s \in Thread, s # t
        PROVE  pc'[s] \notin {"write_log", "write_head", "install", "install_rec", "clear", "clear_rec"}
    BY <1>2, <1>5, <2>4 DEF BootPcs, CommitPcs
  <2> QED
    BY <1>2, <1>3, <1>4, <1>5, <1>11, <2>1, <2>2, <2>3, <2>4, <2>5 DEF DataInv
<1>17. Recovered' = Recovered
  <2>1. Recovered' = Rec(lh, disk', logDisk) /\ Recovered = Rec(lh, disk, logDisk)
    BY <1>1, <1>3 DEF Recovered, Rec
  <2>2. Rec(lh, disk', logDisk) = Rec(lh, disk, logDisk)
    BY <1>3, <1>13, Copied
  <2> QED
    BY <2>1, <2>2
<1>18. Seen' = Seen
  <2>1. View' = View
    BY <1>13 DEF View
  <2> QED
    BY <1>11, <1>17, <2>1 DEF Seen
<1> QED
  BY <1>9, <1>10, <1>12, <1>14, <1>15, <1>16, <1>17, <1>18, Unseen DEF Inv

LEMMA ClearStep ==
  ASSUME Inv, NEW t \in Thread, Clear(t) PROVE Inv' /\ UNCHANGED Store!storeVars
<1>1. /\ pc[t] = "clear"
      /\ TypeOK /\ ControlInv /\ BufferInv /\ ListInv /\ DataInv
      /\ lh' = <<>> /\ header' = <<>> /\ pc' = [pc EXCEPT ![t] = "done"]
      /\ UNCHANGED <<disk, logDisk, bufVars, outstanding, committing, opVars, tail,
                     hold, crashes, panicked>>
  BY DEF Clear, ClearHead, At, Goto, Inv
<1>2. /\ committing /\ Active = {} /\ ~Booting
      /\ \A s \in Thread : s # t => pc[s] \notin CommitPcs \cup BootPcs \cup {"off"}
  BY <1>1, CommitFacts DEF CommitPcs
<1>3. /\ pc' \in [Thread -> Pcs]
      /\ \A s \in Thread : pc'[s] = IF s = t THEN "done" ELSE pc[s]
  BY <1>1 DEF TypeOK, Pcs
<1>4. lh \in Seq(Block) /\ header = lh /\ <<>> \in Seq(Block) /\ Len(<<>>) = 0
  BY <1>1 DEF TypeOK, ListInv
<1>5. TypeOK'
  BY <1>1, <1>3, <1>4 DEF TypeOK, bufVars, opVars
<1>6. Active' = Active
  BY <1>1, <1>3, SameActive
<1>7. Booting' = Booting
  BY <1>1, <1>3 DEF Booting
<1>8. ControlInv'
  BY <1>1, <1>2, <1>3, <1>6, <1>7 DEF ControlInv, BootPcs, CommitPcs
<1>9. \A k \in Block : Contents(k)' = Contents(k) /\ Contents(k) = disk[k]
  <2>1. \A k \in Block : Contents(k)' = Contents(k)
    BY <1>1 DEF Contents, bufVars
  <2>2. \A k \in Block : InLog(k) => Contents(k) = disk[k]
    BY <1>1 DEF DataInv, InLog
  <2> QED
    BY <1>1, <2>1, <2>2 DEF DataInv
<1>10. BufferInv'
  <2>1. \A k \in Block : ~Pinned(k) /\ ~Pinned(k)'
    BY <1>1, <1>4 DEF Pinned, Installed
  <2> QED
    BY <1>1, <1>3, <2>1 DEF BufferInv, bufVars
<1>11. ListInv'
  BY <1>1, <1>2, <1>3, <1>4, LogAssumption DEF ListInv, BootPcs, CommitPcs
<1>12. DataInv'
  BY <1>1, <1>4, <1>9 DEF DataInv
<1>13. Recovered = disk /\ Recovered' = disk
  <2>1. Recovered' = disk
    BY <1>1, <1>4 DEF Recovered, TypeOK
  <2>2. \A i, j \in 1 .. Len(lh) : lh[i] = lh[j] => i = j
    BY <1>1 DEF ListInv
  <2>3. Recovered = Rec(lh, disk, logDisk)
    BY <1>4, RecoveredIs
  <2>4. ASSUME NEW k \in Block PROVE Rec(lh, disk, logDisk)[k] = disk[k]
    <3>1. CASE InLog(k)
      <4>1. PICK i \in 1 .. Len(lh) : lh[i] = k
        BY <3>1 DEF InLog
      <4>2. Rec(lh, disk, logDisk)[lh[i]] = logDisk[i]
        BY <1>4, <2>2, Found
      <4>3. logDisk[i] = disk[lh[i]]
        BY <1>1 DEF DataInv
      <4> QED
        BY <4>1, <4>2, <4>3
    <3>2. CASE ~InLog(k)
      BY <1>4, <2>2, <3>2, Found DEF InLog
    <3> QED
      BY <3>1, <3>2
  <2> QED
    BY <1>1, <2>1, <2>3, <2>4 DEF Rec, TypeOK
<1>14. View' = View
  BY <1>9 DEF View
<1> QED
  BY <1>5, <1>6, <1>7, <1>8, <1>10, <1>11, <1>12, <1>13, <1>14, Unseen DEF Inv, Seen

(***************************************************************************)
(* Steps of a recovery, and the crash.                                     *)
(***************************************************************************)
LEMMA BootFacts ==
  ASSUME TypeOK, ControlInv, NEW t \in Thread, pc[t] \in BootPcs
  PROVE  Booting /\ \A s \in Thread : s # t => pc[s] = "off"
<1>1. Booting /\ t = Booter
  BY ThreadFacts DEF ControlInv
<1>2. ASSUME NEW s \in Thread, s # t PROVE pc[s] = "off"
  BY <1>1, <1>2 DEF ControlInv
<1> QED
  BY <1>1, <1>2

LEMMA ReadHeadStep ==
  ASSUME Inv, NEW t \in Thread, ReadHead(t) PROVE Inv' /\ UNCHANGED Store!storeVars
<1> DEFINE to == IF Len(header) > 0 THEN "install_rec" ELSE "clear_rec"
<1>1. /\ pc[t] = "read_head"
      /\ TypeOK /\ ControlInv /\ BufferInv /\ ListInv /\ DataInv
      /\ lh' = header /\ pc' = [pc EXCEPT ![t] = to]
      /\ UNCHANGED <<diskVars, bufVars, outstanding, committing, opVars, tail, hold,
                     crashes, panicked>>
  BY DEF ReadHead, At, Goto, Inv
<1>2. Booting /\ \A s \in Thread : s # t => pc[s] = "off"
  BY <1>1, BootFacts DEF BootPcs
<1>3. /\ pc' \in [Thread -> Pcs]
      /\ \A s \in Thread : pc'[s] = IF s = t THEN to ELSE pc[s]
  BY <1>1 DEF TypeOK, Pcs
<1>4. /\ lh = <<>> /\ header \in Seq(Block) /\ Len(header) \in Nat /\ tail[t] = 1
      /\ t = Booter
  BY <1>1 DEF TypeOK, ListInv, ControlInv, BootPcs
<1>5. TypeOK'
  BY <1>1, <1>3, <1>4 DEF TypeOK, diskVars, bufVars, opVars
<1>6. Active' = Active
  BY <1>1, <1>3, SameActive
<1>7. Booting'
  BY <1>3 DEF Booting
<1>8. ControlInv'
  BY <1>1, <1>2, <1>3, <1>4, <1>6, <1>7 DEF ControlInv, BootPcs, CommitPcs
<1>9. \A k \in Block : Contents(k)' = disk[k] /\ Contents(k)' = Contents(k)
  BY <1>1, <1>2 DEF Contents, bufVars, diskVars, DataInv
<1>10. BufferInv'
  <2>1. \A k \in Block : ~Pinned(k) /\ ~Pinned(k)'
    BY <1>3, <1>4 DEF Pinned, Installed, BootPcs
  <2> QED
    BY <1>1, <1>3, <2>1 DEF BufferInv, bufVars
<1>11. ListInv'
  <2>1. header = <<>> \/ Len(header) > 0
    BY <1>4
  <2> QED
    BY <1>1, <1>2, <1>3, <1>4, <1>7, <2>1 DEF ListInv, BootPcs, diskVars
<1>12. DataInv'
  <2>1. \A k \in Block : Contents(k)' = disk'[k]
    BY <1>1, <1>9 DEF diskVars
  <2>2. \A i \in 1 .. Len(lh') : i >= 1 /\ Len(lh') > 0
    BY <1>1, <1>4
  <2> QED
    BY <1>1, <1>2, <1>3, <1>4, <2>1, <2>2 DEF DataInv
<1>13. Recovered' = Recovered
  BY <1>1 DEF Recovered, diskVars
<1> QED
  BY <1>2, <1>5, <1>6, <1>7, <1>8, <1>10, <1>11, <1>12, <1>13, Unseen DEF Inv, Seen

LEMMA InstallRecoveringStep ==
  ASSUME Inv, NEW t \in Thread, InstallRecovering(t)
  PROVE  Inv' /\ UNCHANGED Store!storeVars
<1> DEFINE n == tail[t]
           b == lh[n]
           last == n = Len(lh)
<1>1. /\ pc[t] = "install_rec"
      /\ TypeOK /\ ControlInv /\ BufferInv /\ ListInv /\ DataInv
      /\ disk' = [disk EXCEPT ![b] = logDisk[n]]
      /\ cache' = [cache EXCEPT ![b] = logDisk[n]]
      /\ pc' = IF last THEN [pc EXCEPT ![t] = "clear_rec"] ELSE pc
      /\ tail' = [tail EXCEPT ![t] = IF last THEN 1 ELSE n + 1]
      /\ UNCHANGED <<logDisk, header, refcnt, locked, logVars, opVars, hold, crashes,
                     panicked>>
  BY DEF InstallRecovering, InstallTo, At, Goto, Inv
<1>2. Booting /\ \A s \in Thread : s # t => pc[s] = "off"
  BY <1>1, BootFacts DEF BootPcs
<1>3. /\ n \in 1 .. Len(lh) /\ lh \in Seq(Block) /\ b \in Block /\ Len(lh) \in Nat
      /\ n \in 1 .. LogSectors - 1 /\ header = lh
      /\ \A i, j \in 1 .. Len(lh) : lh[i] = lh[j] => i = j
  <2>1. /\ n \in 1 .. Len(lh) /\ lh \in Seq(Block) /\ Len(lh) <= LogSectors - 1
        /\ header = lh /\ \A i, j \in 1 .. Len(lh) : lh[i] = lh[j] => i = j
    BY <1>1 DEF ControlInv, ListInv, TypeOK
  <2> QED
    BY <2>1, LogAssumption
<1>4. logDisk[n] \in Value /\ logDisk[n] # None
  BY <1>1, <1>3, LogAssumption DEF TypeOK, Value
<1>5. /\ pc' \in [Thread -> Pcs]
      /\ \A s \in Thread : s # t => pc'[s] = pc[s] /\ tail'[s] = tail[s]
      /\ pc'[t] = IF last THEN "clear_rec" ELSE "install_rec"
      /\ tail'[t] = IF last THEN 1 ELSE n + 1
  BY <1>1 DEF TypeOK, Pcs
<1>6. \A k \in Block : ~Pinned(k) /\ ~Pinned(k)'
  BY <1>1, <1>5 DEF Pinned, Installed, BootPcs
<1>7. TypeOK'
  <2>1. disk' \in [Block -> Value] /\ cache' \in [Block -> Value \cup {None}]
    BY <1>1, <1>3, <1>4 DEF TypeOK
  <2>2. tail' \in [Thread -> Nat]
    BY <1>1, <1>3 DEF TypeOK
  <2> QED
    BY <1>1, <1>5, <2>1, <2>2 DEF TypeOK, logVars, opVars
<1>8. Active' = Active
  BY <1>1, <1>5, SameActive
<1>9. Booting'
  BY <1>5 DEF Booting
<1>10. ControlInv'
  BY <1>1, <1>2, <1>3, <1>5, <1>8, <1>9 DEF ControlInv, BootPcs, CommitPcs, logVars
<1>11. \A k \in Block : /\ disk'[k] = IF k = b THEN logDisk[n] ELSE disk[k]
                        /\ cache'[k] = IF k = b THEN logDisk[n] ELSE cache[k]
                        /\ Contents(k)' = disk'[k]
  <2>1. \A k \in Block : /\ disk'[k] = IF k = b THEN logDisk[n] ELSE disk[k]
                         /\ cache'[k] = IF k = b THEN logDisk[n] ELSE cache[k]
                         /\ Contents(k) = disk[k]
    BY <1>1, <1>2 DEF TypeOK, DataInv
  <2> QED
    BY <1>4, <2>1 DEF Contents
<1>12. BufferInv'
  BY <1>1, <1>5, <1>6 DEF BufferInv
<1>13. ListInv'
  BY <1>1, <1>2, <1>3, <1>5, <1>9 DEF ListInv, BootPcs, logVars
<1>14. DataInv'
  <2>1. lh' = lh /\ logDisk' = logDisk
    BY <1>1 DEF logVars
  <2>2. ASSUME NEW i \in 1 .. Len(lh), i < n + 1
        PROVE  logDisk[i] = disk'[lh[i]]
    <3>1. CASE i = n
      BY <1>3, <1>11, <3>1
    <3>2. CASE i # n
      <4>1. i < n /\ lh[i] # b /\ lh[i] \in Block
        BY <1>3, <2>2, <3>2
      <4>2. logDisk[i] = disk[lh[i]]
        BY <1>1, <4>1 DEF DataInv
      <4> QED
        BY <1>11, <4>1, <4>2
    <3> QED
      BY <3>1, <3>2
  <2>3. \A i \in 1 .. Len(lh) : Contents(lh[i])' = disk'[lh[i]]
    BY <1>3, <1>11, <2>1
  <2> QED
    BY <1>2, <1>3, <1>5, <1>11, <2>1, <2>2, <2>3 DEF DataInv
<1>15. Recovered' = Recovered
  <2>1. Recovered' = Rec(lh, disk', logDisk) /\ Recovered = Rec(lh, disk, logDisk)
    BY <1>1, <1>3 DEF Recovered, Rec
  <2>2. Rec(lh, disk', logDisk) = Rec(lh, disk, logDisk)
    BY <1>3, <1>11, Copied
  <2> QED
    BY <2>1, <2>2
<1> QED
  BY <1>2, <1>7, <1>8, <1>9, <1>10, <1>12, <1>13, <1>14, <1>15, Unseen DEF Inv, Seen

LEMMA ClearRecoveringStep ==
  ASSUME Inv, NEW t \in Thread, ClearRecovering(t)
  PROVE  Inv' /\ UNCHANGED Store!storeVars
<1>1. /\ pc[t] = "clear_rec"
      /\ TypeOK /\ ControlInv /\ BufferInv /\ ListInv /\ DataInv
      /\ lh' = <<>> /\ header' = <<>> /\ pc' = [s \in Thread |-> "idle"]
      /\ UNCHANGED <<disk, logDisk, bufVars, outstanding, committing, opVars, tail,
                     hold, crashes, panicked>>
  BY DEF ClearRecovering, ClearHead, At, Inv
<1>2. Booting /\ \A s \in Thread : s # t => pc[s] = "off"
  BY <1>1, BootFacts DEF BootPcs
<1>3. /\ lh \in Seq(Block) /\ header = lh /\ <<>> \in Seq(Block) /\ Len(<<>>) = 0
      /\ \A s \in Thread : tail[s] = 1 /\ hold[s] = None
  <2>1. \A s \in Thread : pc[s] \in {"off", "clear_rec"}
    BY <1>1, <1>2
  <2>2. \A s \in Thread : tail[s] = 1
    BY <1>1, <2>1 DEF ControlInv
  <2>3. \A s \in Thread : hold[s] = None
    BY <1>1, <2>1 DEF BufferInv
  <2>4. lh \in Seq(Block) /\ header = lh
    BY <1>1 DEF TypeOK, ListInv
  <2> QED
    BY <2>2, <2>3, <2>4
<1>4. TypeOK'
  BY <1>1, <1>3 DEF TypeOK, Pcs, bufVars, opVars
<1>5. Active' = Active
  <2>1. \A s \in Thread : pc'[s] = "idle" /\ pc[s] \in {"off", "clear_rec"}
    BY <1>1, <1>2
  <2> QED
    BY <2>1, SameActive
<1>6. ~Booting'
  BY <1>1 DEF Booting
<1>7. ControlInv'
  BY <1>1, <1>3, <1>5, <1>6 DEF ControlInv, BootPcs, CommitPcs
<1>8. \A k \in Block : Contents(k)' = disk[k] /\ Contents(k)' = Contents(k)
  BY <1>1, <1>2 DEF Contents, bufVars, DataInv
<1>9. BufferInv'
  <2>1. \A k \in Block : ~Pinned(k) /\ ~Pinned(k)'
    BY <1>1, <1>3 DEF Pinned, Installed, BootPcs
  <2> QED
    BY <1>1, <1>3, <2>1 DEF BufferInv, bufVars
<1>10. ListInv'
  BY <1>1, <1>3, LogAssumption DEF ListInv, BootPcs
<1>11. DataInv'
  BY <1>1, <1>3, <1>8 DEF DataInv
<1>12. Recovered = disk /\ Recovered' = disk
  <2>1. Recovered' = disk
    BY <1>1, <1>3 DEF Recovered, TypeOK
  <2>2. \A i, j \in 1 .. Len(lh) : lh[i] = lh[j] => i = j
    BY <1>1 DEF ListInv
  <2>3. Recovered = Rec(lh, disk, logDisk)
    BY <1>3, RecoveredIs
  <2>4. ASSUME NEW k \in Block PROVE Rec(lh, disk, logDisk)[k] = disk[k]
    <3>1. CASE InLog(k)
      <4>1. PICK i \in 1 .. Len(lh) : lh[i] = k
        BY <3>1 DEF InLog
      <4>2. Rec(lh, disk, logDisk)[lh[i]] = logDisk[i]
        BY <1>3, <2>2, Found
      <4>3. logDisk[i] = disk[lh[i]]
        BY <1>1 DEF DataInv
      <4> QED
        BY <4>1, <4>2, <4>3
    <3>2. CASE ~InLog(k)
      BY <1>3, <2>2, <3>2, Found DEF InLog
    <3> QED
      BY <3>1, <3>2
  <2> QED
    BY <1>1, <2>1, <2>3, <2>4 DEF Rec, TypeOK
<1>13. View' = disk
  BY <1>1, <1>8 DEF View, TypeOK
<1> QED
  BY <1>2, <1>4, <1>5, <1>6, <1>7, <1>9, <1>10, <1>11, <1>12, <1>13, Unseen DEF Inv, Seen

(* What a start of the machine, the first or one after a crash, makes of   *)
(* memory.                                                                 *)
DiskInv ==
  /\ disk \in [Block -> Value] /\ logDisk \in [1 .. LogSectors - 1 -> Value]
  /\ header \in Seq(Block) /\ Len(header) <= LogSectors - 1
  /\ \A i, j \in 1 .. Len(header) : header[i] = header[j] => i = j
  /\ ops \in Value /\ crashes \in 0 .. MaxCrashes

LEMMA Started == DiskInv /\ InMemoryInit => Inv /\ Booting /\ Active = {}
<1> SUFFICES ASSUME DiskInv, InMemoryInit PROVE Inv /\ Booting /\ Active = {}
  OBVIOUS
<1>1. /\ cache = [b \in Block |-> None] /\ refcnt = [b \in Block |-> 0]
      /\ locked = [b \in Block |-> None]
      /\ lh = <<>> /\ outstanding = 0 /\ committing = FALSE /\ panicked = FALSE
      /\ pc = [t \in Thread |-> IF t = Booter THEN "read_head" ELSE "off"]
      /\ tail = [t \in Thread |-> 1] /\ hold = [t \in Thread |-> None]
      /\ opno = [t \in Thread |-> 0] /\ wrote = [t \in Thread |-> {}]
  BY DEF InMemoryInit
<1>2. Booter \in Thread /\ 0 \in Value /\ <<>> \in Seq(Block) /\ Len(<<>>) = 0
  BY LogAssumption DEF Booter, Value
<1>3. TypeOK
  BY <1>1, <1>2 DEF DiskInv, TypeOK, Pcs
<1>4. Booting
  BY <1>1, <1>2 DEF Booting
<1>5. Active = {}
  BY <1>1 DEF Active
<1>6. ControlInv
  BY <1>1, <1>2, <1>4, <1>5, FS_EmptySet DEF ControlInv, BootPcs, CommitPcs
<1>7. BufferInv
  <2>1. \A k \in Block : ~Pinned(k)
    BY <1>1, <1>2 DEF Pinned
  <2>2. \A t \in Thread : t # None
    BY LogAssumption
  <2>3. \A k \in Block : k # None
    BY LogAssumption
  <2> QED
    BY <1>1, <2>1, <2>2, <2>3 DEF BufferInv
<1>8. ListInv
  BY <1>1, <1>2, <1>4, LogAssumption DEF DiskInv, ListInv, BootPcs
<1>9. DataInv
  BY <1>1, <1>2 DEF DataInv, Contents
<1> QED
  BY <1>3, <1>4, <1>5, <1>6, <1>7, <1>8, <1>9 DEF Inv

LEMMA CrashStep ==
  ASSUME Inv, Crash PROVE Inv' /\ [Store!StoreNext]_(Store!storeVars)
<1>1. /\ TypeOK /\ ListInv /\ crashes < MaxCrashes /\ crashes' = crashes + 1
      /\ InMemoryInit' /\ UNCHANGED <<disk, logDisk, header, ops>>
  BY DEF Crash, Inv, InMemoryInit, diskVars, Booter
<1>2. DiskInv'
  BY <1>1, LogAssumption DEF TypeOK, ListInv, DiskInv
<1>3. (Inv /\ Booting /\ Active = {})'
  BY <1>1, <1>2, Started, PTL
<1>4. Recovered' = Recovered
  BY <1>1 DEF Recovered
<1>5. Store!StoreCrash
  BY <1>3, <1>4 DEF Store!StoreCrash, Active
<1> QED
  BY <1>3, <1>5 DEF Store!StoreNext

LEMMA Starts == Init => Inv /\ Store!StoreInit
<1> SUFFICES ASSUME Init PROVE Inv /\ Store!StoreInit
  OBVIOUS
<1>1. /\ disk = [b \in Block |-> 0] /\ header = <<>> /\ ops = 0 /\ crashes = 0
      /\ logDisk = [i \in 1 .. LogSectors - 1 |-> 0] /\ InMemoryInit
  BY DEF Init
<1>2. 0 \in Value /\ <<>> \in Seq(Block) /\ Len(<<>>) = 0 /\ 0 \in 0 .. MaxCrashes
  BY LogAssumption DEF Value
<1>3. Inv /\ Booting /\ Active = {}
  <2>1. DiskInv
    BY <1>1, <1>2, LogAssumption DEF DiskInv
  <2> QED
    BY <1>1, <2>1, Started
<1>4. Recovered = disk
  BY <1>1, <1>2 DEF Recovered
<1>5. disk \in [Block -> Value]
  BY <1>1, <1>2
<1> QED
  BY <1>3, <1>4, <1>5 DEF Store!StoreInit, Active

LEMMA Steps ==
  ASSUME Inv, [Next]_vars PROVE Inv' /\ [Store!StoreNext]_(Store!storeVars)
<1>1. CASE UNCHANGED vars
  <2>1. UNCHANGED <<diskVars, bufVars, lh, outstanding, committing, opVars, pc, tail,
                    hold, crashes, panicked>>
    BY <1>1 DEF vars, logVars
  <2>2. Active' = Active
    BY <2>1, SameActive
  <2>3. /\ BufferInv' /\ DataInv' /\ Booting' = Booting /\ UNCHANGED <<Recovered, Seen>>
    <3>1. \A s \in Thread :
            \/ pc'[s] = pc[s]
            \/ pc[s] \in Between /\ pc'[s] \in Between \cup {"write_log"}
      BY <2>1
    <3>2. pc' \in [Thread -> Pcs] /\ TypeOK /\ ControlInv /\ BufferInv /\ DataInv
      BY <2>1 DEF Inv, TypeOK
    <3> QED
      BY <2>1, <3>1, <3>2, Quiet
  <2>4. TypeOK' /\ ControlInv' /\ ListInv'
    BY <2>1, <2>2, <2>3
       DEF Inv, TypeOK, ControlInv, ListInv, diskVars, bufVars, opVars
  <2> QED
    BY <2>2, <2>3, <2>4, Unseen DEF Inv
<1>2. CASE Crash
  BY <1>2, CrashStep
<1>3. ASSUME NEW b \in Block, Recycle(b) PROVE Inv' /\ [Store!StoreNext]_(Store!storeVars)
  BY <1>3, RecycleStep
<1>4. ASSUME NEW t \in Thread, NEW b \in Block, ReadBlock(t, b) \/ LogWrite(t, b)
      PROVE  Inv' /\ [Store!StoreNext]_(Store!storeVars)
  BY <1>4, ReadStep, WriteStep
<1>5. ASSUME NEW t \in Thread, Step(t) PROVE Inv' /\ [Store!StoreNext]_(Store!storeVars)
  <2>1. CASE Call(t) \/ BeginOp(t) \/ EndOp(t) \/ Brelse(t) \/ Done(t)
    BY <2>1, CallStep, BeginStep, EndStep, BrelseStep, DoneStep
  <2>2. CASE WriteLog(t) \/ WriteHead(t) \/ Install(t) \/ Clear(t)
    BY <2>2, WriteLogStep, WriteHeadStep, InstallStep, ClearStep
  <2>3. CASE ReadHead(t) \/ InstallRecovering(t) \/ ClearRecovering(t)
    BY <2>3, ReadHeadStep, InstallRecoveringStep, ClearRecoveringStep
  <2> QED
    BY <1>5, <2>1, <2>2, <2>3 DEF Step
<1> QED
  BY <1>1, <1>2, <1>3, <1>4, <1>5 DEF Next

(***************************************************************************)
(* The theorems.                                                           *)
(***************************************************************************)

(* For any number of blocks, threads and operations, any sizes of the log  *)
(* and any crashes, also during recovery: what a restart finds is always   *)
(* the contents between two groups of operations, and the header names no  *)
(* block twice (log.c, all of it).                                         *)
THEOREM LogIsAtomic == Spec => AtomicOps
<1>1. Init => Inv /\ Store!StoreInit
  BY Starts
<1>2. Inv /\ [Next]_vars => Inv' /\ [Store!StoreNext]_(Store!storeVars)
  BY Steps
<1> QED
  BY <1>1, <1>2, PTL DEF Spec, AtomicOps, Store!StoreSpec

(* Whatever the threads do, once the last end_op() is over, everything     *)
(* they wrote is on its place on the disk.                                 *)
THEOREM NothingLeftBehind == Spec => []QuiescentIsDurable
<1>1. Init => Inv
  BY Starts
<1>2. Inv /\ [Next]_vars => Inv'
  BY Steps
<1>3. Inv => QuiescentIsDurable
  <2> SUFFICES ASSUME Inv, outstanding = 0, ~committing, ~Booting
               PROVE  /\ lh = <<>> /\ header = <<>>
                      /\ \A b \in Block : Contents(b) = disk[b]
    BY DEF QuiescentIsDurable
  <2>1. TypeOK /\ ControlInv /\ ListInv /\ DataInv
    BY DEF Inv
  <2>2. Active = {}
    BY <2>1, FS_EmptySet DEF ControlInv
  <2>3. lh = <<>>
    BY <2>1, <2>2 DEF ListInv
  <2>4. header = <<>>
    <3>1. \A t \in Thread : pc[t] \notin CommitPcs \cup BootPcs
      BY <2>1 DEF ControlInv
    <3> QED
      BY <2>1, <3>1 DEF ListInv, CommitPcs
  <2>5. \A b \in Block : ~InLog(b)
    BY <2>3 DEF InLog
  <2> QED
    BY <2>1, <2>3, <2>4, <2>5 DEF DataInv
<1> QED
  BY <1>1, <1>2, <1>3, PTL DEF Spec

(***************************************************************************)
(* Room in the log.                                                        *)
(***************************************************************************)
(* The slots running operations have reserved and not yet used: Slots has  *)
(* one pair for each, so that their number is a cardinality.               *)
Slots == {s \in Active \X (1 .. MAXOPBLOCKS) : Cardinality(wrote[s[1]]) < s[2]}

(* What an operation wrote is in the log; the log and the unused slots fit *)
(* into LOGSIZE as long as some operation runs.                            *)
RoomInv ==
  /\ \A t \in Thread : /\ IsFiniteSet(wrote[t]) /\ Cardinality(wrote[t]) <= OpBlocks
                       /\ t \notin Active => wrote[t] = {}
                       /\ \A k \in wrote[t] : InLog(k)
  /\ Active # {} => Len(lh) + Cardinality(Slots) <= LOGSIZE
  /\ ~panicked /\ SleeperHasWaker

(* What the code's constants, and the most blocks an operation writes,     *)
(* have to satisfy.                                                        *)
Sizes ==
  /\ OpBlocks < MAXOPBLOCKS /\ MAXOPBLOCKS <= LOGSIZE
  /\ LOGSIZE < LogSectors - 1 + MAXOPBLOCKS - OpBlocks

SlotsInv ==
  /\ IsFiniteSet(Slots) /\ Cardinality(Slots) \in Nat
  /\ Cardinality(Slots) <= outstanding * MAXOPBLOCKS

LEMMA SlotsFinite == Inv => SlotsInv
<1> SUFFICES ASSUME Inv PROVE SlotsInv
  OBVIOUS
<1>1. IsFiniteSet(Active) /\ Cardinality(Active) = outstanding
  BY DEF Inv, ControlInv
<1>2. IsFiniteSet(1 .. MAXOPBLOCKS) /\ Cardinality(1 .. MAXOPBLOCKS) = MAXOPBLOCKS
  BY LogAssumption, FS_Interval
<1>3. /\ IsFiniteSet(Active \X (1 .. MAXOPBLOCKS))
      /\ Cardinality(Active \X (1 .. MAXOPBLOCKS)) = outstanding * MAXOPBLOCKS
  BY <1>1, <1>2, FS_Product
<1>4. Slots \in SUBSET (Active \X (1 .. MAXOPBLOCKS))
  BY DEF Slots
<1>5. IsFiniteSet(Slots) /\ Cardinality(Slots) <= outstanding * MAXOPBLOCKS
  BY <1>3, <1>4, FS_Subset
<1> QED
  BY <1>5, FS_CardinalityType DEF SlotsInv

(* Steps that neither begin nor end an operation nor log a block.          *)
LEMMA Rests ==
  ASSUME RoomInv, UNCHANGED <<wrote, panicked>>, Active' = Active,
         lh' = lh \/ Active = {}, SleeperHasWaker'
  PROVE  RoomInv'
<1>1. Slots' = Slots
  BY DEF Slots
<1>2. \A t \in Thread : \A k \in wrote[t] : InLog(k)'
  BY DEF RoomInv, InLog
<1> QED
  BY <1>1, <1>2 DEF RoomInv

LEMMA RoomToBegin ==
  ASSUME Inv, Inv', RoomInv, NEW t \in Thread, BeginOp(t), MAXOPBLOCKS <= LOGSIZE
  PROVE  RoomInv'
<1>1. /\ pc[t] = "begin" /\ TypeOK /\ ControlInv /\ ListInv
      /\ UNCHANGED <<lh, committing, wrote, panicked>>
  BY DEF BeginOp, At, Inv, opVars
<1>2. ~Booting
  BY <1>1, ThreadFacts
<1>3. CASE Waits
  <2>1. pc' = [pc EXCEPT ![t] = "asleep"] /\ outstanding' = outstanding
    BY <1>3 DEF BeginOp, Goto
  <2>2. \A s \in Thread : pc'[s] = IF s = t THEN "asleep" ELSE pc[s]
    BY <1>1, <2>1 DEF TypeOK
  <2>3. Active' = Active
    BY <1>1, <2>2, SameActive
  <2>4. committing \/ outstanding > 0
    <3> SUFFICES ASSUME ~committing, outstanding = 0 PROVE FALSE
      BY <1>1 DEF TypeOK
    <3>1. lh = <<>>
      BY <1>1, <1>2, FS_EmptySet DEF ControlInv, ListInv
    <3>2. Len(lh) + (outstanding + 1) * MAXOPBLOCKS = MAXOPBLOCKS
      BY <3>1, LogAssumption
    <3> QED
      BY <1>3, <3>2, LogAssumption DEF Waits
  <2> QED
    BY <1>1, <2>1, <2>3, <2>4, Rests DEF SleeperHasWaker
<1>4. CASE ~Waits
  <2>1. pc' = [pc EXCEPT ![t] = "in_op"] /\ outstanding' = outstanding + 1
    BY <1>4 DEF BeginOp, Goto
  <2>2. \A s \in Thread : pc'[s] = IF s = t THEN "in_op" ELSE pc[s]
    BY <1>1, <2>1 DEF TypeOK
  <2>3. Active \subseteq Active'
    BY <1>1, <2>2 DEF Active
  <2>4. Cardinality(Slots') \in Nat /\ Cardinality(Slots') <= outstanding' * MAXOPBLOCKS
    <3>1. SlotsInv'
      BY SlotsFinite, PTL
    <3> QED
      BY <3>1 DEF SlotsInv
  <2>5. Len(lh) + (outstanding + 1) * MAXOPBLOCKS <= LOGSIZE
    <3>1. Len(lh) \in Nat /\ outstanding \in Nat
      BY <1>1 DEF TypeOK
    <3> QED
      BY <1>4, <3>1, LogAssumption DEF Waits
  <2>6. Len(lh') + Cardinality(Slots') <= LOGSIZE
    <3> DEFINE room == (outstanding + 1) * MAXOPBLOCKS
    <3>1. /\ Len(lh) \in Nat /\ room \in Nat /\ Cardinality(Slots') <= room
          /\ Len(lh) + room <= LOGSIZE
      BY <1>1, <2>1, <2>4, <2>5, LogAssumption DEF TypeOK
    <3> HIDE DEF room
    <3> QED
      BY <1>1, <2>4, <3>1, LogAssumption
  <2>7. \A s \in Thread : \A k \in wrote[s] : InLog(k)'
    BY <1>1 DEF RoomInv, InLog
  <2>8. SleeperHasWaker'
    BY <1>1, <2>1, <2>2 DEF SleeperHasWaker, TypeOK
  <2> QED
    BY <1>1, <2>3, <2>6, <2>7, <2>8 DEF RoomInv
<1> QED
  BY <1>3, <1>4

LEMMA RoomToWrite ==
  ASSUME Inv, RoomInv, NEW t \in Thread, NEW b \in Block, LogWrite(t, b), Sizes
  PROVE  RoomInv'
<1> DEFINE used == Cardinality(wrote[t])
           full == Len(lh) >= LOGSIZE \/ Len(lh) >= LogSectors - 1
<1>1. /\ pc[t] = "in_op" /\ TypeOK /\ ControlInv /\ SlotsInv
      /\ b \in wrote[t] \/ used < OpBlocks
      /\ UNCHANGED <<outstanding, committing>>
  BY SlotsFinite DEF LogWrite, At, Inv
<1>2. t \in Active
  BY <1>1, ThreadFacts
<1>3. IsFiniteSet(wrote[t]) /\ used \in Nat /\ used <= OpBlocks
  BY FS_CardinalityType DEF RoomInv
<1>4. /\ Len(lh) \in Nat /\ Cardinality(Slots) \in Nat
      /\ Len(lh) + Cardinality(Slots) <= LOGSIZE
  BY <1>1, <1>2 DEF TypeOK, SlotsInv, RoomInv
<1>5. ~full
  <2> DEFINE spare == {t} \X (OpBlocks + 1 .. MAXOPBLOCKS)
  <2>1. spare \in SUBSET Slots
    BY <1>2, <1>3, LogAssumption DEF Slots
  <2>2. Cardinality(spare) = MAXOPBLOCKS - OpBlocks
    <3>1. /\ IsFiniteSet(OpBlocks + 1 .. MAXOPBLOCKS)
          /\ Cardinality(OpBlocks + 1 .. MAXOPBLOCKS) = MAXOPBLOCKS - OpBlocks
      BY LogAssumption, FS_Interval DEF Sizes
    <3>2. IsFiniteSet({t}) /\ Cardinality({t}) = 1
      BY FS_Singleton
    <3>3. Cardinality(spare) = 1 * (MAXOPBLOCKS - OpBlocks)
      BY <3>1, <3>2, FS_Product, ZenonT(40)
    <3> QED
      BY <3>3, LogAssumption
  <2>3. Cardinality(spare) <= Cardinality(Slots)
    BY <1>1, <2>1, FS_Subset DEF SlotsInv
  <2> HIDE DEF spare
  <2> QED
    BY <1>4, <2>2, <2>3, LogAssumption DEF Sizes
<1>6. /\ lh' = IF InLog(b) THEN lh ELSE Append(lh, b)
      /\ wrote' = [wrote EXCEPT ![t] = @ \cup {b}]
      /\ pc' = [pc EXCEPT ![t] = "holding"] /\ panicked' = panicked
  BY <1>5 DEF LogWrite, Goto, InLog
<1>7. /\ \A s \in Thread : pc'[s] = IF s = t THEN "holding" ELSE pc[s]
      /\ \A s \in Thread : wrote'[s] = IF s = t THEN wrote[t] \cup {b} ELSE wrote[s]
  BY <1>1, <1>6 DEF TypeOK
<1>8. Active' = Active
  BY <1>1, <1>7, SameActive
<1>9. /\ IsFiniteSet(wrote'[t])
      /\ Cardinality(wrote'[t]) = IF b \in wrote[t] THEN used ELSE used + 1
  <2>1. wrote'[t] = wrote[t] \cup {b}
    BY <1>7
  <2>2. /\ IsFiniteSet(wrote[t] \cup {b})
        /\ Cardinality(wrote[t] \cup {b}) = IF b \in wrote[t] THEN used ELSE used + 1
    BY <1>3, FS_AddElement
  <2> QED
    BY <2>1, <2>2
<1>10. /\ InLog(b) => lh' = lh
       /\ Len(lh') <= Len(lh) + 1 /\ Len(lh') \in Nat
       /\ \A k : InLog(k) \/ k = b => InLog(k)'
  <2>1. lh \in Seq(Block)
    BY <1>1 DEF TypeOK
  <2>2. CASE InLog(b)
    BY <1>4, <1>6, <2>2 DEF InLog
  <2>3. CASE ~InLog(b)
    <3>1. /\ Len(lh') = Len(lh) + 1
          /\ \A i \in 1 .. Len(lh) : lh'[i] = lh[i]
          /\ lh'[Len(lh) + 1] = b
      BY <1>6, <2>1, <2>3
    <3> QED
      BY <1>4, <2>3, <3>1 DEF InLog
  <2> QED
    BY <2>2, <2>3
<1>11. Len(lh') + Cardinality(Slots') <= LOGSIZE
  <2>1. CASE b \in wrote[t]
    <3>1. \A s \in Thread : wrote'[s] = wrote[s]
      BY <1>7, <2>1
    <3>2. Slots' = Slots
      BY <1>8, <3>1 DEF Slots, Active
    <3>3. lh' = lh
      BY <1>10, <2>1 DEF RoomInv
    <3> QED
      BY <1>4, <3>2, <3>3
  <2>2. CASE b \notin wrote[t]
    <3>1. used < OpBlocks /\ Cardinality(wrote'[t]) = used + 1
      BY <1>1, <1>9, <2>2
    <3>2. <<t, used + 1>> \in Slots
      BY <1>2, <1>3, <3>1, LogAssumption DEF Slots, Sizes
    <3>3. Slots' \in SUBSET (Slots \ {<<t, used + 1>>})
      <4> SUFFICES ASSUME NEW x \in Slots' PROVE x \in Slots \ {<<t, used + 1>>}
        OBVIOUS
      <4>1. PICK s \in Active, j \in 1 .. MAXOPBLOCKS :
              x = <<s, j>> /\ Cardinality(wrote'[s]) < j
        BY <1>8 DEF Slots
      <4>2. CASE s = t
        BY <1>3, <3>1, <4>1, <4>2, LogAssumption DEF Slots
      <4>3. CASE s # t
        BY <1>7, <4>1, <4>3 DEF Slots, Active
      <4> QED
        BY <4>2, <4>3
    <3>4. /\ IsFiniteSet(Slots \ {<<t, used + 1>>})
          /\ Cardinality(Slots \ {<<t, used + 1>>}) = Cardinality(Slots) - 1
      BY <1>1, <3>2, FS_RemoveElement DEF SlotsInv
    <3>5. IsFiniteSet(Slots') /\ Cardinality(Slots') <= Cardinality(Slots) - 1
      BY <3>3, <3>4, FS_Subset
    <3>6. Cardinality(Slots') \in Nat
      BY <3>5, FS_CardinalityType
    <3> QED
      BY <1>4, <1>10, <3>5, <3>6, LogAssumption
  <2> QED
    BY <2>1, <2>2
<1>12. ASSUME NEW s \in Thread
       PROVE  /\ IsFiniteSet(wrote'[s]) /\ Cardinality(wrote'[s]) <= OpBlocks
              /\ s \notin Active' => wrote'[s] = {}
              /\ \A k \in wrote'[s] : InLog(k)'
  <2>1. CASE s = t
    BY <1>1, <1>2, <1>3, <1>7, <1>8, <1>9, <1>10, <2>1, LogAssumption DEF RoomInv
  <2>2. CASE s # t
    BY <1>7, <1>8, <1>10, <2>2 DEF RoomInv
  <2> QED
    BY <2>1, <2>2
<1>13. SleeperHasWaker'
  BY <1>1, <1>7 DEF RoomInv, SleeperHasWaker
<1> QED
  BY <1>6, <1>11, <1>12, <1>13 DEF RoomInv

LEMMA RoomAtEnd ==
  ASSUME Inv, Inv', RoomInv, NEW t \in Thread, EndOp(t) PROVE RoomInv'
<1>1. /\ pc[t] = "in_op" /\ TypeOK /\ ControlInv /\ SlotsInv
      /\ outstanding' = outstanding - 1 /\ panicked' = committing /\ lh' = lh
      /\ wrote' = [wrote EXCEPT ![t] = {}]
  BY SlotsFinite DEF EndOp, At, Inv
<1>2. t \in Active /\ ~committing
  BY <1>1, ThreadFacts
<1>3. /\ LastOp => committing' /\ \A s \in Thread : pc'[s] \in {"in_op", "holding"} => s # t /\ s \in Active
      /\ ~LastOp => \A s \in Thread : /\ pc'[s] # "asleep"
                                      /\ pc'[s] \in {"in_op", "holding"} => s # t /\ s \in Active
      /\ \A s \in Active : s # t => pc'[s] \in {"in_op", "holding"}
  BY <1>1 DEF EndOp, TypeOK, Goto, Woken, Active
<1>4. Active' = Active \ {t}
  BY <1>3 DEF Active
<1>5. \A s \in Thread : wrote'[s] = IF s = t THEN {} ELSE wrote[s]
  BY <1>1 DEF TypeOK
<1>6. Len(lh') + Cardinality(Slots') <= LOGSIZE
  <2>1. Slots' \in SUBSET Slots
    <3> SUFFICES ASSUME NEW x \in Slots' PROVE x \in Slots
      OBVIOUS
    <3>1. PICK s \in Active \ {t}, j \in 1 .. MAXOPBLOCKS :
            x = <<s, j>> /\ Cardinality(wrote'[s]) < j
      BY <1>4 DEF Slots
    <3> QED
      BY <1>5, <3>1 DEF Slots, Active
  <2>2. IsFiniteSet(Slots') /\ Cardinality(Slots') <= Cardinality(Slots)
    BY <1>1, <2>1, FS_Subset DEF SlotsInv
  <2>3. Cardinality(Slots') \in Nat
    BY <2>2, FS_CardinalityType
  <2>4. /\ Len(lh) \in Nat /\ Cardinality(Slots) \in Nat
        /\ Len(lh) + Cardinality(Slots) <= LOGSIZE
    BY <1>1, <1>2 DEF TypeOK, SlotsInv, RoomInv
  <2> QED
    BY <1>1, <2>2, <2>3, <2>4, LogAssumption
<1>7. ASSUME NEW s \in Thread
      PROVE  /\ IsFiniteSet(wrote'[s]) /\ Cardinality(wrote'[s]) <= OpBlocks
             /\ s \notin Active' => wrote'[s] = {}
             /\ \A k \in wrote'[s] : InLog(k)'
  <2>1. CASE s = t
    BY <1>5, <2>1, FS_EmptySet, LogAssumption
  <2>2. CASE s # t
    BY <1>1, <1>4, <1>5, <2>2 DEF RoomInv, InLog
  <2> QED
    BY <2>1, <2>2
<1>8. SleeperHasWaker'
  <2>1. CASE LastOp
    BY <1>3, <2>1 DEF SleeperHasWaker
  <2>2. CASE ~LastOp
    BY <1>3, <2>2 DEF SleeperHasWaker
  <2> QED
    BY <2>1, <2>2
<1> QED
  BY <1>1, <1>2, <1>6, <1>7, <1>8 DEF RoomInv

LEMMA RoomElsewhere ==
  ASSUME Inv, RoomInv, NEW t \in Thread,
         \/ Call(t) \/ Brelse(t) \/ WriteLog(t) \/ WriteHead(t) \/ Install(t)
         \/ Clear(t) \/ Done(t) \/ ReadHead(t) \/ InstallRecovering(t)
         \/ ClearRecovering(t) \/ \E b \in Block : ReadBlock(t, b)
  PROVE  RoomInv'
<1> DEFINE Resting ==
             /\ UNCHANGED <<wrote, panicked>> /\ (lh' = lh \/ Active = {})
             /\ \A s \in Thread : pc'[s] \in {"in_op", "holding"} <=> pc[s] \in {"in_op", "holding"}
             /\ \/ \A s \in Thread : pc'[s] # "asleep"
                \/ /\ UNCHANGED <<outstanding, committing>>
                   /\ \A s \in Thread : pc'[s] = "asleep" => pc[s] = "asleep"
<1>1. TypeOK /\ ControlInv /\ SleeperHasWaker
  BY DEF Inv, RoomInv
<1>2. SUFFICES Resting
  <2> SUFFICES ASSUME Resting PROVE RoomInv'
    OBVIOUS
  <2>1. Active' = Active
    BY SameActive
  <2>2. SleeperHasWaker'
    BY <1>1 DEF SleeperHasWaker
  <2> QED
    BY <2>1, <2>2, Rests
<1>3. CASE Call(t) \/ Brelse(t) \/ \E b \in Block : ReadBlock(t, b)
  BY <1>1, <1>3 DEF Call, Brelse, ReadBlock, At, Goto, TypeOK, logVars, opVars
<1>4. CASE WriteLog(t) \/ WriteHead(t) \/ Install(t) \/ InstallRecovering(t)
  BY <1>1, <1>4 DEF WriteLog, WriteHead, Install, InstallRecovering, InstallTo, At, Goto,
                    TypeOK, logVars, opVars
<1>5. CASE Clear(t)
  <2>1. Active = {}
    BY <1>1, <1>5, CommitFacts DEF Clear, At, CommitPcs
  <2> QED
    BY <1>1, <1>5, <2>1 DEF Clear, At, Goto, TypeOK, opVars
<1>6. CASE Done(t)
  BY <1>1, <1>6 DEF Done, At, Woken, TypeOK, opVars
<1>7. CASE ReadHead(t) \/ ClearRecovering(t)
  <2>1. pc[t] \in BootPcs
    BY <1>7 DEF ReadHead, ClearRecovering, At, BootPcs
  <2>2. \A s \in Thread : pc[s] \in BootPcs \cup {"off"}
    BY <1>1, <2>1, BootFacts
  <2>3. Active = {}
    BY <2>2 DEF Active, BootPcs
  <2>4. \A s \in Thread : pc'[s] \in BootPcs \cup {"off", "idle"}
    BY <1>1, <1>7, <2>2 DEF ReadHead, ClearRecovering, At, Goto, TypeOK, BootPcs
  <2>5. UNCHANGED <<wrote, panicked>>
    BY <1>7 DEF ReadHead, ClearRecovering, opVars
  <2> QED
    BY <2>2, <2>3, <2>4, <2>5 DEF BootPcs
<1> QED
  BY <1>3, <1>4, <1>5, <1>6, <1>7

LEMMA RoomAtStart == InMemoryInit => RoomInv
<1> SUFFICES ASSUME InMemoryInit PROVE RoomInv
  OBVIOUS
<1>1. /\ wrote = [t \in Thread |-> {}] /\ panicked = FALSE
      /\ pc = [t \in Thread |-> IF t = Booter THEN "read_head" ELSE "off"]
  BY DEF InMemoryInit
<1>2. Active = {} /\ SleeperHasWaker
  BY <1>1 DEF Active, SleeperHasWaker
<1> QED
  BY <1>1, <1>2, FS_EmptySet, LogAssumption DEF RoomInv

LEMMA RoomStays ==
  ASSUME Sizes, Inv, Inv', RoomInv, [Next]_vars PROVE RoomInv'
<1>1. CASE UNCHANGED vars
  <2>1. UNCHANGED <<wrote, panicked, lh, pc, outstanding, committing>>
    BY <1>1 DEF vars, logVars, opVars
  <2>2. Active' = Active
    BY <2>1, SameActive
  <2>3. SleeperHasWaker'
    BY <2>1 DEF RoomInv, SleeperHasWaker
  <2> QED
    BY <2>1, <2>2, <2>3, Rests
<1>2. CASE Crash
  <2>1. InMemoryInit'
    BY <1>2 DEF Crash, InMemoryInit, Booter
  <2> QED
    BY <2>1, RoomAtStart, PTL
<1>3. ASSUME NEW b \in Block, Recycle(b) PROVE RoomInv'
  <2>1. UNCHANGED <<wrote, panicked, lh, pc, outstanding, committing>>
    BY <1>3 DEF Recycle, logVars, opVars
  <2>2. Active' = Active
    BY <2>1, SameActive
  <2>3. SleeperHasWaker'
    BY <2>1 DEF RoomInv, SleeperHasWaker
  <2> QED
    BY <2>1, <2>2, <2>3, Rests
<1>4. ASSUME NEW t \in Thread, NEW b \in Block, ReadBlock(t, b) \/ LogWrite(t, b)
      PROVE  RoomInv'
  BY <1>4, RoomElsewhere, RoomToWrite
<1>5. ASSUME NEW t \in Thread, Step(t) PROVE RoomInv'
  <2>1. CASE BeginOp(t)
    BY <2>1, RoomToBegin DEF Sizes
  <2>2. CASE EndOp(t)
    BY <2>2, RoomAtEnd
  <2>3. CASE ~BeginOp(t) /\ ~EndOp(t)
    BY <1>5, <2>3, RoomElsewhere DEF Step
  <2> QED
    BY <2>1, <2>2, <2>3
<1> QED
  BY <1>1, <1>2, <1>3, <1>4, <1>5 DEF Next

(* begin_op()'s reservation is enough: as long as an operation writes at   *)
(* most OpBlocks blocks, log_write() never finds the log full, end_op()    *)
(* never finds a commit going on, and whoever sleeps in begin_op() has     *)
(* somebody to wake it.  The constants of param.h and mkfs satisfy Sizes   *)
(* for operations of up to eight blocks.                                   *)
THEOREM ReservationsSuffice == ASSUME Sizes PROVE Spec => []ReservationsHold
<1>1. Init => Inv /\ RoomInv
  BY Starts, RoomAtStart DEF Init
<1>2. Inv /\ RoomInv /\ [Next]_vars => (Inv /\ RoomInv)'
  BY Steps, RoomStays
<1>3. Inv /\ RoomInv => ReservationsHold
  BY DEF Inv, RoomInv, ReservationsHold
<1> QED
  BY <1>1, <1>2, <1>3, PTL DEF Spec
=============================================================================
