-------------------------------- MODULE Log --------------------------------
(***************************************************************************)
(* The write-ahead log of kernel/log.c, with the part of the buffer cache  *)
(* it relies on (kernel/bio.c): pinned buffers are not recycled, others    *)
(* may be at any time.  The machine may crash between any two disk writes, *)
(* also during recovery.  A write of one block is atomic.                  *)
(***************************************************************************)
EXTENDS Naturals, Sequences, FiniteSets

CONSTANTS
  Block,        \* home blocks of the file system
  Thread,       \* kernel threads making file system calls
  None,
  MAXOPBLOCKS,  \* blocks an operation reserves in the log
  LOGSIZE,
  LogSectors,   \* log.size: blocks of the log on disk, its header included
  OpBlocks,     \* distinct blocks an operation really writes
  MaxOps,       \* bound on the number of operations
  MaxCrashes    \* bound on the number of crashes

ASSUME LogAssumption ==
  /\ MAXOPBLOCKS \in Nat \ {0} /\ LOGSIZE \in Nat /\ LogSectors \in Nat \ {0}
  /\ OpBlocks \in 1 .. MAXOPBLOCKS
  /\ MaxOps \in Nat /\ MaxCrashes \in Nat
  /\ Thread # {} /\ None \notin Thread \cup Block \cup (0 .. MaxOps)

(* The contents of a block: the number of the operation that wrote it.     *)
Value == 0 .. MaxOps

VARIABLES
  disk,        \* home blocks on disk
  logDisk,     \* log data blocks on disk: logDisk[i] is block start+i
  header,      \* the header block on disk, as the sequence of block numbers
  cache,       \* valid buffers: block -> data, None when not cached
  refcnt, locked,  \* b->refcnt, and the thread that holds b->lock
  lh, outstanding, committing,   \* log.lh, log.outstanding, log.committing
  pc, tail, hold,  \* per thread: program point, commit index, buffer held
  opno, wrote, \* per thread: its operation's number and the blocks it wrote
  ops, crashes,    \* counters, bounded
  panicked

diskVars == <<disk, logDisk, header>>
bufVars == <<cache, refcnt, locked>>
logVars == <<lh, outstanding, committing>>
opVars == <<opno, wrote, ops>>
vars == <<diskVars, bufVars, logVars, opVars, pc, tail, hold, crashes, panicked>>

Booter == CHOOSE t \in Thread : TRUE   \* the process whose forkret runs fsinit

Pcs == {"off", "read_head", "install_rec", "clear_rec", "idle", "reading",
        "begin", "asleep", "in_op", "holding", "write_log", "write_head",
        "install", "clear", "done"}

TypeOK ==
  /\ disk \in [Block -> Value] /\ cache \in [Block -> Value \cup {None}]
  /\ logDisk \in [1 .. LogSectors - 1 -> Value]
  /\ header \in Seq(Block) /\ lh \in Seq(Block)
  /\ refcnt \in [Block -> Nat] /\ locked \in [Block -> Thread \cup {None}]
  /\ outstanding \in Nat /\ committing \in BOOLEAN /\ panicked \in BOOLEAN
  /\ pc \in [Thread -> Pcs] /\ tail \in [Thread -> Nat]
  /\ hold \in [Thread -> Block \cup {None}]
  /\ opno \in [Thread -> Value] /\ wrote \in [Thread -> SUBSET Block]
  /\ ops \in Value /\ crashes \in 0 .. MaxCrashes

InMemoryInit ==
  /\ cache = [b \in Block |-> None] /\ refcnt = [b \in Block |-> 0]
  /\ locked = [b \in Block |-> None]
  /\ lh = <<>> /\ outstanding = 0 /\ committing = FALSE
  /\ pc = [t \in Thread |-> IF t = Booter THEN "read_head" ELSE "off"]
  /\ tail = [t \in Thread |-> 1] /\ hold = [t \in Thread |-> None]
  /\ opno = [t \in Thread |-> 0] /\ wrote = [t \in Thread |-> {}]
  /\ panicked = FALSE

(* mkfs leaves an empty log.                                               *)
Init ==
  /\ disk = [b \in Block |-> 0] /\ header = <<>>
  /\ logDisk = [i \in 1 .. LogSectors - 1 |-> 0]
  /\ InMemoryInit /\ ops = 0 /\ crashes = 0

At(t, l) == pc[t] = l /\ ~panicked
Goto(t, l) == pc' = [pc EXCEPT ![t] = l]

(***************************************************************************)
(* The buffer cache, as the log uses it.                                   *)
(***************************************************************************)

Contents(b) == IF cache[b] = None THEN disk[b] ELSE cache[b]

(* bread(b) by t: waits for b->lock.                                       *)
Bread(t, b) ==
  /\ locked[b] = None
  /\ locked' = [locked EXCEPT ![b] = t]
  /\ refcnt' = [refcnt EXCEPT ![b] = @ + 1]
  /\ cache' = [cache EXCEPT ![b] = Contents(b)]
  /\ hold' = [hold EXCEPT ![t] = b]

(* bget() recycles a buffer nobody refers to.                              *)
Recycle(b) ==
  /\ cache[b] # None /\ refcnt[b] = 0 /\ ~panicked
  /\ cache' = [cache EXCEPT ![b] = None]
  /\ UNCHANGED <<diskVars, refcnt, locked, logVars, opVars, pc, tail, hold,
                 crashes, panicked>>

(* A read outside any operation: fileread() -> readi() -> bread().         *)
ReadBlock(t, b) ==
  /\ At(t, "idle") /\ Bread(t, b) /\ Goto(t, "reading")
  /\ UNCHANGED <<diskVars, logVars, opVars, tail, crashes, panicked>>

Brelse(t) ==
  /\ \/ At(t, "reading") /\ Goto(t, "idle")
     \/ At(t, "holding") /\ Goto(t, "in_op")
  /\ locked' = [locked EXCEPT ![hold[t]] = None]
  /\ refcnt' = [refcnt EXCEPT ![hold[t]] = @ - 1]
  /\ hold' = [hold EXCEPT ![t] = None]
  /\ UNCHANGED <<diskVars, cache, logVars, opVars, tail, crashes, panicked>>

(***************************************************************************)
(* begin_op(), log_write(), end_op().                                      *)
(***************************************************************************)

Call(t) ==
  /\ At(t, "idle") /\ ops < MaxOps
  /\ ops' = ops + 1
  /\ opno' = [opno EXCEPT ![t] = ops + 1]
  /\ Goto(t, "begin")
  /\ UNCHANGED <<diskVars, bufVars, logVars, wrote, tail, hold, crashes, panicked>>

(* begin_op()'s two conditions for sleeping.                               *)
WaitsIgnoringCommit == Len(lh) + (outstanding + 1) * MAXOPBLOCKS > LOGSIZE
Waits ==
  \/ committing
  \/ Len(lh) + (outstanding + 1) * MAXOPBLOCKS > LOGSIZE

BeginOp(t) ==
  /\ At(t, "begin")
  /\ IF Waits
     THEN Goto(t, "asleep") /\ UNCHANGED outstanding
     ELSE Goto(t, "in_op") /\ outstanding' = outstanding + 1
  /\ UNCHANGED <<diskVars, bufVars, lh, committing, opVars, tail, hold, crashes,
                 panicked>>

(* bread(b), change b->data, log_write(b): the check of the log's size,    *)
(* absorption, and bpin of a new block.                                    *)
Pin(b) == IF \E i \in 1 .. Len(lh) : lh[i] = b THEN 0 ELSE 1

LogWrite(t, b) ==
  /\ At(t, "in_op") /\ locked[b] = None
  /\ b \in wrote[t] \/ Cardinality(wrote[t]) < OpBlocks
  /\ IF Len(lh) >= LOGSIZE \/ Len(lh) >= LogSectors - 1
     THEN /\ panicked' = TRUE
          /\ UNCHANGED <<lh, cache, refcnt, locked, hold, wrote, pc>>
     ELSE /\ cache' = [cache EXCEPT ![b] = opno[t]]
          /\ refcnt' = [refcnt EXCEPT ![b] = @ + 1 + Pin(b)]
          /\ locked' = [locked EXCEPT ![b] = t]
          /\ hold' = [hold EXCEPT ![t] = b]
          /\ lh' = IF \E i \in 1 .. Len(lh) : lh[i] = b THEN lh ELSE Append(lh, b)
          /\ wrote' = [wrote EXCEPT ![t] = @ \cup {b}]
          /\ Goto(t, "holding")
          /\ UNCHANGED panicked
  /\ UNCHANGED <<diskVars, outstanding, committing, opno, ops, tail, crashes>>

(* wakeup(&log): every sleeper of begin_op tries again.                    *)
WokenOne(s) == s = Booter /\ pc[s] = "asleep"
Woken(s) == pc[s] = "asleep"

(* end_op()'s test for being the last operation.                           *)
LastOpAlways == TRUE
LastOp == outstanding = 1

EndOp(t) ==
  /\ At(t, "in_op")
  /\ outstanding' = outstanding - 1
  /\ opno' = [opno EXCEPT ![t] = 0]
  /\ wrote' = [wrote EXCEPT ![t] = {}]
  /\ panicked' = committing
  /\ IF LastOp
     THEN /\ committing' = TRUE
          /\ Goto(t, IF Len(lh) > 0 THEN "write_log" ELSE "done")
     ELSE /\ pc' = [s \in Thread |-> IF s = t THEN "idle"
                                     ELSE IF Woken(s) THEN "begin" ELSE pc[s]]
          /\ UNCHANGED committing
  /\ UNCHANGED <<diskVars, bufVars, lh, ops, tail, hold, crashes>>

(***************************************************************************)
(* commit(): one action per block written.  The reads of log blocks and of *)
(* pinned blocks wait for b->lock, which a reader may hold.                *)
(***************************************************************************)

(* write_log(): one turn of its loop.                                      *)
WriteLog(t) ==
  LET i == tail[t] IN
  /\ At(t, "write_log") /\ locked[lh[i]] = None
  /\ logDisk' = [logDisk EXCEPT ![i] = Contents(lh[i])]
  /\ cache' = [cache EXCEPT ![lh[i]] = Contents(lh[i])]
  /\ IF i = Len(lh)
     THEN tail' = [tail EXCEPT ![t] = 1] /\ Goto(t, "write_head")
     ELSE tail' = [tail EXCEPT ![t] = i + 1] /\ UNCHANGED pc
  /\ UNCHANGED <<disk, header, refcnt, locked, logVars, opVars, hold, crashes,
                 panicked>>

(* write_head(): the true point at which the transaction commits.          *)
WriteHead(t) ==
  /\ At(t, "write_head")
  /\ header' = lh /\ Goto(t, "install")
  /\ UNCHANGED <<disk, logDisk, bufVars, logVars, opVars, tail, hold, crashes,
                 panicked>>

(* Which block install_trans() overwrites with log block i.                *)
InstallTo(t, l, i, next) ==
  /\ locked[l[i]] = None
  /\ disk' = [disk EXCEPT ![l[i]] = logDisk[i]]
  /\ cache' = [cache EXCEPT ![l[i]] = logDisk[i]]
  /\ IF i = Len(l)
     THEN tail' = [tail EXCEPT ![t] = 1] /\ Goto(t, next)
     ELSE tail' = [tail EXCEPT ![t] = i + 1] /\ UNCHANGED pc

(* install_trans(0): one turn of its loop, with bunpin.                    *)
Install(t) ==
  /\ At(t, "install")
  /\ InstallTo(t, lh, tail[t], "clear")
  /\ refcnt' = [refcnt EXCEPT ![lh[tail[t]]] = @ - 1]
  /\ UNCHANGED <<logDisk, header, locked, logVars, opVars, hold, crashes, panicked>>

(* log.lh.n = 0; write_head()                                              *)
ClearHeadSkipped == UNCHANGED header
ClearHead == header' = <<>>

Clear(t) ==
  /\ At(t, "clear")
  /\ lh' = <<>> /\ ClearHead
  /\ Goto(t, "done")
  /\ UNCHANGED <<disk, logDisk, bufVars, outstanding, committing, opVars, tail,
                 hold, crashes, panicked>>

(* The end of end_op(): log.committing = 0; wakeup(&log).                  *)
Done(t) ==
  /\ At(t, "done")
  /\ committing' = FALSE
  /\ pc' = [s \in Thread |-> IF s = t THEN "idle"
                             ELSE IF Woken(s) THEN "begin" ELSE pc[s]]
  /\ UNCHANGED <<diskVars, bufVars, lh, outstanding, opVars, tail, hold, crashes,
                 panicked>>

(***************************************************************************)
(* Crash, and recover_from_log() in the first process after the restart.   *)
(***************************************************************************)
Crash ==
  /\ crashes < MaxCrashes /\ crashes' = crashes + 1
  /\ cache' = [b \in Block |-> None] /\ refcnt' = [b \in Block |-> 0]
  /\ locked' = [b \in Block |-> None]
  /\ lh' = <<>> /\ outstanding' = 0 /\ committing' = FALSE
  /\ pc' = [t \in Thread |-> IF t = Booter THEN "read_head" ELSE "off"]
  /\ tail' = [t \in Thread |-> 1] /\ hold' = [t \in Thread |-> None]
  /\ opno' = [t \in Thread |-> 0] /\ wrote' = [t \in Thread |-> {}]
  /\ panicked' = FALSE
  /\ UNCHANGED <<diskVars, ops>>

ReadHead(t) ==
  /\ At(t, "read_head")
  /\ lh' = header
  /\ Goto(t, IF Len(header) > 0 THEN "install_rec" ELSE "clear_rec")
  /\ UNCHANGED <<diskVars, bufVars, outstanding, committing, opVars, tail, hold,
                 crashes, panicked>>

InstallRecovering(t) ==
  /\ At(t, "install_rec")
  /\ InstallTo(t, lh, tail[t], "clear_rec")
  /\ UNCHANGED <<logDisk, header, refcnt, locked, logVars, opVars, hold, crashes,
                 panicked>>

ClearRecovering(t) ==
  /\ At(t, "clear_rec")
  /\ lh' = <<>> /\ ClearHead
  /\ pc' = [s \in Thread |-> "idle"]
  /\ UNCHANGED <<disk, logDisk, bufVars, outstanding, committing, opVars, tail,
                 hold, crashes, panicked>>

Step(t) ==
  \/ Call(t) \/ BeginOp(t) \/ EndOp(t) \/ Brelse(t)
  \/ WriteLog(t) \/ WriteHead(t) \/ Install(t) \/ Clear(t) \/ Done(t)
  \/ ReadHead(t) \/ InstallRecovering(t) \/ ClearRecovering(t)

Next ==
  \/ \E t \in Thread : Step(t)
  \/ \E t \in Thread, b \in Block : ReadBlock(t, b) \/ LogWrite(t, b)
  \/ \E b \in Block : Recycle(b)
  \/ Crash

Spec == Init /\ [][Next]_vars

(* Every thread in the kernel proceeds; an operation ends.                 *)
Fairness ==
  \A t \in Thread :
    /\ WF_vars(BeginOp(t)) /\ SF_vars(EndOp(t)) /\ WF_vars(Brelse(t))
    /\ SF_vars(WriteLog(t)) /\ WF_vars(WriteHead(t)) /\ SF_vars(Install(t))
    /\ WF_vars(Clear(t)) /\ WF_vars(Done(t))
    /\ WF_vars(ReadHead(t)) /\ WF_vars(InstallRecovering(t))
    /\ WF_vars(ClearRecovering(t))

FairSpec == Spec /\ Fairness

(***************************************************************************)
(* Properties.                                                             *)
(***************************************************************************)

(* What recover_from_log() would make of the disk.                         *)
Recovered ==
  [b \in Block |->
     LET at == {i \in 1 .. Len(header) : header[i] = b} IN
     IF at = {} THEN disk[b] ELSE logDisk[CHOOSE i \in at : TRUE]]

Booting == \E t \in Thread : pc[t] \in {"read_head", "install_rec", "clear_rec"}

Store == INSTANCE AtomicStore WITH
  durable <- Recovered,
  volatile <- IF Booting THEN Recovered ELSE [b \in Block |-> Contents(b)],
  active <- {t \in Thread : pc[t] \in {"in_op", "holding"}}

(* The log implements the atomic store: whenever the machine stops, what   *)
(* recovery finds is the state between two groups of operations.           *)
AtomicOps == Store!StoreSpec

(* When no operation runs and no commit is going on, everything written is *)
(* on its home block: the last end_op() returns only after it is durable.  *)
QuiescentIsDurable ==
  outstanding = 0 /\ ~committing /\ ~Booting =>
    /\ lh = <<>> /\ header = <<>>
    /\ \A b \in Block : Contents(b) = disk[b]

(* begin_op()'s reservation keeps log_write() from "too big a transaction" *)
(* and end_op() from running into a commit; and whoever sleeps in          *)
(* begin_op() for want of room has somebody to wake it.                    *)
SleeperHasWaker == \A t \in Thread : pc[t] = "asleep" => committing \/ outstanding > 0
ReservationsHold == TypeOK /\ ~panicked /\ SleeperHasWaker

(* A thread in begin_op() gets its turn, unless the machine crashes.       *)
BeginReturns ==
  \A t \in Thread : pc[t] \in {"begin", "asleep"} ~> pc[t] \notin {"begin", "asleep"}

=============================================================================
