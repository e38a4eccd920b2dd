------------------------------- MODULE Bcache -------------------------------
(***************************************************************************)
(* The buffer cache of kernel/bio.c with the sleep locks of its buffers    *)
(* (kernel/sleeplock.c).  A critical section of bcache.lock, or of a sleep *)
(* lock's own spinlock, is one action.                                     *)
(*                                                                         *)
(* A user is a kernel thread with one buffer: bread(), then what it stores *)
(* is written by bwrite(), or pinned by log_write() until install_trans()  *)
(* has written it.  A thread that holds several buffers at once counts as  *)
(* several users.  Which block a user wants is free.                       *)
(***************************************************************************)
EXTENDS Naturals, FiniteSets

CONSTANTS
  NBUF,
  Block,
  User,
  None,
  Value,       \* contents of a block
  MaxPins      \* blocks in the log, at most

Buf == 1 .. NBUF

BcacheAssumption ==
  /\ NBUF \in Nat /\ MaxPins \in Nat
  /\ None \notin Block \cup User \cup Buf
  /\ IsFiniteSet(User)

VARIABLES
  lru,         \* the list, by place, from bcache.head.next to bcache.head.prev
  blockno, valid, refcnt, data,   \* of a buffer; valid as a set
  locked,      \* per buffer: the user that holds b->lock
  store,       \* the blocks on the disk
  pins,        \* the blocks in log.lh
  pc, b, want, \* per user: its point, its buffer, the block it asked for
  newest       \* what was stored last in each block

cache == <<lru, blockno, valid, refcnt>>
vars == <<cache, data, locked, store, pins, pc, b, want, newest>>

(* The points at which a user holds its buffer's lock, and those at which it  *)
(* has a reference.                                                        *)
Holding == {"locked", "reading", "hold", "changed", "writing", "unpin"}
Using == Holding \cup {"acquire", "asleep", "unlocked"}

TypeOK ==
  /\ lru \in [Buf -> Buf] /\ blockno \in [Buf -> Block \cup {None}]
  /\ valid \subseteq Buf /\ refcnt \in [Buf -> Nat] /\ data \in [Buf -> Value]
  /\ locked \in [Buf -> User \cup {None}] /\ store \in [Block -> Value]
  /\ pins \subseteq Block /\ newest \in [Block -> Value]
  /\ pc \in [User -> Using \cup {"idle"}]
  /\ b \in [User -> Buf \cup {None}] /\ want \in [User -> Block \cup {None}]

(* binit() puts each buffer before the one before it.                      *)
Init ==
  /\ lru = [i \in Buf |-> NBUF + 1 - i]
  /\ blockno = [i \in Buf |-> None] /\ valid = {} /\ refcnt = [i \in Buf |-> 0]
  /\ \E v \in Value : data = [i \in Buf |-> v] /\ store = [k \in Block |-> v]
  /\ locked = [i \in Buf |-> None] /\ pins = {}
  /\ pc = [t \in User |-> "idle"] /\ b = [t \in User |-> None]
  /\ want = [t \in User |-> None] /\ newest = store

Goto(t, l) == pc' = [pc EXCEPT ![t] = l]

(***************************************************************************)
(* bget()                                                                  *)
(***************************************************************************)

(* Slip: the second loop asks for the lock instead of the references.      *)
UnlockedBuffers == {n \in Buf : locked[lru[n]] = None}

(* The places of what the two loops look for; the second goes backwards.   *)
(* When neither finds a buffer bget() panics: that user takes no step.     *)
Cached(k) == {n \in Buf : blockno[lru[n]] = k}
Unused == {n \in Buf : refcnt[lru[n]] = 0}

(* Slip: the contents of the old block are kept.                           *)
Keep(i) == valid
Forget(i) == valid \ {i}

Bget(t, k) ==
  /\ pc[t] = "idle" /\ Goto(t, "acquire") /\ want' = [want EXCEPT ![t] = k]
  /\ \/ \E n \in Cached(k) :
          /\ \A m \in Cached(k) : n <= m
          /\ b' = [b EXCEPT ![t] = lru[n]]
          /\ refcnt' = [refcnt EXCEPT ![lru[n]] = @ + 1]
          /\ UNCHANGED <<blockno, valid>>
     \/ /\ Cached(k) = {}
        /\ \E n \in Unused :
             /\ \A m \in Unused : m <= n
             /\ b' = [b EXCEPT ![t] = lru[n]]
             /\ blockno' = [blockno EXCEPT ![lru[n]] = k] /\ valid' = Forget(lru[n])
             /\ refcnt' = [refcnt EXCEPT ![lru[n]] = 1]
  /\ UNCHANGED <<lru, data, locked, store, pins, newest>>

(* A turn of acquiresleep()'s loop.                                        *)
AcquireSleep(t) ==
  /\ pc[t] = "acquire"
  /\ IF locked[b[t]] = None
     THEN locked' = [locked EXCEPT ![b[t]] = t] /\ Goto(t, "locked")
     ELSE Goto(t, "asleep") /\ UNCHANGED locked
  /\ UNCHANGED <<cache, data, store, pins, b, want, newest>>

(***************************************************************************)
(* bread(), what its callers do, and bwrite()                              *)
(***************************************************************************)
Bread(t) ==
  /\ pc[t] = "locked" /\ Goto(t, IF b[t] \in valid THEN "hold" ELSE "reading")
  /\ UNCHANGED <<cache, data, locked, store, pins, b, want, newest>>

(* The transfer has ended.                                                 *)
Read(t) ==
  /\ pc[t] = "reading" /\ Goto(t, "hold")
  /\ data' = [data EXCEPT ![b[t]] = store[blockno[b[t]]]]
  /\ valid' = valid \cup {b[t]}
  /\ UNCHANGED <<lru, blockno, refcnt, locked, store, pins, b, want, newest>>

Store(t, v) ==
  /\ pc[t] = "hold" /\ Goto(t, "changed")
  /\ data' = [data EXCEPT ![b[t]] = v] /\ newest' = [newest EXCEPT ![want[t]] = v]
  /\ UNCHANGED <<cache, locked, store, pins, b, want>>

(* log_write() pins a block once for a transaction.                        *)
LogWrite(t) ==
  LET k == blockno[b[t]] IN
  /\ pc[t] = "changed" /\ Cardinality(pins \cup {k}) <= MaxPins
  /\ pins' = pins \cup {k}
  /\ refcnt' = IF k \in pins THEN refcnt ELSE [refcnt EXCEPT ![b[t]] = @ + 1]
  /\ Goto(t, "hold")
  /\ UNCHANGED <<lru, blockno, valid, data, locked, store, b, want, newest>>

(* bwrite() of what was stored, or install_trans() of a pinned block.      *)
Bwrite(t) ==
  /\ \/ pc[t] = "changed" /\ blockno[b[t]] \notin pins
     \/ pc[t] = "hold" /\ blockno[b[t]] \in pins
  /\ Goto(t, "writing")
  /\ UNCHANGED <<cache, data, locked, store, pins, b, want, newest>>

Written(t) ==
  /\ pc[t] = "writing" /\ store' = [store EXCEPT ![blockno[b[t]]] = data[b[t]]]
  /\ Goto(t, IF blockno[b[t]] \in pins THEN "unpin" ELSE "hold")
  /\ UNCHANGED <<cache, data, locked, pins, b, want, newest>>

Bunpin(t) ==
  /\ pc[t] = "unpin" /\ Goto(t, "hold")
  /\ refcnt' = [refcnt EXCEPT ![b[t]] = @ - 1]
  /\ pins' = pins \ {blockno[b[t]]}
  /\ UNCHANGED <<lru, blockno, valid, data, locked, store, b, want, newest>>

(***************************************************************************)
(* brelse()                                                                *)
(***************************************************************************)

(* releasesleep() wakes all who sleep on the lock.                         *)
ReleaseSleep(t) ==
  /\ pc[t] = "hold"
  /\ locked' = [locked EXCEPT ![b[t]] = None]
  /\ pc' = [s \in User |-> IF s = t THEN "unlocked"
                           ELSE IF pc[s] = "asleep" /\ b[s] = b[t] THEN "acquire"
                           ELSE pc[s]]
  /\ UNCHANGED <<cache, data, store, pins, b, want, newest>>

(* The buffer goes to the front, those before it move one place.           *)
ToFront(i) ==
  LET n == CHOOSE n \in Buf : lru[n] = i
  IN [m \in Buf |-> IF m = 1 THEN i ELSE IF m <= n THEN lru[m - 1] ELSE lru[m]]

Brelse(t) ==
  /\ pc[t] = "unlocked" /\ Goto(t, "idle")
  /\ refcnt' = [refcnt EXCEPT ![b[t]] = @ - 1]
  /\ lru' = IF refcnt'[b[t]] = 0 THEN ToFront(b[t]) ELSE lru
  /\ b' = [b EXCEPT ![t] = None] /\ want' = [want EXCEPT ![t] = None]
  /\ UNCHANGED <<blockno, valid, data, locked, store, pins, newest>>

Next ==
  \E t \in User :
    \/ \E k \in Block : Bget(t, k)
    \/ AcquireSleep(t) \/ Bread(t) \/ Read(t)
    \/ \E v \in Value : Store(t, v)
    \/ LogWrite(t) \/ Bwrite(t) \/ Written(t) \/ Bunpin(t)
    \/ ReleaseSleep(t) \/ Brelse(t)

Spec == Init /\ [][Next]_vars

(***************************************************************************)
(* Properties.                                                             *)
(***************************************************************************)

(* A block is in one buffer at most; a buffer is not given to another      *)
(* block while somebody uses it, waits for it or the log pins it; and the  *)
(* panic "bget: no buffers" comes only when the users and the log have as  *)
(* many buffers as there are.                                              *)
OneBuffer ==
  /\ \A i, j \in Buf : blockno[i] = blockno[j] /\ i # j => blockno[i] = None
  /\ \A t \in User : pc[t] \in Using => blockno[b[t]] = want[t]
  /\ \A k \in pins : \E i \in valid : blockno[i] = k
  /\ \A i \in Buf : refcnt[i] = Cardinality({t \in User : b[t] = i})
                                + Cardinality({blockno[i]} \cap pins)
  /\ Unused = {} => NBUF <= Cardinality({t \in User : b[t] # None}) + Cardinality(pins)

(* Who holds a buffer sees what was stored in the block last, whoever      *)
(* stored it, and nobody else holds it; what the log does not pin is on    *)
(* the disk.  Who sleeps on a lock sleeps while another holds it.          *)
Coherent ==
  /\ \A t \in User :
       /\ pc[t] \in Holding <=> \E i \in Buf : locked[i] = t
       /\ pc[t] \in Holding => locked[b[t]] = t
       /\ pc[t] \in {"hold", "changed", "writing", "unpin"} => data[b[t]] = newest[want[t]]
       /\ pc[t] = "asleep" => locked[b[t]] # None
  /\ \A k \in Block \ pins :
       store[k] = newest[k] \/ \E t \in User : pc[t] \in {"changed", "writing"} /\ want[t] = k

=============================================================================
