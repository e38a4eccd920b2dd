----------------------------- MODULE VirtioProof -----------------------------
(***************************************************************************)
(* Proofs about VirtioDisk: descriptors are conserved and each call of     *)
(* virtio_disk_rw() returns after its own transfer, for any threads, any   *)
(* number of descriptors, and any width of the indices.                    *)
(***************************************************************************)
EXTENDS VirtioDisk, Integers, FiniteSetTheorems, WellFoundedInduction, TLAPS

(***************************************************************************)
(* Arithmetic of two indices into a ring of P entries that are never       *)
(* reduced modulo P, but wrap at W, a multiple of P: the indices of the   *)
(* rings of kernel/virtio_disk.c.                                          *)
(***************************************************************************)
(* How far index b is ahead of index a, around the wrap or not.            *)
Ahead(W, a, b) == (b + W - a) % W

LEMMA Multiple ==
  ASSUME NEW P \in Nat \ {0}, NEW W \in Nat, W % P = 0, NEW a \in Nat
  PROVE  (W + a) % P = a % P
<1>1. W = P * (W \div P) /\ W \div P \in Nat
  OBVIOUS
<1>2. a = P * (a \div P) + (a % P) /\ a \div P \in Nat /\ a % P \in 0 .. P - 1
  OBVIOUS
<1>3. ASSUME NEW k \in Nat, NEW r \in 0 .. P - 1 PROVE (P * k + r) % P = r
  OBVIOUS
<1>4. W + a = P * ((W \div P) + (a \div P)) + (a % P) /\ (W \div P) + (a \div P) \in Nat
  BY <1>1, <1>2
<1> QED
  BY <1>2, <1>3, <1>4

(* Less than P apart, two numbers have two places.                         *)
LEMMA Apart ==
  ASSUME NEW P \in Nat \ {0}, NEW a \in Nat, NEW d \in 1 .. P - 1
  PROVE  (a + d) % P # a % P
<1> DEFINE q == a \div P
           r == a % P
<1>1. a = P * q + r /\ q \in Nat /\ r \in 0 .. P - 1
  OBVIOUS
<1>2. ASSUME NEW k \in Nat, NEW x \in 0 .. P - 1 PROVE (P * k + x) % P = x
  OBVIOUS
<1>3. CASE r + d < P
  <2>1. a + d = P * q + (r + d) /\ r + d \in 0 .. P - 1
    BY <1>1, <1>3
  <2>2. (a + d) % P = r + d
    BY <1>1, <1>2, <2>1
  <2> QED
    BY <1>1, <2>2
<1>4. CASE r + d >= P
  <2>1. a + d = P * (q + 1) + (r + d - P) /\ r + d - P \in 0 .. P - 1 /\ q + 1 \in Nat
    BY <1>1, <1>4
  <2>2. (a + d) % P = r + d - P
    BY <1>2, <2>1
  <2> QED
    BY <1>1, <2>2
<1> QED
  BY <1>1, <1>3, <1>4

LEMMA Around ==
  ASSUME NEW P \in Nat \ {0}, NEW W \in Nat, W % P = 0, NEW x \in Nat
  PROVE  (W + x) % P = x % P /\ x % P \in 0 .. P - 1
<1>1. (W + x) % P = x % P
  BY Multiple, Zenon
<1>2. x % P \in 0 .. P - 1
  OBVIOUS
<1> QED
  BY <1>1, <1>2

LEMMA Distance ==
  ASSUME NEW W \in Nat \ {0}, NEW a \in 0 .. W - 1, NEW b \in 0 .. W - 1
  PROVE  /\ b >= a => Ahead(W, a, b) = b - a
         /\ b < a => Ahead(W, a, b) = b + W - a
         /\ Ahead(W, a, b) \in 0 .. W - 1
         /\ b = (a + Ahead(W, a, b)) % W
         /\ a = b <=> Ahead(W, a, b) = 0
<1>1. ASSUME NEW x \in Nat, x < W PROVE x % W = x /\ (W + x) % W = x
  BY <1>1
<1>2. a \in Nat /\ b \in Nat /\ a < W /\ b < W
  OBVIOUS
<1>3. CASE b >= a
  <2> DEFINE g == b - a
  <2>1. /\ b + W - a = W + g /\ g \in 0 .. W - 1 /\ g \in Nat /\ g < W
        /\ a + g = b /\ (a = b <=> g = 0) /\ ~(b < a)
    BY <1>3
  <2> HIDE DEF g
  <2>2. (W + g) % W = g /\ b % W = b
    BY <1>1, <1>2, <2>1
  <2>3. Ahead(W, a, b) = g
    BY <2>1, <2>2 DEF Ahead
  <2> QED
    BY <1>3, <2>1, <2>2, <2>3 DEF g
<1>4. CASE b < a
  <2> DEFINE g == b + W - a
  <2>1. /\ g \in 0 .. W - 1 /\ g \in Nat /\ g < W /\ g # 0
        /\ a + g = W + b /\ a # b /\ ~(b >= a)
    BY <1>4
  <2>2. g % W = Ahead(W, a, b)
    BY DEF Ahead
  <2> HIDE DEF g
  <2>3. Ahead(W, a, b) = g
    BY <1>1, <2>1, <2>2
  <2>4. (W + b) % W = b
    BY <1>1, <1>2
  <2> QED
    BY <2>1, <2>3, <2>4 DEF g
<1> QED
  BY <1>2, <1>3, <1>4

LEMMA Stepped ==
  ASSUME NEW W \in Nat \ {0}, NEW x \in 0 .. W - 1
  PROVE  /\ x = W - 1 => (x + 1) % W = 0
         /\ x # W - 1 => (x + 1) % W = x + 1
         /\ (x + 1) % W \in 0 .. W - 1
<1>1. CASE x = W - 1
  <2>1. x + 1 = W /\ W % W = 0
    BY <1>1
  <2> QED
    BY <1>1, <2>1
<1>2. CASE x # W - 1
  <2>1. x + 1 \in Nat /\ x + 1 < W
    BY <1>2
  <2>2. (x + 1) % W = x + 1
    BY <2>1
  <2> QED
    BY <1>2, <2>1, <2>2
<1> QED
  BY <1>1, <1>2

(* One step of the index ahead, and one of the index behind.               *)
LEMMA Longer ==
  ASSUME NEW W \in Nat \ {0}, NEW a \in 0 .. W - 1, NEW b \in 0 .. W - 1
  PROVE  Ahead(W, a, b) + 1 < W => Ahead(W, a, (b + 1) % W) = Ahead(W, a, b) + 1
<1> DEFINE f == Ahead(W, a, b)
           c == (b + 1) % W
<1>1. /\ f \in 0 .. W - 1
      /\ b >= a => f = b - a
      /\ b < a => f = b + W - a
  BY Distance
<1>2. /\ c \in 0 .. W - 1
      /\ b = W - 1 => c = 0
      /\ b # W - 1 => c = b + 1
  BY Stepped
<1> HIDE DEF c
<1>3. /\ c >= a => Ahead(W, a, c) = c - a
      /\ c < a => Ahead(W, a, c) = c + W - a
  BY <1>2, Distance
<1> HIDE DEF f
<1>4. f + 1 < W => Ahead(W, a, c) = f + 1
  BY <1>1, <1>2, <1>3
<1> QED
  BY <1>4 DEF f, c

LEMMA Shorter ==
  ASSUME NEW W \in Nat \ {0}, NEW a \in 0 .. W - 1, NEW b \in 0 .. W - 1, a # b
  PROVE  Ahead(W, (a + 1) % W, b) = Ahead(W, a, b) - 1
<1> DEFINE f == Ahead(W, a, b)
           s == (a + 1) % W
<1>1. /\ f \in 0 .. W - 1
      /\ b >= a => f = b - a
      /\ b < a => f = b + W - a
  BY Distance
<1>2. /\ s \in 0 .. W - 1
      /\ a = W - 1 => s = 0
      /\ a # W - 1 => s = a + 1
  BY Stepped
<1> HIDE DEF s
<1>3. /\ b >= s => Ahead(W, s, b) = b - s
      /\ b < s => Ahead(W, s, b) = b + W - s
  BY <1>2, Distance
<1> HIDE DEF f
<1>4. Ahead(W, s, b) = f - 1
  BY <1>1, <1>2, <1>3
<1> QED
  BY <1>4 DEF f, s

LEMMA SamePlace ==
  ASSUME NEW P \in Nat \ {0}, NEW W \in Nat \ {0}, W % P = 0,
         NEW a \in 0 .. W - 1, NEW b \in 0 .. W - 1
  PROVE  (a + Ahead(W, a, b)) % P = b % P
<1> DEFINE f == Ahead(W, a, b)
<1>1. f = b - a \/ f = b + W - a
  BY Distance
<1>2. b \in Nat /\ (a + f = b \/ a + f = W + b)
  BY <1>1
<1>3. (W + b) % P = b % P
  BY <1>2, Around, Zenon
<1> QED
  BY <1>2, <1>3

LEMMA NextPlace ==
  ASSUME NEW P \in Nat \ {0}, NEW W \in Nat \ {0}, W % P = 0,
         NEW a \in 0 .. W - 1, NEW k \in Nat
  PROVE  (((a + 1) % W) + k) % P = (a + (k + 1)) % P
<1> DEFINE s == (a + 1) % W
<1>1. (W + k) % P = k % P
  BY Around, Zenon
<1>2. (a = W - 1 => s = 0) /\ (a # W - 1 => s = a + 1)
  BY Stepped
<1> HIDE DEF s
<1>3. CASE a = W - 1
  <2>1. s + k = k /\ a + (k + 1) = W + k
    BY <1>2, <1>3
  <2> QED
    BY <1>1, <2>1 DEF s
<1>4. CASE a # W - 1
  <2>1. s + k = a + (k + 1)
    BY <1>2, <1>4
  <2> QED
    BY <2>1 DEF s
<1> QED
  BY <1>3, <1>4

(* The entry at the index ahead is none of those between the two.          *)
LEMMA OtherPlace ==
  ASSUME NEW P \in Nat \ {0}, NEW W \in Nat \ {0}, W % P = 0,
         NEW a \in 0 .. W - 1, NEW b \in 0 .. W - 1, Ahead(W, a, b) < P,
         NEW k \in 0 .. Ahead(W, a, b) - 1
  PROVE  (a + k) % P # b % P
<1> DEFINE f == Ahead(W, a, b)
           m == f - k
           x == a + k
<1>1. f \in 0 .. W - 1
  BY Distance
<1>2. (a + f) % P = b % P
  BY SamePlace
<1>3. x \in Nat /\ m \in 1 .. P - 1 /\ x + m = a + f
  BY <1>1
<1> HIDE DEF m, x, f
<1>4. (x + m) % P # x % P
  BY <1>3, Apart, Zenon
<1>5. x % P # b % P
  BY <1>2, <1>3, <1>4, Zenon
<1> QED
  BY <1>5 DEF x

(***************************************************************************)
(* The invariant.                                                          *)
(***************************************************************************)
(* vdisk_lock is held where the code runs under it; who sleeps or waits    *)
(* for the lock has not lost its request.                                  *)
LockInv ==
  /\ \A t \in Thread : lock = t <=> pc[t] \in {"ring", "index", "wait"}
  /\ lock = Intr <=> handler # "off"
  /\ \A t \in Thread :
       /\ pc[t] \in {"index", "sleep"} => t \in busy
       /\ pc[t] \in {"idle", "alloc", "sleepfree", "ring", "acquire"} => t \notin busy

(* A call that has descriptors has three, and no other has them; from      *)
(* Format on they are the chain of its head.                               *)
Holding == {"ring", "index", "wait", "sleep", "acquire"}

Distinct3(s) == Len(s) = 3 /\ s[1] # s[2] /\ s[1] # s[3] /\ s[2] # s[3]

OwnInv ==
  /\ \A t \in Thread :
       /\ pc[t] \in Holding => Distinct3(idx[t])
       /\ pc[t] \notin Holding => idx[t] = <<>>
       /\ pc[t] \in Holding \ {"ring"} => chain[idx[t][1]] = idx[t] /\ info[idx[t][1]] = t
  /\ \A t \in Thread : Owned(t) \cap free = {}
  /\ \A t, s \in Thread : t # s => Owned(t) \cap Owned(s) = {}
  /\ \A d \in Desc : d \in free \/ \E t \in Thread : d \in Owned(t)

(* The entries of a ring from an index up to another, around the wrap.     *)
Gap(a, b) == Ahead(WRAP, a, b)
Between(a, b) == 0 .. Gap(a, b) - 1
Entry(ring, a, k) == ring[(a + k) % NUM]

Waiting == Between(devIdx, availIdx)
Done == Between(seenIdx, usedIdx)
WaitingHead(k) == Entry(availRing, devIdx, k)
DoneHead(k) == Entry(usedRing, seenIdx, k)

(* A request is in one place: between devIdx and avail->idx, with the      *)
(* device, or between disk.used_idx and used->idx.                         *)
PlaceInv ==
  /\ \A k \in Waiting : WaitingHead(k) \notin inflight
  /\ \A k, l \in Waiting : k # l => WaitingHead(k) # WaitingHead(l)
  /\ \A k \in Done : DoneHead(k) \notin inflight
  /\ \A k, l \in Done : k # l => DoneHead(k) # DoneHead(l)
  /\ \A k \in Done, l \in Waiting : DoneHead(k) # WaitingHead(l)
  /\ \A t \in Thread : pc[t] = "index" => availRing[Slot] = idx[t][1]

(* It is there until the driver has seen its end: its caller waits.        *)
Pending(h) ==
  /\ h \in Desc /\ info[h] \in Thread /\ idx[info[h]] # <<>> /\ idx[info[h]][1] = h
  /\ info[h] \in busy /\ pc[info[h]] \in {"wait", "sleep"}

PendingInv ==
  /\ \A k \in Waiting : Pending(WaitingHead(k))
  /\ \A h \in inflight : Pending(h)
  /\ \A k \in Done : Pending(DoneHead(k))

(* The data of a transfer that the device has completed is in place.       *)
SyncInv ==
  /\ \A k \in Done : buf[info[DoneHead(k)]] = disk[info[DoneHead(k)]]
  /\ \A t \in Thread :
       pc[t] = "idle" \/ (pc[t] \in {"wait", "acquire"} /\ t \notin busy) => buf[t] = disk[t]

(* Entries that nobody looks at yet are announced.                         *)
AnnouncedInv == handler # "loop" /\ seenIdx # usedIdx => intr \/ raise

Inv == TypeOK /\ LockInv /\ OwnInv /\ PlaceInv /\ PendingInv /\ SyncInv /\ AnnouncedInv

(***************************************************************************)
(* Rings.                                                                  *)
(***************************************************************************)
LEMMA Constants ==
  /\ NUM \in Nat \ {0} /\ NUM >= 3 /\ WRAP \in Nat \ {0} /\ WRAP >= NUM
  /\ WRAP % NUM = 0
  /\ Desc = 0 .. NUM - 1 /\ Index = 0 .. WRAP - 1
<1>1. /\ NUM \in Nat \ {0} /\ NUM >= 3 /\ WRAP \in Nat \ {0} /\ WRAP % NUM = 0
      /\ Desc = 0 .. NUM - 1 /\ Index = 0 .. WRAP - 1
  BY VirtioAssumption DEF Desc, Index
<1>2. WRAP < NUM => WRAP % NUM = WRAP
  BY <1>1
<1> QED
  BY <1>1, <1>2

LEMMA Place == ASSUME NEW x \in Nat PROVE x % NUM \in Desc
BY Constants

LEMMA IndexPlace == ASSUME NEW x \in Index PROVE x % NUM \in Desc
<1>1. x \in Nat
  BY Constants
<1> QED
  BY <1>1, Place

LEMMA Gaps ==
  ASSUME NEW a \in Index, NEW b \in Index
  PROVE  /\ Gap(a, b) \in Nat
         /\ a = b <=> Gap(a, b) = 0
         /\ Gap(a, b) + 1 < NUM => Gap(a, PlusOne(b)) = Gap(a, b) + 1
         /\ a # b => Gap(PlusOne(a), b) = Gap(a, b) - 1
         /\ PlusOne(a) \in Index /\ PlusOne(b) \in Index
<1>1. WRAP \in Nat \ {0} /\ a \in 0 .. WRAP - 1 /\ b \in 0 .. WRAP - 1
  BY Constants
<1>2. Gap(a, b) \in 0 .. WRAP - 1 /\ (a = b <=> Gap(a, b) = 0)
  BY <1>1, Distance DEF Gap
<1>3. Gap(a, b) + 1 < WRAP => Gap(a, PlusOne(b)) = Gap(a, b) + 1
  BY <1>1, Longer, Zenon DEF Gap, PlusOne
<1>4. a # b => Gap(PlusOne(a), b) = Gap(a, b) - 1
  BY <1>1, Shorter, Zenon DEF Gap, PlusOne
<1>5. PlusOne(a) \in Index /\ PlusOne(b) \in Index
  BY <1>1, Stepped, Constants DEF PlusOne
<1>6. Gap(a, b) \in Nat /\ (Gap(a, b) + 1 < NUM => Gap(a, b) + 1 < WRAP)
  BY Constants, <1>2
<1> QED
  BY <1>2, <1>3, <1>4, <1>5, <1>6

(* An entry at the index ahead, and that index moved on.                   *)
LEMMA Extended ==
  ASSUME NEW ring \in [Desc -> Desc], NEW h \in Desc,
         NEW a \in Index, NEW b \in Index, Gap(a, b) + 1 < NUM,
         NEW new, new[b % NUM] = h,
         \A x \in Desc : x # b % NUM => new[x] = ring[x]
  PROVE  /\ \A k \in Between(a, b) : Entry(new, a, k) = Entry(ring, a, k)
         /\ Entry(new, a, Gap(a, b)) = h
         /\ Between(a, PlusOne(b)) = Between(a, b) \cup {Gap(a, b)}
<1>0. a \in Nat /\ b \in Nat
  BY Constants
<1>1. a \in Nat /\ b \in Nat /\ b % NUM \in Desc /\ Gap(a, b) \in Nat
  BY <1>0, Place, Gaps
<1>3. \A k \in Between(a, b) : (a + k) % NUM # b % NUM
  <2>1. Ahead(WRAP, a, b) < NUM
    BY <1>1, Constants DEF Gap
  <2> QED
    BY <2>1, Constants, OtherPlace DEF Between, Gap
<1>4. \A k \in Between(a, b) : (a + k) % NUM \in Desc
  BY <1>1, Place DEF Between
<1>5. (a + Gap(a, b)) % NUM = b % NUM
  BY Constants, SamePlace DEF Gap
<1>6. Between(a, PlusOne(b)) = Between(a, b) \cup {Gap(a, b)}
  <2>1. Gap(a, PlusOne(b)) = Gap(a, b) + 1
    BY Gaps
  <2> QED
    BY <1>1, <2>1 DEF Between
<1>7. /\ \A k \in Between(a, b) : Entry(new, a, k) = Entry(ring, a, k)
      /\ Entry(new, a, Gap(a, b)) = h
  BY <1>1, <1>3, <1>4, <1>5 DEF Entry
<1> QED
  BY <1>6, <1>7

(* The index behind moved on.                                              *)
LEMMA Shifted ==
  ASSUME NEW ring, NEW a \in Index, NEW b \in Index, a # b
  PROVE  /\ 0 \in Between(a, b) /\ Entry(ring, a, 0) = ring[a % NUM]
         /\ \A k \in Between(PlusOne(a), b) :
              /\ k + 1 \in Between(a, b) /\ k + 1 # 0
              /\ Entry(ring, PlusOne(a), k) = Entry(ring, a, k + 1)
         /\ \A k, l \in Between(PlusOne(a), b) : k # l => k + 1 # l + 1
<1>1. /\ Gap(a, b) \in Nat /\ Gap(a, b) # 0 /\ Gap(PlusOne(a), b) = Gap(a, b) - 1
  BY Gaps
<1>0. a \in Nat /\ a + 0 = a
  BY Constants
<1>2. \A k \in Nat : (PlusOne(a) + k) % NUM = (a + (k + 1)) % NUM
  <2>1. /\ NUM \in Nat \ {0} /\ WRAP \in Nat \ {0} /\ WRAP % NUM = 0
        /\ a \in 0 .. WRAP - 1
    BY Constants
  <2> QED
    BY <2>1, NextPlace, ZenonT(30) DEF PlusOne
<1> QED
  BY <1>0, <1>1, <1>2 DEF Between, Entry

(* Who has three descriptors leaves NUM - 3 to be entries of a ring.       *)
LEMMA Room ==
  ASSUME NEW ring \in [Desc -> Desc], NEW a \in Index, NEW b \in Index,
         NEW x \in Desc, NEW y \in Desc, NEW z \in Desc, x # y, x # z, y # z,
         \A k \in Between(a, b) : Entry(ring, a, k) \notin {x, y, z},
         \A k, l \in Between(a, b) : k # l => Entry(ring, a, k) # Entry(ring, a, l)
  PROVE  Gap(a, b) + 1 < NUM
<1> DEFINE S == Between(a, b)
           T == ((Desc \ {x}) \ {y}) \ {z}
           f == [k \in S |-> Entry(ring, a, k)]
<1>1. Gap(a, b) \in Nat
  BY Gaps
<1>0. a \in Nat
  BY Constants
<1>2. IsFiniteSet(S) /\ Cardinality(S) = Gap(a, b)
  <2>1. /\ IsFiniteSet(0 .. Gap(a, b) - 1)
        /\ Cardinality(0 .. Gap(a, b) - 1) = IF 0 > Gap(a, b) - 1 THEN 0 ELSE Gap(a, b) - 1 - 0 + 1
    <3>1. 0 \in Int /\ Gap(a, b) - 1 \in Int
      BY <1>1
    <3> QED
      BY <3>1, FS_Interval, ZenonT(30)
  <2> QED
    BY <1>1, <2>1 DEF Between
<1>3. IsFiniteSet(Desc) /\ Cardinality(Desc) = NUM
  BY Constants, FS_Interval
<1>4. IsFiniteSet(T) /\ Cardinality(T) = NUM - 3
  <2>1. IsFiniteSet(Desc \ {x}) /\ Cardinality(Desc \ {x}) = NUM - 1
    BY <1>3, FS_RemoveElement
  <2>2. IsFiniteSet((Desc \ {x}) \ {y}) /\ Cardinality((Desc \ {x}) \ {y}) = NUM - 1 - 1
    BY <2>1, FS_RemoveElement
  <2>3. IsFiniteSet(T) /\ Cardinality(T) = NUM - 1 - 1 - 1
    BY <2>2, FS_RemoveElement
  <2> QED
    BY <2>3, Constants
<1>5. f \in [S -> T]
  <2>1. \A k \in S : Entry(ring, a, k) \in Desc
    BY <1>0, <1>1, Place DEF Between, Entry
  <2> QED
    BY <2>1
<1>6. \A k, l \in S : k # l => f[k] # f[l]
  OBVIOUS
<1> HIDE DEF S, T, f
<1>7. ~(Cardinality(T) < Cardinality(S))
  BY <1>2, <1>4, <1>5, <1>6, FS_PigeonHole
<1> QED
  BY <1>1, <1>2, <1>4, <1>7, Constants

(***************************************************************************)
(* alloc3_desc().                                                          *)
(***************************************************************************)
LEMMA Lowest ==
  ASSUME NEW S \in SUBSET Nat, S # {} PROVE FirstOf(S) \in S
<1>1. PICK d \in S : \A e \in S : <<e, d>> \notin OpToRel(<, Nat)
  BY NatLessThanWellFounded, WFMin
<1>2. \A e \in S : ~(e < d)
  BY <1>1 DEF OpToRel
<1>3. \E x \in S : \A e \in S : x <= e
  BY <1>2
<1> QED
  BY <1>3 DEF FirstOf

LEMMA ThreeFree ==
  ASSUME NEW S \in SUBSET Desc, Cardinality(S) >= 3
  PROVE  /\ Three(S) \in Seq(Desc) /\ Distinct3(Three(S))
         /\ \A k \in 1 .. 3 : Three(S)[k] \in S
<1> DEFINE a == FirstOf(S)
           b == FirstOf(S \ {a})
           c == FirstOf(S \ {a, b})
<1>1. IsFiniteSet(S) /\ Cardinality(S) \in Nat /\ S \subseteq Nat
  <2>1. IsFiniteSet(Desc)
    BY Constants, FS_Interval
  <2>2. IsFiniteSet(S)
    BY <2>1, FS_Subset
  <2>3. Cardinality(S) \in Nat
    BY <2>2, FS_CardinalityType
  <2> QED
    BY <2>2, <2>3, Constants
<1>2. a \in S
  <2>1. S # {}
    BY <1>1, FS_EmptySet
  <2> QED
    BY <1>1, <2>1, Lowest
<1> HIDE DEF a
<1>3. b \in S \ {a} /\ IsFiniteSet(S \ {a}) /\ Cardinality(S \ {a}) >= 2 /\ Cardinality(S \ {a}) \in Nat
  <2>1. IsFiniteSet(S \ {a}) /\ Cardinality(S \ {a}) = Cardinality(S) - 1
    BY <1>1, <1>2, FS_RemoveElement
  <2>2. S \ {a} # {}
    BY <1>1, <2>1, FS_EmptySet
  <2> QED
    BY <1>1, <2>1, <2>2, Lowest
<1> HIDE DEF b
<1>4. c \in S \ {a, b}
  <2>1. (S \ {a}) \ {b} = S \ {a, b}
    OBVIOUS
  <2>2. IsFiniteSet(S \ {a, b}) /\ Cardinality(S \ {a, b}) = Cardinality(S \ {a}) - 1
    BY <1>3, <2>1, FS_RemoveElement
  <2>3. S \ {a, b} # {}
    BY <1>3, <2>2, FS_EmptySet
  <2> QED
    BY <1>1, <2>3, Lowest
<1> HIDE DEF c
<1>5. Three(S) = <<a, b, c>>
  BY DEF Three, a, b, c
<1> QED
  BY <1>2, <1>3, <1>4, <1>5 DEF Distinct3

(***************************************************************************)
(* Types and the lock.                                                     *)
(***************************************************************************)
LEMMA Types ==
  ASSUME TypeOK, OwnInv, PendingInv, [Next]_vars PROVE TypeOK'
<1> USE DEF TypeOK
<1>1. ASSUME NEW t \in Thread, NEW w \in BOOLEAN, NEW v \in Data, Call(t, w, v) PROVE TypeOK'
  <2>1. requests + 1 \in 0 .. MaxRequests
    BY <1>1, VirtioAssumption DEF Call
  <2> QED
    BY <1>1, <2>1 DEF Call, Goto, driver, device
<1>2. ASSUME NEW t \in Thread, Alloc(t) PROVE TypeOK'
  <2>1. CASE Cardinality(free) >= 3
    <3>1. Three(free) \in Seq(Desc)
      BY <2>1, ThreeFree
    <3> QED
      BY <1>2, <2>1, <3>1 DEF Alloc, Goto, device
  <2>2. CASE ~(Cardinality(free) >= 3)
    BY <1>2, <2>2 DEF Alloc, WakeFree, device
  <2> QED
    BY <2>1, <2>2
<1>3. ASSUME NEW t \in Thread, Format(t) PROVE TypeOK'
  <2>1. idx[t][1] \in Desc /\ idx[t] \in Seq(Desc)
    BY <1>3 DEF Format, OwnInv, Holding, Distinct3
  <2> QED
    BY <1>3, <2>1 DEF Format, Goto, device
<1>4. ASSUME NEW t \in Thread, Publish(t) \/ Sleep(t) \/ Reacquire(t) PROVE TypeOK'
  <2>1. PlusOne(availIdx) \in Index
    BY Gaps
  <2> QED
    BY <1>4, <2>1 DEF Publish, Sleep, Reacquire, Goto, device
<1>5. ASSUME NEW t \in Thread, Return(t) PROVE TypeOK'
  <2>1. idx[t][1] \in Desc /\ chain[idx[t][1]] \in Seq(Desc)
    BY <1>5 DEF Return, OwnInv, Holding, Distinct3
  <2>2. Chain(idx[t][1]) \subseteq Desc
    BY <2>1 DEF Chain
  <2> QED
    BY <1>5, <2>1, <2>2 DEF Return, WakeFree, device
<1>6. ASSUME IntrTurn PROVE TypeOK'
  <2>1. PlusOne(seenIdx) \in Index
    BY Gaps
  <2> QED
    BY <1>6, <2>1 DEF IntrTurn, device
<1>10. ASSUME IntrStart \/ IntrLeave \/ IntrEnd PROVE TypeOK'
  BY <1>10 DEF IntrStart, IntrLeave, IntrEnd, NoAck, driver, device, thread
<1>7. ASSUME DeviceTakes \/ DeviceInterrupts PROVE TypeOK'
  <2>1. PlusOne(devIdx) \in Index
    BY Gaps
  <2>2. availRing[devIdx % NUM] \in Desc
    <3>1. devIdx \in Nat
      BY Constants
    <3> QED
      BY <3>1, Place
  <2> QED
    BY <1>7, <2>1, <2>2 DEF DeviceTakes, DeviceInterrupts, driver, thread
<1>8. ASSUME NEW h \in Desc, DeviceCompletes(h) PROVE TypeOK'
  <2>1. PlusOne(usedIdx) \in Index
    BY Gaps
  <2>2. info[h] \in Thread
    BY <1>8 DEF DeviceCompletes, PendingInv, Pending
  <2> QED
    <3>1. buf' \in [Thread -> Data] /\ disk' \in [Thread -> Data]
      <4>1. \/ disk' = [disk EXCEPT ![info[h]] = buf[info[h]]] /\ buf' = buf
            \/ buf' = [buf EXCEPT ![info[h]] = disk[info[h]]] /\ disk' = disk
        BY <1>8 DEF DeviceCompletes
      <4> QED
        BY <2>2, <4>1
    <3>2. usedRing' \in [Desc -> Desc] /\ usedIdx' \in Index /\ inflight' \subseteq Desc
      BY <1>8, <2>1 DEF DeviceCompletes
    <3> QED
      BY <1>8, <3>1, <3>2 DEF DeviceCompletes, driver, thread
<1>9. ASSUME UNCHANGED vars PROVE TypeOK'
  BY <1>9 DEF vars, driver, device, thread
<1> QED
  BY <1>1, <1>2, <1>3, <1>4, <1>5, <1>6, <1>7, <1>8, <1>9, <1>10 DEF Next

LEMMA Locks ==
  ASSUME TypeOK, LockInv, [Next]_vars PROVE LockInv'
<1> USE VirtioAssumption DEF TypeOK, LockInv
<1>1. ASSUME NEW t \in Thread, NEW w \in BOOLEAN, NEW v \in Data, Call(t, w, v) PROVE LockInv'
  BY <1>1 DEF Call, Goto, driver
<1>2. ASSUME NEW t \in Thread, Alloc(t) PROVE LockInv'
  <2>1. CASE Cardinality(free) >= 3
    BY <1>2, <2>1 DEF Alloc, Goto
  <2>2. CASE ~(Cardinality(free) >= 3)
    <3>1. /\ pc' \in [Thread -> {pc[s] : s \in Thread} \cup {"sleepfree", "alloc"}]
          /\ \A s \in Thread :
               pc'[s] = pc[s] \/ (pc[s] \in {"alloc", "sleepfree"} /\ pc'[s] \in {"alloc", "sleepfree"})
      BY <1>2, <2>2 DEF Alloc, WakeFree
    <3> QED
      BY <1>2, <2>2, <3>1 DEF Alloc
  <2> QED
    BY <2>1, <2>2
<1>3. ASSUME NEW t \in Thread, Format(t) PROVE LockInv'
  BY <1>3 DEF Format, Goto
<1>11. ASSUME NEW t \in Thread, Publish(t) PROVE LockInv'
  BY <1>11 DEF Publish, Goto
<1>4. ASSUME NEW t \in Thread, Sleep(t) \/ Reacquire(t) PROVE LockInv'
  BY <1>4 DEF Sleep, Reacquire, Goto, Waits
<1>5. ASSUME NEW t \in Thread, Return(t) PROVE LockInv'
  BY <1>5 DEF Return, WakeFree, Waits
<1>6. ASSUME IntrStart \/ IntrLeave \/ IntrEnd PROVE LockInv'
  BY <1>6 DEF IntrStart, IntrLeave, IntrEnd, driver, thread
<1>7. ASSUME IntrTurn PROVE LockInv'
  <2>1. handler = "loop" /\ lock = Intr
    BY <1>7 DEF IntrTurn
  <2>2. \A t \in Thread : pc[t] \notin {"ring", "index", "wait"}
    BY <2>1
  <2> QED
    BY <1>7, <2>1, <2>2 DEF IntrTurn
<1>8. ASSUME DeviceTakes \/ DeviceInterrupts PROVE LockInv'
  BY <1>8 DEF DeviceTakes, DeviceInterrupts, driver, thread
<1>9. ASSUME NEW h \in Desc, DeviceCompletes(h) PROVE LockInv'
  BY <1>9 DEF DeviceCompletes, driver, thread
<1>10. ASSUME UNCHANGED vars PROVE LockInv'
  BY <1>10 DEF vars, driver, device, thread
<1> QED
  BY <1>1, <1>2, <1>3, <1>4, <1>5, <1>6, <1>7, <1>8, <1>9, <1>10, <1>11 DEF Next

(***************************************************************************)
(* Descriptors.                                                            *)
(***************************************************************************)
LEMMA Own ==
  ASSUME NEW s, Distinct3(s) PROVE {s[k] : k \in 1 .. Len(s)} = {s[1], s[2], s[3]}
BY DEF Distinct3

LEMMA OwnsNone ==
  ASSUME NEW t \in Thread, idx[t] = <<>> PROVE Owned(t) = {}
<1>1. Len(idx[t]) = 0
  OBVIOUS
<1> QED
  BY <1>1 DEF Owned

LEMMA Owns ==
  ASSUME TypeOK, LockInv, OwnInv, [Next]_vars PROVE OwnInv'
<1>a. \A t \in Thread :
         /\ pc[t] \in Holding => Distinct3(idx[t])
         /\ pc[t] \notin Holding => idx[t] = <<>>
         /\ pc[t] \in Holding \ {"ring"} => chain[idx[t][1]] = idx[t] /\ info[idx[t][1]] = t
  BY DEF OwnInv
<1>b. \A t \in Thread : Owned(t) \cap free = {}
  BY DEF OwnInv
<1>c. \A t, s \in Thread : t # s => Owned(t) \cap Owned(s) = {}
  BY DEF OwnInv
<1>d. \A d \in Desc : d \in free \/ \E t \in Thread : d \in Owned(t)
  BY DEF OwnInv
<1> USE DEF TypeOK, Holding
<1>1. ASSUME UNCHANGED <<idx, free, chain, info>>,
             \A t \in Thread : /\ pc'[t] \in Holding <=> pc[t] \in Holding
                               /\ pc'[t] = "ring" <=> pc[t] = "ring"
      PROVE  OwnInv'
  <2>1. \A t \in Thread : Owned(t)' = Owned(t)
    BY <1>1 DEF Owned
  <2>2. \A t \in Thread :
          /\ pc'[t] \in Holding => Distinct3(idx'[t])
          /\ pc'[t] \notin Holding => idx'[t] = <<>>
          /\ pc'[t] \in Holding \ {"ring"} =>
               chain'[idx'[t][1]] = idx'[t] /\ info'[idx'[t][1]] = t
    BY <1>1, <1>a
  <2> QED
    BY <1>1, <1>b, <1>c, <1>d, <2>1, <2>2 DEF OwnInv
<1>2. ASSUME NEW t \in Thread, NEW w \in BOOLEAN, NEW v \in Data, Call(t, w, v) PROVE OwnInv'
  BY <1>1, <1>2 DEF Call, Goto, driver
<1>3. ASSUME NEW t \in Thread, Alloc(t) PROVE OwnInv'
  <2>1. CASE ~(Cardinality(free) >= 3)
    <3>1. /\ UNCHANGED <<idx, free, chain, info>>
          /\ pc[t] = "alloc"
          /\ \A s \in Thread :
               pc'[s] = pc[s] \/ (pc[s] \in {"alloc", "sleepfree"} /\ pc'[s] \in {"alloc", "sleepfree"})
      BY <1>3, <2>1 DEF Alloc, WakeFree
    <3> QED
      BY <1>1, <3>1
  <2>2. CASE Cardinality(free) >= 3
    <3> DEFINE three == Three(free)
    <3>1. Distinct3(three) /\ \A k \in 1 .. 3 : three[k] \in free
      BY <2>2, ThreeFree
    <3>2. {three[k] : k \in 1 .. Len(three)} = {three[k] : k \in 1 .. 3}
      BY <3>1 DEF Distinct3
    <3>3. /\ idx' = [idx EXCEPT ![t] = three] /\ free' = free \ {three[k] : k \in 1 .. 3}
          /\ pc[t] = "alloc" /\ pc' = [pc EXCEPT ![t] = "ring"] /\ UNCHANGED <<chain, info>>
      BY <1>3, <2>2 DEF Alloc, Goto
    <3> HIDE DEF three
    <3>4. Owned(t)' = {three[k] : k \in 1 .. 3} /\ Owned(t) = {}
          /\ \A s \in Thread \ {t} : Owned(s)' = Owned(s)
      <4>1. idx'[t] = three /\ idx[t] = <<>> /\ \A s \in Thread \ {t} : idx'[s] = idx[s]
        BY <3>3, <1>a
      <4>2. Owned(t) = {} /\ \A s \in Thread \ {t} : Owned(s)' = Owned(s)
        <5>1. Owned(t) = {}
          BY <4>1, OwnsNone
        <5>2. ASSUME NEW s \in Thread \ {t} PROVE Owned(s)' = Owned(s)
          BY <4>1, <5>2, Zenon DEF Owned
        <5> QED
          BY <5>1, <5>2
      <4>3. Owned(t)' = {three[k] : k \in 1 .. Len(three)}
        BY <4>1, Zenon DEF Owned
      <4> QED
        BY <3>2, <4>2, <4>3, Zenon
    <3>5. {three[k] : k \in 1 .. 3} \subseteq free
      BY <3>1
    <3>6. \A s \in Thread :
            /\ pc'[s] \in Holding => Distinct3(idx'[s])
            /\ pc'[s] \notin Holding => idx'[s] = <<>>
            /\ pc'[s] \in Holding \ {"ring"} =>
                 chain'[idx'[s][1]] = idx'[s] /\ info'[idx'[s][1]] = s
      BY <1>a, <3>1, <3>3
    <3>7. \A s \in Thread : Owned(s)' \cap free' = {}
      BY <1>b, <3>3, <3>4
    <3>8. \A s, u \in Thread : s # u => Owned(s)' \cap Owned(u)' = {}
      <4>1. ASSUME NEW s \in Thread \ {t}
            PROVE  Owned(s)' \cap Owned(t)' = {} /\ Owned(t)' \cap Owned(s)' = {}
        BY <1>b, <3>4, <3>5, <4>1
      <4>2. ASSUME NEW s \in Thread \ {t}, NEW u \in Thread \ {t}, s # u
            PROVE  Owned(s)' \cap Owned(u)' = {}
        BY <1>c, <3>4, <4>2
      <4> QED
        BY <4>1, <4>2
    <3>9. \A d \in Desc : d \in free' \/ \E s \in Thread : d \in Owned(s)'
      <4>1. TAKE d \in Desc
      <4>2. CASE d \in free
        BY <3>3, <3>4, <4>2
      <4>3. CASE d \notin free
        <5>1. PICK s \in Thread : d \in Owned(s)
          BY <1>d, <4>3
        <5>2. s # t
          BY <3>4, <5>1
        <5> QED
          BY <3>4, <5>1, <5>2
      <4> QED
        BY <4>2, <4>3
    <3> QED
      BY <3>6, <3>7, <3>8, <3>9 DEF OwnInv
  <2> QED
    BY <2>1, <2>2
<1>4. ASSUME NEW t \in Thread, Format(t) PROVE OwnInv'
  <2> DEFINE head == idx[t][1]
  <2>1. /\ pc[t] = "ring" /\ pc' = [pc EXCEPT ![t] = "index"] /\ UNCHANGED <<idx, free>>
        /\ chain' = [chain EXCEPT ![head] = idx[t]] /\ info' = [info EXCEPT ![head] = t]
    BY <1>4 DEF Format, Goto
  <2>2. Distinct3(idx[t]) /\ idx[t] \in Seq(Desc) /\ head \in Owned(t) /\ head \in Desc
    BY <1>a, <2>1 DEF Distinct3, Owned
  <2>3. \A s \in Thread \ {t} : pc[s] \in Holding => idx[s][1] # head /\ idx[s][1] \in Desc
    <3>1. \A s \in Thread : pc[s] \in Holding => idx[s][1] \in Owned(s) /\ idx[s][1] \in Desc
      BY <1>a DEF Distinct3, Owned
    <3> QED
      BY <1>c, <2>2, <3>1
  <2> HIDE DEF head
  <2>4. chain'[head] = idx[t] /\ info'[head] = t
        /\ \A d \in Desc : d # head => chain'[d] = chain[d] /\ info'[d] = info[d]
    BY <2>1, <2>2
  <2>5. \A s \in Thread : Owned(s)' = Owned(s)
    BY <2>1 DEF Owned
  <2>6. \A s \in Thread :
          pc'[s] \in Holding \ {"ring"} => chain'[idx'[s][1]] = idx'[s] /\ info'[idx'[s][1]] = s
    BY <1>a, <2>1, <2>3, <2>4 DEF head
  <2>7. \A s \in Thread :
          /\ pc'[s] \in Holding => Distinct3(idx'[s])
          /\ pc'[s] \notin Holding => idx'[s] = <<>>
    BY <1>a, <2>1
  <2> QED
    BY <1>b, <1>c, <1>d, <2>1, <2>5, <2>6, <2>7 DEF OwnInv
<1>5. ASSUME NEW t \in Thread, Publish(t) \/ Sleep(t) \/ Reacquire(t) PROVE OwnInv'
  BY <1>1, <1>5 DEF Publish, Sleep, Reacquire, Goto
<1>6. ASSUME NEW t \in Thread, Return(t) PROVE OwnInv'
  <2> DEFINE head == idx[t][1]
  <2>1. /\ pc[t] = "wait"
        /\ \A s \in Thread : pc'[s] = IF s = t THEN "idle" ELSE WakeFree(pc[s])
        /\ idx' = [idx EXCEPT ![t] = <<>>] /\ free' = free \cup Chain(head)
        /\ chain' = [chain EXCEPT ![head] = <<>>] /\ info' = [info EXCEPT ![head] = None]
    BY <1>6 DEF Return
  <2>2. Distinct3(idx[t]) /\ chain[head] = idx[t] /\ head \in Owned(t) /\ head \in Desc
    BY <1>a, <2>1 DEF Distinct3, Owned
  <2>3. Chain(head) = Owned(t)
    BY <2>2 DEF Chain, Owned
  <2>4. \A s \in Thread \ {t} : pc[s] \in Holding => idx[s][1] # head /\ idx[s][1] \in Desc
    <3>1. \A s \in Thread : pc[s] \in Holding => idx[s][1] \in Owned(s) /\ idx[s][1] \in Desc
      BY <1>a DEF Distinct3, Owned
    <3> QED
      BY <1>c, <2>2, <3>1
  <2> HIDE DEF head
  <2>5. \A d \in Desc : d # head => chain'[d] = chain[d] /\ info'[d] = info[d]
    BY <2>1, <2>2
  <2>6. idx'[t] = <<>> /\ \A s \in Thread \ {t} : idx'[s] = idx[s]
    BY <2>1
  <2>7. Owned(t)' = {} /\ \A s \in Thread \ {t} : Owned(s)' = Owned(s)
    BY <2>6 DEF Owned
  <2>8. \A s \in Thread \ {t} : (pc'[s] \in Holding <=> pc[s] \in Holding)
                                /\ (pc'[s] = "ring" <=> pc[s] = "ring")
    BY <2>1 DEF WakeFree
  <2>9. \A s \in Thread :
            /\ pc'[s] \in Holding => Distinct3(idx'[s])
            /\ pc'[s] \notin Holding => idx'[s] = <<>>
            /\ pc'[s] \in Holding \ {"ring"} =>
                 chain'[idx'[s][1]] = idx'[s] /\ info'[idx'[s][1]] = s
    BY <1>a, <2>1, <2>4, <2>5, <2>6, <2>8
  <2>10. \A s \in Thread : Owned(s)' \cap free' = {}
    <3>1. TAKE s \in Thread
    <3>2. CASE s = t
      BY <2>7, <3>2
    <3>3. CASE s # t
      <4>1. Owned(s) \cap Owned(t) = {} /\ Owned(s) \cap free = {}
        BY <1>b, <1>c, <3>3
      <4> QED
        BY <2>1, <2>3, <2>7, <3>3, <4>1
    <3> QED
      BY <3>2, <3>3
  <2>11. \A s, u \in Thread : s # u => Owned(s)' \cap Owned(u)' = {}
    BY <1>c, <2>7
  <2>12. \A d \in Desc : d \in free' \/ \E s \in Thread : d \in Owned(s)'
    BY <1>d, <2>1, <2>3, <2>7
  <2> QED
    BY <2>9, <2>10, <2>11, <2>12 DEF OwnInv
<1>7. ASSUME IntrStart \/ IntrLeave \/ IntrEnd PROVE OwnInv'
  BY <1>1, <1>7 DEF IntrStart, IntrLeave, IntrEnd, driver, thread
<1>8. ASSUME IntrTurn PROVE OwnInv'
  BY <1>1, <1>8 DEF IntrTurn
<1>9. ASSUME DeviceTakes \/ DeviceInterrupts PROVE OwnInv'
  BY <1>1, <1>9 DEF DeviceTakes, DeviceInterrupts, driver, thread
<1>10. ASSUME NEW h \in Desc, DeviceCompletes(h) PROVE OwnInv'
  BY <1>1, <1>10 DEF DeviceCompletes, driver, thread
<1>11. ASSUME UNCHANGED vars PROVE OwnInv'
  BY <1>1, <1>11 DEF vars, driver, device, thread
<1> QED
  BY <1>2, <1>3, <1>4, <1>5, <1>6, <1>7, <1>8, <1>9, <1>10, <1>11 DEF Next

(***************************************************************************)
(* Requests.                                                               *)
(***************************************************************************)
(* The descriptors of a call are not the head of another's request.        *)
LEMMA Apart3 ==
  ASSUME TypeOK, OwnInv, NEW t \in Thread, pc[t] \in Holding,
         NEW h, Pending(h), info[h] # t
  PROVE  h \notin {idx[t][1], idx[t][2], idx[t][3]}
<1> DEFINE u == info[h]
<1>1. u \in Thread /\ u # t /\ idx[u][1] = h /\ pc[u] \in Holding
  BY DEF Pending, Holding
<1> HIDE DEF u
<1>2. Distinct3(idx[t]) /\ Distinct3(idx[u]) /\ Owned(t) \cap Owned(u) = {}
  BY <1>1 DEF OwnInv
<1>3. h \in Owned(u) /\ {idx[t][1], idx[t][2], idx[t][3]} \subseteq Owned(t)
  BY <1>1, <1>2 DEF Owned, Distinct3
<1> QED
  BY <1>2, <1>3

LEMMA Trio ==
  ASSUME TypeOK, OwnInv, NEW t \in Thread, pc[t] \in Holding
  PROVE  /\ idx[t][1] \in Desc /\ idx[t][2] \in Desc /\ idx[t][3] \in Desc
         /\ idx[t][1] # idx[t][2] /\ idx[t][1] # idx[t][3] /\ idx[t][2] # idx[t][3]
         /\ idx[t] # <<>>
<1>1. Distinct3(idx[t]) /\ idx[t] \in Seq(Desc)
  BY DEF TypeOK, OwnInv
<1> QED
  BY <1>1 DEF Distinct3

(* There is room for a caller's request, and for the end of a request.     *)
LEMMA RoomToWait ==
  ASSUME TypeOK, OwnInv, PlaceInv, PendingInv,
         NEW t \in Thread, pc[t] \in {"ring", "index"}
  PROVE  Gap(devIdx, availIdx) + 1 < NUM
<1>1. pc[t] \in Holding
  BY DEF Holding
<1>2. \A k \in Waiting : WaitingHead(k) \notin {idx[t][1], idx[t][2], idx[t][3]}
  <2>1. \A k \in Waiting : Pending(WaitingHead(k)) /\ info[WaitingHead(k)] # t
    BY DEF PendingInv, Pending
  <2> QED
    BY <1>1, <2>1, Apart3
<1>3. \A k, l \in Waiting : k # l => WaitingHead(k) # WaitingHead(l)
  BY DEF PlaceInv
<1>4. availRing \in [Desc -> Desc] /\ devIdx \in Index /\ availIdx \in Index
  BY DEF TypeOK
<1> QED
  BY <1>1, <1>2, <1>3, <1>4, Trio, Room DEF Waiting, WaitingHead

LEMMA RoomToEnd ==
  ASSUME TypeOK, OwnInv, PlaceInv, PendingInv, NEW h \in inflight
  PROVE  Gap(seenIdx, usedIdx) + 1 < NUM
<1> DEFINE t == info[h]
<1>1. t \in Thread /\ pc[t] \in Holding /\ idx[t][1] = h
  BY DEF PendingInv, Pending, Holding
<1> HIDE DEF t
<1>2. \A k \in Done : DoneHead(k) \notin {idx[t][1], idx[t][2], idx[t][3]}
  <2>1. \A k \in Done : Pending(DoneHead(k)) /\ DoneHead(k) # h
    BY DEF PendingInv, PlaceInv
  <2>2. \A k \in Done : info[DoneHead(k)] # t
    BY <1>1, <2>1 DEF Pending
  <2> QED
    BY <1>1, <2>1, <2>2, Apart3
<1>3. \A k, l \in Done : k # l => DoneHead(k) # DoneHead(l)
  BY DEF PlaceInv
<1>4. usedRing \in [Desc -> Desc] /\ seenIdx \in Index /\ usedIdx \in Index
  BY DEF TypeOK
<1> QED
  BY <1>1, <1>2, <1>3, <1>4, Trio, Room DEF Done, DoneHead

(* A step that leaves the rings alone and no caller of a pending request.  *)
LEMMA Undisturbed ==
  ASSUME PlaceInv, PendingInv,
         UNCHANGED <<availRing, availIdx, usedRing, usedIdx, seenIdx, devIdx, inflight>>,
         \A h : Pending(h) => Pending(h)',
         \A t \in Thread : pc'[t] = "index" => pc[t] = "index" /\ idx'[t] = idx[t]
  PROVE  PlaceInv' /\ PendingInv'
<1>1. Waiting' = Waiting /\ Done' = Done
  BY DEF Waiting, Done, Between, Gap
<1>2. \A k : WaitingHead(k)' = WaitingHead(k) /\ DoneHead(k)' = DoneHead(k)
  BY DEF WaitingHead, DoneHead, Entry
<1>3. PendingInv'
  BY <1>1, <1>2 DEF PendingInv
<1>4. PlaceInv'
  BY <1>1, <1>2 DEF PlaceInv, Slot
<1> QED
  BY <1>3, <1>4

LEMMA StillPending ==
  ASSUME NEW h, Pending(h), UNCHANGED <<info, idx, busy>>, pc'[info[h]] \in {"wait", "sleep"}
  PROVE  Pending(h)'
BY DEF Pending

LEMMA Calls ==
  ASSUME TypeOK, LockInv, OwnInv, PlaceInv, PendingInv,
         \/ \E t \in Thread : \/ \E w \in BOOLEAN, v \in Data : Call(t, w, v)
                              \/ Alloc(t) \/ Sleep(t) \/ Reacquire(t) \/ Return(t)
         \/ IntrStart \/ IntrLeave \/ IntrEnd \/ DeviceInterrupts \/ UNCHANGED vars
  PROVE  PlaceInv' /\ PendingInv'
<1>1. ASSUME NEW t \in Thread, NEW w \in BOOLEAN, NEW v \in Data, Call(t, w, v)
      PROVE  PlaceInv' /\ PendingInv'
  <2>1. /\ pc[t] = "idle" /\ pc' = [pc EXCEPT ![t] = "alloc"] /\ UNCHANGED <<info, idx, busy>>
        /\ UNCHANGED <<availRing, availIdx, usedRing, usedIdx, seenIdx, devIdx, inflight>>
    BY <1>1 DEF Call, Goto, driver, device
  <2>2. ASSUME NEW h, Pending(h) PROVE Pending(h)'
    <3>1. pc'[info[h]] = pc[info[h]]
      BY <2>1, <2>2 DEF Pending, TypeOK
    <3> QED
      BY <2>1, <2>2, <3>1, StillPending DEF Pending
  <2>3. \A s \in Thread : pc'[s] = "index" => pc[s] = "index" /\ idx'[s] = idx[s]
    BY <2>1 DEF TypeOK
  <2> QED
    BY <2>1, <2>2, <2>3, Undisturbed
<1>2. ASSUME NEW t \in Thread, Alloc(t) PROVE PlaceInv' /\ PendingInv'
  <2>1. /\ pc[t] = "alloc" /\ UNCHANGED <<info, busy>>
        /\ \A s \in Thread \ {t} : idx'[s] = idx[s]
        /\ \A s \in Thread : pc'[s] = pc[s]
             \/ (pc[s] \in {"alloc", "sleepfree"} /\ pc'[s] \in {"alloc", "sleepfree", "ring"})
        /\ UNCHANGED <<availRing, availIdx, usedRing, usedIdx, seenIdx, devIdx, inflight>>
    BY <1>2 DEF Alloc, Goto, WakeFree, device, TypeOK
  <2>2. ASSUME NEW h, Pending(h) PROVE Pending(h)'
    <3>1. info[h] \in Thread \ {t} /\ pc'[info[h]] = pc[info[h]] /\ idx'[info[h]] = idx[info[h]]
      BY <2>1, <2>2 DEF Pending
    <3> QED
      BY <2>1, <2>2, <3>1 DEF Pending
  <2>3. \A s \in Thread : pc'[s] = "index" => pc[s] = "index" /\ idx'[s] = idx[s]
    BY <2>1
  <2> QED
    BY <2>1, <2>2, <2>3, Undisturbed
<1>3. ASSUME NEW t \in Thread, Sleep(t) \/ Reacquire(t) PROVE PlaceInv' /\ PendingInv'
  <2>1. /\ UNCHANGED <<info, idx, busy>>
        /\ \/ pc[t] = "wait" /\ pc' = [pc EXCEPT ![t] = "sleep"]
           \/ pc[t] = "acquire" /\ pc' = [pc EXCEPT ![t] = "wait"]
        /\ UNCHANGED <<availRing, availIdx, usedRing, usedIdx, seenIdx, devIdx, inflight>>
    BY <1>3 DEF Sleep, Reacquire, Goto, device
  <2>2. ASSUME NEW h, Pending(h) PROVE Pending(h)'
    <3>1. pc'[info[h]] \in {"wait", "sleep"}
      BY <2>1, <2>2 DEF Pending, TypeOK
    <3> QED
      BY <2>1, <2>2, <3>1, StillPending
  <2>3. \A s \in Thread : pc'[s] = "index" => pc[s] = "index" /\ idx'[s] = idx[s]
    BY <2>1 DEF TypeOK
  <2> QED
    BY <2>1, <2>2, <2>3, Undisturbed
<1>4. ASSUME NEW t \in Thread, Return(t) PROVE PlaceInv' /\ PendingInv'
  <2>1. /\ pc[t] = "wait" /\ t \notin busy /\ info' = [info EXCEPT ![idx[t][1]] = None]
        /\ UNCHANGED busy /\ idx' = [idx EXCEPT ![t] = <<>>]
        /\ \A s \in Thread : pc'[s] = IF s = t THEN "idle" ELSE WakeFree(pc[s])
        /\ UNCHANGED <<availRing, availIdx, usedRing, usedIdx, seenIdx, devIdx, inflight>>
    BY <1>4 DEF Return, Waits, device
  <2>2. info[idx[t][1]] = t
    BY <2>1 DEF OwnInv, Holding
  <2>3. ASSUME NEW h, Pending(h) PROVE Pending(h)'
    <3>1. info[h] \in Thread \ {t} /\ h # idx[t][1] /\ h \in Desc
      BY <2>1, <2>2, <2>3 DEF Pending
    <3>2. info'[h] = info[h] /\ idx'[info[h]] = idx[info[h]]
      BY <2>1, <3>1 DEF TypeOK
    <3>3. pc'[info[h]] = pc[info[h]]
      BY <2>1, <2>3, <3>1 DEF Pending, WakeFree
    <3> QED
      BY <2>1, <2>3, <3>2, <3>3 DEF Pending
  <2>4. \A s \in Thread : pc'[s] = "index" => pc[s] = "index" /\ idx'[s] = idx[s]
    BY <2>1 DEF TypeOK, WakeFree
  <2> QED
    BY <2>1, <2>3, <2>4, Undisturbed
<1>5. ASSUME IntrStart \/ IntrLeave \/ IntrEnd \/ DeviceInterrupts \/ UNCHANGED vars
      PROVE  PlaceInv' /\ PendingInv'
  <2>1. /\ UNCHANGED <<info, idx, busy, pc>>
        /\ UNCHANGED <<availRing, availIdx, usedRing, usedIdx, seenIdx, devIdx, inflight>>
    BY <1>5 DEF IntrStart, IntrLeave, IntrEnd, DeviceInterrupts, vars, driver, device, thread
  <2>2. ASSUME NEW h, Pending(h) PROVE Pending(h)'
    BY <2>1, <2>2 DEF Pending
  <2> QED
    BY <2>1, <2>2, Undisturbed
<1> QED
  BY <1>1, <1>2, <1>3, <1>4, <1>5

LEMMA Formats ==
  ASSUME TypeOK, LockInv, OwnInv, PlaceInv, PendingInv, NEW t \in Thread, Format(t)
  PROVE  PlaceInv' /\ PendingInv'
<1> DEFINE head == idx[t][1]
<1>1. /\ pc[t] = "ring" /\ pc' = [pc EXCEPT ![t] = "index"] /\ UNCHANGED idx
      /\ info' = [info EXCEPT ![head] = t] /\ busy' = busy \cup {t}
      /\ availRing' = [availRing EXCEPT ![availIdx % NUM] = head]
      /\ UNCHANGED <<availIdx, usedRing, usedIdx, seenIdx, devIdx, inflight>>
  BY DEF Format, Goto, Slot, device
<1>2. pc[t] \in Holding /\ head \in Desc /\ Gap(devIdx, availIdx) + 1 < NUM
  BY <1>1, Trio, RoomToWait DEF Holding
<1>3. availRing \in [Desc -> Desc] /\ devIdx \in Index /\ availIdx \in Index
  BY DEF TypeOK
<1>4. /\ availRing'[availIdx % NUM] = head
      /\ \A k \in Between(devIdx, availIdx) : Entry(availRing', devIdx, k) = Entry(availRing, devIdx, k)
  <2> HIDE DEF head
  <2>1. availIdx % NUM \in Desc
    BY <1>3, IndexPlace
  <2>2. /\ availRing'[availIdx % NUM] = head
        /\ \A x \in Desc : x # availIdx % NUM => availRing'[x] = availRing[x]
    BY <1>1, <1>3, <2>1
  <2> QED
    BY <1>2, <1>3, <2>2, Extended
<1>5. Waiting' = Waiting /\ \A k \in Waiting : WaitingHead(k)' = WaitingHead(k)
  BY <1>1, <1>4 DEF Waiting, WaitingHead, Between, Gap
<1>6. Done' = Done /\ \A k : DoneHead(k)' = DoneHead(k)
  BY <1>1 DEF Done, DoneHead, Between, Gap, Entry
<1>7. ASSUME NEW h, Pending(h) PROVE Pending(h)'
  <2>1. info[h] # t /\ info[h] \in Thread /\ h \in Desc
    BY <1>1, <1>7 DEF Pending
  <2>2. h # head
    BY <1>2, <1>7, <2>1, Apart3
  <2>3. info'[h] = info[h] /\ pc'[info[h]] = pc[info[h]]
    BY <1>1, <2>1, <2>2 DEF TypeOK
  <2> QED
    BY <1>1, <1>7, <2>3 DEF Pending
<1>8. \A s \in Thread : pc'[s] = "index" => s = t
  BY <1>1 DEF LockInv, TypeOK
<1>9. PlaceInv'
  BY <1>1, <1>4, <1>5, <1>6, <1>8 DEF PlaceInv, Slot
<1>10. PendingInv'
  BY <1>1, <1>5, <1>6, <1>7 DEF PendingInv
<1> QED
  BY <1>9, <1>10

LEMMA Publishes ==
  ASSUME TypeOK, LockInv, OwnInv, PlaceInv, PendingInv, NEW t \in Thread, Publish(t)
  PROVE  PlaceInv' /\ PendingInv'
<1> DEFINE head == idx[t][1]
<1>0. PICK g : g = Gap(devIdx, availIdx)
  OBVIOUS
<1>1. /\ pc[t] = "index" /\ pc' = [pc EXCEPT ![t] = "wait"] /\ UNCHANGED <<idx, info, busy>>
      /\ availIdx' = PlusOne(availIdx)
      /\ UNCHANGED <<availRing, usedRing, usedIdx, seenIdx, devIdx, inflight>>
  BY DEF Publish, Goto, device
<1>2. pc[t] \in Holding /\ head \in Desc /\ idx[t] # <<>> /\ Gap(devIdx, availIdx) + 1 < NUM
  BY <1>1, Trio, RoomToWait DEF Holding
<1>3. availRing \in [Desc -> Desc] /\ devIdx \in Index /\ availIdx \in Index
  BY DEF TypeOK
<1>4. availRing[availIdx % NUM] = head /\ t \in busy /\ info[head] = t
  BY <1>1 DEF PlaceInv, Slot, LockInv, OwnInv, Holding
<1>5. Entry(availRing, devIdx, g) = head
      /\ Between(devIdx, PlusOne(availIdx)) = Between(devIdx, availIdx) \cup {g}
  <2> HIDE DEF head
  <2> QED
    BY <1>0, <1>2, <1>3, <1>4, Extended
<1>6. /\ Waiting' = Waiting \cup {g} /\ WaitingHead(g) = head
      /\ \A k : WaitingHead(k)' = WaitingHead(k)
  BY <1>1, <1>5 DEF Waiting, WaitingHead, Between, Gap, Entry
<1>7. Done' = Done /\ \A k : DoneHead(k)' = DoneHead(k)
  BY <1>1 DEF Done, DoneHead, Between, Gap, Entry
<1>8. ASSUME NEW h, Pending(h) PROVE Pending(h)' /\ h # head
  <2>1. info[h] # t /\ info[h] \in Thread
    BY <1>1, <1>8 DEF Pending
  <2>2. pc'[info[h]] = pc[info[h]]
    BY <1>1, <2>1 DEF TypeOK
  <2> QED
    BY <1>1, <1>4, <1>8, <2>1, <2>2 DEF Pending
<1>9. Pending(head)'
  <2>1. pc'[t] = "wait"
    BY <1>1 DEF TypeOK
  <2> QED
    BY <1>1, <1>2, <1>4, <2>1 DEF Pending
<1> HIDE DEF head
<1>10. \A s \in Thread : pc'[s] # "index"
  BY <1>1 DEF LockInv, TypeOK
<1>11. /\ \A k \in Waiting : WaitingHead(k) # head
       /\ \A k \in Done : DoneHead(k) # head
       /\ head \notin inflight
  BY <1>8 DEF PendingInv
<1>12. PlaceInv'
  BY <1>1, <1>6, <1>7, <1>10, <1>11 DEF PlaceInv
<1>13. PendingInv'
  <2>1. \A k \in Waiting' : Pending(WaitingHead(k))'
    <3>1. \A k \in Waiting : Pending(WaitingHead(k))'
      BY <1>6, <1>8 DEF PendingInv
    <3>2. Pending(WaitingHead(g))'
      BY <1>1, <1>6, <1>9 DEF head
    <3> QED
      BY <1>6, <3>1, <3>2
  <2>2. \A h \in inflight' : Pending(h)'
    BY <1>1, <1>8 DEF PendingInv
  <2>3. \A k \in Done' : Pending(DoneHead(k))'
    BY <1>7, <1>8 DEF PendingInv
  <2> QED
    BY <2>1, <2>2, <2>3 DEF PendingInv
<1> QED
  BY <1>12, <1>13

LEMMA Turns ==
  ASSUME TypeOK, LockInv, OwnInv, PlaceInv, PendingInv, IntrTurn
  PROVE  PlaceInv' /\ PendingInv'
<1> DEFINE first == usedRing[seenIdx % NUM]
           t == info[first]
<1>1. /\ lock = Intr /\ seenIdx # usedIdx /\ busy' = busy \ {t} /\ UNCHANGED <<idx, info>>
      /\ pc' = [pc EXCEPT ![t] = IF @ = "sleep" THEN "acquire" ELSE @]
      /\ seenIdx' = PlusOne(seenIdx)
      /\ UNCHANGED <<availRing, availIdx, usedRing, usedIdx, devIdx, inflight>>
  BY DEF IntrTurn, LockInv, device
<1>2. /\ 0 \in Done /\ DoneHead(0) = first
      /\ \A k \in Done' : k + 1 \in Done /\ k + 1 # 0 /\ DoneHead(k)' = DoneHead(k + 1)
      /\ \A k, l \in Done' : k # l => k + 1 # l + 1
  <2>1. seenIdx \in Index /\ usedIdx \in Index
    BY DEF TypeOK
  <2>2. /\ 0 \in Between(seenIdx, usedIdx) /\ Entry(usedRing, seenIdx, 0) = first
        /\ \A k \in Between(PlusOne(seenIdx), usedIdx) :
             /\ k + 1 \in Between(seenIdx, usedIdx) /\ k + 1 # 0
             /\ Entry(usedRing, PlusOne(seenIdx), k) = Entry(usedRing, seenIdx, k + 1)
        /\ \A k, l \in Between(PlusOne(seenIdx), usedIdx) : k # l => k + 1 # l + 1
    BY <1>1, <2>1, Shifted
  <2>3. Done' = Between(PlusOne(seenIdx), usedIdx)
    BY <1>1 DEF Done, Between, Gap
  <2>4. \A k : DoneHead(k)' = Entry(usedRing, PlusOne(seenIdx), k)
    BY <1>1 DEF DoneHead, Entry
  <2> QED
    BY <2>2, <2>3, <2>4 DEF Done, DoneHead
<1>3. Waiting' = Waiting /\ \A k : WaitingHead(k)' = WaitingHead(k)
  BY <1>1 DEF Waiting, WaitingHead, Between, Gap, Entry
<1>4. Pending(first)
  BY <1>2 DEF PendingInv
<1> HIDE DEF first
<1>5. ASSUME NEW h, Pending(h), h # first PROVE Pending(h)'
  <2>1. info[h] # t /\ info[h] \in Thread
    BY <1>4, <1>5 DEF Pending
  <2>2. pc'[info[h]] = pc[info[h]]
    BY <1>1, <2>1 DEF TypeOK
  <2> QED
    BY <1>1, <1>5, <2>1, <2>2 DEF Pending
<1>6. /\ \A k \in Waiting : WaitingHead(k) # first
      /\ \A k \in Done' : DoneHead(k)' # first
      /\ first \notin inflight
  BY <1>2 DEF PlaceInv
<1>7. \A s \in Thread : pc'[s] # "index"
  BY <1>1, VirtioAssumption DEF LockInv, TypeOK
<1>8. PlaceInv'
  BY <1>1, <1>2, <1>3, <1>7 DEF PlaceInv
<1>9. PendingInv'
  BY <1>1, <1>2, <1>3, <1>5, <1>6 DEF PendingInv
<1> QED
  BY <1>8, <1>9

LEMMA Takes ==
  ASSUME TypeOK, PlaceInv, PendingInv, DeviceTakes
  PROVE  PlaceInv' /\ PendingInv'
<1> DEFINE first == availRing[devIdx % NUM]
<1>1. /\ devIdx # availIdx /\ inflight' = inflight \cup {first} /\ devIdx' = PlusOne(devIdx)
      /\ UNCHANGED <<availRing, availIdx, usedRing, usedIdx, seenIdx, busy, idx, info, pc>>
  BY DEF DeviceTakes, driver, thread
<1>2. /\ 0 \in Waiting /\ WaitingHead(0) = first
      /\ \A k \in Waiting' : k + 1 \in Waiting /\ k + 1 # 0 /\ WaitingHead(k)' = WaitingHead(k + 1)
      /\ \A k, l \in Waiting' : k # l => k + 1 # l + 1
  <2>1. devIdx \in Index /\ availIdx \in Index
    BY DEF TypeOK
  <2>2. /\ 0 \in Between(devIdx, availIdx) /\ Entry(availRing, devIdx, 0) = first
        /\ \A k \in Between(PlusOne(devIdx), availIdx) :
             /\ k + 1 \in Between(devIdx, availIdx) /\ k + 1 # 0
             /\ Entry(availRing, PlusOne(devIdx), k) = Entry(availRing, devIdx, k + 1)
        /\ \A k, l \in Between(PlusOne(devIdx), availIdx) : k # l => k + 1 # l + 1
    BY <1>1, <2>1, Shifted
  <2>3. Waiting' = Between(PlusOne(devIdx), availIdx)
    BY <1>1 DEF Waiting, Between, Gap
  <2>4. \A k : WaitingHead(k)' = Entry(availRing, PlusOne(devIdx), k)
    BY <1>1 DEF WaitingHead, Entry
  <2> QED
    BY <2>2, <2>3, <2>4 DEF Waiting, WaitingHead
<1>3. Done' = Done /\ \A k : DoneHead(k)' = DoneHead(k)
  BY <1>1 DEF Done, DoneHead, Between, Gap, Entry
<1> HIDE DEF first
<1>4. \A h : Pending(h) => Pending(h)'
  BY <1>1 DEF Pending
<1>5. /\ \A k \in Waiting' : WaitingHead(k)' # first
      /\ \A k \in Done : DoneHead(k) # first
  BY <1>2 DEF PlaceInv
<1>6. PlaceInv'
  BY <1>1, <1>2, <1>3, <1>5 DEF PlaceInv, Slot
<1>7. PendingInv'
  BY <1>1, <1>2, <1>3, <1>4 DEF PendingInv
<1> QED
  BY <1>6, <1>7

LEMMA Completes ==
  ASSUME TypeOK, OwnInv, PlaceInv, PendingInv, NEW h \in Desc, DeviceCompletes(h)
  PROVE  /\ PlaceInv' /\ PendingInv'
         /\ \E g : Done' = Done \cup {g} /\ DoneHead(g)' = h
         /\ \A k \in Done : DoneHead(k)' = DoneHead(k) /\ DoneHead(k) # h
<1>0. PICK g : g = Gap(seenIdx, usedIdx)
  OBVIOUS
<1>1. /\ h \in inflight /\ inflight' = inflight \ {h}
      /\ usedRing' = [usedRing EXCEPT ![usedIdx % NUM] = h] /\ usedIdx' = PlusOne(usedIdx)
      /\ UNCHANGED <<availRing, availIdx, devIdx, seenIdx, busy, idx, info, pc>>
  BY DEF DeviceCompletes, driver, thread
<1>2. usedRing \in [Desc -> Desc] /\ seenIdx \in Index /\ usedIdx \in Index
  BY DEF TypeOK
<1>3. Gap(seenIdx, usedIdx) + 1 < NUM
  BY <1>1, RoomToEnd
<1>4. /\ \A k \in Between(seenIdx, usedIdx) : Entry(usedRing', seenIdx, k) = Entry(usedRing, seenIdx, k)
      /\ Entry(usedRing', seenIdx, g) = h
      /\ Between(seenIdx, PlusOne(usedIdx)) = Between(seenIdx, usedIdx) \cup {g}
  <2>1. usedIdx % NUM \in Desc
    BY <1>2, IndexPlace
  <2>2. /\ usedRing'[usedIdx % NUM] = h
        /\ \A x \in Desc : x # usedIdx % NUM => usedRing'[x] = usedRing[x]
    BY <1>1, <1>2, <2>1
  <2> QED
    BY <1>0, <1>2, <1>3, <2>2, Extended
<1>5. /\ Done' = Done \cup {g} /\ DoneHead(g)' = h
      /\ \A k \in Done : DoneHead(k)' = DoneHead(k)
  BY <1>1, <1>4 DEF Done, DoneHead
<1>6. Waiting' = Waiting /\ \A k : WaitingHead(k)' = WaitingHead(k)
  BY <1>1 DEF Waiting, WaitingHead, Between, Gap, Entry
<1>7. \A x : Pending(x) => Pending(x)'
  BY <1>1 DEF Pending
<1>8. /\ \A k \in Waiting : WaitingHead(k) # h
      /\ \A k \in Done : DoneHead(k) # h
  BY <1>1 DEF PlaceInv
<1>9. PlaceInv'
  BY <1>1, <1>5, <1>6, <1>8 DEF PlaceInv, Slot
<1>10. PendingInv'
  BY <1>1, <1>5, <1>6, <1>7 DEF PendingInv
<1> QED
  BY <1>5, <1>8, <1>9, <1>10

LEMMA Requests ==
  ASSUME TypeOK, LockInv, OwnInv, PlaceInv, PendingInv, [Next]_vars
  PROVE  PlaceInv' /\ PendingInv'
BY Calls, Formats, Publishes, Turns, Takes, Completes DEF Next

(***************************************************************************)
(* Data.                                                                   *)
(***************************************************************************)
(* A step that moves no data, ends no request and finishes no call.        *)
LEMMA Unmoved ==
  ASSUME SyncInv, UNCHANGED <<buf, disk, usedRing, usedIdx, seenIdx>>,
         \A k \in Done : info'[DoneHead(k)] = info[DoneHead(k)],
         \A t \in Thread :
           pc'[t] = "idle" \/ (pc'[t] \in {"wait", "acquire"} /\ t \notin busy')
           => pc[t] = "idle" \/ (pc[t] \in {"wait", "acquire"} /\ t \notin busy)
  PROVE  SyncInv'
<1>1. Done' = Done /\ \A k : DoneHead(k)' = DoneHead(k)
  BY DEF Done, DoneHead, Between, Gap, Entry
<1> QED
  BY <1>1 DEF SyncInv

LEMMA Syncs ==
  ASSUME TypeOK, LockInv, OwnInv, PlaceInv, PendingInv, SyncInv, [Next]_vars
  PROVE  SyncInv'
<1> USE DEF TypeOK
<1>0. \A k \in Done : Pending(DoneHead(k))
  BY DEF PendingInv
<1>1. ASSUME NEW t \in Thread, NEW w \in BOOLEAN, NEW v \in Data, Call(t, w, v) PROVE SyncInv'
  <2>1. /\ pc[t] = "idle" /\ pc' = [pc EXCEPT ![t] = "alloc"] /\ buf' = [buf EXCEPT ![t] = v]
        /\ UNCHANGED <<disk, usedRing, usedIdx, seenIdx, info, busy>>
    BY <1>1 DEF Call, Goto, driver, device
  <2>2. Done' = Done /\ \A k : DoneHead(k)' = DoneHead(k)
    BY <2>1 DEF Done, DoneHead, Between, Gap, Entry
  <2>3. \A k \in Done : info[DoneHead(k)] \in Thread \ {t}
    BY <1>0, <2>1 DEF Pending
  <2> QED
    BY <2>1, <2>2, <2>3 DEF SyncInv
<1>2. ASSUME NEW t \in Thread, Alloc(t) PROVE SyncInv'
  <2>1. /\ pc[t] = "alloc" /\ UNCHANGED <<info, busy, buf, disk, usedRing, usedIdx, seenIdx>>
        /\ \A s \in Thread : pc'[s] = pc[s] \/ pc'[s] \in {"alloc", "sleepfree", "ring"}
    BY <1>2 DEF Alloc, Goto, WakeFree, device
  <2> QED
    BY <2>1, Unmoved
<1>3. ASSUME NEW t \in Thread, Format(t) PROVE SyncInv'
  <2>1. /\ pc[t] = "ring" /\ pc' = [pc EXCEPT ![t] = "index"] /\ busy' = busy \cup {t}
        /\ info' = [info EXCEPT ![idx[t][1]] = t]
        /\ UNCHANGED <<buf, disk, usedRing, usedIdx, seenIdx>>
    BY <1>3 DEF Format, Goto, device
  <2>2. ASSUME NEW k \in Done PROVE info'[DoneHead(k)] = info[DoneHead(k)]
    <3>1. DoneHead(k) \in Desc /\ info[DoneHead(k)] # t
      BY <1>0, <2>1 DEF Pending
    <3>2. DoneHead(k) # idx[t][1]
      BY <1>0, <2>1, <3>1, Apart3 DEF Holding
    <3> QED
      BY <2>1, <3>1, <3>2
  <2> QED
    BY <2>1, <2>2, Unmoved
<1>4. ASSUME NEW t \in Thread, Publish(t) PROVE SyncInv'
  <2>1. /\ pc[t] = "index" /\ pc' = [pc EXCEPT ![t] = "wait"]
        /\ UNCHANGED <<info, busy, buf, disk, usedRing, usedIdx, seenIdx>>
    BY <1>4 DEF Publish, Goto, device
  <2>2. t \in busy
    BY <2>1 DEF LockInv
  <2> QED
    BY <2>1, <2>2, Unmoved
<1>5. ASSUME NEW t \in Thread, Sleep(t) \/ Reacquire(t) PROVE SyncInv'
  <2>1. /\ \/ pc' = [pc EXCEPT ![t] = "sleep"]
           \/ pc[t] = "acquire" /\ pc' = [pc EXCEPT ![t] = "wait"]
        /\ UNCHANGED <<info, busy, buf, disk, usedRing, usedIdx, seenIdx>>
    BY <1>5 DEF Sleep, Reacquire, Goto, device
  <2> QED
    BY <2>1, Unmoved
<1>6. ASSUME NEW t \in Thread, Return(t) PROVE SyncInv'
  <2>1. /\ pc[t] = "wait" /\ t \notin busy /\ info' = [info EXCEPT ![idx[t][1]] = None]
        /\ \A s \in Thread : pc'[s] = IF s = t THEN "idle" ELSE WakeFree(pc[s])
        /\ UNCHANGED <<busy, buf, disk, usedRing, usedIdx, seenIdx>>
    BY <1>6 DEF Return, Waits, device
  <2>2. ASSUME NEW k \in Done PROVE info'[DoneHead(k)] = info[DoneHead(k)]
    <3>1. DoneHead(k) \in Desc /\ info[DoneHead(k)] # t
      BY <1>0, <2>1 DEF Pending
    <3>2. DoneHead(k) # idx[t][1]
      BY <1>0, <2>1, <3>1, Apart3 DEF Holding
    <3> QED
      BY <2>1, <3>1, <3>2
  <2> QED
    BY <2>1, <2>2, Unmoved DEF WakeFree
<1>7. ASSUME IntrTurn PROVE SyncInv'
  <2> DEFINE t == info[usedRing[seenIdx % NUM]]
  <2>1. /\ seenIdx # usedIdx /\ busy' = busy \ {t} /\ UNCHANGED <<info, buf, disk, usedRing, usedIdx>>
        /\ pc' = [pc EXCEPT ![t] = IF @ = "sleep" THEN "acquire" ELSE @]
        /\ seenIdx' = PlusOne(seenIdx)
    BY <1>7 DEF IntrTurn, device
  <2>2. /\ 0 \in Done /\ DoneHead(0) = usedRing[seenIdx % NUM]
        /\ \A k \in Done' : k + 1 \in Done /\ DoneHead(k)' = DoneHead(k + 1)
    <3>1. seenIdx \in Index /\ usedIdx \in Index
      OBVIOUS
    <3>2. /\ 0 \in Between(seenIdx, usedIdx)
          /\ Entry(usedRing, seenIdx, 0) = usedRing[seenIdx % NUM]
          /\ \A k \in Between(PlusOne(seenIdx), usedIdx) :
               /\ k + 1 \in Between(seenIdx, usedIdx)
               /\ Entry(usedRing, PlusOne(seenIdx), k) = Entry(usedRing, seenIdx, k + 1)
      BY <2>1, <3>1, Shifted
    <3>3. Done' = Between(PlusOne(seenIdx), usedIdx)
      BY <2>1 DEF Done
    <3>4. \A k : DoneHead(k)' = Entry(usedRing, PlusOne(seenIdx), k)
      BY <2>1 DEF DoneHead
    <3> QED
      BY <3>2, <3>3, <3>4 DEF Done, DoneHead
  <2>3. buf[t] = disk[t]
    BY <2>2 DEF SyncInv
  <2> HIDE DEF t
  <2>4. \A k \in Done' : buf'[info'[DoneHead(k)']] = disk'[info'[DoneHead(k)']]
    BY <2>1, <2>2 DEF SyncInv
  <2>5. \A s \in Thread : s # t => pc'[s] = pc[s] /\ (s \in busy' <=> s \in busy)
    BY <2>1
  <2> QED
    BY <2>1, <2>3, <2>4, <2>5 DEF SyncInv
<1>8. ASSUME NEW h \in Desc, DeviceCompletes(h) PROVE SyncInv'
  <2> DEFINE t == info[h]
  <2>1. /\ \/ disk' = [disk EXCEPT ![t] = buf[t]] /\ buf' = buf
           \/ buf' = [buf EXCEPT ![t] = disk[t]] /\ disk' = disk
        /\ UNCHANGED <<info, pc, busy>>
    BY <1>8 DEF DeviceCompletes, driver, thread
  <2>2. t \in Thread /\ t \in busy /\ pc[t] \in {"wait", "sleep"}
    BY <1>8 DEF DeviceCompletes, PendingInv, Pending
  <2>3. buf'[t] = disk'[t] /\ \A s \in Thread \ {t} : buf'[s] = buf[s] /\ disk'[s] = disk[s]
    BY <2>1, <2>2
  <2>4. PICK g : Done' = Done \cup {g} /\ DoneHead(g)' = h
    BY <1>8, Completes
  <2>5. \A k \in Done : DoneHead(k)' = DoneHead(k) /\ DoneHead(k) # h
    BY <1>8, Completes
  <2>6. \A k \in Done : info[DoneHead(k)] \in Thread \ {t}
    <3>1. idx[t][1] = h
      BY <1>8 DEF DeviceCompletes, PendingInv, Pending
    <3> QED
      BY <1>0, <2>5, <3>1 DEF Pending
  <2>7. \A k \in Done : buf'[info'[DoneHead(k)']] = disk'[info'[DoneHead(k)']]
    BY <2>1, <2>3, <2>5, <2>6 DEF SyncInv
  <2>8. buf'[info'[DoneHead(g)']] = disk'[info'[DoneHead(g)']]
    BY <2>1, <2>3, <2>4
  <2> HIDE DEF t
  <2>9. \A s \in Thread :
          pc'[s] = "idle" \/ (pc'[s] \in {"wait", "acquire"} /\ s \notin busy') => buf'[s] = disk'[s]
    BY <2>1, <2>2, <2>3 DEF SyncInv
  <2> QED
    BY <2>4, <2>7, <2>8, <2>9 DEF SyncInv
<1>9. ASSUME IntrStart \/ IntrLeave \/ IntrEnd \/ DeviceTakes \/ DeviceInterrupts \/ UNCHANGED vars
      PROVE  SyncInv'
  <2>1. UNCHANGED <<info, pc, busy, buf, disk, usedRing, usedIdx, seenIdx>>
    BY <1>9 DEF IntrStart, IntrLeave, IntrEnd, DeviceTakes, DeviceInterrupts, vars, driver,
                device, thread
  <2> QED
    BY <2>1, Unmoved
<1> QED
  BY <1>1, <1>2, <1>3, <1>4, <1>5, <1>6, <1>7, <1>8, <1>9 DEF Next

(* Who handles used entries reads all that it finds; one that comes later  *)
(* raises an interrupt.                                                    *)
LEMMA Announces ==
  ASSUME TypeOK, AnnouncedInv, [Next]_vars PROVE AnnouncedInv'
<1> USE DEF AnnouncedInv
<1>1. ASSUME NEW t \in Thread, NEW w \in BOOLEAN, NEW v \in Data, Call(t, w, v)
      PROVE  AnnouncedInv'
  BY <1>1 DEF Call, driver, device
<1>2. ASSUME NEW t \in Thread,
             Alloc(t) \/ Format(t) \/ Publish(t) \/ Sleep(t) \/ Reacquire(t) \/ Return(t)
      PROVE  AnnouncedInv'
  BY <1>2 DEF Alloc, Format, Publish, Sleep, Reacquire, Return, device
<1>3. ASSUME IntrStart \/ IntrTurn \/ IntrLeave \/ IntrEnd PROVE AnnouncedInv'
  BY <1>3 DEF IntrStart, IntrTurn, IntrLeave, IntrEnd, NoAck, driver, device
<1>4. ASSUME DeviceTakes \/ DeviceInterrupts PROVE AnnouncedInv'
  BY <1>4 DEF DeviceTakes, DeviceInterrupts, driver, TypeOK
<1>5. ASSUME NEW h \in Desc, DeviceCompletes(h) PROVE AnnouncedInv'
  BY <1>5 DEF DeviceCompletes, driver
<1>6. ASSUME UNCHANGED vars PROVE AnnouncedInv'
  BY <1>6 DEF vars, driver, device, thread
<1> QED
  BY <1>1, <1>2, <1>3, <1>4, <1>5, <1>6 DEF Next

(***************************************************************************)
(* The theorems.                                                           *)
(***************************************************************************)
LEMMA Initially == Init => Inv
<1>1. SUFFICES ASSUME NEW k \in Starts, InitAt(k) PROVE Inv
  BY DEF Init
<1>2. k \in Index /\ 0 \in Desc
  BY Constants, VirtioAssumption DEF Index
<1>3. TypeOK
  BY <1>1, <1>2, VirtioAssumption DEF InitAt, TypeOK
<1>4. Waiting = {} /\ Done = {}
  <2>1. Gap(k, k) = 0
    BY <1>2, Gaps
  <2> QED
    BY <1>1, <2>1 DEF InitAt, Waiting, Done, Between
<1>5. LockInv /\ AnnouncedInv
  BY <1>1, VirtioAssumption DEF InitAt, LockInv, AnnouncedInv
<1>6. OwnInv
  <2>1. \A t \in Thread : Owned(t) = {}
    BY <1>1, OwnsNone DEF InitAt
  <2> QED
    BY <1>1, <2>1 DEF InitAt, OwnInv, Holding
<1>7. PlaceInv /\ PendingInv /\ SyncInv
  BY <1>1, <1>4 DEF InitAt, PlaceInv, PendingInv, SyncInv
<1> QED
  BY <1>3, <1>5, <1>6, <1>7 DEF Inv

LEMMA Invariance == Spec => []Inv
<1>1. Inv /\ [Next]_vars => Inv'
  BY Types, Locks, Owns, Requests, Syncs, Announces DEF Inv
<1> QED
  BY Initially, <1>1, PTL DEF Spec

(* Descriptors are neither leaked nor freed twice nor used by two          *)
(* transfers, and the device finds only heads of requests in the rings,    *)
(* for any number of descriptors, any threads, and any width of the        *)
(* indices that is a multiple of the size of the rings.                    *)
THEOREM DescriptorsKept == Spec => []DescriptorsConserved
<1>1. Inv => DescriptorsConserved
  <2>1. SUFFICES ASSUME Inv PROVE DescriptorsConserved
    OBVIOUS
  <2>2. devIdx # availIdx => Pending(availRing[devIdx % NUM])
    BY <2>1, Shifted DEF Inv, TypeOK, PendingInv, Waiting, WaitingHead
  <2>3. seenIdx # usedIdx => Pending(usedRing[seenIdx % NUM])
    BY <2>1, Shifted DEF Inv, TypeOK, PendingInv, Done, DoneHead
  <2>4. \A h : Pending(h) => chain[h] # <<>>
    BY <2>1 DEF Inv, OwnInv, Holding, Pending
  <2>5. DeviceSeesRequests
    <3>1. \A h \in inflight : info[h] # None /\ info[h] \in busy
      BY <2>1, VirtioAssumption DEF Inv, PendingInv, Pending
    <3> QED
      BY <2>2, <2>3, <2>4, <3>1 DEF DeviceSeesRequests, Pending
  <2>6. free \cup UNION {Owned(t) : t \in Thread} = Desc
    <3>1. \A t \in Thread : Owned(t) \subseteq Desc
      BY <2>1 DEF Inv, TypeOK, Owned
    <3> QED
      BY <2>1, <3>1 DEF Inv, TypeOK, OwnInv
  <2> QED
    BY <2>1, <2>5, <2>6 DEF Inv, OwnInv, DescriptorsConserved
<1> QED
  BY Invariance, <1>1, PTL

(* A call of virtio_disk_rw() returns when its own transfer is over, and   *)
(* the buffer and the block then agree.                                    *)
THEOREM ReturnsInSync == Spec => []SyncedOnReturn
<1>1. Inv => SyncedOnReturn
  BY DEF Inv, SyncInv, SyncedOnReturn
<1> QED
  BY Invariance, <1>1, PTL

(* A used entry that no handler is about to read is announced by an        *)
(* interrupt, although virtio_disk_intr() acknowledges before it reads.    *)
THEOREM InterruptsKept == Spec => []NoLostInterrupt
<1>1. Inv => NoLostInterrupt
  BY DEF Inv, AnnouncedInv, NoLostInterrupt
<1> QED
  BY Invariance, <1>1, PTL

(* The driver keeps buffers and disk in step: all three together, in every *)
(* state, however many threads, descriptors and transfers there are.       *)
THEOREM DiskStaysSynced == Spec => []DiskSynced
BY DescriptorsKept, ReturnsInSync, InterruptsKept, PTL DEF DiskSynced
=============================================================================
