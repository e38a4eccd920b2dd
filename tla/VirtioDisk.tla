----------------------------- MODULE VirtioDisk -----------------------------
(***************************************************************************)
(* The disk driver of kernel/virtio_disk.c: descriptors, the available and *)
(* the used ring, the interrupt, and the threads that wait for a transfer. *)
(* The device is not part of the source: it takes requests in order,       *)
(* completes them in any order and raises an interrupt afterwards.         *)
(*                                                                         *)
(* A thread has one buffer, locked by it (kernel/bio.c), for a block no    *)
(* other thread uses meanwhile, so threads stand for buffers and blocks.   *)
(***************************************************************************)
EXTENDS Naturals, Sequences, FiniteSets

CONSTANTS
  Thread, None,
  Intr,        \* virtio_disk_intr(), as the holder of vdisk_lock
  NUM,         \* descriptors, and entries of each ring
  WRAP,        \* avail->idx and used->idx are uint16: they wrap at 2^16
  Starts,      \* values the indices have at first
  Data,
  MaxRequests  \* bound on the calls of virtio_disk_rw()

ASSUME VirtioAssumption ==
  /\ Intr \notin Thread /\ None \notin Thread \cup {Intr}
  /\ NUM \in Nat /\ NUM >= 3
  /\ WRAP \in Nat \ {0} /\ WRAP % NUM = 0
  /\ Starts \subseteq 0 .. WRAP - 1 /\ MaxRequests \in Nat

Desc == 0 .. NUM - 1
Index == 0 .. WRAP - 1

VARIABLES
  free,        \* the descriptors i with disk.free[i]
  chain,       \* head -> the three descriptors linked from it, or <<>>
  info,        \* head -> disk.info[head].b, as a thread, or None
  availRing, availIdx,   \* written by the driver
  usedRing, usedIdx,     \* written by the device
  seenIdx,     \* disk.used_idx
  busy,        \* the threads whose b->disk is 1
  lock,        \* vdisk_lock
  buf, disk,   \* b->data and the block on the disk
  pc, write, idx,        \* per thread: its call
  handler,     \* virtio_disk_intr(): "off", "loop" or "end"
  intr,        \* the device's interrupt status
  devIdx, inflight, raise,   \* the device: next entry, its requests, interrupt due
  requests

driver == <<free, chain, info, availRing, availIdx, seenIdx, busy, lock>>
device == <<usedRing, usedIdx, disk, devIdx, inflight, raise>>
thread == <<pc, write, idx, requests>>
vars == <<driver, device, buf, thread, handler, intr>>

TypeOK ==
  /\ free \subseteq Desc /\ chain \in [Desc -> Seq(Desc)]
  /\ info \in [Desc -> Thread \cup {None}]
  /\ availRing \in [Desc -> Desc] /\ usedRing \in [Desc -> Desc]
  /\ availIdx \in Index /\ usedIdx \in Index /\ seenIdx \in Index /\ devIdx \in Index
  /\ busy \subseteq Thread /\ lock \in Thread \cup {Intr, None}
  /\ buf \in [Thread -> Data] /\ disk \in [Thread -> Data]
  /\ pc \in [Thread -> {"idle", "alloc", "sleepfree", "ring", "index", "acquire",
                        "wait", "sleep"}]
  /\ write \in [Thread -> BOOLEAN] /\ idx \in [Thread -> Seq(Desc)]
  /\ handler \in {"off", "loop", "end"} /\ intr \in BOOLEAN /\ raise \in BOOLEAN
  /\ inflight \subseteq Desc /\ requests \in 0 .. MaxRequests

(* After virtio_disk_init() the indices are 0.  After k transfers, one at  *)
(* a time, they are k and everything else is as before: each used the      *)
(* descriptors 0, 1 and 2.                                                 *)
InitAt(k) ==
  /\ free = Desc /\ chain = [d \in Desc |-> <<>>] /\ info = [d \in Desc |-> None]
  /\ availRing = [d \in Desc |-> 0] /\ usedRing = [d \in Desc |-> 0]
  /\ availIdx = k /\ usedIdx = k /\ seenIdx = k /\ devIdx = k
  /\ busy = {} /\ lock = None
  /\ disk \in [Thread -> Data] /\ buf = disk
  /\ pc = [t \in Thread |-> "idle"] /\ write = [t \in Thread |-> FALSE]
  /\ idx = [t \in Thread |-> <<>>]
  /\ handler = "off" /\ intr = FALSE /\ raise = FALSE /\ inflight = {} /\ requests = 0

Init == \E k \in Starts : InitAt(k)

Goto(t, l) == pc' = [pc EXCEPT ![t] = l]
PlusOne(x) == (x + 1) % WRAP

(***************************************************************************)
(* virtio_disk_rw()                                                        *)
(***************************************************************************)

(* A caller with new contents of its buffer, or one that wants the block's.*)
Call(t, w, v) ==
  /\ pc[t] = "idle" /\ requests < MaxRequests
  /\ requests' = requests + 1
  /\ write' = [write EXCEPT ![t] = w] /\ buf' = [buf EXCEPT ![t] = v]
  /\ Goto(t, "alloc")
  /\ UNCHANGED <<driver, device, idx, handler, intr>>

(* alloc_desc(): the first free descriptor.                                *)
FirstOf(S) == CHOOSE d \in S : \A e \in S : d <= e
Three(S) ==
  LET a == FirstOf(S)  b == FirstOf(S \ {a})  c == FirstOf(S \ {a, b}) IN <<a, b, c>>

WakeNone(s) == s
WakeFree(s) == IF s = "sleepfree" THEN "alloc" ELSE s

(* alloc3_desc(): three descriptors, or back with those it got; giving one *)
(* back wakes the threads that wait for descriptors.                       *)
Alloc(t) ==
  /\ pc[t] = "alloc" /\ lock = None
  /\ IF Cardinality(free) >= 3
     THEN /\ lock' = t
          /\ idx' = [idx EXCEPT ![t] = Three(free)]
          /\ free' = free \ {Three(free)[k] : k \in 1 .. 3}
          /\ Goto(t, "ring")
     ELSE /\ pc' = [s \in Thread |-> IF s = t THEN "sleepfree"
                                     ELSE IF free # {} THEN WakeFree(pc[s]) ELSE pc[s]]
          /\ UNCHANGED <<lock, idx, free>>
  /\ UNCHANGED <<chain, info, availRing, availIdx, seenIdx, busy, device, buf, write,
                 requests, handler, intr>>

(* The entry of the available ring that is filled in next.                 *)
SlotAfter == (availIdx + 1) % NUM
Slot == availIdx % NUM

(* The descriptors are formatted, b->disk and info are set, and the head   *)
(* is put into the available ring.                                         *)
Format(t) ==
  LET head == idx[t][1] IN
  /\ pc[t] = "ring"
  /\ chain' = [chain EXCEPT ![head] = idx[t]]
  /\ info' = [info EXCEPT ![head] = t] /\ busy' = busy \cup {t}
  /\ availRing' = [availRing EXCEPT ![Slot] = head]
  /\ Goto(t, "index")
  /\ UNCHANGED <<free, availIdx, seenIdx, lock, device, buf, write, idx, requests,
                 handler, intr>>

(* avail->idx += 1 shows it to the device.                                 *)
Publish(t) ==
  /\ pc[t] = "index" /\ availIdx' = PlusOne(availIdx)
  /\ Goto(t, "wait")
  /\ UNCHANGED <<free, chain, info, availRing, seenIdx, busy, lock, device, buf, write,
                 idx, requests, handler, intr>>

(* while(b->disk == 1) sleep(b, &disk.vdisk_lock);                         *)
WaitsNever(t) == FALSE
Waits(t) == t \in busy

Sleep(t) ==
  /\ pc[t] = "wait" /\ Waits(t)
  /\ Goto(t, "sleep") /\ lock' = None
  /\ UNCHANGED <<free, chain, info, availRing, availIdx, seenIdx, busy, device, buf, write,
                 idx, requests, handler, intr>>

Reacquire(t) ==
  /\ pc[t] = "acquire" /\ lock = None /\ lock' = t /\ Goto(t, "wait")
  /\ UNCHANGED <<free, chain, info, availRing, availIdx, seenIdx, busy, device, buf, write,
                 idx, requests, handler, intr>>

(* free_chain()                                                            *)
ChainHeadOnly(h) == {h}
Chain(h) == {chain[h][k] : k \in 1 .. Len(chain[h])}

Return(t) ==
  LET head == idx[t][1] IN
  /\ pc[t] = "wait" /\ ~Waits(t)
  /\ info' = [info EXCEPT ![head] = None]
  /\ free' = free \cup Chain(head) /\ chain' = [chain EXCEPT ![head] = <<>>]
  /\ idx' = [idx EXCEPT ![t] = <<>>] /\ write' = [write EXCEPT ![t] = FALSE]
  /\ pc' = [s \in Thread |-> IF s = t THEN "idle" ELSE WakeFree(pc[s])]
  /\ lock' = None
  /\ UNCHANGED <<availRing, availIdx, seenIdx, busy, device, buf, requests, handler, intr>>

(***************************************************************************)
(* virtio_disk_intr()                                                      *)
(***************************************************************************)

(* The interrupt is acknowledged before the used ring is read.             *)
IntrStart ==
  /\ handler = "off" /\ intr /\ lock = None
  /\ lock' = Intr /\ handler' = "loop" /\ intr' = FALSE
  /\ UNCHANGED <<free, chain, info, availRing, availIdx, seenIdx, busy, device, buf, thread>>

IntrTurn ==
  LET t == info[usedRing[seenIdx % NUM]] IN
  /\ handler = "loop" /\ seenIdx # usedIdx
  /\ busy' = busy \ {t}
  /\ pc' = [pc EXCEPT ![t] = IF @ = "sleep" THEN "acquire" ELSE @]
  /\ seenIdx' = PlusOne(seenIdx)
  /\ UNCHANGED <<free, chain, info, availRing, availIdx, lock, device, buf, write, idx,
                 requests, handler, intr>>

(* The end of the loop, and then release().                                *)
IntrLeave ==
  /\ handler = "loop" /\ seenIdx = usedIdx /\ handler' = "end"
  /\ UNCHANGED <<driver, device, buf, thread, intr>>

AckAgain == intr' = FALSE
NoAck == UNCHANGED intr

IntrEnd ==
  /\ handler = "end" /\ handler' = "off" /\ lock' = None /\ NoAck
  /\ UNCHANGED <<free, chain, info, availRing, availIdx, seenIdx, busy, device, buf, thread>>

(***************************************************************************)
(* The device.                                                             *)
(***************************************************************************)

DeviceTakes ==
  /\ devIdx # availIdx
  /\ inflight' = inflight \cup {availRing[devIdx % NUM]}
  /\ devIdx' = PlusOne(devIdx)
  /\ UNCHANGED <<driver, usedRing, usedIdx, disk, raise, buf, thread, handler, intr>>

(* Transfer of the data, status and used entry.                            *)
DeviceCompletes(h) ==
  LET t == info[h] IN
  /\ h \in inflight /\ inflight' = inflight \ {h}
  /\ IF write[t]
     THEN disk' = [disk EXCEPT ![t] = buf[t]] /\ UNCHANGED buf
     ELSE buf' = [buf EXCEPT ![t] = disk[t]] /\ UNCHANGED disk
  /\ usedRing' = [usedRing EXCEPT ![usedIdx % NUM] = h]
  /\ usedIdx' = PlusOne(usedIdx) /\ raise' = TRUE
  /\ UNCHANGED <<driver, devIdx, thread, handler, intr>>

DeviceInterrupts ==
  /\ raise /\ raise' = FALSE /\ intr' = TRUE
  /\ UNCHANGED <<driver, usedRing, usedIdx, disk, devIdx, inflight, buf, thread, handler>>

Next ==
  \/ \E t \in Thread :
       \/ \E w \in BOOLEAN, v \in Data : Call(t, w, v)
       \/ Alloc(t) \/ Format(t) \/ Publish(t) \/ Sleep(t) \/ Reacquire(t) \/ Return(t)
  \/ IntrStart \/ IntrTurn \/ IntrLeave \/ IntrEnd
  \/ DeviceTakes \/ DeviceInterrupts \/ \E h \in Desc : DeviceCompletes(h)

Spec == Init /\ [][Next]_vars

(* The device serves its requests; a process that can run does, and gets   *)
(* the spinlock if it is free again and again.                             *)
Fairness ==
  /\ \A t \in Thread :
       /\ SF_vars(Alloc(t)) /\ WF_vars(Format(t)) /\ WF_vars(Publish(t))
       /\ WF_vars(Sleep(t)) /\ SF_vars(Reacquire(t)) /\ WF_vars(Return(t))
  /\ SF_vars(IntrStart) /\ WF_vars(IntrTurn) /\ WF_vars(IntrLeave) /\ WF_vars(IntrEnd)
  /\ WF_vars(DeviceTakes) /\ WF_vars(DeviceInterrupts)
  /\ \A h \in Desc : WF_vars(DeviceCompletes(h))

FairSpec == Spec /\ Fairness

(***************************************************************************)
(* Properties.                                                             *)
(***************************************************************************)

Owned(t) == {idx[t][k] : k \in 1 .. Len(idx[t])}

(* What the device finds in the rings are heads of chains in use, also     *)
(* after the indices have wrapped.                                         *)
DeviceSeesRequests ==
  /\ \A h \in inflight : info[h] # None /\ info[h] \in busy
  /\ devIdx # availIdx => chain[availRing[devIdx % NUM]] # <<>>
  /\ seenIdx # usedIdx => info[usedRing[seenIdx % NUM]] \in busy

(* Everything has its type; a descriptor is free or belongs to one call:   *)
(* none is leaked, freed twice or used by two transfers; the device sees   *)
(* only those of calls.                                                    *)
DescriptorsConserved ==
  /\ TypeOK /\ DeviceSeesRequests
  /\ free \cup UNION {Owned(t) : t \in Thread} = Desc
  /\ \A t \in Thread : Owned(t) \cap free = {}
  /\ \A t, s \in Thread : t # s => Owned(t) \cap Owned(s) = {}

(* virtio_disk_rw() returns only when the transfer is over: the buffer and *)
(* the block agree.                                                        *)
SyncedOnReturn == \A t \in Thread : pc[t] = "idle" => buf[t] = disk[t]

(* A used entry is not overlooked: while nobody handles it, an interrupt   *)
(* is pending or about to be raised.                                       *)
NoLostInterrupt == handler = "off" /\ seenIdx # usedIdx => intr \/ raise

(* Descriptors are handed from one transfer to the next, the caller is     *)
(* told when its own is over, and no used entry is overlooked.             *)
DiskSynced == DescriptorsConserved /\ SyncedOnReturn /\ NoLostInterrupt

(* Every transfer ends, if the threads make finitely many.                 *)
TransfersEnd == \A t \in Thread : pc[t] # "idle" ~> pc[t] = "idle"

=============================================================================
