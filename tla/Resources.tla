----------------------------- MODULE Resources -----------------------------
(***************************************************************************)
(* What the kernel gives to those who ask and takes back: pages (Memory)   *)
(* and buffers of disk blocks (Bcache).  Buffers are static, and kalloc()  *)
(* and kfree() are called with no buffer held that matters to them: the    *)
(* two share no state.                                                     *)
(***************************************************************************)
EXTENDS Memory

CONSTANTS NBUF, Block, User, Value, MaxPins   \* of Bcache

VARIABLES
  lru, blockno, valid, refcnt, data, locked, store, pins, b, want, newest,
  upc        \* of Bcache, which calls it pc

buffers == <<lru, blockno, valid, refcnt, data, locked, store, pins, b, want, newest, upc>>

Bio == INSTANCE Bcache WITH pc <- upc

ASSUME PageConstants == MemoryAssumption
ASSUME BufferConstants == Bio!BcacheAssumption

(* A block is in one buffer, a buffer in use keeps its block, references   *)
(* are counted exactly, and bget() panics only when all buffers are in use *)
(* or pinned.  Who holds a buffer holds what was stored in its block last, *)
(* and alone; what is not pinned is on the disk; who sleeps on a lock has  *)
(* a waker.                                                                *)
Coherent == Bio!TypeOK /\ Bio!OneBuffer /\ Bio!Coherent

=============================================================================
