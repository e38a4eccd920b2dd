------------------------------- MODULE Blocks -------------------------------
(***************************************************************************)
(* kernel/fs.c, the blocks of files: balloc(), bfree(), bmap(), itrunc()   *)
(* and writei() as filewrite() and open() call them, several inodes at a   *)
(* time on one bitmap.  Who works on an inode has it locked, so a worker   *)
(* is called by its inode.  The access to one buffer is one action.        *)
(*                                                                         *)
(* words[b] is a block read as the array of an indirect block; a block of  *)
(* data holds arbitrary words, here numbers of blocks of others.  That the *)
(* transaction is applied as a whole is shown in Log; what the disk says   *)
(* of an inode is what memory says when a call is over.                    *)
(***************************************************************************)
EXTENDS Integers, FiniteSets, FiniteSetsExt, TLC

CONSTANTS
  Inode,
  NBlock,      \* the blocks for data are 1 .. NBlock
  BPB,         \* bits of a bitmap block
  BSIZE,       \* units of a block
  NDIRECT, NINDIRECT,
  MAXOPBLOCKS,
  Foreign,     \* sets of blocks that other files may own
  Count,       \* the n of calls of write()
  MaxCalls     \* bound on the calls of all workers together

BlocksAssumption ==
  /\ {NBlock, BPB, BSIZE, NDIRECT, NINDIRECT, MAXOPBLOCKS, MaxCalls} \subseteq Nat \ {0}
  /\ Foreign \subseteq SUBSET (1 .. NBlock) /\ {} \notin Foreign /\ Count \subseteq Nat \ {0}

Block == 1 .. NBlock
MAXFILE == NDIRECT + NINDIRECT
Slot == 0 .. NDIRECT
Entry == 0 .. NINDIRECT - 1

VARIABLES
  foreign,  \* the blocks of other files
  used,     \* the bitmap: blocks whose bit is set
  words,    \* Block -> Entry -> 0 or a block
  addrs,    \* Inode -> Slot -> 0 or a block: ip->addrs
  size,     \* Inode -> ip->size
  pc, off, left, to,      \* a call of writei(): to is its last unit
  group,    \* the bitmap block that balloc() looks at
  got,      \* the block that balloc() has found
  slot,     \* the block number that itrunc() has come to
  logged,   \* the blocks that the transaction has written
  calls

disk == <<foreign, used, words>>
inodes == <<addrs, size>>
job == <<off, left, to, group, got, slot>>
vars == <<disk, inodes, pc, job, logged, calls>>

Zero == [k \in Entry |-> 0]
OldWords == [k \in Entry |-> Min(foreign)]

Init ==
  /\ foreign \in Foreign /\ used = foreign
  /\ words = [b \in Block |-> OldWords]
  /\ addrs = [i \in Inode |-> [k \in Slot |-> 0]] /\ size = [i \in Inode |-> 0]
  /\ pc = [i \in Inode |-> "idle"]
  /\ off = [i \in Inode |-> 0] /\ left = [i \in Inode |-> 0] /\ to = [i \in Inode |-> 0]
  /\ group = [i \in Inode |-> 0] /\ got = [i \in Inode |-> 0] /\ slot = [i \in Inode |-> 0]
  /\ logged = [i \in Inode |-> {}] /\ calls = 0

-----------------------------------------------------------------------------
Go(i, at) == pc' = [pc EXCEPT ![i] = at]

LogWrite(i, xs) == logged' = [logged EXCEPT ![i] = @ \cup xs]

BBLOCK(b) == <<"bitmap", (b - 1) \div BPB>>
Bits(g) == {b \in Block : (b - 1) \div BPB = g}
Groups == (NBlock + BPB - 1) \div BPB

(* The block of block number bn in the tree of inode i, 0 if there is none.*)
Mapped(i, bn) ==
  IF bn < NDIRECT THEN addrs[i][bn]
  ELSE IF addrs[i][NDIRECT] = 0 THEN 0 ELSE words[addrs[i][NDIRECT]][bn - NDIRECT]

(* Where bmap() puts the block that it misses: the indirect block first.   *)
Missing(i, bn) ==
  CASE bn < NDIRECT -> <<"slot", bn>>
    [] bn >= NDIRECT /\ addrs[i][NDIRECT] = 0 -> <<"slot", NDIRECT>>
    [] OTHER -> <<"entry", bn - NDIRECT>>

(* Slip: "allocation blocks" are forgotten, so that four fit.           *)
MaxTooLarge == ((MAXOPBLOCKS - 1 - 1) \div 2) * BSIZE

(* "max" of filewrite(): what one transaction may write.                   *)
MaxChunk == ((MAXOPBLOCKS - 1 - 1 - 2) \div 2) * BSIZE

-----------------------------------------------------------------------------
(* filewrite(): an offset up to the end, in transactions of MaxChunk.      *)
Write(i, at, n) ==
  /\ pc[i] = "idle" /\ calls < MaxCalls /\ calls' = calls + 1
  /\ off' = [off EXCEPT ![i] = at] /\ left' = [left EXCEPT ![i] = n]
  /\ Go(i, "chunk")
  /\ UNCHANGED <<disk, inodes, to, group, got, slot, logged>>

(* A call is over; its registers mean nothing any more.                    *)
Return(i) ==
  /\ Go(i, "idle") /\ off' = [off EXCEPT ![i] = 0] /\ left' = [left EXCEPT ![i] = 0]
  /\ to' = [to EXCEPT ![i] = 0]

(* begin_op(), ilock(), and the tests of writei().  It ends with iupdate(),*)
(* so the transaction has the block of the inode.                          *)
Chunk(i) ==
  LET n1 == Min({left[i], MaxChunk})
      fits == off[i] <= size[i] /\ off[i] + n1 <= MAXFILE * BSIZE
  IN /\ pc[i] = "chunk"
     /\ \/ /\ fits /\ Go(i, "block") /\ to' = [to EXCEPT ![i] = off[i] + n1]
           /\ left' = [left EXCEPT ![i] = @ - n1] /\ LogWrite(i, {<<"inode", i>>})
           /\ UNCHANGED off
        \/ ~fits /\ Return(i) /\ UNCHANGED logged
     /\ UNCHANGED <<disk, inodes, group, got, slot, calls>>

(* bmap() finds the block of the offset, or calls balloc().                *)
Bmap(i) == Mapped(i, off[i] \div BSIZE)

(* Slip: bits are not set.                                              *)
Unmarked(b) == used

Marked(b) == used \cup {b}

(* balloc(): one bitmap block; the disk is full behind the last.           *)
Balloc(i) ==
  LET free == Bits(group[i]) \ used
  IN /\ pc[i] = "block" /\ Bmap(i) = 0
     /\ \/ /\ group[i] = Groups /\ Go(i, "end") /\ UNCHANGED <<used, group, got, logged>>
        \/ /\ group[i] < Groups /\ free = {}
           /\ group' = [group EXCEPT ![i] = @ + 1] /\ UNCHANGED <<used, got, logged, pc>>
        \/ /\ group[i] < Groups /\ free # {}
           /\ used' = Marked(Min(free)) /\ got' = [got EXCEPT ![i] = Min(free)]
           /\ LogWrite(i, {BBLOCK(Min(free))}) /\ Go(i, "bzero") /\ UNCHANGED group
     /\ UNCHANGED <<foreign, words, inodes, off, left, to, slot, calls>>

(* Slip: bzero() is forgotten.                                          *)
NotZeroed(b) == words[b]

Zeroed(b) == Zero

(* bmap() stores what balloc() returned, for the offset or, first, as the  *)
(* indirect block; only this worker sees the block yet.                    *)
Bzero(i) ==
  LET b == got[i]
      zeroed == [words EXCEPT ![b] = Zeroed(b)]
      where == Missing(i, off[i] \div BSIZE)
      indirect == addrs[i][NDIRECT]
  IN /\ pc[i] = "bzero" /\ Go(i, "block")
     /\ got' = [got EXCEPT ![i] = 0] /\ group' = [group EXCEPT ![i] = 0]
     /\ \/ /\ where[1] = "slot" /\ addrs' = [addrs EXCEPT ![i][where[2]] = b]
           /\ words' = zeroed /\ LogWrite(i, {<<"block", b>>})
        \/ /\ where[1] = "entry" /\ words' = [zeroed EXCEPT ![indirect][where[2]] = b]
           /\ LogWrite(i, {<<"block", b>>, <<"block", indirect>>}) /\ UNCHANGED addrs
     /\ UNCHANGED <<foreign, used, size, off, left, to, slot, calls>>

(* A turn of writei() with the block; either_copyin() may fail.            *)
Copy(i) ==
  LET m == Min({to[i] - off[i], BSIZE - (off[i] % BSIZE)})
  IN /\ pc[i] = "block" /\ Bmap(i) # 0
     /\ \/ Go(i, "end") /\ UNCHANGED <<words, off, logged>>
        \/ /\ words' = [words EXCEPT ![Bmap(i)] = OldWords] /\ LogWrite(i, {<<"block", Bmap(i)>>})
           /\ off' = [off EXCEPT ![i] = @ + m]
           /\ Go(i, IF off[i] + m = to[i] THEN "end" ELSE "block")
     /\ group' = [group EXCEPT ![i] = 0]
     /\ UNCHANGED <<foreign, used, inodes, left, to, got, slot, calls>>

(* Slip: the size is what was asked for.                                *)
SizeAsked(i) == to[i]

SizeNow(i) == off[i]

(* iupdate(), end_op(); filewrite() goes on if all was written.            *)
End(i) ==
  /\ pc[i] = "end"
  /\ size' = [size EXCEPT ![i] = Max({@, SizeNow(i)})]
  /\ \/ off[i] = to[i] /\ left[i] > 0 /\ Go(i, "chunk") /\ UNCHANGED <<off, left, to>>
     \/ (off[i] # to[i] \/ left[i] = 0) /\ Return(i)
  /\ logged' = [logged EXCEPT ![i] = {}] /\ group' = [group EXCEPT ![i] = 0]
  /\ UNCHANGED <<disk, addrs, got, slot, calls>>

-----------------------------------------------------------------------------
(* itrunc() by open() or by the last iput().                               *)
Itrunc(i) ==
  /\ pc[i] = "idle" /\ calls < MaxCalls /\ calls' = calls + 1
  /\ Go(i, "trunc")
  /\ LogWrite(i, {<<"inode", i>>})
  /\ UNCHANGED <<disk, inodes, job>>

(* bfree(): it panics when the bit is not set.                             *)
Bfree(i, b) == used' = used \ {b} /\ LogWrite(i, {BBLOCK(b)})

(* Slip: the indirect block is freed, its entries are not.              *)
TruncEndDirect == NDIRECT

TruncEnd == MAXFILE

ToFree(i) == {bn \in slot[i] .. TruncEnd - 1 : Mapped(i, bn) # 0}

(* The next block; the entries of the indirect block are not cleared.      *)
Free(i) ==
  /\ pc[i] = "trunc" /\ ToFree(i) # {}
  /\ LET bn == Min(ToFree(i))
     IN /\ Bfree(i, Mapped(i, bn)) /\ slot' = [slot EXCEPT ![i] = bn + 1]
        /\ addrs' = IF bn < NDIRECT THEN [addrs EXCEPT ![i][bn] = 0] ELSE addrs
  /\ UNCHANGED <<foreign, words, size, pc, off, left, to, group, got, calls>>

(* The indirect block itself, then iupdate().                              *)
FreeIndirect(i) ==
  /\ pc[i] = "trunc" /\ ToFree(i) = {}
  /\ used' = used \ {addrs[i][NDIRECT]} /\ logged' = [logged EXCEPT ![i] = {}]
  /\ addrs' = [addrs EXCEPT ![i][NDIRECT] = 0] /\ size' = [size EXCEPT ![i] = 0]
  /\ Go(i, "idle") /\ slot' = [slot EXCEPT ![i] = 0]
  /\ UNCHANGED <<foreign, words, off, left, to, group, got, calls>>

-----------------------------------------------------------------------------
Next ==
  \E i \in Inode :
    \/ Chunk(i) \/ Balloc(i) \/ Bzero(i) \/ Copy(i) \/ End(i)
    \/ Free(i) \/ FreeIndirect(i) \/ Itrunc(i)
    \/ \E at \in 0 .. size[i], n \in Count : Write(i, at, n)

Spec == Init /\ [][Next]_vars

-----------------------------------------------------------------------------
TypeOK ==
  /\ used \subseteq Block /\ words \in [Block -> [Entry -> Block \cup {0}]]
  /\ addrs \in [Inode -> [Slot -> Block \cup {0}]]
  /\ size \in [Inode -> 0 .. MAXFILE * BSIZE]

(* Block numbers of i that itrunc() has not come to yet.                   *)
Kept(i) == {bn \in 0 .. MAXFILE - 1 : pc[i] # "trunc" \/ bn >= slot[i]}

(* The places that say that b is theirs.                                   *)
Owners(b) ==
  {x \in Inode \X (0 .. MAXFILE - 1) : x[2] \in Kept(x[1]) /\ Mapped(x[1], x[2]) = b}
  \cup {<<i, MAXFILE>> : i \in {j \in Inode : addrs[j][NDIRECT] = b}}
  \cup {<<i, MAXFILE + 1>> : i \in {j \in Inode : got[j] = b}}
  \cup (IF b \in foreign THEN {<<"other", 0>>} ELSE {})

(* The block numbers that readi(ip, off, n) asks bmap() for.               *)
ReadBlocks(i, at, n) ==
  LET last == Min({at + n, size[i]})
  IN IF at > size[i] \/ at >= last THEN {} ELSE (at \div BSIZE) .. ((last - 1) \div BSIZE)

(* A block has its bit set as long as it has an owner, and it has one: so  *)
(* bfree() does not panic.  A file has no holes, also after a write that   *)
(* ended early: so bmap() allocates nothing for a read(), which is in no   *)
(* transaction.                                                            *)
BlocksConserved ==
  /\ TypeOK
  /\ \A b \in Block : Cardinality(Owners(b)) = IF b \in used THEN 1 ELSE 0
  /\ \A i \in Inode : pc[i] = "idle" =>
       \A bn \in ReadBlocks(i, 0, size[i]) : Mapped(i, bn) # 0

(* No transaction of write() has more than the MAXOPBLOCKS blocks that     *)
(* begin_op() has reserved, whichever blocks it needs besides its data.    *)
TransactionFits == \A i \in Inode : Cardinality(logged[i]) <= MAXOPBLOCKS

=============================================================================
