-------------------------------- MODULE Mkfs --------------------------------
(***************************************************************************)
(* mkfs/mkfs.c: the builder of the first file system image, from the sizes *)
(* of the files it is given.  It runs once, alone, on the host.  A turn of *)
(* iappend() is one action.  A unit of data is <<inum, k>>: what mkfs was  *)
(* given as unit k of that inode; a directory entry is one unit.           *)
(***************************************************************************)
EXTENDS Integers, Sequences, FiniteSets, FiniteSetsExt

CONSTANTS
  NMETA,       \* nmeta: boot block, super block, log, inodes, bitmap
  NBLOCKS,     \* nblocks
  BSIZE, NDIRECT, NINDIRECT,
  Sizes        \* the arguments: lists of sizes of files

MAXFILE == NDIRECT + NINDIRECT

MkfsAssumption ==
  /\ {NMETA, NBLOCKS, BSIZE, NDIRECT, NINDIRECT} \subseteq Nat \ {0}
  /\ \A s \in Sizes : \A k \in DOMAIN s : s[k] \in 0 .. MAXFILE * BSIZE

Sector == NMETA .. NMETA + NBLOCKS - 1
ROOTINO == 1

VARIABLES
  given,     \* the sizes of the files
  todo,      \* appends still to be done: <<inum, n>>
  freeinode, freeblock,
  isize,     \* din.size of each inode
  addrs,     \* din.addrs, 0 where there is none
  img,       \* Sector -> its units, as data and, for an indirect block, as words
  words,
  bitmap,    \* sectors whose bit is set
  done

image == <<isize, addrs, img, words>>
vars == <<given, todo, freeinode, freeblock, image, bitmap, done>>

NInode == 1 + Max({Len(s) : s \in Sizes})
Zeroes == [u \in 0 .. BSIZE - 1 |-> <<>>]
NoWords == [k \in 0 .. NINDIRECT - 1 |-> 0]

(* The root has been made by ialloc(); its entries come first.             *)
Init ==
  /\ given \in Sizes
  /\ todo = <<<<ROOTINO, 1>>, <<ROOTINO, 1>>>> /\ freeinode = ROOTINO + 1
  /\ freeblock = NMETA
  /\ isize = [i \in 1 .. NInode |-> 0]
  /\ addrs = [i \in 1 .. NInode |-> [k \in 0 .. NDIRECT |-> 0]]
  /\ img = [b \in Sector |-> Zeroes] /\ words = [b \in Sector |-> NoWords]
  /\ bitmap = {} /\ done = FALSE

-----------------------------------------------------------------------------
(* The blocks that a turn takes from freeblock on, and what they become:   *)
(* the indirect block, when it is missing, before the entry.               *)
Lookup(inum, fbn) ==
  LET a == addrs[inum]
      ind == IF a[NDIRECT] = 0 THEN freeblock ELSE a[NDIRECT]
      rest == IF a[NDIRECT] = 0 THEN freeblock + 1 ELSE freeblock
      old == words[ind][fbn - NDIRECT]
      x == IF old = 0 THEN rest ELSE old
  IN IF fbn < NDIRECT
     THEN LET b == IF a[fbn] = 0 THEN freeblock ELSE a[fbn]
          IN [x |-> b, addrs |-> [a EXCEPT ![fbn] = b], words |-> words,
              freeblock |-> IF a[fbn] = 0 THEN freeblock + 1 ELSE freeblock]
     ELSE [x |-> x, addrs |-> [a EXCEPT ![NDIRECT] = ind],
           words |-> [words EXCEPT ![ind][fbn - NDIRECT] = x],
           freeblock |-> IF old = 0 THEN rest + 1 ELSE rest]

Fits(n, off) == Min({n, ((off \div BSIZE) + 1) * BSIZE - off})

(* One turn of the loop of iappend().                                      *)
Append1 ==
  LET inum == Head(todo)[1]
      n == Head(todo)[2]
      off == isize[inum]
      l == Lookup(inum, off \div BSIZE)
      n1 == Fits(n, off)
      start == off % BSIZE
  IN /\ todo # <<>>
     /\ freeblock' = l.freeblock /\ words' = l.words
     /\ addrs' = [addrs EXCEPT ![inum] = l.addrs]
     /\ img' = [img EXCEPT ![l.x] = [u \in DOMAIN @ |->
                   IF u \in start .. start + n1 - 1 THEN <<inum, off + u - start>> ELSE @[u]]]
     /\ isize' = [isize EXCEPT ![inum] = off + n1]
     /\ todo' = IF n1 = n THEN Tail(todo) ELSE <<<<inum, n - n1>>>> \o Tail(todo)
     /\ UNCHANGED <<given, freeinode, bitmap, done>>

(* A turn of main(): an entry in the root, and the file by the block.      *)
Reads(inum, n) ==
  [k \in 1 .. (n + BSIZE - 1) \div BSIZE |-> <<inum, Min({BSIZE, n - (k - 1) * BSIZE})>>]

NextFile ==
  LET k == freeinode - ROOTINO
  IN /\ todo = <<>> /\ k <= Len(given) /\ ~done
     /\ freeinode' = freeinode + 1
     /\ todo' = <<<<ROOTINO, 1>>>> \o Reads(freeinode, given[k])
     /\ UNCHANGED <<given, freeblock, image, bitmap, done>>

(* "fix size of root inode dir"                                            *)
FixedSize(off) == ((off \div BSIZE) + 1) * BSIZE

(* Slip: balloc() is called before the last block was taken.            *)
OneShort == 0 .. freeblock - 2

FirstBlocks == 0 .. freeblock - 1

Finish ==
  /\ todo = <<>> /\ freeinode - ROOTINO > Len(given) /\ ~done
  /\ isize' = [isize EXCEPT ![ROOTINO] = FixedSize(@)]
  /\ bitmap' = FirstBlocks /\ done' = TRUE
  /\ UNCHANGED <<given, todo, freeinode, freeblock, addrs, img, words>>

Next == Append1 \/ NextFile \/ Finish

Spec == Init /\ [][Next]_vars

-----------------------------------------------------------------------------
(* The sector of a block of a file, as bmap() of the kernel finds it.      *)
Mapped(i, bn) ==
  IF bn < NDIRECT THEN addrs[i][bn]
  ELSE IF addrs[i][NDIRECT] = 0 THEN 0 ELSE words[addrs[i][NDIRECT]][bn - NDIRECT]

Owners(b) ==
  Cardinality({x \in (1 .. NInode) \X (0 .. MAXFILE - 1) : Mapped(x[1], x[2]) = b})
  + Cardinality({i \in 1 .. NInode : addrs[i][NDIRECT] = b})

Written(i) == IF i = ROOTINO THEN 2 + Len(given) ELSE given[i - ROOTINO]

(* The image is the file system that the kernel expects: each block of the *)
(* bitmap behind the first NMETA has one owner and the others have none,   *)
(* each file has its units at their places, and none has a hole, unless    *)
(* the entries of the root fill its last block: then its size counts a     *)
(* block that it does not have.                                            *)
ImageSound ==
  done =>
    /\ bitmap \cap 0 .. NMETA - 1 = 0 .. NMETA - 1
    /\ \A b \in Sector : Owners(b) = IF b \in bitmap THEN 1 ELSE 0
    /\ \A i \in 1 .. Len(given) + 1 :
         /\ i # ROOTINO => isize[i] = Written(i)
         /\ \A k \in 0 .. Written(i) - 1 :
              /\ Mapped(i, k \div BSIZE) # 0
              /\ img[Mapped(i, k \div BSIZE)][k % BSIZE] = <<i, k>>
    /\ (2 + Len(given)) % BSIZE # 0 => isize[ROOTINO] \div BSIZE = Cardinality(
         {bn \in 0 .. MAXFILE - 1 : Mapped(ROOTINO, bn) # 0})

=============================================================================
