----------------------------- MODULE MCDevices -----------------------------
(***************************************************************************)
(* The disk, the blocks of files on it, and the files that programs have   *)
(* open.                                                                   *)
(* The parts share no state, so a behaviour is one of them.  The disk      *)
(* driver and the table of open files have their own variables; x1, x2,    *)
(* ... are those of the others, in the order in which each declares them.  *)
(*   VirtioDisk  three threads and eight descriptors, as in the code: two  *)
(*               transfers fit, the third waits; indices from 0 and wrap   *)
(*   Files       three processes, three files, two descriptors each; a     *)
(*               file, a device and room for one pipe                      *)
(*   Blocks      two inodes on a small disk that others use in part        *)
(***************************************************************************)
EXTENDS VirtioDisk, FileTable, Integers, TLC

CONSTANTS
  Owner, NBlock, BPB, BSIZE, NDIRECT, NINDIRECT, MAXOPBLOCKS, Foreign, Count, BlockCalls

VARIABLES
  part,     \* "disk", "files" or "blocks"
  x1, x2, x3, x4, x5, x6, x7, x8, x9, x10, x11, x12, x13, x14

others == <<x1, x2, x3, x4, x5, x6, x7, x8, x9, x10, x11, x12, x13, x14>>

Bitmap == INSTANCE Blocks WITH
  Inode <- Owner, MaxCalls <- BlockCalls,
  foreign <- x1, used <- x2, words <- x3, addrs <- x4, size <- x5, pc <- x6,
  off <- x7, left <- x8, to <- x9, group <- x10, got <- x11, slot <- x12,
  logged <- x13, calls <- x14

ASSUME Bitmap!BlocksAssumption

Symmetry == Permutations(Thread) \cup Permutations(Owner)

(* The driver while another part is looked at.                             *)
Unused == InitAt(0) /\ disk = [t \in Thread |-> 0]

Zeros ==
  /\ x1 = 0 /\ x2 = 0 /\ x3 = 0 /\ x4 = 0 /\ x5 = 0 /\ x6 = 0 /\ x7 = 0 /\ x8 = 0
  /\ x9 = 0 /\ x10 = 0 /\ x11 = 0 /\ x12 = 0 /\ x13 = 0 /\ x14 = 0

DevInit ==
  /\ Open!Init
  /\ \/ part = "disk" /\ Init /\ Zeros
     \/ /\ Unused
        /\ \/ part = "files" /\ Zeros
           \/ part = "blocks" /\ Bitmap!Init

DevNext ==
  /\ UNCHANGED part
  /\ \/ part = "disk" /\ Next /\ UNCHANGED <<table, others>>
     \/ part = "files" /\ Open!Next /\ UNCHANGED <<vars, others>>
     \/ part = "blocks" /\ Bitmap!Next /\ UNCHANGED <<vars, table>>

DevSpec == DevInit /\ [][DevNext]_<<part, vars, table, others>>

(* Blocks: the bitmap marks what has an owner, and each block has one; no  *)
(* file has a hole, and a transaction fits into the log.                   *)
BlocksConserved ==
  part = "blocks" => Bitmap!BlocksConserved /\ Bitmap!TransactionFits

=============================================================================
