---------------------------- MODULE MCResources ----------------------------
(***************************************************************************)
(* What processes share and must give back, pages, buffers, and the memory *)
(* in their page tables; and what is built on it: the programs of a shell  *)
(* with their descriptors, a heap, the blocks of an image.  The parts      *)
(* share no state, so a behaviour is one of them; x1, x2, ... are the      *)
(* variables of that part, in the order in which it declares them.  Pages  *)
(* and buffers have the variables of Resources.                            *)
(*   Memory    two slots, nine pages; the page tables are those of a small *)
(*             process, which needs eight pages, or nine                   *)
(*   Bcache    three buffers for four blocks, two threads, two pinned      *)
(*             blocks: both threads may want the last buffer               *)
(*   Vm        page tables of three levels of three entries, eight pages,  *)
(*             a process and its child                                     *)
(*   Shell     init, a shell and four more processes, pipes of one item;   *)
(*             lines with lists, blocks, pipes of three programs, "&" and  *)
(*             a missing file                                              *)
(*   text      all texts of five characters, typed one by one              *)
(*   Umalloc   the heap of a program, 14 units long                        *)
(*   Mkfs      images of up to four files                                  *)
(***************************************************************************)
EXTENDS Resources, Integers, TLC

CONSTANTS
  NFRAME, PGSIZE, NPTE, MAXPAGE, WRAP, WORD, MaxLen,
  ShellProcs, NPIPE, PIPESIZE, MAXARGS, MaxLength,
  HEADER, MINCORE, HeapEnd, Request, HeapCalls,
  BPB, BSIZE, NDIRECT, NINDIRECT, NMETA, NBLOCKS

VARIABLES
  part,
  x1, x2, x3, x4, x5, x6, x7, x8, x9, x10

from9 == <<x9, x10>>
from7 == <<x7, x8, from9>>
from4 == <<x4, x5, x6, from7>>
from2 == <<x2, x3, from4>>
all == <<x1, from2>>

variables == <<part, vars, buffers, all>>

Tables == INSTANCE Vm WITH
  Step <- {-20, -3, 4}, Source <- {[va |-> 1, src |-> <<1, 1, 1>>]},
  m <- x1, space <- x2, shadow <- x3

Missing == {<<"m">>}
Script ==
  {<<<<"e", "|", "c", "|", "c", "&">>, <<"x", "<", "m", ";", "e", "|", "c">>>>,
   <<<<"(", "e", ";", "c", "<", "f", ")", "|", "c", ">", "g">>>>,
   <<<<"e", "|", "c", "&">>, <<"c">>, <<"e", ">", "f">>>>}
Sh == INSTANCE Shell WITH
  NPROC <- ShellProcs, tasks <- x1, parent <- x2, fd <- x3, items <- x4,
  line <- x5, pipeof <- x6, script <- x7, broken <- x8
text == x1

Heap == INSTANCE Umalloc WITH
  MaxCalls <- HeapCalls, hdr <- x1, freep <- x2,
  brk <- x3, live <- x4, alien <- x5, calls <- x6

Lists == UNION {[1 .. n -> {0, 3, 4, 10}] : n \in 0 .. 4}
Image == INSTANCE Mkfs WITH
  Sizes <- Lists, given <- x1, todo <- x2, freeinode <- x3,
  freeblock <- x4, isize <- x5, addrs <- x6, img <- x7, words <- x8,
  bitmap <- x9, done <- x10

ASSUME Tables!VmAssumption /\ Sh!ShellAssumption
ASSUME Heap!UmallocAssumption /\ Image!MkfsAssumption

Symmetry == Permutations(Block) \cup Permutations(User)

Zeros9 == x9 = 0 /\ x10 = 0
Zeros7 == x7 = 0 /\ x8 = 0 /\ Zeros9
Zeros4 == x4 = 0 /\ x5 = 0 /\ x6 = 0 /\ Zeros7
Zeros2 == x2 = 0 /\ x3 = 0 /\ Zeros4

ResInit ==
  /\ Init /\ Bio!Init
  /\ \/ part = "bcache" /\ x1 = 0 /\ Zeros2
     \/ /\ store = [k \in Block |-> 0]
        /\ \/ part = "memory" /\ x1 = 0 /\ Zeros2
           \/ part = "vm" /\ Tables!Init /\ Zeros4
           \/ part = "shell" /\ Sh!Init /\ Zeros9
           \/ part = "text" /\ text = <<>> /\ Zeros2
           \/ part = "heap" /\ Heap!Init /\ Zeros7
           \/ part = "image" /\ Image!Init

Type ==
  Len(text) < MaxLength /\ \E c \in Sh!Symbols \cup {Sh!Blank, "a"} : text' = Append(text, c)

ResNext ==
  /\ UNCHANGED part
  /\ \/ part = "memory" /\ Next /\ UNCHANGED <<buffers, all>>
     \/ part = "bcache" /\ Bio!Next /\ UNCHANGED <<vars, all>>
     \/ /\ UNCHANGED <<vars, buffers>>
        /\ \/ part = "vm" /\ Tables!Next /\ UNCHANGED from4
           \/ part = "shell" /\ Sh!Next /\ UNCHANGED from9
           \/ part = "text" /\ Type /\ UNCHANGED from2
           \/ part = "heap" /\ Heap!Next /\ UNCHANGED from7
           \/ part = "image" /\ Image!Next

ResSpec == ResInit /\ [][ResNext]_variables

(* Page tables: a process sees its own bytes at its own addresses and no   *)
(* others, as do the copies in and out; each page belongs to one table.    *)
MemoryRight == part = "vm" => Tables!MemoryRight

(* Shell: each program runs with the input and output that its place in    *)
(* the line means, the next line begins when the last one is done, and     *)
(* nothing hangs; and the parser reads the lines of the language, and no   *)
(* others, as what they mean.                                              *)
ProgramsRight ==
  /\ part = "shell" => Sh!PlumbingRight /\ Sh!ForegroundDone /\ Sh!LinesEnd
  /\ part = "text" => Sh!ParsesRight(text)

(* malloc() and mkfs: the free list stays a circle in order, and every     *)
(* unit of the heap belongs to one block; the image is a file system in    *)
(* which every block has one owner and every file the bytes it was given.  *)
LayoutsSound ==
  /\ part = "heap" => Heap!HeapIntact
  /\ part = "image" => Image!ImageSound

=============================================================================
