------------------------------- MODULE Memory -------------------------------
(***************************************************************************)
(* Who owns the physical pages: kalloc() and kfree() of kernel/kalloc.c,   *)
(* the page-table and user pages of kernel/vm.c, and their callers         *)
(* allocproc, freeproc, fork, growproc (kernel/proc.c) and exec            *)
(* (kernel/exec.c).  Every kalloc() is an action of its own and returns 0  *)
(* when no page is free, so processes run out of memory at every point.    *)
(*                                                                         *)
(* Each slot has two address spaces: "cur" is p->pagetable, "new" the one  *)
(* exec() builds.  mem is a sequence: page i is mapped at (i-1)*PGSIZE.    *)
(***************************************************************************)
EXTENDS Naturals, FiniteSets, SequencesExt

CONSTANTS
  NPages,      \* pages of physical memory that kinit() frees
  Proc,        \* slots of proc[]
  None,
  RootTables,  \* page-table pages that map the trampoline and the trapframe
  LeafTables,  \* further page-table pages that map the user pages
  MaxSize,     \* bound on the pages of an address space
  MaxUses      \* bound on how often a slot is allocated

MemoryAssumption ==
  /\ NPages \in Nat /\ None \notin 1 .. NPages /\ RootTables \in Nat \ {0} /\ LeafTables \in Nat
  /\ MaxSize \in Nat \ {0} /\ MaxUses \in Nat

Page == 1 .. NPages   \* in the order of their addresses

VARIABLES
  free,              \* kmem.freelist, its head first
  trapframe, backup, \* p->trapframe, p->backup: a page or None
  tbl, mem,          \* of an address space: its page tables, its user pages
  pend,              \* the user page of an uvmalloc or uvmcopy not mapped yet
  pc, op, goal, base,\* the operation a slot is in, and its sizes in pages
  uses

vars == <<free, trapframe, backup, tbl, mem, pend, pc, op, goal, base, uses>>

Spaces == Proc \X {"cur", "new"}
Sizes == 0 .. MaxSize

TypeOK ==
  /\ free \in Seq(Page)
  /\ trapframe \in [Proc -> Page \cup {None}]
  /\ backup \in [Proc -> Page \cup {None}]
  /\ tbl \in [Spaces -> Seq(Page)] /\ mem \in [Spaces -> Seq(Page)]
  /\ \A s \in Spaces : Len(mem[s]) <= MaxSize
  /\ pend \in [Proc -> Page \cup {None}]
  /\ pc \in [Proc -> {"UNUSED", "trapframe", "backup", "tables", "page", "map",
                      "live"}]
  /\ op \in [Proc -> {"none", "fork", "grow", "exec"}]
  /\ goal \in [Proc -> Sizes] /\ base \in [Proc -> Sizes]
  /\ uses \in [Proc -> 0 .. MaxUses]

Init ==
  /\ free = Reverse([g \in Page |-> g])   \* freerange() goes upwards
  /\ trapframe = [p \in Proc |-> None] /\ backup = [p \in Proc |-> None]
  /\ tbl = [s \in Spaces |-> <<>>] /\ mem = [s \in Spaces |-> <<>>]
  /\ pend = [p \in Proc |-> None]
  /\ pc = [p \in Proc |-> "UNUSED"] /\ op = [p \in Proc |-> "none"]
  /\ goal = [p \in Proc |-> 0] /\ base = [p \in Proc |-> 0]
  /\ uses = [p \in Proc |-> 0]

(* kfree() of the pages of the sequence s, one after the other.            *)
KFree(s) == free' = Reverse(s) \o free

(* kalloc() returns g.                                                     *)
KAlloc(g) == free # <<>> /\ g = Head(free) /\ free' = Tail(free)
NoPage == free = <<>>

PageSeq(x) == IF x = None THEN <<>> ELSE <<x>>

Goto(p, l) == pc' = [pc EXCEPT ![p] = l]
Target(p) == IF op[p] = "exec" THEN <<p, "new">> ELSE <<p, "cur">>
Cur(p) == <<p, "cur">>

(* uvmfree(): the user pages, then freewalk(), children first.             *)
Space(s) == mem[s] \o Reverse(tbl[s])

(* What freeproc() frees.  The callees of a fork that fails have freed     *)
(* before it the page tables (proc_pagetable), or the page that could not  *)
(* be mapped and those that were (uvmcopy).                                *)
ReleasedNoPend(p) == PageSeq(trapframe[p]) \o PageSeq(backup[p]) \o Space(Cur(p))
Released(p) ==
  LET own == PageSeq(trapframe[p]) \o PageSeq(backup[p]) IN
  IF pc[p] = "live" THEN own \o Space(Cur(p))
  ELSE IF pc[p] = "tables" THEN Space(Cur(p)) \o own
  ELSE PageSeq(pend[p]) \o mem[Cur(p)] \o own \o Reverse(tbl[Cur(p)])

Freeproc(p) ==
  /\ KFree(Released(p))
  /\ trapframe' = [trapframe EXCEPT ![p] = None]
  /\ tbl' = [tbl EXCEPT ![Cur(p)] = <<>>]
  /\ mem' = [mem EXCEPT ![Cur(p)] = <<>>]
  /\ pend' = [pend EXCEPT ![p] = None]
  /\ Goto(p, "UNUSED") /\ op' = [op EXCEPT ![p] = "none"]
  /\ goal' = [goal EXCEPT ![p] = 0] /\ base' = [base EXCEPT ![p] = 0]
  /\ UNCHANGED <<backup, uses>>

(***************************************************************************)
(* allocproc(), and fork() up to the copy of the parent's n pages.         *)
(***************************************************************************)
Start(p, n) ==
  /\ pc[p] = "UNUSED" /\ uses[p] < MaxUses
  /\ uses' = [uses EXCEPT ![p] = @ + 1]
  /\ op' = [op EXCEPT ![p] = "fork"] /\ goal' = [goal EXCEPT ![p] = n]
  /\ Goto(p, "trapframe")
  /\ UNCHANGED <<free, trapframe, backup, tbl, mem, pend, base>>

AllocTrapframe(p) ==
  /\ pc[p] = "trapframe"
  /\ \/ \E g \in Page :
          /\ KAlloc(g) /\ trapframe' = [trapframe EXCEPT ![p] = g]
          /\ Goto(p, "backup")
          /\ UNCHANGED <<backup, tbl, mem, pend, op, goal, base, uses>>
     \/ NoPage /\ Freeproc(p)

(* When kalloc fails, p->backup becomes 0 before freeproc.                 *)
AllocBackup(p) ==
  /\ pc[p] = "backup"
  /\ \/ \E g \in Page :
          /\ KAlloc(g) /\ backup' = [backup EXCEPT ![p] = g]
          /\ Goto(p, "tables")
          /\ UNCHANGED <<trapframe, tbl, mem, pend, op, goal, base, uses>>
     \/ /\ NoPage
        /\ KFree(<<trapframe[p]>>)
        /\ trapframe' = [trapframe EXCEPT ![p] = None]
        /\ backup' = [backup EXCEPT ![p] = None]
        /\ Goto(p, "UNUSED") /\ op' = [op EXCEPT ![p] = "none"]
        /\ goal' = [goal EXCEPT ![p] = 0]
        /\ UNCHANGED <<tbl, mem, pend, base, uses>>

(* exec()'s "bad" label: the new address space is freed.                   *)
ExecBad(p) ==
  /\ KFree(PageSeq(pend[p]) \o Space(<<p, "new">>))
  /\ tbl' = [tbl EXCEPT ![<<p, "new">>] = <<>>]
  /\ mem' = [mem EXCEPT ![<<p, "new">>] = <<>>]
  /\ pend' = [pend EXCEPT ![p] = None]
  /\ op' = [op EXCEPT ![p] = "none"] /\ goal' = [goal EXCEPT ![p] = 0]
  /\ Goto(p, "live")
  /\ UNCHANGED <<trapframe, backup, base, uses>>

(* proc_pagetable(): the root and the tables for the two top pages; when   *)
(* one is missing, uvmfree(pagetable, 0).                                  *)
AllocTable(p) ==
  /\ pc[p] = "tables"
  /\ \/ \E g \in Page :
          /\ KAlloc(g)
          /\ tbl' = [tbl EXCEPT ![Target(p)] = Append(@, g)]
          /\ Goto(p, IF Len(tbl[Target(p)]) + 1 = RootTables THEN "page" ELSE "tables")
          /\ UNCHANGED <<trapframe, backup, mem, pend, op, goal, base, uses>>
     \/ NoPage /\ op[p] = "fork" /\ Freeproc(p)
     \/ NoPage /\ op[p] = "exec" /\ ExecBad(p)

(***************************************************************************)
(* The loop of uvmcopy() and uvmalloc(): a page, then mappages().          *)
(***************************************************************************)

(* uvmdealloc(pagetable, a, oldsz) after a failure in growproc(): the      *)
(* pages above the old size are freed.                                     *)
GrowFails(p) ==
  /\ KFree(PageSeq(pend[p]) \o SubSeq(mem[Cur(p)], base[p] + 1, Len(mem[Cur(p)])))
  /\ mem' = [mem EXCEPT ![Cur(p)] = SubSeq(@, 1, base[p])]
  /\ pend' = [pend EXCEPT ![p] = None]
  /\ op' = [op EXCEPT ![p] = "none"] /\ Goto(p, "live")
  /\ goal' = [goal EXCEPT ![p] = 0] /\ base' = [base EXCEPT ![p] = 0]
  /\ UNCHANGED <<trapframe, backup, tbl, uses>>

OutOfMemory(p) ==
  /\ NoPage
  /\ \/ op[p] = "fork" /\ Freeproc(p)
     \/ op[p] = "grow" /\ GrowFails(p)
     \/ op[p] = "exec" /\ ExecBad(p)

AllocPage(p) ==
  /\ pc[p] = "page" /\ Len(mem[Target(p)]) < goal[p]
  /\ \/ \E g \in Page : /\ KAlloc(g) /\ pend' = [pend EXCEPT ![p] = g]
                        /\ Goto(p, "map")
                        /\ UNCHANGED <<trapframe, backup, tbl, mem, op, goal,
                                       base, uses>>
     \/ OutOfMemory(p)

(* mappages() -> walk(): page-table pages on demand, then the mapping.     *)
MapPage(p) ==
  LET t == Target(p) IN
  /\ pc[p] = "map"
  /\ \/ /\ Len(tbl[t]) = RootTables + LeafTables
        /\ mem' = [mem EXCEPT ![t] = Append(@, pend[p])]
        /\ pend' = [pend EXCEPT ![p] = None]
        /\ Goto(p, "page")
        /\ UNCHANGED <<free, trapframe, backup, tbl, op, goal, base, uses>>
     \/ /\ Len(tbl[t]) < RootTables + LeafTables
        /\ \/ \E g \in Page : /\ KAlloc(g)
                              /\ tbl' = [tbl EXCEPT ![t] = Append(@, g)]
                              /\ UNCHANGED <<trapframe, backup, mem, pend, pc,
                                             op, goal, base, uses>>
           \/ OutOfMemory(p)

(* The loop is over: fork and growproc return; exec commits to the new     *)
(* image and frees the old one.                                            *)
Finish(p) ==
  /\ pc[p] = "page" /\ Len(mem[Target(p)]) = goal[p]
  /\ IF op[p] = "exec"
     THEN /\ KFree(Space(Cur(p)))
          /\ tbl' = [tbl EXCEPT ![Cur(p)] = tbl[<<p, "new">>], ![<<p, "new">>] = <<>>]
          /\ mem' = [mem EXCEPT ![Cur(p)] = mem[<<p, "new">>], ![<<p, "new">>] = <<>>]
     ELSE UNCHANGED <<free, tbl, mem>>
  /\ op' = [op EXCEPT ![p] = "none"] /\ Goto(p, "live")
  /\ goal' = [goal EXCEPT ![p] = 0] /\ base' = [base EXCEPT ![p] = 0]
  /\ UNCHANGED <<trapframe, backup, pend, uses>>

(***************************************************************************)
(* What a live process does: growproc, exec, and being freed by wait.      *)
(***************************************************************************)
Grow(p, n) ==
  /\ pc[p] = "live" /\ n > Len(mem[Cur(p)])
  /\ op' = [op EXCEPT ![p] = "grow"] /\ goal' = [goal EXCEPT ![p] = n]
  /\ base' = [base EXCEPT ![p] = Len(mem[Cur(p)])]
  /\ Goto(p, "page")
  /\ UNCHANGED <<free, trapframe, backup, tbl, mem, pend, uses>>

(* uvmdealloc() with do_free.                                              *)
Shrink(p, n) ==
  /\ pc[p] = "live" /\ n < Len(mem[Cur(p)])
  /\ KFree(SubSeq(mem[Cur(p)], n + 1, Len(mem[Cur(p)])))
  /\ mem' = [mem EXCEPT ![Cur(p)] = SubSeq(@, 1, n)]
  /\ UNCHANGED <<trapframe, backup, tbl, pend, pc, op, goal, base, uses>>

Exec(p, n) ==
  /\ pc[p] = "live"
  /\ op' = [op EXCEPT ![p] = "exec"] /\ goal' = [goal EXCEPT ![p] = n]
  /\ Goto(p, "tables")
  /\ UNCHANGED <<free, trapframe, backup, tbl, mem, pend, base, uses>>

(* A bad program file: exec's goto bad between two uvmallocs.              *)
ExecError(p) ==
  /\ op[p] = "exec" /\ pc[p] = "page" /\ ExecBad(p)

Reap(p) == pc[p] = "live" /\ Freeproc(p)

Next ==
  \E p \in Proc :
    \/ \E n \in 1 .. MaxSize : Start(p, n) \/ Exec(p, n) \/ Grow(p, n)
    \/ \E n \in Sizes : Shrink(p, n)
    \/ AllocTrapframe(p) \/ AllocBackup(p) \/ AllocTable(p)
    \/ AllocPage(p) \/ MapPage(p) \/ Finish(p) \/ ExecError(p) \/ Reap(p)

Spec == Init /\ [][Next]_vars

(***************************************************************************)
(* Properties.                                                             *)
(***************************************************************************)

Occurs(s, g) == Cardinality({i \in 1 .. Len(s) : s[i] = g})

(* The references slot p holds to page g.  A free slot holds none: its     *)
(* p->backup, which freeproc does not clear, is a dangling pointer.        *)
Refs(p, g) ==
  Occurs(PageSeq(trapframe[p]) \o PageSeq(pend[p]) \o tbl[<<p, "cur">>]
         \o mem[<<p, "cur">>] \o tbl[<<p, "new">>] \o mem[<<p, "new">>], g)
  + IF pc[p] \notin {"UNUSED", "trapframe", "backup"} /\ backup[p] = g THEN 1 ELSE 0

(* Everything has its type; a page is on the free list once, or has        *)
(* exactly one owner: nothing is freed twice, freed while in use, handed   *)
(* out twice or leaked, whichever kalloc fails.                            *)
PagesConserved ==
  TypeOK /\ \A g \in Page :
    LET users == {p \in Proc : Refs(p, g) > 0} IN
    \/ Occurs(free, g) = 1 /\ users = {}
    \/ Occurs(free, g) = 0 /\ \E p \in Proc : users = {p} /\ Refs(p, g) = 1

=============================================================================
