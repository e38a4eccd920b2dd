--------------------------------- MODULE Vm ---------------------------------
(***************************************************************************)
(* kernel/vm.c: page tables of three levels, the memory of processes, and  *)
(* the copies between the kernel and a process.  A physical page is a      *)
(* table, a page of bytes, or free.  Operators take the memory m and give  *)
(* back a changed one: [frame, panic].  Entries of a table have the flags  *)
(* V, U and "leaf" (one of R, W, X).                                       *)
(***************************************************************************)
EXTENDS Integers, Sequences, SequencesExt, FiniteSets, FiniteSetsExt

CONSTANTS
  NFRAME,    \* pages that kalloc() has
  PGSIZE, NPTE,
  MAXPAGE,   \* pages below MAXVA
  WRAP,      \* addresses are computed modulo WRAP
  WORD,      \* sizeof(uint64)
  Step, Source, MaxLen   \* what is asked of growproc(), copyout() and the others

VmAssumption ==
  /\ {NFRAME, PGSIZE, NPTE, MAXPAGE, WRAP, WORD} \subseteq Nat \ {0} /\ MaxLen \in Nat
  /\ NFRAME < MAXPAGE /\ MAXPAGE <= NPTE ^ 3 /\ MAXPAGE * PGSIZE < WRAP
  /\ Step \subseteq Int

VARIABLES m, space, shadow

vars == <<m, space, shadow>>

Frame == 1 .. NFRAME
Space == 1 .. 2
Byte == {0, 1}
NoSpace == [root |-> 0, sz |-> 0]

NoPte == [v |-> FALSE, leaf |-> FALSE, u |-> FALSE, to |-> 0]
Free == [kind |-> "free"]
ZeroTable == [kind |-> "table", pte |-> [i \in 0 .. NPTE - 1 |-> NoPte]]
ZeroPage == [kind |-> "page", byte |-> [i \in 0 .. PGSIZE - 1 |-> 0]]

Roundup(n) == ((n + PGSIZE - 1) \div PGSIZE) * PGSIZE
Page(va) == va \div PGSIZE

FreeFrames(mem) == {f \in Frame : mem.frame[f].kind = "free"}
Kalloc(mem) == Min(FreeFrames(mem))
Set(mem, f, value) == [mem EXCEPT !.frame[f] = value]
SetPte(mem, t, i, pte) == [mem EXCEPT !.frame[t].pte[i] = pte]
Panics(mem) == [mem EXCEPT !.panic = TRUE]

-----------------------------------------------------------------------------
PX(level, n) == (n \div (NPTE ^ level)) % NPTE

(* walk(): the table that holds the entry of page n, or 0.                 *)
RECURSIVE Walk(_, _, _, _, _)
Walk(mem, t, n, level, alloc) ==
  LET i == PX(level, n)
      pte == mem.frame[t].pte[i]
      f == Kalloc(mem)
  IN IF level = 0 THEN [m |-> mem, t |-> t]
     ELSE IF pte.v THEN Walk(mem, pte.to, n, level - 1, alloc)
     ELSE IF ~alloc \/ FreeFrames(mem) = {} THEN [m |-> mem, t |-> 0]
     ELSE Walk(SetPte(Set(mem, f, ZeroTable), t, i, [NoPte EXCEPT !.v = TRUE, !.to = f]),
               f, n, level - 1, alloc)

PteOf(mem, root, n) ==
  LET t == Walk(mem, root, n, 2, FALSE).t
  IN IF t = 0 THEN NoPte ELSE mem.frame[t].pte[PX(0, n)]

(* Slip: the guard page and the tables are for everybody.               *)
ValidOnly(pte) == pte.v

Accessible(pte) == pte.v /\ pte.u

Walkaddr(mem, root, va) ==
  IF Page(va) >= MAXPAGE \/ ~Accessible(PteOf(mem, root, Page(va))) THEN 0
  ELSE PteOf(mem, root, Page(va)).to

(* mappages() for one page; uvmunmap() for page n and those up to end.     *)
Mappages(mem, root, n, pte) ==
  LET w == Walk(mem, root, n, 2, TRUE)
  IN IF w.t = 0 THEN [m |-> w.m, ok |-> FALSE]
     ELSE IF w.m.frame[w.t].pte[PX(0, n)].v THEN [m |-> Panics(w.m), ok |-> FALSE]
     ELSE [m |-> SetPte(w.m, w.t, PX(0, n), pte), ok |-> TRUE]

RECURSIVE Uvmunmap(_, _, _, _)
Uvmunmap(mem, root, n, end) ==
  LET t == Walk(mem, root, n, 2, FALSE).t
      pte == PteOf(mem, root, n)
  IN IF n >= end THEN mem
     ELSE IF ~(pte.v /\ pte.leaf) THEN Panics(mem)
     ELSE Uvmunmap(SetPte(Set(mem, pte.to, Free), t, PX(0, n), NoPte), root, n + 1, end)

(* Slip: the page in which the process ends is freed with the others.   *)
RoundsDown(n) == (n \div PGSIZE) * PGSIZE

KeepUpTo(n) == Roundup(n)

Uvmdealloc(mem, root, old, new) ==
  IF new < old /\ KeepUpTo(new) < Roundup(old)
  THEN Uvmunmap(mem, root, Page(KeepUpTo(new)), Page(Roundup(old))) ELSE mem

Leaf(f) == [v |-> TRUE, leaf |-> TRUE, u |-> TRUE, to |-> f]

(* The loop of uvmalloc() from page n on.                                  *)
RECURSIVE AllocFrom(_, _, _, _, _)
AllocFrom(mem, root, n, old, new) ==
  LET f == Kalloc(mem)
      r == Mappages(Set(mem, f, ZeroPage), root, n, Leaf(f))
      undo == Uvmdealloc(Set(r.m, f, Free), root, n * PGSIZE, old)
  IN IF n * PGSIZE >= new THEN [m |-> mem, ok |-> TRUE]
     ELSE IF FreeFrames(mem) = {}
          THEN [m |-> Uvmdealloc(mem, root, n * PGSIZE, old), ok |-> FALSE]
     ELSE IF ~r.ok THEN [m |-> undo, ok |-> FALSE]
     ELSE AllocFrom(r.m, root, n + 1, old, new)

Uvmalloc(mem, root, old, new) ==
  IF new < old THEN [m |-> mem, ok |-> TRUE]
  ELSE AllocFrom(mem, root, Page(Roundup(old)), Roundup(old), new)

RECURSIVE Freewalk(_, _), FreeEntries(_, _, _)
FreeEntries(mem, t, i) ==
  LET pte == mem.frame[t].pte[i]
  IN IF i = NPTE THEN mem
     ELSE IF ~pte.v THEN FreeEntries(mem, t, i + 1)
     ELSE IF pte.leaf THEN Panics(mem)
     ELSE FreeEntries(Freewalk(mem, pte.to), t, i + 1)
Freewalk(mem, t) == Set(FreeEntries(mem, t, 0), t, Free)

Uvmfree(mem, root, sz) == Freewalk(Uvmunmap(mem, root, 0, Page(Roundup(sz))), root)

CopiedPte(f, pte) == [pte EXCEPT !.to = f]

(* uvmcopy() from page n on.                                               *)
RECURSIVE CopyFrom(_, _, _, _, _)
CopyFrom(mem, old, new, n, end) ==
  LET pte == PteOf(mem, old, n)
      f == Kalloc(mem)
      r == Mappages(Set(mem, f, mem.frame[pte.to]), new, n, CopiedPte(f, pte))
  IN IF n >= end THEN [m |-> mem, ok |-> TRUE]
     ELSE IF ~pte.v THEN [m |-> Panics(mem), ok |-> FALSE]
     ELSE IF FreeFrames(mem) = {} THEN [m |-> Uvmunmap(mem, new, 0, n), ok |-> FALSE]
     ELSE IF ~r.ok THEN [m |-> Uvmunmap(Set(r.m, f, Free), new, 0, n), ok |-> FALSE]
     ELSE CopyFrom(r.m, old, new, n + 1, end)

-----------------------------------------------------------------------------
(* How much of the page at va a copy of len bytes takes.                   *)
InPage(va, len) == Min({PGSIZE - (va % PGSIZE), len})
NextPage(va) == (Page(va) * PGSIZE + PGSIZE) % WRAP

(* Slip: the second page is written from its end of the first one on.   *)
SameOffset(va) == (va + PGSIZE) % WRAP

Onward(va) == NextPage(va)

RECURSIVE Copyout(_, _, _, _)
Copyout(mem, root, va, src) ==
  LET f == Walkaddr(mem, root, va)
      n == InPage(va, Len(src))
      o == va % PGSIZE
  IN IF src = <<>> THEN [m |-> mem, ok |-> TRUE]
     ELSE IF f = 0 THEN [m |-> mem, ok |-> FALSE]
     ELSE Copyout([mem EXCEPT !.frame[f].byte =
                     [i \in 0 .. PGSIZE - 1 |-> IF i \in o .. o + n - 1 THEN src[i - o + 1] ELSE @[i]]],
                  root, Onward(va), SubSeq(src, n + 1, Len(src)))

Bytes(mem, f, o, n) == [k \in 1 .. n |-> mem.frame[f].byte[o + k - 1]]

RECURSIVE Copyin(_, _, _, _)
Copyin(mem, root, va, len) ==
  LET f == Walkaddr(mem, root, va)
      n == InPage(va, len)
      rest == Copyin(mem, root, NextPage(va), len - n)
  IN IF len = 0 THEN [ok |-> TRUE, dst |-> <<>>]
     ELSE IF f = 0 THEN [ok |-> FALSE, dst |-> <<>>]
     ELSE [rest EXCEPT !.dst = Bytes(mem, f, va % PGSIZE, n) \o @]

(* Slip: a string may go on into the next page without another look.    *)
StopsLate(bytes, max) == max = 1

StopsHere(bytes, max) == 0 \in ToSet(bytes)

RECURSIVE Copyinstr(_, _, _, _)
Copyinstr(mem, root, va, max) ==
  LET f == Walkaddr(mem, root, va)
      bytes == Bytes(mem, f, va % PGSIZE, InPage(va, max))
      rest == Copyinstr(mem, root, NextPage(va), max - Len(bytes))
  IN IF max = 0 \/ f = 0 THEN [ok |-> FALSE, dst |-> <<>>]
     ELSE IF StopsHere(bytes, max)
          THEN [ok |-> TRUE, dst |-> SubSeq(bytes, 1, Min({k \in DOMAIN bytes : bytes[k] = 0}))]
     ELSE [rest EXCEPT !.dst = bytes \o @]

(* Slip: the last byte of the word is not looked at.                    *)
OneTest(s, va) == va < space[s].sz

InSize(s, va) == va < space[s].sz /\ (va + WORD) % WRAP <= space[s].sz

Fetchaddr(s, va) ==
  IF InSize(s, va) THEN Copyin(m, space[s].root, va, WORD) ELSE [ok |-> FALSE, dst |-> <<>>]

-----------------------------------------------------------------------------
Address == 0 .. WRAP - 1
Hidden == [va \in Address |-> 2]
Used(s) == space[s].root # 0
Resized(s, n) == space' = [space EXCEPT ![s].sz = n]

(* growproc(); a size below 0 is a very large one, and changes nothing.    *)
Grow(s, n) ==
  LET sz == space[s].sz
      new == (sz + n) % WRAP
      r == Uvmalloc(m, space[s].root, sz, new)
  IN /\ Used(s) /\ n > 0
     /\ m' = r.m
     /\ IF r.ok
        THEN /\ Resized(s, new)
             /\ shadow' = [shadow EXCEPT ![s] = [va \in Address |->
                             IF va \in Roundup(sz) .. Roundup(new) - 1 THEN 0 ELSE @[va]]]
        ELSE UNCHANGED <<space, shadow>>

Shrink(s, n) ==
  LET sz == space[s].sz
      new == (sz + n) % WRAP
  IN /\ Used(s) /\ n < 0
     /\ m' = Uvmdealloc(m, space[s].root, sz, new)
     /\ Resized(s, IF new >= sz THEN sz ELSE new)
     /\ shadow' = [shadow EXCEPT ![s] = [va \in Address |->
                     IF new < sz /\ va >= Roundup(new) THEN 2 ELSE @[va]]]

(* exec() takes the page below the stack from the user, uvmclear().        *)
Guard(s) ==
  LET n == Page(space[s].sz) - 2
      t == Walk(m, space[s].root, n, 2, FALSE).t
  IN /\ Used(s) /\ space[s].sz % PGSIZE = 0 /\ n >= 0 /\ PteOf(m, space[s].root, n).u
     /\ m' = [m EXCEPT !.frame[t].pte[PX(0, n)].u = FALSE]
     /\ shadow' = [shadow EXCEPT ![s] = [va \in Address |-> IF Page(va) = n THEN 2 ELSE @[va]]]
     /\ UNCHANGED space

(* A system call writes to the user; it may stop on the way.               *)
Write(s, va, src) ==
  /\ Used(s)
  /\ m' = Copyout(m, space[s].root, va, src).m
  /\ shadow' = [shadow EXCEPT ![s] = [a \in Address |->
                  IF /\ a \in va .. va + Len(src) - 1
                     /\ \A b \in va .. a : @[b] # 2
                  THEN src[a - va + 1] ELSE @[a]]]
  /\ UNCHANGED space

(* fork() and exit() of the child.                                         *)
Fork ==
  /\ ~Used(2) /\ FreeFrames(m) # {}
  /\ LET root == Kalloc(m)
         r == CopyFrom(Set(m, root, ZeroTable), space[1].root, root, 0, Page(Roundup(space[1].sz)))
     IN IF r.ok
        THEN /\ m' = r.m /\ space' = [space EXCEPT ![2] = [root |-> root, sz |-> space[1].sz]]
             /\ shadow' = [shadow EXCEPT ![2] = shadow[1]]
        ELSE m' = Uvmfree(r.m, root, 0) /\ UNCHANGED <<space, shadow>>

Exit ==
  /\ Used(2)
  /\ m' = Uvmfree(m, space[2].root, space[2].sz)
  /\ space' = [space EXCEPT ![2] = NoSpace]
  /\ shadow' = [shadow EXCEPT ![2] = Hidden]

Init ==
  /\ m = [frame |-> [f \in Frame |-> IF f = 1 THEN ZeroTable ELSE Free], panic |-> FALSE]
  /\ space = [s \in Space |-> IF s = 1 THEN [NoSpace EXCEPT !.root = 1] ELSE NoSpace]
  /\ shadow = [s \in Space |-> Hidden]

Next ==
  \/ \E s \in Space :
       \/ \E n \in Step : Grow(s, n) \/ Shrink(s, n)
       \/ Guard(s)
       \/ \E w \in Source : Write(s, w.va, w.src)
  \/ Fork \/ Exit

Spec == Init /\ [][Next]_vars

-----------------------------------------------------------------------------
(* A process sees at each address what it, or its parent before fork(),    *)
(* has written there, 0 where it has grown, and nothing else: whatever the *)
(* tables look like, the other process has done, and kalloc() has refused. *)
Seen(s, va) ==
  LET f == Walkaddr(m, space[s].root, va) IN IF f = 0 THEN 2 ELSE m.frame[f].byte[va % PGSIZE]
SpacesRight ==
  /\ ~m.panic
  /\ \A s \in Space : Used(s) => \A va \in Address : Seen(s, va) = shadow[s][va]

(* Every page in use belongs to one entry of one table, or is a root.      *)
Entries == {<<t, i>> \in Frame \X (0 .. NPTE - 1) :
              m.frame[t].kind = "table" /\ m.frame[t].pte[i].v}
FramesOwned ==
  /\ \A f \in Frame \ FreeFrames(m) :
       Cardinality({e \in Entries : m.frame[e[1]].pte[e[2]].to = f})
         + Cardinality({s \in Space : space[s].root = f}) = 1
  /\ \A e \in Entries : m.frame[e[1]].pte[e[2]].to \notin FreeFrames(m)

(* copyin(), copyinstr() and fetchaddr() return the bytes from va on, if   *)
(* the process may see all of them (and they are inside of its size, and   *)
(* the string ends in time); else they fail.                               *)
ReadBytes(s, va, n) == [k \in 1 .. n |-> shadow[s][(va + k - 1) % WRAP]]
CopiesRight ==
  \A s \in Space : Used(s) => \A va \in Address, len \in 0 .. MaxLen :
    LET bytes == ReadBytes(s, va, len)
        root == space[s].root
        zeros == {k \in 1 .. len : bytes[k] = 0 /\ 2 \notin ToSet(SubSeq(bytes, 1, k))}
        in == Copyin(m, root, va, len)
        str == Copyinstr(m, root, va, len)
        word == Fetchaddr(s, va)
    IN /\ in.ok = (2 \notin ToSet(bytes)) /\ (in.ok => in.dst = bytes)
       /\ str.ok = (zeros # {}) /\ (str.ok => str.dst = SubSeq(bytes, 1, Min(zeros)))
       /\ word.ok = (va + WORD <= space[s].sz /\ 2 \notin ToSet(ReadBytes(s, va, WORD)))
       /\ word.ok => word.dst = ReadBytes(s, va, WORD)

MemoryRight == SpacesRight /\ FramesOwned /\ CopiesRight

=============================================================================
