------------------------------ MODULE Umalloc -------------------------------
(***************************************************************************)
(* user/umalloc.c: malloc() and free() of one program, which may also move *)
(* its break itself.  An address counts in units of a Header; 0 is base,   *)
(* which lies below the heap.  Requests are below 2 GB: morecore() passes  *)
(* the bytes to sbrk() as an int.                                          *)
(***************************************************************************)
EXTENDS Integers, FiniteSets, FiniteSetsExt

CONSTANTS
  HEADER,      \* bytes of a unit
  MINCORE,     \* the least that morecore() asks for, in units
  HeapEnd,     \* sbrk() fails behind this address
  Request,     \* the arguments of malloc()
  MaxCalls

UmallocAssumption ==
  /\ {HEADER, MINCORE, HeapEnd, MaxCalls} \subseteq Nat \ {0}
  /\ Request \subseteq Nat

Base == 0
Address == 0 .. HeapEnd

VARIABLES
  hdr,      \* Address -> the Header that is there: [ptr, size]
  freep,
  brk,      \* the first address behind the heap
  live,     \* headers of what malloc() returned and the program has not freed
  alien,    \* addresses that the program got from sbrk() itself
  calls

heap == <<hdr, freep>>
vars == <<heap, brk, live, alien, calls>>

NoHeader == [ptr |-> Base, size |-> 0]

(* The first malloc() makes the list of base alone.                        *)
Init ==
  /\ hdr = [a \in Address |-> NoHeader] /\ freep = Base /\ brk = 1
  /\ live = {} /\ alien = {} /\ calls = 0

-----------------------------------------------------------------------------
Units(nbytes) == ((nbytes + HEADER - 1) \div HEADER) + 1

(* Slip: the case of the ends of the list is forgotten: such a block is    *)
(* taken to belong behind base.                                         *)
BetweenOnly(hd, p, bp) == (bp > p /\ bp < hd[p].ptr) \/ p = Base

(* bp belongs behind p: between p and the next, or at an end of the list.  *)
Between(hd, p, bp) ==
  LET next == hd[p].ptr
  IN (bp > p /\ bp < next) \/ (p >= next /\ (bp > p \/ bp < next))

RECURSIVE Place(_, _, _)
Place(hd, p, bp) == IF Between(hd, p, bp) THEN p ELSE Place(hd, hd[p].ptr, bp)

(* free(): the block joins its neighbours, and freep is the one before.    *)
(* The header of a block that was joined is not read again; it is cleared. *)
Free(h, bp) ==
  LET hd == h.hdr
      p == Place(hd, h.freep, bp)
      next == hd[p].ptr
      upper == IF bp + hd[bp].size = next
               THEN [ptr |-> hd[next].ptr, size |-> hd[bp].size + hd[next].size]
               ELSE [ptr |-> next, size |-> hd[bp].size]
      lower == IF p + hd[p].size = bp
               THEN [ptr |-> upper.ptr, size |-> hd[p].size + upper.size]
               ELSE [ptr |-> bp, size |-> hd[p].size]
      joined == {a \in {next, bp} \ {Base} :
                   (a = next /\ bp + hd[bp].size = a) \/ (a = bp /\ p + hd[p].size = a)}
      done == [hd EXCEPT ![bp] = upper, ![p] = lower]
  IN [hdr |-> [a \in Address |-> IF a \in joined THEN NoHeader ELSE done[a]], freep |-> p]

(* Slip: the rest keeps the size of the whole.                          *)
LeftWhole(size, n) == size

Left(size, n) == size - n

(* malloc() takes n units of p: all of it, or its upper end.               *)
Take(hd, prevp, p, n) ==
  LET rest == Left(hd[p].size, n)
  IN IF hd[p].size = n
     THEN [hdr |-> [hd EXCEPT ![prevp].ptr = hd[p].ptr, ![p].ptr = Base], freep |-> prevp, block |-> p]
     ELSE [hdr |-> [hd EXCEPT ![p].size = rest,
                              ![p + hd[p].size - n] = [ptr |-> Base, size |-> n]],
           freep |-> prevp, block |-> p + hd[p].size - n]

(* The search from behind freep, once round; nothing fits: block is Base.  *)
RECURSIVE Search(_, _, _)
Search(h, prevp, n) ==
  LET p == h.hdr[prevp].ptr
  IN IF h.hdr[p].size >= n THEN Take(h.hdr, prevp, p, n)
     ELSE IF p = h.freep THEN [hdr |-> h.hdr, freep |-> h.freep, block |-> Base]
     ELSE Search(h, p, n)

(* morecore(): the new block is freed, and the search goes on behind freep.*)
More(n, a) ==
  Free([hdr |-> [hdr EXCEPT ![a] = [ptr |-> Base, size |-> n]], freep |-> freep], a)

-----------------------------------------------------------------------------
Set(h) == hdr' = h.hdr /\ freep' = h.freep

Counted == calls < MaxCalls /\ calls' = calls + 1

Malloc(nbytes) ==
  LET n == Units(nbytes)
      h == [hdr |-> hdr, freep |-> freep]
      nu == Max({n, MINCORE})
      found == Search(h, freep, n)
      more == More(nu, brk)
      found2 == Search(more, more.freep, n)
  IN /\ Counted /\ UNCHANGED alien
     /\ \/ /\ found.block # Base /\ Set(found) /\ live' = live \cup {found.block}
           /\ UNCHANGED brk
        \/ /\ found.block = Base /\ brk + nu <= HeapEnd
           /\ brk' = brk + nu /\ Set(found2) /\ live' = live \cup {found2.block}
        \/ /\ found.block = Base /\ brk + nu > HeapEnd /\ UNCHANGED <<heap, brk, live>>

FreeCall(bp) ==
  /\ Counted /\ live' = live \ {bp} /\ Set(Free([hdr |-> hdr, freep |-> freep], bp))
  /\ UNCHANGED <<brk, alien>>

(* The program takes a unit from sbrk().                                   *)
Sbrk ==
  /\ Counted /\ brk < HeapEnd /\ brk' = brk + 1 /\ alien' = alien \cup {brk}
  /\ UNCHANGED <<heap, live>>

Next == Sbrk \/ (\E n \in Request : Malloc(n)) \/ (\E bp \in live : FreeCall(bp))

Spec == Init /\ [][Next]_vars

-----------------------------------------------------------------------------
TypeOK == freep \in Address /\ brk \in 1 .. HeapEnd + 1 /\ \A a \in live : hdr[a].size >= 1

(* The blocks on the free list from a on, without base.                    *)
RECURSIVE Follow(_, _)
Follow(a, seen) ==
  IF a \in seen \/ a = Base THEN seen ELSE Follow(hdr[a].ptr, seen \cup {a})

Listed == Follow(hdr[Base].ptr, {})

Span(a) == a .. a + hdr[a].size - 1

(* The list is a circle in the order of addresses that holds freep; each   *)
(* unit got from sbrk() belongs to one block, in the list or in use; and   *)
(* two blocks of the list that meet have become one.                       *)
HeapIntact ==
  /\ TypeOK /\ freep \in Listed \cup {Base}
  /\ \A a \in Listed \cup {Base} :
       hdr[a].ptr = LET above == {b \in Listed : b > a} IN IF above = {} THEN Base ELSE Min(above)
  /\ \A a, b \in Listed \cup live : a # b => Span(a) \cap Span(b) = {}
  /\ UNION {Span(a) : a \in Listed \cup live} = (1 .. brk - 1) \ alien
  /\ \A a \in Listed : hdr[a].size > 0 /\ a + hdr[a].size \notin Listed

=============================================================================
