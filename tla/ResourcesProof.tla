--------------------------- MODULE ResourcesProof ---------------------------
(***************************************************************************)
(* Proofs about Resources.  Pages: none is leaked, freed twice or shared,  *)
(* for any slots, pages and sizes, whichever kalloc() fails, unless it is  *)
(* that of a trapframe in a slot that still has the backup page of its     *)
(* former use.  Buffers: a block has one, bget() finds one while there is  *)
(* one neither in use nor pinned, and what a holder sees is what was       *)
(* stored last, for any buffers, blocks and users.                         *)
(***************************************************************************)
EXTENDS Resources, SequenceTheorems, FiniteSetTheorems, TLAPS

(***************************************************************************)
(* Pages: lists of them.                                                   *)
(***************************************************************************)
(* s has each page of S once, and no others.                               *)
Lists(s, S) ==
  /\ s \in Seq(Page)
  /\ \A i, j \in 1 .. Len(s) : s[i] = s[j] => i = j
  /\ \A i \in 1 .. Len(s) : s[i] \in S
  /\ \A g \in S : \E i \in 1 .. Len(s) : s[i] = g

LEMMA ListsRange == ASSUME NEW s, NEW S, Lists(s, S) PROVE S = Range(s) /\ S \subseteq Page
<1>1. DOMAIN s = 1 .. Len(s)
  BY DEF Lists
<1>2. Range(s) = {s[i] : i \in 1 .. Len(s)}
  BY <1>1 DEF Range
<1> QED
  BY <1>2 DEF Lists

LEMMA ListsNone == Lists(<<>>, {})
BY DEF Lists

LEMMA ListsOne == ASSUME NEW g \in Page PROVE Lists(<<g>>, {g})
<1>1. <<g>> \in Seq(Page) /\ Len(<<g>>) = 1 /\ <<g>>[1] = g
  OBVIOUS
<1> QED
  BY <1>1 DEF Lists

LEMMA ListsReverse ==
  ASSUME NEW s, NEW S, Lists(s, S)
  PROVE  Lists(Reverse(s), S) /\ Len(Reverse(s)) = Len(s)
<1> DEFINE n == Len(s)
<1>1. s \in Seq(Page) /\ n \in Nat /\ \A i \in 1 .. n : s[i] \in Page
  BY DEF Lists
<1>2. \A i \in 1 .. n : n - i + 1 \in 1 .. n /\ n - (n - i + 1) + 1 = i
  BY <1>1
<1>3. Reverse(s) = [i \in 1 .. n |-> s[n - i + 1]]
  BY DEF Reverse
<1>4. Reverse(s) \in Seq(Page) /\ Len(Reverse(s)) = n
  BY <1>1, <1>2, <1>3
<1>5. \A i, j \in 1 .. n : Reverse(s)[i] = Reverse(s)[j] => i = j
  BY <1>1, <1>2, <1>3 DEF Lists
<1>6. /\ \A i \in 1 .. n : Reverse(s)[i] \in S
      /\ \A g \in S : \E i \in 1 .. n : Reverse(s)[i] = g
  BY <1>1, <1>2, <1>3 DEF Lists
<1> QED
  BY <1>4, <1>5, <1>6 DEF Lists

LEMMA ListsConcat ==
  ASSUME NEW s, NEW S, Lists(s, S), NEW t, NEW T, Lists(t, T), S \cap T = {}
  PROVE  Lists(s \o t, S \cup T)
<1>1. /\ s \in Seq(Page) /\ t \in Seq(Page) /\ s \o t \in Seq(Page)
      /\ Len(s) \in Nat /\ Len(t) \in Nat /\ Len(s \o t) = Len(s) + Len(t)
  BY DEF Lists
<1>2. \A i \in 1 .. Len(s) : (s \o t)[i] = s[i]
  BY <1>1
<1>3. \A i \in 1 .. Len(s) + Len(t) : i > Len(s) => i - Len(s) \in 1 .. Len(t) /\ (s \o t)[i] = t[i - Len(s)]
  BY <1>1
<1>4. /\ \A i, j \in 1 .. Len(s) : s[i] = s[j] => i = j
      /\ \A i \in 1 .. Len(s) : s[i] \in S
      /\ \A g \in S : \E i \in 1 .. Len(s) : s[i] = g
      /\ \A i, j \in 1 .. Len(t) : t[i] = t[j] => i = j
      /\ \A i \in 1 .. Len(t) : t[i] \in T
      /\ \A g \in T : \E i \in 1 .. Len(t) : t[i] = g
  BY <1>1 DEF Lists
<1>5. ASSUME NEW i \in 1 .. Len(s) + Len(t), NEW j \in 1 .. Len(s) + Len(t), (s \o t)[i] = (s \o t)[j]
      PROVE  i = j
  <2>1. CASE i <= Len(s) /\ j <= Len(s)
    BY <1>1, <1>2, <1>4, <1>5, <2>1
  <2>2. CASE i > Len(s) /\ j > Len(s)
    <3>1. i - Len(s) = j - Len(s)
      BY <1>1, <1>3, <1>4, <1>5, <2>2
    <3> QED
      BY <1>1, <3>1
  <2>3. \A k, l \in 1 .. Len(s) + Len(t) : k <= Len(s) /\ l > Len(s) => (s \o t)[k] # (s \o t)[l]
    BY <1>1, <1>2, <1>3, <1>4
  <2> QED
    BY <1>1, <1>5, <2>1, <2>2, <2>3
<1>6. ASSUME NEW g PROVE g \in S \cup T <=> \E i \in 1 .. Len(s) + Len(t) : (s \o t)[i] = g
  <2>1. ASSUME g \in S PROVE \E i \in 1 .. Len(s) + Len(t) : (s \o t)[i] = g
    BY <1>1, <1>2, <1>4, <2>1
  <2>2. ASSUME g \in T PROVE \E i \in 1 .. Len(s) + Len(t) : (s \o t)[i] = g
    <3>1. PICK k \in 1 .. Len(t) : t[k] = g
      BY <1>4, <2>2
    <3>2. Len(s) + k \in 1 .. Len(s) + Len(t) /\ Len(s) + k > Len(s) /\ (Len(s) + k) - Len(s) = k
      BY <1>1
    <3> QED
      BY <1>3, <3>1, <3>2
  <2>3. ASSUME NEW i \in 1 .. Len(s) + Len(t), (s \o t)[i] = g PROVE g \in S \cup T
    BY <1>1, <1>2, <1>3, <1>4, <2>3
  <2> QED
    BY <2>1, <2>2, <2>3
<1> QED
  BY <1>1, <1>5, <1>6 DEF Lists

LEMMA ListsTail ==
  ASSUME NEW s, NEW S, Lists(s, S), s # <<>>
  PROVE  Head(s) \in S /\ Lists(Tail(s), S \ {Head(s)})
<1>1. /\ s \in Seq(Page) /\ Len(s) \in Nat \ {0} /\ Tail(s) \in Seq(Page) /\ Head(s) = s[1]
      /\ Len(Tail(s)) = Len(s) - 1 /\ \A i \in 1 .. Len(s) - 1 : Tail(s)[i] = s[i + 1]
  BY HeadTailProperties DEF Lists
<1>2. /\ \A i, j \in 1 .. Len(s) : s[i] = s[j] => i = j
      /\ \A i \in 1 .. Len(s) : s[i] \in S
      /\ \A g \in S : \E i \in 1 .. Len(s) : s[i] = g
  BY <1>1 DEF Lists
<1>3. ASSUME NEW i \in 1 .. Len(s) - 1, NEW j \in 1 .. Len(s) - 1, Tail(s)[i] = Tail(s)[j]
      PROVE  i = j
  <2>1. i + 1 \in 1 .. Len(s) /\ j + 1 \in 1 .. Len(s) /\ s[i + 1] = s[j + 1]
    BY <1>1, <1>3
  <2>2. i + 1 = j + 1
    BY <1>2, <2>1
  <2> QED
    BY <2>2
<1>4. ASSUME NEW g PROVE g \in S \ {Head(s)} <=> \E i \in 1 .. Len(s) - 1 : Tail(s)[i] = g
  <2>1. ASSUME g \in S \ {Head(s)} PROVE \E i \in 1 .. Len(s) - 1 : Tail(s)[i] = g
    <3>1. PICK k \in 1 .. Len(s) : s[k] = g /\ k # 1
      BY <1>1, <1>2, <2>1
    <3>2. k - 1 \in 1 .. Len(s) - 1 /\ (k - 1) + 1 = k
      BY <1>1, <3>1
    <3> QED
      BY <1>1, <3>1, <3>2
  <2>2. ASSUME NEW i \in 1 .. Len(s) - 1, Tail(s)[i] = g PROVE g \in S \ {Head(s)}
    <3>1. i + 1 \in 1 .. Len(s) /\ 1 \in 1 .. Len(s) /\ i + 1 # 1 /\ s[i + 1] = g
      BY <1>1, <2>2
    <3> QED
      BY <1>1, <1>2, <3>1
  <2> QED
    BY <2>1, <2>2
<1>5. Head(s) \in S
  BY <1>1, <1>2
<1> QED
  BY <1>1, <1>3, <1>4, <1>5 DEF Lists

LEMMA ListsAppend ==
  ASSUME NEW s, NEW S, Lists(s, S), NEW g \in Page, g \notin S
  PROVE  Lists(Append(s, g), S \cup {g}) /\ Len(Append(s, g)) = Len(s) + 1
<1>1. Append(s, g) = s \o <<g>> /\ Len(Append(s, g)) = Len(s) + 1
  BY DEF Lists
<1> QED
  <2>1. Lists(<<g>>, {g}) /\ S \cap {g} = {}
    BY ListsOne
  <2>2. Lists(s \o <<g>>, S \cup {g})
    BY <2>1, ListsConcat
  <2> QED
    BY <1>1, <2>2

(* The pages of a list up to the nth, and those after it.                  *)
LEMMA ListsSplit ==
  ASSUME NEW s, NEW S, Lists(s, S), NEW n \in 0 .. Len(s)
  PROVE  \E T, U : /\ Lists(SubSeq(s, 1, n), T) /\ Lists(SubSeq(s, n + 1, Len(s)), U)
                   /\ T \cup U = S /\ T \cap U = {} /\ Len(SubSeq(s, 1, n)) = n
<1> DEFINE a == SubSeq(s, 1, n)
           z == SubSeq(s, n + 1, Len(s))
<1>1. /\ s \in Seq(Page) /\ Len(s) \in Nat
      /\ \A i, j \in 1 .. Len(s) : s[i] = s[j] => i = j
      /\ \A i \in 1 .. Len(s) : s[i] \in S
      /\ \A g \in S : \E i \in 1 .. Len(s) : s[i] = g
  BY DEF Lists
<1>2. a \in Seq(Page) /\ Len(a) = n /\ \A i \in 1 .. n : a[i] = s[i]
  BY <1>1
<1>3. z \in Seq(Page) /\ Len(z) = Len(s) - n /\ \A i \in 1 .. Len(s) - n : z[i] = s[n + i]
  BY <1>1
<1> DEFINE A == {s[i] : i \in 1 .. n}
           Z == {s[i] : i \in n + 1 .. Len(s)}
<1>4. 1 .. n \subseteq 1 .. Len(s) /\ n + 1 .. Len(s) \subseteq 1 .. Len(s)
  BY <1>1
<1>5. Lists(a, A)
  BY <1>1, <1>2, <1>4 DEF Lists
<1>6. Lists(z, Z)
  <2>1. \A i \in 1 .. Len(z) : n + i \in n + 1 .. Len(s) /\ z[i] = s[n + i]
    BY <1>1, <1>3
  <2>2. \A i \in n + 1 .. Len(s) : i - n \in 1 .. Len(z) /\ z[i - n] = s[i]
    BY <1>1, <1>3
  <2>3. \A i, j \in 1 .. Len(z) : n + i = n + j => i = j
    BY <1>3
  <2>4. \A i, j \in 1 .. Len(z) : z[i] = z[j] => i = j
    BY <1>1, <1>4, <2>1, <2>3
  <2>5. \A g \in Z : \E i \in 1 .. Len(z) : z[i] = g
    BY <2>2
  <2> QED
    BY <1>3, <2>1, <2>4, <2>5 DEF Lists
<1>7. A \cup Z = S
  <2>1. \A i \in 1 .. Len(s) : i \in 1 .. n \/ i \in n + 1 .. Len(s)
    BY <1>1
  <2> QED
    BY <1>1, <1>4, <2>1
<1>8. A \cap Z = {}
  <2>1. \A i \in 1 .. n, j \in n + 1 .. Len(s) : i # j
    BY <1>1
  <2> QED
    BY <1>1, <1>4, <2>1
<1> QED
  BY <1>2, <1>5, <1>6, <1>7, <1>8

(* How often a page is in a list.                                          *)
LEMMA Occurrences ==
  ASSUME NEW s, NEW S, Lists(s, S), NEW g
  PROVE  Occurs(s, g) = IF g \in S THEN 1 ELSE 0
<1>1. /\ \A i, j \in 1 .. Len(s) : s[i] = s[j] => i = j
      /\ g \in S <=> \E i \in 1 .. Len(s) : s[i] = g
  BY DEF Lists
<1>2. CASE g \in S
  <2>1. PICK k \in 1 .. Len(s) : s[k] = g
    BY <1>1, <1>2
  <2>2. {i \in 1 .. Len(s) : s[i] = g} = {k}
    BY <1>1, <2>1
  <2> QED
    BY <1>2, <2>2, FS_Singleton DEF Occurs
<1>3. CASE g \notin S
  <2>1. {i \in 1 .. Len(s) : s[i] = g} = {}
    BY <1>1, <1>3
  <2> QED
    BY <1>3, <2>1, FS_EmptySet DEF Occurs
<1> QED
  BY <1>2, <1>3

(***************************************************************************)
(* The invariant.                                                          *)
(***************************************************************************)
(* The pages that a slot has, by their use.  p->backup counts from the     *)
(* moment at which it is allocated.                                        *)
BackedUp == {"tables", "page", "map", "live"}
Kind == {"trapframe", "backup", "pend", "tables", "pages", "new tables", "new pages"}

Part(p, k) ==
  CASE k = "trapframe" -> {trapframe[p]} \ {None}
    [] k = "backup" -> IF pc[p] \in BackedUp THEN {backup[p]} \ {None} ELSE {}
    [] k = "pend" -> {pend[p]} \ {None}
    [] k = "tables" -> Range(tbl[<<p, "cur">>])
    [] k = "pages" -> Range(mem[<<p, "cur">>])
    [] k = "new tables" -> Range(tbl[<<p, "new">>])
    [] k = "new pages" -> Range(mem[<<p, "new">>])

Owned(p) == UNION {Part(p, k) : k \in Kind}
FreePages == Range(free)

(* A page is free, or in one part of one slot.                             *)
OwnInv ==
  /\ \A p \in Proc : \A k, l \in Kind : k # l => Part(p, k) \cap Part(p, l) = {}
  /\ \A p, q \in Proc : p # q => Owned(p) \cap Owned(q) = {}
  /\ \A p \in Proc : Owned(p) \cap FreePages = {}
  /\ FreePages \cup UNION {Owned(p) : p \in Proc} = Page

(* No list has a page twice.                                               *)
ListInv ==
  /\ Lists(free, FreePages)
  /\ \A s \in Spaces : Lists(tbl[s], Range(tbl[s])) /\ Lists(mem[s], Range(mem[s]))

(* What a slot has at each point of what it does.                          *)
Control(p) ==
  /\ op[p] = "none" <=> pc[p] \in {"UNUSED", "live"}
  /\ pc[p] \in {"trapframe", "backup"} => op[p] = "fork"
  /\ trapframe[p] = None <=> pc[p] \in {"UNUSED", "trapframe"}
  /\ pc[p] \in BackedUp => backup[p] # None
  /\ pend[p] = None <=> pc[p] # "map"
  /\ pc[p] \notin BackedUp => tbl[Cur(p)] = <<>> /\ mem[Cur(p)] = <<>>
  /\ op[p] # "exec" => tbl[<<p, "new">>] = <<>> /\ mem[<<p, "new">>] = <<>>
  /\ pc[p] = "tables" =>
       op[p] \in {"fork", "exec"} /\ mem[Target(p)] = <<>> /\ Len(tbl[Target(p)]) < RootTables
  /\ pc[p] = "map" => Len(mem[Target(p)]) < goal[p]
  /\ op[p] = "grow" => base[p] <= Len(mem[Cur(p)])

ControlInv == \A p \in Proc : Control(p)

Inv == MemoryAssumption /\ TypeOK /\ ControlInv /\ ListInv /\ OwnInv

(* What the code needs: p->backup is not that of the slot's former process *)
(* when the allocation of a trapframe fails.                               *)
NoDanglingBackup == \A p \in Proc : pc[p] = "trapframe" /\ NoPage => backup[p] = None

(***************************************************************************)
(* How pages move.                                                         *)
(***************************************************************************)
(* Only the parts of one slot and the free list change in a step.          *)
Kept(q) ==
  /\ trapframe'[q] = trapframe[q] /\ backup'[q] = backup[q] /\ pend'[q] = pend[q]
  /\ pc'[q] = pc[q] /\ op'[q] = op[q] /\ goal'[q] = goal[q] /\ base'[q] = base[q]
  /\ tbl'[<<q, "cur">>] = tbl[<<q, "cur">>] /\ tbl'[<<q, "new">>] = tbl[<<q, "new">>]
  /\ mem'[<<q, "cur">>] = mem[<<q, "cur">>] /\ mem'[<<q, "new">>] = mem[<<q, "new">>]

LEMMA OthersKept ==
  ASSUME ControlInv, NEW q \in Proc, Kept(q)
  PROVE  Control(q)' /\ \A k \in Kind : Part(q, k)' = Part(q, k)
<1>1. Control(q)'
  BY DEF ControlInv, Control, Kept, Cur, Target
<1> QED
  BY <1>1 DEF Part, Kind, Kept

LEMMA Rearranged ==
  ASSUME OwnInv, NEW p \in Proc,
         \A q \in Proc \ {p}, k \in Kind : Part(q, k)' = Part(q, k),
         \A k, l \in Kind : k # l => Part(p, k)' \cap Part(p, l)' = {},
         Owned(p)' \cap FreePages' = {},
         Owned(p)' \cup FreePages' = Owned(p) \cup FreePages
  PROVE  OwnInv'
<1>1. \A q \in Proc \ {p} : Owned(q)' = Owned(q)
  BY DEF Owned
<1>2. \A q \in Proc \ {p} : Owned(q) \cap (Owned(p) \cup FreePages) = {}
  BY DEF OwnInv
<1>3. \A q, r \in Proc : q # r => Owned(q)' \cap Owned(r)' = {}
  BY <1>1, <1>2 DEF OwnInv
<1>4. \A q \in Proc : Owned(q)' \cap FreePages' = {}
  BY <1>1, <1>2
<1>5. FreePages' \cup UNION {Owned(q)' : q \in Proc} = Page
  <2>1. FreePages \cup UNION {Owned(q) : q \in Proc} = Page
    BY DEF OwnInv
  <2>2. \A g : g \in Page <=> g \in FreePages \/ \E q \in Proc : g \in Owned(q)
    BY <2>1
  <2>3. \A g : g \in FreePages' \/ (\E q \in Proc : g \in Owned(q)') <=> g \in Page
    BY <1>1, <2>2
  <2> QED
    BY <2>3
<1>6. \A q \in Proc : \A k, l \in Kind : k # l => Part(q, k)' \cap Part(q, l)' = {}
  BY DEF OwnInv
<1> QED
  BY <1>3, <1>4, <1>5, <1>6 DEF OwnInv

(* A part takes a page from the free list.                                 *)
LEMMA Takes ==
  ASSUME OwnInv, NEW p \in Proc, NEW j \in Kind, NEW g \in FreePages,
         \A q \in Proc \ {p}, k \in Kind : Part(q, k)' = Part(q, k),
         Part(p, j)' = Part(p, j) \cup {g},
         \A k \in Kind \ {j} : Part(p, k)' = Part(p, k),
         FreePages' = FreePages \ {g}
  PROVE  OwnInv'
<1>1. Owned(p)' = Owned(p) \cup {g}
  BY DEF Owned
<1>2. g \notin Owned(p) /\ Owned(p) \cap FreePages = {}
  BY DEF OwnInv
<1>3. \A k \in Kind : g \notin Part(p, k)
  BY <1>2 DEF Owned
<1>4. \A k, l \in Kind : k # l => Part(p, k)' \cap Part(p, l)' = {}
  BY <1>3 DEF OwnInv
<1> QED
  BY <1>1, <1>2, <1>4, Rearranged

(* A slot gives pages back.                                                *)
LEMMA Gives ==
  ASSUME OwnInv, NEW p \in Proc, NEW L, L \subseteq Owned(p),
         \A q \in Proc \ {p}, k \in Kind : Part(q, k)' = Part(q, k),
         \A k \in Kind : Part(p, k)' = Part(p, k) \ L,
         FreePages' = FreePages \cup L
  PROVE  OwnInv'
<1>1. Owned(p)' = Owned(p) \ L
  BY DEF Owned
<1>2. Owned(p) \cap FreePages = {}
  BY DEF OwnInv
<1>3. \A k, l \in Kind : k # l => Part(p, k)' \cap Part(p, l)' = {}
  BY DEF OwnInv
<1> QED
  BY <1>1, <1>2, <1>3, Rearranged

(* The free list after kalloc() and kfree().                               *)
LEMMA Allocates ==
  ASSUME ListInv, NEW g, KAlloc(g)
  PROVE  g \in FreePages /\ g \in Page /\ FreePages' = FreePages \ {g} /\ Lists(free', FreePages')
<1>1. Lists(free, FreePages) /\ free # <<>> /\ g = Head(free) /\ free' = Tail(free)
  BY DEF ListInv, KAlloc
<1>2. g \in FreePages /\ Lists(free', FreePages \ {g})
  BY <1>1, ListsTail
<1> QED
  BY <1>1, <1>2, ListsRange DEF FreePages

LEMMA Frees ==
  ASSUME ListInv, NEW s, NEW L, Lists(s, L), L \cap FreePages = {}, KFree(s)
  PROVE  FreePages' = FreePages \cup L /\ Lists(free', FreePages')
<1>1. Lists(Reverse(s), L) /\ Lists(free, FreePages)
  BY ListsReverse DEF ListInv
<1>2. Lists(Reverse(s) \o free, L \cup FreePages)
  BY <1>1, ListsConcat
<1>3. Lists(free', FreePages \cup L) /\ FreePages \cup L = L \cup FreePages
  BY <1>2 DEF KFree
<1> QED
  BY <1>3, ListsRange DEF FreePages

LEMMA ListsPage ==
  ASSUME NEW x \in Page \cup {None}, None \notin Page
  PROVE  Lists(PageSeq(x), {x} \ {None})
BY ListsNone, ListsOne DEF PageSeq

LEMMA RangeNone == Range(<<>>) = {}
BY DEF Range

(* The pages of an address space, and all of a slot.                       *)
LEMMA ListsSpace ==
  ASSUME Inv, NEW p \in Proc
  PROVE  /\ Lists(Space(Cur(p)), Part(p, "pages") \cup Part(p, "tables"))
         /\ Lists(Space(<<p, "new">>), Part(p, "new pages") \cup Part(p, "new tables"))
<1>1. /\ Lists(mem[Cur(p)], Part(p, "pages")) /\ Lists(tbl[Cur(p)], Part(p, "tables"))
      /\ Lists(mem[<<p, "new">>], Part(p, "new pages")) /\ Lists(tbl[<<p, "new">>], Part(p, "new tables"))
  BY DEF Inv, ListInv, Part, Cur, Spaces
<1>2. /\ Part(p, "pages") \cap Part(p, "tables") = {}
      /\ Part(p, "new pages") \cap Part(p, "new tables") = {}
  BY DEF Inv, OwnInv, Kind
<1> QED
  BY <1>1, <1>2, ListsReverse, ListsConcat DEF Space

LEMMA OwnedParts ==
  ASSUME NEW p
  PROVE  Owned(p) = Part(p, "trapframe") \cup Part(p, "backup") \cup Part(p, "pend")
                      \cup Part(p, "tables") \cup Part(p, "pages")
                      \cup Part(p, "new tables") \cup Part(p, "new pages")
BY DEF Owned, Kind

LEMMA NewEmpty ==
  ASSUME Inv, NEW p \in Proc, op[p] # "exec"
  PROVE  Part(p, "new tables") = {} /\ Part(p, "new pages") = {}
BY RangeNone DEF Inv, ControlInv, Control, Part

(* What freeproc() frees is what the slot has.                             *)
LEMMA ReleasedAll ==
  ASSUME Inv, NoDanglingBackup, NEW p \in Proc, op[p] # "exec",
         (pc[p] = "trapframe" /\ NoPage) \/ pc[p] \in BackedUp
  PROVE  Lists(Released(p), Owned(p))
<1> DEFINE T == Part(p, "trapframe")
           B == Part(p, "backup")
           D == Part(p, "pend")
           M == Part(p, "pages")
           R == Part(p, "tables")
<1>1. None \notin Page /\ TypeOK
  BY DEF Inv, MemoryAssumption, Page
<1>2. {backup[p]} \ {None} = B
  BY DEF NoDanglingBackup, Part
<1>3. /\ Lists(PageSeq(trapframe[p]), T) /\ Lists(PageSeq(backup[p]), B) /\ Lists(PageSeq(pend[p]), D)
  BY <1>1, <1>2, ListsPage DEF TypeOK, Part
<1>4. /\ Lists(Space(Cur(p)), M \cup R) /\ Lists(mem[Cur(p)], M) /\ Lists(Reverse(tbl[Cur(p)]), R)
  BY ListsSpace, ListsReverse DEF Inv, ListInv, Part, Cur, Spaces
<1>5. /\ T \cap B = {} /\ T \cap D = {} /\ T \cap M = {} /\ T \cap R = {} /\ B \cap D = {}
      /\ B \cap M = {} /\ B \cap R = {} /\ D \cap M = {} /\ D \cap R = {} /\ M \cap R = {}
  BY DEF Inv, OwnInv, Kind
<1>6. Owned(p) = T \cup B \cup D \cup R \cup M
  BY OwnedParts, NewEmpty
<1> HIDE DEF T, B, D, M, R
<1>7. Lists(PageSeq(trapframe[p]) \o PageSeq(backup[p]), T \cup B)
  BY <1>3, <1>5, ListsConcat
<1>8. CASE pc[p] \in {"live", "tables"}
  <2>1. D = {}
    BY <1>8 DEF Inv, ControlInv, Control, Part, D
  <2>2. (T \cup B) \cap (M \cup R) = {}
    BY <1>5
  <2>3. CASE pc[p] = "live"
    <3>1. Lists((PageSeq(trapframe[p]) \o PageSeq(backup[p])) \o Space(Cur(p)), (T \cup B) \cup (M \cup R))
      BY <1>4, <1>7, <2>2, ListsConcat
    <3>2. (T \cup B) \cup (M \cup R) = Owned(p)
      BY <1>6, <2>1
    <3> QED
      BY <2>3, <3>1, <3>2 DEF Released
  <2>4. CASE pc[p] = "tables"
    <3>1. Lists(Space(Cur(p)) \o (PageSeq(trapframe[p]) \o PageSeq(backup[p])), (M \cup R) \cup (T \cup B))
      BY <1>4, <1>7, <2>2, ListsConcat
    <3>2. (M \cup R) \cup (T \cup B) = Owned(p)
      BY <1>6, <2>1
    <3> QED
      BY <2>4, <3>1, <3>2 DEF Released
  <2> QED
    BY <1>8, <2>3, <2>4
<1>9. CASE pc[p] \notin {"live", "tables"}
  <2>1. Lists(PageSeq(pend[p]) \o mem[Cur(p)], D \cup M)
    BY <1>3, <1>4, <1>5, ListsConcat
  <2>2. (D \cup M) \cap (T \cup B) = {}
    BY <1>5
  <2>3. Lists((PageSeq(pend[p]) \o mem[Cur(p)]) \o (PageSeq(trapframe[p]) \o PageSeq(backup[p])),
              (D \cup M) \cup (T \cup B))
    BY <1>7, <2>1, <2>2, ListsConcat
  <2>4. ((D \cup M) \cup (T \cup B)) \cap R = {}
    BY <1>5
  <2>5. Lists(((PageSeq(pend[p]) \o mem[Cur(p)]) \o (PageSeq(trapframe[p]) \o PageSeq(backup[p])))
                \o Reverse(tbl[Cur(p)]), ((D \cup M) \cup (T \cup B)) \cup R)
    BY <1>4, <2>3, <2>4, ListsConcat
  <2>6. ((D \cup M) \cup (T \cup B)) \cup R = Owned(p)
    BY <1>6
  <2> QED
    BY <1>9, <2>5, <2>6 DEF Released
<1> QED
  BY <1>8, <1>9

(***************************************************************************)
(* A slot gives up all it has: freeproc(), and allocproc() without it.     *)
(***************************************************************************)
LEMMA GivesUp ==
  ASSUME Inv, NEW p \in Proc, op[p] # "exec", NEW s, Lists(s, Owned(p)), KFree(s),
         trapframe' = [trapframe EXCEPT ![p] = None],
         backup' \in [Proc -> Page \cup {None}],
         \A q \in Proc \ {p} : backup'[q] = backup[q],
         tbl' = [tbl EXCEPT ![Cur(p)] = <<>>], mem' = [mem EXCEPT ![Cur(p)] = <<>>],
         pend' = [pend EXCEPT ![p] = None], pc' = [pc EXCEPT ![p] = "UNUSED"],
         op' = [op EXCEPT ![p] = "none"], goal' = [goal EXCEPT ![p] = 0],
         base' \in [Proc -> Sizes], \A q \in Proc \ {p} : base'[q] = base[q], uses' = uses
  PROVE  Inv'
<1>1. TypeOK /\ ControlInv /\ ListInv /\ OwnInv /\ MemoryAssumption
  BY DEF Inv
<1>2. /\ trapframe'[p] = None /\ pend'[p] = None /\ pc'[p] = "UNUSED" /\ op'[p] = "none"
      /\ tbl'[<<p, "cur">>] = <<>> /\ tbl'[<<p, "new">>] = <<>>
      /\ mem'[<<p, "cur">>] = <<>> /\ mem'[<<p, "new">>] = <<>>
  BY <1>1 DEF TypeOK, ControlInv, Control, Spaces, Cur
<1>3. \A q \in Proc \ {p} : Kept(q)
  BY <1>1 DEF TypeOK, Spaces, Cur, Kept
<1>4. \A q \in Proc \ {p} : Control(q)' /\ \A k \in Kind : Part(q, k)' = Part(q, k)
  BY <1>1, <1>3, OthersKept
<1>5. \A k \in Kind : Part(p, k)' = {}
  BY <1>2, RangeNone DEF Part, Kind, BackedUp
<1>6. FreePages' = FreePages \cup Owned(p) /\ Lists(free', FreePages')
  BY <1>1, Frees DEF OwnInv
<1>7. OwnInv'
  <2>1. \A k \in Kind : Part(p, k)' = Part(p, k) \ Owned(p)
    BY <1>5 DEF Owned
  <2> QED
    BY <1>1, <1>4, <1>6, <2>1, Gives
<1>8. ListInv'
  <2>1. \A x \in Spaces : /\ tbl'[x] = tbl[x] \/ tbl'[x] = <<>>
                          /\ mem'[x] = mem[x] \/ mem'[x] = <<>>
    BY <1>1 DEF TypeOK
  <2> QED
    BY <1>1, <1>6, <2>1, ListsNone, RangeNone DEF ListInv
<1>9. ControlInv'
  <2>1. Control(p)'
    BY <1>2 DEF Control, Cur, BackedUp
  <2> QED
    BY <1>4, <2>1 DEF ControlInv
<1>10. TypeOK'
  <2>1. free' \in Seq(Page)
    BY <1>6 DEF Lists
  <2>2. <<>> \in Seq(Page) /\ Len(<<>>) = 0 /\ 0 \in Sizes
    BY <1>1 DEF MemoryAssumption, Sizes
  <2>3. \A x \in Spaces : mem'[x] = mem[x] \/ mem'[x] = <<>>
    BY <1>1 DEF TypeOK
  <2>4. \A x \in Spaces : Len(mem'[x]) <= MaxSize
    BY <1>1, <2>2, <2>3 DEF TypeOK, MemoryAssumption
  <2> QED
    BY <1>1, <2>1, <2>2, <2>4 DEF TypeOK
<1> QED
  BY <1>1, <1>7, <1>8, <1>9, <1>10 DEF Inv, MemoryAssumption

LEMMA FreeprocInv ==
  ASSUME Inv, NoDanglingBackup, NEW p \in Proc, op[p] # "exec",
         (pc[p] = "trapframe" /\ NoPage) \/ pc[p] \in BackedUp, Freeproc(p)
  PROVE  Inv'
<1>1. Lists(Released(p), Owned(p))
  BY ReleasedAll
<1>2. 0 \in Sizes /\ TypeOK
  BY DEF Inv, MemoryAssumption, Sizes
<1>3. backup' \in [Proc -> Page \cup {None}] /\ \A q \in Proc \ {p} : backup'[q] = backup[q]
  BY <1>2 DEF Freeproc, TypeOK
<1>4. base' \in [Proc -> Sizes] /\ \A q \in Proc \ {p} : base'[q] = base[q]
  BY <1>2 DEF Freeproc, TypeOK
<1> QED
  BY <1>1, <1>3, <1>4, GivesUp DEF Freeproc, Goto

(* exec() gives up the image that it was building.                         *)
LEMMA ExecBadInv ==
  ASSUME Inv, NEW p \in Proc, op[p] = "exec", ExecBad(p)
  PROVE  Inv'
<1> DEFINE L == Part(p, "pend") \cup (Part(p, "new pages") \cup Part(p, "new tables"))
           y == <<p, "new">>
<1>1. TypeOK /\ ControlInv /\ Control(p) /\ ListInv /\ OwnInv /\ MemoryAssumption
  BY DEF Inv, ControlInv
<1>2. Lists(PageSeq(pend[p]) \o Space(y), L)
  <2>1. None \notin Page
    BY <1>1 DEF MemoryAssumption, Page
  <2>2. Lists(PageSeq(pend[p]), Part(p, "pend"))
    BY <1>1, <2>1, ListsPage DEF TypeOK, Part
  <2>3. Part(p, "pend") \cap (Part(p, "new pages") \cup Part(p, "new tables")) = {}
    BY <1>1 DEF OwnInv, Kind
  <2> QED
    BY <2>2, <2>3, ListsSpace, ListsConcat
<1>3. L \subseteq Owned(p) /\ L \cap FreePages = {}
  <2>1. L \subseteq Owned(p)
    BY OwnedParts
  <2> QED
    BY <1>1, <2>1 DEF OwnInv
<1>4. FreePages' = FreePages \cup L /\ Lists(free', FreePages')
  BY <1>1, <1>2, <1>3, Frees DEF ExecBad
<1>5. pc[p] \in BackedUp
  BY <1>1 DEF Control, BackedUp, TypeOK
<1>6. /\ trapframe'[p] = trapframe[p] /\ backup'[p] = backup[p] /\ pend'[p] = None
      /\ pc'[p] = "live" /\ op'[p] = "none" /\ tbl'[y] = <<>> /\ mem'[y] = <<>>
      /\ tbl'[<<p, "cur">>] = tbl[<<p, "cur">>] /\ mem'[<<p, "cur">>] = mem[<<p, "cur">>]
  BY <1>1 DEF ExecBad, Goto, TypeOK, Spaces
<1>7. \A q \in Proc \ {p} : Kept(q)
  BY <1>1 DEF ExecBad, Goto, TypeOK, Spaces, Kept
<1>8. \A q \in Proc \ {p} : Control(q)' /\ \A k \in Kind : Part(q, k)' = Part(q, k)
  BY <1>1, <1>7, OthersKept
<1>9. OwnInv'
  <2>1. \A k \in {"pend", "new pages", "new tables"} : Part(p, k)' = {} /\ Part(p, k) \subseteq L
    BY <1>6, RangeNone DEF Part
  <2>2. \A k \in {"trapframe", "backup", "tables", "pages"} : Part(p, k)' = Part(p, k) /\ Part(p, k) \cap L = {}
    <3>1. \A k \in {"trapframe", "backup", "tables", "pages"} : Part(p, k)' = Part(p, k)
      BY <1>5, <1>6 DEF Part, BackedUp
    <3>2. \A k \in {"trapframe", "backup", "tables", "pages"} : Part(p, k) \cap L = {}
      BY <1>1 DEF OwnInv, Kind
    <3> QED
      BY <3>1, <3>2
  <2> HIDE DEF L
  <2>3. \A k \in Kind : Part(p, k)' = Part(p, k) \ L
    BY <2>1, <2>2 DEF Kind
  <2> QED
    BY <1>1, <1>3, <1>4, <1>8, <2>3, Gives
<1>10. ListInv'
  <2>1. \A x \in Spaces : /\ tbl'[x] = tbl[x] \/ tbl'[x] = <<>>
                          /\ mem'[x] = mem[x] \/ mem'[x] = <<>>
    BY <1>1 DEF TypeOK, ExecBad
  <2> QED
    BY <1>1, <1>4, <2>1, ListsNone, RangeNone DEF ListInv
<1>11. ControlInv'
  <2>1. Control(p)'
    BY <1>1, <1>5, <1>6 DEF Control, Cur, BackedUp
  <2> QED
    BY <1>8, <2>1 DEF ControlInv
<1>12. TypeOK'
  <2>1. free' \in Seq(Page)
    BY <1>4 DEF Lists
  <2>2. <<>> \in Seq(Page) /\ Len(<<>>) = 0 /\ 0 \in Sizes
    BY <1>1 DEF MemoryAssumption, Sizes
  <2>3. \A x \in Spaces : mem'[x] = mem[x] \/ mem'[x] = <<>>
    BY <1>1 DEF TypeOK, ExecBad
  <2>4. \A x \in Spaces : Len(mem'[x]) <= MaxSize
    BY <1>1, <2>2, <2>3 DEF TypeOK, MemoryAssumption
  <2> QED
    BY <1>1, <2>1, <2>2, <2>4 DEF TypeOK, ExecBad, Goto
<1> QED
  BY <1>1, <1>9, <1>10, <1>11, <1>12 DEF Inv, MemoryAssumption

(***************************************************************************)
(* The pages above the nth are freed, and the one that was not mapped yet: *)
(* uvmdealloc() in growproc(), at its end or after a failure.              *)
(***************************************************************************)
LEMMA ShrinksTo ==
  ASSUME Inv, NEW p \in Proc, op[p] # "exec", pc[p] \in BackedUp,
         NEW n \in 0 .. Len(mem[Cur(p)]),
         KFree(PageSeq(pend[p]) \o SubSeq(mem[Cur(p)], n + 1, Len(mem[Cur(p)]))),
         mem' = [mem EXCEPT ![Cur(p)] = SubSeq(@, 1, n)], pend' = [pend EXCEPT ![p] = None],
         op' = [op EXCEPT ![p] = "none"], pc' = [pc EXCEPT ![p] = "live"],
         goal' \in [Proc -> Sizes], \A q \in Proc \ {p} : goal'[q] = goal[q],
         base' \in [Proc -> Sizes], \A q \in Proc \ {p} : base'[q] = base[q],
         UNCHANGED <<trapframe, backup, tbl, uses>>
  PROVE  Inv'
<1> DEFINE m == mem[Cur(p)]
           D == Part(p, "pend")
<1>1. TypeOK /\ ControlInv /\ Control(p) /\ ListInv /\ OwnInv /\ MemoryAssumption /\ Cur(p) \in Spaces
  BY DEF Inv, ControlInv, Spaces, Cur
<1>2. Lists(m, Part(p, "pages"))
  BY <1>1 DEF ListInv, Part, Cur
<1>3. PICK T, U : /\ Lists(SubSeq(m, 1, n), T) /\ Lists(SubSeq(m, n + 1, Len(m)), U)
                  /\ T \cup U = Part(p, "pages") /\ T \cap U = {} /\ Len(SubSeq(m, 1, n)) = n
  BY <1>2, ListsSplit
<1>4. Lists(PageSeq(pend[p]) \o SubSeq(m, n + 1, Len(m)), D \cup U)
  <2>1. None \notin Page
    BY <1>1 DEF MemoryAssumption, Page
  <2>2. Lists(PageSeq(pend[p]), D)
    BY <1>1, <2>1, ListsPage DEF TypeOK, Part
  <2>3. D \cap U = {}
    BY <1>1, <1>3 DEF OwnInv, Kind
  <2> QED
    BY <1>3, <2>2, <2>3, ListsConcat
<1>5. D \cup U \subseteq Owned(p) /\ (D \cup U) \cap FreePages = {}
  <2>1. D \cup U \subseteq Owned(p)
    BY <1>3, OwnedParts
  <2> QED
    BY <1>1, <2>1 DEF OwnInv
<1>6. FreePages' = FreePages \cup (D \cup U) /\ Lists(free', FreePages')
  BY <1>1, <1>4, <1>5, Frees
<1>7. /\ trapframe'[p] = trapframe[p] /\ backup'[p] = backup[p] /\ pend'[p] = None
      /\ pc'[p] = "live" /\ op'[p] = "none" /\ tbl' = tbl
      /\ mem'[<<p, "cur">>] = SubSeq(m, 1, n) /\ mem'[<<p, "new">>] = mem[<<p, "new">>]
  BY <1>1 DEF TypeOK, Spaces, Cur
<1>8. \A q \in Proc \ {p} : Kept(q)
  BY <1>1 DEF TypeOK, Spaces, Kept, Cur
<1>9. \A q \in Proc \ {p} : Control(q)' /\ \A k \in Kind : Part(q, k)' = Part(q, k)
  BY <1>1, <1>8, OthersKept
<1>10. OwnInv'
  <2>1. Part(p, "pend")' = {}
    BY <1>7 DEF Part
  <2>2. Part(p, "pages")' = T
    BY ZenonT(60), <1>3, <1>7, ListsRange DEF Part
  <2>3. \A k \in {"trapframe", "backup", "tables", "new tables", "new pages"} : Part(p, k)' = Part(p, k)
    <3>1. pc'[p] \in BackedUp
      BY <1>7 DEF BackedUp
    <3>2. Part(p, "backup")' = Part(p, "backup")
      BY <1>7, <3>1 DEF Part
    <3>3. Part(p, "trapframe")' = Part(p, "trapframe") /\ Part(p, "tables")' = Part(p, "tables")
      BY <1>7 DEF Part
    <3>4. Part(p, "new tables")' = Part(p, "new tables") /\ Part(p, "new pages")' = Part(p, "new pages")
      BY <1>7 DEF Part
    <3> QED
      BY <3>2, <3>3, <3>4
  <2>4. \A k \in {"trapframe", "backup", "tables", "new tables", "new pages"} :
          Part(p, k) \cap D = {} /\ Part(p, k) \cap Part(p, "pages") = {}
    BY <1>1 DEF OwnInv, Kind
  <2>5. D \cap Part(p, "pages") = {}
    BY <1>1 DEF OwnInv, Kind
  <2>6. \A k \in Kind : Part(p, k)' = Part(p, k) \ (D \cup U)
    BY <1>3, <2>1, <2>2, <2>3, <2>4, <2>5 DEF Kind
  <2> QED
    BY <1>1, <1>5, <1>6, <1>9, <2>6, Gives
<1>11. ListInv'
  <2>1. \A x \in Spaces : mem'[x] = mem[x] \/ mem'[x] = SubSeq(m, 1, n)
    BY <1>1 DEF TypeOK
  <2> QED
    BY <1>1, <1>3, <1>6, <1>7, <2>1, ListsRange DEF ListInv
<1>12. ControlInv'
  <2>1. Control(p)'
    BY <1>1, <1>7 DEF Control, Cur, BackedUp
  <2> QED
    BY <1>9, <2>1 DEF ControlInv
<1>13. TypeOK'
  <2>1. free' \in Seq(Page) /\ SubSeq(m, 1, n) \in Seq(Page)
    BY <1>3, <1>6 DEF Lists
  <2>2. n <= MaxSize
    BY <1>1, <1>2 DEF TypeOK, MemoryAssumption, Lists
  <2>3. \A x \in Spaces : mem'[x] = mem[x] \/ mem'[x] = SubSeq(m, 1, n)
    BY <1>1 DEF TypeOK
  <2>4. \A x \in Spaces : Len(mem'[x]) <= MaxSize
    BY <1>1, <1>3, <2>2, <2>3 DEF TypeOK
  <2> QED
    BY <1>1, <2>1, <2>4 DEF TypeOK
<1> QED
  BY <1>1, <1>10, <1>11, <1>12, <1>13 DEF Inv, MemoryAssumption

(***************************************************************************)
(* A slot takes a page from the free list, or moves none.                  *)
(***************************************************************************)
LEMMA TakesInv ==
  ASSUME Inv, NEW p \in Proc, NEW g \in Page, KAlloc(g), NEW j \in Kind,
         \A q \in Proc \ {p} : Kept(q),
         Part(p, j)' = Part(p, j) \cup {g},
         \A k \in Kind \ {j} : Part(p, k)' = Part(p, k),
         \A x \in Spaces : tbl'[x] = tbl[x] \/ tbl'[x] = Append(tbl[x], g), mem' = mem,
         free' \in Seq(Page) => TypeOK', Control(p)'
  PROVE  Inv'
<1>1. ControlInv /\ ListInv /\ OwnInv /\ MemoryAssumption
  BY DEF Inv
<1>2. g \in FreePages /\ FreePages' = FreePages \ {g} /\ Lists(free', FreePages')
  BY <1>1, Allocates
<1>3. \A q \in Proc \ {p} : Control(q)' /\ \A k \in Kind : Part(q, k)' = Part(q, k)
  BY <1>1, OthersKept
<1>4. OwnInv'
  BY <1>1, <1>2, <1>3, Takes
<1>5. ControlInv'
  BY <1>3 DEF ControlInv
<1>6. ListInv'
  <2>1. ASSUME NEW x \in Spaces PROVE Lists(tbl'[x], Range(tbl'[x]))
    <3>1. Lists(tbl[x], Range(tbl[x]))
      BY <1>1 DEF ListInv
    <3>2. CASE tbl'[x] = tbl[x]
      BY <3>1, <3>2
    <3>3. CASE tbl'[x] = Append(tbl[x], g)
      <4>1. PICK q \in Proc, c \in {"cur", "new"} : x = <<q, c>>
        BY DEF Spaces
      <4>2. Range(tbl[x]) \subseteq Owned(q)
        <5>1. Part(q, "tables") = Range(tbl[<<q, "cur">>]) /\ Part(q, "new tables") = Range(tbl[<<q, "new">>])
          BY DEF Part
        <5> QED
          BY <4>1, <5>1, OwnedParts
      <4>3. g \notin Range(tbl[x])
        BY <1>1, <1>2, <4>2 DEF OwnInv
      <4>4. Lists(tbl'[x], Range(tbl[x]) \cup {g})
        BY <3>1, <3>3, <4>3, ListsAppend
      <4> QED
        BY <4>4, ListsRange
    <3> QED
      BY <3>2, <3>3
  <2> QED
    BY <1>1, <1>2, <2>1 DEF ListInv
<1>7. TypeOK'
  BY <1>2 DEF Lists
<1> QED
  BY <1>1, <1>4, <1>5, <1>6, <1>7 DEF Inv, MemoryAssumption

LEMMA KeepsInv ==
  ASSUME Inv, NEW p \in Proc, \A q \in Proc \ {p} : Kept(q),
         UNCHANGED <<free, trapframe, backup, tbl, mem, pend>>,
         pc'[p] \in BackedUp <=> pc[p] \in BackedUp,
         TypeOK', Control(p)'
  PROVE  Inv'
<1>1. ControlInv /\ ListInv /\ OwnInv /\ MemoryAssumption
  BY DEF Inv
<1>2. \A q \in Proc \ {p} : Control(q)' /\ \A k \in Kind : Part(q, k)' = Part(q, k)
  BY <1>1, OthersKept
<1>3. \A k \in Kind : Part(p, k)' = Part(p, k)
  BY DEF Part, Kind
<1>4. \A q \in Proc : Owned(q)' = Owned(q)
  BY <1>2, <1>3 DEF Owned
<1>5. FreePages' = FreePages
  BY DEF FreePages
<1>6. OwnInv'
  BY <1>1, <1>2, <1>3, <1>4, <1>5 DEF OwnInv
<1>7. ListInv' /\ ControlInv'
  BY <1>1, <1>2, <1>5 DEF ListInv, ControlInv
<1> QED
  BY <1>1, <1>6, <1>7 DEF Inv, MemoryAssumption

LEMMA StartInv ==
  ASSUME Inv, NEW p \in Proc, NEW n \in 1 .. MaxSize, Start(p, n)
  PROVE  Inv'
<1>1. TypeOK /\ Control(p) /\ n \in Sizes
  BY DEF Inv, ControlInv, MemoryAssumption, Sizes
<1>2. TypeOK'
  <2>1. uses' \in [Proc -> 0 .. MaxUses]
    BY <1>1 DEF Inv, MemoryAssumption, Start, TypeOK
  <2> QED
    BY <1>1, <2>1 DEF Start, Goto, TypeOK
<1>3. \A q \in Proc \ {p} : Kept(q)
  BY <1>1 DEF Start, Goto, TypeOK, Kept
<1>4. Control(p)' /\ (pc'[p] \in BackedUp <=> pc[p] \in BackedUp)
  BY <1>1 DEF Start, Goto, TypeOK, Control, Cur, Target, BackedUp
<1> QED
  BY <1>2, <1>3, <1>4, KeepsInv DEF Start

LEMMA GrowInv ==
  ASSUME Inv, NEW p \in Proc, NEW n \in 1 .. MaxSize, Grow(p, n)
  PROVE  Inv'
<1>1. TypeOK /\ Control(p) /\ n \in Sizes /\ Len(mem[Cur(p)]) \in Sizes
  BY DEF Inv, ControlInv, MemoryAssumption, Sizes, TypeOK, Spaces, Cur
<1>2. TypeOK'
  BY <1>1 DEF Grow, Goto, TypeOK
<1>3. \A q \in Proc \ {p} : Kept(q)
  BY <1>1 DEF Grow, Goto, TypeOK, Kept
<1>4. Control(p)' /\ (pc'[p] \in BackedUp <=> pc[p] \in BackedUp)
  BY <1>1 DEF Grow, Goto, TypeOK, Control, Cur, Target, BackedUp, Sizes
<1> QED
  BY <1>2, <1>3, <1>4, KeepsInv DEF Grow

LEMMA ExecInv ==
  ASSUME Inv, NEW p \in Proc, NEW n \in 1 .. MaxSize, Exec(p, n)
  PROVE  Inv'
<1>1. TypeOK /\ Control(p) /\ n \in Sizes /\ 0 < RootTables
  BY DEF Inv, ControlInv, MemoryAssumption, Sizes
<1>2. TypeOK'
  BY <1>1 DEF Exec, Goto, TypeOK
<1>3. \A q \in Proc \ {p} : Kept(q)
  BY <1>1 DEF Exec, Goto, TypeOK, Kept
<1>4. Control(p)' /\ (pc'[p] \in BackedUp <=> pc[p] \in BackedUp)
  BY <1>1 DEF Exec, Goto, TypeOK, Control, Cur, Target, BackedUp
<1> QED
  BY <1>2, <1>3, <1>4, KeepsInv DEF Exec

LEMMA AllocTrapframeInv ==
  ASSUME Inv, NoDanglingBackup, NEW p \in Proc, AllocTrapframe(p)
  PROVE  Inv'
<1>1. TypeOK /\ Control(p)
  BY DEF Inv, ControlInv
<1>2. ASSUME NEW g \in Page, KAlloc(g), trapframe' = [trapframe EXCEPT ![p] = g], Goto(p, "backup"),
             UNCHANGED <<backup, tbl, mem, pend, op, goal, base, uses>>
      PROVE  Inv'
  <2>1. \A q \in Proc \ {p} : Kept(q)
    BY <1>1, <1>2 DEF Goto, TypeOK, Kept
  <2>2. trapframe[p] = None /\ trapframe'[p] = g /\ g # None /\ pc[p] = "trapframe" /\ pc'[p] = "backup"
    BY <1>1, <1>2 DEF Control, Goto, TypeOK, AllocTrapframe, Inv, MemoryAssumption, Page
  <2>3. Part(p, "trapframe")' = Part(p, "trapframe") \cup {g}
    BY <2>2 DEF Part
  <2>4. \A k \in Kind \ {"trapframe"} : Part(p, k)' = Part(p, k)
    BY <1>2, <2>2 DEF Part, Kind, BackedUp
  <2>5. free' \in Seq(Page) => TypeOK'
    BY <1>1, <1>2 DEF TypeOK, Goto
  <2>6. Control(p)'
    BY <1>1, <1>2, <2>2 DEF Control, Cur, Target, BackedUp
  <2>7. "trapframe" \in Kind
    BY DEF Kind
  <2> QED
    BY <1>2, <2>1, <2>3, <2>4, <2>5, <2>6, <2>7, TakesInv
<1>3. CASE NoPage /\ Freeproc(p)
  <2>1. op[p] # "exec"
    BY <1>1 DEF Control, AllocTrapframe
  <2> QED
    BY <1>3, <2>1, FreeprocInv DEF AllocTrapframe
<1> QED
  BY <1>2, <1>3 DEF AllocTrapframe

LEMMA AllocBackupInv ==
  ASSUME Inv, NEW p \in Proc, AllocBackup(p)
  PROVE  Inv'
<1>1. TypeOK /\ Control(p) /\ None \notin Page /\ pc[p] = "backup"
  BY DEF Inv, ControlInv, MemoryAssumption, Page, AllocBackup
<1>2. ASSUME NEW g \in Page, KAlloc(g), backup' = [backup EXCEPT ![p] = g], Goto(p, "tables"),
             UNCHANGED <<trapframe, tbl, mem, pend, op, goal, base, uses>>
      PROVE  Inv'
  <2>1. \A q \in Proc \ {p} : Kept(q)
    BY <1>1, <1>2 DEF Goto, TypeOK, Kept
  <2>2. backup'[p] = g /\ g # None /\ pc'[p] = "tables"
    BY <1>1, <1>2 DEF Goto, TypeOK
  <2>3. Part(p, "backup") = {} /\ Part(p, "backup")' = {g}
    BY <1>1, <2>2 DEF Part, BackedUp
  <2>4. \A k \in Kind \ {"backup"} : Part(p, k)' = Part(p, k)
    BY <1>2 DEF Part, Kind
  <2>5. free' \in Seq(Page) => TypeOK'
    BY <1>1, <1>2 DEF TypeOK, Goto
  <2>6. Control(p)'
    <3>1. op[p] = "fork" /\ Target(p) = Cur(p) /\ tbl[Cur(p)] = <<>> /\ mem[Cur(p)] = <<>>
      BY <1>1 DEF Control, Target, Cur, BackedUp
    <3>2. Target(p)' = Target(p) /\ 0 < RootTables
      BY <1>2 DEF Target, Cur, Inv, MemoryAssumption
    <3> QED
      BY <1>1, <1>2, <2>2, <3>1, <3>2 DEF Control, Cur, BackedUp
  <2>7. "backup" \in Kind
    BY DEF Kind
  <2> QED
    BY <1>2, <2>1, <2>3, <2>4, <2>5, <2>6, <2>7, TakesInv
<1>3. CASE /\ KFree(<<trapframe[p]>>)
           /\ trapframe' = [trapframe EXCEPT ![p] = None]
           /\ backup' = [backup EXCEPT ![p] = None]
           /\ Goto(p, "UNUSED") /\ op' = [op EXCEPT ![p] = "none"]
           /\ goal' = [goal EXCEPT ![p] = 0]
           /\ UNCHANGED <<tbl, mem, pend, base, uses>>
  <2>1. /\ op[p] # "exec" /\ trapframe[p] \in Page /\ pend[p] = None
        /\ tbl[Cur(p)] = <<>> /\ mem[Cur(p)] = <<>>
    BY <1>1 DEF Control, TypeOK, BackedUp
  <2>2. Owned(p) = {trapframe[p]}
    <3>1. Part(p, "trapframe") = {trapframe[p]} /\ Part(p, "backup") = {} /\ Part(p, "pend") = {}
      BY <1>1, <2>1 DEF Part, BackedUp
    <3>2. Part(p, "tables") = {} /\ Part(p, "pages") = {}
      BY <2>1, RangeNone DEF Part, Cur
    <3> QED
      BY <2>1, <3>1, <3>2, OwnedParts, NewEmpty
  <2>3. Lists(<<trapframe[p]>>, Owned(p))
    BY <2>1, <2>2, ListsOne
  <2>4. /\ tbl' = [tbl EXCEPT ![Cur(p)] = <<>>] /\ mem' = [mem EXCEPT ![Cur(p)] = <<>>]
        /\ pend' = [pend EXCEPT ![p] = None]
    BY <1>1, <1>3, <2>1 DEF TypeOK
  <2>5. /\ backup' \in [Proc -> Page \cup {None}] /\ \A q \in Proc \ {p} : backup'[q] = backup[q]
        /\ base' \in [Proc -> Sizes] /\ \A q \in Proc \ {p} : base'[q] = base[q]
    BY <1>1, <1>3 DEF TypeOK
  <2> QED
    BY <1>3, <2>1, <2>3, <2>4, <2>5, GivesUp DEF Goto
<1> QED
  BY <1>2, <1>3 DEF AllocBackup

(* A page-table page, in proc_pagetable() or in walk().                    *)
LEMMA TableInv ==
  ASSUME Inv, NEW p \in Proc, NEW g \in Page, KAlloc(g), pc[p] \in BackedUp, op[p] # "none",
         tbl' = [tbl EXCEPT ![Target(p)] = Append(@, g)],
         NEW l \in BackedUp, pc' = [pc EXCEPT ![p] = l],
         l = "map" <=> pc[p] = "map", l # "live",
         l = "tables" => pc[p] = "tables" /\ Len(tbl[Target(p)]) + 1 < RootTables,
         UNCHANGED <<trapframe, backup, mem, pend, op, goal, base, uses>>
  PROVE  Inv'
<1>j. PICK j \in {"tables", "new tables"} : j = "new tables" <=> op[p] = "exec"
  OBVIOUS
<1>1. TypeOK /\ Control(p) /\ j \in Kind /\ Target(p) \in Spaces /\ l \in {"tables", "page", "map"}
  BY DEF Inv, ControlInv, Kind, Target, Cur, Spaces, BackedUp
<1>2. pc'[p] = l /\ tbl'[Target(p)] = Append(tbl[Target(p)], g)
  BY <1>1 DEF TypeOK
<1>3. \A q \in Proc \ {p} : Kept(q)
  BY <1>1 DEF TypeOK, Kept, Target, Cur, Spaces
<1>4. tbl[Target(p)] \in Seq(Page) /\ Lists(tbl[Target(p)], Part(p, j)) /\ Target(p)' = Target(p)
  <2>1. Part(p, j) = Range(tbl[Target(p)])
    BY <1>j DEF Part, Target, Cur
  <2>2. Lists(tbl[Target(p)], Range(tbl[Target(p)])) /\ tbl[Target(p)] \in Seq(Page)
    BY <1>1 DEF Inv, ListInv, TypeOK
  <2>3. Target(p)' = Target(p)
    BY DEF Target, Cur
  <2> QED
    BY <2>1, <2>2, <2>3
<1>5. g \notin Part(p, j)
  <2>1. Part(p, j) \subseteq Owned(p)
    BY <1>1 DEF Owned
  <2> QED
    BY <2>1, Allocates DEF Inv, OwnInv
<1>6. Part(p, j)' = Part(p, j) \cup {g}
  <2>1. Range(tbl'[Target(p)]) = Part(p, j) \cup {g}
    <3>1. Lists(Append(tbl[Target(p)], g), Part(p, j) \cup {g})
      BY <1>4, <1>5, ListsAppend
    <3> QED
      BY <1>2, <3>1, ListsRange
  <2>2. Part(p, j)' = Range(tbl'[Target(p)])
    BY <1>j DEF Part, Target, Cur
  <2> QED
    BY <2>1, <2>2
<1>7. \A k \in Kind \ {j} : Part(p, k)' = Part(p, k)
  <2>1. \A x \in Spaces : x # Target(p) => tbl'[x] = tbl[x]
    BY <1>1 DEF TypeOK
  <2>2. Part(p, "backup")' = Part(p, "backup") /\ Part(p, "trapframe")' = Part(p, "trapframe")
    BY <1>2 DEF Part
  <2>3. /\ Part(p, "pend")' = Part(p, "pend") /\ Part(p, "pages")' = Part(p, "pages")
        /\ Part(p, "new pages")' = Part(p, "new pages")
    BY DEF Part
  <2>4. ASSUME op[p] = "exec" PROVE Part(p, "tables")' = Part(p, "tables")
    <3>1. tbl'[<<p, "cur">>] = tbl[<<p, "cur">>]
      BY <2>1, <2>4 DEF Target, Spaces
    <3>2. Part(p, "tables") = Range(tbl[<<p, "cur">>]) /\ Part(p, "tables")' = Range(tbl'[<<p, "cur">>])
      BY DEF Part
    <3> QED
      BY <3>1, <3>2
  <2>5. ASSUME op[p] # "exec" PROVE Part(p, "new tables")' = Part(p, "new tables")
    <3>1. tbl'[<<p, "new">>] = tbl[<<p, "new">>]
      BY <2>1, <2>5 DEF Target, Cur, Spaces
    <3>2. /\ Part(p, "new tables") = Range(tbl[<<p, "new">>])
          /\ Part(p, "new tables")' = Range(tbl'[<<p, "new">>])
      BY DEF Part
    <3> QED
      BY <3>1, <3>2
  <2> QED
    BY <1>j, <2>2, <2>3, <2>4, <2>5 DEF Kind
<1>8. \A x \in Spaces : tbl'[x] = tbl[x] \/ tbl'[x] = Append(tbl[x], g)
  BY <1>1 DEF TypeOK
<1>9. free' \in Seq(Page) => TypeOK'
  <2>1. tbl' \in [Spaces -> Seq(Page)]
    <3>1. Append(tbl[Target(p)], g) \in Seq(Page)
      BY <1>4, <1>5, ListsAppend DEF Lists
    <3> QED
      BY <1>1, <3>1 DEF TypeOK
  <2>2. pc' \in [Proc -> {"UNUSED", "trapframe", "backup", "tables", "page", "map", "live"}]
    BY <1>1 DEF TypeOK
  <2> QED
    BY <1>1, <2>1, <2>2 DEF TypeOK
<1>10. Control(p)'
  <2>1. op[p] # "exec" => tbl'[<<p, "new">>] = tbl[<<p, "new">>]
    BY <1>1 DEF TypeOK, Target, Cur, Spaces
  <2>2. Len(tbl'[Target(p)]) = Len(tbl[Target(p)]) + 1
    BY <1>2, <1>4, ListsAppend, <1>5
  <2> QED
    BY <1>1, <1>2, <1>4, <2>1, <2>2 DEF Control, Cur, BackedUp
<1>11. j \in Kind /\ mem' = mem
  BY <1>1
<1> QED
  BY <1>3, <1>6, <1>7, <1>8, <1>9, <1>10, <1>11, TakesInv

LEMMA OutOfMemoryInv ==
  ASSUME Inv, NoDanglingBackup, NEW p \in Proc, pc[p] \in {"page", "map"}, OutOfMemory(p)
  PROVE  Inv'
<1>1. TypeOK /\ Control(p) /\ pc[p] \in BackedUp
  BY DEF Inv, ControlInv, BackedUp
<1>2. CASE op[p] = "fork" /\ Freeproc(p)
  BY <1>1, <1>2, FreeprocInv
<1>3. CASE op[p] = "grow" /\ GrowFails(p)
  <2>1. base[p] \in 0 .. Len(mem[Cur(p)])
    <3>1. base[p] \in Nat /\ base[p] <= Len(mem[Cur(p)]) /\ Len(mem[Cur(p)]) \in Nat
      BY <1>1, <1>3 DEF Control, TypeOK, Sizes, Spaces, Cur, Inv, MemoryAssumption
    <3> QED
      BY <3>1
  <2>2. /\ goal' \in [Proc -> Sizes] /\ \A q \in Proc \ {p} : goal'[q] = goal[q]
        /\ base' \in [Proc -> Sizes] /\ \A q \in Proc \ {p} : base'[q] = base[q]
    <3>1. 0 \in Sizes
      BY DEF Inv, MemoryAssumption, Sizes
    <3> QED
      BY <1>1, <1>3, <3>1 DEF GrowFails, TypeOK
  <2>3. PICK n \in 0 .. Len(mem[Cur(p)]) : n = base[p]
    BY <2>1
  <2>4. /\ KFree(PageSeq(pend[p]) \o SubSeq(mem[Cur(p)], n + 1, Len(mem[Cur(p)])))
        /\ mem' = [mem EXCEPT ![Cur(p)] = SubSeq(@, 1, n)] /\ pend' = [pend EXCEPT ![p] = None]
        /\ op' = [op EXCEPT ![p] = "none"] /\ pc' = [pc EXCEPT ![p] = "live"]
        /\ UNCHANGED <<trapframe, backup, tbl, uses>>
    BY <1>3, <2>3 DEF GrowFails, Goto
  <2> QED
    BY <1>1, <1>3, <2>2, <2>4, ShrinksTo
<1>4. CASE op[p] = "exec" /\ ExecBad(p)
  BY <1>4, ExecBadInv
<1> QED
  BY <1>2, <1>3, <1>4 DEF OutOfMemory

LEMMA AllocTableInv ==
  ASSUME Inv, NoDanglingBackup, NEW p \in Proc, AllocTable(p)
  PROVE  Inv'
<1>1. TypeOK /\ Control(p) /\ pc[p] = "tables" /\ pc[p] \in BackedUp
  BY DEF Inv, ControlInv, AllocTable, BackedUp
<1>2. ASSUME NEW g \in Page, KAlloc(g), tbl' = [tbl EXCEPT ![Target(p)] = Append(@, g)],
             Goto(p, IF Len(tbl[Target(p)]) + 1 = RootTables THEN "page" ELSE "tables"),
             UNCHANGED <<trapframe, backup, mem, pend, op, goal, base, uses>>
      PROVE  Inv'
  <2>1. PICK l \in {"page", "tables"} : l = IF Len(tbl[Target(p)]) + 1 = RootTables THEN "page" ELSE "tables"
    OBVIOUS
  <2>2. l = "tables" => Len(tbl[Target(p)]) + 1 < RootTables
    <3>1. Len(tbl[Target(p)]) \in Nat /\ Len(tbl[Target(p)]) < RootTables /\ RootTables \in Nat
      BY <1>1 DEF Control, TypeOK, Target, Cur, Spaces, Inv, MemoryAssumption
    <3> QED
      BY <2>1, <3>1
  <2>3. pc' = [pc EXCEPT ![p] = l] /\ l \in BackedUp /\ l # "live" /\ (l = "map" <=> pc[p] = "map")
    BY <1>1, <1>2, <2>1 DEF Goto, BackedUp
  <2>4. op[p] # "none"
    BY <1>1 DEF Control
  <2> QED
    BY <1>1, <1>2, <2>2, <2>3, <2>4, TableInv
<1>3. CASE NoPage /\ op[p] = "fork" /\ Freeproc(p)
  BY <1>1, <1>3, FreeprocInv
<1>4. CASE NoPage /\ op[p] = "exec" /\ ExecBad(p)
  BY <1>4, ExecBadInv
<1> QED
  BY <1>2, <1>3, <1>4 DEF AllocTable

LEMMA AllocPageInv ==
  ASSUME Inv, NoDanglingBackup, NEW p \in Proc, AllocPage(p)
  PROVE  Inv'
<1>1. TypeOK /\ Control(p) /\ pc[p] = "page" /\ pend[p] = None /\ None \notin Page
  BY DEF Inv, ControlInv, AllocPage, Control, MemoryAssumption, Page
<1>2. ASSUME NEW g \in Page, KAlloc(g), pend' = [pend EXCEPT ![p] = g], Goto(p, "map"),
             UNCHANGED <<trapframe, backup, tbl, mem, op, goal, base, uses>>
      PROVE  Inv'
  <2>1. \A q \in Proc \ {p} : Kept(q)
    BY <1>1, <1>2 DEF Goto, TypeOK, Kept
  <2>2. pend'[p] = g /\ g # None /\ pc'[p] = "map"
    BY <1>1, <1>2 DEF Goto, TypeOK
  <2>3. Part(p, "pend") = {} /\ Part(p, "pend")' = {g}
    BY <1>1, <2>2 DEF Part
  <2>4. \A k \in Kind \ {"pend"} : Part(p, k)' = Part(p, k)
    BY <1>1, <1>2, <2>2 DEF Part, Kind, BackedUp
  <2>5. free' \in Seq(Page) => TypeOK'
    BY <1>1, <1>2 DEF TypeOK, Goto
  <2>6. Control(p)'
    BY <1>1, <1>2, <2>2 DEF Control, Cur, Target, BackedUp, AllocPage
  <2>7. "pend" \in Kind
    BY DEF Kind
  <2> QED
    BY <1>2, <2>1, <2>3, <2>4, <2>5, <2>6, <2>7, TakesInv
<1>3. CASE OutOfMemory(p)
  BY <1>1, <1>3, OutOfMemoryInv
<1> QED
  BY <1>2, <1>3 DEF AllocPage

LEMMA ShrinkInv ==
  ASSUME Inv, NEW p \in Proc, NEW n \in Sizes, Shrink(p, n)
  PROVE  Inv'
<1>1. TypeOK /\ Control(p) /\ pc[p] = "live" /\ op[p] = "none" /\ pend[p] = None /\ pc[p] \in BackedUp
  BY DEF Inv, ControlInv, Control, Shrink, BackedUp
<1>2. n \in 0 .. Len(mem[Cur(p)]) /\ mem[Cur(p)] \in Seq(Page) /\ Len(mem[Cur(p)]) \in Nat
  BY <1>1 DEF TypeOK, Spaces, Cur, Sizes, Shrink, Inv, MemoryAssumption
<1>3. KFree(PageSeq(pend[p]) \o SubSeq(mem[Cur(p)], n + 1, Len(mem[Cur(p)])))
  <2>1. SubSeq(mem[Cur(p)], n + 1, Len(mem[Cur(p)])) \in Seq(Page) /\ PageSeq(pend[p]) = <<>>
    BY <1>1, <1>2 DEF PageSeq
  <2>2. PageSeq(pend[p]) \o SubSeq(mem[Cur(p)], n + 1, Len(mem[Cur(p)]))
          = SubSeq(mem[Cur(p)], n + 1, Len(mem[Cur(p)]))
    BY <2>1
  <2> QED
    BY <2>2 DEF Shrink
<1>4. /\ pend' = [pend EXCEPT ![p] = None] /\ op' = [op EXCEPT ![p] = "none"]
      /\ pc' = [pc EXCEPT ![p] = "live"]
  BY <1>1 DEF Shrink, TypeOK
<1>5. /\ goal' \in [Proc -> Sizes] /\ \A q \in Proc \ {p} : goal'[q] = goal[q]
      /\ base' \in [Proc -> Sizes] /\ \A q \in Proc \ {p} : base'[q] = base[q]
  BY <1>1 DEF Shrink, TypeOK
<1>6. mem' = [mem EXCEPT ![Cur(p)] = SubSeq(@, 1, n)] /\ UNCHANGED <<trapframe, backup, tbl, uses>>
  BY DEF Shrink
<1>7. op[p] # "exec"
  BY <1>1
<1> QED
  BY <1>1, <1>2, <1>3, <1>4, <1>5, <1>6, <1>7, ShrinksTo

LEMMA ExecErrorInv ==
  ASSUME Inv, NEW p \in Proc, ExecError(p)
  PROVE  Inv'
BY ExecBadInv DEF ExecError

LEMMA ReapInv ==
  ASSUME Inv, NoDanglingBackup, NEW p \in Proc, Reap(p)
  PROVE  Inv'
<1>1. pc[p] \in BackedUp /\ op[p] # "exec" /\ Freeproc(p)
  BY DEF Reap, Inv, ControlInv, Control, BackedUp
<1> QED
  BY <1>1, FreeprocInv

LEMMA SizesBounded == MemoryAssumption => \A n \in Sizes : n \in Nat /\ n <= MaxSize
BY DEF MemoryAssumption, Sizes

LEMMA OneMore == \A x, y \in Nat : y <= x => y <= x + 1
OBVIOUS

LEMMA AtMost == \A x, y, m \in Nat : x < y /\ y <= m => x + 1 <= m
OBVIOUS

LEMMA MapPageInv ==
  ASSUME Inv, NoDanglingBackup, NEW p \in Proc, MapPage(p)
  PROVE  Inv'
<1>1. TypeOK /\ Control(p) /\ ControlInv /\ ListInv /\ OwnInv /\ MemoryAssumption
  BY DEF Inv, ControlInv
<1>2. /\ pc[p] = "map" /\ pc[p] \in BackedUp /\ op[p] # "none" /\ Target(p) \in Spaces
      /\ pend[p] \in Page /\ None \notin Page
  BY <1>1 DEF MapPage, Control, BackedUp, Target, Cur, Spaces, TypeOK, MemoryAssumption, Page
<1>3. ASSUME mem' = [mem EXCEPT ![Target(p)] = Append(@, pend[p])], pend' = [pend EXCEPT ![p] = None],
             Goto(p, "page"), UNCHANGED <<free, trapframe, backup, tbl, op, goal, base, uses>>
      PROVE  Inv'
  <2>j. PICK j \in {"pages", "new pages"} : j = "new pages" <=> op[p] = "exec"
    OBVIOUS
  <2>1. /\ mem'[Target(p)] = Append(mem[Target(p)], pend[p]) /\ pend'[p] = None /\ pc'[p] = "page"
        /\ Target(p)' = Target(p) /\ \A x \in Spaces : x # Target(p) => mem'[x] = mem[x]
    BY <1>1, <1>2, <1>3 DEF TypeOK, Goto, Target, Cur
  <2>2. \A q \in Proc \ {p} : Kept(q)
    BY <1>1, <1>3 DEF Goto, TypeOK, Kept, Target, Cur, Spaces
  <2>3. \A q \in Proc \ {p} : Control(q)' /\ \A k \in Kind : Part(q, k)' = Part(q, k)
    BY <1>1, <2>2, OthersKept
  <2>4. Part(p, "pend") = {pend[p]} /\ Part(p, "pend")' = {} /\ pend[p] \notin Part(p, j)
    <3>1. Part(p, "pend") = {pend[p]} /\ Part(p, "pend")' = {}
      BY <1>2, <2>1 DEF Part
    <3> QED
      BY <1>1, <2>j, <3>1 DEF OwnInv, Kind
  <2>5. Lists(mem[Target(p)], Part(p, j)) /\ Part(p, j)' = Range(mem'[Target(p)])
    <3>1. Part(p, j) = Range(mem[Target(p)])
      BY <2>j DEF Part, Target, Cur
    <3>2. Part(p, j)' = Range(mem'[Target(p)])
      BY <1>3, <2>j DEF Part, Target, Cur
    <3> QED
      BY <1>1, <1>2, <3>1, <3>2 DEF ListInv
  <2>6. /\ Lists(mem'[Target(p)], Part(p, j) \cup {pend[p]})
        /\ Len(mem'[Target(p)]) = Len(mem[Target(p)]) + 1
    <3>1. /\ Lists(Append(mem[Target(p)], pend[p]), Part(p, j) \cup {pend[p]})
          /\ Len(Append(mem[Target(p)], pend[p])) = Len(mem[Target(p)]) + 1
      BY <1>2, <2>4, <2>5, ListsAppend
    <3> QED
      BY <2>1, <3>1
  <2>7. Part(p, j)' = Part(p, j) \cup {pend[p]}
    BY <2>5, <2>6, ListsRange
  <2>8. \A k \in Kind \ {"pend", j} : Part(p, k)' = Part(p, k)
    <3>1. Part(p, "backup")' = Part(p, "backup") /\ Part(p, "trapframe")' = Part(p, "trapframe")
      BY <1>2, <1>3, <2>1 DEF Part, BackedUp
    <3>2. Part(p, "tables")' = Part(p, "tables") /\ Part(p, "new tables")' = Part(p, "new tables")
      BY <1>3 DEF Part
    <3>3. ASSUME op[p] = "exec" PROVE Part(p, "pages")' = Part(p, "pages")
      <4>1. mem'[<<p, "cur">>] = mem[<<p, "cur">>]
        BY <2>1, <3>3 DEF Target, Spaces
      <4>2. Part(p, "pages") = Range(mem[<<p, "cur">>]) /\ Part(p, "pages")' = Range(mem'[<<p, "cur">>])
        BY DEF Part
      <4> QED
        BY <4>1, <4>2
    <3>4. ASSUME op[p] # "exec" PROVE Part(p, "new pages")' = Part(p, "new pages")
      <4>1. mem'[<<p, "new">>] = mem[<<p, "new">>]
        BY <2>1, <3>4 DEF Target, Cur, Spaces
      <4>2. Part(p, "new pages") = Range(mem[<<p, "new">>]) /\ Part(p, "new pages")' = Range(mem'[<<p, "new">>])
        BY DEF Part
      <4> QED
        BY <4>1, <4>2
    <3> QED
      BY <2>j, <3>1, <3>2, <3>3, <3>4 DEF Kind
  <2>9. OwnInv'
    <3>1. j \in Kind /\ "pend" \in Kind /\ j # "pend"
      BY <2>j DEF Kind
    <3>2. \A k, l \in Kind : k # l => Part(p, k)' \cap Part(p, l)' = {}
      <4>1. \A k, l \in Kind : k # l => Part(p, k) \cap Part(p, l) = {}
        BY <1>1 DEF OwnInv
      <4>2. \A k \in Kind : k # "pend" => pend[p] \notin Part(p, k)
        BY <2>4, <3>1, <4>1
      <4>3. \A k \in Kind \ {j} : Part(p, k)' \subseteq Part(p, k) /\ pend[p] \notin Part(p, k)'
        BY <2>4, <2>8, <4>2
      <4>4. \A k \in Kind \ {j} : Part(p, k)' \cap Part(p, j)' = {}
        <5>1. ASSUME NEW k \in Kind \ {j} PROVE Part(p, k)' \cap Part(p, j)' = {}
          <6>1. Part(p, k) \cap Part(p, j) = {}
            BY <3>1, <4>1
          <6>2. Part(p, k)' \subseteq Part(p, k) /\ pend[p] \notin Part(p, k)'
            BY <4>3
          <6> QED
            BY <2>7, <6>1, <6>2
        <5> QED
          BY <5>1
      <4>5. \A k, l \in Kind \ {j} : k # l => Part(p, k)' \cap Part(p, l)' = {}
        BY <4>1, <4>3
      <4> QED
        BY <4>4, <4>5
    <3>3. Owned(p)' = Owned(p)
      <4>1. ASSUME NEW x
            PROVE  (\E k \in Kind : x \in Part(p, k)') <=> (\E k \in Kind : x \in Part(p, k))
        BY <2>4, <2>7, <2>8, <3>1
      <4> QED
        BY <4>1 DEF Owned
    <3>4. FreePages' = FreePages /\ Owned(p) \cap FreePages = {}
      BY <1>1, <1>3 DEF FreePages, OwnInv
    <3> QED
      BY <1>1, <2>3, <3>2, <3>3, <3>4, Rearranged
  <2>10. ListInv'
    <3>1. Lists(free', FreePages')
      BY <1>1, <1>3 DEF ListInv, FreePages
    <3>2. Lists(mem'[Target(p)], Range(mem'[Target(p)]))
      BY <2>6, ListsRange
    <3>3. \A x \in Spaces : Lists(mem'[x], Range(mem'[x]))
      BY <1>1, <2>1, <3>2 DEF ListInv
    <3> QED
      BY <1>1, <1>3, <3>1, <3>3 DEF ListInv
  <2>11. ControlInv'
    <3>1. op[p] # "exec" => mem'[<<p, "new">>] = mem[<<p, "new">>]
      BY <2>1 DEF Target, Cur, Spaces
    <3>2. op[p] = "grow" => base[p] <= Len(mem'[Cur(p)])
      <4>1. ASSUME op[p] = "grow" PROVE base[p] <= Len(mem'[Cur(p)])
        <5>1. Target(p) = Cur(p) /\ mem[Cur(p)] \in Seq(Page)
          BY <1>1, <4>1 DEF Target, Cur, TypeOK, Spaces
        <5>2. Len(mem[Cur(p)]) \in Nat /\ base[p] \in Nat
          BY <1>1, <5>1, LenProperties, SizesBounded DEF TypeOK
        <5>3. base[p] <= Len(mem[Cur(p)]) /\ Len(mem'[Cur(p)]) = Len(mem[Cur(p)]) + 1
          BY <1>1, <2>6, <4>1, <5>1 DEF Control
        <5> QED
          BY <5>2, <5>3, OneMore
      <4> QED
        BY <4>1
    <3>3. Control(p)'
      BY <1>1, <1>2, <1>3, <2>1, <3>1, <3>2 DEF Control, Cur, BackedUp
    <3> QED
      BY <2>3, <3>3 DEF ControlInv
  <2>12. TypeOK'
    <3>1. mem'[Target(p)] \in Seq(Page)
      BY <2>6 DEF Lists
    <3>2. mem' \in [Spaces -> Seq(Page)]
      BY <1>1, <1>3, <2>1, <3>1 DEF TypeOK
    <3>3. Len(mem'[Target(p)]) <= MaxSize
      <4>1. mem[Target(p)] \in Seq(Page) /\ goal[p] \in Nat /\ goal[p] <= MaxSize /\ MaxSize \in Nat
        BY <1>1, <1>2, SizesBounded DEF TypeOK, MemoryAssumption
      <4>2. Len(mem[Target(p)]) \in Nat /\ Len(mem[Target(p)]) < goal[p]
        BY <1>1, <1>2, <4>1, LenProperties DEF Control
      <4> QED
        BY <2>6, <4>1, <4>2, AtMost
    <3>4. \A x \in Spaces : Len(mem'[x]) <= MaxSize
      BY <1>1, <2>1, <3>3 DEF TypeOK
    <3> QED
      BY <1>1, <1>3, <3>2, <3>4 DEF TypeOK, Goto
  <2> QED
    BY <1>1, <2>9, <2>10, <2>11, <2>12 DEF Inv, MemoryAssumption
<1>4. ASSUME NEW g \in Page, KAlloc(g), tbl' = [tbl EXCEPT ![Target(p)] = Append(@, g)],
             UNCHANGED <<trapframe, backup, mem, pend, pc, op, goal, base, uses>>
      PROVE  Inv'
  <2>1. PICK l \in BackedUp : l = "map"
    BY DEF BackedUp
  <2>2. /\ pc' = [pc EXCEPT ![p] = l] /\ (l = "map" <=> pc[p] = "map") /\ l # "live"
        /\ (l = "tables" => pc[p] = "tables" /\ Len(tbl[Target(p)]) + 1 < RootTables)
    BY <1>1, <1>2, <1>4, <2>1 DEF TypeOK
  <2>3. UNCHANGED <<trapframe, backup, mem, pend, op, goal, base, uses>>
    BY <1>4
  <2> QED
    BY <1>2, <1>4, <2>2, <2>3, TableInv
<1>5. CASE OutOfMemory(p)
  BY <1>2, <1>5, OutOfMemoryInv
<1> QED
  BY <1>3, <1>4, <1>5 DEF MapPage

(***************************************************************************)
(* The operation is over; exec() frees the image that it replaces.         *)
(***************************************************************************)
LEMMA CommitInv ==
  ASSUME Inv, NEW p \in Proc, pc[p] = "page", op[p] = "exec",
         KFree(Space(Cur(p))),
         tbl' = [tbl EXCEPT ![Cur(p)] = tbl[<<p, "new">>], ![<<p, "new">>] = <<>>],
         mem' = [mem EXCEPT ![Cur(p)] = mem[<<p, "new">>], ![<<p, "new">>] = <<>>],
         op' = [op EXCEPT ![p] = "none"], pc' = [pc EXCEPT ![p] = "live"],
         goal' = [goal EXCEPT ![p] = 0], base' = [base EXCEPT ![p] = 0],
         UNCHANGED <<trapframe, backup, pend, uses>>
  PROVE  Inv'
<1> DEFINE L == Part(p, "pages") \cup Part(p, "tables")
<1>1. TypeOK /\ Control(p) /\ ControlInv /\ ListInv /\ OwnInv /\ MemoryAssumption /\ pc[p] \in BackedUp
  BY DEF Inv, ControlInv, BackedUp
<1>2. L \subseteq Owned(p) /\ L \cap FreePages = {}
  <2>1. L \subseteq Owned(p)
    BY OwnedParts
  <2> QED
    BY <1>1, <2>1 DEF OwnInv
<1>3. FreePages' = FreePages \cup L /\ Lists(free', FreePages')
  BY <1>1, <1>2, ListsSpace, Frees
<1>4. /\ tbl'[<<p, "cur">>] = tbl[<<p, "new">>] /\ tbl'[<<p, "new">>] = <<>>
      /\ mem'[<<p, "cur">>] = mem[<<p, "new">>] /\ mem'[<<p, "new">>] = <<>>
      /\ pc'[p] = "live" /\ op'[p] = "none" /\ pc'[p] \in BackedUp
  BY <1>1 DEF TypeOK, Spaces, Cur, BackedUp
<1>5. \A q \in Proc \ {p} : Kept(q)
  BY <1>1 DEF TypeOK, Spaces, Cur, Kept
<1>6. \A q \in Proc \ {p} : Control(q)' /\ \A k \in Kind : Part(q, k)' = Part(q, k)
  BY <1>1, <1>5, OthersKept
<1>7. /\ Part(p, "tables")' = Part(p, "new tables") /\ Part(p, "new tables")' = {}
      /\ Part(p, "pages")' = Part(p, "new pages") /\ Part(p, "new pages")' = {}
  <2>1. Part(p, "tables")' = Part(p, "new tables") /\ Part(p, "pages")' = Part(p, "new pages")
    BY <1>4 DEF Part
  <2>2. Part(p, "new tables")' = {} /\ Part(p, "new pages")' = {}
    BY <1>4, RangeNone DEF Part
  <2> QED
    BY <2>1, <2>2
<1>8. /\ Part(p, "trapframe")' = Part(p, "trapframe") /\ Part(p, "backup")' = Part(p, "backup")
      /\ Part(p, "pend")' = Part(p, "pend")
  BY <1>1, <1>4 DEF Part
<1>9. OwnInv'
  <2>1. \A k, l \in Kind : k # l => Part(p, k) \cap Part(p, l) = {}
    BY <1>1 DEF OwnInv
  <2>2. \A k, l \in Kind : k # l => Part(p, k)' \cap Part(p, l)' = {}
    BY ZenonT(60), <1>7, <1>8, <2>1 DEF Kind
  <2>3. Owned(p)' = Part(p, "trapframe") \cup Part(p, "backup") \cup Part(p, "pend")
                      \cup Part(p, "new tables") \cup Part(p, "new pages")
    <3>1. Owned(p)' = Part(p, "trapframe")' \cup Part(p, "backup")' \cup Part(p, "pend")'
                        \cup Part(p, "tables")' \cup Part(p, "pages")'
                        \cup Part(p, "new tables")' \cup Part(p, "new pages")'
      BY DEF Owned, Kind
    <3> QED
      BY <1>7, <1>8, <3>1
  <2>4. Owned(p)' \cap L = {}
    BY <2>1, <2>3 DEF Kind
  <2>5. Owned(p)' \cup L = Owned(p)
    BY <2>3, OwnedParts
  <2>6. Owned(p) \cap FreePages = {}
    BY <1>1 DEF OwnInv
  <2> HIDE DEF L
  <2>7. Owned(p)' \cap FreePages' = {} /\ Owned(p)' \cup FreePages' = Owned(p) \cup FreePages
    BY <1>3, <2>4, <2>5, <2>6
  <2> QED
    BY <1>1, <1>6, <2>2, <2>7, Rearranged
<1>10. \A x \in Spaces : \E y \in Spaces : /\ tbl'[x] = tbl[y] \/ tbl'[x] = <<>>
                                           /\ mem'[x] = mem[y] \/ mem'[x] = <<>>
  <2>1. <<p, "new">> \in Spaces
    BY DEF Spaces
  <2>2. \A x \in Spaces : \/ tbl'[x] = tbl[x] /\ mem'[x] = mem[x]
                          \/ tbl'[x] = tbl[<<p, "new">>] /\ mem'[x] = mem[<<p, "new">>]
                          \/ tbl'[x] = <<>> /\ mem'[x] = <<>>
    BY <1>1 DEF TypeOK
  <2> QED
    BY <2>1, <2>2
<1>11. ListInv'
  BY <1>1, <1>3, <1>10, ListsNone, RangeNone DEF ListInv
<1>12. ControlInv'
  <2>1. Control(p)'
    BY <1>1, <1>4 DEF Control, Cur, BackedUp
  <2> QED
    BY <1>6, <2>1 DEF ControlInv
<1>13. TypeOK'
  <2>1. free' \in Seq(Page)
    BY <1>3 DEF Lists
  <2>2. <<>> \in Seq(Page) /\ Len(<<>>) = 0 /\ 0 \in Sizes /\ 0 <= MaxSize
    BY <1>1 DEF MemoryAssumption, Sizes
  <2>3. \A x \in Spaces : Len(mem'[x]) <= MaxSize
    <3>1. \A y \in Spaces : Len(mem[y]) <= MaxSize
      BY <1>1 DEF TypeOK
    <3>2. \A x \in Spaces : mem'[x] = <<>> \/ \E y \in Spaces : mem'[x] = mem[y]
      BY <1>10
    <3> QED
      BY <2>2, <3>1, <3>2
  <2>4. <<p, "new">> \in Spaces
    BY DEF Spaces
  <2>5. tbl' \in [Spaces -> Seq(Page)] /\ mem' \in [Spaces -> Seq(Page)]
    BY <1>1, <2>2, <2>4 DEF TypeOK
  <2> QED
    BY <1>1, <2>1, <2>2, <2>3, <2>5 DEF TypeOK
<1> QED
  BY <1>1, <1>9, <1>11, <1>12, <1>13 DEF Inv, MemoryAssumption

LEMMA FinishInv ==
  ASSUME Inv, NEW p \in Proc, Finish(p)
  PROVE  Inv'
<1>1. TypeOK /\ Control(p) /\ pc[p] = "page" /\ 0 \in Sizes
  BY DEF Inv, ControlInv, Finish, MemoryAssumption, Sizes
<1>2. CASE op[p] = "exec"
  BY <1>1, <1>2, CommitInv DEF Finish, Goto
<1>3. CASE op[p] # "exec"
  <2>1. TypeOK'
    BY <1>1, <1>3 DEF Finish, Goto, TypeOK
  <2>2. \A q \in Proc \ {p} : Kept(q)
    BY <1>1, <1>3 DEF Finish, Goto, TypeOK, Kept
  <2>3. Control(p)' /\ (pc'[p] \in BackedUp <=> pc[p] \in BackedUp)
    BY <1>1, <1>3 DEF Finish, Goto, TypeOK, Control, Cur, Target, BackedUp
  <2>4. UNCHANGED <<free, trapframe, backup, tbl, mem, pend>>
    BY <1>3 DEF Finish
  <2> QED
    BY <2>1, <2>2, <2>3, <2>4, KeepsInv
<1> QED
  BY <1>2, <1>3

(***************************************************************************)
(* Every step, and what follows.                                           *)
(***************************************************************************)
LEMMA Initially == MemoryAssumption /\ Init => Inv
<1> SUFFICES ASSUME MemoryAssumption, Init
             PROVE  Inv
  OBVIOUS
<1> DEFINE up == [g \in Page |-> g]
<1>1. NPages \in Nat /\ Page = 1 .. NPages /\ None \notin Page /\ 0 \in Sizes /\ 0 <= MaxSize /\ 0 \in 0 .. MaxUses
  BY DEF MemoryAssumption, Page, Sizes
<1>2. Lists(up, Page)
  <2>1. up \in Seq(Page) /\ Len(up) = NPages /\ \A i \in 1 .. NPages : up[i] = i
    BY <1>1
  <2> QED
    BY <1>1, <2>1 DEF Lists
<1>3. Lists(free, Page) /\ FreePages = Page
  <2>1. Lists(Reverse(up), Page)
    BY <1>2, ListsReverse
  <2>2. Lists(free, Page)
    BY <2>1 DEF Init
  <2> QED
    BY <2>2, ListsRange DEF FreePages
<1>4. <<>> \in Seq(Page) /\ Len(<<>>) = 0
  OBVIOUS
<1>5. TypeOK
  BY <1>1, <1>3, <1>4 DEF Init, TypeOK, Lists
<1>6. ControlInv
  BY DEF Init, ControlInv, Control, Spaces, Cur, Target, BackedUp
<1>7. ListInv
  BY <1>3, ListsNone, RangeNone DEF Init, ListInv
<1>8. OwnInv
  <2>1. \A p \in Proc : \A k \in Kind : Part(p, k) = {}
    BY RangeNone DEF Init, Part, Kind, BackedUp, Spaces
  <2>2. \A p \in Proc : Owned(p) = {}
    BY <2>1 DEF Owned
  <2> QED
    BY <1>3, <2>1, <2>2 DEF OwnInv
<1> QED
  BY <1>5, <1>6, <1>7, <1>8 DEF Inv

LEMMA StepInv == Inv /\ NoDanglingBackup /\ [Next]_vars => Inv'
<1> SUFFICES ASSUME Inv, NoDanglingBackup, [Next]_vars
             PROVE  Inv'
  OBVIOUS
<1>1. ASSUME NEW p \in Proc, NEW n \in 1 .. MaxSize, Start(p, n) \/ Exec(p, n) \/ Grow(p, n)
      PROVE  Inv'
  BY <1>1, StartInv, ExecInv, GrowInv
<1>2. ASSUME NEW p \in Proc, NEW n \in Sizes, Shrink(p, n) PROVE Inv'
  BY <1>2, ShrinkInv
<1>3. ASSUME NEW p \in Proc, AllocTrapframe(p) \/ AllocBackup(p) \/ AllocTable(p) PROVE Inv'
  BY <1>3, AllocTrapframeInv, AllocBackupInv, AllocTableInv
<1>4. ASSUME NEW p \in Proc, AllocPage(p) \/ MapPage(p) \/ Finish(p) PROVE Inv'
  BY <1>4, AllocPageInv, MapPageInv, FinishInv
<1>5. ASSUME NEW p \in Proc, ExecError(p) \/ Reap(p) PROVE Inv'
  BY <1>5, ExecErrorInv, ReapInv
<1>6. ASSUME UNCHANGED vars PROVE Inv'
  <2>1. MemoryAssumption' /\ TypeOK'
    BY <1>6 DEF vars, Inv, MemoryAssumption, TypeOK
  <2>2. ControlInv'
    BY <1>6 DEF vars, Inv, ControlInv, Control, Cur, Target
  <2>3. ListInv'
    BY <1>6 DEF vars, Inv, ListInv, FreePages
  <2>4. OwnInv'
    <3>1. FreePages' = FreePages /\ \A q \in Proc, k \in Kind : Part(q, k)' = Part(q, k)
      BY <1>6 DEF vars, FreePages, Part, Kind
    <3>2. \A q \in Proc : Owned(q)' = Owned(q)
      BY <3>1 DEF Owned
    <3> QED
      BY <3>1, <3>2 DEF Inv, OwnInv
  <2> QED
    BY <2>1, <2>2, <2>3, <2>4 DEF Inv
<1> QED
  BY <1>1, <1>2, <1>3, <1>4, <1>5, <1>6 DEF Next

(* What is true of the pages then.                                         *)
LEMMA OwnedOnce == Inv => PagesConserved
<1> SUFFICES ASSUME Inv, NEW g \in Page
             PROVE  LET users == {p \in Proc : Refs(p, g) > 0} IN
                    \/ Occurs(free, g) = 1 /\ users = {}
                    \/ Occurs(free, g) = 0 /\ \E p \in Proc : users = {p} /\ Refs(p, g) = 1
  BY DEF PagesConserved, Inv
<1>1. TypeOK /\ ControlInv /\ ListInv /\ OwnInv /\ None \notin Page
  BY DEF Inv, MemoryAssumption, Page
<1>2. Occurs(free, g) = IF g \in FreePages THEN 1 ELSE 0
  BY <1>1, Occurrences DEF ListInv
<1>3. ASSUME NEW p \in Proc PROVE Refs(p, g) = IF g \in Owned(p) THEN 1 ELSE 0
  <2> DEFINE T == Part(p, "trapframe")
             D == Part(p, "pend")
             R == Part(p, "tables")
             M == Part(p, "pages")
             Q == Part(p, "new tables")
             N == Part(p, "new pages")
             s == PageSeq(trapframe[p]) \o PageSeq(pend[p]) \o tbl[<<p, "cur">>]
                    \o mem[<<p, "cur">>] \o tbl[<<p, "new">>] \o mem[<<p, "new">>]
  <2>1. Lists(PageSeq(trapframe[p]), T) /\ Lists(PageSeq(pend[p]), D)
    BY <1>1, ListsPage DEF TypeOK, Part
  <2>2. /\ Lists(tbl[<<p, "cur">>], R) /\ Lists(mem[<<p, "cur">>], M)
        /\ Lists(tbl[<<p, "new">>], Q) /\ Lists(mem[<<p, "new">>], N)
    BY <1>1 DEF ListInv, Spaces, Part
  <2>3. \A k, l \in Kind : k # l => Part(p, k) \cap Part(p, l) = {}
    BY <1>1 DEF OwnInv
  <2>4. T \cap D = {} /\ (T \cup D) \cap R = {} /\ (T \cup D \cup R) \cap M = {}
    BY <2>3 DEF Kind
  <2>5. (T \cup D \cup R \cup M) \cap Q = {} /\ (T \cup D \cup R \cup M \cup Q) \cap N = {}
    BY <2>3 DEF Kind
  <2>6. Owned(p) = (T \cup D \cup R \cup M \cup Q \cup N) \cup Part(p, "backup")
    BY OwnedParts
  <2>7. (T \cup D \cup R \cup M \cup Q \cup N) \cap Part(p, "backup") = {}
    BY <2>3 DEF Kind
  <2> HIDE DEF T, D, R, M, Q, N
  <2>8. Lists(s, T \cup D \cup R \cup M \cup Q \cup N)
    <3>1. Lists(PageSeq(trapframe[p]) \o PageSeq(pend[p]), T \cup D)
      BY <2>1, <2>4, ListsConcat
    <3>2. Lists(PageSeq(trapframe[p]) \o PageSeq(pend[p]) \o tbl[<<p, "cur">>], T \cup D \cup R)
      BY <2>2, <2>4, <3>1, ListsConcat
    <3>3. Lists(PageSeq(trapframe[p]) \o PageSeq(pend[p]) \o tbl[<<p, "cur">>] \o mem[<<p, "cur">>],
                T \cup D \cup R \cup M)
      BY <2>2, <2>4, <3>2, ListsConcat
    <3>4. Lists(PageSeq(trapframe[p]) \o PageSeq(pend[p]) \o tbl[<<p, "cur">>] \o mem[<<p, "cur">>]
                  \o tbl[<<p, "new">>], T \cup D \cup R \cup M \cup Q)
      BY <2>2, <2>5, <3>3, ListsConcat
    <3> QED
      BY <2>2, <2>5, <3>4, ListsConcat
  <2> DEFINE own == IF pc[p] \notin {"UNUSED", "trapframe", "backup"} /\ backup[p] = g THEN 1 ELSE 0
  <2>9. own = IF g \in Part(p, "backup") THEN 1 ELSE 0
    <3>1. pc[p] \in BackedUp <=> pc[p] \notin {"UNUSED", "trapframe", "backup"}
      BY <1>1 DEF TypeOK, BackedUp
    <3>2. g # None
      BY <1>1
    <3>3. Part(p, "backup") = IF pc[p] \in BackedUp THEN {backup[p]} \ {None} ELSE {}
      BY DEF Part
    <3> QED
      BY <3>1, <3>2, <3>3
  <2>10. Occurs(s, g) = IF g \in T \cup D \cup R \cup M \cup Q \cup N THEN 1 ELSE 0
    BY <2>8, Occurrences
  <2>11. Refs(p, g) = Occurs(s, g) + own
    BY DEF Refs
  <2> HIDE DEF s, own
  <2> QED
    BY <2>6, <2>7, <2>9, <2>10, <2>11
<1>4. \A p \in Proc : Refs(p, g) > 0 <=> g \in Owned(p)
  BY <1>3
<1>5. CASE g \in FreePages
  <2>1. \A p \in Proc : g \notin Owned(p)
    BY <1>1, <1>5 DEF OwnInv
  <2>2. {p \in Proc : Refs(p, g) > 0} = {}
    BY <1>4, <2>1
  <2> QED
    BY <1>2, <1>5, <2>2
<1>6. CASE g \notin FreePages
  <2>1. PICK p \in Proc : g \in Owned(p)
    BY <1>1, <1>6 DEF OwnInv
  <2>2. \A q \in Proc : q # p => g \notin Owned(q)
    BY <1>1, <2>1 DEF OwnInv
  <2>3. {q \in Proc : Refs(q, g) > 0} = {p}
    BY <1>4, <2>1, <2>2
  <2>4. Refs(p, g) = 1
    BY <1>3, <2>1
  <2> QED
    BY <1>2, <1>6, <2>3, <2>4
<1> QED
  BY <1>5, <1>6

(* In an execution in which no trapframe allocation fails in a slot that   *)
(* still points to the backup page of its former process, every page is    *)
(* free or has one owner: kalloc() never hands out a page in use, and the  *)
(* error paths of allocproc, fork, growproc and exec free what they took.  *)
THEOREM PagesKept == Spec /\ []NoDanglingBackup => []PagesConserved
<1>1. Inv => PagesConserved
  BY OwnedOnce
<1> QED
  BY <1>1, Initially, StepInv, PageConstants, PTL DEF Spec

(***************************************************************************)
(* Buffers: the invariant.                                                 *)
(***************************************************************************)
(* Who is not idle has a buffer, and it is that of the block it asked for: *)
(* a buffer with users is not recycled.                                    *)
HeldInv ==
  \A t \in User :
    IF upc[t] = "idle" THEN b[t] = None
    ELSE b[t] \in Bio!Buf /\ want[t] \in Block /\ blockno[b[t]] = want[t]

(* The sleep lock of a buffer is held by a user of it, at the points where *)
(* the code holds it; who sleeps on it sleeps while another holds it.      *)
LockInv ==
  /\ \A t \in User : upc[t] \in Bio!Holding => locked[b[t]] = t
  /\ \A t \in User : upc[t] = "asleep" => locked[b[t]] # None
  /\ \A i \in Bio!Buf : locked[i] # None => b[locked[i]] = i /\ upc[locked[i]] \in Bio!Holding

(* References are those of the users and that of the log.                  *)
Users(i) == {t \in User : b[t] = i}

CountInv ==
  /\ IsFiniteSet(pins) /\ Cardinality(pins) <= MaxPins
  /\ \A i \in Bio!Buf : refcnt[i] = Cardinality(Users(i)) + (IF blockno[i] \in pins THEN 1 ELSE 0)
  /\ \A i \in Bio!Buf : \E n \in Bio!Buf : lru[n] = i

(* A block is in one buffer, and a pinned block is in one that is valid.   *)
BlockInv ==
  /\ \A i, j \in Bio!Buf : blockno[i] = blockno[j] /\ i # j => blockno[i] = None
  /\ \A k \in pins : \E i \in valid : blockno[i] = k
  /\ \A i \in valid : blockno[i] # None

(* A valid buffer has what was stored last, whether or not somebody has it;*)
(* what neither the log nor a writer has is on the disk.                   *)
DataInv ==
  /\ \A i \in valid : data[i] = newest[blockno[i]]
  /\ \A t \in User :
       /\ upc[t] \in {"hold", "changed", "writing", "unpin"} => b[t] \in valid
       /\ upc[t] = "reading" => b[t] \notin valid
       /\ upc[t] = "unpin" => want[t] \in pins /\ store[want[t]] = newest[want[t]]
  /\ \A k \in Block \ pins :
       store[k] = newest[k] \/ \E t \in User : upc[t] \in {"changed", "writing"} /\ want[t] = k

CacheInv ==
  Bio!BcacheAssumption /\ Bio!TypeOK /\ HeldInv /\ LockInv /\ CountInv /\ BlockInv /\ DataInv

(* Bcache counts as this module does.                                      *)
LEMMA SameCounts ==
  /\ \A S : Bio!IsFiniteSet(S) <=> IsFiniteSet(S)
  /\ \A S : Bio!Cardinality(S) = Cardinality(S)
<1>1. \A S : Bio!IsFiniteSet(S) <=> IsFiniteSet(S)
  BY DEF Bio!IsFiniteSet, IsFiniteSet
<1>2. \A S : Bio!Cardinality(S) = Cardinality(S)
  BY DEF Bio!Cardinality, Cardinality
<1> QED
  BY <1>1, <1>2

LEMMA FewUsers ==
  ASSUME Bio!BcacheAssumption
  PROVE  IsFiniteSet(User)
<1>1. Bio!IsFiniteSet(User)
  BY Zenon DEF Bio!BcacheAssumption
<1> QED
  BY <1>1, SameCounts, Zenon

(***************************************************************************)
(* The list.                                                               *)
(***************************************************************************)
(* A buffer that the loops of bget() would stop at is in the list, and the *)
(* one that they take is a buffer.                                         *)
LEMMA Listed ==
  ASSUME CountInv, NEW i \in Bio!Buf
  PROVE  /\ \A k : blockno[i] = k => Bio!Cached(k) # {}
         /\ refcnt[i] = 0 => Bio!Unused # {}
BY DEF CountInv, Bio!Cached, Bio!Unused

(* Moving a buffer to the front keeps all of them in the list.             *)
LEMMA Moved ==
  ASSUME Bio!BcacheAssumption, Bio!TypeOK, CountInv, NEW i \in Bio!Buf
  PROVE  Bio!ToFront(i) \in [Bio!Buf -> Bio!Buf] /\ \A j \in Bio!Buf : \E n \in Bio!Buf : Bio!ToFront(i)[n] = j
<1> DEFINE p == CHOOSE n \in Bio!Buf : lru[n] = i
<1>1. p \in Bio!Buf /\ lru[p] = i
  BY DEF CountInv
<1>2. Bio!ToFront(i) = [m \in Bio!Buf |-> IF m = 1 THEN i ELSE IF m <= p THEN lru[m - 1] ELSE lru[m]]
  BY DEF Bio!ToFront
<1> HIDE DEF p
<1>3. NBUF \in Nat /\ Bio!Buf = 1 .. NBUF /\ 1 \in Bio!Buf
  BY DEF Bio!Buf, Bio!BcacheAssumption
<1>4. Bio!ToFront(i) \in [Bio!Buf -> Bio!Buf]
  <2>1. \A m \in Bio!Buf : m # 1 => m - 1 \in Bio!Buf
    BY <1>3
  <2> QED
    BY <1>1, <1>2, <2>1 DEF Bio!TypeOK
<1>5. ASSUME NEW j \in Bio!Buf PROVE \E n \in Bio!Buf : Bio!ToFront(i)[n] = j
  <2>1. PICK q \in Bio!Buf : lru[q] = j
    BY DEF CountInv
  <2>2. CASE q = p
    BY <1>1, <1>2, <1>3, <2>1, <2>2
  <2>3. CASE q < p
    <3>1. q + 1 \in Bio!Buf /\ q + 1 <= p /\ q + 1 # 1 /\ (q + 1) - 1 = q
      BY <1>1, <1>3, <2>1, <2>3
    <3> QED
      BY <1>2, <2>1, <3>1
  <2>4. CASE q > p
    <3>1. q # 1 /\ ~(q <= p)
      BY <1>1, <1>3, <2>1, <2>4
    <3> QED
      BY <1>2, <2>1, <3>1
  <2> QED
    BY <1>1, <1>3, <2>1, <2>2, <2>3, <2>4
<1> QED
  BY <1>4, <1>5

(***************************************************************************)
(* Who has a buffer.                                                       *)
(***************************************************************************)
(* Two users of a block have the same buffer, and one of them has its lock.*)
LEMMA SameBuffer ==
  ASSUME CacheInv, NEW s \in User, NEW t \in User, upc[s] # "idle", upc[t] # "idle",
         want[s] = want[t]
  PROVE  b[s] = b[t]
BY DEF CacheInv, HeldInv, BlockInv, Bio!BcacheAssumption

LEMMA Alone ==
  ASSUME CacheInv, NEW s \in User, NEW t \in User, upc[s] \in Bio!Holding, upc[t] \in Bio!Holding,
         b[s] = b[t] \/ want[s] = want[t]
  PROVE  s = t
<1>1. upc[s] # "idle" /\ upc[t] # "idle"
  BY DEF Bio!Holding
<1> QED
  BY <1>1, SameBuffer DEF CacheInv, LockInv

(* A buffer that is recycled has no user and is not pinned.                *)
LEMMA Recycled ==
  ASSUME CacheInv, NEW i \in Bio!Buf, refcnt[i] = 0
  PROVE  blockno[i] \notin pins /\ \A t \in User : b[t] # i
<1>1. IsFiniteSet(Users(i))
  BY FS_Subset, FewUsers DEF Users, CacheInv
<1>2. Cardinality(Users(i)) \in Nat
  BY <1>1, FS_CardinalityType
<1>3. Cardinality(Users(i)) = 0 /\ blockno[i] \notin pins
  BY <1>2 DEF CacheInv, CountInv
<1> QED
  BY <1>1, <1>3, FS_EmptySet DEF Users

(* A buffer with a user has a reference, also when it is not pinned.       *)
LEMMA Referenced ==
  ASSUME CacheInv, NEW t \in User, upc[t] # "idle"
  PROVE  b[t] \in Bio!Buf /\ refcnt[b[t]] \in Nat \ {0} /\ refcnt[b[t]] - 1 \in Nat
<1>1. b[t] \in Bio!Buf /\ refcnt[b[t]] \in Nat
  BY DEF CacheInv, HeldInv, Bio!TypeOK
<1>2. refcnt[b[t]] # 0
  BY <1>1, Recycled
<1> QED
  BY <1>1, <1>2

(* A block that bget() does not find is in no buffer and not in the log.   *)
LEMMA Uncached ==
  ASSUME CacheInv, NEW k, Bio!Cached(k) = {}
  PROVE  k \notin pins /\ \A i \in Bio!Buf : blockno[i] # k
BY Listed DEF CacheInv, Bio!TypeOK, BlockInv

LEMMA Types == CacheInv /\ [Bio!Next]_(Bio!vars) => Bio!TypeOK'
<1> SUFFICES ASSUME CacheInv, [Bio!Next]_(Bio!vars) PROVE Bio!TypeOK'
  OBVIOUS
<1> USE DEF Bio!TypeOK
<1>1. Bio!TypeOK
  BY DEF CacheInv
<1>2. ASSUME NEW t \in User, NEW k \in Block, Bio!Bget(t, k) PROVE Bio!TypeOK'
  <2>1. \A n \in Bio!Buf : lru[n] \in Bio!Buf /\ refcnt[lru[n]] + 1 \in Nat
    BY <1>1
  <2> QED
    BY <1>1, <1>2, <2>1 DEF Bio!Bget, Bio!Goto, Bio!Using, Bio!Cached, Bio!Unused, Bio!Forget
<1>3. ASSUME NEW t \in User, Bio!AcquireSleep(t) PROVE Bio!TypeOK'
  <2>1. b[t] \in Bio!Buf
    BY <1>3 DEF Bio!AcquireSleep, CacheInv, HeldInv
  <2> QED
    BY <1>1, <1>3, <2>1 DEF Bio!AcquireSleep, Bio!Goto, Bio!Using, Bio!Holding, Bio!cache
<1>4. ASSUME NEW t \in User, Bio!Bread(t) \/ Bio!Bwrite(t) PROVE Bio!TypeOK'
  BY <1>1, <1>4 DEF Bio!Bread, Bio!Bwrite, Bio!Goto, Bio!Using, Bio!Holding, Bio!cache
<1>5. ASSUME NEW t \in User, Bio!Read(t) \/ Bio!Written(t) PROVE Bio!TypeOK'
  <2>1. b[t] \in Bio!Buf /\ blockno[b[t]] \in Block
    BY <1>5 DEF Bio!Read, Bio!Written, CacheInv, HeldInv
  <2> QED
    BY <1>1, <1>5, <2>1 DEF Bio!Read, Bio!Written, Bio!Goto, Bio!Using, Bio!Holding, Bio!cache
<1>6. ASSUME NEW t \in User, NEW v \in Value, Bio!Store(t, v) PROVE Bio!TypeOK'
  BY <1>1, <1>6 DEF Bio!Store, Bio!Goto, Bio!Using, Bio!Holding, Bio!cache
<1>7. ASSUME NEW t \in User, Bio!LogWrite(t) PROVE Bio!TypeOK'
  <2>1. b[t] \in Bio!Buf /\ blockno[b[t]] \in Block /\ refcnt[b[t]] + 1 \in Nat
    BY <1>1, <1>7 DEF Bio!LogWrite, CacheInv, HeldInv
  <2> QED
    BY <1>1, <1>7, <2>1 DEF Bio!LogWrite, Bio!Goto, Bio!Using, Bio!Holding
<1>8. ASSUME NEW t \in User, Bio!Bunpin(t) \/ Bio!Brelse(t) PROVE Bio!TypeOK'
  <2>1. b[t] \in Bio!Buf /\ refcnt[b[t]] - 1 \in Nat
    BY <1>8, Referenced DEF Bio!Bunpin, Bio!Brelse
  <2>2. Bio!ToFront(b[t]) \in [Bio!Buf -> Bio!Buf]
    BY <1>1, <2>1, Moved DEF CacheInv
  <2> QED
    BY <1>1, <1>8, <2>1, <2>2 DEF Bio!Bunpin, Bio!Brelse, Bio!Goto, Bio!Using, Bio!Holding
<1>9. ASSUME NEW t \in User, Bio!ReleaseSleep(t) PROVE Bio!TypeOK'
  BY <1>1, <1>9 DEF Bio!ReleaseSleep, Bio!Using, Bio!Holding, Bio!cache
<1>10. CASE UNCHANGED Bio!vars
  BY <1>1, <1>10 DEF Bio!vars, Bio!cache
<1> QED
  BY <1>2, <1>3, <1>4, <1>5, <1>6, <1>7, <1>8, <1>9, <1>10 DEF Bio!Next

LEMMA Helds == CacheInv /\ [Bio!Next]_(Bio!vars) => HeldInv'
<1> SUFFICES ASSUME CacheInv, [Bio!Next]_(Bio!vars) PROVE HeldInv'
  OBVIOUS
<1> USE DEF HeldInv
<1>1. Bio!TypeOK /\ HeldInv
  BY DEF CacheInv
<1>2. ASSUME NEW t \in User, NEW k \in Block, Bio!Bget(t, k) PROVE HeldInv'
  <2>1. CASE Bio!Cached(k) # {}
    <3>1. PICK n \in Bio!Cached(k) : b' = [b EXCEPT ![t] = lru[n]] /\ UNCHANGED blockno
      BY <1>2, <2>1 DEF Bio!Bget
    <3>2. lru[n] \in Bio!Buf /\ blockno[lru[n]] = k
      BY <1>1 DEF Bio!Cached, Bio!TypeOK
    <3> QED
      BY <1>1, <1>2, <3>1, <3>2 DEF Bio!Bget, Bio!Goto, Bio!TypeOK
  <2>2. CASE Bio!Cached(k) = {}
    <3>1. PICK n \in Bio!Unused : b' = [b EXCEPT ![t] = lru[n]] /\ blockno' = [blockno EXCEPT ![lru[n]] = k]
      BY <1>2, <2>2 DEF Bio!Bget
    <3>2. lru[n] \in Bio!Buf /\ \A s \in User : b[s] # lru[n]
      BY <1>1, Recycled DEF Bio!Unused, Bio!TypeOK
    <3> QED
      BY <1>1, <1>2, <3>1, <3>2 DEF Bio!Bget, Bio!Goto, Bio!TypeOK
  <2> QED
    BY <2>1, <2>2
<1>3. ASSUME NEW t \in User, Bio!AcquireSleep(t) PROVE HeldInv'
  BY <1>1, <1>3 DEF Bio!AcquireSleep, Bio!Goto, Bio!TypeOK, Bio!cache
<1>4. ASSUME NEW t \in User, Bio!Bread(t) \/ Bio!Bwrite(t) \/ Bio!Read(t) \/ Bio!Written(t)
      PROVE  HeldInv'
  BY <1>1, <1>4 DEF Bio!Bread, Bio!Bwrite, Bio!Read, Bio!Written, Bio!Goto, Bio!TypeOK, Bio!cache
<1>5. ASSUME NEW t \in User, NEW v \in Value, Bio!Store(t, v) PROVE HeldInv'
  BY <1>1, <1>5 DEF Bio!Store, Bio!Goto, Bio!TypeOK, Bio!cache
<1>6. ASSUME NEW t \in User, Bio!LogWrite(t) \/ Bio!Bunpin(t) PROVE HeldInv'
  BY <1>1, <1>6 DEF Bio!LogWrite, Bio!Bunpin, Bio!Goto, Bio!TypeOK
<1>7. ASSUME NEW t \in User, Bio!ReleaseSleep(t) PROVE HeldInv'
  BY <1>1, <1>7 DEF Bio!ReleaseSleep, Bio!cache
<1>8. ASSUME NEW t \in User, Bio!Brelse(t) PROVE HeldInv'
  BY <1>1, <1>8 DEF Bio!Brelse, Bio!Goto, Bio!TypeOK
<1>9. CASE UNCHANGED Bio!vars
  BY <1>1, <1>9 DEF Bio!vars, Bio!cache
<1> QED
  BY <1>2, <1>3, <1>4, <1>5, <1>6, <1>7, <1>8, <1>9 DEF Bio!Next

LEMMA Locks == CacheInv /\ [Bio!Next]_(Bio!vars) => LockInv'
<1> SUFFICES ASSUME CacheInv, [Bio!Next]_(Bio!vars) PROVE LockInv'
  OBVIOUS
<1> USE DEF LockInv
<1>1. Bio!TypeOK /\ HeldInv /\ LockInv /\ None \notin User /\ None \notin Bio!Buf
  BY DEF CacheInv, Bio!BcacheAssumption
<1>2. ASSUME NEW t \in User, NEW k \in Block, Bio!Bget(t, k) PROVE LockInv'
  <2>1. PICK i \in Bio!Buf : b' = [b EXCEPT ![t] = i]
    BY <1>1, <1>2 DEF Bio!Bget, Bio!Cached, Bio!Unused, Bio!TypeOK
  <2>2. /\ \A s \in User : s # t => b'[s] = b[s] /\ upc'[s] = upc[s]
        /\ upc[t] = "idle" /\ upc'[t] = "acquire" /\ locked' = locked
    BY <1>1, <1>2, <2>1 DEF Bio!Bget, Bio!Goto, Bio!TypeOK
  <2>3. \A j \in Bio!Buf : locked[j] # None => locked[j] \in User /\ locked[j] # t
    BY <1>1, <2>2 DEF Bio!TypeOK, Bio!Holding
  <2> QED
    BY <1>1, <2>2, <2>3 DEF Bio!Holding
<1>3. ASSUME NEW t \in User, Bio!AcquireSleep(t) PROVE LockInv'
  <2>1. b[t] \in Bio!Buf /\ b' = b
    BY <1>1, <1>3 DEF Bio!AcquireSleep, HeldInv
  <2>2. CASE locked[b[t]] = None
    <3>1. /\ locked' = [locked EXCEPT ![b[t]] = t] /\ upc' = [upc EXCEPT ![t] = "locked"]
          /\ upc[t] = "acquire"
      BY <1>3, <2>2 DEF Bio!AcquireSleep, Bio!Goto
    <3>2. \A s \in User : s # t => upc'[s] = upc[s]
      BY <1>1, <3>1 DEF Bio!TypeOK
    <3>3. \A s \in User : s # t /\ upc[s] \in Bio!Holding => b[s] \in Bio!Buf /\ b[s] # b[t]
      BY <1>1, <2>2 DEF HeldInv, Bio!Holding
    <3>4. \A i \in Bio!Buf : locked'[i] = IF i = b[t] THEN t ELSE locked[i]
      BY <1>1, <3>1 DEF Bio!TypeOK
    <3>5. \A s \in User : upc[s] = "asleep" => b[s] \in Bio!Buf
      BY <1>1 DEF HeldInv
    <3>6. upc'[t] = "locked"
      BY <1>1, <3>1 DEF Bio!TypeOK
    <3>7. \A i \in Bio!Buf : locked[i] # None => locked[i] \in User /\ locked[i] # t
      BY <1>1, <3>1 DEF Bio!TypeOK, Bio!Holding
    <3> QED
      BY <1>1, <2>1, <3>1, <3>2, <3>3, <3>4, <3>5, <3>6, <3>7 DEF Bio!Holding
  <2>3. CASE locked[b[t]] # None
    BY <1>1, <1>3, <2>1, <2>3 DEF Bio!AcquireSleep, Bio!Goto, Bio!TypeOK, Bio!Holding
  <2> QED
    BY <2>2, <2>3
<1>4. ASSUME NEW t \in User, upc[t] \in Bio!Holding, upc' = [upc EXCEPT ![t] = upc'[t]],
             upc'[t] \in Bio!Holding, UNCHANGED <<locked, b>>
      PROVE  LockInv'
  BY <1>1, <1>4 DEF Bio!TypeOK, Bio!Holding
<1>5. ASSUME NEW t \in User,
             Bio!Bread(t) \/ Bio!Bwrite(t) \/ Bio!Read(t) \/ Bio!Written(t) \/ Bio!LogWrite(t) \/ Bio!Bunpin(t)
               \/ \E v \in Value : Bio!Store(t, v)
      PROVE  LockInv'
  BY <1>1, <1>4, <1>5
     DEF Bio!Bread, Bio!Bwrite, Bio!Read, Bio!Written, Bio!LogWrite, Bio!Bunpin, Bio!Store,
         Bio!Goto, Bio!TypeOK, Bio!Holding
<1>6. ASSUME NEW t \in User, Bio!ReleaseSleep(t) PROVE LockInv'
  <2>1. b[t] \in Bio!Buf /\ locked[b[t]] = t /\ b' = b /\ locked' = [locked EXCEPT ![b[t]] = None]
    BY <1>1, <1>6 DEF Bio!ReleaseSleep, HeldInv, Bio!Holding
  <2>2. \A s \in User : s # t /\ upc[s] \in Bio!Holding => upc'[s] = upc[s] /\ b[s] # b[t]
    BY <1>1, <1>6, <2>1 DEF Bio!ReleaseSleep, Bio!Holding
  <2>3. \A s \in User : upc'[s] \in Bio!Holding => upc[s] \in Bio!Holding /\ s # t
    BY <1>6 DEF Bio!ReleaseSleep, Bio!Holding
  <2>4. \A s \in User : upc'[s] = "asleep" => upc[s] = "asleep" /\ b[s] # b[t] /\ b[s] \in Bio!Buf
    BY <1>1, <1>6 DEF Bio!ReleaseSleep, HeldInv
  <2>5. \A s \in User : upc'[s] \in Bio!Holding => locked'[b'[s]] = s
    <3>1. \A s \in User : upc[s] \in Bio!Holding => b[s] \in Bio!Buf
      BY <1>1 DEF HeldInv, Bio!Holding
    <3> QED
      BY <1>1, <2>1, <2>2, <2>3, <3>1 DEF Bio!TypeOK
  <2>6. \A s \in User : upc'[s] = "asleep" => locked'[b'[s]] # None
    BY <1>1, <2>1, <2>4 DEF Bio!TypeOK
  <2>7. ASSUME NEW i \in Bio!Buf, locked'[i] # None
        PROVE  b'[locked'[i]] = i /\ upc'[locked'[i]] \in Bio!Holding
    <3>1. i # b[t] /\ locked'[i] = locked[i] /\ locked[i] \in User
      BY <1>1, <2>1, <2>7 DEF Bio!TypeOK
    <3> QED
      BY <1>1, <2>1, <2>2, <3>1
  <2> QED
    BY <2>5, <2>6, <2>7
<1>7. ASSUME NEW t \in User, Bio!Brelse(t) PROVE LockInv'
  <2>1. /\ \A s \in User : s # t => b'[s] = b[s] /\ upc'[s] = upc[s]
        /\ upc[t] = "unlocked" /\ upc'[t] = "idle" /\ locked' = locked
    BY <1>1, <1>7 DEF Bio!Brelse, Bio!Goto, Bio!TypeOK
  <2>2. \A j \in Bio!Buf : locked[j] # None => locked[j] \in User /\ locked[j] # t
    BY <1>1, <2>1 DEF Bio!TypeOK, Bio!Holding
  <2> QED
    BY <1>1, <2>1, <2>2 DEF Bio!Holding
<1>8. CASE UNCHANGED Bio!vars
  BY <1>1, <1>8 DEF Bio!vars
<1> QED
  BY <1>2, <1>3, <1>5, <1>6, <1>7, <1>8 DEF Bio!Next

(***************************************************************************)
(* References.                                                             *)
(***************************************************************************)
LEMMA Gains ==
  ASSUME Bio!BcacheAssumption, Bio!TypeOK, NEW t \in User, NEW i \in Bio!Buf,
         b[t] = None, b' = [b EXCEPT ![t] = i]
  PROVE  /\ Cardinality(Users(i)') = Cardinality(Users(i)) + 1
         /\ \A j \in Bio!Buf \ {i} : Users(j)' = Users(j)
<1>1. None \notin Bio!Buf /\ IsFiniteSet(Users(i))
  BY FS_Subset, FewUsers DEF Users, Bio!BcacheAssumption
<1>2. Users(i)' = Users(i) \cup {t} /\ t \notin Users(i)
  BY <1>1 DEF Users, Bio!TypeOK
<1>3. \A j \in Bio!Buf \ {i} : Users(j)' = Users(j)
  BY <1>1 DEF Users, Bio!TypeOK
<1> QED
  BY <1>1, <1>2, <1>3, FS_AddElement

LEMMA Loses ==
  ASSUME Bio!BcacheAssumption, Bio!TypeOK, NEW t \in User, NEW i \in Bio!Buf,
         b[t] = i, b' = [b EXCEPT ![t] = None]
  PROVE  /\ Cardinality(Users(i)') = Cardinality(Users(i)) - 1
         /\ \A j \in Bio!Buf \ {i} : Users(j)' = Users(j)
<1>1. None \notin Bio!Buf /\ IsFiniteSet(Users(i))
  BY FS_Subset, FewUsers DEF Users, Bio!BcacheAssumption
<1>2. Users(i)' = Users(i) \ {t} /\ t \in Users(i)
  BY <1>1 DEF Users, Bio!TypeOK
<1>3. \A j \in Bio!Buf \ {i} : Users(j)' = Users(j)
  BY <1>1 DEF Users, Bio!TypeOK
<1> QED
  BY <1>1, <1>2, <1>3, FS_RemoveElement

LEMMA Counts == CacheInv /\ [Bio!Next]_(Bio!vars) => CountInv'
<1> SUFFICES ASSUME CacheInv, [Bio!Next]_(Bio!vars) PROVE CountInv'
  OBVIOUS
<1>1. /\ Bio!BcacheAssumption /\ Bio!TypeOK /\ CountInv /\ None \notin Bio!Buf
      /\ \A i \in Bio!Buf : Cardinality(Users(i)) \in Nat
  <2>1. \A i \in Bio!Buf : IsFiniteSet(Users(i))
    BY FS_Subset, FewUsers DEF Users, CacheInv
  <2> QED
    BY <2>1, FS_CardinalityType DEF CacheInv, Bio!BcacheAssumption
<1>2. ASSUME NEW t \in User, NEW k \in Block, Bio!Bget(t, k) PROVE CountInv'
  <2>1. upc[t] = "idle" /\ b[t] = None /\ UNCHANGED <<lru, pins>>
    BY <1>2 DEF Bio!Bget, CacheInv, HeldInv
  <2>2. CASE Bio!Cached(k) # {}
    <3>1. PICK n \in Bio!Cached(k) : /\ b' = [b EXCEPT ![t] = lru[n]]
                                 /\ refcnt' = [refcnt EXCEPT ![lru[n]] = @ + 1]
                                 /\ UNCHANGED blockno
      BY <1>2, <2>2 DEF Bio!Bget
    <3>2. PICK i \in Bio!Buf : i = lru[n]
      BY <1>1 DEF Bio!Cached, Bio!TypeOK
    <3>3. /\ Cardinality(Users(i)') = Cardinality(Users(i)) + 1
          /\ \A j \in Bio!Buf \ {i} : Users(j)' = Users(j)
      BY <1>1, <2>1, <3>1, <3>2, Gains
    <3>4. \A j \in Bio!Buf : refcnt'[j] = IF j = i THEN refcnt[j] + 1 ELSE refcnt[j]
      BY <1>1, <3>1, <3>2 DEF Bio!TypeOK
    <3> QED
      BY <1>1, <2>1, <3>1, <3>3, <3>4 DEF CountInv
  <2>3. CASE Bio!Cached(k) = {}
    <3>1. PICK n \in Bio!Unused : /\ b' = [b EXCEPT ![t] = lru[n]]
                              /\ refcnt' = [refcnt EXCEPT ![lru[n]] = 1]
                              /\ blockno' = [blockno EXCEPT ![lru[n]] = k]
      BY <1>2, <2>3 DEF Bio!Bget
    <3>2. PICK i \in Bio!Buf : i = lru[n] /\ refcnt[i] = 0
      BY <1>1 DEF Bio!Unused, Bio!TypeOK
    <3>3. /\ Cardinality(Users(i)') = Cardinality(Users(i)) + 1
          /\ \A j \in Bio!Buf \ {i} : Users(j)' = Users(j)
      BY <1>1, <2>1, <3>1, <3>2, Gains
    <3>4. Cardinality(Users(i)) = 0
      BY <1>1, <3>2 DEF CountInv
    <3>5. k \notin pins
      BY <2>3, Uncached
    <3>6. \A j \in Bio!Buf : /\ refcnt'[j] = IF j = i THEN 1 ELSE refcnt[j]
                         /\ blockno'[j] = IF j = i THEN k ELSE blockno[j]
      BY <1>1, <3>1, <3>2 DEF Bio!TypeOK
    <3> QED
      BY <1>1, <2>1, <3>3, <3>4, <3>5, <3>6 DEF CountInv
  <2> QED
    BY <2>2, <2>3
<1>3. ASSUME UNCHANGED <<lru, refcnt, blockno, pins, b>> PROVE CountInv'
  BY <1>1, <1>3 DEF CountInv, Users
<1>4. ASSUME NEW t \in User,
             Bio!AcquireSleep(t) \/ Bio!Bread(t) \/ Bio!Read(t) \/ Bio!Bwrite(t) \/ Bio!Written(t) \/ Bio!ReleaseSleep(t)
               \/ \E v \in Value : Bio!Store(t, v)
      PROVE  CountInv'
  BY <1>3, <1>4
     DEF Bio!AcquireSleep, Bio!Bread, Bio!Read, Bio!Bwrite, Bio!Written, Bio!ReleaseSleep,
         Bio!Store, Bio!cache
<1>5. ASSUME NEW t \in User, Bio!LogWrite(t) PROVE CountInv'
  <2> DEFINE i == b[t]
             k == blockno[i]
  <2>1. i \in Bio!Buf /\ k \in Block /\ UNCHANGED <<lru, blockno, b>> /\ pins' = pins \cup {k}
    BY <1>5 DEF Bio!LogWrite, CacheInv, HeldInv
  <2>2. \A j \in Bio!Buf : Users(j)' = Users(j)
    BY <2>1 DEF Users
  <2>3. IsFiniteSet(pins') /\ Cardinality(pins') <= MaxPins
    <3>1. Bio!Cardinality(pins \cup {k}) <= MaxPins
      BY <1>5, Zenon DEF Bio!LogWrite
    <3>2. Cardinality(pins') <= MaxPins
      BY <2>1, <3>1, SameCounts, Zenon
    <3> QED
      BY <1>1, <2>1, <3>2, FS_AddElement DEF CountInv
  <2>4. \A j \in Bio!Buf : refcnt'[j] = IF j = i /\ k \notin pins THEN refcnt[j] + 1 ELSE refcnt[j]
    BY <1>1, <1>5, <2>1 DEF Bio!LogWrite, Bio!TypeOK
  <2>5. \A j \in Bio!Buf : blockno[j] \in pins' <=> blockno[j] \in pins \/ j = i
    BY <2>1 DEF CacheInv, BlockInv, Bio!BcacheAssumption
  <2> QED
    BY <1>1, <2>1, <2>2, <2>3, <2>4, <2>5 DEF CountInv
<1>6. ASSUME NEW t \in User, Bio!Bunpin(t) PROVE CountInv'
  <2> DEFINE i == b[t]
             k == blockno[i]
  <2>1. /\ i \in Bio!Buf /\ k \in Block /\ k \in pins
        /\ UNCHANGED <<lru, blockno, b>> /\ pins' = pins \ {k}
    BY <1>6 DEF Bio!Bunpin, CacheInv, HeldInv, DataInv
  <2>2. \A j \in Bio!Buf : Users(j)' = Users(j)
    BY <2>1 DEF Users
  <2>3. IsFiniteSet(pins') /\ Cardinality(pins') <= MaxPins
    <3>1. Cardinality(pins') = Cardinality(pins) - 1 /\ IsFiniteSet(pins')
      BY <1>1, <2>1, FS_RemoveElement DEF CountInv
    <3>2. Cardinality(pins) \in Nat /\ MaxPins \in Nat
      BY <1>1, FS_CardinalityType DEF CountInv, Bio!BcacheAssumption
    <3> QED
      BY <1>1, <3>1, <3>2 DEF CountInv
  <2>4. \A j \in Bio!Buf : refcnt'[j] = IF j = i THEN refcnt[j] - 1 ELSE refcnt[j]
    BY <1>1, <1>6, <2>1 DEF Bio!Bunpin, Bio!TypeOK
  <2>5. \A j \in Bio!Buf : blockno[j] \in pins' <=> blockno[j] \in pins /\ j # i
    BY <2>1 DEF CacheInv, BlockInv, Bio!BcacheAssumption
  <2> QED
    BY <1>1, <2>1, <2>2, <2>3, <2>4, <2>5 DEF CountInv
<1>7. ASSUME NEW t \in User, Bio!Brelse(t) PROVE CountInv'
  <2>0. PICK i \in Bio!Buf : i = b[t]
    BY <1>7 DEF Bio!Brelse, CacheInv, HeldInv
  <2>1. UNCHANGED <<blockno, pins>> /\ b' = [b EXCEPT ![t] = None]
    BY <1>7 DEF Bio!Brelse
  <2>2. /\ Cardinality(Users(i)') = Cardinality(Users(i)) - 1
        /\ \A j \in Bio!Buf \ {i} : Users(j)' = Users(j)
    BY <1>1, <2>0, <2>1, Loses, Zenon
  <2>3. \A j \in Bio!Buf : refcnt'[j] = IF j = i THEN refcnt[j] - 1 ELSE refcnt[j]
    BY <1>1, <1>7, <2>0 DEF Bio!Brelse, Bio!TypeOK
  <2>4. \A j \in Bio!Buf : \E n \in Bio!Buf : lru'[n] = j
    <3>1. lru' = Bio!ToFront(i) \/ lru' = lru
      BY <1>7, <2>0 DEF Bio!Brelse
    <3>2. \A j \in Bio!Buf : \E n \in Bio!Buf : Bio!ToFront(i)[n] = j
      BY <1>1, Moved
    <3> QED
      BY <1>1, <3>1, <3>2 DEF CountInv
  <2>5. \A j \in Bio!Buf : Cardinality(Users(j)') = IF j = i THEN Cardinality(Users(j)) - 1
                                                ELSE Cardinality(Users(j))
    BY <2>2
  <2>6. \A j \in Bio!Buf : refcnt'[j] = Cardinality(Users(j)') + (IF blockno[j] \in pins THEN 1 ELSE 0)
    BY <1>1, <2>3, <2>5 DEF CountInv
  <2> QED
    BY <1>1, <2>1, <2>4, <2>6 DEF CountInv
<1>8. CASE UNCHANGED Bio!vars
  BY <1>3, <1>8 DEF Bio!vars, Bio!cache
<1> QED
  BY <1>2, <1>4, <1>5, <1>6, <1>7, <1>8 DEF Bio!Next

LEMMA Blocks == CacheInv /\ [Bio!Next]_(Bio!vars) => BlockInv'
<1> SUFFICES ASSUME CacheInv, [Bio!Next]_(Bio!vars) PROVE BlockInv'
  OBVIOUS
<1> USE DEF BlockInv
<1>1. Bio!TypeOK /\ BlockInv /\ None \notin Block
  BY DEF CacheInv, Bio!BcacheAssumption
<1>2. ASSUME NEW t \in User, NEW k \in Block, Bio!Bget(t, k) PROVE BlockInv'
  <2>1. CASE Bio!Cached(k) # {}
    BY <1>1, <1>2, <2>1 DEF Bio!Bget
  <2>2. CASE Bio!Cached(k) = {}
    <3>1. PICK n \in Bio!Unused : /\ blockno' = [blockno EXCEPT ![lru[n]] = k]
                              /\ valid' = valid \ {lru[n]} /\ UNCHANGED pins
      BY <1>2, <2>2 DEF Bio!Bget, Bio!Forget
    <3>2. PICK i \in Bio!Buf : i = lru[n] /\ refcnt[i] = 0
      BY <1>1 DEF Bio!Unused, Bio!TypeOK
    <3>3. blockno[i] \notin pins /\ \A j \in Bio!Buf : blockno[j] # k
      BY <2>2, <3>2, Recycled, Uncached
    <3>4. \A j \in Bio!Buf : blockno'[j] = IF j = i THEN k ELSE blockno[j]
      BY <1>1, <3>1, <3>2 DEF Bio!TypeOK
    <3> QED
      BY <1>1, <3>1, <3>2, <3>3, <3>4 DEF Bio!TypeOK
  <2> QED
    BY <2>1, <2>2
<1>3. ASSUME NEW t \in User, Bio!Read(t) PROVE BlockInv'
  <2>1. blockno[b[t]] \in Block
    BY <1>3 DEF Bio!Read, CacheInv, HeldInv
  <2> QED
    BY <1>1, <1>3, <2>1 DEF Bio!Read
<1>4. ASSUME NEW t \in User, Bio!LogWrite(t) PROVE BlockInv'
  <2>1. b[t] \in valid
    BY <1>4 DEF Bio!LogWrite, CacheInv, DataInv
  <2> QED
    BY <1>1, <1>4, <2>1 DEF Bio!LogWrite
<1>5. ASSUME UNCHANGED <<blockno, valid>>, pins' \subseteq pins PROVE BlockInv'
  BY <1>1, <1>5
<1>6. ASSUME NEW t \in User,
             Bio!AcquireSleep(t) \/ Bio!Bread(t) \/ Bio!Bwrite(t) \/ Bio!Written(t) \/ Bio!ReleaseSleep(t)
               \/ Bio!Bunpin(t) \/ Bio!Brelse(t) \/ \E v \in Value : Bio!Store(t, v)
      PROVE  BlockInv'
  BY <1>5, <1>6
     DEF Bio!AcquireSleep, Bio!Bread, Bio!Bwrite, Bio!Written, Bio!ReleaseSleep, Bio!Bunpin,
         Bio!Brelse, Bio!Store, Bio!cache
<1>7. CASE UNCHANGED Bio!vars
  BY <1>5, <1>7 DEF Bio!vars, Bio!cache
<1> QED
  BY <1>2, <1>3, <1>4, <1>6, <1>7 DEF Bio!Next

(***************************************************************************)
(* Contents.                                                               *)
(***************************************************************************)
(* A step of a user that only takes it to another point.                   *)
LEMMA Moves ==
  ASSUME CacheInv, NEW t \in User, NEW l, upc' = [upc EXCEPT ![t] = l],
         UNCHANGED <<blockno, valid, data, store, pins, b, want, newest>>,
         upc[t] \in {"changed", "writing"} =>
           l \in {"changed", "writing"} \/ want[t] \in pins,
         l \in {"hold", "changed", "writing"} => b[t] \in valid,
         l = "reading" => b[t] \notin valid, l # "unpin"
  PROVE  DataInv'
<1>1. Bio!TypeOK /\ DataInv
  BY DEF CacheInv
<1>2. \A s \in User : upc'[s] = IF s = t THEN l ELSE upc[s]
  BY <1>1 DEF Bio!TypeOK
<1> QED
  BY <1>1, <1>2 DEF DataInv

LEMMA Datas == CacheInv /\ [Bio!Next]_(Bio!vars) => DataInv'
<1> SUFFICES ASSUME CacheInv, [Bio!Next]_(Bio!vars) PROVE DataInv'
  OBVIOUS
<1>1. Bio!TypeOK /\ HeldInv /\ BlockInv /\ DataInv /\ None \notin Block
  BY DEF CacheInv, Bio!BcacheAssumption
<1>2. ASSUME NEW t \in User, NEW k \in Block, Bio!Bget(t, k) PROVE DataInv'
  <2>1. PICK i \in Bio!Buf :
           /\ b' = [b EXCEPT ![t] = i]
           /\ \/ UNCHANGED <<blockno, valid>>
              \/ /\ Bio!Cached(k) = {} /\ refcnt[i] = 0
                 /\ blockno' = [blockno EXCEPT ![i] = k] /\ valid' = valid \ {i}
    BY <1>1, <1>2 DEF Bio!Bget, Bio!Cached, Bio!Unused, Bio!Forget, Bio!TypeOK
  <2>2. /\ UNCHANGED <<data, store, pins, newest>>
        /\ upc[t] = "idle" /\ upc' = [upc EXCEPT ![t] = "acquire"] /\ want' = [want EXCEPT ![t] = k]
    BY <1>2 DEF Bio!Bget, Bio!Goto
  <2>3. \A s \in User : s # t => upc'[s] = upc[s] /\ b'[s] = b[s] /\ want'[s] = want[s]
    BY <1>1, <2>1, <2>2 DEF Bio!TypeOK
  <2>4. \A s \in User : s # t /\ upc[s] # "idle" => (b[s] \in valid' <=> b[s] \in valid)
    BY <2>1, Recycled
  <2>5. \A j \in valid' : j \in valid /\ blockno'[j] = blockno[j]
    BY <1>1, <2>1 DEF Bio!TypeOK
  <2>6. upc'[t] = "acquire"
    BY <1>1, <2>2 DEF Bio!TypeOK
  <2>7. \A j \in valid' : data'[j] = newest'[blockno'[j]]
    BY <1>1, <2>2, <2>5 DEF DataInv
  <2>8. ASSUME NEW s \in User
        PROVE  /\ upc'[s] \in {"hold", "changed", "writing", "unpin"} => b'[s] \in valid'
               /\ upc'[s] = "reading" => b'[s] \notin valid'
               /\ upc'[s] = "unpin" => want'[s] \in pins' /\ store'[want'[s]] = newest'[want'[s]]
    BY <1>1, <2>2, <2>3, <2>4, <2>6 DEF DataInv
  <2>9. \A m \in Block \ pins' :
          \/ store'[m] = newest'[m]
          \/ \E s \in User : upc'[s] \in {"changed", "writing"} /\ want'[s] = m
    BY <1>1, <2>2, <2>3 DEF DataInv
  <2> QED
    BY <2>7, <2>8, <2>9 DEF DataInv
<1>3. ASSUME NEW t \in User, Bio!AcquireSleep(t) PROVE DataInv'
  <2>1. \/ upc' = [upc EXCEPT ![t] = "locked"]
        \/ upc' = [upc EXCEPT ![t] = "asleep"]
    BY <1>3 DEF Bio!AcquireSleep, Bio!Goto
  <2> QED
    BY <1>3, <2>1, Moves DEF Bio!AcquireSleep, Bio!cache
<1>4. ASSUME NEW t \in User, Bio!Bread(t) PROVE DataInv'
  BY <1>4, Moves DEF Bio!Bread, Bio!Goto, Bio!cache
<1>5. ASSUME NEW t \in User, Bio!Bwrite(t) PROVE DataInv'
  <2>1. b[t] \in valid
    BY <1>1, <1>5 DEF Bio!Bwrite, DataInv
  <2> QED
    BY <1>5, <2>1, Moves DEF Bio!Bwrite, Bio!Goto, Bio!cache
<1>6. ASSUME NEW t \in User, Bio!Read(t) PROVE DataInv'
  <2> DEFINE k == want[t]
  <2>1. PICK i \in Bio!Buf : i = b[t] /\ blockno[i] = k /\ k \in Block /\ upc[t] = "reading" /\ i \notin valid
    BY <1>1, <1>6 DEF Bio!Read, HeldInv, DataInv
  <2>2. k \notin pins
    BY <1>1, <2>1 DEF BlockInv, Bio!TypeOK
  <2>3. ~ \E s \in User : upc[s] \in {"changed", "writing"} /\ want[s] = k
    <3>1. \A s \in User : upc[s] \in {"changed", "writing"} /\ want[s] = k => s = t
      BY <2>1, Alone DEF Bio!Holding
    <3> QED
      BY <2>1, <3>1
  <2>4. store[k] = newest[k]
    BY <1>1, <2>1, <2>2, <2>3 DEF DataInv
  <2>5. /\ data' = [data EXCEPT ![i] = store[k]] /\ valid' = valid \cup {i}
        /\ upc' = [upc EXCEPT ![t] = "hold"] /\ UNCHANGED <<blockno, store, pins, b, want, newest>>
    BY <1>6, <2>1 DEF Bio!Read, Bio!Goto
  <2>6. \A s \in User : upc[s] = "reading" /\ b[s] = i => s = t
    BY <2>1, Alone DEF Bio!Holding
  <2>7. \A s \in User : upc'[s] = IF s = t THEN "hold" ELSE upc[s]
    BY <1>1, <2>5 DEF Bio!TypeOK
  <2>8. \A j \in valid' : data'[j] = newest'[blockno'[j]]
    BY <1>1, <2>1, <2>4, <2>5 DEF DataInv, Bio!TypeOK
  <2>9. ASSUME NEW s \in User
        PROVE  /\ upc'[s] \in {"hold", "changed", "writing", "unpin"} => b'[s] \in valid'
               /\ upc'[s] = "reading" => b'[s] \notin valid'
               /\ upc'[s] = "unpin" => want'[s] \in pins' /\ store'[want'[s]] = newest'[want'[s]]
    BY <1>1, <2>1, <2>5, <2>6, <2>7 DEF DataInv
  <2>10. \A m \in Block \ pins' :
           \/ store'[m] = newest'[m]
           \/ \E s \in User : upc'[s] \in {"changed", "writing"} /\ want'[s] = m
    BY <1>1, <2>1, <2>5, <2>7 DEF DataInv
  <2> QED
    BY <2>8, <2>9, <2>10 DEF DataInv
<1>7. ASSUME NEW t \in User, NEW v \in Value, Bio!Store(t, v) PROVE DataInv'
  <2> DEFINE k == want[t]
  <2>1. PICK i \in Bio!Buf : i = b[t] /\ blockno[i] = k /\ k \in Block /\ upc[t] = "hold" /\ i \in valid
    BY <1>1, <1>7 DEF Bio!Store, HeldInv, DataInv
  <2>2. /\ data' = [data EXCEPT ![i] = v] /\ newest' = [newest EXCEPT ![k] = v]
        /\ upc' = [upc EXCEPT ![t] = "changed"] /\ UNCHANGED <<blockno, valid, store, pins, b, want>>
    BY <1>7, <2>1 DEF Bio!Store, Bio!Goto, Bio!cache
  <2>3. \A j \in valid : j # i => blockno[j] # k
    BY <1>1, <2>1 DEF BlockInv, Bio!TypeOK
  <2>4. \A s \in User : upc[s] = "unpin" => want[s] # k /\ want[s] \in Block
    BY <1>1, <2>1, Alone DEF Bio!Holding, HeldInv
  <2>5. \A s \in User : upc'[s] = IF s = t THEN "changed" ELSE upc[s]
    BY <1>1, <2>2 DEF Bio!TypeOK
  <2>6. \A j \in valid' : data'[j] = newest'[blockno'[j]]
    <3>1. \A j \in valid : j \in Bio!Buf /\ blockno[j] \in Block
      BY <1>1 DEF Bio!TypeOK, BlockInv
    <3> QED
      BY <1>1, <2>1, <2>2, <2>3, <3>1 DEF DataInv, Bio!TypeOK
  <2>7. ASSUME NEW s \in User
        PROVE  /\ upc'[s] \in {"hold", "changed", "writing", "unpin"} => b'[s] \in valid'
               /\ upc'[s] = "reading" => b'[s] \notin valid'
               /\ upc'[s] = "unpin" => want'[s] \in pins' /\ store'[want'[s]] = newest'[want'[s]]
    BY <1>1, <2>1, <2>2, <2>4, <2>5 DEF DataInv, Bio!TypeOK
  <2>8. \A m \in Block \ pins' :
           \/ store'[m] = newest'[m]
           \/ \E s \in User : upc'[s] \in {"changed", "writing"} /\ want'[s] = m
    <3>1. \A m \in Block : newest'[m] = IF m = k THEN v ELSE newest[m]
      BY <1>1, <2>2 DEF Bio!TypeOK
    <3>2. ASSUME NEW s \in User, upc[s] \in {"changed", "writing"}
          PROVE  upc'[s] \in {"changed", "writing"}
      BY <2>5, <3>2
    <3>3. upc'[t] = "changed"
      BY <2>5
    <3> QED
      BY <1>1, <2>2, <3>1, <3>2, <3>3 DEF DataInv
  <2> QED
    BY <2>6, <2>7, <2>8 DEF DataInv
<1>8. ASSUME NEW t \in User, Bio!LogWrite(t) PROVE DataInv'
  <2>1. /\ upc[t] = "changed" /\ upc' = [upc EXCEPT ![t] = "hold"] /\ pins' = pins \cup {want[t]}
        /\ UNCHANGED <<blockno, valid, data, store, b, want, newest>>
    BY <1>1, <1>8 DEF Bio!LogWrite, Bio!Goto, HeldInv
  <2>2. \A s \in User : upc'[s] = IF s = t THEN "hold" ELSE upc[s]
    BY <1>1, <2>1 DEF Bio!TypeOK
  <2> QED
    BY <1>1, <2>1, <2>2 DEF DataInv
<1>9. ASSUME NEW t \in User, Bio!Written(t) PROVE DataInv'
  <2> DEFINE k == want[t]
  <2>1. PICK i \in Bio!Buf : i = b[t] /\ blockno[i] = k /\ k \in Block /\ upc[t] = "writing" /\ i \in valid
    BY <1>1, <1>9 DEF Bio!Written, HeldInv, DataInv
  <2>2. /\ store' = [store EXCEPT ![k] = newest[k]]
        /\ upc' = [upc EXCEPT ![t] = IF k \in pins THEN "unpin" ELSE "hold"]
        /\ UNCHANGED <<blockno, valid, data, pins, b, want, newest>>
    BY ZenonT(60), <1>1, <1>9, <2>1 DEF Bio!Written, Bio!Goto, Bio!cache, DataInv
  <2>3. \A s \in User : upc'[s] = IF s = t THEN IF k \in pins THEN "unpin" ELSE "hold" ELSE upc[s]
    BY <1>1, <2>2 DEF Bio!TypeOK
  <2>4. \A m \in Block : store'[m] = IF m = k THEN newest[k] ELSE store[m]
    BY <1>1, <2>2 DEF Bio!TypeOK
  <2>5. \A s \in User : upc[s] = "unpin" => want[s] \in Block
    BY <1>1 DEF HeldInv
  <2>6. ASSUME NEW s \in User
        PROVE  /\ upc'[s] \in {"hold", "changed", "writing", "unpin"} => b'[s] \in valid'
               /\ upc'[s] = "reading" => b'[s] \notin valid'
               /\ upc'[s] = "unpin" => want'[s] \in pins' /\ store'[want'[s]] = newest'[want'[s]]
    BY <1>1, <2>1, <2>2, <2>3, <2>4, <2>5 DEF DataInv
  <2>7. \A m \in Block \ pins' :
           \/ store'[m] = newest'[m]
           \/ \E s \in User : upc'[s] \in {"changed", "writing"} /\ want'[s] = m
    BY <1>1, <2>2, <2>3, <2>4 DEF DataInv
  <2> QED
    BY <1>1, <2>2, <2>6, <2>7 DEF DataInv
<1>10. ASSUME NEW t \in User, Bio!Bunpin(t) PROVE DataInv'
  <2> DEFINE k == want[t]
  <2>1. /\ blockno[b[t]] = k /\ k \in Block /\ upc[t] = "unpin" /\ b[t] \in valid
        /\ store[k] = newest[k]
    BY <1>1, <1>10 DEF Bio!Bunpin, HeldInv, DataInv
  <2>2. /\ pins' = pins \ {k} /\ upc' = [upc EXCEPT ![t] = "hold"]
        /\ UNCHANGED <<blockno, valid, data, store, b, want, newest>>
    BY <1>10, <2>1 DEF Bio!Bunpin, Bio!Goto
  <2>3. \A s \in User : upc[s] = "unpin" /\ want[s] = k => s = t
    BY <2>1, Alone DEF Bio!Holding
  <2>4. \A s \in User : upc'[s] = IF s = t THEN "hold" ELSE upc[s]
    BY <1>1, <2>2 DEF Bio!TypeOK
  <2> QED
    BY <1>1, <2>1, <2>2, <2>3, <2>4 DEF DataInv
<1>11. ASSUME NEW t \in User, Bio!ReleaseSleep(t) PROVE DataInv'
  <2>1. \A s \in User : \/ upc'[s] = upc[s] /\ s # t
                        \/ upc'[s] \in {"unlocked", "acquire"} /\ upc[s] \in {"hold", "asleep"}
    BY <1>11 DEF Bio!ReleaseSleep
  <2> QED
    BY <1>1, <1>11, <2>1 DEF Bio!ReleaseSleep, DataInv, Bio!cache
<1>12. ASSUME NEW t \in User, Bio!Brelse(t) PROVE DataInv'
  <2>1. \A s \in User : \/ upc'[s] = upc[s] /\ b'[s] = b[s] /\ want'[s] = want[s]
                        \/ upc'[s] = "idle" /\ upc[s] = "unlocked"
    BY <1>1, <1>12 DEF Bio!Brelse, Bio!Goto, Bio!TypeOK
  <2> QED
    BY <1>1, <1>12, <2>1 DEF Bio!Brelse, DataInv
<1>13. CASE UNCHANGED Bio!vars
  BY <1>1, <1>13 DEF Bio!vars, Bio!cache, DataInv
<1> QED
  BY <1>2, <1>3, <1>4, <1>5, <1>6, <1>7, <1>8, <1>9, <1>10, <1>11, <1>12, <1>13 DEF Bio!Next

(***************************************************************************)
(* Results.                                                                *)
(***************************************************************************)
LEMMA CacheInit == Bio!BcacheAssumption /\ Bio!Init => CacheInv
<1> SUFFICES ASSUME Bio!BcacheAssumption, Bio!Init PROVE CacheInv
  OBVIOUS
<1>1. /\ NBUF \in Nat /\ MaxPins \in Nat /\ None \notin Block \cup User \cup Bio!Buf
      /\ Bio!Buf = 1 .. NBUF
  BY DEF Bio!Buf, Bio!BcacheAssumption
<1>2. Bio!TypeOK
  <2>1. \A i \in Bio!Buf : NBUF + 1 - i \in Bio!Buf
    BY <1>1
  <2> QED
    BY <2>1 DEF Bio!Init, Bio!TypeOK
<1>3. HeldInv /\ LockInv
  BY <1>1 DEF Bio!Init, HeldInv, LockInv, Bio!Holding
<1>4. CountInv
  <2>1. IsFiniteSet(pins) /\ Cardinality(pins) <= MaxPins
    BY <1>1, FS_EmptySet DEF Bio!Init
  <2>2. \A i \in Bio!Buf : Users(i) = {}
    BY <1>1 DEF Bio!Init, Users
  <2>3. \A i \in Bio!Buf : NBUF + 1 - i \in Bio!Buf /\ NBUF + 1 - (NBUF + 1 - i) = i
    BY <1>1
  <2>4. \A i \in Bio!Buf : refcnt[i] = Cardinality(Users(i)) + (IF blockno[i] \in pins THEN 1 ELSE 0)
    BY <2>2, FS_EmptySet DEF Bio!Init
  <2>5. \A i \in Bio!Buf : \E n \in Bio!Buf : lru[n] = i
    BY <2>3 DEF Bio!Init
  <2> QED
    BY <2>1, <2>4, <2>5 DEF CountInv
<1>5. BlockInv /\ DataInv
  BY DEF Bio!Init, BlockInv, DataInv
<1> QED
  BY <1>2, <1>3, <1>4, <1>5 DEF CacheInv

LEMMA CacheInvariance == Bio!Spec => []CacheInv
<1>1. CacheInv /\ [Bio!Next]_(Bio!vars) => CacheInv'
  BY Types, Helds, Locks, Counts, Blocks, Datas DEF CacheInv, Bio!BcacheAssumption, Bio!Buf
<1> QED
  BY CacheInit, BufferConstants, <1>1, PTL DEF Bio!Spec

LEMMA Image ==
  ASSUME NEW S, IsFiniteSet(S), NEW f, NEW T, T = {f[x] : x \in S}
  PROVE  IsFiniteSet(T) /\ Cardinality(T) <= Cardinality(S) /\ Cardinality(T) \in Nat
<1>1. [x \in S |-> f[x]] \in Surjection(S, T)
  BY DEF Surjection
<1> QED
  BY <1>1, FS_Surjection, FS_CardinalityType

(* With fewer users and pinned blocks than buffers, a buffer is unused.    *)
LEMMA Spare ==
  ASSUME CacheInv, Cardinality({t \in User : b[t] # None}) + Cardinality(pins) < NBUF
  PROVE  Bio!Unused # {}
<1> DEFINE Busy == {t \in User : b[t] # None}
           Taken == {b[s] : s \in Busy}
           place == [k \in pins |-> CHOOSE i \in valid : blockno[i] = k]
           Pinned == {place[k] : k \in pins}
<1>1. IsFiniteSet(User) /\ NBUF \in Nat
  BY FewUsers DEF CacheInv, Bio!BcacheAssumption
<1>2. IsFiniteSet(Busy) /\ Cardinality(Busy) \in Nat
  BY <1>1, FS_Subset, FS_CardinalityType
<1>3. IsFiniteSet(Taken) /\ Cardinality(Taken) <= Cardinality(Busy) /\ Cardinality(Taken) \in Nat
  BY <1>2, Image
<1>4. IsFiniteSet(pins) /\ Cardinality(pins) \in Nat
  BY FS_CardinalityType DEF CacheInv, CountInv
<1> HIDE DEF place
<1>5. IsFiniteSet(Pinned) /\ Cardinality(Pinned) <= Cardinality(pins) /\ Cardinality(Pinned) \in Nat
  BY <1>4, Image
<1>6. /\ IsFiniteSet(Taken \cup Pinned) /\ Cardinality(Taken \cup Pinned) \in Nat
      /\ Cardinality(Taken \cup Pinned) <= Cardinality(Taken) + Cardinality(Pinned)
  <2>1. /\ IsFiniteSet(Taken \cup Pinned)
        /\ Cardinality(Taken \cup Pinned)
             = Cardinality(Taken) + Cardinality(Pinned) - Cardinality(Taken \cap Pinned)
    BY <1>3, <1>5, FS_Union
  <2>2. Cardinality(Taken \cap Pinned) \in Nat /\ Cardinality(Taken \cup Pinned) \in Nat
    BY <1>3, <2>1, FS_Intersection, FS_CardinalityType
  <2> QED
    BY <1>3, <1>5, <2>1, <2>2
<1>7. Cardinality(Bio!Buf) = NBUF /\ IsFiniteSet(Bio!Buf)
  BY <1>1, FS_Interval DEF Bio!Buf
<1>8. Cardinality(Taken \cup Pinned) < NBUF
  BY <1>1, <1>2, <1>3, <1>4, <1>5, <1>6
<1>9. PICK i \in Bio!Buf : i \notin Taken \cup Pinned
  <2>1. Bio!Buf \in SUBSET (Taken \cup Pinned) => Cardinality(Bio!Buf) <= Cardinality(Taken \cup Pinned)
    BY <1>6, FS_Subset
  <2> QED
    BY <1>1, <1>6, <1>7, <1>8, <2>1
<1>10. Users(i) = {}
  BY <1>9 DEF Users, CacheInv, HeldInv, Bio!BcacheAssumption
<1>11. blockno[i] \notin pins
  BY <1>9 DEF CacheInv, BlockInv, Bio!TypeOK, place, Bio!BcacheAssumption
<1>12. refcnt[i] = 0
  <2>1. Cardinality(Users(i)) = 0
    BY <1>10, FS_EmptySet
  <2> QED
    BY <1>11, <2>1 DEF CacheInv, CountInv
<1> QED
  BY <1>12, Listed DEF CacheInv

(* A block is in one buffer at most, a buffer in use keeps its block,      *)
(* references are counted exactly, and bget() fails only when all are used *)
(* or pinned.                                                              *)
LEMMA OneEach == CacheInv => Bio!OneBuffer
<1>1. SUFFICES ASSUME CacheInv PROVE Bio!OneBuffer
  OBVIOUS
<1>2. \A t \in User : upc[t] \in Bio!Using => blockno[b[t]] = want[t]
  BY <1>1 DEF CacheInv, HeldInv, Bio!Using, Bio!Holding
<1>3. ASSUME NEW i \in Bio!Buf
      PROVE  refcnt[i] = Cardinality({t \in User : b[t] = i}) + Cardinality({blockno[i]} \cap pins)
  <2>1. {blockno[i]} \cap pins = IF blockno[i] \in pins THEN {blockno[i]} ELSE {}
    OBVIOUS
  <2>2. Cardinality({blockno[i]} \cap pins) = IF blockno[i] \in pins THEN 1 ELSE 0
    BY <2>1, FS_Singleton, FS_EmptySet
  <2> QED
    BY <1>1, <2>2 DEF CacheInv, CountInv, Users
<1>4. \A i \in Bio!Buf :
         refcnt[i] = Bio!Cardinality({t \in User : b[t] = i}) + Bio!Cardinality({blockno[i]} \cap pins)
  BY <1>3, SameCounts, Zenon
<1>5. /\ \A i, j \in Bio!Buf : blockno[i] = blockno[j] /\ i # j => blockno[i] = None
      /\ \A k \in pins : \E i \in valid : blockno[i] = k
  BY <1>1 DEF CacheInv, BlockInv
<1>6. Bio!Unused = {} =>
        NBUF <= Bio!Cardinality({t \in User : b[t] # None}) + Bio!Cardinality(pins)
  <2>1. PICK c, d : c = Cardinality({t \in User : b[t] # None}) /\ d = Cardinality(pins)
    OBVIOUS
  <2>2. IsFiniteSet({t \in User : b[t] # None}) /\ IsFiniteSet(pins) /\ NBUF \in Nat
    BY <1>1, FewUsers, FS_Subset DEF CacheInv, CountInv, Bio!BcacheAssumption
  <2>3. c \in Nat /\ d \in Nat
    BY <2>1, <2>2, FS_CardinalityType
  <2>4. Bio!Unused = {} => ~(c + d < NBUF)
    BY <1>1, <2>1, Spare
  <2>5. Bio!Unused = {} => NBUF <= c + d
    BY <2>2, <2>3, <2>4
  <2> QED
    BY <2>1, <2>5, SameCounts, Zenon
<1> QED
  BY <1>1, <1>2, <1>4, <1>5, <1>6, Zenon DEF Bio!OneBuffer

(* Who holds a buffer holds it alone and sees what was stored last.        *)
LEMMA SeesLast == CacheInv => Bio!Coherent
<1>1. SUFFICES ASSUME CacheInv PROVE Bio!Coherent
  OBVIOUS
<1>2. \A t \in User : upc[t] \in Bio!Holding <=> \E i \in Bio!Buf : locked[i] = t
  BY <1>1 DEF CacheInv, LockInv, HeldInv, Bio!Holding, Bio!BcacheAssumption
<1>3. \A t \in User : upc[t] \in {"hold", "changed", "writing", "unpin"} => data[b[t]] = newest[want[t]]
  BY <1>1 DEF CacheInv, HeldInv, DataInv
<1> QED
  BY <1>1, <1>2, <1>3 DEF Bio!Coherent, CacheInv, LockInv, DataInv

(* A block is in one buffer, a buffer in use keeps its block, references   *)
(* are counted exactly, and bget() panics only when all are in use or      *)
(* pinned.  Who holds one sees what was stored in its block last, and      *)
(* alone; what is neither pinned nor being written is on the disk; and who *)
(* sleeps on a sleep lock sleeps while another user holds it: for any      *)
(* number of buffers, blocks and users.                                    *)
THEOREM CacheIsCoherent == Bio!Spec => []Coherent
<1>1. CacheInv => Coherent
  BY OneEach, SeesLast DEF CacheInv, Coherent
<1> QED
  BY CacheInvariance, <1>1, PTL

=============================================================================
