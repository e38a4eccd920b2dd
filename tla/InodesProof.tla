----------------------------- MODULE InodesProof -----------------------------
(***************************************************************************)
(* Proofs about Inodes, for any threads, names and number of inodes: the   *)
(* references of an inode are counted, its links are covered, and none of  *)
(* the panics is reached.  No path of a call goes through "..".            *)
(***************************************************************************)
EXTENDS Inodes, SequenceTheorems, FiniteSetTheorems, TLAPS

(* A walk that follows ".." may reach a directory that was removed.        *)
NoDots == \A p \in Path : \A k \in DOMAIN p.elems : p.elems[k] # DotDot

(***************************************************************************)
(* What the instructions of a thread hold.                                 *)
(***************************************************************************)
Puts == {"put", "free", "freed", "drop"}
Walks == {"walk", "walkparent", "open", "create", "unlink", "link", "linkto", "chdir"}
Ends == {"put", "unlockput", "made", "unlinked", "existing", "badlink", "setcwd"}
Instr == [do : Puts \cup Walks \cup Ends \cup {"created", "victim"}, refs : Seq(Inum)]
Call == [kind : Kind, path : Path, new : Path]

(* All the instructions of t, and those after the first.                   *)
Left(t) == {todo[t][k] : k \in DOMAIN todo[t]}
Later(t) == {todo[t][k] : k \in DOMAIN todo[t] \ {1}}

(* x keeps inode i allocated: all but the end of an iput() that has freed  *)
(* it.                                                                     *)
Needs(x, i) == x.do \notin {"freed", "drop"} /\ \E j \in DOMAIN x.refs : x.refs[j] = i

(* The inode that x has locked.                                            *)
Owned(x) ==
  CASE x.do \in {"created", "victim"} -> x.refs[2]
    [] x.do \in {"unlockput", "made", "unlinked", "free", "freed"} -> x.refs[1]
    [] OTHER -> None

(* The inode whose nlink is one more for x than there are links.           *)
Pledged(x) ==
  CASE x.do \in {"walkparent", "linkto"} /\ Len(x.refs) = 2 -> x.refs[2]
    [] x.do \in {"badlink", "unlinked"} -> x.refs[1]
    [] OTHER -> None

Leaving(t) == \E x \in Left(t) : x.do = "setcwd"
Works(t, i) == ofile[t] = i \/ (cwd[t] = i /\ ~Leaving(t))
Uses(t, i) == Works(t, i) \/ \E x \in Left(t) : Needs(x, i)
Pledges(t, i) == \E x \in Left(t) : Pledged(x) = i

(***************************************************************************)
(* The invariant.                                                          *)
(***************************************************************************)
(* The instructions there are, with the call that they belong to.          *)
Shaped(t, x) ==
  /\ x \in Instr
  /\ Len(x.refs) = IF \/ x.do \in {"created", "victim", "linkto"}
                      \/ x.do = "walkparent" /\ call[t].kind = "link" THEN 2 ELSE 1
  /\ x.do \in {"walk", "walkparent", "create", "created", "unlink", "victim", "link", "linkto"}
       => call[t] \in Call
  /\ x.do \in {"walk", "walkparent"} => rest[t] # <<>>
  /\ x.do = "walk" => call[t].kind \in {"open", "link", "chdir"}
  /\ x.do = "link" => call[t].kind = "link"
  /\ x.do = "walkparent" => call[t].kind \in {"creat", "mkdir", "unlink", "link"}

(* What holds of the inodes that x refers to: in create() and sys_unlink() *)
(* the parent stays locked, and its entry of the name is as it was found.  *)
Backed(t, x) ==
  /\ \A i \in Inum : Needs(x, i) => disk[i].type # "free"
  /\ Owned(x) # None => holder[Owned(x)] = t
  /\ x.do \in {"create", "unlink", "linkto"} => disk[x.refs[1]].type = "dir"
  /\ x.do \in {"walkparent", "linkto"} /\ Len(x.refs) = 2 => disk[x.refs[2]].type = "file"
  /\ x.do \in {"created", "victim"} =>
       /\ disk[x.refs[2]].type = "dir" /\ table[x.refs[2]].valid
       /\ LastName(call[t].path) # DotDot
  /\ x.do = "victim" => entry[x.refs[2]][LastName(call[t].path)] = x.refs[1]
  /\ x.do = "created" => /\ entry[x.refs[2]][LastName(call[t].path)] = None
                         /\ disk[x.refs[1]] = [type |-> NewType(t), nlink |-> 0]
  /\ x.do = "unlinked" => table[x.refs[1]].valid

Chained(t) ==
  /\ Len(todo[t]) \in {0, 1, 2}
  /\ \A x \in Later(t) : /\ x.do \in Walks \cup Ends /\ Instruction(t).do \in Puts
                         /\ Instruction(t).do \in {"free", "freed"} => Owned(x) # Ref(t, 1)

ThreadInv ==
  /\ todo \in [Thread -> Seq(Instr)] /\ rest \in [Thread -> Seq(FileName)]
  /\ \A t \in Thread : Chained(t) /\ \A x \in Left(t) : Shaped(t, x) /\ Backed(t, x)
  /\ \A t \in Thread, i \in Inum : Works(t, i) => disk[i].type # "free"

(* Who has a lock knows it; what is cached of an inode is what is on the   *)
(* disk, but for one that was freed and is not yet given back.             *)
LockInv ==
  /\ \A t \in Thread, i \in Inum : holder[i] = t => \E x \in Left(t) : Owned(x) = i
  /\ \A i \in Inum : table[i].valid => \/ table[i].node = disk[i] /\ disk[i].type # "free"
                                       \/ \E t \in Thread : At(t, "freed") /\ Ref(t, 1) = i

FreeInv ==
  \A i \in Inum : /\ disk[i].type = "free" => disk[i] = Free
                  /\ disk[i].type # "dir" => entry[i] = NoEntry

(* An inode that is being freed or was just made has no link, and nobody   *)
(* else can come by it.                                                    *)
Secret(t) == At(t, "free") \/ At(t, "created")
Others(t, u) == IF u = t THEN Later(t) ELSE Left(u)
Sole(t) ==
  /\ disk[Ref(t, 1)].nlink = 0
  /\ \A u \in Thread : ~Works(u, Ref(t, 1)) /\ \A x \in Others(t, u) : ~Needs(x, Ref(t, 1))
SoleInv == \A t \in Thread : Secret(t) => Sole(t)

(* nlink covers the links there are and those that a call in progress has  *)
(* counted before it writes them or not yet taken back.                    *)
Pledgers(i) == {t \in Thread : Pledges(t, i)}
LinkInv ==
  /\ NoDangling /\ disk[RootIno].type = "dir"
  /\ \A i \in Inum : disk[i].type # "free" => Links(i) + Cardinality(Pledgers(i)) <= disk[i].nlink

Files(i) == {t \in Thread : ofile[t] = i}
Dirs(i) == {t \in Thread : cwd[t] = i /\ ~Leaving(t)}
Pointers(i) == {x \in Thread \X (1 .. 3) \X (1 .. 2) :
                  /\ x[2] <= Len(todo[x[1]]) /\ x[3] <= Len(todo[x[1]][x[2]].refs)
                  /\ todo[x[1]][x[2]].refs[x[3]] = i}
RefInv ==
  \A i \in Inum :
    table[i].ref = Cardinality(Files(i)) + Cardinality(Dirs(i)) + Cardinality(Pointers(i))

Inv == TypeOK /\ ThreadInv /\ LockInv /\ FreeInv /\ SoleInv /\ LinkInv /\ RefInv

(***************************************************************************)
(* Instructions.                                                           *)
(***************************************************************************)
LEMMA MadeInstr ==
  ASSUME NEW do \in Puts \cup Walks \cup Ends \cup {"created", "victim"}, NEW i \in Inum
  PROVE  /\ I(do, <<i>>) \in Instr /\ I(do, <<i>>).do = do
         /\ I(do, <<i>>).refs = <<i>> /\ Len(I(do, <<i>>).refs) = 1
         /\ I(do, <<i>>).refs[1] = i /\ DOMAIN I(do, <<i>>).refs = {1}
BY DEF I, Instr

LEMMA MadePair ==
  ASSUME NEW do \in Puts \cup Walks \cup Ends \cup {"created", "victim"}, NEW i \in Inum, NEW j \in Inum
  PROVE  /\ I(do, <<i, j>>) \in Instr /\ I(do, <<i, j>>).do = do
         /\ I(do, <<i, j>>).refs = <<i, j>> /\ Len(I(do, <<i, j>>).refs) = 2
         /\ I(do, <<i, j>>).refs[1] = i /\ I(do, <<i, j>>).refs[2] = j
         /\ DOMAIN I(do, <<i, j>>).refs = {1, 2}
BY DEF I, Instr

(* A thread with something left to do has a first instruction, and what it *)
(* needs are one or two inodes.                                            *)
LEMMA First ==
  ASSUME ThreadInv, NEW t \in Thread, todo[t] # <<>>
  PROVE  /\ todo[t] \in Seq(Instr) /\ Len(todo[t]) \in {1, 2} /\ Instruction(t) = todo[t][1]
         /\ Instruction(t) \in Instr /\ Instruction(t) \in Left(t)
         /\ Shaped(t, Instruction(t)) /\ Backed(t, Instruction(t))
         /\ Left(t) = {Instruction(t)} \cup Later(t)
         /\ Len(todo[t]) = 1 => Later(t) = {}
         /\ Len(todo[t]) = 2 => Later(t) = {todo[t][2]} /\ todo[t][2] \in Instr
<1>1. todo[t] \in Seq(Instr) /\ Len(todo[t]) \in {1, 2}
  <2>1. todo[t] \in Seq(Instr) /\ Len(todo[t]) \in {0, 1, 2}
    BY DEF ThreadInv, Chained
  <2> QED
    BY <2>1, EmptySeq
<1>2. Instruction(t) = todo[t][1] /\ DOMAIN todo[t] = 1 .. Len(todo[t]) /\ 1 \in DOMAIN todo[t]
  BY <1>1 DEF Instruction
<1>3. Instruction(t) \in Left(t) /\ Instruction(t) \in Instr
  BY <1>1, <1>2 DEF Left
<1>4. Left(t) = {Instruction(t)} \cup Later(t)
  BY <1>1, <1>2 DEF Left, Later
<1>5. Len(todo[t]) = 1 => Later(t) = {}
  BY <1>2 DEF Later
<1>6. Len(todo[t]) = 2 => Later(t) = {todo[t][2]} /\ todo[t][2] \in Instr
  BY <1>1, <1>2 DEF Later
<1> QED
  BY <1>1, <1>2, <1>3, <1>4, <1>5, <1>6 DEF ThreadInv

LEMMA Idle ==
  ASSUME ThreadInv, NEW t \in Thread, todo[t] = <<>>
  PROVE  Left(t) = {} /\ Later(t) = {}
BY DEF Left, Later

LEMMA Refs ==
  ASSUME NEW x \in Instr, Len(x.refs) \in {1, 2}
  PROVE  /\ x.refs \in Seq(Inum) /\ x.refs[1] \in Inum /\ 1 \in DOMAIN x.refs
         /\ DOMAIN x.refs = 1 .. Len(x.refs)
         /\ Len(x.refs) = 2 => x.refs[2] \in Inum /\ 2 \in DOMAIN x.refs
         /\ \A i : Needs(x, i) <=> /\ x.do \notin {"freed", "drop"}
                                   /\ x.refs[1] = i \/ (Len(x.refs) = 2 /\ x.refs[2] = i)
<1>1. x.refs \in Seq(Inum) /\ DOMAIN x.refs = 1 .. Len(x.refs)
  BY DEF Instr
<1>2. x.refs[1] \in Inum /\ (Len(x.refs) = 2 => x.refs[2] \in Inum)
  BY <1>1
<1>3. \A i : (\E j \in DOMAIN x.refs : x.refs[j] = i)
              <=> x.refs[1] = i \/ (Len(x.refs) = 2 /\ x.refs[2] = i)
  BY <1>1
<1> QED
  BY <1>1, <1>2, <1>3 DEF Needs

(* How often x refers to i, and the instructions of s.                     *)
Occurs(x, i) == (IF x.refs[1] = i THEN 1 ELSE 0)
                + (IF Len(x.refs) = 2 /\ x.refs[2] = i THEN 1 ELSE 0)
Total(s, i) == (IF s # <<>> THEN Occurs(s[1], i) ELSE 0)
               + (IF Len(s) = 2 THEN Occurs(s[2], i) ELSE 0)
Held(t, i) == Total(todo[t], i)
All(s) == {s[k] : k \in DOMAIN s}
After(s) == {s[k] : k \in DOMAIN s \ {1}}

LEMMA OccursType ==
  ASSUME NEW x, NEW i PROVE Occurs(x, i) \in Nat
BY DEF Occurs

LEMMA OfLength ==
  ASSUME NEW S, NEW s \in Seq(S)
  PROVE  /\ Len(s) = 0 => s = <<>> /\ After(s) = {} /\ All(s) = {} /\ \A i : Total(s, i) = 0
         /\ Len(s) = 1 => s # <<>> /\ After(s) = {} /\ All(s) = {s[1]}
                          /\ \A i : Total(s, i) = Occurs(s[1], i)
         /\ Len(s) = 2 => s # <<>> /\ After(s) = {s[2]} /\ All(s) = {s[1], s[2]}
                          /\ \A i : Total(s, i) = Occurs(s[1], i) + Occurs(s[2], i)
<1>1. DOMAIN s = 1 .. Len(s) /\ (s = <<>> <=> Len(s) = 0)
  BY EmptySeq, LenProperties
<1>2. \A i : Occurs(s[1], i) \in Nat /\ Occurs(s[2], i) \in Nat
  BY DEF Occurs
<1>3. CASE Len(s) = 0
  BY <1>1, <1>3 DEF After, All, Total
<1>4. CASE Len(s) = 1
  <2>1. s # <<>> /\ DOMAIN s = {1} /\ Len(s) # 2
    BY <1>1, <1>4
  <2>2. After(s) = {} /\ All(s) = {s[1]}
    BY <2>1 DEF After, All
  <2>3. \A i : Total(s, i) = Occurs(s[1], i)
    BY <1>2, <2>1 DEF Total
  <2> QED
    BY <1>4, <2>1, <2>2, <2>3
<1>5. CASE Len(s) = 2
  <2>1. s # <<>> /\ DOMAIN s = {1, 2}
    BY <1>1, <1>5
  <2>2. After(s) = {s[2]} /\ All(s) = {s[1], s[2]}
    BY <2>1 DEF After, All
  <2>3. \A i : Total(s, i) = Occurs(s[1], i) + Occurs(s[2], i)
    BY <1>5, <2>1 DEF Total
  <2> QED
    BY <1>5, <2>1, <2>2, <2>3
<1> QED
  BY <1>3, <1>4, <1>5

LEMMA Tuples ==
  ASSUME NEW S, NEW x \in S, NEW y \in S
  PROVE  /\ <<x>> \in Seq(S) /\ Len(<<x>>) = 1 /\ <<x>>[1] = x
         /\ <<x, y>> \in Seq(S) /\ Len(<<x, y>>) = 2 /\ <<x, y>>[1] = x /\ <<x, y>>[2] = y
OBVIOUS

(* The rest of a sequence of one or two after something short.             *)
LEMMA Spliced ==
  ASSUME NEW S, NEW s \in Seq(S), NEW n \in {1, 2}, Len(s) = n,
         NEW is \in Seq(S), NEW m \in {0, 1, 2}, Len(is) = m, n = 1 \/ m < 2
  PROVE  /\ is \o Tail(s) \in Seq(S) /\ Len(is \o Tail(s)) = m + n - 1
         /\ \A k \in 1 .. m : (is \o Tail(s))[k] = is[k]
         /\ n = 2 => (is \o Tail(s))[m + 1] = s[2]
<1>1. s # <<>>
  BY EmptySeq
<1>2. PICK r : r = Tail(s)
  OBVIOUS
<1>3. r \in Seq(S) /\ Len(r) = n - 1 /\ \A i \in 1 .. Len(r) : r[i] = s[i + 1]
  BY <1>1, <1>2, HeadTailProperties
<1>4. PICK c : c = is \o r
  OBVIOUS
<1>5. /\ c \in Seq(S) /\ Len(c) = m + (n - 1)
      /\ \A i \in 1 .. m + (n - 1) : c[i] = IF i <= m THEN is[i] ELSE r[i - m]
  BY <1>3, <1>4, ConcatProperties
<1>6. \A k \in 1 .. m : c[k] = is[k]
  BY <1>5
<1>7. n = 2 => c[m + 1] = s[2]
  <2>1. n = 2 => r[1] = s[2]
    BY <1>3
  <2>2. n = 2 => m + 1 \in 1 .. m + (n - 1) /\ ~(m + 1 <= m) /\ (m + 1) - m = 1
    OBVIOUS
  <2> QED
    BY <1>5, <2>1, <2>2
<1> QED
  BY <1>2, <1>4, <1>5, <1>6, <1>7

LEMMA Spliced0 ==
  ASSUME NEW S, NEW s \in Seq(S), Len(s) = 1 \/ Len(s) = 2
  PROVE  LET r == <<>> \o Tail(s)
         IN  /\ r \in Seq(S) /\ Len(r) \in {0, 1, 2} /\ All(r) = After(s) /\ After(r) = {}
             /\ r # <<>> => r[1] \in After(s)
             /\ \A i : Total(r, i) = Total(s, i) - Occurs(s[1], i)
<1>1. PICK r : r = <<>> \o Tail(s)
  OBVIOUS
<1>2. PICK is \in Seq(S), m \in {0, 1, 2} : is = <<>> /\ Len(is) = m /\ m = 0
  BY EmptySeq, Tuples
<1>3. CASE Len(s) = 1
  <2>1. PICK n \in {1, 2} : n = 1 /\ Len(s) = n
    BY <1>3
  <2>2. /\ r \in Seq(S) /\ Len(r) = m + n - 1
        /\ \A k \in 1 .. m : r[k] = is[k]
    BY <1>1, <1>2, <2>1, Spliced
  <2>3. Len(r) = 0
    BY <1>2, <2>1, <2>2
  <2>4. TRUE
    BY <1>2, <2>2
  <2>5. After(s) = {} /\ \A i : Total(s, i) = Occurs(s[1], i)
    BY <1>3, OfLength
  <2>6. All(r) = {} /\ After(r) = {} /\ (r = <<>>) /\ \A i : Total(r, i) = 0
    BY <2>2, <2>3, OfLength
  <2>7. \A i : Total(r, i) = Total(s, i) - Occurs(s[1], i)
    BY <2>3, <2>4, <2>5, <2>6, OccursType
  <2> QED
    BY <1>1, <2>2, <2>3, <2>4, <2>5, <2>6, <2>7
<1>4. CASE Len(s) = 2
  <2>1. PICK n \in {1, 2} : n = 2 /\ Len(s) = n
    BY <1>4
  <2>2. /\ r \in Seq(S) /\ Len(r) = m + n - 1
        /\ \A k \in 1 .. m : r[k] = is[k]
        /\ r[m + 1] = s[2]
    BY <1>1, <1>2, <2>1, Spliced
  <2>3. Len(r) = 1 /\ r[1] = s[2]
    BY <1>2, <2>1, <2>2
  <2>4. TRUE
    BY <1>2, <2>2
  <2>5. After(s) = {s[2]} /\ \A i : Total(s, i) = Occurs(s[1], i) + Occurs(s[2], i)
    BY <1>4, OfLength
  <2>6. All(r) = {r[1]} /\ After(r) = {} /\ (r # <<>>) /\ \A i : Total(r, i) = Occurs(r[1], i)
    BY <2>2, <2>3, OfLength
  <2>7. \A i : Total(r, i) = Total(s, i) - Occurs(s[1], i)
    BY <2>3, <2>4, <2>5, <2>6, OccursType
  <2> QED
    BY <1>1, <2>2, <2>3, <2>4, <2>5, <2>6, <2>7
<1> QED
  BY <1>3, <1>4

LEMMA Spliced1 ==
  ASSUME NEW S, NEW s \in Seq(S), Len(s) = 1 \/ Len(s) = 2,
         NEW x \in S
  PROVE  LET r == <<x>> \o Tail(s)
         IN  /\ r \in Seq(S) /\ Len(r) \in {0, 1, 2} /\ All(r) = {x} \cup After(s) /\ After(r) = After(s)
             /\ r # <<>> /\ r[1] = x
             /\ \A i : Total(r, i) = Total(s, i) - Occurs(s[1], i) + Occurs(x, i)
<1>1. PICK r : r = <<x>> \o Tail(s)
  OBVIOUS
<1>2. PICK is \in Seq(S), m \in {0, 1, 2} : is = <<x>> /\ Len(is) = m /\ m = 1 /\ is[1] = x
  BY EmptySeq, Tuples
<1>3. CASE Len(s) = 1
  <2>1. PICK n \in {1, 2} : n = 1 /\ Len(s) = n
    BY <1>3
  <2>2. /\ r \in Seq(S) /\ Len(r) = m + n - 1
        /\ \A k \in 1 .. m : r[k] = is[k]
    BY <1>1, <1>2, <2>1, Spliced
  <2>3. Len(r) = 1
    BY <1>2, <2>1, <2>2
  <2>4. TRUE /\ r[1] = x
    BY <1>2, <2>2
  <2>5. After(s) = {} /\ \A i : Total(s, i) = Occurs(s[1], i)
    BY <1>3, OfLength
  <2>6. All(r) = {r[1]} /\ After(r) = {} /\ (r # <<>>) /\ \A i : Total(r, i) = Occurs(r[1], i)
    BY <2>2, <2>3, OfLength
  <2>7. \A i : Total(r, i) = Total(s, i) - Occurs(s[1], i) + Occurs(x, i)
    BY <2>3, <2>4, <2>5, <2>6, OccursType
  <2> QED
    BY <1>1, <2>2, <2>3, <2>4, <2>5, <2>6, <2>7
<1>4. CASE Len(s) = 2
  <2>1. PICK n \in {1, 2} : n = 2 /\ Len(s) = n
    BY <1>4
  <2>2. /\ r \in Seq(S) /\ Len(r) = m + n - 1
        /\ \A k \in 1 .. m : r[k] = is[k]
        /\ r[m + 1] = s[2]
    BY <1>1, <1>2, <2>1, Spliced
  <2>3. Len(r) = 2 /\ r[2] = s[2]
    BY <1>2, <2>1, <2>2
  <2>4. TRUE /\ r[1] = x
    BY <1>2, <2>2
  <2>5. After(s) = {s[2]} /\ \A i : Total(s, i) = Occurs(s[1], i) + Occurs(s[2], i)
    BY <1>4, OfLength
  <2>6. All(r) = {r[1], r[2]} /\ After(r) = {r[2]} /\ (r # <<>>) /\ \A i : Total(r, i) = Occurs(r[1], i) + Occurs(r[2], i)
    BY <2>2, <2>3, OfLength
  <2>7. \A i : Total(r, i) = Total(s, i) - Occurs(s[1], i) + Occurs(x, i)
    BY <2>3, <2>4, <2>5, <2>6, OccursType
  <2> QED
    BY <1>1, <2>2, <2>3, <2>4, <2>5, <2>6, <2>7
<1> QED
  BY <1>3, <1>4

LEMMA Spliced2 ==
  ASSUME NEW S, NEW s \in Seq(S), Len(s) = 1 , NEW x \in S, NEW y \in S
  PROVE  LET r == <<x, y>> \o Tail(s)
         IN  /\ r \in Seq(S) /\ Len(r) \in {0, 1, 2} /\ All(r) = {x, y} /\ After(r) = {y}
             /\ r # <<>> /\ r[1] = x
             /\ \A i : Total(r, i) = Total(s, i) - Occurs(s[1], i) + Occurs(x, i) + Occurs(y, i)
<1>1. PICK r : r = <<x, y>> \o Tail(s)
  OBVIOUS
<1>2. PICK is \in Seq(S), m \in {0, 1, 2} : is = <<x, y>> /\ Len(is) = m /\ m = 2 /\ is[1] = x /\ is[2] = y
  <2>1. <<x, y>> \in Seq(S) /\ Len(<<x, y>>) = 2 /\ <<x, y>>[1] = x /\ <<x, y>>[2] = y
    BY Tuples
  <2> QED
    BY <2>1
<1>3. CASE Len(s) = 1
  <2>1. PICK n \in {1, 2} : n = 1 /\ Len(s) = n
    BY <1>3
  <2>2. /\ r \in Seq(S) /\ Len(r) = m + n - 1
        /\ \A k \in 1 .. m : r[k] = is[k]
    BY <1>1, <1>2, <2>1, Spliced
  <2>3. Len(r) = 2
    BY <1>2, <2>1, <2>2
  <2>4. TRUE /\ r[1] = x /\ r[2] = y
    BY <1>2, <2>2
  <2>5. After(s) = {} /\ \A i : Total(s, i) = Occurs(s[1], i)
    BY <1>3, OfLength
  <2>6. All(r) = {r[1], r[2]} /\ After(r) = {r[2]} /\ (r # <<>>) /\ \A i : Total(r, i) = Occurs(r[1], i) + Occurs(r[2], i)
    BY <2>2, <2>3, OfLength
  <2>7. \A i : Total(r, i) = Total(s, i) - Occurs(s[1], i) + Occurs(x, i) + Occurs(y, i)
    BY <2>3, <2>4, <2>5, <2>6, OccursType
  <2> QED
    BY <1>1, <2>2, <2>3, <2>4, <2>5, <2>6, <2>7
<1> QED
  BY <1>3

(* What Continue(t, is) does to the instructions, for each length of is.   *)
LEMMA Continued0 ==
  ASSUME TypeOK, ThreadInv, NEW t \in Thread, todo[t] # <<>>,
         Continue(t, <<>>)
  PROVE  /\ todo' \in [Thread -> Seq(Instr)] /\ \A u \in Thread \ {t} : todo'[u] = todo[u]
         /\ call' \in [Thread -> Call \cup {None}] /\ \A u \in Thread \ {t} : call'[u] = call[u]
         /\ Len(todo'[t]) \in {0, 1, 2} /\ Left(t)' = Later(t) /\ Later(t)' = {}
         /\ todo'[t] # <<>> => call'[t] = call[t] /\ Instruction(t)' \in Later(t)
         /\ \A i : Held(t, i)' = Held(t, i) - Occurs(Instruction(t), i)
<1>1. todo[t] \in Seq(Instr) /\ Instruction(t) = todo[t][1] /\ (Len(todo[t]) = 1 \/ Len(todo[t]) = 2)
  BY First
<1>2. PICK r : r = <<>> \o Tail(todo[t])
  OBVIOUS
<1>3. /\ r \in Seq(Instr) /\ Len(r) \in {0, 1, 2}
      /\ All(r) = After(todo[t]) /\ After(r) = {}
      /\ r # <<>> => r[1] \in After(todo[t])
      /\ \A i : Total(r, i) = Total(todo[t], i) - Occurs(todo[t][1], i)
  BY <1>1, <1>2, Spliced0
<1>4. todo' = [todo EXCEPT ![t] = r] /\ call' = [call EXCEPT ![t] = IF r = <<>> THEN None ELSE @]
  BY <1>2 DEF Continue
<1>5. todo \in [Thread -> Seq(Instr)] /\ call \in [Thread -> Call \cup {None}]
  BY DEF ThreadInv, TypeOK, Call
<1>6. todo'[t] = r /\ todo' \in [Thread -> Seq(Instr)] /\ \A u \in Thread \ {t} : todo'[u] = todo[u]
  BY <1>3, <1>4, <1>5
<1>7. /\ call' \in [Thread -> Call \cup {None}] /\ \A u \in Thread \ {t} : call'[u] = call[u]
      /\ r # <<>> => call'[t] = call[t]
  BY <1>4, <1>5
<1>8. Left(t)' = All(r) /\ Later(t)' = After(r)
  BY <1>6 DEF Left, Later, All, After
<1>9. \A i : Held(t, i)' = Held(t, i) - Occurs(Instruction(t), i)
  BY <1>1, <1>3, <1>6 DEF Held
<1>10. Instruction(t)' = todo'[t][1] /\ Later(t) = After(todo[t])
  BY DEF Instruction, Later, After
<1>11. Len(todo'[t]) \in {0, 1, 2}
  BY <1>3, <1>6
<1> QED
  BY <1>3, <1>6, <1>7, <1>8, <1>9, <1>10, <1>11

LEMMA Continued1 ==
  ASSUME TypeOK, ThreadInv, NEW t \in Thread, todo[t] # <<>>, NEW x \in Instr,
         Continue(t, <<x>>)
  PROVE  /\ todo' \in [Thread -> Seq(Instr)] /\ \A u \in Thread \ {t} : todo'[u] = todo[u]
         /\ call' \in [Thread -> Call \cup {None}] /\ \A u \in Thread \ {t} : call'[u] = call[u]
         /\ Len(todo'[t]) \in {0, 1, 2} /\ Left(t)' = {x} \cup Later(t) /\ Later(t)' = Later(t)
         /\ todo'[t] # <<>> /\ call'[t] = call[t] /\ Instruction(t)' = x
         /\ \A i : Held(t, i)' = Held(t, i) - Occurs(Instruction(t), i) + Occurs(x, i)
<1>1. todo[t] \in Seq(Instr) /\ Instruction(t) = todo[t][1] /\ (Len(todo[t]) = 1 \/ Len(todo[t]) = 2)
  BY First
<1>2. PICK r : r = <<x>> \o Tail(todo[t])
  OBVIOUS
<1>3. /\ r \in Seq(Instr) /\ Len(r) \in {0, 1, 2}
      /\ All(r) = {x} \cup After(todo[t]) /\ After(r) = After(todo[t])
      /\ r # <<>> /\ r[1] = x
      /\ \A i : Total(r, i) = Total(todo[t], i) - Occurs(todo[t][1], i) + Occurs(x, i)
  BY <1>1, <1>2, Spliced1
<1>4. todo' = [todo EXCEPT ![t] = r] /\ call' = [call EXCEPT ![t] = IF r = <<>> THEN None ELSE @]
  BY <1>2 DEF Continue
<1>5. todo \in [Thread -> Seq(Instr)] /\ call \in [Thread -> Call \cup {None}]
  BY DEF ThreadInv, TypeOK, Call
<1>6. todo'[t] = r /\ todo' \in [Thread -> Seq(Instr)] /\ \A u \in Thread \ {t} : todo'[u] = todo[u]
  BY <1>3, <1>4, <1>5
<1>7. /\ call' \in [Thread -> Call \cup {None}] /\ \A u \in Thread \ {t} : call'[u] = call[u]
      /\ r # <<>> => call'[t] = call[t]
  BY <1>4, <1>5
<1>8. Left(t)' = All(r) /\ Later(t)' = After(r)
  BY <1>6 DEF Left, Later, All, After
<1>9. \A i : Held(t, i)' = Held(t, i) - Occurs(Instruction(t), i) + Occurs(x, i)
  BY <1>1, <1>3, <1>6 DEF Held
<1>10. Instruction(t)' = todo'[t][1] /\ Later(t) = After(todo[t])
  BY DEF Instruction, Later, After
<1>11. Len(todo'[t]) \in {0, 1, 2}
  BY <1>3, <1>6
<1> QED
  BY <1>3, <1>6, <1>7, <1>8, <1>9, <1>10, <1>11

LEMMA Continued2 ==
  ASSUME TypeOK, ThreadInv, NEW t \in Thread, todo[t] # <<>>, Len(todo[t]) = 1,
         NEW x \in Instr, NEW y \in Instr,
         Continue(t, <<x, y>>)
  PROVE  /\ todo' \in [Thread -> Seq(Instr)] /\ \A u \in Thread \ {t} : todo'[u] = todo[u]
         /\ call' \in [Thread -> Call \cup {None}] /\ \A u \in Thread \ {t} : call'[u] = call[u]
         /\ Len(todo'[t]) \in {0, 1, 2} /\ Left(t)' = {x, y} /\ Later(t)' = {y}
         /\ todo'[t] # <<>> /\ call'[t] = call[t] /\ Instruction(t)' = x
         /\ \A i : Held(t, i)' = Held(t, i) - Occurs(Instruction(t), i) + Occurs(x, i) + Occurs(y, i)
<1>1. todo[t] \in Seq(Instr) /\ Instruction(t) = todo[t][1] /\ (Len(todo[t]) = 1 \/ Len(todo[t]) = 2)
  BY First
<1>2. PICK r : r = <<x, y>> \o Tail(todo[t])
  OBVIOUS
<1>3. /\ r \in Seq(Instr) /\ Len(r) \in {0, 1, 2}
      /\ All(r) = {x, y} /\ After(r) = {y}
      /\ r # <<>> /\ r[1] = x
      /\ \A i : Total(r, i) = Total(todo[t], i) - Occurs(todo[t][1], i) + Occurs(x, i) + Occurs(y, i)
  BY <1>1, <1>2, Spliced2
<1>4. todo' = [todo EXCEPT ![t] = r] /\ call' = [call EXCEPT ![t] = IF r = <<>> THEN None ELSE @]
  BY <1>2 DEF Continue
<1>5. todo \in [Thread -> Seq(Instr)] /\ call \in [Thread -> Call \cup {None}]
  BY DEF ThreadInv, TypeOK, Call
<1>6. todo'[t] = r /\ todo' \in [Thread -> Seq(Instr)] /\ \A u \in Thread \ {t} : todo'[u] = todo[u]
  BY <1>3, <1>4, <1>5
<1>7. /\ call' \in [Thread -> Call \cup {None}] /\ \A u \in Thread \ {t} : call'[u] = call[u]
      /\ r # <<>> => call'[t] = call[t]
  BY <1>4, <1>5
<1>8. Left(t)' = All(r) /\ Later(t)' = After(r)
  BY <1>6 DEF Left, Later, All, After
<1>9. \A i : Held(t, i)' = Held(t, i) - Occurs(Instruction(t), i) + Occurs(x, i) + Occurs(y, i)
  BY <1>1, <1>3, <1>6 DEF Held
<1>10. Instruction(t)' = todo'[t][1] /\ Later(t) = After(todo[t])
  BY DEF Instruction, Later, After
<1>11. Len(todo'[t]) \in {0, 1, 2}
  BY <1>3, <1>6
<1> QED
  BY <1>3, <1>6, <1>7, <1>8, <1>9, <1>10, <1>11

(* Nothing changes for the threads that do not run.                        *)
LEMMA Unmoved ==
  ASSUME NEW t, todo'[t] = todo[t]
  PROVE  /\ Left(t)' = Left(t) /\ Later(t)' = Later(t) /\ Instruction(t)' = Instruction(t)
         /\ \A i : Held(t, i)' = Held(t, i)
         /\ Leaving(t)' = Leaving(t) /\ \A i : Pledges(t, i)' = Pledges(t, i)
BY DEF Left, Later, Instruction, Held, Leaving, Pledges

(***************************************************************************)
(* Counting.                                                               *)
(***************************************************************************)
LEMMA SetCount ==
  ASSUME NEW S, IsFiniteSet(S), NEW A, A \subseteq S
  PROVE  IsFiniteSet(A) /\ Cardinality(A) \in Nat
BY FS_Subset, FS_CardinalityType

LEMMA WithOne ==
  ASSUME NEW A, IsFiniteSet(A), NEW a, a \notin A, NEW p \in BOOLEAN,
         NEW B, B = A \cup (IF p THEN {a} ELSE {})
  PROVE  IsFiniteSet(B) /\ Cardinality(B) = Cardinality(A) + (IF p THEN 1 ELSE 0)
<1>1. Cardinality(A) \in Nat
  BY FS_CardinalityType
<1>2. CASE p
  <2>1. B = A \cup {a}
    BY <1>2
  <2> QED
    BY <1>1, <1>2, <2>1, FS_AddElement
<1>3. CASE ~p
  <2>1. B = A
    BY <1>3
  <2> QED
    BY <1>1, <1>3, <2>1
<1> QED
  BY <1>2, <1>3

(* A set that changes in whether t is in it, and in nothing else.          *)
LEMMA OneChanges ==
  ASSUME NEW S, IsFiniteSet(S), NEW A, A \subseteq S, NEW B, B \subseteq S,
         NEW t, \A u \in S \ {t} : u \in A <=> u \in B
  PROVE  /\ Cardinality(A) \in Nat /\ Cardinality(B) \in Nat
         /\ Cardinality(B) = Cardinality(A) - (IF t \in A THEN 1 ELSE 0) + (IF t \in B THEN 1 ELSE 0)
<1>1. /\ IsFiniteSet(A) /\ Cardinality(A) \in Nat
      /\ IsFiniteSet(B) /\ Cardinality(B) \in Nat
  BY SetCount
<1>2. PICK C : C = A \ {t}
  OBVIOUS
<1>3. C = B \ {t}
  BY <1>2
<1>4. Cardinality(C) = IF t \in A THEN Cardinality(A) - 1 ELSE Cardinality(A)
  BY <1>1, <1>2, FS_RemoveElement
<1>5. Cardinality(C) = IF t \in B THEN Cardinality(B) - 1 ELSE Cardinality(B)
  BY <1>1, <1>3, FS_RemoveElement
<1> QED
  BY <1>1, <1>4, <1>5

(* The pointers of one thread whose instructions are s.                    *)
Places(t, s, i) == {x \in {t} \X (1 .. 3) \X (1 .. 2) :
                      /\ x[2] <= Len(s) /\ x[3] <= Len(s[x[2]].refs)
                      /\ s[x[2]].refs[x[3]] = i}

LEMMA PlacesCount ==
  ASSUME NEW t, NEW i, NEW s \in Seq(Instr), Len(s) \in {0, 1, 2},
         \A x \in All(s) : Len(x.refs) \in {1, 2}
  PROVE  IsFiniteSet(Places(t, s, i)) /\ Cardinality(Places(t, s, i)) = Total(s, i)
<1> DEFINE Here(k) == s[k].refs[1] = i
           There(k) == Len(s[k].refs) = 2 /\ s[k].refs[2] = i
<1>1. PICK n \in {0, 1, 2} : n = Len(s)
  OBVIOUS
<1>2. \A k \in 1 .. n : s[k] \in All(s)
  BY <1>1, LenProperties DEF All
<1>3. ASSUME NEW k \in 1 .. n
      PROVE  \A j \in 1 .. 2 : (j <= Len(s[k].refs) /\ s[k].refs[j] = i) <=> (j = 1 /\ Here(k)) \/ (j = 2 /\ There(k))
  <2>1. PICK m \in {1, 2} : m = Len(s[k].refs)
    BY <1>2
  <2>2. \A j \in 1 .. 2 : j <= m <=> j = 1 \/ (j = 2 /\ m = 2)
    OBVIOUS
  <2> QED
    BY <2>1, <2>2
<1>4. \A x : x \in Places(t, s, i)
        <=> \E k \in 1 .. 3 : k <= n /\ \/ x = <<t, k, 1>> /\ Here(k)
                                        \/ x = <<t, k, 2>> /\ There(k)
  <2>1. ASSUME NEW x, x \in Places(t, s, i)
        PROVE  \E k \in 1 .. 3 : k <= n /\ \/ x = <<t, k, 1>> /\ Here(k)
                                           \/ x = <<t, k, 2>> /\ There(k)
    <3>1. PICK k \in 1 .. 3, j \in 1 .. 2 : x = <<t, k, j>>
      BY <2>1 DEF Places
    <3>2. x[2] = k /\ x[3] = j
      BY <3>1
    <3>3. k <= n /\ j <= Len(s[k].refs) /\ s[k].refs[j] = i
      BY <1>1, <2>1, <3>2 DEF Places
    <3>4. k \in 1 .. n
      BY <3>3
    <3> QED
      BY <1>3, <3>1, <3>3, <3>4
  <2>2. ASSUME NEW k \in 1 .. 3, NEW j \in 1 .. 2, k <= n, (j = 1 /\ Here(k)) \/ (j = 2 /\ There(k))
        PROVE  <<t, k, j>> \in Places(t, s, i)
    <3>1. k \in 1 .. n
      BY <2>2
    <3>2. j <= Len(s[k].refs) /\ s[k].refs[j] = i
      BY <1>3, <2>2, <3>1
    <3> QED
      BY <1>1, <2>2, <3>2 DEF Places
  <2> QED
    BY <2>1, <2>2
<1>5. PICK A1 : A1 = {} \cup (IF n > 0 /\ Here(1) THEN {<<t, 1, 1>>} ELSE {})
  OBVIOUS
<1>6. PICK A2 : A2 = A1 \cup (IF n > 0 /\ There(1) THEN {<<t, 1, 2>>} ELSE {})
  OBVIOUS
<1>7. PICK A3 : A3 = A2 \cup (IF n = 2 /\ Here(2) THEN {<<t, 2, 1>>} ELSE {})
  OBVIOUS
<1>8. PICK A4 : A4 = A3 \cup (IF n = 2 /\ There(2) THEN {<<t, 2, 2>>} ELSE {})
  OBVIOUS
<1>9. IsFiniteSet(A1) /\ Cardinality(A1) = 0 + (IF n > 0 /\ Here(1) THEN 1 ELSE 0)
  BY ZenonT(60), <1>5, WithOne, FS_EmptySet
<1>10. IsFiniteSet(A2) /\ Cardinality(A2) = Cardinality(A1) + (IF n > 0 /\ There(1) THEN 1 ELSE 0)
  <2>1. <<t, 1, 2>> \notin A1
    BY <1>5
  <2> QED
    BY <1>6, <1>9, <2>1, WithOne
<1>11. IsFiniteSet(A3) /\ Cardinality(A3) = Cardinality(A2) + (IF n = 2 /\ Here(2) THEN 1 ELSE 0)
  <2>1. <<t, 2, 1>> \notin A2
    BY <1>5, <1>6
  <2> QED
    BY <1>7, <1>10, <2>1, WithOne
<1>12. IsFiniteSet(A4) /\ Cardinality(A4) = Cardinality(A3) + (IF n = 2 /\ There(2) THEN 1 ELSE 0)
  <2>1. <<t, 2, 2>> \notin A3
    BY <1>5, <1>6, <1>7
  <2> QED
    BY <1>8, <1>11, <2>1, WithOne
<1>13. A4 = Places(t, s, i)
  <2>1. \A x : x \in A4 <=> \/ x = <<t, 1, 1>> /\ n > 0 /\ Here(1)
                            \/ x = <<t, 1, 2>> /\ n > 0 /\ There(1)
                            \/ x = <<t, 2, 1>> /\ n = 2 /\ Here(2)
                            \/ x = <<t, 2, 2>> /\ n = 2 /\ There(2)
    BY <1>5, <1>6, <1>7, <1>8
  <2>2. \A k \in 1 .. 3 : k <= n <=> (k = 1 /\ n > 0) \/ (k = 2 /\ n = 2)
    OBVIOUS
  <2>3. 1 \in 1 .. 3 /\ 2 \in 1 .. 3
    OBVIOUS
  <2>4. \A x : x \in A4 <=> x \in Places(t, s, i)
    <3> HIDE DEF Here, There
    <3> QED
      BY <1>4, <2>1, <2>2, <2>3
  <2>5. A4 \subseteq Places(t, s, i) /\ Places(t, s, i) \subseteq A4
    BY <2>4
  <2> QED
    BY <2>5
<1>14. Cardinality(A4) = Total(s, i)
  <2>1. /\ Occurs(s[1], i) = (IF Here(1) THEN 1 ELSE 0) + (IF There(1) THEN 1 ELSE 0)
        /\ Occurs(s[2], i) = (IF Here(2) THEN 1 ELSE 0) + (IF There(2) THEN 1 ELSE 0)
    BY DEF Occurs
  <2>2. CASE n = 0
    <3>1. Total(s, i) = 0
      BY <1>1, <2>2, OfLength
    <3> QED
      BY <1>9, <1>10, <1>11, <1>12, <2>2, <3>1
  <2>3. CASE n = 1
    <3>1. Total(s, i) = Occurs(s[1], i)
      BY <1>1, <2>3, OfLength
    <3> HIDE DEF Here, There
    <3> QED
      BY <1>9, <1>10, <1>11, <1>12, <2>1, <2>3, <3>1
  <2>4. CASE n = 2
    <3>1. Total(s, i) = Occurs(s[1], i) + Occurs(s[2], i)
      BY <1>1, <2>4, OfLength
    <3> HIDE DEF Here, There
    <3> QED
      BY <1>9, <1>10, <1>11, <1>12, <2>1, <2>4, <3>1
  <2> QED
    BY <2>2, <2>3, <2>4
<1> QED
  BY <1>12, <1>13, <1>14

LEMMA Disjoint ==
  ASSUME NEW A, NEW B, IsFiniteSet(A), IsFiniteSet(B), A \cap B = {}
  PROVE  IsFiniteSet(A \cup B) /\ Cardinality(A \cup B) = Cardinality(A) + Cardinality(B)
<1>1. Cardinality(A) \in Nat /\ Cardinality(B) \in Nat
  BY FS_CardinalityType
<1>2. Cardinality(A \cup B) = Cardinality(A) + Cardinality(B) - Cardinality(A \cap B)
  BY FS_Union
<1>3. Cardinality(A \cap B) = 0
  BY FS_EmptySet
<1> QED
  BY <1>1, <1>2, <1>3, FS_Union

LEMMA TriplesFinite ==
  ASSUME NEW S, IsFiniteSet(S) PROVE IsFiniteSet(S \X (1 .. 3) \X (1 .. 2))
<1>1. PICK T : T = S \X ((1 .. 3) \X (1 .. 2))
  OBVIOUS
<1>2. IsFiniteSet(T)
  <2>1. IsFiniteSet(1 .. 3) /\ IsFiniteSet(1 .. 2)
    <3>1. \A b \in Nat : IsFiniteSet(1 .. b)
      BY FS_Interval
    <3> QED
      BY <3>1
  <2>2. IsFiniteSet((1 .. 3) \X (1 .. 2))
    BY <2>1, FS_Product
  <2> QED
    BY <1>1, <2>2, FS_Product
<1>3. PICK X : X = S \X (1 .. 3) \X (1 .. 2)
  OBVIOUS
<1>4. PICK f : f = [x \in X |-> <<x[1], <<x[2], x[3]>>>>]
  OBVIOUS
<1>5. f \in [X -> T]
  BY <1>1, <1>3, <1>4
<1>6. ASSUME NEW x \in X, NEW y \in X, f[x] = f[y] PROVE x = y
  <2>1. PICK a \in S, b \in 1 .. 3, c \in 1 .. 2 : x = <<a, b, c>>
    BY <1>3
  <2>2. PICK d \in S, e \in 1 .. 3, g \in 1 .. 2 : y = <<d, e, g>>
    BY <1>3
  <2>3. f[x] = <<a, <<b, c>>>> /\ f[y] = <<d, <<e, g>>>>
    BY <1>4, <2>1, <2>2
  <2> QED
    BY <1>6, <2>1, <2>2, <2>3
<1>7. f \in Injection(X, T)
  BY <1>5, <1>6 DEF Injection, IsInjective
<1> QED
  BY <1>2, <1>3, <1>7, FS_Injection

(* The pointers after a step of t.                                         *)
LEMMA PointersStep ==
  ASSUME NEW t \in Thread, \A u \in Thread \ {t} : todo'[u] = todo[u],
         NEW s \in Seq(Instr), s = todo[t], Len(s) \in {0, 1, 2}, \A x \in All(s) : Len(x.refs) \in {1, 2},
         NEW r \in Seq(Instr), r = todo'[t], Len(r) \in {0, 1, 2}, \A x \in All(r) : Len(x.refs) \in {1, 2},
         NEW i
  PROVE  /\ Cardinality(Pointers(i)) \in Nat /\ Cardinality(Pointers(i))' \in Nat
         /\ Cardinality(Pointers(i))' = Cardinality(Pointers(i)) - Total(s, i) + Total(r, i)
<1>1. IsFiniteSet(Thread \X (1 .. 3) \X (1 .. 2))
  BY TriplesFinite, InodesAssumption
<1>2. PICK P : P = Pointers(i)
  OBVIOUS
<1>3. PICK Q : Q = Pointers(i)'
  OBVIOUS
<1>4. P \subseteq Thread \X (1 .. 3) \X (1 .. 2) /\ Q \subseteq Thread \X (1 .. 3) \X (1 .. 2)
  BY <1>2, <1>3 DEF Pointers
<1>5. PICK M : M = {x \in P : x[1] # t}
  OBVIOUS
<1>6. M = {x \in Q : x[1] # t}
  <2>1. ASSUME NEW x \in Thread \X (1 .. 3) \X (1 .. 2), x[1] # t
        PROVE  x \in P <=> x \in Q
    <3>1. x[1] \in Thread
      BY <2>1
    <3>2. todo'[x[1]] = todo[x[1]]
      BY <2>1, <3>1
    <3> QED
      BY <1>2, <1>3, <3>2 DEF Pointers
  <2> QED
    BY <1>4, <1>5, <2>1
<1>7. {x \in P : x[1] = t} = Places(t, s, i)
  <2>1. ASSUME NEW x PROVE (x \in P /\ x[1] = t) <=> x \in Places(t, s, i)
    BY <1>2 DEF Pointers, Places
  <2> QED
    BY <2>1
<1>8. {x \in Q : x[1] = t} = Places(t, r, i)
  <2>1. ASSUME NEW x PROVE (x \in Q /\ x[1] = t) <=> x \in Places(t, r, i)
    BY <1>3 DEF Pointers, Places
  <2> QED
    BY <2>1
<1>9. IsFiniteSet(M)
  BY <1>1, <1>4, <1>5, FS_Subset
<1>10. /\ IsFiniteSet(Places(t, s, i)) /\ Cardinality(Places(t, s, i)) = Total(s, i)
       /\ IsFiniteSet(Places(t, r, i)) /\ Cardinality(Places(t, r, i)) = Total(r, i)
  BY PlacesCount
<1>11. P = M \cup Places(t, s, i) /\ M \cap Places(t, s, i) = {}
  BY <1>5, <1>7
<1>12. Q = M \cup Places(t, r, i) /\ M \cap Places(t, r, i) = {}
  BY <1>6, <1>8
<1>13. Cardinality(P) = Cardinality(M) + Cardinality(Places(t, s, i))
  BY <1>9, <1>10, <1>11, Disjoint
<1>14. Cardinality(Q) = Cardinality(M) + Cardinality(Places(t, r, i))
  BY <1>9, <1>10, <1>12, Disjoint
<1>15. Cardinality(M) \in Nat /\ Cardinality(P) \in Nat /\ Cardinality(Q) \in Nat
  BY <1>1, <1>4, <1>9, FS_Subset, FS_CardinalityType
<1>16. Total(s, i) \in Nat /\ Total(r, i) \in Nat
  BY <1>10, FS_CardinalityType
<1>17. Cardinality(Pointers(i))' = Cardinality(Q)
  BY <1>3
<1> HIDE <1>3
<1> QED
  BY <1>2, <1>10, <1>13, <1>14, <1>15, <1>16, <1>17

(* A step of t, which changes nothing of the other threads.                *)
Only(t) ==
  \A u \in Thread \ {t} :
    /\ todo'[u] = todo[u] /\ call'[u] = call[u] /\ rest'[u] = rest[u]
    /\ ofile'[u] = ofile[u] /\ cwd'[u] = cwd[u]

Own(t, i) == (IF ofile[t] = i THEN 1 ELSE 0) + (IF cwd[t] = i /\ ~Leaving(t) THEN 1 ELSE 0)

LEMMA Formed ==
  ASSUME ThreadInv, NEW t \in Thread
  PROVE  /\ todo[t] \in Seq(Instr) /\ Len(todo[t]) \in {0, 1, 2} /\ Left(t) = All(todo[t])
         /\ \A x \in Left(t) : x \in Instr /\ Len(x.refs) \in {1, 2}
<1>1. Left(t) = All(todo[t])
  BY DEF Left, All
<1>2. todo[t] \in Seq(Instr) /\ Len(todo[t]) \in {0, 1, 2}
  BY DEF ThreadInv, Chained
<1>3. \A x \in Left(t) : Shaped(t, x)
  BY DEF ThreadInv
<1> QED
  BY <1>1, <1>2, <1>3 DEF Shaped

(* ip->ref is right after a step if it changed by what t came to refer to, *)
(* less what it referred to.                                               *)
LEMMA RefsKept ==
  ASSUME ThreadInv, RefInv, NEW t \in Thread, Only(t),
         todo'[t] \in Seq(Instr), Len(todo'[t]) \in {0, 1, 2}, \A x \in Left(t)' : Len(x.refs) \in {1, 2},
         \A i \in Inum : table'[i].ref = table[i].ref - Own(t, i) - Held(t, i) + Own(t, i)' + Held(t, i)'
  PROVE  RefInv'
<1>1. PICK s : s = todo[t]
  OBVIOUS
<1>2. PICK r : r = todo'[t]
  OBVIOUS
<1>3. s \in Seq(Instr) /\ Len(s) \in {0, 1, 2} /\ \A x \in All(s) : Len(x.refs) \in {1, 2}
  BY <1>1, Formed
<1>4. r \in Seq(Instr) /\ Len(r) \in {0, 1, 2} /\ \A x \in All(r) : Len(x.refs) \in {1, 2}
  BY <1>2 DEF Left, All
<1>5. \A u \in Thread \ {t} : todo'[u] = todo[u] /\ ofile'[u] = ofile[u] /\ cwd'[u] = cwd[u]
  BY DEF Only
<1>6. \A u \in Thread \ {t} : Leaving(u)' = Leaving(u)
  BY <1>5, Unmoved
<1>7. ASSUME NEW i \in Inum
      PROVE  table'[i].ref = Cardinality(Files(i)') + Cardinality(Dirs(i)') + Cardinality(Pointers(i)')
  <2>1. /\ Cardinality(Pointers(i)) \in Nat /\ Cardinality(Pointers(i))' \in Nat
        /\ Cardinality(Pointers(i))' = Cardinality(Pointers(i)) - Total(s, i) + Total(r, i)
    BY <1>1, <1>2, <1>3, <1>4, <1>5, PointersStep
  <2>2. PICK A : A = Files(i)
    OBVIOUS
  <2>3. PICK B : B = Files(i)'
    OBVIOUS
  <2>4. PICK C : C = Dirs(i)
    OBVIOUS
  <2>5. PICK D : D = Dirs(i)'
    OBVIOUS
  <2>6. /\ A \subseteq Thread /\ B \subseteq Thread /\ \A u \in Thread \ {t} : u \in A <=> u \in B
        /\ t \in A <=> ofile[t] = i
        /\ t \in B <=> ofile'[t] = i
    BY <1>5, <2>2, <2>3 DEF Files
  <2>7. /\ C \subseteq Thread /\ D \subseteq Thread /\ \A u \in Thread \ {t} : u \in C <=> u \in D
        /\ t \in C <=> (cwd[t] = i /\ ~Leaving(t))
        /\ t \in D <=> (cwd'[t] = i /\ ~Leaving(t)')
    BY <1>5, <1>6, <2>4, <2>5 DEF Dirs
  <2>8. /\ Cardinality(A) \in Nat /\ Cardinality(B) \in Nat
        /\ Cardinality(B) = Cardinality(A) - (IF t \in A THEN 1 ELSE 0) + (IF t \in B THEN 1 ELSE 0)
    BY <2>6, OneChanges, InodesAssumption
  <2>9. /\ Cardinality(C) \in Nat /\ Cardinality(D) \in Nat
        /\ Cardinality(D) = Cardinality(C) - (IF t \in C THEN 1 ELSE 0) + (IF t \in D THEN 1 ELSE 0)
    BY <2>7, OneChanges, InodesAssumption
  <2>10. Own(t, i) = (IF t \in A THEN 1 ELSE 0) + (IF t \in C THEN 1 ELSE 0)
    BY <2>6, <2>7 DEF Own
  <2>11. Own(t, i)' = (IF t \in B THEN 1 ELSE 0) + (IF t \in D THEN 1 ELSE 0)
    BY <2>6, <2>7 DEF Own
  <2>12. Held(t, i) = Total(s, i) /\ Held(t, i)' = Total(r, i)
    BY <1>1, <1>2 DEF Held
  <2>13. Total(s, i) \in Nat /\ Total(r, i) \in Nat
    BY <1>3, <1>4, PlacesCount, FS_CardinalityType
  <2>14. table[i].ref = Cardinality(A) + Cardinality(C) + Cardinality(Pointers(i))
    BY <2>2, <2>4 DEF RefInv
  <2>15. table'[i].ref = Cardinality(B) + Cardinality(D) + Cardinality(Pointers(i))'
    <3>1. table'[i].ref = table[i].ref - Own(t, i) - Held(t, i) + Own(t, i)' + Held(t, i)'
      OBVIOUS
    <3>2. PICK a \in 0 .. 1 : a = IF t \in A THEN 1 ELSE 0
      OBVIOUS
    <3>3. PICK b \in 0 .. 1 : b = IF t \in B THEN 1 ELSE 0
      OBVIOUS
    <3>4. PICK c \in 0 .. 1 : c = IF t \in C THEN 1 ELSE 0
      OBVIOUS
    <3>5. PICK d \in 0 .. 1 : d = IF t \in D THEN 1 ELSE 0
      OBVIOUS
    <3>6. table'[i].ref = (Cardinality(A) + Cardinality(C) + Cardinality(Pointers(i)))
                          - (a + c) - Total(s, i) + (b + d) + Total(r, i)
      BY <2>10, <2>11, <2>12, <2>14, <3>1, <3>2, <3>3, <3>4, <3>5
    <3>7. /\ Cardinality(B) = Cardinality(A) - a + b
          /\ Cardinality(D) = Cardinality(C) - c + d
      BY <2>8, <2>9, <3>2, <3>3, <3>4, <3>5
    <3>8. PICK p \in Nat, q \in Nat, v \in Nat, w \in Nat :
            /\ p = Cardinality(Pointers(i)) /\ q = Cardinality(Pointers(i))'
            /\ v = Total(s, i) /\ w = Total(r, i)
      BY <2>1, <2>13
    <3>9. q = p - v + w
      BY <2>1, <3>8
    <3>10. PICK e \in Nat, f \in Nat, g \in Nat, h \in Nat :
            /\ e = Cardinality(A) /\ f = Cardinality(B) /\ g = Cardinality(C) /\ h = Cardinality(D)
      BY <2>8, <2>9
    <3>11. f = e - a + b /\ h = g - c + d
      BY <3>7, <3>10
    <3>12. (e + g + p) - (a + c) - v + (b + d) + w = f + h + q
      BY <3>9, <3>11
    <3> QED
      BY <3>6, <3>8, <3>10, <3>12
  <2> QED
    BY <2>3, <2>5, <2>15
<1> QED
  BY <1>7 DEF RefInv

(* A pointer is one of the references that are counted; when it is the     *)
(* last one, nothing else refers to the inode.                             *)
LEMMA LastPointer ==
  ASSUME ThreadInv, RefInv, NEW t \in Thread, todo[t] # <<>>, NEW i \in Inum, Ref(t, 1) = i
  PROVE  /\ table[i].ref \in Nat \ {0}
         /\ table[i].ref = 1 =>
              \A u \in Thread : /\ ~Works(u, i)
                                /\ \A x \in Others(t, u) : \A j \in DOMAIN x.refs : x.refs[j] # i
<1>1. IsFiniteSet(Pointers(i)) /\ Cardinality(Pointers(i)) \in Nat
  <2>1. IsFiniteSet(Thread \X (1 .. 3) \X (1 .. 2))
    BY TriplesFinite, InodesAssumption
  <2> QED
    BY <2>1, SetCount DEF Pointers
<1>2. /\ IsFiniteSet(Files(i)) /\ Cardinality(Files(i)) \in Nat
      /\ IsFiniteSet(Dirs(i)) /\ Cardinality(Dirs(i)) \in Nat
  BY SetCount, InodesAssumption DEF Files, Dirs
<1>3. ASSUME NEW u \in Thread, NEW k \in 1 .. 2, k \in DOMAIN todo[u], NEW j \in DOMAIN todo[u][k].refs,
             todo[u][k].refs[j] = i
      PROVE  <<u, k, j>> \in Pointers(i)
  <2>1. todo[u] \in Seq(Instr) /\ todo[u][k] \in Left(u)
    BY <1>3, Formed DEF Left
  <2>2. todo[u][k] \in Instr /\ Len(todo[u][k].refs) \in {1, 2}
    BY <2>1, Formed
  <2>3. k <= Len(todo[u])
    <3>1. PICK n \in {0, 1, 2} : n = Len(todo[u])
      BY Formed
    <3>2. k \in 1 .. n
      BY <1>3, <2>1, <3>1, LenProperties
    <3> QED
      BY <3>1, <3>2
  <2>4. j \in 1 .. 2 /\ j <= Len(todo[u][k].refs)
    <3>1. PICK n \in {1, 2} : n = Len(todo[u][k].refs)
      BY <2>2
    <3>2. j \in 1 .. n
      BY <2>2, <3>1, Refs
    <3> QED
      BY <3>1, <3>2
  <2>5. <<u, k, j>> \in Thread \X (1 .. 3) \X (1 .. 2)
    BY <2>4
  <2> QED
    BY <1>3, <2>3, <2>4, <2>5 DEF Pointers
<1>4. <<t, 1, 1>> \in Pointers(i)
  <2>1. Instruction(t) = todo[t][1] /\ Instruction(t) \in Left(t) /\ todo[t] \in Seq(Instr) /\ Len(todo[t]) \in {1, 2}
    BY First
  <2>2. 1 \in DOMAIN Instruction(t).refs /\ Instruction(t).refs[1] = i
    BY <2>1, Formed, Refs DEF Ref
  <2>3. 1 \in DOMAIN todo[t]
    BY <2>1, LenProperties
  <2> QED
    BY <1>3, <2>1, <2>2, <2>3
<1>5. Cardinality(Pointers(i)) # 0
  BY <1>1, <1>4, FS_EmptySet
<1>6. table[i].ref = Cardinality(Files(i)) + Cardinality(Dirs(i)) + Cardinality(Pointers(i))
  BY DEF RefInv
<1>7. table[i].ref \in Nat \ {0}
  BY <1>1, <1>2, <1>5, <1>6
<1>8. ASSUME table[i].ref = 1
      PROVE  \A u \in Thread : /\ ~Works(u, i)
                               /\ \A x \in Others(t, u) : \A j \in DOMAIN x.refs : x.refs[j] # i
  <2>1. Cardinality(Files(i)) = 0 /\ Cardinality(Dirs(i)) = 0 /\ Cardinality(Pointers(i)) = 1
    BY <1>1, <1>2, <1>5, <1>6, <1>8
  <2>2. Files(i) = {} /\ Dirs(i) = {}
    BY <1>2, <2>1, FS_EmptySet
  <2>3. \A x \in Pointers(i) : x = <<t, 1, 1>>
    <3>1. PICK y : Pointers(i) = {y}
      BY <1>1, <2>1, FS_Singleton
    <3> QED
      BY <1>4, <3>1
  <2>4. \A u \in Thread : ~Works(u, i)
    BY <2>2 DEF Files, Dirs, Works
  <2>5. ASSUME NEW u \in Thread, NEW x \in Others(t, u), NEW j \in DOMAIN x.refs, x.refs[j] = i
        PROVE  FALSE
    <3>1. PICK k \in DOMAIN todo[u] : x = todo[u][k] /\ (u = t => k # 1)
      <4>1. CASE u = t
        BY <2>5, <4>1 DEF Others, Later
      <4>2. CASE u # t
        BY <2>5, <4>2 DEF Others, Left
      <4> QED
        BY <4>1, <4>2
    <3>2. k \in 1 .. 2
      <4>1. PICK n \in {0, 1, 2} : n = Len(todo[u]) /\ todo[u] \in Seq(Instr)
        BY Formed
      <4>2. k \in 1 .. n
        BY <4>1, LenProperties
      <4> QED
        BY <4>2
    <3>3. <<u, k, j>> \in Pointers(i)
      BY <1>3, <2>5, <3>1, <3>2
    <3>4. <<u, k, j>> = <<t, 1, 1>>
      BY <2>3, <3>3
    <3> QED
      BY <3>1, <3>4
  <2> QED
    BY <2>4, <2>5
<1> QED
  BY <1>7, <1>8

(***************************************************************************)
(* Locks, and inodes that nobody can reach.                                *)
(***************************************************************************)
LEMMA Constants ==
  /\ Inum \subseteq Nat /\ RootIno \in Inum /\ None \notin Inum /\ None \notin Thread
  /\ IsFiniteSet(Thread) /\ IsFiniteSet(Inum) /\ IsFiniteSet(FileName) /\ IsFiniteSet(Inum \X FileName)
<1>1. Inum \subseteq Nat /\ RootIno \in Inum /\ None \notin Inum /\ None \notin Thread
  BY InodesAssumption DEF Inum, RootIno
<1>2. IsFiniteSet(Inum)
  BY InodesAssumption, FS_Interval DEF Inum
<1>3. IsFiniteSet(FileName)
  BY InodesAssumption, FS_Subset DEF FileName
<1> QED
  BY <1>1, <1>2, <1>3, FS_Product, InodesAssumption

LEMMA OwnedRef ==
  ASSUME ThreadInv, NEW t \in Thread, NEW x \in Left(t), NEW i \in Inum, Owned(x) = i
  PROVE  /\ holder[i] = t /\ \E j \in DOMAIN x.refs : x.refs[j] = i
         /\ x.do \in {"created", "victim", "unlockput", "made", "unlinked", "free", "freed"}
<1>1. Owned(x) # None
  BY Constants
<1>2. x.do \in {"created", "victim", "unlockput", "made", "unlinked", "free", "freed"}
  BY <1>1 DEF Owned
<1>3. Shaped(t, x) /\ Backed(t, x) /\ x \in Instr /\ Len(x.refs) \in {1, 2}
  BY Formed DEF ThreadInv
<1>4. x.do \in {"created", "victim"} => Len(x.refs) = 2
  BY <1>3 DEF Shaped
<1>5. 1 \in DOMAIN x.refs /\ (Len(x.refs) = 2 => 2 \in DOMAIN x.refs)
  BY <1>3, Refs
<1>6. \E j \in DOMAIN x.refs : x.refs[j] = i
  BY <1>2, <1>4, <1>5 DEF Owned
<1> QED
  BY <1>1, <1>2, <1>3, <1>6 DEF Backed

(* An instruction that is not the first of t's, or of another thread, that *)
(* has a lock has another than the first of t's.                           *)
LEMMA OtherOwned ==
  ASSUME ThreadInv, NEW t \in Thread, todo[t] # <<>>, NEW i \in Inum, Owned(Instruction(t)) = i,
         NEW u \in Thread, NEW x \in Others(t, u)
  PROVE  Owned(x) # i
<1>1. SUFFICES ASSUME Owned(x) = i PROVE FALSE
  OBVIOUS
<1>2. Instruction(t) \in Left(t)
  BY First
<1>3. holder[i] = t /\ Instruction(t).do \in {"created", "victim", "unlockput", "made", "unlinked", "free", "freed"}
  BY <1>2, OwnedRef
<1>4. x \in Left(u)
  BY First, Idle DEF Others
<1>5. holder[i] = u
  BY <1>1, <1>4, OwnedRef
<1>6. x \in Later(t)
  BY <1>3, <1>5 DEF Others
<1>7. Chained(t)
  BY DEF ThreadInv
<1>8. Instruction(t).do \in Puts /\ (Instruction(t).do \in {"free", "freed"} => Owned(x) # Ref(t, 1))
  BY <1>6, <1>7 DEF Chained
<1>9. Instruction(t).do \in {"free", "freed"}
  BY <1>3, <1>8 DEF Puts
<1>10. Owned(Instruction(t)) = Ref(t, 1)
  BY <1>9 DEF Owned, Ref
<1> QED
  BY <1>1, <1>8, <1>9, <1>10

(* With the last pointer to an inode the lock is free, unless it is held   *)
(* on behalf of this pointer.                                              *)
LEMMA LastUnlocked ==
  ASSUME TypeOK, ThreadInv, LockInv, RefInv, NEW t \in Thread, todo[t] # <<>>,
         NEW i \in Inum, Ref(t, 1) = i, Owned(Instruction(t)) # i, table[i].ref = 1
  PROVE  holder[i] = None
<1>1. SUFFICES ASSUME holder[i] # None PROVE FALSE
  OBVIOUS
<1>2. PICK u \in Thread : holder[i] = u
  BY <1>1 DEF TypeOK
<1>3. PICK x \in Left(u) : Owned(x) = i
  BY <1>2 DEF LockInv
<1>4. \E j \in DOMAIN x.refs : x.refs[j] = i
  BY <1>3, OwnedRef
<1>5. x \in Others(t, u)
  BY <1>3, First DEF Others
<1> QED
  BY <1>4, <1>5, LastPointer

LEMMA PutUnlocked ==
  ASSUME TypeOK, ThreadInv, LockInv, RefInv PROVE LastRefUnlocked
<1>1. SUFFICES ASSUME NEW t \in Thread, At(t, "put"), LastRef(Ref(t, 1)) PROVE holder[Ref(t, 1)] = None
  BY DEF LastRefUnlocked
<1>2. todo[t] # <<>> /\ Instruction(t).do = "put"
  BY <1>1 DEF At
<1>3. Instruction(t) \in Instr /\ Len(Instruction(t).refs) \in {1, 2}
  BY <1>2, First, Formed
<1>4. PICK i \in Inum : i = Ref(t, 1)
  BY <1>3, Refs DEF Ref
<1>5. Owned(Instruction(t)) # i
  BY <1>2, Constants DEF Owned
<1> QED
  BY <1>1, <1>2, <1>4, <1>5, LastUnlocked DEF LastRef

(* Who locks an inode finds what is on the disk; so does who has locked it *)
(* before.                                                                 *)
LEMMA LoadedDisk ==
  ASSUME ThreadInv, LockInv, NEW i \in Inum, holder[i] = None
  PROVE  Loaded(i) = disk[i]
<1>1. ASSUME NEW t \in Thread, At(t, "freed"), Ref(t, 1) = i PROVE FALSE
  <2>1. Instruction(t) \in Left(t) /\ Instruction(t).do = "freed"
    BY <1>1, First DEF At
  <2>2. Owned(Instruction(t)) = i
    BY <1>1, <2>1 DEF Owned, Ref
  <2> QED
    BY <2>1, <2>2, OwnedRef, Constants
<1> QED
  BY <1>1 DEF LockInv, Loaded

LEMMA OwnedDisk ==
  ASSUME ThreadInv, LockInv, NEW t \in Thread, todo[t] # <<>>, Instruction(t).do # "freed",
         NEW i \in Inum, Owned(Instruction(t)) = i, table[i].valid
  PROVE  table[i].node = disk[i]
<1>1. ASSUME NEW u \in Thread, At(u, "freed"), Ref(u, 1) = i PROVE FALSE
  <2>1. Instruction(u) \in Left(u) /\ Instruction(u).do = "freed"
    BY <1>1, First DEF At
  <2>2. Owned(Instruction(u)) = i
    BY <1>1, <2>1 DEF Owned, Ref
  <2>3. Instruction(t) \in Left(t)
    BY First
  <2> QED
    BY <2>1, <2>2, <2>3, OwnedRef, Constants
<1> QED
  BY <1>1 DEF LockInv

(* The links of an inode are sets of entries.                              *)
Namers(i) == {x \in Inum \X FileName : disk[x[1]].type = "dir" /\ entry[x[1]][x[2]] = i}
Subdirs(i) == {n \in FileName : entry[i][n] # None /\ disk[entry[i][n]].type = "dir"}
Count(i) == Cardinality(Namers(i)) + Cardinality(Subdirs(i)) + (IF i = RootIno THEN 1 ELSE 0)

LEMMA LinkCount ==
  ASSUME NEW i
  PROVE  /\ Links(i) = Count(i)
         /\ IsFiniteSet(Namers(i)) /\ Cardinality(Namers(i)) \in Nat
         /\ IsFiniteSet(Subdirs(i)) /\ Cardinality(Subdirs(i)) \in Nat
         /\ IsFiniteSet(Pledgers(i)) /\ Cardinality(Pledgers(i)) \in Nat
<1>1. Links(i) = Count(i)
  BY DEF Links, Count, Namers, Subdirs
<1>2. Namers(i) \subseteq Inum \X FileName /\ Subdirs(i) \subseteq FileName /\ Pledgers(i) \subseteq Thread
  BY DEF Namers, Subdirs, Pledgers
<1> QED
  BY <1>1, <1>2, SetCount, Constants

Named(i) == \E d \in Inum, n \in FileName : disk[d].type = "dir" /\ entry[d][n] = i

(* An allocated inode with nlink = 0 is not the root, and no entry names   *)
(* it.                                                                     *)
LEMMA Unlinkable ==
  ASSUME TypeOK, LinkInv, NEW i \in Inum, disk[i].type # "free", disk[i].nlink = 0
  PROVE  /\ i # RootIno /\ ~Named(i) /\ Namers(i) = {} /\ Subdirs(i) = {}
         /\ \A t \in Thread : ~Pledges(t, i)
<1>1. Count(i) + Cardinality(Pledgers(i)) <= 0
  BY LinkCount DEF LinkInv
<1>2. Cardinality(Namers(i)) = 0 /\ Cardinality(Subdirs(i)) = 0 /\ Cardinality(Pledgers(i)) = 0 /\ i # RootIno
  BY <1>1, LinkCount DEF Count
<1>3. Namers(i) = {} /\ Subdirs(i) = {} /\ Pledgers(i) = {}
  BY <1>2, LinkCount, FS_EmptySet
<1>4. ASSUME NEW d \in Inum, NEW n \in FileName, disk[d].type = "dir", entry[d][n] = i PROVE FALSE
  <2>1. <<d, n>> \in Namers(i)
    BY <1>4 DEF Namers
  <2> QED
    BY <1>3, <2>1
<1> QED
  BY <1>2, <1>3, <1>4 DEF Named, Pledgers


(***************************************************************************)
(* What a step of t keeps of the invariant.                                *)
(***************************************************************************)
Mine(t, i) == todo[t] # <<>> /\ Owned(Instruction(t)) = i

(* The step takes locks that are free, gives back its own, and changes     *)
(* nothing that another thread relies on.                                  *)
LocksStep(t) ==
  \A i \in Inum : \/ holder'[i] = holder[i]
                  \/ holder[i] = None /\ holder'[i] = t
                  \/ Mine(t, i) /\ holder'[i] = None
EntryStep(t) ==
  \A i \in Inum : holder[i] # None /\ ~Mine(t, i) => entry'[i] = entry[i]
DiskStep(t) ==
  \A i \in Inum : /\ disk'[i] = disk[i] \/ disk[i].type = "free" \/ Uses(t, i)
                  /\ \/ disk'[i].type = disk[i].type \/ disk[i].type = "free"
                     \/ At(t, "free") /\ Ref(t, 1) = i
UsesStep(t) ==
  \A i \in Inum : /\ Uses(t, i)' => Uses(t, i) \/ i = RootIno \/ Named(i) \/ disk[i].type = "free"
                  /\ Works(t, i)' => Works(t, i) \/ (Uses(t, i) /\ ~At(t, "free"))
CacheStep(t) ==
  \A i \in Inum :
    /\ table'[i].valid =>
         \/ table'[i].node = disk'[i] /\ disk'[i].type # "free"
         \/ At(t, "freed")' /\ Ref(t, 1)' = i
         \/ /\ table[i].valid /\ table'[i].node = table[i].node /\ disk'[i] = disk[i]
            /\ ~(At(t, "freed") /\ Ref(t, 1) = i)
         \/ \E u \in Thread \ {t} : At(u, "freed") /\ Ref(u, 1) = i
    /\ holder[i] # None /\ ~Mine(t, i) /\ table[i].valid => table'[i].valid
Steady(t) == Only(t) /\ LocksStep(t) /\ EntryStep(t) /\ DiskStep(t) /\ UsesStep(t) /\ CacheStep(t)

(* What is left of t's instructions is as it was or is new.                *)
TodoStep(t) ==
  /\ Chained(t)'
  /\ \A x \in Left(t)' : \/ x \in Later(t) /\ call'[t] = call[t] /\ rest'[t] = rest[t]
                         \/ Shaped(t, x)' /\ Backed(t, x)'
  /\ \A i \in Inum : holder'[i] = t => \E x \in Left(t)' : Owned(x) = i
  /\ Secret(t)' => Sole(t)'

LEMMA OthersIn ==
  ASSUME ThreadInv, NEW t \in Thread, NEW u \in Thread, NEW x \in Others(t, u)
  PROVE  x \in Left(u) /\ x \in Instr /\ Len(x.refs) \in {1, 2} /\ Shaped(u, x) /\ Backed(u, x)
<1>1. x \in Left(u)
  BY First, Idle DEF Others
<1> QED
  BY <1>1, Formed DEF ThreadInv

LEMMA KeptType ==
  ASSUME ThreadInv, SoleInv, NEW t \in Thread, Steady(t),
         NEW u \in Thread, NEW x \in Others(t, u), NEW i \in Inum, Needs(x, i)
  PROVE  disk[i].type # "free" /\ disk'[i].type = disk[i].type
<1>1. disk[i].type # "free"
  <2>1. Backed(u, x)
    BY OthersIn
  <2> QED
    BY <2>1 DEF Backed
<1>2. ASSUME At(t, "free"), Ref(t, 1) = i PROVE FALSE
  BY <1>2 DEF SoleInv, Secret, Sole
<1> QED
  BY <1>1, <1>2 DEF Steady, DiskStep

(* What another thread, or a later instruction, relies on.                 *)
LEMMA KeptBacked ==
  ASSUME ThreadInv, LockInv, SoleInv, NEW t \in Thread, Steady(t),
         NEW u \in Thread, NEW x \in Others(t, u), call'[u] = call[u], rest'[u] = rest[u]
  PROVE  Shaped(u, x)' /\ Backed(u, x)'
<1>1. x \in Left(u) /\ x \in Instr /\ Len(x.refs) \in {1, 2} /\ Shaped(u, x) /\ Backed(u, x)
  BY OthersIn
<1>2. Shaped(u, x)'
  BY <1>1 DEF Shaped
<1>3. \A i \in Inum : Needs(x, i) => disk[i].type # "free" /\ disk'[i].type = disk[i].type
  BY KeptType
<1>4. /\ x.refs[1] \in Inum /\ (Len(x.refs) = 2 => x.refs[2] \in Inum)
      /\ x.do \notin {"freed", "drop"} => Needs(x, x.refs[1]) /\ (Len(x.refs) = 2 => Needs(x, x.refs[2]))
  BY <1>1, Refs
<1>5. x.do \in {"created", "victim", "linkto"} => Len(x.refs) = 2
  BY <1>1 DEF Shaped
<1>6. ASSUME NEW i \in Inum, Owned(x) = i
      PROVE  holder'[i] = u /\ entry'[i] = entry[i] /\ (table[i].valid => table'[i].valid)
  <2>1. holder[i] = u
    BY <1>1, <1>6, OwnedRef
  <2>2. ~Mine(t, i)
    BY <1>6, OtherOwned DEF Mine
  <2>3. u # None
    BY Constants
  <2>4. holder'[i] = u
    BY <2>1, <2>2, <2>3 DEF Steady, LocksStep
  <2>5. entry'[i] = entry[i]
    BY <2>1, <2>2, <2>3 DEF Steady, EntryStep
  <2>6. table[i].valid => table'[i].valid
    BY <2>1, <2>2, <2>3 DEF Steady, CacheStep
  <2> QED
    BY <2>4, <2>5, <2>6
<1>7. Owned(x) # None => Owned(x) \in Inum /\ holder'[Owned(x)] = u
  <2>1. Owned(x) # None => Owned(x) \in Inum
    BY <1>4, <1>5 DEF Owned
  <2> QED
    BY <1>6, <2>1
<1>8. x.do \in {"created", "victim"} =>
        /\ x.refs[2] \in Inum /\ disk'[x.refs[2]].type = disk[x.refs[2]].type
        /\ table'[x.refs[2]].valid /\ entry'[x.refs[2]] = entry[x.refs[2]]
  <2>1. x.do \in {"created", "victim"} => Owned(x) = x.refs[2] /\ x.refs[2] \in Inum /\ table[x.refs[2]].valid
    BY <1>1, <1>4, <1>5 DEF Owned, Backed
  <2> QED
    BY <1>3, <1>4, <1>5, <1>6, <2>1
<1>9. x.do = "unlinked" => table'[x.refs[1]].valid
  <2>1. x.do = "unlinked" => Owned(x) = x.refs[1] /\ table[x.refs[1]].valid
    BY <1>1 DEF Owned, Backed
  <2> QED
    BY <1>4, <1>6, <2>1
<1>10. x.do = "created" => disk'[x.refs[1]] = disk[x.refs[1]] /\ NewType(u)' = NewType(u)
  <2>1. SUFFICES ASSUME x.do = "created" PROVE disk'[x.refs[1]] = disk[x.refs[1]]
    BY DEF NewType
  <2>2. u # t /\ x = Instruction(u) /\ todo[u] # <<>>
    <3>1. x \notin Later(u)
      BY <2>1 DEF ThreadInv, Chained, Walks, Ends
    <3>2. u # t
      BY <3>1 DEF Others
    <3> QED
      BY <1>1, <3>1, <3>2, First, Idle
  <2>3. Secret(u) /\ Ref(u, 1) = x.refs[1]
    BY <2>1, <2>2 DEF Secret, At, Ref
  <2>4. ~Uses(t, x.refs[1])
    BY <2>2, <2>3 DEF SoleInv, Sole, Others, Uses
  <2>5. disk[x.refs[1]].type # "free"
    BY <1>3, <1>4, <2>1
  <2> QED
    BY <1>4, <2>4, <2>5 DEF Steady, DiskStep
<1>11. \A i \in Inum : Needs(x, i) => disk'[i].type # "free"
  BY <1>3
<1>12. /\ x.do \in {"create", "unlink", "linkto"} => disk'[x.refs[1]].type = "dir"
       /\ x.do \in {"walkparent", "linkto"} /\ Len(x.refs) = 2 => disk'[x.refs[2]].type = "file"
  BY <1>1, <1>3, <1>4 DEF Backed
<1>13. x.do \in {"created", "victim"} =>
        /\ disk'[x.refs[2]].type = "dir" /\ LastName(call[u].path) # DotDot
        /\ x.do = "victim" => entry'[x.refs[2]][LastName(call[u].path)] = x.refs[1]
        /\ x.do = "created" => /\ entry'[x.refs[2]][LastName(call[u].path)] = None
                               /\ disk'[x.refs[1]] = [type |-> NewType(u), nlink |-> 0]
  BY <1>1, <1>8, <1>10 DEF Backed
<1>14. Backed(u, x)'
  BY <1>7, <1>8, <1>9, <1>10, <1>11, <1>12, <1>13 DEF Backed
<1> QED
  BY <1>2, <1>14

LEMMA KeptWorks ==
  ASSUME TypeOK, ThreadInv, SoleInv, NEW t \in Thread, Steady(t),
         NEW u \in Thread, NEW i \in Inum, Works(u, i)'
  PROVE  disk'[i].type # "free"
<1>1. ASSUME disk[i].type # "free", At(t, "free") => Ref(t, 1) # i PROVE disk'[i].type # "free"
  BY <1>1 DEF Steady, DiskStep
<1>2. ASSUME Works(u, i) PROVE disk'[i].type # "free"
  <2>1. disk[i].type # "free"
    BY <1>2 DEF ThreadInv
  <2>2. At(t, "free") => Ref(t, 1) # i
    BY <1>2 DEF SoleInv, Secret, Sole
  <2> QED
    BY <1>1, <2>1, <2>2
<1>3. ASSUME u # t PROVE Works(u, i)
  <2>1. ofile'[u] = ofile[u] /\ cwd'[u] = cwd[u] /\ todo'[u] = todo[u]
    BY <1>3 DEF Steady, Only
  <2>2. Leaving(u)' = Leaving(u)
    BY <2>1, Unmoved
  <2> QED
    BY <2>1, <2>2 DEF Works
<1>4. ASSUME u = t, ~Works(t, i) PROVE disk'[i].type # "free"
  <2>1. Uses(t, i) /\ ~At(t, "free")
    BY <1>4 DEF Steady, UsesStep
  <2>2. PICK x \in Left(t) : Needs(x, i)
    BY <1>4, <2>1 DEF Uses
  <2>3. Backed(t, x)
    BY <2>2 DEF ThreadInv
  <2>4. disk[i].type # "free"
    BY <2>2, <2>3 DEF Backed
  <2> QED
    BY <1>1, <2>1, <2>4
<1> QED
  BY <1>2, <1>3, <1>4

LEMMA KeptSole ==
  ASSUME TypeOK, ThreadInv, SoleInv, LinkInv, NEW t \in Thread, Steady(t),
         NEW u \in Thread \ {t}, Secret(u)'
  PROVE  Sole(u)'
<1>1. todo'[u] = todo[u]
  BY DEF Steady, Only
<1>2. Instruction(u)' = Instruction(u) /\ Later(u)' = Later(u)
  BY <1>1, Unmoved
<1>3. Secret(u) /\ Ref(u, 1)' = Ref(u, 1) /\ todo[u] # <<>> /\ Instruction(u).do \in {"free", "created"}
  BY <1>1, <1>2 DEF Secret, At, Ref
<1>4. Sole(u) /\ Instruction(u) \in Left(u) /\ Instruction(u) \in Instr /\ Len(Instruction(u).refs) \in {1, 2}
  BY <1>3, First, Formed DEF SoleInv
<1>5. PICK i \in Inum : i = Ref(u, 1)
  BY <1>4, Refs DEF Ref
<1>6. Needs(Instruction(u), i)
  BY <1>3, <1>4, <1>5, Refs DEF Ref
<1>7. disk[i].type # "free" /\ disk[i].nlink = 0
  <2>1. Backed(u, Instruction(u))
    BY <1>3, First
  <2> QED
    BY <1>4, <1>5, <1>6, <2>1 DEF Backed, Sole
<1>8. i # RootIno /\ ~Named(i)
  BY <1>7, Unlinkable
<1>9. \A v \in Thread : ~Works(v, i) /\ \A x \in Others(u, v) : ~Needs(x, i)
  BY <1>4, <1>5 DEF Sole
<1>10. ~Uses(t, i)
  BY <1>9 DEF Uses, Others
<1>11. ~Uses(t, i)' /\ disk'[i] = disk[i]
  BY <1>7, <1>8, <1>10 DEF Steady, UsesStep, DiskStep
<1>12. ASSUME NEW v \in Thread PROVE ~Works(v, i)' /\ \A x \in Others(u, v)' : ~Needs(x, i)
  <2>1. CASE v = t
    BY <1>11, <2>1 DEF Uses, Others
  <2>2. CASE v # t
    <3>1. ofile'[v] = ofile[v] /\ cwd'[v] = cwd[v] /\ todo'[v] = todo[v]
      BY <2>2 DEF Steady, Only
    <3>2. Leaving(v)' = Leaving(v) /\ Left(v)' = Left(v) /\ Later(v)' = Later(v)
      BY <3>1, Unmoved
    <3>3. Works(v, i)' = Works(v, i) /\ Others(u, v)' = Others(u, v)
      BY <3>1, <3>2 DEF Works, Others
    <3> QED
      BY <1>9, <3>3
  <2> QED
    BY <2>1, <2>2
<1>13. disk'[i].nlink = 0
  BY <1>7, <1>11
<1> QED
  BY <1>3, <1>5, <1>12, <1>13 DEF Sole

LEMMA StepKeeps ==
  ASSUME TypeOK, ThreadInv, LockInv, SoleInv, LinkInv, NEW t \in Thread, Steady(t), TodoStep(t),
         todo' \in [Thread -> Seq(Instr)], rest' \in [Thread -> Seq(FileName)]
  PROVE  ThreadInv' /\ LockInv' /\ SoleInv'
<1>1. \A u \in Thread \ {t} : /\ todo'[u] = todo[u] /\ call'[u] = call[u] /\ rest'[u] = rest[u]
                              /\ ofile'[u] = ofile[u] /\ cwd'[u] = cwd[u]
  BY DEF Steady, Only
<1>2. \A u \in Thread \ {t} : /\ Left(u)' = Left(u) /\ Later(u)' = Later(u) /\ Instruction(u)' = Instruction(u)
                              /\ Others(t, u) = Left(u)
  BY <1>1, Unmoved DEF Others
<1>3. ASSUME NEW u \in Thread
      PROVE  Chained(u)' /\ \A x \in Left(u)' : Shaped(u, x)' /\ Backed(u, x)'
  <2>1. CASE u = t
    <3>1. \A x \in Later(t) : call'[t] = call[t] /\ rest'[t] = rest[t] => Shaped(t, x)' /\ Backed(t, x)'
      BY KeptBacked DEF Others
    <3> QED
      BY <2>1, <3>1 DEF TodoStep
  <2>2. CASE u # t
    <3>1. Chained(u)'
      <4>1. Chained(u)
        BY DEF ThreadInv
      <4> QED
        BY <1>1, <1>2, <2>2, <4>1 DEF Chained, Ref
    <3>2. \A x \in Left(u) : Shaped(u, x)' /\ Backed(u, x)'
      BY <1>1, <1>2, <2>2, KeptBacked
    <3> QED
      BY <1>2, <2>2, <3>1, <3>2
  <2> QED
    BY <2>1, <2>2
<1>4. \A u \in Thread, i \in Inum : Works(u, i)' => disk'[i].type # "free"
  BY KeptWorks
<1>5. ThreadInv'
  BY <1>3, <1>4 DEF ThreadInv
<1>6. ASSUME NEW u \in Thread, NEW i \in Inum, holder'[i] = u
      PROVE  \E x \in Left(u)' : Owned(x) = i
  <2>1. CASE u = t
    BY <1>6, <2>1 DEF TodoStep
  <2>2. CASE u # t
    <3>1. holder[i] = u
      BY <1>6, <2>2, Constants DEF Steady, LocksStep
    <3> QED
      BY <1>2, <2>2, <3>1 DEF LockInv
  <2> QED
    BY <2>1, <2>2
<1>7. ASSUME NEW i \in Inum, table'[i].valid
      PROVE  \/ table'[i].node = disk'[i] /\ disk'[i].type # "free"
             \/ \E u \in Thread : At(u, "freed")' /\ Ref(u, 1)' = i
  <2>1. \A u \in Thread \ {t} : At(u, "freed") /\ Ref(u, 1) = i => At(u, "freed")' /\ Ref(u, 1)' = i
    BY <1>1, <1>2 DEF At, Ref
  <2>2. CASE /\ table[i].valid /\ table'[i].node = table[i].node /\ disk'[i] = disk[i]
             /\ ~(At(t, "freed") /\ Ref(t, 1) = i)
    BY <2>1, <2>2 DEF LockInv
  <2> QED
    BY <1>7, <2>1, <2>2 DEF Steady, CacheStep
<1>8. LockInv'
  BY <1>6, <1>7 DEF LockInv
<1>9. SoleInv'
  <2>1. Secret(t)' => Sole(t)'
    BY DEF TodoStep
  <2>2. \A u \in Thread \ {t} : Secret(u)' => Sole(u)'
    BY KeptSole
  <2> QED
    BY <2>1, <2>2 DEF SoleInv
<1> QED
  BY <1>5, <1>8, <1>9

(***************************************************************************)
(* Steps that change nothing on the disk.                                  *)
(***************************************************************************)
Entry == [ref : Nat, valid : BOOLEAN, node : Node]

ThreadTypes ==
  /\ holder \in [Inum -> Thread \cup {None}]
  /\ cwd \in [Thread -> Inum] /\ ofile \in [Thread -> Inum \cup {None}]
  /\ call \in [Thread -> Call \cup {None}] /\ rest \in [Thread -> Seq(FileName)]
  /\ todo \in [Thread -> Seq(Instr)] /\ calls \in 0 .. MaxCalls
Types == table \in [Inum -> Entry] /\ ThreadTypes

RefStep(t) ==
  \A i \in Inum : table'[i].ref = table[i].ref - Own(t, i) - Held(t, i) + Own(t, i)' + Held(t, i)'

LEMMA TypesHold ==
  ASSUME TypeOK, ThreadInv PROVE Types
BY DEF TypeOK, ThreadInv, Types, ThreadTypes, Call, Entry

LEMMA NotEmpty ==
  ASSUME NEW s \in Seq(Inum), Len(s) \in {1, 2} PROVE s \in Seq(Inum) \ {<<>>}
<1>1. Len(s) # 0
  OBVIOUS
<1>2. s = <<>> <=> Len(s) = 0
  BY EmptySeq
<1> QED
  BY <1>1, <1>2

LEMMA Balance ==
  ASSUME NEW r \in Nat, NEW s, NEW a \in Nat, NEW b \in Nat, NEW c \in Nat, NEW d \in Nat, NEW e \in Nat,
         s = r + e, c + d = a + b + e
  PROVE  s = r - a - b + c + d
OBVIOUS

LEMMA TypeStep ==
  ASSUME Types', ThreadInv', disk' \in [Inum -> Node], entry' \in [Inum -> [Name -> Inum \cup {None}]]
  PROVE  TypeOK'
<1>1. rest' \in [Thread -> Seq(Name)]
  BY DEF Types, ThreadTypes, FileName
<1>2. ASSUME NEW u \in Thread, NEW k \in DOMAIN todo'[u]
      PROVE  todo'[u][k].refs \in Seq(Inum) \ {<<>>}
  <2>1. todo'[u][k] \in Left(u)'
    BY <1>2 DEF Left
  <2>2. todo'[u][k] \in Instr /\ Len(todo'[u][k].refs) \in {1, 2}
    BY <2>1 DEF ThreadInv, Shaped
  <2>3. todo'[u][k].refs \in Seq(Inum)
    BY <2>2 DEF Instr
  <2> QED
    BY <2>2, <2>3, NotEmpty
<1> QED
  BY <1>1, <1>2 DEF Types, ThreadTypes, TypeOK, Call, Entry

LEMMA RefsStep ==
  ASSUME ThreadInv, RefInv, NEW t \in Thread, Only(t), Types', ThreadInv', RefStep(t)
  PROVE  RefInv'
<1>1. todo'[t] \in Seq(Instr) /\ Len(todo'[t]) \in {0, 1, 2} /\ \A x \in Left(t)' : Len(x.refs) \in {1, 2}
  BY DEF Types, ThreadTypes, ThreadInv, Chained, Shaped
<1> QED
  BY <1>1, RefsKept DEF RefStep

LEMMA QuietStep ==
  ASSUME Inv, NEW t \in Thread, disk' = disk, entry' = entry, Types',
         Only(t), LocksStep(t), UsesStep(t), CacheStep(t), TodoStep(t), RefStep(t),
         \A i \in Inum : Pledges(t, i)' => Pledges(t, i)
  PROVE  Inv'
<1> USE DEF Inv
<1>1. Steady(t)
  BY DEF Steady, EntryStep, DiskStep
<1>2. ThreadInv' /\ LockInv' /\ SoleInv'
  BY <1>1, StepKeeps DEF Types, ThreadTypes
<1>3. TypeOK'
  BY <1>2, TypeStep DEF TypeOK
<1>4. FreeInv'
  BY DEF FreeInv, NoEntry
<1>5. LinkInv'
  <2>1. \A i \in Inum, u \in Thread : Pledges(u, i)' => Pledges(u, i)
    BY Unmoved DEF Only
  <2>2. ASSUME NEW i \in Inum, disk[i].type # "free"
        PROVE  Links(i)' + Cardinality(Pledgers(i))' <= disk[i].nlink
    <3>1. Links(i)' = Links(i)
      BY DEF Links
    <3>2. Pledgers(i)' \subseteq Pledgers(i)
      BY <2>1 DEF Pledgers
    <3>3. IsFiniteSet(Pledgers(i)) /\ Cardinality(Pledgers(i)) \in Nat /\ Links(i) \in Nat
      BY LinkCount DEF Count
    <3>4. PICK P : P = Pledgers(i)
      OBVIOUS
    <3>5. PICK Q : Q = Pledgers(i)'
      OBVIOUS
    <3>6. IsFiniteSet(Q) /\ Cardinality(Q) <= Cardinality(P)
      BY <3>2, <3>3, <3>4, <3>5, FS_Subset
    <3>7. Cardinality(Q) \in Nat
      BY <3>6, FS_CardinalityType
    <3>8. Links(i) + Cardinality(P) <= disk[i].nlink /\ disk[i].nlink \in Nat
      BY <2>2, <3>4 DEF LinkInv, TypeOK, Node
    <3>9. Cardinality(Pledgers(i))' = Cardinality(Q)
      BY <3>5
    <3>10. PICK p \in Nat : p = Cardinality(P)
      BY <3>3, <3>4
    <3>11. PICK q \in Nat : q = Cardinality(Q)
      BY <3>7
    <3>12. q <= p
      BY <3>6, <3>10, <3>11
    <3>13. Links(i) + q <= disk[i].nlink
      BY <3>3, <3>8, <3>10, <3>12
    <3> QED
      BY <3>1, <3>9, <3>11, <3>13
  <2> QED
    BY <2>2 DEF LinkInv, NoDangling
<1>6. RefInv'
  BY <1>2, RefsStep
<1> QED
  BY <1>2, <1>3, <1>4, <1>5, <1>6

(* Who is about to lock an inode has nothing else to do, and the inode is  *)
(* there.                                                                  *)
LEMMA AtLock ==
  ASSUME TypeOK, ThreadInv, LockInv, NEW t \in Thread, NEW do \in Locking, Locks(t, do)
  PROVE  /\ todo[t] # <<>> /\ Instruction(t).do = do /\ Instruction(t) \in Instr
         /\ Len(todo[t]) = 1 /\ Later(t) = {} /\ Left(t) = {Instruction(t)}
         /\ Len(Instruction(t).refs) \in {1, 2} /\ Shaped(t, Instruction(t)) /\ Backed(t, Instruction(t))
         /\ Ref(t, 1) \in Inum /\ Needs(Instruction(t), Ref(t, 1)) /\ Uses(t, Ref(t, 1))
         /\ holder[Ref(t, 1)] = None /\ disk[Ref(t, 1)].type # "free"
         /\ Loaded(Ref(t, 1)) = disk[Ref(t, 1)]
<1>1. todo[t] # <<>> /\ Instruction(t).do = do /\ holder[Ref(t, 1)] = None
  BY DEF Locks, At
<1>2. /\ Len(todo[t]) \in {1, 2} /\ Left(t) = {Instruction(t)} \cup Later(t) /\ Instruction(t) \in Instr
      /\ Shaped(t, Instruction(t)) /\ Backed(t, Instruction(t))
      /\ Len(todo[t]) = 2 => Later(t) # {}
  BY <1>1, First
<1>3. Later(t) = {}
  <2>1. Chained(t) /\ do \notin Puts
    BY DEF ThreadInv, Locking, Puts
  <2> QED
    BY <1>1, <2>1 DEF Chained
<1>4. Len(Instruction(t).refs) \in {1, 2}
  BY <1>2 DEF Shaped
<1>5. Ref(t, 1) \in Inum /\ Needs(Instruction(t), Ref(t, 1))
  <2>1. do \notin {"freed", "drop"}
    BY DEF Locking
  <2> QED
    BY <1>1, <1>2, <1>4, <2>1, Refs DEF Ref
<1>6. disk[Ref(t, 1)].type # "free"
  BY <1>2, <1>5 DEF Backed
<1>7. Loaded(Ref(t, 1)) = disk[Ref(t, 1)]
  BY <1>1, <1>5, LoadedDisk
<1>8. Uses(t, Ref(t, 1))
  BY <1>2, <1>5 DEF Uses
<1> QED
  BY <1>1, <1>2, <1>3, <1>4, <1>5, <1>6, <1>7, <1>8

(* The table after ilock() of i and iget() of k, if k is not None.         *)
Table(i, k) == IF k = None THEN Ilock(i) ELSE Iget(Ilock(i), k)

LEMMA TableIs ==
  ASSUME TypeOK, ThreadInv, LockInv, NEW i \in Inum, holder[i] = None, NEW k \in Inum \cup {None},
         NEW tc, tc = Table(i, k)
  PROVE  /\ tc \in [Inum -> Entry]
         /\ tc[i].valid /\ tc[i].node = disk[i]
         /\ \A j \in Inum : /\ tc[j].ref = table[j].ref + (IF j = k THEN 1 ELSE 0)
                            /\ j # i => /\ tc[j].valid = table[j].valid
                                        /\ tc[j].node = table[j].node
<1>1. table \in [Inum -> Entry] /\ disk[i] \in Node
  BY DEF TypeOK, Entry
<1>2. Loaded(i) = disk[i]
  BY LoadedDisk
<1>3. PICK tb : tb = Ilock(i)
  OBVIOUS
<1>4. tb = [table EXCEPT ![i].valid = TRUE, ![i].node = disk[i]]
  BY <1>2, <1>3 DEF Ilock
<1>5. /\ tb \in [Inum -> Entry] /\ tb[i].valid /\ tb[i].node = disk[i]
      /\ \A j \in Inum : tb[j].ref = table[j].ref /\ (j # i => tb[j] = table[j])
  BY <1>1, <1>4 DEF Entry
<1>6. CASE k = None
  <2>1. \A j \in Inum : j # k /\ table[j].ref \in Nat
    BY <1>1, <1>6, Constants DEF Entry
  <2> QED
    BY <1>3, <1>5, <1>6, <2>1 DEF Table
<1>7. CASE k # None
  <2>1. Table(i, k) = [tb EXCEPT ![k].ref = @ + 1] /\ k \in Inum
    BY <1>3, <1>7 DEF Table, Iget
  <2>3. /\ tc \in [Inum -> Entry]
        /\ \A j \in Inum : /\ tc[j].valid = tb[j].valid /\ tc[j].node = tb[j].node
                           /\ tc[j].ref = tb[j].ref + (IF j = k THEN 1 ELSE 0)
    BY <1>5, <2>1 DEF Entry
  <2> QED
    BY <1>5, <2>3
<1> QED
  BY <1>6, <1>7

(* What t comes to refer to: what it referred to before, and k.            *)
Reaches(t, k) ==
  \A i \in Inum : /\ Works(t, i)' => Uses(t, i)
                  /\ \A x \in Left(t)' : Needs(x, i) => Uses(t, i) \/ i = k
                  /\ Pledges(t, i)' => Pledges(t, i)
Gains(t, k) ==
  \A i \in Inum :
    \E a \in Nat, b \in Nat, c \in Nat, d \in Nat :
      /\ a = Own(t, i) /\ b = Held(t, i) /\ c = Own(t, i)' /\ d = Held(t, i)'
      /\ c + d = a + b + (IF i = k THEN 1 ELSE 0)

LEMMA GainedRefs ==
  ASSUME TypeOK, NEW t, NEW k, Gains(t, k),
         \A i \in Inum : table'[i].ref = table[i].ref + (IF i = k THEN 1 ELSE 0)
  PROVE  RefStep(t)
<1>1. SUFFICES ASSUME NEW i \in Inum
               PROVE table'[i].ref = table[i].ref - Own(t, i) - Held(t, i) + Own(t, i)' + Held(t, i)'
  BY DEF RefStep
<1>2. PICK e \in Nat : e = IF i = k THEN 1 ELSE 0
  OBVIOUS
<1>3. PICK a \in Nat, b \in Nat, c \in Nat, d \in Nat :
        /\ a = Own(t, i) /\ b = Held(t, i) /\ c = Own(t, i)' /\ d = Held(t, i)'
        /\ c + d = a + b + e
  BY <1>2 DEF Gains
<1>4. PICK r \in Nat : r = table[i].ref
  BY DEF TypeOK
<1>5. PICK s : s = table'[i].ref
  OBVIOUS
<1>6. s = r + e
  BY <1>2, <1>4, <1>5
<1>7. s = r - a - b + c + d
  BY <1>3, <1>6, Balance
<1> QED
  BY <1>3, <1>4, <1>5, <1>7

(* A step that begins with ilock() of ip.                                  *)
LEMMA LockingStep ==
  ASSUME Inv, NEW t \in Thread, NEW do \in Locking, Locks(t, do),
         disk' = disk, entry' = entry, ThreadTypes', NEW k \in Inum \cup {None},
         table' = Table(Ref(t, 1), k), k = None \/ Uses(t, k) \/ k = RootIno \/ Named(k),
         Only(t), LocksStep(t), TodoStep(t), Reaches(t, k), Gains(t, k)
  PROVE  Inv'
<1> USE DEF Inv
<1>1. PICK ip \in Inum : /\ ip = Ref(t, 1) /\ holder[ip] = None /\ disk[ip].type # "free"
                         /\ todo[t] # <<>> /\ Instruction(t).do = do
  BY AtLock
<1>2. /\ table' \in [Inum -> Entry] /\ table'[ip].valid /\ table'[ip].node = disk[ip]
      /\ \A j \in Inum : /\ table'[j].ref = table[j].ref + (IF j = k THEN 1 ELSE 0)
                         /\ j # ip => table'[j].valid = table[j].valid /\ table'[j].node = table[j].node
  <2>1. table' = Table(ip, k)
    BY <1>1
  <2>2. PICK tb : tb = Table(ip, k)
    OBVIOUS
  <2>3. /\ tb \in [Inum -> Entry] /\ tb[ip].valid /\ tb[ip].node = disk[ip]
        /\ \A j \in Inum : /\ tb[j].ref = table[j].ref + (IF j = k THEN 1 ELSE 0)
                           /\ j # ip => tb[j].valid = table[j].valid /\ tb[j].node = table[j].node
    BY <1>1, <2>2, TableIs
  <2> QED
    BY <2>1, <2>2, <2>3
<1>3. Types'
  BY <1>2 DEF Types
<1>4. do \notin {"free", "freed"}
  BY DEF Locking
<1>5. CacheStep(t)
  <2>1. ~At(t, "freed")
    BY <1>1, <1>4 DEF At
  <2> QED
    BY <1>1, <1>2, <2>1 DEF CacheStep
<1>6. UsesStep(t)
  <2>1. ~At(t, "free")
    BY <1>1, <1>4 DEF At
  <2>2. \A i \in Inum : i = k => Uses(t, i) \/ i = RootIno \/ Named(i)
    BY Constants
  <2>3. \A i \in Inum : Uses(t, i)' <=> Works(t, i)' \/ \E x \in Left(t)' : Needs(x, i)
    BY DEF Uses, Needs
  <2> QED
    BY <2>1, <2>2, <2>3 DEF UsesStep, Reaches
<1>7. RefStep(t)
  BY <1>2, GainedRefs
<1>8. \A i \in Inum : Pledges(t, i)' => Pledges(t, i)
  BY DEF Reaches
<1> QED
  BY <1>3, <1>5, <1>6, <1>7, <1>8, QuietStep

(***************************************************************************)
(* What a new instruction is.                                              *)
(***************************************************************************)
LEMMA Single ==
  ASSUME NEW do \in Puts \cup Walks \cup Ends, NEW i \in Inum, NEW x, x = I(do, <<i>>)
  PROVE  /\ x \in Instr /\ x.do = do /\ Len(x.refs) = 1 /\ x.refs[1] = i
         /\ \A j : Needs(x, j) <=> do \notin {"freed", "drop"} /\ j = i
         /\ \A j : Occurs(x, j) = IF j = i THEN 1 ELSE 0
         /\ Owned(x) = IF do \in {"unlockput", "made", "unlinked", "free", "freed"} THEN i ELSE None
         /\ Pledged(x) = IF do \in {"badlink", "unlinked"} THEN i ELSE None
<1>1. x \in Instr /\ x.do = do /\ Len(x.refs) = 1 /\ x.refs[1] = i
  BY MadeInstr
<1>2. \A j : Needs(x, j) <=> do \notin {"freed", "drop"} /\ j = i
  BY <1>1, Refs
<1>3. \A j : Occurs(x, j) = IF j = i THEN 1 ELSE 0
  BY <1>1 DEF Occurs
<1>4. Owned(x) = IF do \in {"unlockput", "made", "unlinked", "free", "freed"} THEN i ELSE None
  BY <1>1 DEF Owned, Puts, Walks, Ends
<1>5. Pledged(x) = IF do \in {"badlink", "unlinked"} THEN i ELSE None
  BY <1>1 DEF Pledged
<1> QED
  BY <1>1, <1>2, <1>3, <1>4, <1>5

LEMMA Pair ==
  ASSUME NEW do \in {"created", "victim", "walkparent", "linkto"}, NEW i \in Inum, NEW j \in Inum,
         NEW x, x = I(do, <<i, j>>)
  PROVE  /\ x \in Instr /\ x.do = do /\ Len(x.refs) = 2 /\ x.refs[1] = i /\ x.refs[2] = j
         /\ \A k : Needs(x, k) <=> k = i \/ k = j
         /\ \A k : Occurs(x, k) = (IF k = i THEN 1 ELSE 0) + (IF k = j THEN 1 ELSE 0)
         /\ Owned(x) = IF do \in {"created", "victim"} THEN j ELSE None
         /\ Pledged(x) = IF do \in {"walkparent", "linkto"} THEN j ELSE None
<1>1. x \in Instr /\ x.do = do /\ Len(x.refs) = 2 /\ x.refs[1] = i /\ x.refs[2] = j
  BY MadePair DEF Walks
<1>2. \A k : Needs(x, k) <=> k = i \/ k = j
  BY <1>1, Refs
<1>3. \A k : Occurs(x, k) = (IF k = i THEN 1 ELSE 0) + (IF k = j THEN 1 ELSE 0)
  BY <1>1 DEF Occurs
<1>4. Owned(x) = IF do \in {"created", "victim"} THEN j ELSE None
  BY <1>1 DEF Owned
<1>5. Pledged(x) = IF do \in {"walkparent", "linkto"} THEN j ELSE None
  BY <1>1 DEF Pledged
<1> QED
  BY <1>1, <1>2, <1>3, <1>4, <1>5

(* What t refers to, the root and what an entry names is there.            *)
LEMMA Allocated ==
  ASSUME ThreadInv, LinkInv, NEW t \in Thread, NEW i \in Inum,
         Uses(t, i) \/ i = RootIno \/ (\E d \in Inum, n \in FileName : disk[d].type = "dir" /\ entry[d][n] = i)
  PROVE  disk[i].type # "free"
<1>1. CASE Uses(t, i)
  <2>1. CASE Works(t, i)
    BY <2>1 DEF ThreadInv
  <2>2. CASE \E x \in Left(t) : Needs(x, i)
    <3>1. PICK x \in Left(t) : Needs(x, i)
      BY <2>2
    <3>2. Backed(t, x)
      BY DEF ThreadInv
    <3> QED
      BY <3>1, <3>2 DEF Backed
  <2> QED
    BY <1>1, <2>1, <2>2 DEF Uses
<1>2. CASE i = RootIno
  BY <1>2 DEF LinkInv
<1>3. CASE \E d \in Inum, n \in FileName : disk[d].type = "dir" /\ entry[d][n] = i
  BY <1>3, Constants DEF LinkInv, NoDangling
<1> QED
  BY <1>1, <1>2, <1>3

LEMMA Numbers ==
  ASSUME NEW t
  PROVE  \A i : Held(t, i) \in Nat /\ Own(t, i) \in Nat /\ Occurs(Instruction(t), i) \in Nat
BY OccursType DEF Held, Total, Own

(* A thread has k once more in its instructions.                           *)
HeldGain(t, k) ==
  \A i \in Inum : \E o \in Nat, n \in Nat :
    /\ o = Occurs(Instruction(t), i) /\ Held(t, i)' = Held(t, i) - o + n
    /\ n = o + (IF i = k THEN 1 ELSE 0)

LEMMA Gained ==
  ASSUME NEW t, NEW k, HeldGain(t, k), \A i \in Inum : Own(t, i)' = Own(t, i)
  PROVE  Gains(t, k)
<1>1. SUFFICES ASSUME NEW i \in Inum
               PROVE  \E a \in Nat, b \in Nat, c \in Nat, d \in Nat :
                        /\ a = Own(t, i) /\ b = Held(t, i) /\ c = Own(t, i)' /\ d = Held(t, i)'
                        /\ c + d = a + b + (IF i = k THEN 1 ELSE 0)
  BY DEF Gains
<1>2. PICK a \in Nat, b \in Nat : a = Own(t, i) /\ b = Held(t, i)
  BY Numbers
<1>3. PICK e \in Nat : e = IF i = k THEN 1 ELSE 0
  OBVIOUS
<1>4. PICK o \in Nat, n \in Nat : Held(t, i)' = Held(t, i) - o + n /\ n = o + e
  BY <1>3 DEF HeldGain
<1>5. Held(t, i)' = b - o + n
  BY <1>2, <1>4
<1>6. PICK d \in Nat : d = b + e
  OBVIOUS
<1>7. b - o + n = d
  BY <1>4, <1>6
<1>8. d = Held(t, i)' /\ a = Own(t, i)'
  BY <1>2, <1>5, <1>7
<1>9. a + d = a + b + e
  BY <1>6
<1> QED
  BY <1>2, <1>3, <1>8, <1>9

(* The simple case: a step that locks and unlocks ip, changes nothing but  *)
(* the table, and leaves instructions that hold no lock.                   *)
NewPlain(t, x, k) ==
  /\ x.do \notin {"free", "freed", "drop", "setcwd", "created", "victim", "unlockput", "made", "unlinked"}
  /\ Shaped(t, x)'
  /\ \A i \in Inum : Needs(x, i) => Needs(Instruction(t), i) \/ i = k
  /\ x.do \in {"create", "unlink", "linkto"} => disk[x.refs[1]].type = "dir"
  /\ x.do \in {"walkparent", "linkto"} /\ Len(x.refs) = 2 => disk[x.refs[2]].type = "file"
  /\ Pledged(x) \in {None, Pledged(Instruction(t))}

LEMMA Plain ==
  ASSUME Inv, NEW t \in Thread, NEW do \in Locking \ {"created", "victim"}, Locks(t, do),
         disk' = disk, entry' = entry, holder' = holder, cwd' = cwd, ofile' = ofile,
         ThreadTypes', Only(t), NEW k \in Inum \cup {None},
         table' = Table(Ref(t, 1), k), k = None \/ Uses(t, k) \/ k = RootIno \/ Named(k),
         Len(todo'[t]) \in {0, 1, 2}, \A x \in Left(t)' : NewPlain(t, x, k),
         \A x \in Later(t)' : x.do \in Walks \cup Ends /\ Instruction(t)'.do = "put",
         todo'[t] # <<>> => Instruction(t)' \in Left(t)',
         HeldGain(t, k)
  PROVE  Inv'
<1> USE DEF Inv
<1>1. /\ todo[t] # <<>> /\ Instruction(t).do = do /\ Left(t) = {Instruction(t)} /\ do \in Locking
  BY AtLock
<1>2. Leaving(t) = FALSE /\ Leaving(t)' = FALSE
  BY <1>1 DEF Leaving, Locking, NewPlain
<1>3. (\A i \in Inum : Own(t, i)' = Own(t, i)) /\ (\A i \in Inum : Works(t, i)' = Works(t, i))
  BY <1>2 DEF Own, Works
<1>4. Gains(t, k)
  BY <1>3, Gained
<1>5. Reaches(t, k)
  <2>1. \A i \in Inum : Works(t, i)' => Uses(t, i)
    BY <1>3 DEF Uses
  <2>2. \A i \in Inum, x \in Left(t)' : Needs(x, i) => Uses(t, i) \/ i = k
    BY <1>1 DEF NewPlain, Uses
  <2>3. \A i \in Inum : Pledges(t, i)' => Pledges(t, i)
    BY <1>1, Constants DEF NewPlain, Pledges
  <2> QED
    BY <2>1, <2>2, <2>3 DEF Reaches
<1>6. LocksStep(t)
  BY DEF LocksStep
<1>7. k \in Inum => disk[k].type # "free"
  BY Allocated, Constants DEF Named
<1>8. ASSUME NEW x \in Left(t)' PROVE Shaped(t, x)' /\ Backed(t, x)'
  <2>1. /\ NewPlain(t, x, k) /\ x \in Instr /\ Shaped(t, x)'
    BY <1>8 DEF NewPlain, Shaped
  <2>2. \A i \in Inum : Needs(x, i) => disk'[i].type # "free"
    <3>1. Backed(t, Instruction(t))
      BY <1>1, First
    <3> QED
      BY <1>7, <2>1, <3>1 DEF NewPlain, Backed
  <2>3. Owned(x) = None
    BY <2>1 DEF NewPlain, Owned
  <2> QED
    BY <2>1, <2>2, <2>3 DEF NewPlain, Backed
<1>9. Chained(t)'
  BY DEF Chained, Puts
<1>10. \A i \in Inum : holder'[i] # t
  <2>1. Owned(Instruction(t)) = None
    BY <1>1 DEF Owned, Locking
  <2> QED
    BY <1>1, <2>1, Constants DEF LockInv
<1>11. ~Secret(t)'
  BY DEF Secret, At, NewPlain
<1>12. TodoStep(t)
  BY <1>8, <1>9, <1>10, <1>11 DEF TodoStep
<1> QED
  BY <1>4, <1>5, <1>6, <1>12, LockingStep

(***************************************************************************)
(* The steps, one lemma each.  First those of namex().                     *)
(***************************************************************************)
LEMMA PathElems ==
  ASSUME NoDots, NEW p \in Path
  PROVE  p.elems \in Seq(FileName) /\ p.elems # <<>> /\ LastName(p) \in FileName
<1>1. PICK s : s = p.elems
  OBVIOUS
<1>2. s \in Seq(Name) /\ s # <<>> /\ \A k \in DOMAIN s : s[k] # DotDot
  BY <1>1, InodesAssumption DEF NoDots
<1>3. PICK n \in Nat : n = Len(s) /\ DOMAIN s = 1 .. n
  BY <1>2, LenProperties
<1>4. n # 0
  BY <1>2, <1>3, EmptySeq
<1>5. \A k \in 1 .. n : s[k] \in FileName
  BY <1>2, <1>3 DEF FileName
<1>6. s \in Seq(FileName)
  <2>1. s = [k \in 1 .. n |-> s[k]]
    BY <1>2, <1>3
  <2> QED
    BY <1>5, <2>1
<1>7. s[n] \in FileName
  BY <1>4, <1>5
<1> QED
  BY <1>1, <1>2, <1>3, <1>6, <1>7 DEF LastName, Last

(* What a step with new instructions and perhaps another rest leaves.      *)
LEMMA ThreadOnly ==
  ASSUME Inv, NEW t \in Thread,
         todo' \in [Thread -> Seq(Instr)], \A u \in Thread \ {t} : todo'[u] = todo[u],
         call' \in [Thread -> Call \cup {None}], \A u \in Thread \ {t} : call'[u] = call[u],
         rest' \in [Thread -> Seq(FileName)], \A u \in Thread \ {t} : rest'[u] = rest[u],
         cwd' = cwd, ofile' = ofile, holder' = holder, calls' = calls
  PROVE  ThreadTypes' /\ Only(t)
<1>1. Types
  BY TypesHold DEF Inv
<1> QED
  BY <1>1 DEF Types, ThreadTypes, Only

RestStep(t) == rest' \in [Thread -> Seq(FileName)] /\ \A u \in Thread \ {t} : rest'[u] = rest[u]

(* Only the table, the instructions, call and rest of t change.            *)
Inside(t) == /\ disk' = disk /\ entry' = entry /\ holder' = holder
             /\ cwd' = cwd /\ ofile' = ofile /\ calls' = calls /\ RestStep(t)

LEMMA PutIs ==
  ASSUME NEW i \in Inum, NEW x, x = Put(i)
  PROVE  /\ x \in Instr /\ x.do = "put" /\ Len(x.refs) = 1 /\ x.refs[1] = i
         /\ \A j : Needs(x, j) <=> j = i
         /\ \A j : Occurs(x, j) = IF j = i THEN 1 ELSE 0
         /\ Pledged(x) = None /\ Owned(x) = None
BY Single DEF Put, Puts

LEMMA PlainOne ==
  ASSUME Inv, NEW t \in Thread, NEW do \in Locking \ {"created", "victim"}, Locks(t, do), Inside(t),
         table' = Table(Ref(t, 1), None), NEW x \in Instr, Continue(t, <<x>>),
         call'[t] = call[t] => NewPlain(t, x, None), \A i \in Inum : Occurs(x, i) = Occurs(Instruction(t), i)
  PROVE  Inv'
<1> USE DEF Inv
<1>1. todo[t] # <<>> /\ Later(t) = {}
  BY AtLock
<1>2. /\ todo' \in [Thread -> Seq(Instr)] /\ \A u \in Thread \ {t} : todo'[u] = todo[u]
      /\ call' \in [Thread -> Call \cup {None}] /\ \A u \in Thread \ {t} : call'[u] = call[u]
      /\ Len(todo'[t]) \in {0, 1, 2} /\ Left(t)' = {x} /\ Later(t)' = {}
      /\ call'[t] = call[t] /\ Instruction(t)' = x
      /\ \A i : Held(t, i)' = Held(t, i) - Occurs(Instruction(t), i) + Occurs(x, i)
  BY <1>1, Continued1
<1>3. ThreadTypes' /\ Only(t)
  BY <1>2, ThreadOnly DEF Inside, RestStep
<1>4. HeldGain(t, None)
  <2>1. ASSUME NEW i \in Inum
        PROVE  \E o \in Nat, n \in Nat :
                  /\ o = Occurs(Instruction(t), i) /\ Held(t, i)' = Held(t, i) - o + n
                  /\ n = o + (IF i = None THEN 1 ELSE 0)
    <3>1. PICK o \in Nat : o = Occurs(Instruction(t), i)
      BY OccursType
    <3>2. i # None /\ o = o + 0
      BY Constants
    <3>3. Held(t, i)' = Held(t, i) - o + o
      BY <1>2, <3>1
    <3> QED
      BY <3>1, <3>2, <3>3
  <2> QED
    BY <2>1 DEF HeldGain
<1>5. \A y \in Left(t)' : NewPlain(t, y, None)
  BY <1>2
<1> QED
  BY <1>2, <1>3, <1>4, <1>5, Plain DEF Inside

LEMMA PlainTwo ==
  ASSUME Inv, NEW t \in Thread, NEW do \in Locking \ {"created", "victim"}, Locks(t, do), Inside(t),
         NEW k \in Inum \cup {None},
         table' = Table(Ref(t, 1), k), k = None \/ Uses(t, k) \/ k = RootIno \/ Named(k),
         NEW y \in Instr, y.do \in Walks \cup Ends, Continue(t, <<Put(Ref(t, 1)), y>>),
         call'[t] = call[t] => NewPlain(t, y, k),
         \A i \in Inum : (IF i = Ref(t, 1) THEN 1 ELSE 0) + Occurs(y, i)
                           = Occurs(Instruction(t), i) + (IF i = k THEN 1 ELSE 0)
  PROVE  Inv'
<1> USE DEF Inv
<1>1. /\ todo[t] # <<>> /\ Later(t) = {} /\ Len(todo[t]) = 1 /\ Ref(t, 1) \in Inum
      /\ Needs(Instruction(t), Ref(t, 1))
  BY AtLock
<1>2. PICK ip \in Inum : ip = Ref(t, 1)
  BY <1>1
<1>3. PICK x : x = Put(ip)
  OBVIOUS
<1>4. /\ x \in Instr /\ x.do = "put" /\ Len(x.refs) = 1 /\ x.refs[1] = ip
      /\ \A j : Needs(x, j) <=> j = ip
      /\ \A j : Occurs(x, j) = IF j = ip THEN 1 ELSE 0
      /\ Pledged(x) = None
  BY <1>3, PutIs
<1>5. Continue(t, <<x, y>>)
  BY <1>2, <1>3
<1>6. /\ todo' \in [Thread -> Seq(Instr)] /\ \A u \in Thread \ {t} : todo'[u] = todo[u]
      /\ call' \in [Thread -> Call \cup {None}] /\ \A u \in Thread \ {t} : call'[u] = call[u]
      /\ Len(todo'[t]) \in {0, 1, 2} /\ Left(t)' = {x, y} /\ Later(t)' = {y}
      /\ call'[t] = call[t] /\ Instruction(t)' = x
      /\ \A i : Held(t, i)' = Held(t, i) - Occurs(Instruction(t), i) + Occurs(x, i) + Occurs(y, i)
  BY <1>1, <1>4, <1>5, Continued2
<1>7. ThreadTypes' /\ Only(t)
  BY <1>6, ThreadOnly DEF Inside, RestStep
<1>8. HeldGain(t, k)
  <2>1. ASSUME NEW i \in Inum
        PROVE  \E o \in Nat, n \in Nat :
                  /\ o = Occurs(Instruction(t), i) /\ Held(t, i)' = Held(t, i) - o + n
                  /\ n = o + (IF i = k THEN 1 ELSE 0)
    <3>1. PICK o \in Nat, a \in Nat, b \in Nat, h \in Nat :
            o = Occurs(Instruction(t), i) /\ a = Occurs(x, i) /\ b = Occurs(y, i) /\ h = Held(t, i)
      BY OccursType, Numbers
    <3>2. PICK e \in Nat : e = IF i = k THEN 1 ELSE 0
      OBVIOUS
    <3>3. a + b = o + e
      BY <1>2, <1>4, <3>1, <3>2
    <3>4. Held(t, i)' = h - o + a + b
      BY <1>6, <3>1
    <3>5. PICK n \in Nat : n = a + b
      OBVIOUS
    <3>6. h - o + a + b = h - o + n
      BY <3>5
    <3>7. Held(t, i)' = Held(t, i) - o + n /\ n = o + e
      BY <3>1, <3>3, <3>4, <3>5, <3>6
    <3> QED
      BY <3>1, <3>2, <3>7
  <2> QED
    BY <2>1 DEF HeldGain
<1>9. NewPlain(t, x, k)
  BY <1>1, <1>2, <1>4 DEF NewPlain, Shaped, Instr
<1>10. \A z \in Left(t)' : NewPlain(t, z, k)
  BY <1>6, <1>9
<1> QED
  BY <1>2, <1>4, <1>6, <1>7, <1>8, <1>10, Plain DEF Inside

(* The call gives up ip and does nothing else.                             *)
LEMMA GivenUp ==
  ASSUME Inv, NEW t \in Thread, NEW do \in Locking \ {"created", "victim"}, Locks(t, do), Inside(t),
         Len(Instruction(t).refs) = 1, table' = Ilock(Ref(t, 1)), Continue(t, <<Put(Ref(t, 1))>>)
  PROVE  Inv'
<1> USE DEF Inv
<1>1. /\ Ref(t, 1) \in Inum /\ Instruction(t) \in Instr /\ Needs(Instruction(t), Ref(t, 1))
      /\ Instruction(t).do = do
  BY AtLock
<1>2. PICK ip \in Inum : ip = Ref(t, 1)
  BY <1>1
<1>3. PICK x : x = Put(ip)
  OBVIOUS
<1>4. /\ x \in Instr /\ x.do = "put" /\ Len(x.refs) = 1 /\ x.refs[1] = ip
      /\ \A j : Needs(x, j) <=> j = ip
      /\ \A j : Occurs(x, j) = IF j = ip THEN 1 ELSE 0
      /\ Pledged(x) = None
  BY <1>3, PutIs
<1>5. \A j : Occurs(Instruction(t), j) = IF j = ip THEN 1 ELSE 0
  BY <1>2 DEF Ref, Occurs
<1>6. NewPlain(t, x, None)
  BY <1>1, <1>2, <1>4 DEF NewPlain, Shaped, Instr
<1>7. table' = Table(Ref(t, 1), None) /\ Continue(t, <<x>>)
  BY <1>2, <1>3 DEF Table
<1> QED
  BY <1>4, <1>5, <1>6, <1>7, PlainOne

LEMMA Spelled ==
  ASSUME NEW S, NEW s \in Seq(S)
  PROVE  (Len(s) = 1 => s = <<s[1]>>) /\ (Len(s) = 2 => s = <<s[1], s[2]>>)
<1>1. CASE Len(s) = 1
  <2>1. PICK a \in S : a = s[1]
    BY <1>1
  <2>2. <<a>> \in Seq(S) /\ Len(<<a>>) = 1 /\ <<a>>[1] = a
    BY Tuples
  <2>3. PICK r \in Seq(S) : r = <<a>> /\ Len(r) = 1 /\ r[1] = a
    BY <2>2
  <2>4. Len(s) = Len(r) /\ \A i \in 1 .. Len(s) : s[i] = r[i]
    BY <1>1, <2>1, <2>3
  <2>5. s = r
    BY <2>4, SeqEqual
  <2> QED
    BY <1>1, <2>1, <2>3, <2>5
<1>2. CASE Len(s) = 2
  <2>1. PICK a \in S, b \in S : a = s[1] /\ b = s[2]
    BY <1>2
  <2>2. <<a, b>> \in Seq(S) /\ Len(<<a, b>>) = 2 /\ <<a, b>>[1] = a /\ <<a, b>>[2] = b
    BY Tuples
  <2>3. PICK r \in Seq(S) : r = <<a, b>> /\ Len(r) = 2 /\ r[1] = a /\ r[2] = b
    BY <2>2
  <2>4. Len(s) = Len(r) /\ \A i \in 1 .. Len(s) : s[i] = r[i]
    BY <1>2, <2>1, <2>3
  <2>5. s = r
    BY <2>4, SeqEqual
  <2> QED
    BY <1>2, <2>1, <2>3, <2>5
<1> QED
  BY <1>1, <1>2

LEMMA Appended ==
  ASSUME NEW S, NEW s \in Seq(S), NEW n \in S
  PROVE  /\ Len(s) = 1 => <<n>> \o Tail(s) = <<n>>
         /\ Len(s) = 2 => <<n>> \o Tail(s) = <<n, s[2]>>
<1>1. PICK c : c = <<n>> \o Tail(s)
  OBVIOUS
<1>2. <<n>> \in Seq(S) /\ Len(<<n>>) = 1 /\ <<n>>[1] = n
  BY Tuples
<1>3. PICK is \in Seq(S), m \in {0, 1, 2} : is = <<n>> /\ Len(is) = m /\ m = 1 /\ is[1] = n
  BY <1>2
<1>4. CASE Len(s) = 1
  <2>1. PICK k \in {1, 2} : k = 1 /\ Len(s) = k
    BY <1>4
  <2>2. c \in Seq(S) /\ Len(c) = m + k - 1 /\ \A j \in 1 .. m : c[j] = is[j]
    BY <1>1, <1>3, <2>1, Spliced
  <2>3. Len(c) = 1 /\ c[1] = n
    BY <1>3, <2>1, <2>2
  <2> QED
    BY <1>1, <1>4, <2>2, <2>3, Spelled
<1>5. CASE Len(s) = 2
  <2>1. PICK k \in {1, 2} : k = 2 /\ Len(s) = k
    BY <1>5
  <2>2. c \in Seq(S) /\ Len(c) = m + k - 1 /\ (\A j \in 1 .. m : c[j] = is[j]) /\ c[m + 1] = s[2]
    BY <1>1, <1>3, <2>1, Spliced
  <2>3. Len(c) = 2 /\ c[1] = n /\ c[2] = s[2]
    BY <1>3, <2>1, <2>2
  <2> QED
    BY <1>1, <1>5, <2>2, <2>3, Spelled
<1> QED
  BY <1>4, <1>5

LEMMA Joined ==
  ASSUME NEW S, NEW x \in S, NEW y \in S
  PROVE  <<x>> \o <<y>> = <<x, y>> /\ <<x>> \o <<>> = <<x>>
<1>3. /\ <<x>> \in Seq(S) /\ Len(<<x>>) = 1 /\ <<x>>[1] = x
      /\ <<y>> \in Seq(S) /\ Len(<<y>>) = 1 /\ <<y>>[1] = y
  BY Tuples
<1>4. PICK r \in Seq(S), s \in Seq(S) : r = <<x>> /\ Len(r) = 1 /\ r[1] = x /\ s = <<y>> /\ Len(s) = 1 /\ s[1] = y
  BY <1>3
<1>5. PICK c : c = r \o s
  OBVIOUS
<1>6. /\ c \in Seq(S) /\ Len(c) = Len(r) + Len(s)
      /\ \A i \in 1 .. Len(r) + Len(s) : c[i] = IF i <= Len(r) THEN r[i] ELSE s[i - Len(r)]
  BY <1>5, ConcatProperties
<1>7. Len(c) = 2 /\ c[1] = x /\ c[2] = y
  BY <1>4, <1>6
<1>8. c = <<x, y>>
  BY <1>6, <1>7, Spelled
<1>9. r \o <<>> = r
  BY ConcatEmptySeq
<1> QED
  BY <1>4, <1>5, <1>8, <1>9

LEMMA Shorter ==
  ASSUME NEW S, NEW s \in Seq(S), s # <<>>
  PROVE  /\ Head(s) \in S /\ Tail(s) \in Seq(S) /\ (Len(s) # 1 => Tail(s) # <<>>)
         /\ <<>> \in Seq(S)
<1>1. PICK n \in Nat : n = Len(s)
  BY LenProperties
<1>2. n # 0
  BY <1>1, EmptySeq
<1>3. Head(s) \in S /\ Tail(s) \in Seq(S) /\ Len(Tail(s)) = Len(s) - 1
  BY HeadTailProperties
<1>4. PICK r \in Seq(S) : r = Tail(s) /\ Len(r) = n - 1
  BY <1>1, <1>3
<1>5. n # 1 => n - 1 # 0
  BY <1>2
<1>6. r = <<>> => Len(r) = 0
  BY EmptySeq
<1> QED
  BY <1>1, <1>3, <1>4, <1>5, <1>6, EmptySeq

LEMMA WalkAt ==
  ASSUME Inv, NEW t \in Thread, NEW do \in {"walk", "walkparent"}, Locks(t, do)
  PROVE  /\ do \in Locking \ {"created", "victim"}
         /\ call[t] \in Call /\ rest[t] \in Seq(FileName) /\ rest[t] # <<>>
         /\ do = "walk" => call[t].kind \in {"open", "link", "chdir"}
         /\ do = "walkparent" => call[t].kind \in {"creat", "mkdir", "unlink", "link"}
         /\ Len(Instruction(t).refs) = IF do = "walkparent" /\ call[t].kind = "link" THEN 2 ELSE 1
<1> USE DEF Inv
<1>1. do \in Locking \ {"created", "victim"}
  BY DEF Locking
<1>2. Instruction(t).do = do /\ Shaped(t, Instruction(t))
  BY <1>1, AtLock
<1>3. call[t] \in Call /\ rest[t] \in Seq(FileName)
  BY <1>2 DEF Shaped, TypeOK, ThreadInv, Call
<1> QED
  BY <1>1, <1>2, <1>3 DEF Shaped

LEMMA WalkArrives ==
  ASSUME Inv, NEW t \in Thread, Locks(t, "walkparent"), Inside(t), rest' = rest,
         disk[Ref(t, 1)].type = "dir",
         table' = Ilock(Ref(t, 1)), Continue(t, <<I(Arrive(t), Instruction(t).refs)>>)
  PROVE  Inv'
<1> USE DEF Inv
<1>1. "walkparent" \in Locking \ {"created", "victim"} /\ call[t] \in Call
      /\ call[t].kind \in {"creat", "mkdir", "unlink", "link"}
      /\ Len(Instruction(t).refs) = IF call[t].kind = "link" THEN 2 ELSE 1
  BY WalkAt
<1>2. /\ Instruction(t) \in Instr /\ Instruction(t).do = "walkparent" /\ Len(Instruction(t).refs) \in {1, 2}
      /\ Backed(t, Instruction(t)) /\ Shaped(t, Instruction(t)) /\ todo[t] # <<>>
  BY <1>1, AtLock
<1>3. PICK d : d = Arrive(t)
  OBVIOUS
<1>4. d = CASE call[t].kind = "link" -> "linkto" [] call[t].kind = "unlink" -> "unlink" [] OTHER -> "create"
  BY <1>1, <1>2, <1>3 DEF Arrive, At
<1>5. d \in Walks
  BY <1>4 DEF Walks
<1>6. PICK y : y = I(d, Instruction(t).refs)
  OBVIOUS
<1>7. PICK x \in Instr : x = Instruction(t) /\ Len(x.refs) \in {1, 2}
  BY <1>2
<1>8. /\ y \in Instr /\ y.do = d /\ y.refs = x.refs
      /\ \A i : Occurs(y, i) = Occurs(x, i)
      /\ \A i : Needs(y, i) <=> x.refs[1] = i \/ (Len(x.refs) = 2 /\ x.refs[2] = i)
  <2>1. d \in Walks \cup Ends /\ y = I(d, x.refs)
    BY <1>5, <1>6, <1>7
  <2>2. d \notin {"freed", "drop"}
    BY <1>4
  <2>3. y \in Instr /\ y.do = d /\ y.refs = x.refs
    BY <1>7, <2>1 DEF I, Instr
  <2>4. \A i : Occurs(y, i) = Occurs(x, i)
    BY <2>3 DEF Occurs
  <2> QED
    BY <1>7, <2>2, <2>3, <2>4, Refs
<1>9. \A i : Needs(x, i) <=> x.refs[1] = i \/ (Len(x.refs) = 2 /\ x.refs[2] = i)
  BY <1>2, <1>7, Refs
<1>10. call'[t] = call[t] => NewPlain(t, y, None)
  <2>1. SUFFICES ASSUME call'[t] = call[t] PROVE NewPlain(t, y, None)
    OBVIOUS
  <2>2. Shaped(t, y)'
    <3>1. call'[t] \in Call /\ call'[t].kind = call[t].kind
      BY <1>2, <2>1 DEF Shaped
    <3>2. d \in {"linkto", "unlink", "create"} /\ (d = "linkto" <=> call[t].kind = "link")
      BY <1>1, <1>4
    <3>3. Len(y.refs) = IF d = "linkto" THEN 2 ELSE 1
      BY <1>1, <1>7, <1>8, <3>2
    <3> QED
      BY <1>8, <3>1, <3>2, <3>3 DEF Shaped
  <2>3. disk[x.refs[1]].type = "dir"
    BY <1>7 DEF Ref
  <2>4. Len(x.refs) = 2 => disk[x.refs[2]].type = "file"
    BY <1>2, <1>7 DEF Backed
  <2>5. Pledged(y) \in {None, Pledged(x)}
    BY <1>2, <1>4, <1>7, <1>8 DEF Pledged
  <2> QED
    BY <1>4, <1>7, <1>8, <1>9, <2>2, <2>3, <2>4, <2>5 DEF NewPlain
<1>11. table' = Table(Ref(t, 1), None) /\ Continue(t, <<y>>)
  BY <1>3, <1>6 DEF Table
<1> QED
  BY <1>1, <1>7, <1>8, <1>10, <1>11, PlainOne

(* The end of a failed sys_link(), which keeps the inode to be linked.     *)
LEMMA BadLinkLeft ==
  ASSUME Inv, NEW t \in Thread, NEW do \in {"walkparent", "linkto"}, Locks(t, do), Inside(t),
         Len(Instruction(t).refs) = 2,
         table' = Ilock(Ref(t, 1)), Continue(t, <<Put(Ref(t, 1)), I("badlink", <<Ref(t, 2)>>)>>)
  PROVE  Inv'
<1> USE DEF Inv
<1>1. do \in Locking \ {"created", "victim"}
  BY DEF Locking
<1>2. /\ Instruction(t) \in Instr /\ Instruction(t).do = do
      /\ Backed(t, Instruction(t)) /\ Shaped(t, Instruction(t)) /\ todo[t] # <<>> /\ Ref(t, 1) \in Inum
  BY <1>1, AtLock
<1>3. PICK x \in Instr : x = Instruction(t) /\ Len(x.refs) = 2
  BY <1>2
<1>4. PICK ip \in Inum, dp \in Inum : dp = Ref(t, 1) /\ ip = Ref(t, 2) /\ dp = x.refs[1] /\ ip = x.refs[2]
  BY <1>3, Refs DEF Ref
<1>5. PICK y : y = I("badlink", <<ip>>)
  OBVIOUS
<1>6. /\ y \in Instr /\ y.do = "badlink" /\ Len(y.refs) = 1 /\ y.refs[1] = ip
      /\ \A j : Needs(y, j) <=> j = ip
      /\ \A j : Occurs(y, j) = IF j = ip THEN 1 ELSE 0
      /\ Pledged(y) = ip
  <2>1. "badlink" \in Puts \cup Walks \cup Ends
    BY DEF Ends
  <2> QED
    BY <1>5, <2>1, Single
<1>7. \A i : (Needs(x, i) <=> i = dp \/ i = ip)
             /\ Occurs(x, i) = (IF i = dp THEN 1 ELSE 0) + (IF i = ip THEN 1 ELSE 0)
  BY <1>2, <1>3, <1>4, Refs DEF Occurs
<1>8. Pledged(x) = ip
  BY <1>2, <1>3, <1>4 DEF Pledged
<1>9. NewPlain(t, y, None)
  BY <1>3, <1>6, <1>7, <1>8 DEF NewPlain, Shaped
<1>10. table' = Table(Ref(t, 1), None) /\ Continue(t, <<Put(Ref(t, 1)), y>>)
  BY <1>4, <1>5 DEF Table
<1>11. \A i \in Inum : (IF i = Ref(t, 1) THEN 1 ELSE 0) + Occurs(y, i)
                         = Occurs(Instruction(t), i) + (IF i = None THEN 1 ELSE 0)
  <2>1. \A i \in Inum : i # None
    BY Constants
  <2> QED
    BY <1>3, <1>4, <1>6, <1>7, <2>1
<1>12. y.do \in Walks \cup Ends
  BY <1>6 DEF Ends
<1> QED
  BY <1>1, <1>6, <1>9, <1>10, <1>11, <1>12, PlainTwo

LEMMA WalkStops ==
  ASSUME Inv, NEW t \in Thread, NEW do \in {"walk", "walkparent"}, Locks(t, do), Inside(t),
         table' = Ilock(Ref(t, 1)), Continue(t, <<Put(Ref(t, 1))>> \o Undo(t))
  PROVE  Inv'
<1> USE DEF Inv
<1>1. /\ do \in Locking \ {"created", "victim"}
      /\ Len(Instruction(t).refs) = IF do = "walkparent" /\ call[t].kind = "link" THEN 2 ELSE 1
  BY WalkAt
<1>2. Instruction(t) \in Instr /\ Ref(t, 1) \in Inum
  BY <1>1, AtLock
<1>3. CASE Len(Instruction(t).refs) = 2
  <2>1. PICK x : x = Put(Ref(t, 1))
    OBVIOUS
  <2>2. PICK y : y = I("badlink", <<Ref(t, 2)>>)
    OBVIOUS
  <2>3. Ref(t, 2) \in Inum
    BY <1>2, <1>3, Refs DEF Ref
  <2>4. x \in Instr /\ y \in Instr
    BY <1>2, <2>1, <2>2, <2>3, PutIs, Single DEF Ends
  <2>5. Undo(t) = <<y>>
    BY <1>3, <2>2 DEF Undo
  <2>6. Continue(t, <<x, y>>)
    BY <2>1, <2>4, <2>5, Joined
  <2> QED
    BY <1>1, <1>3, <2>1, <2>2, <2>6, BadLinkLeft
<1>4. CASE Len(Instruction(t).refs) = 1
  <2>1. PICK x : x = Put(Ref(t, 1))
    OBVIOUS
  <2>2. x \in Instr
    BY <1>2, <2>1, PutIs
  <2>3. Undo(t) = <<>>
    BY <1>4 DEF Undo
  <2>4. Continue(t, <<x>>)
    BY <2>1, <2>2, <2>3, Joined
  <2> QED
    BY <1>1, <1>4, <2>1, <2>4, GivenUp
<1> QED
  BY <1>1, <1>3, <1>4

LEMMA WalkFollows ==
  ASSUME Inv, NEW t \in Thread, NEW do \in {"walk", "walkparent"}, Locks(t, do),
         disk' = disk, entry' = entry, holder' = holder, cwd' = cwd, ofile' = ofile, calls' = calls,
         rest' = [rest EXCEPT ![t] = Tail(@)],
         NEW next, next = entry[Ref(t, 1)][Head(rest[t])], next # None, disk[Ref(t, 1)].type = "dir",
         NEW last \in BOOLEAN, last = (Len(rest[t]) = 1), ~(do = "walkparent" /\ last),
         table' = Iget(Ilock(Ref(t, 1)), next),
         Continue(t, <<Put(Ref(t, 1)), I(IF last THEN Arrive(t) ELSE do,
                                         <<next>> \o Tail(Instruction(t).refs))>>)
  PROVE  Inv'
<1> USE DEF Inv
<1>1. /\ do \in Locking \ {"created", "victim"}
      /\ call[t] \in Call /\ rest[t] \in Seq(FileName) /\ rest[t] # <<>>
      /\ do = "walk" => call[t].kind \in {"open", "link", "chdir"}
      /\ Len(Instruction(t).refs) = IF do = "walkparent" /\ call[t].kind = "link" THEN 2 ELSE 1
  BY WalkAt
<1>2. /\ Instruction(t) \in Instr /\ Instruction(t).do = do /\ todo[t] # <<>>
      /\ Backed(t, Instruction(t)) /\ Shaped(t, Instruction(t)) /\ Ref(t, 1) \in Inum
  BY <1>1, AtLock
<1>3. Head(rest[t]) \in FileName /\ Tail(rest[t]) \in Seq(FileName) /\ (~last => Tail(rest[t]) # <<>>)
  BY <1>1, Shorter
<1>4. next \in Inum /\ Named(next)
  <2>1. entry[Ref(t, 1)][Head(rest[t])] \in Inum \cup {None}
    BY <1>2, <1>3 DEF TypeOK, FileName
  <2> QED
    BY <1>2, <1>3, <2>1 DEF Named
<1>5. PICK d : d = IF last THEN Arrive(t) ELSE do
  OBVIOUS
<1>6. (last => d = call[t].kind /\ d \in {"open", "link", "chdir"}) /\ (~last => d = do)
  BY <1>1, <1>2, <1>5 DEF Arrive, At
<1>7. PICK x \in Instr : x = Instruction(t) /\ Len(x.refs) \in {1, 2} /\ x.refs \in Seq(Inum)
  BY <1>1, <1>2, Refs
<1>8. PICK y : y = I(d, <<next>> \o Tail(x.refs))
  OBVIOUS
<1>9. /\ y \in Instr /\ y.do = d /\ y.refs[1] = next
      /\ Len(x.refs) = 1 => /\ Len(y.refs) = 1
                            /\ \A i : Occurs(y, i) = IF i = next THEN 1 ELSE 0
                            /\ \A i : Needs(y, i) <=> i = next
                            /\ Pledged(y) = None
      /\ Len(x.refs) = 2 => /\ Len(y.refs) = 2 /\ y.refs[2] = x.refs[2]
                            /\ \A i : Occurs(y, i) = (IF i = next THEN 1 ELSE 0) + (IF i = x.refs[2] THEN 1 ELSE 0)
                            /\ \A i : Needs(y, i) <=> i = next \/ i = x.refs[2]
                            /\ Pledged(y) = x.refs[2]
  <2>1. CASE Len(x.refs) = 1
    <3>1. y = I(d, <<next>>)
      BY <1>4, <1>7, <1>8, <2>1, Appended
    <3>2. d \in Puts \cup Walks \cup Ends /\ d \notin {"badlink", "unlinked", "freed", "drop"}
      BY <1>6 DEF Walks
    <3> QED
      BY <1>4, <2>1, <3>1, <3>2, Single
  <2>2. CASE Len(x.refs) = 2
    <3>1. y = I(d, <<next, x.refs[2]>>)
      BY <1>4, <1>7, <1>8, <2>2, Appended
    <3>2. d = "walkparent"
      <4>1. Len(Instruction(t).refs) # 1
        BY <1>7, <2>2
      <4>2. do = "walkparent"
        BY <1>1, <4>1
      <4> QED
        BY <1>6, <4>2
    <3>3. x.refs[2] \in Inum
      BY <1>7, <2>2, Refs
    <3> QED
      BY <1>4, <2>2, <3>1, <3>2, <3>3, Pair
  <2> QED
    BY <1>7, <2>1, <2>2
<1>10. rest' \in [Thread -> Seq(FileName)] /\ rest'[t] = Tail(rest[t]) /\ \A u \in Thread \ {t} : rest'[u] = rest[u]
  BY <1>3 DEF ThreadInv
<1>11. Inside(t)
  BY <1>10 DEF Inside, RestStep
<1>12. ASSUME call'[t] = call[t] PROVE Shaped(t, y)'
  <2>1. d \in Walks
    BY <1>6 DEF Walks
  <2>2. Len(y.refs) = IF do = "walkparent" /\ call[t].kind = "link" THEN 2 ELSE 1
    BY <1>1, <1>7, <1>9
  <2>3. /\ d \notin {"created", "victim", "linkto", "unlink", "create"}
        /\ (d = "walkparent" <=> do = "walkparent") /\ (d \in {"walk", "walkparent"} => ~last /\ d = do)
    BY <1>6
  <2>4. call'[t] \in Call /\ call'[t].kind = call[t].kind
    BY <1>2, <1>12 DEF Shaped
  <2>5. d \in {"walk", "walkparent"} => rest'[t] # <<>>
    BY <1>3, <1>10, <2>3
  <2>6. /\ d = "walk" => call[t].kind \in {"open", "link", "chdir"}
        /\ d = "walkparent" => call[t].kind \in {"creat", "mkdir", "unlink", "link"}
    BY <1>2, <2>3 DEF Shaped
  <2>7. d = "link" => call[t].kind = "link"
    BY <1>6
  <2> QED
    BY <1>9, <2>2, <2>3, <2>4, <2>5, <2>6, <2>7 DEF Shaped
<1>13. \A i : Needs(x, i) <=> x.refs[1] = i \/ (Len(x.refs) = 2 /\ x.refs[2] = i)
  <2>1. x.do \notin {"freed", "drop"}
    BY <1>2, <1>7
  <2> QED
    BY <1>7, <2>1, Refs
<1>14. Len(x.refs) = 2 => d = "walkparent" /\ do = "walkparent" /\ Pledged(x) = x.refs[2] /\ disk[x.refs[2]].type = "file"
  <2>1. SUFFICES ASSUME Len(x.refs) = 2
                 PROVE  /\ d = "walkparent" /\ do = "walkparent"
                        /\ Pledged(x) = x.refs[2] /\ disk[x.refs[2]].type = "file"
    OBVIOUS
  <2>2. Len(Instruction(t).refs) # 1
    BY <1>7, <2>1
  <2>3. do = "walkparent"
    BY <1>1, <2>2
  <2>4. d = "walkparent"
    BY <1>6, <2>3
  <2>5. x.do = "walkparent" /\ Backed(t, x)
    BY <1>2, <1>7, <2>3
  <2>6. Pledged(x) = x.refs[2] /\ disk[x.refs[2]].type = "file"
    BY <2>1, <2>5 DEF Pledged, Backed
  <2> QED
    BY <2>3, <2>4, <2>6
<1>15. call'[t] = call[t] => NewPlain(t, y, next)
  <2>1. d \in {"walk", "walkparent", "open", "link", "chdir"}
    BY <1>6
  <2> QED
    BY <1>7, <1>9, <1>12, <1>13, <1>14, <2>1 DEF NewPlain
<1>16. \A i \in Inum : (IF i = Ref(t, 1) THEN 1 ELSE 0) + Occurs(y, i)
                         = Occurs(Instruction(t), i) + (IF i = next THEN 1 ELSE 0)
  <2>1. SUFFICES ASSUME NEW i \in Inum
                 PROVE  (IF i = Ref(t, 1) THEN 1 ELSE 0) + Occurs(y, i)
                          = Occurs(x, i) + (IF i = next THEN 1 ELSE 0)
    BY <1>7
  <2>2. PICK a \in Nat, e \in Nat : a = (IF i = x.refs[1] THEN 1 ELSE 0) /\ e = IF i = next THEN 1 ELSE 0
    OBVIOUS
  <2>3. a = IF i = Ref(t, 1) THEN 1 ELSE 0
    BY <1>7, <2>2 DEF Ref
  <2>4. CASE Len(x.refs) = 1
    <3>1. Occurs(y, i) = e /\ Occurs(x, i) = a
      BY <1>9, <2>2, <2>4 DEF Occurs
    <3> QED
      BY <2>2, <2>3, <3>1
  <2>5. CASE Len(x.refs) = 2
    <3>1. PICK b \in Nat : b = IF i = x.refs[2] THEN 1 ELSE 0
      OBVIOUS
    <3>2. Occurs(y, i) = e + b
      BY <1>9, <2>2, <2>5, <3>1
    <3>3. Occurs(x, i) = a + b
      BY <2>2, <2>5, <3>1 DEF Occurs
    <3>4. a + (e + b) = (a + b) + e
      BY <2>2, <3>1
    <3> QED
      BY <2>2, <2>3, <3>2, <3>3, <3>4
  <2> QED
    BY <1>7, <2>4, <2>5
<1>17. table' = Table(Ref(t, 1), next) /\ Continue(t, <<Put(Ref(t, 1)), y>>)
  BY <1>4, <1>5, <1>7, <1>8, Constants DEF Table
<1>18. y.do \in Walks \cup Ends
  BY <1>6, <1>9 DEF Walks
<1> QED
  BY <1>1, <1>4, <1>9, <1>11, <1>15, <1>16, <1>17, <1>18, PlainTwo

LEMMA WalkInv ==
  ASSUME Inv, NEW t \in Thread, NEW do \in {"walk", "walkparent"}, Walk(t, do)
  PROVE  Inv'
<1> USE DEF Inv
<1>1. /\ Locks(t, do) /\ disk' = disk /\ entry' = entry /\ holder' = holder
      /\ cwd' = cwd /\ ofile' = ofile /\ calls' = calls
  BY DEF Walk, onDisk, files
<1>2. PICK last \in BOOLEAN : last = (Len(rest[t]) = 1)
  OBVIOUS
<1>3. PICK next : next = entry[Ref(t, 1)][Head(rest[t])]
  OBVIOUS
<1>4. do \in Locking
  BY DEF Locking
<1>5. Loaded(Ref(t, 1)) = disk[Ref(t, 1)] /\ Ref(t, 1) \in Inum /\ todo[t] # <<>> /\ Instruction(t).do = do
  BY <1>1, <1>4, AtLock
<1>6. rest \in [Thread -> Seq(FileName)] /\ <<>> \in Seq(FileName)
  BY EmptySeq DEF ThreadInv
<1>7. CASE /\ disk[Ref(t, 1)].type = "dir" /\ do = "walkparent" /\ last
           /\ table' = Ilock(Ref(t, 1))
           /\ Continue(t, <<I(Arrive(t), Instruction(t).refs)>>) /\ rest' = rest
  <2>1. Inside(t)
    BY <1>1, <1>6, <1>7 DEF Inside, RestStep
  <2> QED
    BY <1>1, <1>7, <2>1, WalkArrives
<1>8. CASE /\ table' = Ilock(Ref(t, 1))
           /\ Continue(t, <<Put(Ref(t, 1))>> \o Undo(t))
           /\ rest' = [rest EXCEPT ![t] = <<>>]
  <2>1. Inside(t)
    BY <1>1, <1>6, <1>8 DEF Inside, RestStep
  <2> QED
    BY <1>1, <1>8, <2>1, WalkStops
<1>9. CASE /\ disk[Ref(t, 1)].type = "dir" /\ ~(do = "walkparent" /\ last) /\ next # None
           /\ table' = Iget(Ilock(Ref(t, 1)), next)
           /\ Continue(t, <<Put(Ref(t, 1)), I(IF last THEN Arrive(t) ELSE do,
                                              <<next>> \o Tail(Instruction(t).refs))>>)
           /\ rest' = [rest EXCEPT ![t] = Tail(@)]
  BY <1>1, <1>2, <1>3, <1>9, WalkFollows
<1>10. \/ /\ disk[Ref(t, 1)].type = "dir" /\ do = "walkparent" /\ last
          /\ table' = Ilock(Ref(t, 1))
          /\ Continue(t, <<I(Arrive(t), Instruction(t).refs)>>) /\ rest' = rest
       \/ /\ table' = Ilock(Ref(t, 1))
          /\ Continue(t, <<Put(Ref(t, 1))>> \o Undo(t))
          /\ rest' = [rest EXCEPT ![t] = <<>>]
       \/ /\ disk[Ref(t, 1)].type = "dir" /\ ~(do = "walkparent" /\ last) /\ next # None
          /\ table' = Iget(Ilock(Ref(t, 1)), next)
          /\ Continue(t, <<Put(Ref(t, 1)), I(IF last THEN Arrive(t) ELSE do,
                                             <<next>> \o Tail(Instruction(t).refs))>>)
          /\ rest' = [rest EXCEPT ![t] = Tail(@)]
  BY <1>2, <1>3, <1>5 DEF Walk
<1> QED
  BY <1>7, <1>8, <1>9, <1>10

(* Open files and working directories.                                     *)
LEMMA TotalType ==
  ASSUME NEW s, NEW i PROVE Total(s, i) \in Nat
BY OccursType DEF Total

LEMMA NoneLocked ==
  ASSUME TypeOK, ThreadInv, LockInv, NEW t \in Thread, NEW do \in Locking \ {"created", "victim"}, Locks(t, do)
  PROVE  (\A i \in Inum : holder[i] # t) /\ ~Leaving(t)
<1>1. Left(t) = {Instruction(t)} /\ Instruction(t).do = do /\ do \in Locking
  BY AtLock
<1>2. Owned(Instruction(t)) = None
  BY <1>1 DEF Owned, Locking
<1>3. ~Leaving(t)
  BY <1>1 DEF Leaving, Locking
<1> QED
  BY <1>1, <1>2, <1>3, Constants DEF LockInv

LEMMA Opened ==
  ASSUME Inv, NEW t \in Thread, NEW do \in {"open", "existing"}, Locks(t, do),
         disk' = disk, entry' = entry, holder' = holder, cwd' = cwd, rest' = rest, calls' = calls,
         ofile[t] = None, ofile' = [ofile EXCEPT ![t] = Ref(t, 1)],
         table' = Ilock(Ref(t, 1)), Continue(t, <<>>)
  PROVE  Inv'
<1> USE DEF Inv
<1>1. do \in Locking \ {"created", "victim"}
  BY DEF Locking
<1>2. /\ Instruction(t) \in Instr /\ Instruction(t).do = do /\ Later(t) = {} /\ Left(t) = {Instruction(t)}
      /\ Shaped(t, Instruction(t)) /\ todo[t] # <<>> /\ Ref(t, 1) \in Inum /\ Uses(t, Ref(t, 1))
  BY <1>1, AtLock
<1>3. PICK ip \in Inum : ip = Ref(t, 1)
  BY <1>2
<1>4. /\ todo' \in [Thread -> Seq(Instr)] /\ \A u \in Thread \ {t} : todo'[u] = todo[u]
      /\ call' \in [Thread -> Call \cup {None}] /\ \A u \in Thread \ {t} : call'[u] = call[u]
      /\ Len(todo'[t]) \in {0, 1, 2} /\ Left(t)' = {} /\ Later(t)' = {} /\ todo'[t] = <<>>
      /\ \A i : Held(t, i)' = Held(t, i) - Occurs(Instruction(t), i)
  BY <1>2, Continued0
<1>5. ofile \in [Thread -> Inum \cup {None}]
  BY DEF TypeOK
<1>6. /\ ofile' \in [Thread -> Inum \cup {None}] /\ ofile'[t] = ip
      /\ \A u \in Thread \ {t} : ofile'[u] = ofile[u]
  BY <1>3, <1>5
<1>7. ThreadTypes' /\ Only(t)
  <2>1. Types
    BY TypesHold
  <2> QED
    BY <1>4, <1>6, <2>1 DEF Types, ThreadTypes, Only
<1>8. ~Leaving(t) /\ ~Leaving(t)' /\ \A i \in Inum : holder[i] # t
  BY <1>1, <1>4, NoneLocked DEF Leaving
<1>9. TodoStep(t)
  BY <1>4, <1>8 DEF TodoStep, Chained, Secret, At
<1>10. Reaches(t, None)
  <2>1. \A i \in Inum : Works(t, i)' => Uses(t, i)
    BY <1>2, <1>3, <1>6, <1>8 DEF Works, Uses
  <2> QED
    BY <1>4, <2>1 DEF Reaches, Pledges
<1>11. Gains(t, None)
  <2>1. SUFFICES ASSUME NEW i \in Inum
                 PROVE  \E a \in Nat, b \in Nat, c \in Nat, d \in Nat :
                          /\ a = Own(t, i) /\ b = Held(t, i) /\ c = Own(t, i)' /\ d = Held(t, i)'
                          /\ c + d = a + b + (IF i = None THEN 1 ELSE 0)
    BY DEF Gains
  <2>2. PICK a \in Nat, b \in Nat, w \in Nat :
          a = Own(t, i) /\ b = Held(t, i) /\ w = IF cwd[t] = i THEN 1 ELSE 0
    BY Numbers
  <2>3. PICK o \in Nat : o = IF i = ip THEN 1 ELSE 0
    OBVIOUS
  <2>4. Occurs(Instruction(t), i) = o
    <3>1. Len(Instruction(t).refs) = 1 /\ Instruction(t).refs[1] = ip
      BY <1>2, <1>3 DEF Shaped, Ref
    <3> QED
      BY <2>3, <3>1 DEF Occurs
  <2>5. Own(t, i)' = o + w
    BY <1>6, <1>8, <2>2, <2>3 DEF Own
  <2>6. a = w
    BY <1>8, <2>2, Constants DEF Own
  <2>7. PICK d \in Nat : d = Held(t, i)'
    BY TotalType DEF Held
  <2>8. d = b - o
    BY <1>4, <2>2, <2>4, <2>7
  <2>9. PICK c \in Nat : c = o + w
    OBVIOUS
  <2>10. PICK e \in Nat : e = IF i = None THEN 1 ELSE 0
    OBVIOUS
  <2>11. e = 0
    BY <2>10, Constants
  <2>12. c + d = a + b + e
    BY <2>6, <2>8, <2>9, <2>11
  <2>13. a = Own(t, i) /\ b = Held(t, i) /\ c = Own(t, i)' /\ d = Held(t, i)'
    BY <2>2, <2>5, <2>7, <2>9
  <2> QED
    BY <2>10, <2>12, <2>13
<1>12. table' = Table(Ref(t, 1), None)
  BY DEF Table
<1>13. LocksStep(t)
  BY DEF LocksStep
<1> QED
  BY <1>1, <1>7, <1>9, <1>10, <1>11, <1>12, <1>13, LockingStep

LEMMA OpenInv ==
  ASSUME Inv, NEW t \in Thread, Open(t)
  PROVE  Inv'
<1> USE DEF Inv
<1>1. /\ Locks(t, "open") /\ disk' = disk /\ entry' = entry /\ holder' = holder
      /\ cwd' = cwd /\ rest' = rest /\ calls' = calls /\ table' = Ilock(Ref(t, 1))
      /\ \/ ofile[t] = None /\ ofile' = [ofile EXCEPT ![t] = Ref(t, 1)] /\ Continue(t, <<>>)
         \/ ofile' = ofile /\ Continue(t, <<Put(Ref(t, 1))>>)
  BY DEF Open, Opens, onDisk
<1>2. "open" \in Locking \ {"created", "victim"}
  BY DEF Locking
<1>3. Len(Instruction(t).refs) = 1
  <2>1. Shaped(t, Instruction(t)) /\ Instruction(t).do = "open"
    BY <1>1, <1>2, AtLock
  <2> QED
    BY <2>1 DEF Shaped
<1>4. rest \in [Thread -> Seq(FileName)]
  BY DEF ThreadInv
<1>5. CASE ofile' = ofile /\ Continue(t, <<Put(Ref(t, 1))>>)
  <2>1. Inside(t)
    BY <1>1, <1>4, <1>5 DEF Inside, RestStep
  <2> QED
    BY <1>1, <1>2, <1>3, <1>5, <2>1, GivenUp
<1>6. CASE ofile[t] = None /\ ofile' = [ofile EXCEPT ![t] = Ref(t, 1)] /\ Continue(t, <<>>)
  BY <1>1, <1>6, Opened
<1> QED
  BY <1>1, <1>5, <1>6

LEMMA ExistingInv ==
  ASSUME Inv, NEW t \in Thread, Existing(t)
  PROVE  Inv'
<1> USE DEF Inv
<1>1. /\ Locks(t, "existing") /\ disk' = disk /\ entry' = entry /\ holder' = holder
      /\ cwd' = cwd /\ rest' = rest /\ calls' = calls /\ table' = Ilock(Ref(t, 1))
      /\ \/ ofile[t] = None /\ ofile' = [ofile EXCEPT ![t] = Ref(t, 1)] /\ Continue(t, <<>>)
         \/ ofile' = ofile /\ Continue(t, <<Put(Ref(t, 1))>>)
  BY DEF Existing, Opens, onDisk
<1>2. "existing" \in Locking \ {"created", "victim"}
  BY DEF Locking
<1>3. Len(Instruction(t).refs) = 1
  <2>1. Shaped(t, Instruction(t)) /\ Instruction(t).do = "existing"
    BY <1>1, <1>2, AtLock
  <2> QED
    BY <2>1 DEF Shaped
<1>4. rest \in [Thread -> Seq(FileName)]
  BY DEF ThreadInv
<1>5. CASE ofile' = ofile /\ Continue(t, <<Put(Ref(t, 1))>>)
  <2>1. Inside(t)
    BY <1>1, <1>4, <1>5 DEF Inside, RestStep
  <2> QED
    BY <1>1, <1>2, <1>3, <1>5, <2>1, GivenUp
<1>6. CASE ofile[t] = None /\ ofile' = [ofile EXCEPT ![t] = Ref(t, 1)] /\ Continue(t, <<>>)
  BY <1>1, <1>6, Opened
<1> QED
  BY <1>1, <1>5, <1>6

(***************************************************************************)
(* create(), sys_unlink(): the parent is searched.                         *)
(***************************************************************************)
LEMMA ParentAt ==
  ASSUME NoDots, Inv, NEW t \in Thread, NEW do \in {"create", "unlink"}, Locks(t, do)
  PROVE  /\ do \in Locking \ {"created", "victim"}
         /\ call[t] \in Call /\ LastName(call[t].path) \in FileName
         /\ Len(Instruction(t).refs) = 1 /\ disk[Ref(t, 1)].type = "dir"
         /\ \A i : Occurs(Instruction(t), i) = IF i = Ref(t, 1) THEN 1 ELSE 0
         /\ entry[Ref(t, 1)][LastName(call[t].path)] # None =>
              /\ entry[Ref(t, 1)][LastName(call[t].path)] \in Inum
              /\ Named(entry[Ref(t, 1)][LastName(call[t].path)])
<1> USE DEF Inv
<1>1. do \in Locking \ {"created", "victim"}
  BY DEF Locking
<1>2. /\ Instruction(t).do = do /\ Shaped(t, Instruction(t)) /\ Backed(t, Instruction(t)) /\ Ref(t, 1) \in Inum
  BY <1>1, AtLock
<1>3. Len(Instruction(t).refs) = 1 /\ disk[Ref(t, 1)].type = "dir"
  BY <1>2 DEF Shaped, Backed, Ref
<1>4. call[t] \in Call
  BY <1>2 DEF Shaped
<1>5. LastName(call[t].path) \in FileName
  <2>1. call[t].path \in Path
    BY <1>4 DEF Call
  <2> QED
    BY <2>1, PathElems
<1>6. entry[Ref(t, 1)][LastName(call[t].path)] \in Inum \cup {None}
  BY <1>2, <1>5 DEF TypeOK, FileName
<1>7. \A i : Occurs(Instruction(t), i) = IF i = Ref(t, 1) THEN 1 ELSE 0
  BY <1>3 DEF Occurs, Ref
<1> QED
  BY <1>1, <1>2, <1>3, <1>4, <1>5, <1>6, <1>7 DEF Named

LEMMA CreateFinds ==
  ASSUME NoDots, Inv, NEW t \in Thread, Locks(t, "create"), Inside(t),
         NEW ip, ip = entry[Ref(t, 1)][LastName(call[t].path)], ip # None,
         table' = Iget(Ilock(Ref(t, 1)), ip), Continue(t, <<Put(Ref(t, 1)), I("existing", <<ip>>)>>)
  PROVE  Inv'
<1> USE DEF Inv
<1>1. /\ "create" \in Locking \ {"created", "victim"} /\ ip \in Inum /\ Named(ip)
      /\ \A i : Occurs(Instruction(t), i) = IF i = Ref(t, 1) THEN 1 ELSE 0
  BY ParentAt
<1>2. PICK y : y = I("existing", <<ip>>)
  OBVIOUS
<1>3. /\ y \in Instr /\ y.do = "existing" /\ Len(y.refs) = 1 /\ y.refs[1] = ip
      /\ \A j : Needs(y, j) <=> j = ip
      /\ \A j : Occurs(y, j) = IF j = ip THEN 1 ELSE 0
      /\ Pledged(y) = None /\ y.do \in Walks \cup Ends
  <2>1. "existing" \in Ends
    BY DEF Ends
  <2> QED
    BY <1>1, <1>2, <2>1, Single
<1>4. NewPlain(t, y, ip)
  BY <1>3 DEF NewPlain, Shaped
<1>5. table' = Table(Ref(t, 1), ip) /\ Continue(t, <<Put(Ref(t, 1)), y>>)
  BY <1>2 DEF Table
<1>6. \A i \in Inum : (IF i = Ref(t, 1) THEN 1 ELSE 0) + Occurs(y, i)
                        = Occurs(Instruction(t), i) + (IF i = ip THEN 1 ELSE 0)
  BY <1>1, <1>3
<1> QED
  BY <1>1, <1>3, <1>4, <1>5, <1>6, PlainTwo

LEMMA UnlinkFinds ==
  ASSUME NoDots, Inv, NEW t \in Thread, Locks(t, "unlink"),
         disk' = disk, entry' = entry, cwd' = cwd, ofile' = ofile, rest' = rest, calls' = calls,
         NEW ip, ip = entry[Ref(t, 1)][LastName(call[t].path)], ip # None,
         table' = Iget(Ilock(Ref(t, 1)), ip), Continue(t, <<I("victim", <<ip, Ref(t, 1)>>)>>),
         holder' = [holder EXCEPT ![Ref(t, 1)] = t]
  PROVE  Inv'
<1> USE DEF Inv
<1>1. /\ "unlink" \in Locking \ {"created", "victim"} /\ ip \in Inum /\ Named(ip)
      /\ LastName(call[t].path) \in FileName /\ call[t] \in Call /\ disk[Ref(t, 1)].type = "dir"
      /\ \A i : Occurs(Instruction(t), i) = IF i = Ref(t, 1) THEN 1 ELSE 0
  BY ParentAt
<1>2. /\ Instruction(t) \in Instr /\ Instruction(t).do = "unlink" /\ Later(t) = {} /\ Left(t) = {Instruction(t)}
      /\ todo[t] # <<>> /\ Ref(t, 1) \in Inum /\ Uses(t, Ref(t, 1)) /\ holder[Ref(t, 1)] = None
  BY <1>1, AtLock
<1>3. PICK dp \in Inum : dp = Ref(t, 1)
  BY <1>2
<1>4. PICK x : x = I("victim", <<ip, dp>>)
  OBVIOUS
<1>5. /\ x \in Instr /\ x.do = "victim" /\ Len(x.refs) = 2 /\ x.refs[1] = ip /\ x.refs[2] = dp
      /\ \A k : Needs(x, k) <=> k = ip \/ k = dp
      /\ \A k : Occurs(x, k) = (IF k = ip THEN 1 ELSE 0) + (IF k = dp THEN 1 ELSE 0)
      /\ Owned(x) = dp /\ Pledged(x) = None
  BY <1>1, <1>4, Pair
<1>6. Continue(t, <<x>>)
  BY <1>3, <1>4
<1>7. /\ todo' \in [Thread -> Seq(Instr)] /\ \A u \in Thread \ {t} : todo'[u] = todo[u]
      /\ call' \in [Thread -> Call \cup {None}] /\ \A u \in Thread \ {t} : call'[u] = call[u]
      /\ Len(todo'[t]) \in {0, 1, 2} /\ Left(t)' = {x} /\ Later(t)' = {}
      /\ call'[t] = call[t] /\ Instruction(t)' = x
      /\ \A i : Held(t, i)' = Held(t, i) - Occurs(Instruction(t), i) + Occurs(x, i)
  BY <1>2, <1>5, <1>6, Continued1
<1>8. holder' \in [Inum -> Thread \cup {None}] /\ holder'[dp] = t /\ \A i \in Inum \ {dp} : holder'[i] = holder[i]
  BY <1>3 DEF TypeOK
<1>9. ThreadTypes' /\ Only(t)
  <2>1. Types
    BY TypesHold
  <2> QED
    BY <1>7, <1>8, <2>1 DEF Types, ThreadTypes, Only
<1>10. ~Leaving(t) /\ ~Leaving(t)' /\ \A i \in Inum : holder[i] # t
  BY <1>1, <1>5, <1>7, NoneLocked DEF Leaving
<1>11. LocksStep(t)
  BY <1>2, <1>3, <1>8 DEF LocksStep
<1>12. table' = Table(dp, ip)
  BY <1>1, <1>3, Constants DEF Table
<1>13. table'[dp].valid
  <2>1. PICK tb : tb = Table(dp, ip)
    OBVIOUS
  <2>2. tb[dp].valid
    BY <1>1, <1>2, <1>3, <2>1, TableIs
  <2> QED
    BY <1>12, <2>1, <2>2
<1>14. Shaped(t, x)'
  BY <1>1, <1>5, <1>7 DEF Shaped
<1>15. disk[ip].type # "free"
  BY <1>1, Allocated DEF Named
<1>16. Backed(t, x)'
  <2>1. \A i \in Inum : Needs(x, i) => disk'[i].type # "free"
    BY <1>1, <1>3, <1>5, <1>15
  <2>2. Owned(x) # None => holder'[Owned(x)] = t
    BY <1>5, <1>8
  <2>3. disk'[dp].type = "dir" /\ LastName(call'[t].path) # DotDot /\ entry'[dp][LastName(call'[t].path)] = ip
    BY <1>1, <1>3, <1>7 DEF FileName
  <2> QED
    BY <1>5, <1>13, <2>1, <2>2, <2>3 DEF Backed
<1>17. TodoStep(t)
  <2>1. Chained(t)' /\ ~Secret(t)'
    BY <1>5, <1>7 DEF Chained, Secret, At
  <2>2. \A i \in Inum : holder'[i] = t => \E z \in Left(t)' : Owned(z) = i
    BY <1>5, <1>7, <1>8, <1>10
  <2> QED
    BY <1>7, <1>14, <1>16, <2>1, <2>2 DEF TodoStep
<1>18. Reaches(t, ip)
  <2>1. \A i \in Inum : Works(t, i)' => Uses(t, i)
    BY <1>10 DEF Works, Uses
  <2>2. \A i \in Inum : ~Pledges(t, i)'
    BY <1>5, <1>7, Constants DEF Pledges
  <2>3. \A i \in Inum, z \in Left(t)' : Needs(z, i) => Uses(t, i) \/ i = ip
    BY <1>2, <1>3, <1>5, <1>7
  <2> QED
    BY <2>1, <2>2, <2>3 DEF Reaches
<1>19. Gains(t, ip)
  <2>1. \A i \in Inum : Own(t, i)' = Own(t, i)
    BY <1>10 DEF Own
  <2>2. ASSUME NEW i \in Inum
        PROVE  \E o \in Nat, n \in Nat :
                  /\ o = Occurs(Instruction(t), i) /\ Held(t, i)' = Held(t, i) - o + n
                  /\ n = o + (IF i = ip THEN 1 ELSE 0)
    <3>1. PICK o \in Nat, e \in Nat, n \in Nat :
            o = (IF i = dp THEN 1 ELSE 0) /\ e = (IF i = ip THEN 1 ELSE 0) /\ n = o + e
      OBVIOUS
    <3>2. o = Occurs(Instruction(t), i)
      BY <1>1, <1>3, <3>1
    <3>3. n = Occurs(x, i)
      BY <1>5, <3>1
    <3> QED
      BY <1>7, <3>1, <3>2, <3>3
  <2> QED
    BY <2>1, <2>2, Gained DEF HeldGain
<1> QED
  BY <1>1, <1>3, <1>9, <1>11, <1>12, <1>17, <1>18, <1>19, LockingStep

LEMMA UnlinkInv ==
  ASSUME NoDots, Inv, NEW t \in Thread, Unlink(t)
  PROVE  Inv'
<1> USE DEF Inv
<1>1. PICK ip : ip = entry[Ref(t, 1)][LastName(call[t].path)]
  OBVIOUS
<1>2. /\ Locks(t, "unlink") /\ disk' = disk /\ entry' = entry /\ cwd' = cwd /\ ofile' = ofile
      /\ rest' = rest /\ calls' = calls
      /\ \/ table' = Ilock(Ref(t, 1)) /\ Continue(t, <<Put(Ref(t, 1))>>) /\ holder' = holder
         \/ /\ ip # None
            /\ table' = Iget(Ilock(Ref(t, 1)), ip) /\ Continue(t, <<I("victim", <<ip, Ref(t, 1)>>)>>)
            /\ holder' = [holder EXCEPT ![Ref(t, 1)] = t]
  BY <1>1 DEF Unlink, onDisk, files
<1>3. CASE table' = Ilock(Ref(t, 1)) /\ Continue(t, <<Put(Ref(t, 1))>>) /\ holder' = holder
  <2>1. Inside(t)
    BY <1>2, <1>3 DEF Inside, RestStep, ThreadInv
  <2> QED
    BY <1>2, <1>3, <2>1, ParentAt, GivenUp
<1>4. CASE /\ ip # None
           /\ table' = Iget(Ilock(Ref(t, 1)), ip) /\ Continue(t, <<I("victim", <<ip, Ref(t, 1)>>)>>)
           /\ holder' = [holder EXCEPT ![Ref(t, 1)] = t]
  BY <1>1, <1>2, <1>4, UnlinkFinds
<1> QED
  BY <1>2, <1>3, <1>4

LEMMA ChdirMoves ==
  ASSUME Inv, NEW t \in Thread, Locks(t, "chdir"),
         disk' = disk, entry' = entry, holder' = holder, cwd' = cwd, ofile' = ofile, rest' = rest, calls' = calls,
         table' = Ilock(Ref(t, 1)), Continue(t, <<Put(cwd[t]), I("setcwd", <<Ref(t, 1)>>)>>)
  PROVE  Inv'
<1> USE DEF Inv
<1>1. "chdir" \in Locking \ {"created", "victim"}
  BY DEF Locking
<1>2. /\ Instruction(t) \in Instr /\ Instruction(t).do = "chdir" /\ Later(t) = {} /\ Left(t) = {Instruction(t)}
      /\ Shaped(t, Instruction(t)) /\ todo[t] # <<>> /\ Ref(t, 1) \in Inum /\ Uses(t, Ref(t, 1))
      /\ Len(todo[t]) = 1 /\ disk[Ref(t, 1)].type # "free"
  BY <1>1, AtLock
<1>3. PICK ip \in Inum, dp \in Inum : ip = Ref(t, 1) /\ dp = cwd[t]
  BY <1>2 DEF TypeOK
<1>4. PICK x : x = Put(dp)
  OBVIOUS
<1>5. /\ x \in Instr /\ x.do = "put" /\ Len(x.refs) = 1 /\ x.refs[1] = dp
      /\ \A j : Needs(x, j) <=> j = dp
      /\ \A j : Occurs(x, j) = IF j = dp THEN 1 ELSE 0
      /\ Pledged(x) = None /\ Owned(x) = None
  BY <1>4, PutIs
<1>6. PICK y : y = I("setcwd", <<ip>>)
  OBVIOUS
<1>7. /\ y \in Instr /\ y.do = "setcwd" /\ Len(y.refs) = 1 /\ y.refs[1] = ip
      /\ \A j : Needs(y, j) <=> j = ip
      /\ \A j : Occurs(y, j) = IF j = ip THEN 1 ELSE 0
      /\ Pledged(y) = None /\ Owned(y) = None
  <2>1. "setcwd" \in Ends
    BY DEF Ends
  <2> QED
    BY <1>6, <2>1, Single
<1>8. Continue(t, <<x, y>>)
  BY <1>3, <1>4, <1>6
<1>9. /\ todo' \in [Thread -> Seq(Instr)] /\ \A u \in Thread \ {t} : todo'[u] = todo[u]
      /\ call' \in [Thread -> Call \cup {None}] /\ \A u \in Thread \ {t} : call'[u] = call[u]
      /\ Len(todo'[t]) \in {0, 1, 2} /\ Left(t)' = {x, y} /\ Later(t)' = {y} /\ todo'[t] # <<>>
      /\ call'[t] = call[t] /\ Instruction(t)' = x
      /\ \A i : Held(t, i)' = Held(t, i) - Occurs(Instruction(t), i) + Occurs(x, i) + Occurs(y, i)
  BY <1>2, <1>5, <1>7, <1>8, Continued2
<1>10. ThreadTypes' /\ Only(t)
  <2>1. rest \in [Thread -> Seq(FileName)]
    BY DEF ThreadInv
  <2> QED
    BY <1>9, <2>1, ThreadOnly
<1>11. ~Leaving(t) /\ Leaving(t)' /\ \A i \in Inum : holder[i] # t
  BY <1>1, <1>7, <1>9, NoneLocked DEF Leaving
<1>12. disk[dp].type # "free" /\ Uses(t, dp)
  BY <1>3, <1>11 DEF ThreadInv, Works, Uses
<1>13. \A z \in Left(t)' : Shaped(t, z)' /\ Backed(t, z)'
  BY <1>2, <1>3, <1>5, <1>7, <1>9, <1>12 DEF Shaped, Backed
<1>14. TodoStep(t)
  <2>1. Chained(t)' /\ ~Secret(t)'
    BY <1>5, <1>7, <1>9 DEF Chained, Secret, At, Puts, Ends
  <2> QED
    BY <1>11, <1>13, <2>1 DEF TodoStep
<1>15. Reaches(t, None)
  <2>1. \A i \in Inum : Works(t, i)' => Uses(t, i)
    BY <1>11 DEF Works, Uses
  <2>2. \A i \in Inum : ~Pledges(t, i)'
    BY <1>5, <1>7, <1>9, Constants DEF Pledges
  <2>3. \A i \in Inum, z \in Left(t)' : Needs(z, i) => Uses(t, i)
    BY <1>2, <1>3, <1>5, <1>7, <1>9, <1>12
  <2> QED
    BY <2>1, <2>2, <2>3 DEF Reaches
<1>16. Gains(t, None)
  <2>1. SUFFICES ASSUME NEW i \in Inum
                 PROVE  \E a \in Nat, b \in Nat, c \in Nat, d \in Nat :
                          /\ a = Own(t, i) /\ b = Held(t, i) /\ c = Own(t, i)' /\ d = Held(t, i)'
                          /\ c + d = a + b + (IF i = None THEN 1 ELSE 0)
    BY DEF Gains
  <2>2. PICK a \in Nat, b \in Nat, c \in Nat, w \in Nat :
          /\ a = Own(t, i) /\ b = Held(t, i)
          /\ c = (IF ofile[t] = i THEN 1 ELSE 0) /\ w = IF dp = i THEN 1 ELSE 0
    BY Numbers
  <2>3. PICK o \in Nat : o = IF i = ip THEN 1 ELSE 0
    OBVIOUS
  <2>4. Occurs(Instruction(t), i) = o
    <3>1. Len(Instruction(t).refs) = 1 /\ Instruction(t).refs[1] = ip
      BY <1>2, <1>3 DEF Shaped, Ref
    <3> QED
      BY <2>3, <3>1 DEF Occurs
  <2>5. Own(t, i)' = c
    BY <1>11, <2>2 DEF Own
  <2>6. a = c + w
    BY <1>3, <1>11, <2>2 DEF Own
  <2>7. Occurs(x, i) = w /\ Occurs(y, i) = o
    BY <1>5, <1>7, <2>2, <2>3
  <2>8. Held(t, i)' = b - o + w + o
    BY <1>9, <2>2, <2>4, <2>7
  <2>9. PICK d \in Nat : d = b + w
    OBVIOUS
  <2>10. d = b - o + w + o
    BY <2>9
  <2>11. PICK e \in Nat : e = IF i = None THEN 1 ELSE 0
    OBVIOUS
  <2>12. e = 0
    BY <2>11, Constants
  <2>13. c + d = a + b + e
    BY <2>6, <2>9, <2>12
  <2>14. a = Own(t, i) /\ b = Held(t, i) /\ c = Own(t, i)' /\ d = Held(t, i)'
    BY <2>2, <2>5, <2>8, <2>10
  <2> QED
    BY <2>11, <2>13, <2>14
<1>17. table' = Table(Ref(t, 1), None)
  BY DEF Table
<1>18. LocksStep(t)
  BY DEF LocksStep
<1> QED
  BY <1>1, <1>10, <1>14, <1>15, <1>16, <1>17, <1>18, LockingStep

LEMMA ChdirInv ==
  ASSUME Inv, NEW t \in Thread, Chdir(t)
  PROVE  Inv'
<1> USE DEF Inv
<1>1. /\ Locks(t, "chdir") /\ disk' = disk /\ entry' = entry /\ holder' = holder
      /\ cwd' = cwd /\ ofile' = ofile /\ rest' = rest /\ calls' = calls /\ table' = Ilock(Ref(t, 1))
      /\ \/ Continue(t, <<Put(cwd[t]), I("setcwd", <<Ref(t, 1)>>)>>)
         \/ Continue(t, <<Put(Ref(t, 1))>>)
  BY DEF Chdir, onDisk, files
<1>2. "chdir" \in Locking \ {"created", "victim"}
  BY DEF Locking
<1>3. Len(Instruction(t).refs) = 1
  <2>1. Shaped(t, Instruction(t)) /\ Instruction(t).do = "chdir"
    BY <1>1, <1>2, AtLock
  <2> QED
    BY <2>1 DEF Shaped
<1>4. Inside(t)
  BY <1>1 DEF Inside, RestStep, ThreadInv
<1> QED
  BY <1>1, <1>2, <1>3, <1>4, ChdirMoves, GivenUp

(* Steps that lock nothing.                                                *)
LEMMA SameCache ==
  ASSUME NEW t, table' = table, disk' = disk, ~At(t, "freed")
  PROVE  CacheStep(t)
BY DEF CacheStep

LEMMA SetCwdInv ==
  ASSUME Inv, NEW t \in Thread, SetCwd(t)
  PROVE  Inv'
<1> USE DEF Inv
<1>1. /\ At(t, "setcwd") /\ cwd' = [cwd EXCEPT ![t] = Ref(t, 1)] /\ Continue(t, <<>>)
      /\ disk' = disk /\ entry' = entry /\ table' = table /\ holder' = holder
      /\ ofile' = ofile /\ rest' = rest /\ calls' = calls
  BY DEF SetCwd, onDisk
<1>2. todo[t] # <<>> /\ Instruction(t).do = "setcwd"
  BY <1>1 DEF At
<1>3. /\ Instruction(t) \in Instr /\ Left(t) = {Instruction(t)} \cup Later(t)
      /\ Shaped(t, Instruction(t)) /\ Len(todo[t]) \in {1, 2}
  BY <1>2, First
<1>4. Later(t) = {}
  BY <1>2 DEF ThreadInv, Chained, Puts
<1>5. /\ Len(Instruction(t).refs) = 1 /\ Ref(t, 1) \in Inum
      /\ \A j : Needs(Instruction(t), j) <=> j = Ref(t, 1)
  BY <1>2, <1>3, Refs DEF Shaped, Ref
<1>6. PICK ip \in Inum : ip = Ref(t, 1)
  BY <1>5
<1>7. /\ todo' \in [Thread -> Seq(Instr)] /\ \A u \in Thread \ {t} : todo'[u] = todo[u]
      /\ call' \in [Thread -> Call \cup {None}] /\ \A u \in Thread \ {t} : call'[u] = call[u]
      /\ Len(todo'[t]) \in {0, 1, 2} /\ Left(t)' = {} /\ Later(t)' = {} /\ todo'[t] = <<>>
      /\ \A i : Held(t, i)' = Held(t, i) - Occurs(Instruction(t), i)
  BY <1>1, <1>2, <1>4, Continued0
<1>8. /\ cwd' \in [Thread -> Inum] /\ cwd'[t] = ip /\ \A u \in Thread \ {t} : cwd'[u] = cwd[u]
  BY <1>1, <1>6 DEF TypeOK
<1>9. Types' /\ Only(t)
  <2>1. Types
    BY TypesHold
  <2> QED
    BY <1>1, <1>7, <1>8, <2>1 DEF Types, ThreadTypes, Only
<1>10. Leaving(t) /\ ~Leaving(t)'
  BY <1>2, <1>3, <1>7 DEF Leaving
<1>11. \A i \in Inum : holder'[i] # t
  <2>1. Owned(Instruction(t)) = None
    BY <1>2 DEF Owned
  <2> QED
    BY <1>1, <1>3, <1>4, <2>1, Constants DEF LockInv
<1>12. TodoStep(t)
  BY <1>7, <1>11 DEF TodoStep, Chained, Secret, At
<1>13. LocksStep(t) /\ CacheStep(t)
  BY <1>1, <1>2, SameCache DEF LocksStep, At
<1>14. UsesStep(t)
  <2>1. Uses(t, ip) /\ ~At(t, "free")
    BY <1>2, <1>3, <1>5, <1>6 DEF Uses, At
  <2>2. \A i \in Inum : Works(t, i)' => Works(t, i) \/ i = ip
    BY <1>1, <1>8 DEF Works
  <2>3. \A i \in Inum : Uses(t, i)' => Works(t, i)'
    BY <1>7 DEF Uses
  <2> QED
    BY <2>1, <2>2, <2>3 DEF UsesStep, Uses
<1>15. RefStep(t)
  <2>1. SUFFICES ASSUME NEW i \in Inum
                 PROVE table'[i].ref = table[i].ref - Own(t, i) - Held(t, i) + Own(t, i)' + Held(t, i)'
    BY DEF RefStep
  <2>2. PICK f \in Nat, o \in Nat, h \in Nat :
          f = (IF ofile[t] = i THEN 1 ELSE 0) /\ o = (IF i = ip THEN 1 ELSE 0) /\ h = Held(t, i)
    BY Numbers
  <2>3. Own(t, i) = f
    BY <1>10, <2>2 DEF Own
  <2>4. Own(t, i)' = f + o
    BY <1>1, <1>8, <1>10, <2>2 DEF Own
  <2>5. Occurs(Instruction(t), i) = o
    BY <1>5, <1>6, <2>2 DEF Occurs, Ref
  <2>6. Held(t, i)' = h - o
    BY <1>7, <2>2, <2>5
  <2>7. PICK r \in Nat : r = table[i].ref /\ r = table'[i].ref
    BY <1>1 DEF TypeOK
  <2>8. r = r - f - h + (f + o) + (h - o)
    BY <2>2, <2>7
  <2> QED
    BY <2>2, <2>3, <2>4, <2>6, <2>7, <2>8
<1>16. \A i \in Inum : ~Pledges(t, i)'
  BY <1>7 DEF Pledges
<1> QED
  BY <1>1, <1>9, <1>12, <1>13, <1>14, <1>15, <1>16, QuietStep

(***************************************************************************)
(* iput() and iunlockput().                                                *)
(***************************************************************************)
LEMMA RefMoved ==
  ASSUME TypeOK, NEW t,
         \A i \in Inum : /\ Own(t, i)' = Own(t, i)
                         /\ \E o \in Nat, n \in Nat : /\ Held(t, i)' = Held(t, i) - o + n
                                                      /\ table'[i].ref = table[i].ref - o + n
  PROVE  RefStep(t)
<1>1. SUFFICES ASSUME NEW i \in Inum
               PROVE table'[i].ref = table[i].ref - Own(t, i) - Held(t, i) + Own(t, i)' + Held(t, i)'
  BY DEF RefStep
<1>2. PICK o \in Nat, n \in Nat : /\ Held(t, i)' = Held(t, i) - o + n
                                  /\ table'[i].ref = table[i].ref - o + n
  OBVIOUS
<1>3. PICK a \in Nat, h \in Nat : a = Own(t, i) /\ h = Held(t, i)
  BY Numbers
<1>4. PICK r \in Nat : r = table[i].ref
  BY DEF TypeOK
<1>5. a = Own(t, i)'
  BY <1>3
<1>6. r - o + n = r - a - h + a + (h - o + n)
  BY <1>2, <1>3, <1>4
<1> QED
  BY <1>2, <1>3, <1>4, <1>5, <1>6

LEMMA HeldAt ==
  ASSUME TypeOK, ThreadInv, NEW t \in Thread,
         NEW do \in Puts \cup {"unlockput", "made", "unlinked"}, At(t, do)
  PROVE  /\ todo[t] # <<>> /\ Instruction(t).do = do /\ Instruction(t) \in Instr
         /\ Instruction(t) \in Left(t) /\ Left(t) = {Instruction(t)} \cup Later(t)
         /\ Shaped(t, Instruction(t)) /\ Backed(t, Instruction(t))
         /\ Len(Instruction(t).refs) = 1 /\ Ref(t, 1) \in Inum
         /\ \A j : Needs(Instruction(t), j) <=> do \notin {"freed", "drop"} /\ j = Ref(t, 1)
         /\ \A j : Occurs(Instruction(t), j) = IF j = Ref(t, 1) THEN 1 ELSE 0
         /\ Owned(Instruction(t)) = IF do \in {"put", "drop"} THEN None ELSE Ref(t, 1)
<1>1. todo[t] # <<>> /\ Instruction(t).do = do
  BY DEF At
<1>2. /\ Instruction(t) \in Instr /\ Instruction(t) \in Left(t) /\ Left(t) = {Instruction(t)} \cup Later(t)
      /\ Shaped(t, Instruction(t)) /\ Backed(t, Instruction(t))
  BY <1>1, First
<1>3. Len(Instruction(t).refs) = 1
  BY <1>1, <1>2 DEF Shaped, Puts
<1>4. /\ Ref(t, 1) \in Inum
      /\ \A j : Needs(Instruction(t), j) <=> do \notin {"freed", "drop"} /\ j = Ref(t, 1)
  BY <1>1, <1>2, <1>3, Refs DEF Ref
<1>5. \A j : Occurs(Instruction(t), j) = IF j = Ref(t, 1) THEN 1 ELSE 0
  BY <1>3 DEF Occurs, Ref
<1>6. Owned(Instruction(t)) = IF do \in {"put", "drop"} THEN None ELSE Ref(t, 1)
  BY <1>1 DEF Owned, Ref, Puts
<1> QED
  BY <1>1, <1>2, <1>3, <1>4, <1>5, <1>6

(* The thread goes on with what it had to do later.                        *)
LEMMA GoesOn ==
  ASSUME Inv, NEW t \in Thread, todo[t] # <<>>, Continue(t, <<>>),
         cwd' = cwd, ofile' = ofile, rest' = rest, holder' = holder, calls' = calls,
         Owned(Instruction(t)) = None, ~Leaving(t) \/ Instruction(t).do # "setcwd"
  PROVE  /\ ThreadTypes' /\ Only(t) /\ TodoStep(t) /\ LocksStep(t)
         /\ \A i \in Inum : Own(t, i)' = Own(t, i)
         /\ \A i : Held(t, i)' = Held(t, i) - Occurs(Instruction(t), i)
         /\ \A i \in Inum : /\ Works(t, i)' = Works(t, i) /\ (Uses(t, i)' => Uses(t, i))
                            /\ Pledges(t, i)' => Pledges(t, i)
<1> USE DEF Inv
<1>1. /\ todo' \in [Thread -> Seq(Instr)] /\ \A u \in Thread \ {t} : todo'[u] = todo[u]
      /\ call' \in [Thread -> Call \cup {None}] /\ \A u \in Thread \ {t} : call'[u] = call[u]
      /\ Len(todo'[t]) \in {0, 1, 2} /\ Left(t)' = Later(t) /\ Later(t)' = {}
      /\ todo'[t] # <<>> => call'[t] = call[t] /\ Instruction(t)' \in Later(t)
      /\ \A i : Held(t, i)' = Held(t, i) - Occurs(Instruction(t), i)
  BY Continued0
<1>2. Left(t) = {Instruction(t)} \cup Later(t)
  BY First
<1>3. ThreadTypes' /\ Only(t)
  <2>1. rest \in [Thread -> Seq(FileName)]
    BY DEF ThreadInv
  <2> QED
    BY <1>1, <2>1, ThreadOnly
<1>4. Leaving(t)' = Leaving(t)
  <2>1. Leaving(t)' <=> Leaving(t)
    BY <1>1, <1>2 DEF Leaving
  <2>2. Leaving(t) \in BOOLEAN /\ Leaving(t)' \in BOOLEAN
    BY DEF Leaving
  <2> QED
    BY <2>1, <2>2
<1>5. \A x \in Left(t)' : x \in Later(t) /\ call'[t] = call[t] /\ rest'[t] = rest[t]
  <2>1. todo'[t] = <<>> => Left(t)' = {}
    BY DEF Left
  <2> QED
    BY <1>1, <2>1
<1>6. \A i \in Inum : holder'[i] = t => \E x \in Left(t)' : Owned(x) = i
  BY <1>1, <1>2, Constants DEF LockInv
<1>7. ~Secret(t)'
  <2>1. \A x \in Later(t) : x.do \in Walks \cup Ends
    BY DEF ThreadInv, Chained
  <2>2. "free" \notin Walks \cup Ends /\ "created" \notin Walks \cup Ends
    BY DEF Walks, Ends
  <2> QED
    BY <1>1, <2>1, <2>2 DEF Secret, At
<1>8. TodoStep(t)
  BY <1>1, <1>5, <1>6, <1>7 DEF TodoStep, Chained
<1>9. LocksStep(t)
  BY DEF LocksStep
<1>10. (\A i \in Inum : Own(t, i)' = Own(t, i)) /\ (\A i \in Inum : Works(t, i)' = Works(t, i))
  BY <1>4 DEF Own, Works
<1>11. \A i \in Inum : Uses(t, i)' => Uses(t, i)
  BY <1>1, <1>2, <1>10 DEF Uses
<1>12. \A i \in Inum : Pledges(t, i)' => Pledges(t, i)
  BY <1>1, <1>2 DEF Pledges
<1> QED
  BY <1>1, <1>3, <1>8, <1>9, <1>10, <1>11, <1>12

LEMMA DropIs ==
  ASSUME NEW i \in Inum, table \in [Inum -> Entry], Drop(i)
  PROVE  table' = [table EXCEPT ![i] = IF table[i].ref = 1 THEN Unused
                                       ELSE [table[i] EXCEPT !.ref = table[i].ref - 1]]
BY DEF Drop

LEMMA Dropped ==
  ASSUME Inv, NEW t \in Thread, NEW do \in {"put", "drop"}, At(t, do), Drop(Ref(t, 1)), Continue(t, <<>>),
         disk' = disk, entry' = entry, holder' = holder, cwd' = cwd, ofile' = ofile, rest' = rest, calls' = calls
  PROVE  Inv'
<1> USE DEF Inv
<1>1. do \in Puts \cup {"unlockput", "made", "unlinked"}
  BY DEF Puts
<1>2. /\ todo[t] # <<>> /\ Instruction(t).do = do /\ Ref(t, 1) \in Inum
      /\ \A j : Occurs(Instruction(t), j) = IF j = Ref(t, 1) THEN 1 ELSE 0
      /\ Owned(Instruction(t)) = None
  BY <1>1, HeldAt
<1>3. PICK ip \in Inum : ip = Ref(t, 1)
  BY <1>2
<1>4. /\ ThreadTypes' /\ Only(t) /\ TodoStep(t) /\ LocksStep(t)
      /\ \A i \in Inum : Own(t, i)' = Own(t, i)
      /\ \A i : Held(t, i)' = Held(t, i) - Occurs(Instruction(t), i)
      /\ \A i \in Inum : /\ Works(t, i)' = Works(t, i) /\ (Uses(t, i)' => Uses(t, i))
                         /\ Pledges(t, i)' => Pledges(t, i)
  BY <1>2, GoesOn
<1>5. PICK r \in Nat \ {0} : r = table[ip].ref
  BY <1>2, <1>3, LastPointer
<1>6. r = 1 => holder[ip] = None
  BY <1>2, <1>3, <1>5, Constants, LastUnlocked
<1>7. table \in [Inum -> Entry]
  BY DEF TypeOK, Entry
<1>8. table' = [table EXCEPT ![ip] = IF r = 1 THEN Unused ELSE [table[ip] EXCEPT !.ref = r - 1]]
  <2>1. table' = [table EXCEPT ![ip] = IF table[ip].ref = 1 THEN Unused
                                       ELSE [table[ip] EXCEPT !.ref = table[ip].ref - 1]]
    BY <1>3, <1>7, DropIs
  <2> QED
    BY <1>5, <2>1
<1>9. /\ table' \in [Inum -> Entry] /\ table'[ip].ref = r - 1
      /\ r = 1 => ~table'[ip].valid
      /\ r # 1 => table'[ip].valid = table[ip].valid /\ table'[ip].node = table[ip].node
      /\ \A i \in Inum \ {ip} : table'[i] = table[i]
  <2>1. r - 1 \in Nat /\ (r = 1 => r - 1 = 0)
    BY <1>5
  <2>2. Unused \in Entry /\ Unused.ref = 0 /\ ~Unused.valid
    BY DEF Unused, Entry, Node, Free
  <2>3. [table[ip] EXCEPT !.ref = r - 1] \in Entry
    BY <1>7, <2>1 DEF Entry
  <2>4. PICK e \in Entry : e = IF r = 1 THEN Unused ELSE [table[ip] EXCEPT !.ref = r - 1]
    BY <2>2, <2>3
  <2>5. /\ e.ref = r - 1 /\ (r = 1 => ~e.valid)
        /\ r # 1 => e.valid = table[ip].valid /\ e.node = table[ip].node
    BY <1>7, <2>1, <2>2, <2>4 DEF Entry
  <2>6. table' = [table EXCEPT ![ip] = e]
    BY <1>8, <2>4
  <2> QED
    BY <1>7, <2>5, <2>6
<1>10. CacheStep(t)
  <2>1. ~At(t, "freed")
    BY <1>2 DEF At
  <2> QED
    BY <1>5, <1>6, <1>9, <2>1 DEF CacheStep
<1>11. RefStep(t)
  <2>1. ASSUME NEW i \in Inum
        PROVE  \E o \in Nat, n \in Nat : /\ Held(t, i)' = Held(t, i) - o + n
                                         /\ table'[i].ref = table[i].ref - o + n
    <3>1. PICK o \in Nat, n \in Nat, h \in Nat, s \in Nat :
            o = (IF i = ip THEN 1 ELSE 0) /\ n = 0 /\ h = Held(t, i) /\ s = table[i].ref
      BY <1>7, Numbers DEF Entry
    <3>2. Held(t, i)' = h - o
      BY <1>2, <1>3, <1>4, <3>1
    <3>3. table'[i].ref = s - o
      BY <1>5, <1>9, <3>1
    <3>4. h - o = h - o + n /\ s - o = s - o + n
      BY <3>1
    <3> QED
      BY <3>1, <3>2, <3>3, <3>4
  <2> QED
    BY <1>4, <2>1, RefMoved
<1>12. UsesStep(t)
  BY <1>4 DEF UsesStep
<1> QED
  BY <1>4, <1>9, <1>10, <1>11, <1>12, QuietStep DEF Types

(* The thread has x to do before the rest.                                 *)
LEMMA GoesOnWith ==
  ASSUME Inv, NEW t \in Thread, NEW do \in Puts \cup {"unlockput", "made", "unlinked"}, At(t, do),
         NEW x \in Instr, Continue(t, <<x>>),
         cwd' = cwd, ofile' = ofile, rest' = rest, calls' = calls, holder' \in [Inum -> Thread \cup {None}],
         x.do \in Puts, x.do = "free" => Sole(t)', Len(x.refs) = 1, x.refs[1] = Ref(t, 1),
         x.do \in {"free", "freed"} => \A y \in Later(t) : Owned(y) # Ref(t, 1),
         Backed(t, x)', \A i \in Inum : holder'[i] = t => holder[i] = t \/ Owned(x) = i,
         Mine(t, Ref(t, 1)) => holder'[Ref(t, 1)] # t \/ Owned(x) = Ref(t, 1)
  PROVE  /\ ThreadTypes' /\ Only(t) /\ TodoStep(t)
         /\ \A i \in Inum : Own(t, i)' = Own(t, i)
         /\ \A i : Held(t, i)' = Held(t, i)
         /\ \A i \in Inum : /\ Works(t, i)' = Works(t, i)
                            /\ \A y \in Left(t)' : Needs(y, i) => Uses(t, i) \/ (i = Ref(t, 1) /\ y = x)
                            /\ Pledges(t, i)' => Pledges(t, i)
<1> USE DEF Inv
<1>1. do \in Puts \cup {"unlockput", "made", "unlinked"}
  OBVIOUS
<1>2. /\ todo[t] # <<>> /\ Instruction(t).do = do /\ Ref(t, 1) \in Inum
      /\ Left(t) = {Instruction(t)} \cup Later(t)
      /\ \A j : Occurs(Instruction(t), j) = IF j = Ref(t, 1) THEN 1 ELSE 0
      /\ Owned(Instruction(t)) = IF do \in {"put", "drop"} THEN None ELSE Ref(t, 1)
  BY <1>1, HeldAt
<1>3. /\ todo' \in [Thread -> Seq(Instr)] /\ \A u \in Thread \ {t} : todo'[u] = todo[u]
      /\ call' \in [Thread -> Call \cup {None}] /\ \A u \in Thread \ {t} : call'[u] = call[u]
      /\ Len(todo'[t]) \in {0, 1, 2} /\ Left(t)' = {x} \cup Later(t) /\ Later(t)' = Later(t)
      /\ todo'[t] # <<>> /\ call'[t] = call[t] /\ Instruction(t)' = x
      /\ \A i : Held(t, i)' = Held(t, i) - Occurs(Instruction(t), i) + Occurs(x, i)
  BY <1>2, Continued1
<1>4. ThreadTypes' /\ Only(t)
  <2>1. Types
    BY TypesHold
  <2> QED
    BY <1>3, <2>1 DEF Types, ThreadTypes, Only
<1>5. Leaving(t)' = Leaving(t)
  <2>1. Leaving(t)' <=> Leaving(t)
    BY <1>2, <1>3 DEF Leaving, Puts
  <2>2. Leaving(t) \in BOOLEAN /\ Leaving(t)' \in BOOLEAN
    BY DEF Leaving
  <2> QED
    BY <2>1, <2>2
<1>6. Shaped(t, x)'
  BY DEF Shaped, Puts
<1>7. \A y \in Left(t)' : \/ y \in Later(t) /\ call'[t] = call[t] /\ rest'[t] = rest[t]
                          \/ Shaped(t, y)' /\ Backed(t, y)'
  BY <1>3, <1>6
<1>8. \A i \in Inum : holder'[i] = t => \E y \in Left(t)' : Owned(y) = i
  <2>1. SUFFICES ASSUME NEW i \in Inum, holder'[i] = t, Owned(x) # i PROVE \E y \in Later(t) : Owned(y) = i
    BY <1>3
  <2>2. PICK y \in Left(t) : Owned(y) = i
    BY <2>1 DEF LockInv
  <2>3. Owned(Instruction(t)) # i
    BY <1>2, <2>1, Constants DEF Mine
  <2> QED
    BY <1>2, <2>2, <2>3
<1>9. Chained(t)'
  <2>1. \A y \in Later(t) : y.do \in Walks \cup Ends
    BY DEF ThreadInv, Chained
  <2>2. Ref(t, 1)' = Ref(t, 1)
    BY <1>3 DEF Ref
  <2> QED
    BY <1>3, <2>1, <2>2 DEF Chained
<1>10. Secret(t)' => Sole(t)'
  BY <1>3 DEF Secret, At, Puts
<1>11. TodoStep(t)
  BY <1>7, <1>8, <1>9, <1>10 DEF TodoStep
<1>12. (\A i \in Inum : Own(t, i)' = Own(t, i)) /\ (\A i \in Inum : Works(t, i)' = Works(t, i))
  BY <1>5 DEF Own, Works
<1>13. \A i : Held(t, i)' = Held(t, i)
  <2>1. SUFFICES ASSUME NEW i PROVE Held(t, i)' = Held(t, i)
    OBVIOUS
  <2>2. Occurs(x, i) = Occurs(Instruction(t), i)
    <3>1. Occurs(x, i) = IF i = Ref(t, 1) THEN 1 ELSE 0
      BY DEF Occurs
    <3> QED
      BY <1>2, <3>1
  <2>3. PICK o \in Nat, h \in Nat : o = Occurs(Instruction(t), i) /\ h = Held(t, i)
    BY Numbers
  <2>4. Held(t, i)' = h - o + o
    BY <1>3, <2>2, <2>3
  <2> QED
    BY <2>3, <2>4
<1>14. \A i \in Inum, y \in Left(t)' : Needs(y, i) => Uses(t, i) \/ (i = Ref(t, 1) /\ y = x)
  <2>1. \A i : Needs(x, i) => i = Ref(t, 1)
    BY Refs
  <2> QED
    BY <1>2, <1>3, <2>1 DEF Uses
<1>15. \A i \in Inum : Pledges(t, i)' => Pledges(t, i)
  <2>1. Pledged(x) = None
    BY DEF Pledged, Puts
  <2> QED
    BY <1>2, <1>3, <2>1, Constants DEF Pledges
<1> QED
  BY <1>4, <1>11, <1>12, <1>13, <1>14, <1>15

LEMMA IputInv ==
  ASSUME Inv, NEW t \in Thread, Iput(t)
  PROVE  Inv'
<1> USE DEF Inv
<1>1. /\ At(t, "put") /\ disk' = disk /\ entry' = entry /\ cwd' = cwd /\ ofile' = ofile
      /\ rest' = rest /\ calls' = calls
      /\ \/ /\ LastRef(Ref(t, 1)) /\ holder[Ref(t, 1)] = None
            /\ holder' = [holder EXCEPT ![Ref(t, 1)] = t]
            /\ Continue(t, <<I("free", <<Ref(t, 1)>>)>>) /\ table' = table
         \/ Drop(Ref(t, 1)) /\ Continue(t, <<>>) /\ holder' = holder
  BY DEF Iput, onDisk, files
<1>2. CASE Drop(Ref(t, 1)) /\ Continue(t, <<>>) /\ holder' = holder
  BY <1>1, <1>2, Dropped
<1>3. CASE /\ LastRef(Ref(t, 1)) /\ holder[Ref(t, 1)] = None
           /\ holder' = [holder EXCEPT ![Ref(t, 1)] = t]
           /\ Continue(t, <<I("free", <<Ref(t, 1)>>)>>) /\ table' = table
  <2>1. "put" \in Puts \cup {"unlockput"} /\ "put" \in Puts \cup {"unlockput", "made", "unlinked"} /\ "free" \in Puts
    BY DEF Puts
  <2>2. /\ todo[t] # <<>> /\ Instruction(t).do = "put" /\ Ref(t, 1) \in Inum
        /\ Instruction(t) \in Left(t) /\ Left(t) = {Instruction(t)} \cup Later(t)
        /\ Needs(Instruction(t), Ref(t, 1)) /\ Backed(t, Instruction(t))
        /\ Owned(Instruction(t)) = None
    BY <1>1, <2>1, HeldAt
  <2>3. PICK ip \in Inum : ip = Ref(t, 1)
    BY <2>2
  <2>4. PICK x : x = I("free", <<ip>>)
    OBVIOUS
  <2>5. /\ x \in Instr /\ x.do = "free" /\ Len(x.refs) = 1 /\ x.refs[1] = ip
        /\ \A j : Needs(x, j) <=> j = ip
        /\ Owned(x) = ip /\ Pledged(x) = None
    BY <2>1, <2>4, Single
  <2>6. Continue(t, <<x>>)
    BY <1>3, <2>3, <2>4
  <2>7. disk[ip].type # "free" /\ disk[ip].nlink = 0
    <3>1. table[ip].valid /\ table[ip].node.nlink = 0
      BY <1>3, <2>3 DEF LastRef
    <3>2. Loaded(ip) = disk[ip]
      BY <1>3, <2>3, LoadedDisk
    <3>3. disk[ip].type # "free"
      BY <2>2, <2>3 DEF Backed
    <3> QED
      BY <3>1, <3>2, <3>3 DEF Loaded
  <2>8. \A u \in Thread : ~Works(u, ip) /\ \A y \in Others(t, u) : ~Needs(y, ip)
    <3>1. table[ip].ref = 1
      BY <1>3, <2>3 DEF LastRef
    <3> QED
      BY <2>2, <2>3, <3>1, LastPointer DEF Needs
  <2>9. holder' \in [Inum -> Thread \cup {None}] /\ holder'[ip] = t /\ \A i \in Inum \ {ip} : holder'[i] = holder[i]
    BY <1>3, <2>3 DEF TypeOK
  <2>10. Backed(t, x)'
    BY <1>1, <2>5, <2>7, <2>9 DEF Backed
  <2>11. \A y \in Later(t) : Owned(y) # ip
    BY <1>3, <2>2, <2>3, OwnedRef, Constants
  <2>12. /\ \A u \in Thread \ {t} : todo'[u] = todo[u]
         /\ Later(t)' = Later(t) /\ todo'[t] # <<>> /\ Instruction(t)' = x
    BY <2>2, <2>5, <2>6, Continued1
  <2>13. Sole(t)'
    <3>1. Ref(t, 1)' = ip
      BY <2>5, <2>12 DEF Ref
    <3>2. disk'[ip].nlink = 0
      BY <1>1, <2>7
    <3>3. ASSUME NEW u \in Thread PROVE ~Works(u, ip)' /\ \A y \in Others(t, u)' : ~Needs(y, ip)
      <4>1. CASE u = t
        <5>1. ~Works(t, ip)'
          <6>1. ~Works(t, ip)
            BY <2>8
          <6>2. Leaving(t) => Leaving(t)'
            BY <2>2, <2>5, <2>6, Continued1 DEF Leaving
          <6> QED
            BY <1>1, <6>1, <6>2 DEF Works
        <5> QED
          BY <2>8, <2>12, <4>1, <5>1 DEF Others
      <4>2. CASE u # t
        <5>1. todo'[u] = todo[u]
          BY <2>12, <4>2
        <5>2. Left(u)' = Left(u) /\ Leaving(u)' = Leaving(u)
          BY <5>1, Unmoved
        <5> QED
          BY <1>1, <2>8, <4>2, <5>2 DEF Works, Others
      <4> QED
        BY <4>1, <4>2
    <3> QED
      BY <3>1, <3>2, <3>3 DEF Sole
  <2>14. /\ ThreadTypes' /\ Only(t) /\ TodoStep(t)
         /\ \A i \in Inum : Own(t, i)' = Own(t, i)
         /\ \A i : Held(t, i)' = Held(t, i)
         /\ \A i \in Inum : /\ Works(t, i)' = Works(t, i)
                            /\ \A y \in Left(t)' : Needs(y, i) => Uses(t, i) \/ (i = Ref(t, 1) /\ y = x)
                            /\ Pledges(t, i)' => Pledges(t, i)
    <3>1. \A i \in Inum : holder'[i] = t => holder[i] = t \/ Owned(x) = i
      BY <2>5, <2>9
    <3> QED
      BY <1>1, <2>1, <2>3, <2>5, <2>6, <2>9, <2>10, <2>11, <2>13, <3>1, GoesOnWith
  <2>15. LocksStep(t)
    BY <1>3, <2>3, <2>9 DEF LocksStep
  <2>16. CacheStep(t)
    BY <1>1, <1>3, <2>2, SameCache DEF At
  <2>17. UsesStep(t)
    <3>1. Uses(t, ip)
      BY <2>2, <2>3 DEF Uses
    <3>2. ASSUME NEW i \in Inum, Uses(t, i)' PROVE Uses(t, i)
      BY <2>3, <2>14, <3>1, <3>2 DEF Uses
    <3> QED
      BY <2>14, <3>2 DEF UsesStep
  <2>18. RefStep(t)
    <3>1. ASSUME NEW i \in Inum
          PROVE  \E o \in Nat, n \in Nat : /\ Held(t, i)' = Held(t, i) - o + n
                                           /\ table'[i].ref = table[i].ref - o + n
      <4>1. PICK h \in Nat, s \in Nat, o \in Nat : h = Held(t, i) /\ s = table[i].ref /\ o = 0
        BY Numbers DEF TypeOK
      <4>2. Held(t, i)' = h - o + o /\ table'[i].ref = s - o + o
        BY <1>3, <2>14, <4>1
      <4> QED
        BY <4>1, <4>2
    <3> QED
      BY <2>14, <3>1, RefMoved
  <2>19. Types'
    BY <1>3, <2>14 DEF Types, TypeOK, Entry
  <2> QED
    BY <1>1, <2>14, <2>15, <2>16, <2>17, <2>18, <2>19, QuietStep
<1> QED
  BY <1>1, <1>2, <1>3

LEMMA IputDropsInv ==
  ASSUME Inv, NEW t \in Thread, IputDrops(t)
  PROVE  Inv'
BY Dropped DEF IputDrops, onDisk, files

(* The thread unlocks its inode and goes on to drop the reference.         *)
LEMMA Unlocks ==
  ASSUME Inv, NEW t \in Thread, NEW do \in {"freed", "unlockput", "made"}, At(t, do),
         NEW ip \in Inum, ip = Ref(t, 1), NEW x \in Instr, Continue(t, <<x>>),
         x.do \in {"put", "drop"}, Len(x.refs) = 1, x.refs[1] = ip, do = "freed" <=> x.do = "drop",
         disk' = disk, entry' = entry, holder' = [holder EXCEPT ![ip] = None],
         cwd' = cwd, ofile' = ofile, rest' = rest, calls' = calls,
         table' \in [Inum -> Entry], \A i \in Inum : table'[i].ref = table[i].ref, CacheStep(t)
  PROVE  Inv'
<1> USE DEF Inv
<1>1. /\ do \in Puts \cup {"unlockput", "made", "unlinked"} /\ x.do \in Puts
      /\ do \notin {"put", "drop"} /\ x.do \notin {"free", "freed"}
  BY DEF Puts
<1>2. /\ todo[t] # <<>> /\ Instruction(t).do = do /\ Instruction(t) \in Left(t)
      /\ \A j : Needs(Instruction(t), j) <=> do \notin {"freed", "drop"} /\ j = ip
      /\ Backed(t, Instruction(t)) /\ Owned(Instruction(t)) = ip
  BY <1>1, HeldAt
<1>3. holder' \in [Inum -> Thread \cup {None}] /\ holder'[ip] = None /\ \A i \in Inum \ {ip} : holder'[i] = holder[i]
  BY DEF TypeOK
<1>4. Owned(x) = None /\ \A j : Needs(x, j) <=> do # "freed" /\ j = ip
  BY Refs DEF Owned
<1>5. do # "freed" => disk[ip].type # "free"
  BY <1>2 DEF Backed
<1>6. Backed(t, x)'
  BY <1>4, <1>5 DEF Backed
<1>7. Mine(t, ip)
  BY <1>2 DEF Mine
<1>8. /\ ThreadTypes' /\ Only(t) /\ TodoStep(t)
      /\ \A i \in Inum : Own(t, i)' = Own(t, i)
      /\ \A i : Held(t, i)' = Held(t, i)
      /\ \A i \in Inum : /\ Works(t, i)' = Works(t, i)
                         /\ \A y \in Left(t)' : Needs(y, i) => Uses(t, i) \/ (i = Ref(t, 1) /\ y = x)
                         /\ Pledges(t, i)' => Pledges(t, i)
  <2>1. \A i \in Inum : holder'[i] = t => holder[i] = t \/ Owned(x) = i
    BY <1>3, Constants
  <2>2. holder'[Ref(t, 1)] # t
    BY <1>3, Constants
  <2> QED
    BY <1>1, <1>3, <1>6, <2>1, <2>2, GoesOnWith
<1>9. LocksStep(t)
  BY <1>3, <1>7 DEF LocksStep
<1>10. UsesStep(t)
  <2>1. do # "freed" => Uses(t, ip)
    BY <1>2 DEF Uses
  <2>2. ASSUME NEW i \in Inum, Uses(t, i)' PROVE Uses(t, i)
    BY <1>4, <1>8, <2>1, <2>2 DEF Uses
  <2> QED
    BY <1>8, <2>2 DEF UsesStep
<1>11. RefStep(t)
  <2>1. ASSUME NEW i \in Inum
        PROVE  \E o \in Nat, n \in Nat : /\ Held(t, i)' = Held(t, i) - o + n
                                         /\ table'[i].ref = table[i].ref - o + n
    <3>1. PICK h \in Nat, s \in Nat, o \in Nat : h = Held(t, i) /\ s = table[i].ref /\ o = 0
      BY Numbers DEF TypeOK
    <3>2. Held(t, i)' = h - o + o /\ table'[i].ref = s - o + o
      BY <1>8, <3>1
    <3> QED
      BY <3>1, <3>2
  <2> QED
    BY <1>8, <2>1, RefMoved
<1>12. Types'
  BY <1>8 DEF Types
<1> QED
  BY <1>8, <1>9, <1>10, <1>11, <1>12, QuietStep

LEMMA UnlockPutInv ==
  ASSUME Inv, NEW t \in Thread, UnlockPut(t)
  PROVE  Inv'
<1> USE DEF Inv
<1>1. /\ At(t, "unlockput") /\ holder' = [holder EXCEPT ![Ref(t, 1)] = None] /\ Continue(t, <<Put(Ref(t, 1))>>)
      /\ disk' = disk /\ entry' = entry /\ table' = table /\ cwd' = cwd /\ ofile' = ofile
      /\ rest' = rest /\ calls' = calls
  BY DEF UnlockPut, Unlock, onDisk, files
<1>2. PICK ip \in Inum : ip = Ref(t, 1)
  BY <1>1, HeldAt
<1>3. PICK x : x = Put(ip)
  OBVIOUS
<1>4. /\ x \in Instr /\ x.do = "put" /\ Len(x.refs) = 1 /\ x.refs[1] = ip
  BY <1>3, PutIs
<1>5. CacheStep(t)
  BY <1>1, SameCache DEF At
<1>6. table \in [Inum -> Entry]
  BY DEF TypeOK, Entry
<1> QED
  BY <1>1, <1>2, <1>3, <1>4, <1>5, <1>6, Unlocks

LEMMA IputInvalidatesInv ==
  ASSUME Inv, NEW t \in Thread, IputInvalidates(t)
  PROVE  Inv'
<1> USE DEF Inv
<1>1. /\ At(t, "freed") /\ table' = [table EXCEPT ![Ref(t, 1)].valid = FALSE]
      /\ holder' = [holder EXCEPT ![Ref(t, 1)] = None] /\ Continue(t, <<I("drop", <<Ref(t, 1)>>)>>)
      /\ disk' = disk /\ entry' = entry /\ cwd' = cwd /\ ofile' = ofile
      /\ rest' = rest /\ calls' = calls
  BY DEF IputInvalidates, Unlock, onDisk, files
<1>2. "freed" \in Puts \cup {"unlockput", "made", "unlinked"} /\ "drop" \in Puts
  BY DEF Puts
<1>3. PICK ip \in Inum : ip = Ref(t, 1)
  BY <1>1, <1>2, HeldAt
<1>4. Mine(t, ip)
  BY <1>1, <1>2, <1>3, HeldAt DEF Mine
<1>5. PICK x : x = I("drop", <<ip>>)
  OBVIOUS
<1>6. /\ x \in Instr /\ x.do = "drop" /\ Len(x.refs) = 1 /\ x.refs[1] = ip
  BY <1>2, <1>5, Single
<1>7. table \in [Inum -> Entry]
  BY DEF TypeOK, Entry
<1>8. /\ table' \in [Inum -> Entry] /\ ~table'[ip].valid
      /\ \A i \in Inum : table'[i].ref = table[i].ref /\ (i # ip => table'[i] = table[i])
  BY <1>1, <1>3, <1>7 DEF Entry
<1>9. CacheStep(t)
  BY <1>1, <1>3, <1>4, <1>8 DEF CacheStep
<1> QED
  BY <1>1, <1>3, <1>5, <1>6, <1>8, <1>9, Unlocks

(***************************************************************************)
(* Steps of a thread that has nothing else to do.                          *)
(***************************************************************************)
LEMMA MadeOpens ==
  ASSUME Inv, NEW t \in Thread, At(t, "made"), ofile[t] = None, ofile' = [ofile EXCEPT ![t] = Ref(t, 1)],
         Continue(t, <<>>), holder' = [holder EXCEPT ![Ref(t, 1)] = None],
         disk' = disk, entry' = entry, table' = table, cwd' = cwd, rest' = rest, calls' = calls
  PROVE  Inv'
<1> USE DEF Inv
<1>1. /\ todo[t] # <<>> /\ Instruction(t).do = "made" /\ Ref(t, 1) \in Inum
      /\ Left(t) = {Instruction(t)} \cup Later(t) /\ Instruction(t) \in Left(t)
      /\ \A j : Needs(Instruction(t), j) <=> j = Ref(t, 1)
      /\ \A j : Occurs(Instruction(t), j) = IF j = Ref(t, 1) THEN 1 ELSE 0
      /\ Owned(Instruction(t)) = Ref(t, 1)
  BY HeldAt
<1>2. PICK ip \in Inum : ip = Ref(t, 1)
  BY <1>1
<1>3. Later(t) = {}
  BY <1>1 DEF ThreadInv, Chained, Puts
<1>4. /\ todo' \in [Thread -> Seq(Instr)] /\ \A u \in Thread \ {t} : todo'[u] = todo[u]
      /\ call' \in [Thread -> Call \cup {None}] /\ \A u \in Thread \ {t} : call'[u] = call[u]
      /\ Len(todo'[t]) \in {0, 1, 2} /\ Left(t)' = {} /\ Later(t)' = {} /\ todo'[t] = <<>>
      /\ \A i : Held(t, i)' = Held(t, i) - Occurs(Instruction(t), i)
  BY <1>1, <1>3, Continued0
<1>5. ofile \in [Thread -> Inum \cup {None}] /\ holder \in [Inum -> Thread \cup {None}]
  BY DEF TypeOK
<1>6. /\ ofile' \in [Thread -> Inum \cup {None}] /\ ofile'[t] = ip
      /\ \A u \in Thread \ {t} : ofile'[u] = ofile[u]
      /\ holder' \in [Inum -> Thread \cup {None}] /\ holder'[ip] = None
      /\ \A i \in Inum \ {ip} : holder'[i] = holder[i]
  BY <1>2, <1>5
<1>7. Types' /\ Only(t)
  <2>1. Types
    BY TypesHold
  <2> QED
    BY <1>4, <1>6, <2>1 DEF Types, ThreadTypes, Only
<1>8. ~Leaving(t) /\ ~Leaving(t)'
  BY <1>1, <1>3, <1>4 DEF Leaving
<1>9. \A i \in Inum : holder'[i] # t
  BY <1>1, <1>2, <1>3, <1>6, Constants DEF LockInv
<1>10. TodoStep(t)
  BY <1>4, <1>9 DEF TodoStep, Chained, Secret, At
<1>11. LocksStep(t)
  BY <1>1, <1>2, <1>6 DEF LocksStep, Mine
<1>12. CacheStep(t)
  BY <1>1, SameCache DEF At
<1>13. UsesStep(t)
  <2>1. Uses(t, ip) /\ ~At(t, "free")
    BY <1>1, <1>2 DEF Uses, At
  <2>2. \A i \in Inum : Works(t, i)' => Works(t, i) \/ i = ip
    BY <1>6, <1>8 DEF Works
  <2>3. \A i \in Inum : Uses(t, i)' => Works(t, i)'
    BY <1>4 DEF Uses
  <2> QED
    BY <2>1, <2>2, <2>3 DEF UsesStep, Uses
<1>14. RefStep(t)
  <2>1. SUFFICES ASSUME NEW i \in Inum
                 PROVE table'[i].ref = table[i].ref - Own(t, i) - Held(t, i) + Own(t, i)' + Held(t, i)'
    BY DEF RefStep
  <2>2. PICK w \in Nat, o \in Nat, h \in Nat :
          w = (IF cwd[t] = i THEN 1 ELSE 0) /\ o = (IF i = ip THEN 1 ELSE 0) /\ h = Held(t, i)
    BY Numbers
  <2>3. Own(t, i) = w
    BY <1>8, <2>2, Constants DEF Own
  <2>4. Own(t, i)' = o + w
    BY <1>6, <1>8, <2>2 DEF Own
  <2>5. Held(t, i)' = h - o
    BY <1>1, <1>2, <1>4, <2>2
  <2>6. PICK r \in Nat : r = table[i].ref /\ r = table'[i].ref
    BY DEF TypeOK
  <2>7. r = r - w - h + (o + w) + (h - o)
    BY <2>2, <2>6
  <2> QED
    BY <2>2, <2>3, <2>4, <2>5, <2>6, <2>7
<1>15. \A i \in Inum : ~Pledges(t, i)'
  BY <1>4 DEF Pledges
<1> QED
  BY <1>7, <1>10, <1>11, <1>12, <1>13, <1>14, <1>15, QuietStep

LEMMA MadeInv ==
  ASSUME Inv, NEW t \in Thread, Made(t)
  PROVE  Inv'
<1> USE DEF Inv
<1>1. /\ At(t, "made") /\ holder' = [holder EXCEPT ![Ref(t, 1)] = None]
      /\ disk' = disk /\ entry' = entry /\ table' = table /\ cwd' = cwd /\ rest' = rest /\ calls' = calls
      /\ \/ ofile[t] = None /\ ofile' = [ofile EXCEPT ![t] = Ref(t, 1)] /\ Continue(t, <<>>)
         \/ ofile' = ofile /\ Continue(t, <<Put(Ref(t, 1))>>)
  BY DEF Made, Opens, Unlock, onDisk
<1>2. CASE ofile[t] = None /\ ofile' = [ofile EXCEPT ![t] = Ref(t, 1)] /\ Continue(t, <<>>)
  BY <1>1, <1>2, MadeOpens
<1>3. CASE ofile' = ofile /\ Continue(t, <<Put(Ref(t, 1))>>)
  <2>1. PICK ip \in Inum : ip = Ref(t, 1)
    BY <1>1, HeldAt
  <2>2. PICK x : x = Put(ip)
    OBVIOUS
  <2>3. /\ x \in Instr /\ x.do = "put" /\ Len(x.refs) = 1 /\ x.refs[1] = ip
    BY <2>2, PutIs
  <2>4. CacheStep(t)
    BY <1>1, SameCache DEF At
  <2>5. table \in [Inum -> Entry]
    BY DEF TypeOK, Entry
  <2> QED
    BY <1>1, <1>3, <2>1, <2>2, <2>3, <2>4, <2>5, Unlocks
<1> QED
  BY <1>1, <1>2, <1>3

(* A thread that was idle begins with x.                                   *)
LEMMA Begun ==
  ASSUME TypeOK, ThreadInv, LockInv, NEW t \in Thread, todo[t] = <<>>, NEW x \in Instr,
         todo' = [todo EXCEPT ![t] = <<x>>]
  PROVE  /\ todo' \in [Thread -> Seq(Instr)] /\ \A u \in Thread \ {t} : todo'[u] = todo[u]
         /\ Len(todo'[t]) \in {0, 1, 2} /\ Left(t)' = {x} /\ Later(t)' = {} /\ Left(t) = {}
         /\ todo'[t] # <<>> /\ Instruction(t)' = x
         /\ \A i : Held(t, i) = 0 /\ Held(t, i)' = Occurs(x, i)
         /\ ~Leaving(t) /\ \A i \in Inum : holder[i] # t
<1>1. PICK r : r = <<x>>
  OBVIOUS
<1>2. r \in Seq(Instr) /\ Len(r) = 1 /\ r[1] = x
  BY <1>1, Tuples
<1>3. r # <<>> /\ After(r) = {} /\ All(r) = {x} /\ \A i : Total(r, i) = Occurs(x, i)
  BY <1>2, OfLength
<1>4. todo \in [Thread -> Seq(Instr)]
  BY DEF ThreadInv
<1>5. todo' \in [Thread -> Seq(Instr)] /\ todo'[t] = r /\ \A u \in Thread \ {t} : todo'[u] = todo[u]
  BY <1>1, <1>2, <1>4
<1>6. Left(t)' = All(r) /\ Later(t)' = After(r) /\ Instruction(t)' = Head(r)
  BY <1>5 DEF Left, Later, All, After, Instruction
<1>7. Head(r) = x
  BY <1>1
<1>8. Left(t) = {}
  BY Idle
<1>9. \A i : Held(t, i) = 0 /\ Held(t, i)' = Occurs(x, i)
  <2>1. todo[t] \in Seq(Instr) /\ Len(todo[t]) = 0
    BY <1>4, EmptySeq
  <2>2. \A i : Total(todo[t], i) = 0
    BY <2>1, OfLength
  <2> QED
    BY <1>3, <1>5, <2>2 DEF Held
<1>10. Len(todo'[t]) \in {0, 1, 2}
  BY <1>2, <1>5
<1>11. ~Leaving(t) /\ \A i \in Inum : holder[i] # t
  BY <1>8 DEF Leaving, LockInv
<1> QED
  BY <1>3, <1>5, <1>6, <1>7, <1>8, <1>9, <1>10, <1>11

LEMMA CloseInv ==
  ASSUME Inv, NEW t \in Thread, Close(t)
  PROVE  Inv'
<1> USE DEF Inv
<1>1. /\ todo[t] = <<>> /\ ofile[t] # None /\ todo' = [todo EXCEPT ![t] = <<Put(ofile[t])>>]
      /\ ofile' = [ofile EXCEPT ![t] = None]
      /\ disk' = disk /\ entry' = entry /\ table' = table /\ holder' = holder /\ cwd' = cwd
      /\ call' = call /\ rest' = rest /\ calls' = calls
  BY DEF Close, onDisk
<1>2. PICK ip \in Inum : ip = ofile[t]
  BY <1>1 DEF TypeOK
<1>3. PICK x : x = Put(ip)
  OBVIOUS
<1>4. /\ x \in Instr /\ x.do = "put" /\ Len(x.refs) = 1 /\ x.refs[1] = ip
      /\ \A j : Needs(x, j) <=> j = ip
      /\ \A j : Occurs(x, j) = IF j = ip THEN 1 ELSE 0
      /\ Pledged(x) = None /\ Owned(x) = None
  BY <1>3, PutIs
<1>5. todo' = [todo EXCEPT ![t] = <<x>>]
  BY <1>1, <1>2, <1>3
<1>6. /\ todo' \in [Thread -> Seq(Instr)] /\ \A u \in Thread \ {t} : todo'[u] = todo[u]
      /\ Len(todo'[t]) \in {0, 1, 2} /\ Left(t)' = {x} /\ Later(t)' = {} /\ Left(t) = {}
      /\ todo'[t] # <<>> /\ Instruction(t)' = x
      /\ \A i : Held(t, i) = 0 /\ Held(t, i)' = Occurs(x, i)
      /\ ~Leaving(t) /\ \A i \in Inum : holder[i] # t
  BY <1>1, <1>4, <1>5, Begun
<1>7. /\ ofile' \in [Thread -> Inum \cup {None}] /\ ofile'[t] = None
      /\ \A u \in Thread \ {t} : ofile'[u] = ofile[u]
  <2>1. ofile \in [Thread -> Inum \cup {None}]
    BY DEF TypeOK
  <2> QED
    BY <1>1, <2>1
<1>8. Types' /\ Only(t)
  <2>1. Types
    BY TypesHold
  <2> QED
    BY <1>1, <1>6, <1>7, <2>1 DEF Types, ThreadTypes, Only
<1>9. ~Leaving(t)'
  BY <1>4, <1>6 DEF Leaving
<1>10. disk[ip].type # "free"
  BY <1>2 DEF ThreadInv, Works
<1>11. Shaped(t, x)' /\ Backed(t, x)'
  BY <1>1, <1>4, <1>10 DEF Shaped, Backed
<1>12. TodoStep(t)
  BY <1>1, <1>4, <1>6, <1>11 DEF TodoStep, Chained, Secret, At
<1>13. LocksStep(t) /\ CacheStep(t)
  BY <1>1, SameCache DEF LocksStep, At
<1>14. UsesStep(t)
  <2>1. \A i \in Inum : Works(t, i)' => Works(t, i)
    BY <1>1, <1>6, <1>7, <1>9, Constants DEF Works
  <2>2. Works(t, ip)
    BY <1>2 DEF Works
  <2>3. ~At(t, "free")
    BY <1>1 DEF At
  <2> QED
    BY <1>4, <1>6, <2>1, <2>2, <2>3 DEF UsesStep, Uses
<1>15. RefStep(t)
  <2>1. SUFFICES ASSUME NEW i \in Inum
                 PROVE table'[i].ref = table[i].ref - Own(t, i) - Held(t, i) + Own(t, i)' + Held(t, i)'
    BY DEF RefStep
  <2>2. PICK w \in Nat, o \in Nat : w = (IF cwd[t] = i THEN 1 ELSE 0) /\ o = (IF i = ip THEN 1 ELSE 0)
    OBVIOUS
  <2>3. Own(t, i) = o + w
    BY <1>2, <1>6, <2>2 DEF Own
  <2>4. Own(t, i)' = w
    BY <1>1, <1>7, <1>9, <2>2, Constants DEF Own
  <2>5. Held(t, i) = 0 /\ Held(t, i)' = o
    BY <1>4, <1>6, <2>2
  <2>6. PICK r \in Nat : r = table[i].ref /\ r = table'[i].ref
    BY <1>1 DEF TypeOK
  <2>7. r = r - (o + w) - 0 + w + o
    BY <2>2, <2>6
  <2> QED
    BY <2>2, <2>3, <2>4, <2>5, <2>6, <2>7
<1>16. \A i \in Inum : ~Pledges(t, i)'
  BY <1>4, <1>6, Constants DEF Pledges
<1> QED
  BY <1>1, <1>8, <1>12, <1>13, <1>14, <1>15, <1>16, QuietStep

LEMMA BeginInv ==
  ASSUME NoDots, Inv, NEW t \in Thread, NEW kind \in Kind, NEW path \in Path, NEW new \in Path,
         Begin(t, kind, path, new)
  PROVE  Inv'
<1> USE DEF Inv
<1>1. PICK ip : ip = Start(t, path)
  OBVIOUS
<1>2. ip \in Inum /\ (ip = RootIno \/ ip = cwd[t])
  <2>1. cwd[t] \in Inum
    BY DEF TypeOK
  <2> QED
    BY <1>1, <2>1, Constants DEF Start
<1>3. PICK do : do = IF Parent(kind) THEN "walkparent" ELSE "walk"
  OBVIOUS
<1>4. PICK x : x = I(do, <<ip>>)
  OBVIOUS
<1>5. /\ todo[t] = <<>> /\ calls < MaxCalls /\ calls' = calls + 1
      /\ call' = [call EXCEPT ![t] = [kind |-> kind, path |-> path, new |-> new]]
      /\ rest' = [rest EXCEPT ![t] = path.elems] /\ table' = [table EXCEPT ![ip].ref = @ + 1]
      /\ todo' = [todo EXCEPT ![t] = <<x>>]
      /\ disk' = disk /\ entry' = entry /\ holder' = holder /\ cwd' = cwd /\ ofile' = ofile
  BY <1>1, <1>3, <1>4 DEF Begin, Iget, onDisk, files
<1>6. do \in {"walk", "walkparent"} /\ do \in Puts \cup Walks \cup Ends
  BY <1>3 DEF Walks
<1>7. /\ x \in Instr /\ x.do = do /\ Len(x.refs) = 1 /\ x.refs[1] = ip
      /\ \A j : Needs(x, j) <=> j = ip
      /\ \A j : Occurs(x, j) = IF j = ip THEN 1 ELSE 0
      /\ Pledged(x) = None /\ Owned(x) = None
  <2>1. do \notin {"freed", "drop", "unlockput", "made", "unlinked", "free", "badlink"}
    BY <1>6
  <2> QED
    BY <1>2, <1>4, <1>6, <2>1, Single
<1>8. /\ todo' \in [Thread -> Seq(Instr)] /\ \A u \in Thread \ {t} : todo'[u] = todo[u]
      /\ Len(todo'[t]) \in {0, 1, 2} /\ Left(t)' = {x} /\ Later(t)' = {} /\ Left(t) = {}
      /\ todo'[t] # <<>> /\ Instruction(t)' = x
      /\ \A i : Held(t, i) = 0 /\ Held(t, i)' = Occurs(x, i)
      /\ ~Leaving(t) /\ \A i \in Inum : holder[i] # t
  BY <1>5, <1>7, Begun
<1>9. PICK c \in Call : c = [kind |-> kind, path |-> path, new |-> new]
  BY DEF Call
<1>10. /\ call' \in [Thread -> Call \cup {None}] /\ call'[t] = c
       /\ \A u \in Thread \ {t} : call'[u] = call[u]
  <2>1. call \in [Thread -> Call \cup {None}]
    BY DEF TypeOK, Call
  <2> QED
    BY <1>5, <1>9, <2>1
<1>11. path.elems \in Seq(FileName) /\ path.elems # <<>>
  BY PathElems
<1>12. /\ rest' \in [Thread -> Seq(FileName)] /\ rest'[t] # <<>>
       /\ \A u \in Thread \ {t} : rest'[u] = rest[u]
  <2>1. rest \in [Thread -> Seq(FileName)]
    BY DEF ThreadInv
  <2> QED
    BY <1>5, <1>11, <2>1
<1>13. /\ table' \in [Inum -> Entry]
       /\ \A i \in Inum : /\ table'[i].valid = table[i].valid /\ table'[i].node = table[i].node
                          /\ table'[i].ref = table[i].ref + (IF i = ip THEN 1 ELSE 0)
  <2>1. table \in [Inum -> Entry]
    BY DEF TypeOK, Entry
  <2> QED
    BY <1>2, <1>5, <2>1 DEF Entry
<1>14. Types' /\ Only(t)
  <2>1. Types
    BY TypesHold
  <2>2. calls' \in 0 .. MaxCalls
    <3>1. calls \in 0 .. MaxCalls /\ MaxCalls \in Nat
      BY InodesAssumption DEF TypeOK
    <3> QED
      BY <1>5, <3>1
  <2> QED
    BY <1>5, <1>8, <1>10, <1>12, <1>13, <2>1, <2>2 DEF Types, ThreadTypes, Only
<1>15. ~Leaving(t)'
  BY <1>6, <1>7, <1>8 DEF Leaving
<1>16. disk[ip].type # "free"
  <2>1. ip = RootIno \/ Works(t, ip)
    BY <1>2, <1>8 DEF Works
  <2> QED
    BY <1>2, <2>1, Allocated DEF Uses
<1>17. Shaped(t, x)'
  <2>1. c.kind = kind /\ (Parent(kind) <=> kind \in {"creat", "mkdir", "unlink"})
    BY <1>9 DEF Parent
  <2>2. do = "walk" => kind \in {"open", "link", "chdir"}
    BY <1>3, <2>1 DEF Kind
  <2>3. do = "walkparent" => kind \in {"creat", "mkdir", "unlink"}
    BY <1>3, <2>1
  <2> QED
    BY <1>6, <1>7, <1>10, <1>12, <2>1, <2>2, <2>3 DEF Shaped
<1>18. Backed(t, x)'
  BY <1>5, <1>6, <1>7, <1>16 DEF Backed
<1>19. TodoStep(t)
  BY <1>5, <1>6, <1>7, <1>8, <1>17, <1>18 DEF TodoStep, Chained, Secret, At
<1>20. LocksStep(t) /\ CacheStep(t)
  <2>1. ~At(t, "freed")
    BY <1>5 DEF At
  <2> QED
    BY <1>5, <1>13, <2>1 DEF LocksStep, CacheStep
<1>21. UsesStep(t)
  <2>1. \A i \in Inum : Works(t, i)' = Works(t, i)
    BY <1>5, <1>8, <1>15 DEF Works
  <2>2. Works(t, ip) \/ ip = RootIno
    BY <1>2, <1>8 DEF Works
  <2> QED
    BY <1>7, <1>8, <2>1, <2>2 DEF UsesStep, Uses
<1>22. RefStep(t)
  <2>1. SUFFICES ASSUME NEW i \in Inum
                 PROVE table'[i].ref = table[i].ref - Own(t, i) - Held(t, i) + Own(t, i)' + Held(t, i)'
    BY DEF RefStep
  <2>2. PICK w \in Nat, o \in Nat : w = Own(t, i) /\ o = (IF i = ip THEN 1 ELSE 0)
    BY Numbers
  <2>3. Own(t, i)' = w
    BY <1>5, <1>8, <1>15, <2>2 DEF Own
  <2>4. Held(t, i) = 0 /\ Held(t, i)' = o
    BY <1>7, <1>8, <2>2
  <2>5. PICK r \in Nat : r = table[i].ref
    BY DEF TypeOK
  <2>6. table'[i].ref = r + o
    BY <1>13, <2>2, <2>5
  <2>7. r + o = r - w - 0 + w + o
    BY <2>2, <2>5
  <2> QED
    BY <2>2, <2>3, <2>4, <2>5, <2>6, <2>7
<1>23. \A i \in Inum : ~Pledges(t, i)'
  BY <1>7, <1>8, Constants DEF Pledges
<1> QED
  BY <1>5, <1>14, <1>19, <1>20, <1>21, <1>22, <1>23, QuietStep

(***************************************************************************)
(* Steps that write to the disk.                                           *)
(***************************************************************************)
Covered(i) == Links(i) + Cardinality(Pledgers(i)) <= disk[i].nlink
Bit(b) == IF b THEN 1 ELSE 0

(* What t and the entry name of dp make of the links that i is to have.    *)
NameLink(i, dp, name) == Bit(disk[dp].type = "dir" /\ entry[dp][name] = i)
SubLink(i, dp, name) ==
  Bit(i = dp /\ entry[i][name] # None /\ disk[entry[i][name]].type = "dir")
Weight(t, i, dp, name) == NameLink(i, dp, name) + SubLink(i, dp, name) + Bit(Pledges(t, i))

LEMMA BitType == \A b : Bit(b) \in Nat
BY DEF Bit

LEMMA NamersStep ==
  ASSUME NEW dp \in Inum, NEW name \in FileName, NEW i,
         \A d \in Inum : disk'[d].type = disk[d].type,
         \A d \in Inum, m \in FileName : entry'[d][m] = entry[d][m] \/ (d = dp /\ m = name)
  PROVE  /\ Cardinality(Namers(i)) \in Nat /\ Cardinality(Namers(i))' \in Nat
         /\ Cardinality(Namers(i))' = Cardinality(Namers(i)) - NameLink(i, dp, name) + NameLink(i, dp, name)'
<1>1. PICK x : x = <<dp, name>>
  OBVIOUS
<1>2. PICK A : A = Namers(i)
  OBVIOUS
<1>3. PICK B : B = Namers(i)'
  OBVIOUS
<1>4. A \subseteq Inum \X FileName /\ B \subseteq Inum \X FileName
  BY <1>2, <1>3 DEF Namers
<1>5. \A y \in (Inum \X FileName) \ {x} : y \in A <=> y \in B
  <2>1. SUFFICES ASSUME NEW d \in Inum, NEW m \in FileName, <<d, m>> # <<dp, name>>
                 PROVE <<d, m>> \in A <=> <<d, m>> \in B
    BY <1>1
  <2>2. entry'[d][m] = entry[d][m] /\ disk'[d].type = disk[d].type
    BY <2>1
  <2> QED
    BY <1>2, <1>3, <2>2 DEF Namers
<1>6. /\ Cardinality(A) \in Nat /\ Cardinality(B) \in Nat
      /\ Cardinality(B) = Cardinality(A) - (IF x \in A THEN 1 ELSE 0) + (IF x \in B THEN 1 ELSE 0)
  BY <1>4, <1>5, OneChanges, Constants
<1>7. x \in A <=> disk[dp].type = "dir" /\ entry[dp][name] = i
  BY <1>1, <1>2 DEF Namers
<1>8. x \in B <=> disk'[dp].type = "dir" /\ entry'[dp][name] = i
  BY <1>1, <1>3 DEF Namers
<1>9. NameLink(i, dp, name) = (IF x \in A THEN 1 ELSE 0) /\ NameLink(i, dp, name)' = (IF x \in B THEN 1 ELSE 0)
  BY <1>7, <1>8 DEF NameLink, Bit
<1> QED
  BY <1>2, <1>3, <1>6, <1>9

LEMMA SubdirsStep ==
  ASSUME NEW dp \in Inum, NEW name \in FileName, NEW i \in Inum,
         \A d \in Inum : disk'[d].type = disk[d].type,
         entry \in [Inum -> [Name -> Inum \cup {None}]],
         \A d \in Inum, m \in FileName : entry'[d][m] = entry[d][m] \/ (d = dp /\ m = name)
  PROVE  /\ Cardinality(Subdirs(i)) \in Nat /\ Cardinality(Subdirs(i))' \in Nat
         /\ Cardinality(Subdirs(i))' = Cardinality(Subdirs(i)) - SubLink(i, dp, name) + SubLink(i, dp, name)'
<1>1. PICK A : A = Subdirs(i)
  OBVIOUS
<1>2. PICK B : B = Subdirs(i)'
  OBVIOUS
<1>3. A \subseteq FileName /\ B \subseteq FileName
  BY <1>1, <1>2 DEF Subdirs
<1>4. ASSUME NEW m \in FileName, m # name \/ i # dp PROVE m \in A <=> m \in B
  <2>1. entry'[i][m] = entry[i][m] /\ entry[i][m] \in Inum \cup {None}
    BY <1>4 DEF FileName
  <2> QED
    BY <1>1, <1>2, <2>1 DEF Subdirs
<1>5. /\ Cardinality(A) \in Nat /\ Cardinality(B) \in Nat
      /\ Cardinality(B) = Cardinality(A) - (IF name \in A THEN 1 ELSE 0) + (IF name \in B THEN 1 ELSE 0)
  BY <1>3, <1>4, OneChanges, Constants
<1>6. CASE i = dp
  <2>1. name \in A <=> entry[i][name] # None /\ disk[entry[i][name]].type = "dir"
    BY <1>1 DEF Subdirs
  <2>2. name \in B <=> entry'[i][name] # None /\ disk'[entry'[i][name]].type = "dir"
    BY <1>2 DEF Subdirs
  <2>3. SubLink(i, dp, name) = (IF name \in A THEN 1 ELSE 0) /\ SubLink(i, dp, name)' = (IF name \in B THEN 1 ELSE 0)
    BY <1>6, <2>1, <2>2 DEF SubLink, Bit
  <2> QED
    BY <1>1, <1>2, <1>5, <2>3
<1>7. CASE i # dp
  <2>1. SubLink(i, dp, name) = 0 /\ SubLink(i, dp, name)' = 0
    BY <1>7 DEF SubLink, Bit
  <2>2. name \in A <=> name \in B
    BY <1>4, <1>7
  <2>3. Cardinality(B) = Cardinality(A)
    BY <1>5, <2>2
  <2> QED
    BY <1>1, <1>2, <1>5, <2>1, <2>3
<1> QED
  BY <1>6, <1>7

LEMMA PledgersStep ==
  ASSUME NEW t \in Thread, Only(t), NEW i
  PROVE  /\ Cardinality(Pledgers(i)) \in Nat /\ Cardinality(Pledgers(i))' \in Nat
         /\ Cardinality(Pledgers(i))' = Cardinality(Pledgers(i)) - Bit(Pledges(t, i)) + Bit(Pledges(t, i))'
<1>1. PICK A : A = Pledgers(i)
  OBVIOUS
<1>2. PICK B : B = Pledgers(i)'
  OBVIOUS
<1>3. A \subseteq Thread /\ B \subseteq Thread
  BY <1>1, <1>2 DEF Pledgers
<1>4. \A u \in Thread \ {t} : u \in A <=> u \in B
  BY <1>1, <1>2, Unmoved DEF Pledgers, Only
<1>5. /\ Cardinality(A) \in Nat /\ Cardinality(B) \in Nat
      /\ Cardinality(B) = Cardinality(A) - (IF t \in A THEN 1 ELSE 0) + (IF t \in B THEN 1 ELSE 0)
  BY <1>3, <1>4, OneChanges, Constants
<1>6. Bit(Pledges(t, i)) = (IF t \in A THEN 1 ELSE 0) /\ Bit(Pledges(t, i))' = (IF t \in B THEN 1 ELSE 0)
  BY <1>1, <1>2 DEF Pledgers, Bit
<1> QED
  BY <1>1, <1>2, <1>5, <1>6

(* When only one entry changes, and no type, what is counted follows it.   *)
LEMMA CoverStep ==
  ASSUME TypeOK, NEW t \in Thread, Only(t), NEW dp \in Inum, NEW name \in FileName, NEW i \in Inum,
         \A d \in Inum : disk'[d].type = disk[d].type, disk' \in [Inum -> Node],
         \A d \in Inum, m \in FileName : entry'[d][m] = entry[d][m] \/ (d = dp /\ m = name),
         Weight(t, i, dp, name)' + disk[i].nlink <= Weight(t, i, dp, name) + disk'[i].nlink,
         Covered(i)
  PROVE  Covered(i)'
<1>1. PICK n \in Nat, m \in Nat : n = disk[i].nlink /\ m = disk'[i].nlink
  BY DEF TypeOK, Node
<1>2. PICK a \in Nat, b \in Nat, x \in Nat, y \in Nat :
        /\ a = Cardinality(Namers(i)) /\ b = Cardinality(Namers(i))'
        /\ x = NameLink(i, dp, name) /\ y = NameLink(i, dp, name)'
        /\ b = a - x + y
  <2>1. NameLink(i, dp, name) \in Nat /\ NameLink(i, dp, name)' \in Nat
    BY DEF NameLink, Bit
  <2> QED
    BY <2>1, NamersStep
<1>3. PICK c \in Nat, d \in Nat, v \in Nat, w \in Nat :
        /\ c = Cardinality(Subdirs(i)) /\ d = Cardinality(Subdirs(i))'
        /\ v = SubLink(i, dp, name) /\ w = SubLink(i, dp, name)'
        /\ d = c - v + w
  <2>1. SubLink(i, dp, name) \in Nat /\ SubLink(i, dp, name)' \in Nat
    BY DEF SubLink, Bit
  <2>2. entry \in [Inum -> [Name -> Inum \cup {None}]]
    BY DEF TypeOK
  <2> QED
    BY <2>1, <2>2, SubdirsStep
<1>4. PICK e \in Nat, f \in Nat, p \in Nat, q \in Nat :
        /\ e = Cardinality(Pledgers(i)) /\ f = Cardinality(Pledgers(i))'
        /\ p = Bit(Pledges(t, i)) /\ q = Bit(Pledges(t, i))'
        /\ f = e - p + q
  <2>1. Bit(Pledges(t, i)) \in Nat /\ Bit(Pledges(t, i))' \in Nat
    BY DEF Bit
  <2> QED
    BY <2>1, PledgersStep
<1>5. PICK r \in Nat : r = IF i = RootIno THEN 1 ELSE 0
  OBVIOUS
<1>6. Links(i) = a + c + r /\ Links(i)' = b + d + r
  <2>1. Links(i) = Count(i) /\ Links(i)' = Count(i)'
    BY DEF Links, Count, Namers, Subdirs
  <2> QED
    BY <1>2, <1>3, <1>5, <2>1 DEF Count
<1>7. (a + c + r) + e <= n
  BY <1>1, <1>4, <1>6 DEF Covered
<1>8. (y + w + q) + n <= (x + v + p) + m
  BY <1>1, <1>2, <1>3, <1>4 DEF Weight
<1>9. (b + d + r) + f <= m
  BY <1>2, <1>3, <1>4, <1>7, <1>8
<1> QED
  BY <1>1, <1>4, <1>6, <1>9 DEF Covered

(* The same when no entry changes.                                         *)
LEMMA PledgeStep ==
  ASSUME TypeOK, NEW t \in Thread, Only(t), NEW i \in Inum,
         \A d \in Inum : disk'[d].type = disk[d].type, disk' \in [Inum -> Node], entry' = entry,
         Bit(Pledges(t, i))' + disk[i].nlink <= Bit(Pledges(t, i)) + disk'[i].nlink,
         Covered(i)
  PROVE  Covered(i)'
<1>1. PICK name \in FileName : TRUE
  BY InodesAssumption DEF FileName
<1>2. NameLink(i, RootIno, name)' = NameLink(i, RootIno, name)
  BY Constants DEF NameLink, Bit
<1>3. SubLink(i, RootIno, name)' = SubLink(i, RootIno, name)
  <2>1. entry[i][name] \in Inum \cup {None}
    BY DEF TypeOK, FileName
  <2> QED
    BY <2>1 DEF SubLink, Bit
<1>4. PICK x \in Nat, v \in Nat, p \in Nat, q \in Nat :
        /\ x = NameLink(i, RootIno, name) /\ v = SubLink(i, RootIno, name)
        /\ p = Bit(Pledges(t, i)) /\ q = Bit(Pledges(t, i))'
  BY DEF NameLink, SubLink, Bit
<1>5. PICK n \in Nat, m \in Nat : n = disk[i].nlink /\ m = disk'[i].nlink
  BY DEF TypeOK, Node
<1>6. (x + v + q) + n <= (x + v + p) + m
  BY <1>4, <1>5
<1>7. Weight(t, i, RootIno, name)' + disk[i].nlink <= Weight(t, i, RootIno, name) + disk'[i].nlink
  BY <1>2, <1>3, <1>4, <1>5, <1>6 DEF Weight
<1> QED
  BY <1>7, CoverStep, Constants

(* When types are kept, LinkInv is a matter of each inode.                 *)
LEMMA LinkStep ==
  ASSUME TypeOK, LinkInv, \A d \in Inum : disk'[d].type = disk[d].type,
         \A d \in Inum, m \in FileName : entry'[d][m] = entry[d][m] \/ entry'[d][m] = None
                                           \/ disk[entry'[d][m]].type # "free",
         \A d \in Inum, m \in FileName : entry'[d][m] \in Inum \cup {None},
         \A i \in Inum : Covered(i) => Covered(i)'
  PROVE  LinkInv'
<1>1. NoDangling'
  <2>1. SUFFICES ASSUME NEW d \in Inum, NEW m \in FileName, disk'[d].type = "dir", entry'[d][m] # None
                 PROVE  disk'[entry'[d][m]].type # "free"
    BY DEF NoDangling
  <2>2. disk[entry'[d][m]].type # "free" /\ entry'[d][m] \in Inum
    BY <2>1 DEF LinkInv, NoDangling
  <2> QED
    BY <2>2
<1>2. disk'[RootIno].type = "dir"
  BY Constants DEF LinkInv
<1>3. \A i \in Inum : disk'[i].type # "free" => Covered(i)'
  BY DEF LinkInv, Covered
<1> QED
  BY <1>1, <1>2, <1>3 DEF LinkInv, Covered

LEMMA DiskWrite ==
  ASSUME Inv, NEW t \in Thread, Types', Only(t), disk' \in [Inum -> Node],
         entry' \in [Inum -> [Name -> Inum \cup {None}]], FreeInv', LinkInv',
         LocksStep(t), EntryStep(t), DiskStep(t), UsesStep(t), CacheStep(t), TodoStep(t), RefStep(t)
  PROVE  Inv'
<1> USE DEF Inv
<1>1. Steady(t)
  BY DEF Steady
<1>2. ThreadInv' /\ LockInv' /\ SoleInv'
  BY <1>1, StepKeeps DEF Types, ThreadTypes
<1>3. TypeOK'
  BY <1>2, TypeStep
<1>4. RefInv'
  BY <1>2, RefsStep
<1> QED
  BY <1>2, <1>3, <1>4

(* iupdate() of one inode.                                                 *)
LEMMA Written ==
  ASSUME NEW tb \in [Inum -> Entry], disk \in [Inum -> Node], NEW ip \in Inum, NEW nd \in Node,
         NEW new, new = [j \in {ip} |-> nd], Iupdate(tb, new)
  PROVE  /\ table' \in [Inum -> Entry] /\ disk' \in [Inum -> Node] /\ disk'[ip] = nd
         /\ table'[ip].node = nd /\ \A j \in Inum \ {ip} : disk'[j] = disk[j] /\ table'[j] = tb[j]
         /\ \A j \in Inum : table'[j].ref = tb[j].ref /\ table'[j].valid = tb[j].valid
<1>2. DOMAIN new = {ip} /\ new[ip] = nd
  OBVIOUS
<1>3. /\ table' = [i \in Inum |-> IF i = ip THEN [tb[i] EXCEPT !.node = nd] ELSE tb[i]]
      /\ disk' = [i \in Inum |-> IF i = ip THEN nd ELSE disk[i]]
  BY <1>2 DEF Iupdate
<1>4. [tb[ip] EXCEPT !.node = nd] \in Entry
  BY DEF Entry
<1>5. disk' \in [Inum -> Node] /\ disk'[ip] = nd /\ \A j \in Inum \ {ip} : disk'[j] = disk[j]
  BY <1>3
<1>6. PICK e \in Entry : e = [tb[ip] EXCEPT !.node = nd]
  BY <1>4
<1>7. e.node = nd /\ e.ref = tb[ip].ref /\ e.valid = tb[ip].valid
  BY <1>6 DEF Entry
<1>8. table' \in [Inum -> Entry] /\ table'[ip] = e /\ \A j \in Inum \ {ip} : table'[j] = tb[j]
  BY <1>3, <1>6
<1> QED
  BY <1>5, <1>7, <1>8

(* What a call in progress has counted, or an entry names, has a link.     *)
LEMMA PledgedLink ==
  ASSUME TypeOK, LinkInv, NEW t \in Thread, NEW i \in Inum, disk[i].type # "free",
         Pledges(t, i) \/ Named(i)
  PROVE  disk[i].nlink \in Nat \ {0}
<1>1. disk[i].nlink \in Nat
  BY DEF TypeOK, Node
<1>2. SUFFICES ASSUME disk[i].nlink = 0 PROVE FALSE
  BY <1>1
<1> QED
  BY <1>2, Unlinkable

LEMMA FreeKept ==
  ASSUME FreeInv, entry' = entry, NEW ip \in Inum, disk[ip].type # "free", disk'[ip].type = disk[ip].type,
         \A j \in Inum \ {ip} : disk'[j] = disk[j]
  PROVE  FreeInv'
BY DEF FreeInv, NoEntry

LEMMA UnlinkedInv ==
  ASSUME Inv, NEW t \in Thread, Unlinked(t)
  PROVE  Inv'
<1> USE DEF Inv
<1>1. /\ At(t, "unlinked") /\ entry' = entry /\ cwd' = cwd /\ ofile' = ofile /\ rest' = rest /\ calls' = calls
      /\ Iupdate(table, [j \in {Ref(t, 1)} |-> [table[Ref(t, 1)].node EXCEPT !.nlink = @ - 1]])
      /\ holder' = [holder EXCEPT ![Ref(t, 1)] = None] /\ Continue(t, <<Put(Ref(t, 1))>>)
  BY DEF Unlinked, Unlock, files
<1>2. /\ todo[t] # <<>> /\ Instruction(t).do = "unlinked" /\ Ref(t, 1) \in Inum
      /\ Instruction(t) \in Left(t) /\ Left(t) = {Instruction(t)} \cup Later(t)
      /\ \A j : Needs(Instruction(t), j) <=> j = Ref(t, 1)
      /\ Backed(t, Instruction(t)) /\ Owned(Instruction(t)) = Ref(t, 1)
  BY <1>1, HeldAt
<1>3. PICK ip \in Inum : ip = Ref(t, 1)
  BY <1>2
<1>4. Later(t) = {}
  BY <1>2 DEF ThreadInv, Chained, Puts
<1>5. disk[ip].type # "free" /\ table[ip].valid /\ table[ip].node = disk[ip]
  <2>1. disk[ip].type # "free" /\ table[ip].valid
    BY <1>2, <1>3 DEF Backed, Ref
  <2> QED
    BY <1>2, <1>3, <2>1, OwnedDisk
<1>6. Pledges(t, ip) /\ \A i \in Inum : Pledges(t, i) => i = ip
  <2>1. Pledged(Instruction(t)) = ip
    BY <1>2, <1>3 DEF Pledged, Ref
  <2> QED
    BY <1>2, <1>4, <2>1 DEF Pledges
<1>7. PICK n \in Nat \ {0} : n = disk[ip].nlink
  BY <1>5, <1>6, PledgedLink
<1>8. PICK nd : nd = [disk[ip] EXCEPT !.nlink = n - 1]
  OBVIOUS
<1>9. nd \in Node /\ nd.type = disk[ip].type /\ nd.nlink = n - 1
  <2>1. disk[ip] \in Node /\ n - 1 \in Nat
    BY <1>7 DEF TypeOK
  <2> QED
    BY <1>8, <2>1 DEF Node
<1>10. PICK new : new = [j \in {ip} |-> nd] /\ Iupdate(table, new)
  BY <1>1, <1>3, <1>5, <1>7, <1>8
<1>11. table \in [Inum -> Entry] /\ disk \in [Inum -> Node]
  BY DEF TypeOK, Entry
<1>12. /\ table' \in [Inum -> Entry] /\ disk' \in [Inum -> Node] /\ disk'[ip] = nd
       /\ table'[ip].node = nd /\ \A j \in Inum \ {ip} : disk'[j] = disk[j] /\ table'[j] = table[j]
       /\ \A j \in Inum : table'[j].ref = table[j].ref /\ table'[j].valid = table[j].valid
  BY <1>9, <1>10, <1>11, Written
<1>13. PICK x : x = Put(ip)
  OBVIOUS
<1>14. /\ x \in Instr /\ x.do = "put" /\ Len(x.refs) = 1 /\ x.refs[1] = ip
       /\ \A j : Needs(x, j) <=> j = ip
       /\ Pledged(x) = None /\ Owned(x) = None
  BY <1>13, PutIs
<1>15. Continue(t, <<x>>)
  BY <1>1, <1>3, <1>13
<1>16. holder' \in [Inum -> Thread \cup {None}] /\ holder'[ip] = None /\ \A i \in Inum \ {ip} : holder'[i] = holder[i]
  BY <1>1, <1>3 DEF TypeOK
<1>17. Backed(t, x)'
  BY <1>5, <1>9, <1>12, <1>14 DEF Backed
<1>18. /\ ThreadTypes' /\ Only(t) /\ TodoStep(t)
       /\ \A i \in Inum : Own(t, i)' = Own(t, i)
       /\ \A i : Held(t, i)' = Held(t, i)
       /\ \A i \in Inum : /\ Works(t, i)' = Works(t, i)
                          /\ \A y \in Left(t)' : Needs(y, i) => Uses(t, i) \/ (i = Ref(t, 1) /\ y = x)
                          /\ Pledges(t, i)' => Pledges(t, i)
  <2>1. \A i \in Inum : holder'[i] = t => holder[i] = t \/ Owned(x) = i
    BY <1>16, Constants
  <2>2. holder'[Ref(t, 1)] # t
    BY <1>3, <1>16, Constants
  <2>3. x.do \in Puts /\ x.do \notin {"free", "freed"} /\ "unlinked" \in Puts \cup {"unlockput", "made", "unlinked"}
    BY <1>14 DEF Puts
  <2> QED
    BY <1>1, <1>3, <1>14, <1>15, <1>16, <1>17, <2>1, <2>2, <2>3, GoesOnWith
<1>19. \A i \in Inum : ~Pledges(t, i)'
  <2>1. Left(t)' = {x}
    BY <1>2, <1>4, <1>14, <1>15, Continued1
  <2> QED
    BY <1>14, <2>1, Constants DEF Pledges
<1>20. \A i \in Inum : disk'[i].type = disk[i].type
  BY <1>9, <1>12
<1>21. LinkInv'
  <2>1. ASSUME NEW i \in Inum, Covered(i) PROVE Covered(i)'
    <3>1. Bit(Pledges(t, i))' + disk[i].nlink <= Bit(Pledges(t, i)) + disk'[i].nlink
      <4>1. Bit(Pledges(t, i))' = 0
        BY <1>19 DEF Bit
      <4>2. CASE i = ip
        <5>1. Bit(Pledges(t, i)) = 1 /\ disk'[i].nlink = n - 1 /\ disk[i].nlink = n
          BY <1>6, <1>7, <1>9, <1>12, <4>2 DEF Bit
        <5> QED
          BY <1>7, <4>1, <5>1
      <4>3. CASE i # ip
        <5>1. Bit(Pledges(t, i)) = 0 /\ disk'[i] = disk[i]
          BY <1>6, <1>12, <4>3 DEF Bit
        <5>2. disk[i].nlink \in Nat
          BY DEF TypeOK, Node
        <5> QED
          BY <4>1, <5>1, <5>2
      <4> QED
        BY <4>2, <4>3
    <3> QED
      BY <1>1, <1>12, <1>18, <1>20, <2>1, <3>1, PledgeStep
  <2>2. \A d \in Inum, m \in FileName : entry'[d][m] = entry[d][m] /\ entry[d][m] \in Inum \cup {None}
    BY <1>1 DEF TypeOK, FileName
  <2> QED
    BY <1>20, <2>1, <2>2, LinkStep
<1>22. FreeInv'
  BY <1>1, <1>5, <1>9, <1>12, FreeKept
<1>23. Mine(t, ip) /\ Uses(t, ip) /\ ~At(t, "freed")
  BY <1>2, <1>3 DEF Mine, Uses, At
<1>24. LocksStep(t) /\ EntryStep(t)
  BY <1>1, <1>16, <1>23 DEF LocksStep, EntryStep
<1>25. DiskStep(t)
  BY <1>12, <1>20, <1>23 DEF DiskStep
<1>26. CacheStep(t)
  <2>1. ASSUME NEW i \in Inum
        PROVE  /\ table'[i].valid =>
                    \/ table'[i].node = disk'[i] /\ disk'[i].type # "free"
                    \/ table[i].valid /\ table'[i].node = table[i].node /\ disk'[i] = disk[i]
               /\ table[i].valid => table'[i].valid
    BY <1>5, <1>9, <1>12
  <2> QED
    BY <1>23, <2>1 DEF CacheStep
<1>27. UsesStep(t)
  <2>1. ASSUME NEW i \in Inum, Uses(t, i)' PROVE Uses(t, i)
    BY <1>3, <1>18, <1>23, <2>1 DEF Uses
  <2> QED
    BY <1>18, <2>1 DEF UsesStep
<1>28. RefStep(t)
  <2>1. ASSUME NEW i \in Inum
        PROVE  \E o \in Nat, m \in Nat : /\ Held(t, i)' = Held(t, i) - o + m
                                         /\ table'[i].ref = table[i].ref - o + m
    <3>1. PICK h \in Nat, s \in Nat, o \in Nat : h = Held(t, i) /\ s = table[i].ref /\ o = 0
      BY Numbers DEF TypeOK
    <3>2. Held(t, i)' = h - o + o /\ table'[i].ref = s - o + o
      BY <1>12, <1>18, <3>1
    <3> QED
      BY <3>1, <3>2
  <2> QED
    BY <1>18, <2>1, RefMoved
<1>29. Types'
  BY <1>12, <1>18 DEF Types
<1>30. entry' \in [Inum -> [Name -> Inum \cup {None}]]
  BY <1>1 DEF TypeOK
<1> QED
  BY <1>12, <1>18, <1>21, <1>22, <1>24, <1>25, <1>26, <1>27, <1>28, <1>29, <1>30, DiskWrite

(* A step that locks ip, writes it and unlocks it.                         *)
LEMMA LockedWrite ==
  ASSUME Inv, NEW t \in Thread, NEW do \in Locking \ {"created", "victim"}, Locks(t, do),
         NEW ip \in Inum, ip = Ref(t, 1), NEW k \in Inum \cup {None}, k = None \/ Uses(t, k) \/ k = RootIno,
         NEW nd \in Node, nd.type = disk[ip].type,
         NEW tb, tb = Table(ip, k), NEW new, new = [j \in {ip} |-> nd], Iupdate(tb, new),
         entry' = entry, holder' = holder, cwd' = cwd, ofile' = ofile,
         ThreadTypes', Only(t), TodoStep(t),
         \A i \in Inum : Works(t, i)' => Uses(t, i),
         \A i \in Inum, x \in Left(t)' : Needs(x, i) => Uses(t, i) \/ i = k,
         Gains(t, k),
         \A i \in Inum : Bit(Pledges(t, i))' + disk[i].nlink
                           <= Bit(Pledges(t, i)) + (IF i = ip THEN nd.nlink ELSE disk[i].nlink)
  PROVE  Inv'
<1> USE DEF Inv
<1>1. /\ todo[t] # <<>> /\ Instruction(t).do = do /\ Uses(t, ip) /\ holder[ip] = None /\ disk[ip].type # "free"
  BY AtLock
<1>2. /\ tb \in [Inum -> Entry] /\ tb[ip].valid /\ tb[ip].node = disk[ip]
      /\ \A j \in Inum : /\ tb[j].ref = table[j].ref + (IF j = k THEN 1 ELSE 0)
                         /\ j # ip => tb[j].valid = table[j].valid /\ tb[j].node = table[j].node
  BY <1>1, TableIs
<1>3. /\ table' \in [Inum -> Entry] /\ disk' \in [Inum -> Node] /\ disk'[ip] = nd
      /\ table'[ip].node = nd /\ \A j \in Inum \ {ip} : disk'[j] = disk[j] /\ table'[j] = tb[j]
      /\ \A j \in Inum : table'[j].ref = tb[j].ref /\ table'[j].valid = tb[j].valid
  <2>1. disk \in [Inum -> Node] /\ tb \in [Inum -> Entry] /\ ip \in Inum /\ nd \in Node
    BY <1>2 DEF TypeOK
  <2>2. new = [j \in {ip} |-> nd] /\ Iupdate(tb, new)
    OBVIOUS
  <2> QED
    BY ONLY <2>1, <2>2, Written
<1>4. ~At(t, "freed") /\ ~At(t, "free")
  BY <1>1 DEF At, Locking
<1>5. \A i \in Inum : disk'[i].type = disk[i].type
  BY <1>3
<1>6. LinkInv'
  <2>1. ASSUME NEW i \in Inum, Covered(i) PROVE Covered(i)'
    <3>1. disk'[i].nlink = IF i = ip THEN nd.nlink ELSE disk[i].nlink
      BY <1>3
    <3>2. Bit(Pledges(t, i))' + disk[i].nlink <= Bit(Pledges(t, i)) + disk'[i].nlink
      BY <3>1
    <3> QED
      BY <1>3, <1>5, <2>1, <3>2, PledgeStep
  <2>2. \A d \in Inum, m \in FileName : entry'[d][m] = entry[d][m] /\ entry[d][m] \in Inum \cup {None}
    BY DEF TypeOK, FileName
  <2> QED
    BY <1>5, <2>1, <2>2, LinkStep
<1>7. FreeInv'
  BY <1>1, <1>3, FreeKept
<1>8. LocksStep(t) /\ EntryStep(t)
  BY DEF LocksStep, EntryStep
<1>9. DiskStep(t)
  BY <1>1, <1>3, <1>5 DEF DiskStep
<1>10. CacheStep(t)
  <2>1. ASSUME NEW i \in Inum
        PROVE  /\ table'[i].valid =>
                    \/ table'[i].node = disk'[i] /\ disk'[i].type # "free"
                    \/ table[i].valid /\ table'[i].node = table[i].node /\ disk'[i] = disk[i]
               /\ table[i].valid => table'[i].valid
    BY <1>1, <1>2, <1>3
  <2> QED
    BY <1>4, <2>1 DEF CacheStep
<1>11. UsesStep(t)
  <2>1. \A i \in Inum : Uses(t, i)' => Uses(t, i) \/ i = k
    BY DEF Uses
  <2> QED
    BY <1>4, <2>1, Constants DEF UsesStep
<1>12. RefStep(t)
  <2>1. \A i \in Inum : table'[i].ref = table[i].ref + (IF i = k THEN 1 ELSE 0)
    BY <1>2, <1>3
  <2> QED
    BY <2>1, GainedRefs
<1>13. Types' /\ entry' \in [Inum -> [Name -> Inum \cup {None}]]
  BY <1>3 DEF Types, TypeOK
<1> QED
  BY <1>3, <1>6, <1>7, <1>8, <1>9, <1>10, <1>11, <1>12, <1>13, DiskWrite

LEMMA BadLinkInv ==
  ASSUME Inv, NEW t \in Thread, BadLink(t)
  PROVE  Inv'
<1> USE DEF Inv
<1>1. /\ Locks(t, "badlink") /\ entry' = entry /\ holder' = holder /\ cwd' = cwd /\ ofile' = ofile
      /\ rest' = rest /\ calls' = calls /\ Continue(t, <<Put(Ref(t, 1))>>)
      /\ Iupdate(Ilock(Ref(t, 1)), [j \in {Ref(t, 1)} |-> [Loaded(Ref(t, 1)) EXCEPT !.nlink = @ - 1]])
  BY DEF BadLink, files
<1>2. "badlink" \in Locking \ {"created", "victim"} /\ "badlink" \in Locking
  BY DEF Locking
<1>3. /\ todo[t] # <<>> /\ Instruction(t).do = "badlink" /\ Later(t) = {} /\ Left(t) = {Instruction(t)}
      /\ Ref(t, 1) \in Inum /\ Uses(t, Ref(t, 1)) /\ Needs(Instruction(t), Ref(t, 1))
      /\ disk[Ref(t, 1)].type # "free" /\ Loaded(Ref(t, 1)) = disk[Ref(t, 1)]
      /\ Len(Instruction(t).refs) \in {1, 2} /\ Shaped(t, Instruction(t))
  BY <1>1, <1>2, AtLock
<1>4. PICK ip \in Inum : ip = Ref(t, 1)
  BY <1>3
<1>5. Pledges(t, ip) /\ \A i \in Inum : Pledges(t, i) => i = ip
  <2>1. Pledged(Instruction(t)) = ip
    BY <1>3, <1>4 DEF Pledged, Ref
  <2> QED
    BY <1>3, <2>1 DEF Pledges
<1>6. PICK n \in Nat \ {0} : n = disk[ip].nlink
  BY <1>3, <1>4, <1>5, PledgedLink
<1>7. PICK nd : nd = [disk[ip] EXCEPT !.nlink = n - 1]
  OBVIOUS
<1>8. nd \in Node /\ nd.type = disk[ip].type /\ nd.nlink = n - 1
  <2>1. disk[ip] \in Node /\ n - 1 \in Nat
    BY <1>6 DEF TypeOK
  <2> QED
    BY <1>7, <2>1 DEF Node
<1>9. PICK tb : tb = Table(ip, None)
  OBVIOUS
<1>10. PICK new : new = [j \in {ip} |-> nd] /\ Iupdate(tb, new)
  <2>1. tb = Ilock(ip)
    BY <1>9 DEF Table
  <2> QED
    BY <1>1, <1>3, <1>4, <1>6, <1>7, <2>1
<1>11. PICK x : x = Put(ip)
  OBVIOUS
<1>12. /\ x \in Instr /\ x.do = "put" /\ Len(x.refs) = 1 /\ x.refs[1] = ip
       /\ \A j : Needs(x, j) <=> j = ip
       /\ \A j : Occurs(x, j) = IF j = ip THEN 1 ELSE 0
       /\ Pledged(x) = None /\ Owned(x) = None
  BY <1>11, PutIs
<1>13. /\ todo' \in [Thread -> Seq(Instr)] /\ \A u \in Thread \ {t} : todo'[u] = todo[u]
       /\ call' \in [Thread -> Call \cup {None}] /\ \A u \in Thread \ {t} : call'[u] = call[u]
       /\ Len(todo'[t]) \in {0, 1, 2} /\ Left(t)' = {x} /\ Later(t)' = {}
       /\ call'[t] = call[t] /\ Instruction(t)' = x
       /\ \A i : Held(t, i)' = Held(t, i) - Occurs(Instruction(t), i) + Occurs(x, i)
  <2>1. Continue(t, <<x>>)
    BY <1>1, <1>4, <1>11
  <2> QED
    BY <1>3, <1>12, <2>1, Continued1
<1>14. ThreadTypes' /\ Only(t)
  <2>1. rest \in [Thread -> Seq(FileName)]
    BY DEF ThreadInv
  <2> QED
    BY <1>1, <1>13, <2>1, ThreadOnly
<1>15. ~Leaving(t) /\ ~Leaving(t)' /\ \A i \in Inum : holder[i] # t
  BY <1>1, <1>2, <1>12, <1>13, NoneLocked DEF Leaving
<1>16. disk'[ip].type # "free"
  <2>1. disk' = [i \in Inum |-> IF i \in {ip} THEN nd ELSE disk[i]]
    BY <1>10 DEF Iupdate
  <2> QED
    BY <1>3, <1>4, <1>8, <2>1
<1>17. Shaped(t, x)' /\ Backed(t, x)'
  BY <1>12, <1>16 DEF Shaped, Backed
<1>18. TodoStep(t)
  BY <1>1, <1>12, <1>13, <1>15, <1>17 DEF TodoStep, Chained, Secret, At
<1>19. (\A i \in Inum : Own(t, i)' = Own(t, i)) /\ (\A i \in Inum : Works(t, i)' = Works(t, i))
  BY <1>1, <1>15 DEF Own, Works
<1>20. \A i \in Inum, y \in Left(t)' : Needs(y, i) => Uses(t, i) \/ i = None
  BY <1>3, <1>4, <1>12, <1>13
<1>21. Gains(t, None)
  <2>1. ASSUME NEW i \in Inum
        PROVE  \E o \in Nat, m \in Nat :
                  /\ o = Occurs(Instruction(t), i) /\ Held(t, i)' = Held(t, i) - o + m
                  /\ m = o + (IF i = None THEN 1 ELSE 0)
    <3>1. PICK o \in Nat : o = IF i = ip THEN 1 ELSE 0
      OBVIOUS
    <3>2. o = Occurs(Instruction(t), i)
      BY <1>3, <1>4, <3>1 DEF Occurs, Ref, Shaped
    <3>3. o = Occurs(x, i)
      BY <1>12, <3>1
    <3>4. i # None /\ o = o + 0
      BY Constants
    <3>5. Held(t, i)' = Held(t, i) - o + o
      BY <1>13, <3>2, <3>3
    <3> QED
      BY <3>2, <3>4, <3>5
  <2> QED
    BY <1>19, <2>1, Gained DEF HeldGain
<1>22. ASSUME NEW i \in Inum
       PROVE  Bit(Pledges(t, i))' + disk[i].nlink
                <= Bit(Pledges(t, i)) + (IF i = ip THEN nd.nlink ELSE disk[i].nlink)
  <2>1. Bit(Pledges(t, i))' = 0
    BY <1>12, <1>13, Constants DEF Pledges, Bit
  <2>2. CASE i = ip
    <3>1. Bit(Pledges(t, i)) = 1
      BY <1>5, <2>2 DEF Bit
    <3> QED
      BY <1>6, <1>8, <2>1, <2>2, <3>1
  <2>3. CASE i # ip
    <3>1. Bit(Pledges(t, i)) = 0 /\ disk[i].nlink \in Nat
      BY <1>5, <2>3 DEF Bit, TypeOK, Node
    <3> QED
      BY <2>1, <2>3, <3>1
  <2> QED
    BY <2>2, <2>3
<1>23. \A i \in Inum : Works(t, i)' => Uses(t, i)
  BY <1>19 DEF Uses
<1> QED
  BY <1>1, <1>2, <1>4, <1>8, <1>9, <1>10, <1>14, <1>18, <1>20, <1>21, <1>22, <1>23, LockedWrite

LEMMA LinkDoes ==
  ASSUME NoDots, Inv, NEW t \in Thread, Locks(t, "link"),
         NEW ip \in Inum, ip = Ref(t, 1), disk[ip].type # "dir",
         NEW s, s = Start(t, call[t].new),
         Iupdate(Iget(Ilock(ip), s), [j \in {ip} |-> Counted(disk[ip])]),
         Continue(t, <<I("walkparent", <<s, ip>>)>>), rest' = [rest EXCEPT ![t] = call[t].new.elems],
         entry' = entry, holder' = holder, cwd' = cwd, ofile' = ofile, calls' = calls
  PROVE  Inv'
<1> USE DEF Inv
<1>2. "link" \in Locking \ {"created", "victim"} /\ "link" \in Locking
  BY DEF Locking
<1>3. /\ todo[t] # <<>> /\ Instruction(t).do = "link" /\ Later(t) = {} /\ Left(t) = {Instruction(t)}
      /\ Uses(t, ip) /\ disk[ip].type # "free"
      /\ Len(Instruction(t).refs) \in {1, 2} /\ Shaped(t, Instruction(t))
  BY <1>2, AtLock
<1>4. call[t] \in Call /\ call[t].kind = "link" /\ Len(Instruction(t).refs) = 1
  BY <1>3 DEF Shaped
<1>5. call[t].new \in Path /\ call[t].new.elems \in Seq(FileName) /\ call[t].new.elems # <<>>
  BY <1>4, PathElems DEF Call
<1>6. \A i \in Inum : ~Pledges(t, i)
  BY <1>3, Constants DEF Pledges, Pledged
<1>7. PICK n \in Nat : n = disk[ip].nlink
  BY DEF TypeOK, Node
<1>8. PICK nd : nd = Counted(disk[ip])
  OBVIOUS
<1>9. nd \in Node /\ nd.type = disk[ip].type /\ nd.nlink = n + 1 /\ nd.type = "file"
  <2>1. disk[ip] \in Node /\ n + 1 \in Nat
    BY <1>7 DEF TypeOK
  <2>2. nd = [disk[ip] EXCEPT !.nlink = n + 1]
    BY <1>7, <1>8 DEF Counted
  <2> QED
    BY <1>3, <2>1, <2>2 DEF Node
<1>10. s \in Inum /\ (s = RootIno \/ s = cwd[t])
  <2>1. cwd[t] \in Inum
    BY DEF TypeOK
  <2> QED
    BY <2>1, Constants DEF Start
<1>11. PICK tb : tb = Table(ip, s)
  OBVIOUS
<1>12. PICK new : new = [j \in {ip} |-> nd] /\ Iupdate(tb, new)
  <2>1. tb = Iget(Ilock(ip), s)
    BY <1>10, <1>11, Constants DEF Table
  <2> QED
    BY <1>8, <2>1
<1>13. PICK x : x = I("walkparent", <<s, ip>>)
  OBVIOUS
<1>14. /\ x \in Instr /\ x.do = "walkparent" /\ Len(x.refs) = 2 /\ x.refs[1] = s /\ x.refs[2] = ip
       /\ \A k : Needs(x, k) <=> k = s \/ k = ip
       /\ \A k : Occurs(x, k) = (IF k = s THEN 1 ELSE 0) + (IF k = ip THEN 1 ELSE 0)
       /\ Owned(x) = None /\ Pledged(x) = ip
  BY <1>10, <1>13, Pair
<1>15. /\ todo' \in [Thread -> Seq(Instr)] /\ \A u \in Thread \ {t} : todo'[u] = todo[u]
       /\ call' \in [Thread -> Call \cup {None}] /\ \A u \in Thread \ {t} : call'[u] = call[u]
       /\ Len(todo'[t]) \in {0, 1, 2} /\ Left(t)' = {x} /\ Later(t)' = {}
       /\ call'[t] = call[t] /\ Instruction(t)' = x
       /\ \A i : Held(t, i)' = Held(t, i) - Occurs(Instruction(t), i) + Occurs(x, i)
  <2>1. Continue(t, <<x>>)
    BY <1>13
  <2> QED
    BY <1>3, <1>14, <2>1, Continued1
<1>16. /\ rest' \in [Thread -> Seq(FileName)] /\ rest'[t] # <<>>
       /\ \A u \in Thread \ {t} : rest'[u] = rest[u]
  <2>1. rest \in [Thread -> Seq(FileName)]
    BY DEF ThreadInv
  <2> QED
    BY <1>5, <2>1
<1>17. ThreadTypes' /\ Only(t)
  BY <1>15, <1>16, ThreadOnly
<1>18. ~Leaving(t) /\ ~Leaving(t)' /\ \A i \in Inum : holder[i] # t
  BY <1>2, <1>14, <1>15, NoneLocked DEF Leaving
<1>19. disk'[ip] = nd /\ \A i \in Inum \ {ip} : disk'[i] = disk[i]
  <2>1. disk' = [i \in Inum |-> IF i \in {ip} THEN nd ELSE disk[i]]
    BY <1>12 DEF Iupdate
  <2> QED
    BY <2>1
<1>20. Uses(t, s) \/ s = RootIno
  BY <1>10, <1>18 DEF Uses, Works
<1>21. disk[s].type # "free"
  BY <1>10, <1>20, Allocated
<1>22. Shaped(t, x)'
  BY <1>4, <1>14, <1>15, <1>16 DEF Shaped
<1>23. Backed(t, x)'
  <2>1. disk'[s].type # "free" /\ disk'[ip].type = "file"
    BY <1>9, <1>10, <1>19, <1>21
  <2> QED
    BY <1>14, <2>1 DEF Backed
<1>24. TodoStep(t)
  BY <1>14, <1>15, <1>18, <1>22, <1>23 DEF TodoStep, Chained, Secret, At
<1>25. (\A i \in Inum : Own(t, i)' = Own(t, i)) /\ (\A i \in Inum : Works(t, i)' = Works(t, i))
  BY <1>18 DEF Own, Works
<1>26. \A i \in Inum, y \in Left(t)' : Needs(y, i) => Uses(t, i) \/ i = s
  BY <1>3, <1>14, <1>15
<1>27. Gains(t, s)
  <2>1. ASSUME NEW i \in Inum
        PROVE  \E o \in Nat, m \in Nat :
                  /\ o = Occurs(Instruction(t), i) /\ Held(t, i)' = Held(t, i) - o + m
                  /\ m = o + (IF i = s THEN 1 ELSE 0)
    <3>1. PICK o \in Nat, e \in Nat, m \in Nat :
            o = (IF i = ip THEN 1 ELSE 0) /\ e = (IF i = s THEN 1 ELSE 0) /\ m = o + e
      OBVIOUS
    <3>2. o = Occurs(Instruction(t), i)
      BY <1>4, <3>1 DEF Occurs, Ref
    <3>3. m = Occurs(x, i)
      BY <1>14, <3>1
    <3> QED
      BY <1>15, <3>1, <3>2, <3>3
  <2> QED
    BY <1>25, <2>1, Gained DEF HeldGain
<1>28. ASSUME NEW i \in Inum
       PROVE  Bit(Pledges(t, i))' + disk[i].nlink
                <= Bit(Pledges(t, i)) + (IF i = ip THEN nd.nlink ELSE disk[i].nlink)
  <2>1. Bit(Pledges(t, i)) = 0
    BY <1>6 DEF Bit
  <2>2. CASE i = ip
    <3>1. Bit(Pledges(t, i))' \in {0, 1}
      BY DEF Bit
    <3> QED
      BY <1>7, <1>9, <2>1, <2>2, <3>1
  <2>3. CASE i # ip
    <3>1. Bit(Pledges(t, i))' = 0 /\ disk[i].nlink \in Nat
      BY <1>14, <1>15, <2>3 DEF Pledges, Bit, TypeOK, Node
    <3> QED
      BY <2>1, <2>3, <3>1
  <2> QED
    BY <2>2, <2>3
<1>29. \A i \in Inum : Works(t, i)' => Uses(t, i)
  BY <1>25 DEF Uses
<1> QED
  BY <1>2, <1>9, <1>10, <1>11, <1>12, <1>17, <1>20, <1>24, <1>26, <1>27, <1>28, <1>29, LockedWrite

LEMMA LinkInvKept ==
  ASSUME NoDots, Inv, NEW t \in Thread, Link(t)
  PROVE  Inv'
<1> USE DEF Inv
<1>1. /\ Locks(t, "link") /\ entry' = entry /\ holder' = holder /\ cwd' = cwd /\ ofile' = ofile /\ calls' = calls
      /\ \/ /\ table' = Ilock(Ref(t, 1)) /\ Continue(t, <<Put(Ref(t, 1))>>) /\ disk' = disk /\ rest' = rest
         \/ /\ Loaded(Ref(t, 1)).type # "dir"
            /\ Iupdate(Iget(Ilock(Ref(t, 1)), Start(t, call[t].new)),
                       [j \in {Ref(t, 1)} |-> Counted(Loaded(Ref(t, 1)))])
            /\ Continue(t, <<I("walkparent", <<Start(t, call[t].new), Ref(t, 1)>>)>>)
            /\ rest' = [rest EXCEPT ![t] = call[t].new.elems]
  BY DEF Link, files
<1>2. "link" \in Locking \ {"created", "victim"} /\ "link" \in Locking
  BY DEF Locking
<1>3. /\ Ref(t, 1) \in Inum /\ Loaded(Ref(t, 1)) = disk[Ref(t, 1)]
      /\ Shaped(t, Instruction(t)) /\ Instruction(t).do = "link"
  BY <1>1, <1>2, AtLock
<1>4. CASE table' = Ilock(Ref(t, 1)) /\ Continue(t, <<Put(Ref(t, 1))>>) /\ disk' = disk /\ rest' = rest
  <2>1. Inside(t)
    BY <1>1, <1>4 DEF Inside, RestStep, ThreadInv
  <2>2. Len(Instruction(t).refs) = 1
    BY <1>3 DEF Shaped
  <2> QED
    BY <1>1, <1>2, <1>4, <2>1, <2>2, GivenUp
<1>5. CASE /\ Loaded(Ref(t, 1)).type # "dir"
           /\ Iupdate(Iget(Ilock(Ref(t, 1)), Start(t, call[t].new)),
                      [j \in {Ref(t, 1)} |-> Counted(Loaded(Ref(t, 1)))])
           /\ Continue(t, <<I("walkparent", <<Start(t, call[t].new), Ref(t, 1)>>)>>)
           /\ rest' = [rest EXCEPT ![t] = call[t].new.elems]
  <2>1. PICK ip \in Inum : ip = Ref(t, 1)
    BY <1>3
  <2>2. PICK s : s = Start(t, call[t].new)
    OBVIOUS
  <2>3. /\ Iupdate(Iget(Ilock(ip), s), [j \in {ip} |-> Counted(disk[ip])])
        /\ Continue(t, <<I("walkparent", <<s, ip>>)>>) /\ disk[ip].type # "dir"
    BY <1>3, <1>5, <2>1, <2>2
  <2> QED
    BY <1>1, <1>5, <2>1, <2>2, <2>3, LinkDoes
<1> QED
  BY <1>1, <1>4, <1>5

LEMMA LinkToDoes ==
  ASSUME NoDots, Inv, NEW t \in Thread, Locks(t, "linkto"),
         NEW dp \in Inum, dp = Ref(t, 1), NEW ip \in Inum, ip = Ref(t, 2),
         NEW name \in FileName, entry[dp][name] = None, entry' = [entry EXCEPT ![dp][name] = ip],
         table' = Ilock(dp), Continue(t, <<Put(dp), Put(ip)>>),
         disk' = disk, holder' = holder, cwd' = cwd, ofile' = ofile, rest' = rest, calls' = calls
  PROVE  Inv'
<1> USE DEF Inv
<1>1. "linkto" \in Locking \ {"created", "victim"} /\ "linkto" \in Locking
  BY DEF Locking
<1>2. /\ todo[t] # <<>> /\ Instruction(t).do = "linkto" /\ Later(t) = {} /\ Left(t) = {Instruction(t)}
      /\ Uses(t, dp) /\ disk[dp].type # "free" /\ holder[dp] = None /\ Instruction(t) \in Instr
      /\ Shaped(t, Instruction(t)) /\ Backed(t, Instruction(t)) /\ Len(todo[t]) = 1
  BY <1>1, AtLock
<1>3. /\ Len(Instruction(t).refs) = 2 /\ disk[dp].type = "dir" /\ disk[ip].type = "file" /\ dp # ip
      /\ \A j : Needs(Instruction(t), j) <=> j = dp \/ j = ip
      /\ \A j : Occurs(Instruction(t), j) = (IF j = dp THEN 1 ELSE 0) + (IF j = ip THEN 1 ELSE 0)
      /\ Pledged(Instruction(t)) = ip
  <2>1. Len(Instruction(t).refs) = 2
    BY <1>2 DEF Shaped
  <2>2. disk[dp].type = "dir" /\ disk[ip].type = "file"
    BY <1>2, <2>1 DEF Backed, Ref
  <2>3. \A j : Needs(Instruction(t), j) <=> j = dp \/ j = ip
    BY <1>2, <2>1, Refs DEF Ref
  <2>4. \A j : Occurs(Instruction(t), j) = (IF j = dp THEN 1 ELSE 0) + (IF j = ip THEN 1 ELSE 0)
    BY <2>1 DEF Occurs, Ref
  <2>5. Pledged(Instruction(t)) = ip
    BY <1>2, <2>1 DEF Pledged, Ref
  <2> QED
    BY <2>1, <2>2, <2>3, <2>4, <2>5
<1>4. PICK x : x = Put(dp)
  OBVIOUS
<1>5. PICK y : y = Put(ip)
  OBVIOUS
<1>6. /\ x \in Instr /\ x.do = "put" /\ Len(x.refs) = 1 /\ x.refs[1] = dp
      /\ \A j : Needs(x, j) <=> j = dp
      /\ \A j : Occurs(x, j) = IF j = dp THEN 1 ELSE 0
      /\ Pledged(x) = None /\ Owned(x) = None
  BY <1>4, PutIs
<1>7. /\ y \in Instr /\ y.do = "put" /\ Len(y.refs) = 1 /\ y.refs[1] = ip
      /\ \A j : Needs(y, j) <=> j = ip
      /\ \A j : Occurs(y, j) = IF j = ip THEN 1 ELSE 0
      /\ Pledged(y) = None /\ Owned(y) = None
  BY <1>5, PutIs
<1>8. /\ todo' \in [Thread -> Seq(Instr)] /\ \A u \in Thread \ {t} : todo'[u] = todo[u]
      /\ call' \in [Thread -> Call \cup {None}] /\ \A u \in Thread \ {t} : call'[u] = call[u]
      /\ Len(todo'[t]) \in {0, 1, 2} /\ Left(t)' = {x, y} /\ Later(t)' = {y}
      /\ call'[t] = call[t] /\ Instruction(t)' = x
      /\ \A i : Held(t, i)' = Held(t, i) - Occurs(Instruction(t), i) + Occurs(x, i) + Occurs(y, i)
  <2>1. Continue(t, <<x, y>>)
    BY <1>4, <1>5
  <2> QED
    BY <1>2, <1>6, <1>7, <2>1, Continued2
<1>9. ThreadTypes' /\ Only(t)
  <2>1. rest \in [Thread -> Seq(FileName)]
    BY DEF ThreadInv
  <2> QED
    BY <1>8, <2>1, ThreadOnly
<1>10. ~Leaving(t) /\ ~Leaving(t)' /\ \A i \in Inum : holder[i] # t
  BY <1>1, <1>6, <1>7, <1>8, NoneLocked DEF Leaving
<1>11. Shaped(t, x)' /\ Backed(t, x)' /\ Shaped(t, y)' /\ Backed(t, y)'
  BY <1>3, <1>6, <1>7 DEF Shaped, Backed
<1>12. Chained(t)' /\ ~Secret(t)'
  <2>1. y.do \in Walks \cup Ends /\ x.do \in Puts
    BY <1>6, <1>7 DEF Ends, Puts
  <2> QED
    BY <1>6, <1>8, <2>1 DEF Chained, Secret, At
<1>13. TodoStep(t)
  BY <1>8, <1>10, <1>11, <1>12 DEF TodoStep
<1>14. PICK tb : tb = Table(dp, None)
  OBVIOUS
<1>15. table' = tb
  BY <1>14 DEF Table
<1>16. /\ table' \in [Inum -> Entry] /\ table'[dp].valid /\ table'[dp].node = disk[dp]
       /\ \A j \in Inum : /\ table'[j].ref = table[j].ref + (IF j = None THEN 1 ELSE 0)
                          /\ j # dp => table'[j].valid = table[j].valid /\ table'[j].node = table[j].node
  <2>1. /\ tb \in [Inum -> Entry] /\ tb[dp].valid /\ tb[dp].node = disk[dp]
        /\ \A j \in Inum : /\ tb[j].ref = table[j].ref + (IF j = None THEN 1 ELSE 0)
                           /\ j # dp => tb[j].valid = table[j].valid /\ tb[j].node = table[j].node
    BY <1>2, <1>14, TableIs
  <2> QED
    BY <1>15, <2>1
<1>17. ~At(t, "freed") /\ ~At(t, "free")
  BY <1>2 DEF At
<1>18. /\ entry' \in [Inum -> [Name -> Inum \cup {None}]] /\ entry'[dp][name] = ip
       /\ \A d \in Inum, m \in FileName : entry'[d][m] = entry[d][m] \/ (d = dp /\ m = name)
       /\ \A i \in Inum \ {dp} : entry'[i] = entry[i]
  BY DEF TypeOK, FileName
<1>19. ASSUME NEW i \in Inum, Covered(i) PROVE Covered(i)'
  <2>1. PICK n \in Nat, p \in Nat : n = disk[i].nlink /\ p = IF i = ip THEN 1 ELSE 0
    BY DEF TypeOK, Node
  <2>2. NameLink(i, dp, name) = 0 /\ NameLink(i, dp, name)' = p
    BY <1>3, <1>18, <2>1, Constants DEF NameLink, Bit
  <2>3. SubLink(i, dp, name) = 0 /\ SubLink(i, dp, name)' = 0
    BY <1>3, <1>18 DEF SubLink, Bit
  <2>4. Bit(Pledges(t, i)) = p
    BY <1>2, <1>3, <2>1 DEF Pledges, Bit
  <2>5. Bit(Pledges(t, i))' = 0
    BY <1>6, <1>7, <1>8, Constants DEF Pledges, Bit
  <2>6. Weight(t, i, dp, name)' + disk[i].nlink <= Weight(t, i, dp, name) + disk'[i].nlink
    BY <2>1, <2>2, <2>3, <2>4, <2>5 DEF Weight
  <2>7. disk' \in [Inum -> Node]
    BY DEF TypeOK
  <2> QED
    BY <1>9, <1>18, <1>19, <2>6, <2>7, CoverStep
<1>20. LinkInv'
  <2>1. \A d \in Inum, m \in FileName :
          /\ entry'[d][m] \in Inum \cup {None}
          /\ entry'[d][m] = entry[d][m] \/ disk[entry'[d][m]].type # "free"
    BY <1>3, <1>18 DEF FileName
  <2> QED
    BY <1>19, <2>1, LinkStep
<1>21. FreeInv'
  BY <1>3, <1>18 DEF FreeInv, NoEntry
<1>22. LocksStep(t) /\ EntryStep(t) /\ DiskStep(t)
  BY <1>2, <1>18 DEF LocksStep, EntryStep, DiskStep
<1>23. CacheStep(t)
  <2>1. ASSUME NEW i \in Inum
        PROVE  /\ table'[i].valid =>
                    \/ table'[i].node = disk'[i] /\ disk'[i].type # "free"
                    \/ table[i].valid /\ table'[i].node = table[i].node /\ disk'[i] = disk[i]
               /\ table[i].valid => table'[i].valid
    BY <1>2, <1>16
  <2> QED
    BY <1>17, <2>1 DEF CacheStep
<1>24. (\A i \in Inum : Own(t, i)' = Own(t, i)) /\ (\A i \in Inum : Works(t, i)' = Works(t, i))
  BY <1>10 DEF Own, Works
<1>25. UsesStep(t)
  <2>1. \A i \in Inum : Uses(t, i)' => Uses(t, i)
    BY <1>2, <1>3, <1>6, <1>7, <1>8, <1>24 DEF Uses
  <2> QED
    BY <1>24, <2>1 DEF UsesStep
<1>26. RefStep(t)
  <2>1. ASSUME NEW i \in Inum
        PROVE  \E o \in Nat, n \in Nat : /\ Held(t, i)' = Held(t, i) - o + n
                                         /\ table'[i].ref = table[i].ref - o + n
    <3>1. PICK h \in Nat, s \in Nat, o \in Nat : h = Held(t, i) /\ s = table[i].ref /\ o = 0
      BY Numbers DEF TypeOK
    <3>2. i # None
      BY Constants
    <3>3. table'[i].ref = s - o + o
      BY <1>16, <3>1, <3>2
    <3>4. PICK a \in Nat, b \in Nat : a = Occurs(x, i) /\ b = Occurs(y, i)
      BY OccursType
    <3>5. Occurs(Instruction(t), i) = a + b
      BY <1>3, <1>6, <1>7, <3>4
    <3>6. Held(t, i)' = h - (a + b) + a + b
      BY <1>8, <3>1, <3>4, <3>5
    <3>7. h - (a + b) + a + b = h - o + o
      BY <3>1, <3>4
    <3> QED
      BY <3>1, <3>3, <3>6, <3>7
  <2> QED
    BY <1>24, <2>1, RefMoved
<1>27. Types'
  BY <1>9, <1>16 DEF Types
<1>28. disk' \in [Inum -> Node]
  BY DEF TypeOK
<1> QED
  BY <1>9, <1>13, <1>18, <1>20, <1>21, <1>22, <1>23, <1>25, <1>26, <1>27, <1>28, DiskWrite

LEMMA LinkToInv ==
  ASSUME NoDots, Inv, NEW t \in Thread, LinkTo(t)
  PROVE  Inv'
<1> USE DEF Inv
<1>1. PICK name : name = LastName(call[t].new)
  OBVIOUS
<1>2. /\ Locks(t, "linkto") /\ table' = Ilock(Ref(t, 1)) /\ disk' = disk /\ holder' = holder
      /\ cwd' = cwd /\ ofile' = ofile /\ rest' = rest /\ calls' = calls
      /\ \/ /\ entry[Ref(t, 1)][name] = None /\ entry' = [entry EXCEPT ![Ref(t, 1)][name] = Ref(t, 2)]
            /\ Continue(t, <<Put(Ref(t, 1)), Put(Ref(t, 2))>>)
         \/ entry' = entry /\ Continue(t, <<Put(Ref(t, 1)), I("badlink", <<Ref(t, 2)>>)>>)
  BY <1>1 DEF LinkTo, files
<1>3. "linkto" \in Locking
  BY DEF Locking
<1>4. /\ Ref(t, 1) \in Inum /\ Instruction(t) \in Instr /\ Instruction(t).do = "linkto"
      /\ Shaped(t, Instruction(t))
  BY <1>2, <1>3, AtLock
<1>5. Len(Instruction(t).refs) = 2 /\ call[t] \in Call
  BY <1>4 DEF Shaped
<1>6. Ref(t, 2) \in Inum
  BY <1>4, <1>5, Refs DEF Ref
<1>7. CASE entry' = entry /\ Continue(t, <<Put(Ref(t, 1)), I("badlink", <<Ref(t, 2)>>)>>)
  <2>1. Inside(t)
    BY <1>2, <1>7 DEF Inside, RestStep, ThreadInv
  <2> QED
    BY <1>2, <1>5, <1>7, <2>1, BadLinkLeft
<1>8. CASE /\ entry[Ref(t, 1)][name] = None /\ entry' = [entry EXCEPT ![Ref(t, 1)][name] = Ref(t, 2)]
           /\ Continue(t, <<Put(Ref(t, 1)), Put(Ref(t, 2))>>)
  <2>1. name \in FileName
    BY <1>1, <1>5, PathElems DEF Call
  <2> QED
    BY <1>2, <1>4, <1>6, <1>8, <2>1, LinkToDoes
<1> QED
  BY <1>2, <1>7, <1>8

LEMMA Fewer ==
  ASSUME NEW i, Namers(i)' \subseteq Namers(i), Subdirs(i)' \subseteq Subdirs(i), Pledgers(i)' \subseteq Pledgers(i)
  PROVE  \E a \in Nat, b \in Nat : /\ a = Links(i) + Cardinality(Pledgers(i))
                                   /\ b = Links(i)' + Cardinality(Pledgers(i))' /\ b <= a
<1>1. PICK A : A = Namers(i)
  OBVIOUS
<1>2. PICK B : B = Namers(i)'
  OBVIOUS
<1>3. PICK C : C = Subdirs(i)
  OBVIOUS
<1>4. PICK D : D = Subdirs(i)'
  OBVIOUS
<1>5. PICK E : E = Pledgers(i)
  OBVIOUS
<1>6. PICK F : F = Pledgers(i)'
  OBVIOUS
<1>7. IsFiniteSet(A) /\ IsFiniteSet(C) /\ IsFiniteSet(E)
  BY <1>1, <1>3, <1>5, LinkCount
<1>8. B \subseteq A /\ D \subseteq C /\ F \subseteq E
  BY <1>1, <1>2, <1>3, <1>4, <1>5, <1>6
<1>9. IsFiniteSet(B) /\ IsFiniteSet(D) /\ IsFiniteSet(F)
  BY <1>7, <1>8, FS_Subset
<1>10. PICK a \in Nat, b \in Nat : a = Cardinality(A) /\ b = Cardinality(B) /\ b <= a
  BY <1>7, <1>8, <1>9, FS_Subset, FS_CardinalityType
<1>11. PICK c \in Nat, d \in Nat : c = Cardinality(C) /\ d = Cardinality(D) /\ d <= c
  BY <1>7, <1>8, <1>9, FS_Subset, FS_CardinalityType
<1>12. PICK e \in Nat, f \in Nat : e = Cardinality(E) /\ f = Cardinality(F) /\ f <= e
  BY <1>7, <1>8, <1>9, FS_Subset, FS_CardinalityType
<1>13. PICK r \in Nat : r = IF i = RootIno THEN 1 ELSE 0
  OBVIOUS
<1>14. Links(i) = Count(i) /\ Links(i)' = Count(i)'
  BY DEF Links, Count, Namers, Subdirs
<1>15. Links(i) = a + c + r /\ Links(i)' = b + d + r
  BY <1>1, <1>2, <1>3, <1>4, <1>10, <1>11, <1>13, <1>14 DEF Count
<1>16. (b + d + r) + f <= (a + c + r) + e
  BY <1>10, <1>11, <1>12
<1> QED
  BY <1>5, <1>6, <1>12, <1>15, <1>16

LEMMA PledgedNeeds ==
  ASSUME ThreadInv, NEW u \in Thread, NEW i \in Inum, Pledges(u, i)
  PROVE  disk[i].type # "free" /\ \E x \in Left(u) : Needs(x, i)
<1>1. PICK x \in Left(u) : Pledged(x) = i
  BY DEF Pledges
<1>2. x \in Instr /\ Len(x.refs) \in {1, 2} /\ Backed(u, x)
  BY Formed DEF ThreadInv
<1>3. Needs(x, i)
  <2>1. i # None
    BY Constants
  <2>2. x.do \notin {"freed", "drop"} /\ (x.refs[1] = i \/ (Len(x.refs) = 2 /\ x.refs[2] = i))
    BY <1>1, <2>1 DEF Pledged
  <2> QED
    BY <1>2, <2>2, Refs
<1> QED
  BY <1>2, <1>3 DEF Backed

(* An inode that is not allocated is not named, not used, not linked.      *)
LEMMA Unused1 ==
  ASSUME ThreadInv, FreeInv, LinkInv, NEW new \in Inum, disk[new].type = "free"
  PROVE  /\ disk[new] = Free /\ new # RootIno /\ \A m \in Name : entry[new][m] = None
         /\ \A d \in Inum, m \in FileName : entry[d][m] # new
         /\ \A u \in Thread : /\ ~Works(u, new) /\ ~Pledges(u, new)
                              /\ \A x \in Left(u) : ~Needs(x, new)
<1>1. disk[new] = Free /\ new # RootIno /\ \A m \in Name : entry[new][m] = None
  BY DEF FreeInv, LinkInv, NoEntry
<1>2. ASSUME NEW d \in Inum, NEW m \in FileName, entry[d][m] = new PROVE FALSE
  <2>1. new # None
    BY Constants
  <2>2. disk[d].type = "dir"
    <3>1. SUFFICES ASSUME disk[d].type # "dir" PROVE FALSE
      OBVIOUS
    <3>2. entry[d] = NoEntry
      BY <3>1 DEF FreeInv
    <3> QED
      BY <1>2, <2>1, <3>2 DEF NoEntry, FileName
  <2> QED
    BY <1>2, <2>1, <2>2 DEF LinkInv, NoDangling
<1>3. \A u \in Thread : ~Works(u, new) /\ ~Pledges(u, new)
  BY PledgedNeeds DEF ThreadInv
<1>4. ASSUME NEW u \in Thread, NEW x \in Left(u), Needs(x, new) PROVE FALSE
  <2>1. Backed(u, x)
    BY DEF ThreadInv
  <2> QED
    BY <1>4, <2>1 DEF Backed
<1> QED
  BY <1>1, <1>2, <1>3, <1>4

(* ialloc() links nothing.                                                 *)
LEMMA AllocLinks ==
  ASSUME Inv, NEW t \in Thread, Only(t), NEW new \in Inum, disk[new].type = "free",
         NEW type \in {"dir", "file"}, disk' = [disk EXCEPT ![new].type = type], entry' = entry,
         \A i \in Inum : ~Pledges(t, i)'
  PROVE  /\ disk' \in [Inum -> Node] /\ disk'[new] = [type |-> type, nlink |-> 0]
         /\ \A i \in Inum \ {new} : disk'[i] = disk[i]
         /\ LinkInv' /\ FreeInv'
<1> USE DEF Inv
<1>1. /\ disk[new] = Free /\ new # RootIno /\ \A m \in Name : entry[new][m] = None
      /\ \A d \in Inum, m \in FileName : entry[d][m] # new
      /\ \A u \in Thread : ~Works(u, new) /\ ~Pledges(u, new)
  BY Unused1
<1>2. /\ disk' \in [Inum -> Node] /\ disk'[new] = [type |-> type, nlink |-> 0]
      /\ \A i \in Inum \ {new} : disk'[i] = disk[i]
  <2>1. disk \in [Inum -> Node]
    BY DEF TypeOK
  <2> QED
    BY <1>1, <2>1 DEF Node, Free
<1>3. FreeInv'
  <2>1. entry[new] = NoEntry
    BY <1>1 DEF FreeInv, Free
  <2>2. ASSUME NEW i \in Inum
        PROVE  /\ disk'[i].type = "free" => disk'[i] = Free
               /\ disk'[i].type # "dir" => entry'[i] = NoEntry
    BY <1>2, <2>1 DEF FreeInv
  <2> QED
    BY <2>2 DEF FreeInv, Free, NoEntry
<1>4. \A d \in Inum, m \in FileName :
        disk'[d].type = "dir" /\ entry[d][m] # None =>
          disk[d].type = "dir" /\ entry[d][m] \in Inum \ {new}
  <2>1. ASSUME NEW d \in Inum, NEW m \in FileName, disk'[d].type = "dir", entry[d][m] # None
        PROVE disk[d].type = "dir" /\ entry[d][m] \in Inum \ {new}
    <3>1. m \in Name /\ entry[d][m] \in Inum \cup {None}
      BY DEF TypeOK, FileName
    <3>2. d # new
      BY <1>1, <2>1, <3>1
    <3> QED
      BY <1>1, <1>2, <2>1, <3>1, <3>2
  <2> QED
    BY <2>1
<1>5. NoDangling'
  BY <1>2, <1>4 DEF LinkInv, NoDangling
<1>6. \A i \in Inum : Namers(i)' \subseteq Namers(i)
  <2>1. ASSUME NEW i \in Inum, NEW d \in Inum, NEW m \in FileName, <<d, m>> \in Namers(i)'
        PROVE <<d, m>> \in Namers(i)
    <3>1. disk'[d].type = "dir" /\ entry[d][m] = i
      BY <2>1 DEF Namers
    <3>2. disk[d].type = "dir"
      BY <1>4, <3>1, Constants
    <3> QED
      BY <3>1, <3>2 DEF Namers
  <2> QED
    BY <2>1 DEF Namers
<1>7. \A i \in Inum : Subdirs(i)' \subseteq Subdirs(i)
  <2>1. ASSUME NEW i \in Inum, NEW m \in FileName, m \in Subdirs(i)' PROVE m \in Subdirs(i)
    <3>1. entry[i][m] # None /\ disk'[entry[i][m]].type = "dir" /\ entry[i][m] \in Inum \cup {None}
      BY <2>1 DEF Subdirs, TypeOK, FileName
    <3>2. entry[i][m] # new
      BY <1>1
    <3> QED
      BY <1>2, <3>1, <3>2 DEF Subdirs
  <2> QED
    BY <2>1 DEF Subdirs
<1>8. \A i \in Inum : Pledgers(i)' \subseteq Pledgers(i)
  BY Unmoved DEF Pledgers, Only
<1>9. ASSUME NEW i \in Inum, disk'[i].type # "free"
      PROVE Links(i)' + Cardinality(Pledgers(i))' <= disk'[i].nlink
  <2>1. PICK a \in Nat, b \in Nat : /\ a = Links(i) + Cardinality(Pledgers(i))
                                    /\ b = Links(i)' + Cardinality(Pledgers(i))' /\ b <= a
    BY <1>6, <1>7, <1>8, Fewer
  <2>2. PICK n \in Nat : n = disk'[i].nlink
    BY <1>2 DEF Node
  <2>3. CASE i # new
    <3>1. disk'[i] = disk[i] /\ a <= n
      BY <1>2, <1>9, <2>1, <2>2, <2>3 DEF LinkInv
    <3> QED
      BY <2>1, <2>2, <3>1
  <2>4. CASE i = new
    <3>1. Namers(i) = {} /\ Subdirs(i) = {} /\ Pledgers(i) = {}
      BY <1>1, <2>4 DEF Namers, Subdirs, Pledgers, FileName
    <3>2. Links(i) = 0 /\ Cardinality(Pledgers(i)) = 0
      BY <1>1, <2>4, <3>1, FS_EmptySet, LinkCount DEF Count
    <3>3. a = 0
      BY <2>1, <3>2
    <3> QED
      BY <2>1, <2>2, <3>3
  <2> QED
    BY <2>3, <2>4
<1>10. disk'[RootIno].type = "dir"
  BY <1>1, <1>2, Constants DEF LinkInv
<1> QED
  BY <1>2, <1>3, <1>5, <1>9, <1>10 DEF LinkInv

LEMMA CreateMakes ==
  ASSUME NoDots, Inv, NEW t \in Thread, Locks(t, "create"), NEW dp \in Inum, dp = Ref(t, 1),
         entry[dp][LastName(call[t].path)] = None, NEW new \in Inum, disk[new].type = "free",
         disk' = [disk EXCEPT ![new].type = NewType(t)],
         table' = Iget(Ilock(dp), new), Continue(t, <<I("created", <<new, dp>>)>>),
         holder' = [holder EXCEPT ![dp] = t],
         entry' = entry, cwd' = cwd, ofile' = ofile, rest' = rest, calls' = calls
  PROVE  Inv'
<1> USE DEF Inv
<1>1. /\ "create" \in Locking \ {"created", "victim"} /\ "create" \in Locking
      /\ LastName(call[t].path) \in FileName /\ call[t] \in Call /\ disk[dp].type = "dir"
      /\ \A i : Occurs(Instruction(t), i) = IF i = dp THEN 1 ELSE 0
  BY ParentAt DEF Locking
<1>2. /\ Instruction(t) \in Instr /\ Instruction(t).do = "create" /\ Later(t) = {} /\ Left(t) = {Instruction(t)}
      /\ todo[t] # <<>> /\ Uses(t, dp) /\ holder[dp] = None
  BY <1>1, AtLock
<1>3. /\ disk[new] = Free
      /\ \A u \in Thread : ~Works(u, new) /\ \A x \in Left(u) : ~Needs(x, new)
  BY Unused1
<1>4. PICK type \in {"dir", "file"} : type = NewType(t)
  BY DEF NewType
<1>5. PICK x : x = I("created", <<new, dp>>)
  OBVIOUS
<1>6. /\ x \in Instr /\ x.do = "created" /\ Len(x.refs) = 2 /\ x.refs[1] = new /\ x.refs[2] = dp
      /\ \A k : Needs(x, k) <=> k = new \/ k = dp
      /\ \A k : Occurs(x, k) = (IF k = new THEN 1 ELSE 0) + (IF k = dp THEN 1 ELSE 0)
      /\ Owned(x) = dp /\ Pledged(x) = None
  BY <1>5, Pair
<1>7. /\ todo' \in [Thread -> Seq(Instr)] /\ \A u \in Thread \ {t} : todo'[u] = todo[u]
      /\ call' \in [Thread -> Call \cup {None}] /\ \A u \in Thread \ {t} : call'[u] = call[u]
      /\ Len(todo'[t]) \in {0, 1, 2} /\ Left(t)' = {x} /\ Later(t)' = {}
      /\ call'[t] = call[t] /\ Instruction(t)' = x
      /\ \A i : Held(t, i)' = Held(t, i) - Occurs(Instruction(t), i) + Occurs(x, i)
  <2>1. Continue(t, <<x>>)
    BY <1>5
  <2> QED
    BY <1>2, <1>6, <2>1, Continued1
<1>8. holder' \in [Inum -> Thread \cup {None}] /\ holder'[dp] = t /\ \A i \in Inum \ {dp} : holder'[i] = holder[i]
  BY DEF TypeOK
<1>9. ThreadTypes' /\ Only(t)
  <2>1. Types
    BY TypesHold
  <2> QED
    BY <1>7, <1>8, <2>1 DEF Types, ThreadTypes, Only
<1>10. ~Leaving(t) /\ ~Leaving(t)' /\ \A i \in Inum : holder[i] # t
  BY <1>1, <1>6, <1>7, NoneLocked DEF Leaving
<1>11. \A i \in Inum : ~Pledges(t, i)'
  BY <1>6, <1>7, Constants DEF Pledges
<1>12. /\ disk' \in [Inum -> Node] /\ disk'[new] = [type |-> type, nlink |-> 0]
       /\ \A i \in Inum \ {new} : disk'[i] = disk[i]
       /\ LinkInv' /\ FreeInv'
  BY <1>4, <1>9, <1>11, AllocLinks
<1>13. PICK tb : tb = Table(dp, new)
  OBVIOUS
<1>14. table' = tb
  BY <1>13, Constants DEF Table
<1>15. /\ table' \in [Inum -> Entry] /\ table'[dp].valid /\ table'[dp].node = disk[dp]
       /\ \A j \in Inum : /\ table'[j].ref = table[j].ref + (IF j = new THEN 1 ELSE 0)
                          /\ j # dp => table'[j].valid = table[j].valid /\ table'[j].node = table[j].node
  <2>1. /\ tb \in [Inum -> Entry] /\ tb[dp].valid /\ tb[dp].node = disk[dp]
        /\ \A j \in Inum : /\ tb[j].ref = table[j].ref + (IF j = new THEN 1 ELSE 0)
                           /\ j # dp => tb[j].valid = table[j].valid /\ tb[j].node = table[j].node
    BY <1>2, <1>13, TableIs
  <2> QED
    BY <1>14, <2>1
<1>16. dp # new
  BY <1>1
<1>17. Shaped(t, x)'
  BY <1>1, <1>6, <1>7 DEF Shaped
<1>18. Backed(t, x)'
  <2>1. disk'[dp].type = "dir" /\ disk'[new].type # "free"
    BY <1>1, <1>12, <1>16
  <2>2. NewType(t)' = type
    BY <1>4, <1>7 DEF NewType
  <2>3. LastName(call'[t].path) # DotDot /\ entry'[dp][LastName(call'[t].path)] = None
    BY <1>1, <1>7 DEF FileName
  <2> QED
    BY <1>6, <1>8, <1>12, <1>15, <2>1, <2>2, <2>3 DEF Backed
<1>19. Sole(t)'
  <2>1. Ref(t, 1)' = new
    BY <1>6, <1>7 DEF Ref
  <2>2. disk'[new].nlink = 0
    BY <1>12
  <2>3. ASSUME NEW u \in Thread PROVE ~Works(u, new)' /\ \A y \in Others(t, u)' : ~Needs(y, new)
    <3>1. CASE u = t
      BY <1>3, <1>7, <1>10, <3>1 DEF Works, Others
    <3>2. CASE u # t
      <4>1. Left(u)' = Left(u) /\ Leaving(u)' = Leaving(u)
        BY <1>7, <3>2, Unmoved
      <4> QED
        BY <1>3, <3>2, <4>1 DEF Works, Others
    <3> QED
      BY <3>1, <3>2
  <2> QED
    BY <2>1, <2>2, <2>3 DEF Sole
<1>20. TodoStep(t)
  BY <1>6, <1>7, <1>8, <1>10, <1>17, <1>18, <1>19 DEF TodoStep, Chained
<1>21. LocksStep(t) /\ EntryStep(t)
  BY <1>2, <1>8 DEF LocksStep, EntryStep
<1>22. DiskStep(t)
  BY <1>12 DEF DiskStep
<1>23. CacheStep(t)
  <2>1. ~At(t, "freed")
    BY <1>2 DEF At
  <2>2. ASSUME NEW i \in Inum, table'[i].valid
        PROVE  \/ table'[i].node = disk'[i] /\ disk'[i].type # "free"
               \/ table[i].valid /\ table'[i].node = table[i].node /\ disk'[i] = disk[i]
               \/ \E u \in Thread \ {t} : At(u, "freed") /\ Ref(u, 1) = i
    <3>1. CASE i = dp
      BY <1>1, <1>12, <1>15, <1>16, <3>1
    <3>2. CASE i # dp /\ i # new
      BY <1>12, <1>15, <2>2, <3>2
    <3>3. CASE i = new
      <4>1. table[i].valid
        BY <1>15, <1>16, <2>2, <3>3
      <4>2. \E u \in Thread : At(u, "freed") /\ Ref(u, 1) = i
        BY <3>3, <4>1 DEF LockInv
      <4> QED
        BY <2>1, <4>2
    <3> QED
      BY <3>1, <3>2, <3>3
  <2>3. \A i \in Inum : table[i].valid => table'[i].valid
    BY <1>15
  <2> QED
    BY <2>1, <2>2, <2>3 DEF CacheStep
<1>24. (\A i \in Inum : Own(t, i)' = Own(t, i)) /\ (\A i \in Inum : Works(t, i)' = Works(t, i))
  BY <1>10 DEF Own, Works
<1>25. UsesStep(t)
  <2>1. \A i \in Inum : Uses(t, i)' => Uses(t, i) \/ i = new
    BY <1>2, <1>6, <1>7, <1>24 DEF Uses
  <2> QED
    BY <1>24, <2>1 DEF UsesStep
<1>26. RefStep(t)
  <2>1. ASSUME NEW i \in Inum
        PROVE  \E o \in Nat, n \in Nat :
                  /\ o = Occurs(Instruction(t), i) /\ Held(t, i)' = Held(t, i) - o + n
                  /\ n = o + (IF i = new THEN 1 ELSE 0)
    <3>1. PICK o \in Nat, e \in Nat, n \in Nat :
            o = (IF i = dp THEN 1 ELSE 0) /\ e = (IF i = new THEN 1 ELSE 0) /\ n = o + e
      OBVIOUS
    <3>2. o = Occurs(Instruction(t), i)
      BY <1>1, <3>1
    <3>3. n = Occurs(x, i)
      BY <1>6, <3>1
    <3> QED
      BY <1>7, <3>1, <3>2, <3>3
  <2>2. Gains(t, new)
    BY <1>24, <2>1, Gained DEF HeldGain
  <2> QED
    BY <1>15, <2>2, GainedRefs
<1>27. Types' /\ entry' \in [Inum -> [Name -> Inum \cup {None}]]
  BY <1>9, <1>15 DEF Types, TypeOK
<1> QED
  BY <1>9, <1>12, <1>20, <1>21, <1>22, <1>23, <1>25, <1>26, <1>27, DiskWrite

LEMMA LeastIs ==
  ASSUME NEW S \in SUBSET Nat, S # {} PROVE Min(S) \in S
<1>1. PICK d \in S : \A e \in S : <<e, d>> \notin OpToRel(<, Nat)
  BY NatLessThanWellFounded, WFMin, Zenon
<1>2. \A e \in S : ~(e < d)
  BY <1>1 DEF OpToRel
<1>3. \E x \in S : \A e \in S : x =< e
  BY <1>2
<1> QED
  BY <1>3 DEF Min

LEMMA LowestFree ==
  ASSUME FreeInodes # {} PROVE Min(FreeInodes) \in Inum /\ disk[Min(FreeInodes)].type = "free"
<1>1. FreeInodes \in SUBSET Nat
  BY DEF FreeInodes, Inum
<1>2. Min(FreeInodes) \in FreeInodes
  BY <1>1, LeastIs
<1> QED
  BY <1>2 DEF FreeInodes

LEMMA CreateInv ==
  ASSUME NoDots, Inv, NEW t \in Thread, Create(t)
  PROVE  Inv'
<1> USE DEF Inv
<1>1. PICK ip : ip = entry[Ref(t, 1)][LastName(call[t].path)]
  OBVIOUS
<1>2. PICK new : new = Min(FreeInodes)
  OBVIOUS
<1>3. /\ Locks(t, "create") /\ entry' = entry /\ cwd' = cwd /\ ofile' = ofile
      /\ rest' = rest /\ calls' = calls
      /\ \/ /\ ip # None /\ table' = Iget(Ilock(Ref(t, 1)), ip)
            /\ Continue(t, <<Put(Ref(t, 1)), I("existing", <<ip>>)>>) /\ disk' = disk /\ holder' = holder
         \/ /\ table' = Ilock(Ref(t, 1)) /\ Continue(t, <<Put(Ref(t, 1))>>) /\ disk' = disk /\ holder' = holder
         \/ /\ ip = None /\ FreeInodes # {} /\ disk' = [disk EXCEPT ![new].type = NewType(t)]
            /\ table' = Iget(Ilock(Ref(t, 1)), new) /\ Continue(t, <<I("created", <<new, Ref(t, 1)>>)>>)
            /\ holder' = [holder EXCEPT ![Ref(t, 1)] = t]
  BY <1>1, <1>2 DEF Create, files
<1>4. rest \in [Thread -> Seq(FileName)]
  BY DEF ThreadInv
<1>5. CASE /\ ip # None /\ table' = Iget(Ilock(Ref(t, 1)), ip)
           /\ Continue(t, <<Put(Ref(t, 1)), I("existing", <<ip>>)>>) /\ disk' = disk /\ holder' = holder
  <2>1. Inside(t)
    BY <1>3, <1>4, <1>5 DEF Inside, RestStep
  <2> QED
    BY <1>1, <1>3, <1>5, <2>1, CreateFinds
<1>6. CASE table' = Ilock(Ref(t, 1)) /\ Continue(t, <<Put(Ref(t, 1))>>) /\ disk' = disk /\ holder' = holder
  <2>1. Inside(t)
    BY <1>3, <1>4, <1>6 DEF Inside, RestStep
  <2> QED
    BY <1>3, <1>6, <2>1, ParentAt, GivenUp
<1>7. CASE /\ ip = None /\ FreeInodes # {} /\ disk' = [disk EXCEPT ![new].type = NewType(t)]
           /\ table' = Iget(Ilock(Ref(t, 1)), new) /\ Continue(t, <<I("created", <<new, Ref(t, 1)>>)>>)
           /\ holder' = [holder EXCEPT ![Ref(t, 1)] = t]
  <2>1. new \in Inum /\ disk[new].type = "free"
    BY <1>2, <1>7, LowestFree
  <2>2. "create" \in Locking
    BY DEF Locking
  <2>3. PICK dp \in Inum : dp = Ref(t, 1)
    BY <1>3, <2>2, AtLock
  <2> QED
    BY <1>1, <1>3, <1>7, <2>1, <2>3, CreateMakes
<1> QED
  BY <1>3, <1>5, <1>6, <1>7

(* create() and sys_unlink() with the parent locked, about to lock the     *)
(* inode.                                                                  *)
LEMMA PairAt ==
  ASSUME NoDots, Inv, NEW t \in Thread, NEW do \in {"created", "victim"}, Locks(t, do)
  PROVE  /\ todo[t] # <<>> /\ Instruction(t).do = do /\ Instruction(t) \in Instr /\ Len(todo[t]) = 1
         /\ Later(t) = {} /\ Left(t) = {Instruction(t)} /\ Backed(t, Instruction(t))
         /\ Ref(t, 1) \in Inum /\ Ref(t, 2) \in Inum /\ Ref(t, 1) # Ref(t, 2)
         /\ holder[Ref(t, 1)] = None /\ holder[Ref(t, 2)] = t
         /\ \A i \in Inum : holder[i] = t => i = Ref(t, 2)
         /\ disk[Ref(t, 1)].type # "free" /\ Loaded(Ref(t, 1)) = disk[Ref(t, 1)]
         /\ disk[Ref(t, 2)].type = "dir" /\ table[Ref(t, 2)].valid /\ table[Ref(t, 2)].node = disk[Ref(t, 2)]
         /\ Mine(t, Ref(t, 2)) /\ Uses(t, Ref(t, 1)) /\ Uses(t, Ref(t, 2))
         /\ \A i : Occurs(Instruction(t), i) = (IF i = Ref(t, 1) THEN 1 ELSE 0) + (IF i = Ref(t, 2) THEN 1 ELSE 0)
         /\ \A i \in Inum : ~Pledges(t, i)
         /\ ~Leaving(t) /\ call[t] \in Call /\ LastName(call[t].path) \in FileName
<1> USE DEF Inv
<1>1. do \in Locking
  BY DEF Locking
<1>2. /\ todo[t] # <<>> /\ Instruction(t).do = do /\ Instruction(t) \in Instr /\ Len(todo[t]) = 1
      /\ Later(t) = {} /\ Left(t) = {Instruction(t)} /\ Shaped(t, Instruction(t)) /\ Backed(t, Instruction(t))
      /\ Ref(t, 1) \in Inum /\ Uses(t, Ref(t, 1)) /\ holder[Ref(t, 1)] = None
      /\ disk[Ref(t, 1)].type # "free" /\ Loaded(Ref(t, 1)) = disk[Ref(t, 1)]
  BY <1>1, AtLock
<1>3. Len(Instruction(t).refs) = 2 /\ call[t] \in Call
  BY <1>2 DEF Shaped
<1>4. /\ Ref(t, 2) \in Inum
      /\ \A i : Needs(Instruction(t), i) <=> i = Ref(t, 1) \/ i = Ref(t, 2)
  BY <1>2, <1>3, Refs DEF Ref
<1>5. Owned(Instruction(t)) = Ref(t, 2) /\ Pledged(Instruction(t)) = None
  BY <1>2 DEF Owned, Pledged, Ref
<1>6. Ref(t, 2) # None
  BY <1>4, Constants
<1>7. /\ holder[Ref(t, 2)] = t /\ disk[Ref(t, 2)].type = "dir" /\ table[Ref(t, 2)].valid
  BY <1>2, <1>5, <1>6 DEF Backed, Ref
<1>8. table[Ref(t, 2)].node = disk[Ref(t, 2)]
  <2>1. PICK dp \in Inum : dp = Ref(t, 2)
    BY <1>4
  <2> QED
    BY <1>2, <1>5, <1>7, <2>1, OwnedDisk
<1>9. Ref(t, 1) # Ref(t, 2)
  BY <1>2, <1>7, Constants
<1>10. \A i \in Inum : holder[i] = t => i = Ref(t, 2)
  BY <1>2, <1>5 DEF LockInv
<1>11. Mine(t, Ref(t, 2)) /\ Uses(t, Ref(t, 2))
  BY <1>2, <1>4, <1>5 DEF Mine, Uses
<1>12. \A i : Occurs(Instruction(t), i) = (IF i = Ref(t, 1) THEN 1 ELSE 0) + (IF i = Ref(t, 2) THEN 1 ELSE 0)
  BY <1>3 DEF Occurs, Ref
<1>13. (\A i \in Inum : ~Pledges(t, i)) /\ ~Leaving(t)
  BY <1>2, <1>5, Constants DEF Pledges, Leaving
<1>14. LastName(call[t].path) \in FileName
  <2>1. call[t].path \in Path
    BY <1>3 DEF Call
  <2> QED
    BY <2>1, PathElems
<1> QED
  BY <1>2, <1>3, <1>4, <1>7, <1>8, <1>9, <1>10, <1>11, <1>12, <1>13, <1>14

(* It leaves one reference to each of the two inodes, and the lock of b.   *)
PairEnds(t, do, a, b, end) ==
  /\ Locks(t, do) /\ a # b /\ {a, b} = {Ref(t, 1), Ref(t, 2)} /\ Continue(t, <<Put(a), I(end, <<b>>)>>)
  /\ cwd' = cwd /\ ofile' = ofile /\ rest' = rest /\ calls' = calls
  /\ holder' \in [Inum -> Thread \cup {None}] /\ holder'[b] = t /\ \A i \in Inum : holder'[i] = t => i = b
  /\ disk'[a].type # "free" /\ disk'[b].type # "free" /\ (end = "unlinked" => table'[b].valid)
PairLeft(t, end, b) ==
  /\ ThreadTypes' /\ Only(t) /\ TodoStep(t)
  /\ \A i \in Inum : /\ Own(t, i)' = Own(t, i) /\ Held(t, i)' = Held(t, i) /\ Works(t, i)' = Works(t, i)
                     /\ \A z \in Left(t)' : Needs(z, i) => Uses(t, i)
                     /\ Pledges(t, i)' <=> end = "unlinked" /\ i = b

LEMMA PairLeaves ==
  ASSUME NoDots, Inv, NEW t \in Thread, NEW do \in {"created", "victim"},
         NEW a \in Inum, NEW b \in Inum, NEW end \in {"made", "unlinked", "unlockput"},
         PairEnds(t, do, a, b, end)
  PROVE  PairLeft(t, end, b)
<1> USE DEF Inv
<1>1. /\ todo[t] # <<>> /\ Len(todo[t]) = 1 /\ Uses(t, a) /\ Uses(t, b) /\ ~Leaving(t)
      /\ \A i : Occurs(Instruction(t), i) = (IF i = a THEN 1 ELSE 0) + (IF i = b THEN 1 ELSE 0)
  <2>1. /\ todo[t] # <<>> /\ Len(todo[t]) = 1 /\ Uses(t, Ref(t, 1)) /\ Uses(t, Ref(t, 2)) /\ ~Leaving(t)
        /\ \A i : Occurs(Instruction(t), i) = (IF i = Ref(t, 1) THEN 1 ELSE 0) + (IF i = Ref(t, 2) THEN 1 ELSE 0)
    BY PairAt DEF PairEnds
  <2>2. (a = Ref(t, 1) /\ b = Ref(t, 2)) \/ (a = Ref(t, 2) /\ b = Ref(t, 1))
    BY DEF PairEnds
  <2>3. CASE a = Ref(t, 1) /\ b = Ref(t, 2)
    BY <2>1, <2>3
  <2>4. CASE a = Ref(t, 2) /\ b = Ref(t, 1)
    <3>1. \A p \in {0, 1}, q \in {0, 1} : p + q = q + p
      OBVIOUS
    <3>2. \A i : (IF i = a THEN 1 ELSE 0) \in {0, 1} /\ (IF i = b THEN 1 ELSE 0) \in {0, 1}
      OBVIOUS
    <3> QED
      BY <2>1, <2>4, <3>1, <3>2
  <2> QED
    BY <2>2, <2>3, <2>4
<1>2. PICK x : x = Put(a)
  OBVIOUS
<1>3. PICK y : y = I(end, <<b>>)
  OBVIOUS
<1>4. /\ x \in Instr /\ x.do = "put" /\ Len(x.refs) = 1 /\ x.refs[1] = a
      /\ \A j : Needs(x, j) <=> j = a
      /\ \A j : Occurs(x, j) = IF j = a THEN 1 ELSE 0
      /\ Pledged(x) = None /\ Owned(x) = None
  BY <1>2, PutIs
<1>5. /\ y \in Instr /\ y.do = end /\ Len(y.refs) = 1 /\ y.refs[1] = b
      /\ \A j : Needs(y, j) <=> j = b
      /\ \A j : Occurs(y, j) = IF j = b THEN 1 ELSE 0
      /\ Owned(y) = b /\ Pledged(y) = IF end = "unlinked" THEN b ELSE None
  <2>1. end \in Puts \cup Walks \cup Ends
    BY DEF Ends
  <2> QED
    BY <1>3, <2>1, Single
<1>6. /\ todo' \in [Thread -> Seq(Instr)] /\ \A u \in Thread \ {t} : todo'[u] = todo[u]
      /\ call' \in [Thread -> Call \cup {None}] /\ \A u \in Thread \ {t} : call'[u] = call[u]
      /\ Len(todo'[t]) \in {0, 1, 2} /\ Left(t)' = {x, y} /\ Later(t)' = {y}
      /\ call'[t] = call[t] /\ Instruction(t)' = x
      /\ \A i : Held(t, i)' = Held(t, i) - Occurs(Instruction(t), i) + Occurs(x, i) + Occurs(y, i)
  <2>1. Continue(t, <<x, y>>)
    BY <1>2, <1>3 DEF PairEnds
  <2> QED
    BY <1>1, <1>4, <1>5, <2>1, Continued2
<1>7. ThreadTypes' /\ Only(t)
  <2>1. Types
    BY TypesHold
  <2> QED
    BY <1>6, <2>1 DEF Types, ThreadTypes, Only, PairEnds
<1>8. ~Leaving(t)'
  BY <1>4, <1>5, <1>6 DEF Leaving
<1>9. Shaped(t, x)' /\ Shaped(t, y)'
  BY <1>4, <1>5 DEF Shaped
<1>10. Backed(t, x)' /\ Backed(t, y)'
  BY <1>4, <1>5 DEF Backed, PairEnds
<1>11. Chained(t)' /\ ~Secret(t)'
  <2>1. y.do \in Walks \cup Ends /\ x.do \in Puts
    BY <1>4, <1>5 DEF Ends, Puts
  <2> QED
    BY <1>4, <1>6, <2>1 DEF Chained, Secret, At
<1>12. TodoStep(t)
  BY <1>5, <1>6, <1>9, <1>10, <1>11 DEF TodoStep, PairEnds
<1>13. (\A i \in Inum : Own(t, i)' = Own(t, i)) /\ (\A i \in Inum : Works(t, i)' = Works(t, i))
  BY <1>1, <1>8 DEF Own, Works, PairEnds
<1>14. \A i \in Inum, z \in Left(t)' : Needs(z, i) => Uses(t, i)
  BY <1>1, <1>4, <1>5, <1>6
<1>15. \A i \in Inum : Pledges(t, i)' <=> end = "unlinked" /\ i = b
  BY <1>4, <1>5, <1>6, Constants DEF Pledges
<1>16. ASSUME NEW i \in Inum PROVE Held(t, i)' = Held(t, i)
  <2>1. PICK h \in Nat, p \in Nat, q \in Nat :
          h = Held(t, i) /\ p = (IF i = a THEN 1 ELSE 0) /\ q = (IF i = b THEN 1 ELSE 0)
    BY Numbers
  <2>2. Held(t, i)' = h - (p + q) + p + q
    BY <1>1, <1>4, <1>5, <1>6, <2>1
  <2> QED
    BY <2>1, <2>2
<1> QED
  BY <1>7, <1>12, <1>13, <1>14, <1>15, <1>16 DEF PairLeft

(* It fails, and gives up both.                                            *)
LEMMA PairGivesUp ==
  ASSUME NoDots, Inv, NEW t \in Thread, NEW do \in {"created", "victim"}, Locks(t, do),
         table' = Ilock(Ref(t, 1)), Continue(t, <<Put(Ref(t, 1)), I("unlockput", <<Ref(t, 2)>>)>>),
         disk' = disk, entry' = entry, holder' = holder,
         cwd' = cwd, ofile' = ofile, rest' = rest, calls' = calls
  PROVE  Inv'
<1>1. do \in Locking
  BY DEF Locking
<1>2. /\ Ref(t, 1) \in Inum /\ Ref(t, 2) \in Inum /\ Ref(t, 1) # Ref(t, 2) /\ holder[Ref(t, 2)] = t
      /\ \A i \in Inum : holder[i] = t => i = Ref(t, 2)
      /\ disk[Ref(t, 1)].type # "free" /\ disk[Ref(t, 2)].type = "dir"
      /\ Uses(t, Ref(t, 1)) /\ Uses(t, Ref(t, 2))
  BY PairAt
<1>3. PICK ip \in Inum, dp \in Inum : ip = Ref(t, 1) /\ dp = Ref(t, 2)
  BY <1>2
<1>4. holder' \in [Inum -> Thread \cup {None}]
  BY DEF Inv, TypeOK
<1>5. /\ ThreadTypes' /\ Only(t) /\ TodoStep(t)
      /\ \A i \in Inum : /\ Own(t, i)' = Own(t, i) /\ Held(t, i)' = Held(t, i) /\ Works(t, i)' = Works(t, i)
                         /\ \A z \in Left(t)' : Needs(z, i) => Uses(t, i)
                         /\ ~Pledges(t, i)'
  <2>1. PICK end \in {"made", "unlinked", "unlockput"} : end = "unlockput"
    OBVIOUS
  <2>2. PairEnds(t, do, ip, dp, end)
    BY <1>2, <1>3, <1>4, <2>1 DEF PairEnds
  <2>3. PairLeft(t, end, dp)
    BY <2>2, PairLeaves
  <2> QED
    BY <2>1, <2>3 DEF PairLeft
<1>6. LocksStep(t)
  BY DEF LocksStep
<1>7. Reaches(t, None)
  BY <1>5 DEF Reaches, Uses
<1>8. Gains(t, None)
  <2>1. ASSUME NEW i \in Inum
        PROVE  \E a \in Nat, b \in Nat, c \in Nat, d \in Nat :
                 /\ a = Own(t, i) /\ b = Held(t, i) /\ c = Own(t, i)' /\ d = Held(t, i)'
                 /\ c + d = a + b + (IF i = None THEN 1 ELSE 0)
    <3>1. PICK a \in Nat, b \in Nat : a = Own(t, i) /\ b = Held(t, i)
      BY Numbers
    <3>2. a = Own(t, i)' /\ b = Held(t, i)' /\ i # None
      BY <1>5, <3>1, Constants
    <3>3. a + b = a + b + (IF i = None THEN 1 ELSE 0)
      BY <3>2
    <3> QED
      BY <3>1, <3>2, <3>3
  <2> QED
    BY <2>1 DEF Gains
<1>9. table' = Table(Ref(t, 1), None)
  BY DEF Table
<1> QED
  BY <1>1, <1>5, <1>6, <1>7, <1>8, <1>9, LockingStep

(* It writes both, changes the entry name, and unlocks the parent.         *)
Moves(t, ip, dp, end) ==
  /\ Continue(t, <<Put(dp), I(end, <<ip>>)>>)
  /\ cwd' = cwd /\ ofile' = ofile /\ rest' = rest /\ calls' = calls
  /\ holder' = [holder EXCEPT ![dp] = None, ![ip] = t]
  /\ \A i \in Inum : disk'[i].type = disk[i].type /\ table'[i].ref = table[i].ref
  /\ \A i \in {ip, dp} : table'[i].valid /\ table'[i].node = disk'[i]
  /\ \A i \in Inum \ {ip, dp} : table'[i] = table[i] /\ disk'[i] = disk[i] /\ entry'[i] = entry[i]

LEMMA MovesLeaves ==
  ASSUME NoDots, Inv, NEW t \in Thread, NEW do \in {"created", "victim"}, Locks(t, do),
         NEW ip \in Inum, ip = Ref(t, 1), NEW dp \in Inum, dp = Ref(t, 2),
         NEW end \in {"made", "unlinked"}, Moves(t, ip, dp, end)
  PROVE  /\ PairLeft(t, end, ip)
         /\ holder' \in [Inum -> Thread \cup {None}] /\ holder'[ip] = t /\ holder'[dp] = None
         /\ \A i \in Inum \ {ip, dp} : holder'[i] = holder[i]
<1>1. /\ ip # dp /\ holder[ip] = None /\ holder[dp] = t /\ \A i \in Inum : holder[i] = t => i = dp
      /\ disk[ip].type # "free" /\ disk[dp].type = "dir"
  BY PairAt
<1>2. /\ holder' \in [Inum -> Thread \cup {None}] /\ holder'[ip] = t /\ holder'[dp] = None
      /\ \A i \in Inum \ {ip, dp} : holder'[i] = holder[i]
  <2>1. holder \in [Inum -> Thread \cup {None}] /\ holder' = [holder EXCEPT ![dp] = None, ![ip] = t]
    BY DEF Inv, TypeOK, Moves
  <2> QED
    BY <1>1, <2>1
<1>3. \A i \in Inum : holder'[i] = t => i = ip
  BY <1>1, <1>2, Constants
<1>4. {dp, ip} = {Ref(t, 1), Ref(t, 2)} /\ dp # ip
  BY <1>1
<1>5. disk'[ip].type # "free" /\ disk'[dp].type # "free" /\ table'[ip].valid
  BY <1>1 DEF Moves
<1>6. PairEnds(t, do, dp, ip, end)
  BY <1>2, <1>3, <1>4, <1>5 DEF PairEnds, Moves
<1>7. PairLeft(t, end, ip)
  BY <1>6, PairLeaves
<1> QED
  BY <1>2, <1>7

LEMMA PairMoves ==
  ASSUME NoDots, Inv, NEW t \in Thread, NEW do \in {"created", "victim"}, Locks(t, do),
         NEW ip \in Inum, ip = Ref(t, 1), NEW dp \in Inum, dp = Ref(t, 2),
         NEW end \in {"made", "unlinked"}, Moves(t, ip, dp, end),
         table' \in [Inum -> Entry], disk' \in [Inum -> Node],
         entry' \in [Inum -> [Name -> Inum \cup {None}]], FreeInv', LinkInv'
  PROVE  Inv'
<1> USE DEF Inv
<1>1. /\ ip # dp /\ holder[ip] = None /\ holder[dp] = t /\ \A i \in Inum : holder[i] = t => i = dp
      /\ disk[ip].type # "free" /\ disk[dp].type = "dir"
      /\ Mine(t, dp) /\ Uses(t, ip) /\ Uses(t, dp) /\ todo[t] # <<>> /\ Instruction(t).do = do
  BY PairAt
<1>2. /\ holder' \in [Inum -> Thread \cup {None}] /\ holder'[ip] = t /\ holder'[dp] = None
      /\ \A i \in Inum \ {ip, dp} : holder'[i] = holder[i]
      /\ PairLeft(t, end, ip)
  <2> HIDE DEF Inv
  <2> QED
    BY MovesLeaves
<1>3. /\ ThreadTypes' /\ Only(t) /\ TodoStep(t)
      /\ \A i \in Inum : /\ Own(t, i)' = Own(t, i) /\ Held(t, i)' = Held(t, i) /\ Works(t, i)' = Works(t, i)
                         /\ \A z \in Left(t)' : Needs(z, i) => Uses(t, i)
                         /\ Pledges(t, i)' <=> end = "unlinked" /\ i = ip
  BY <1>2 DEF PairLeft
<1>4. ~At(t, "freed") /\ ~At(t, "free")
  BY <1>1 DEF At
<1>5. LocksStep(t) /\ EntryStep(t)
  BY <1>1, <1>2 DEF LocksStep, EntryStep, Moves
<1>6. DiskStep(t)
  BY <1>1 DEF DiskStep, Moves
<1>7. CacheStep(t)
  <2>1. ASSUME NEW i \in Inum
        PROVE  /\ table'[i].valid =>
                    \/ table'[i].node = disk'[i] /\ disk'[i].type # "free"
                    \/ table[i].valid /\ table'[i].node = table[i].node /\ disk'[i] = disk[i]
               /\ table[i].valid => table'[i].valid
    BY <1>1 DEF Moves
  <2> QED
    BY <1>4, <2>1 DEF CacheStep
<1>8. UsesStep(t)
  <2>1. ASSUME NEW i \in Inum, Uses(t, i)' PROVE Uses(t, i)
    BY <1>3, <2>1 DEF Uses
  <2> QED
    BY <1>3, <2>1 DEF UsesStep
<1>9. RefStep(t)
  <2>1. ASSUME NEW i \in Inum
        PROVE  \E o \in Nat, m \in Nat : /\ Held(t, i)' = Held(t, i) - o + m
                                         /\ table'[i].ref = table[i].ref - o + m
    <3>1. PICK h \in Nat, s \in Nat, o \in Nat : h = Held(t, i) /\ s = table[i].ref /\ o = 0
      BY Numbers DEF TypeOK
    <3>2. Held(t, i)' = h - o + o /\ table'[i].ref = s - o + o
      BY <1>3, <3>1 DEF Moves
    <3> QED
      BY <3>1, <3>2
  <2> QED
    BY <1>3, <2>1, RefMoved
<1>10. Types'
  BY <1>3 DEF Types
<1> QED
  BY <1>3, <1>5, <1>6, <1>7, <1>8, <1>9, <1>10, DiskWrite

(* iupdate() of two inodes.                                                *)
WroteTwo(tb, ip, dp, nd, md) ==
  /\ table' \in [Inum -> Entry] /\ disk' \in [Inum -> Node] /\ disk'[ip] = nd /\ disk'[dp] = md
  /\ table'[ip].node = nd /\ table'[dp].node = md
  /\ \A j \in Inum \ {ip, dp} : disk'[j] = disk[j] /\ table'[j] = tb[j]
  /\ \A j \in Inum : table'[j].ref = tb[j].ref /\ table'[j].valid = tb[j].valid

LEMMA WrittenTwo ==
  ASSUME NEW tb \in [Inum -> Entry], disk \in [Inum -> Node], NEW ip \in Inum, NEW dp \in Inum, ip # dp,
         NEW nd \in Node, NEW md \in Node,
         NEW new, DOMAIN new = {ip, dp}, new[ip] = nd, new[dp] = md, Iupdate(tb, new)
  PROVE  WroteTwo(tb, ip, dp, nd, md)
<1>1. DOMAIN new = {ip, dp} /\ new[ip] = nd /\ new[dp] = md
  OBVIOUS
<1>2. PICK e : e = [tb[ip] EXCEPT !.node = nd]
  OBVIOUS
<1>3. PICK f : f = [tb[dp] EXCEPT !.node = md]
  OBVIOUS
<1>4. /\ e \in Entry /\ e.node = nd /\ e.ref = tb[ip].ref /\ e.valid = tb[ip].valid
      /\ f \in Entry /\ f.node = md /\ f.ref = tb[dp].ref /\ f.valid = tb[dp].valid
  BY <1>2, <1>3 DEF Entry
<1>5. /\ table' = [i \in Inum |-> IF i \in {ip, dp} THEN [tb[i] EXCEPT !.node = new[i]] ELSE tb[i]]
      /\ disk' = [i \in Inum |-> IF i \in {ip, dp} THEN new[i] ELSE disk[i]]
  BY <1>1 DEF Iupdate
<1>6. /\ disk' \in [Inum -> Node] /\ disk'[ip] = nd /\ disk'[dp] = md
      /\ \A j \in Inum \ {ip, dp} : disk'[j] = disk[j]
  BY <1>1, <1>5
<1>7. /\ table'[ip] = e /\ table'[dp] = f /\ \A j \in Inum \ {ip, dp} : table'[j] = tb[j]
  BY <1>1, <1>2, <1>3, <1>5
<1>8. table' \in [Inum -> Entry]
  <2>1. \A j \in Inum : table'[j] \in Entry
    BY <1>4, <1>7
  <2>2. table' = [i \in Inum |-> table'[i]]
    BY <1>5
  <2> QED
    BY <2>1, <2>2
<1> QED
  BY <1>4, <1>6, <1>7, <1>8 DEF WroteTwo

(* The table after ilock() of ip, and the inodes with another nlink.       *)
LEMMA LockedTable ==
  ASSUME TypeOK, ThreadInv, LockInv, NEW ip \in Inum, holder[ip] = None, NEW tb, tb = Ilock(ip)
  PROVE  /\ tb \in [Inum -> Entry] /\ tb[ip].valid /\ tb[ip].node = disk[ip]
         /\ \A j \in Inum \ {ip} : tb[j].valid = table[j].valid /\ tb[j].node = table[j].node
         /\ \A j \in Inum \ {ip} : tb[j] = table[j]
         /\ \A j \in Inum : tb[j].ref = table[j].ref
<1>1. tb = Table(ip, None)
  BY DEF Table
<1>2. /\ tb \in [Inum -> Entry] /\ tb[ip].valid /\ tb[ip].node = disk[ip]
      /\ \A j \in Inum : /\ tb[j].ref = table[j].ref + (IF j = None THEN 1 ELSE 0)
                         /\ j # ip => tb[j].valid = table[j].valid /\ tb[j].node = table[j].node
  BY <1>1, TableIs
<1>3. \A j \in Inum : tb[j].ref = table[j].ref
  <2>1. \A j \in Inum : j # None /\ table[j].ref \in Nat
    BY Constants DEF TypeOK
  <2> QED
    BY <1>2, <2>1
<1>4. \A j \in Inum \ {ip} : tb[j] = table[j]
  BY DEF Ilock, TypeOK
<1> QED
  BY <1>2, <1>3, <1>4

LEMMA Renumbered ==
  ASSUME NEW nd \in Node, NEW n \in Nat, NEW md, md = [nd EXCEPT !.nlink = n]
  PROVE  md \in Node /\ md.type = nd.type /\ md.nlink = n
BY DEF Node

Creates(t, ip, dp, name, links) ==
  /\ Iupdate(Ilock(ip), [j \in {ip, dp} |-> IF j = ip THEN [Loaded(ip) EXCEPT !.nlink = 1]
                                            ELSE [table[dp].node EXCEPT !.nlink = @ + links]])
  /\ entry' = [entry EXCEPT ![dp][name] = ip, ![ip][DotDot] = IF links = 1 THEN dp ELSE None]
  /\ holder' = [holder EXCEPT ![dp] = None, ![ip] = t]
  /\ Continue(t, <<Put(dp), I("made", <<ip>>)>>)
  /\ cwd' = cwd /\ ofile' = ofile /\ rest' = rest /\ calls' = calls

LEMMA CreatedDoes ==
  ASSUME NoDots, Inv, NEW t \in Thread, Locks(t, "created"),
         NEW ip \in Inum, ip = Ref(t, 1), NEW dp \in Inum, dp = Ref(t, 2),
         NEW name \in FileName, name = LastName(call[t].path),
         NEW links \in {0, 1}, links = IF NewType(t) = "dir" THEN 1 ELSE 0,
         Creates(t, ip, dp, name, links)
  PROVE  Inv'
<1> USE DEF Inv
<1>1. "created" \in {"created", "victim"}
  OBVIOUS
<1>2. /\ Instruction(t).do = "created" /\ Backed(t, Instruction(t)) /\ ip # dp /\ holder[ip] = None
      /\ disk[ip].type # "free" /\ Loaded(ip) = disk[ip]
      /\ disk[dp].type = "dir" /\ table[dp].valid /\ table[dp].node = disk[dp]
      /\ \A i \in Inum : ~Pledges(t, i)
  BY <1>1, PairAt
<1>3. entry[dp][name] = None /\ disk[ip] = [type |-> NewType(t), nlink |-> 0]
  BY <1>2 DEF Backed, Ref
<1>4. PICK n \in Nat : n = disk[dp].nlink
  BY DEF TypeOK, Node
<1>5. disk \in [Inum -> Node] /\ disk[ip] \in Node /\ disk[dp] \in Node
  BY DEF TypeOK
<1>6. PICK nd : nd = [disk[ip] EXCEPT !.nlink = 1]
  OBVIOUS
<1>7. PICK md : md = [disk[dp] EXCEPT !.nlink = n + links]
  OBVIOUS
<1>8. nd \in Node /\ nd.type = disk[ip].type /\ nd.nlink = 1
  <2>1. PICK old \in Node : old = disk[ip]
    BY <1>5
  <2> QED
    BY ONLY <1>6, <2>1, Renumbered
<1>9. md \in Node /\ md.type = disk[dp].type /\ md.nlink = n + links
  <2>1. PICK old \in Node, k \in Nat : old = disk[dp] /\ k = n + links
    BY <1>5
  <2> QED
    BY ONLY <1>7, <2>1, Renumbered
<1>10. PICK tb : tb = Ilock(ip)
  OBVIOUS
<1>11. PICK new : new = [j \in {ip, dp} |-> IF j = ip THEN nd ELSE md] /\ Iupdate(tb, new)
  BY <1>2, <1>4, <1>6, <1>7, <1>10 DEF Creates
<1>12. /\ tb \in [Inum -> Entry] /\ tb[ip].valid
       /\ \A j \in Inum \ {ip} : tb[j].valid = table[j].valid /\ tb[j].node = table[j].node
       /\ \A j \in Inum \ {ip} : tb[j] = table[j]
       /\ \A j \in Inum : tb[j].ref = table[j].ref
  BY <1>2, <1>10, LockedTable
<1>13. /\ table' \in [Inum -> Entry] /\ disk' \in [Inum -> Node] /\ disk'[ip] = nd /\ disk'[dp] = md
       /\ table'[ip].node = nd /\ table'[dp].node = md
       /\ \A j \in Inum \ {ip, dp} : disk'[j] = disk[j] /\ table'[j] = tb[j]
       /\ \A j \in Inum : table'[j].ref = tb[j].ref /\ table'[j].valid = tb[j].valid
  <2>1. ip \in Inum /\ dp \in Inum /\ ip # dp
    BY <1>2
  <2>2. DOMAIN new = {ip, dp} /\ new[ip] = nd /\ new[dp] = md /\ Iupdate(tb, new)
    BY <1>2, <1>11
  <2>3. WroteTwo(tb, ip, dp, nd, md)
    BY ONLY <1>5, <1>8, <1>9, <1>12, <2>1, <2>2, WrittenTwo
  <2> QED
    BY <2>3 DEF WroteTwo
<1>14. \A i \in Inum : disk'[i].type = disk[i].type
  BY <1>8, <1>9, <1>13
<1>15. /\ entry' \in [Inum -> [Name -> Inum \cup {None}]]
       /\ entry'[dp][name] = ip
       /\ \A d \in Inum, m \in FileName : entry'[d][m] = entry[d][m] \/ (d = dp /\ m = name)
       /\ \A i \in Inum \ {ip, dp} : entry'[i] = entry[i]
       /\ links = 0 => entry'[ip] = [entry[ip] EXCEPT ![DotDot] = None]
  <2>1. entry \in [Inum -> [Name -> Inum \cup {None}]] /\ name \in Name /\ DotDot \in Name /\ name # DotDot
    BY InodesAssumption DEF TypeOK, FileName
  <2>2. PICK v \in Inum \cup {None} : v = (IF links = 1 THEN dp ELSE None) /\ (links = 0 => v = None)
    OBVIOUS
  <2>3. entry' = [entry EXCEPT ![dp] = [entry[dp] EXCEPT ![name] = ip], ![ip] = [entry[ip] EXCEPT ![DotDot] = v]]
    BY <1>2, <2>1, <2>2 DEF Creates
  <2>4. entry'[dp] = [entry[dp] EXCEPT ![name] = ip] /\ entry'[ip] = [entry[ip] EXCEPT ![DotDot] = v]
    BY <1>2, <2>1, <2>3
  <2>5. \A i \in Inum \ {ip, dp} : entry'[i] = entry[i]
    BY <2>1, <2>3
  <2>6. entry' \in [Inum -> [Name -> Inum \cup {None}]]
    BY <2>1, <2>2, <2>3
  <2>7. \A d \in Inum, m \in FileName : entry'[d][m] = entry[d][m] \/ (d = dp /\ m = name)
    BY <2>1, <2>4, <2>5 DEF FileName
  <2>8. links = 0 => entry'[ip] = [entry[ip] EXCEPT ![DotDot] = None]
    BY <2>2, <2>4
  <2>9. entry'[dp][name] = ip
    BY <2>1, <2>4
  <2> QED
    BY <2>5, <2>6, <2>7, <2>8, <2>9
<1>16. Moves(t, ip, dp, "made")
  <2>1. /\ \A i \in Inum : table'[i].ref = table[i].ref
        /\ \A i \in {ip, dp} : table'[i].valid /\ table'[i].node = disk'[i]
        /\ \A i \in Inum \ {ip, dp} : /\ table'[i] = table[i] /\ disk'[i] = disk[i] /\ entry'[i] = entry[i]
    BY <1>2, <1>12, <1>13, <1>15
  <2> QED
    BY <1>14, <2>1 DEF Moves, Creates
<1>17. PICK end \in {"made", "unlinked"} : end = "made"
  OBVIOUS
<1>18. Only(t) /\ \A i \in Inum : ~Pledges(t, i)'
  <2>1. PairLeft(t, "made", ip)
    <3> HIDE DEF Inv
    <3> QED
      BY <1>1, <1>16, <1>17, MovesLeaves
  <2> QED
    BY <2>1 DEF PairLeft
<1>19. ASSUME NEW i \in Inum, Covered(i) PROVE Covered(i)'
  <2>1. PICK p \in Nat, q \in Nat, k \in Nat :
          p = (IF i = ip THEN 1 ELSE 0) /\ q = (IF i = dp THEN links ELSE 0) /\ k = disk[i].nlink
    BY DEF TypeOK, Node
  <2>2. NameLink(i, dp, name) = 0 /\ NameLink(i, dp, name)' = p
    BY <1>2, <1>3, <1>9, <1>13, <1>15, <2>1, Constants DEF NameLink, Bit
  <2>3. SubLink(i, dp, name) = 0
    BY <1>3 DEF SubLink, Bit
  <2>4. SubLink(i, dp, name)' = q
    <3>1. disk'[ip].type = "dir" <=> links = 1
      BY <1>3, <1>8, <1>13
    <3>2. ip # None
      BY Constants
    <3> QED
      BY <1>15, <2>1, <3>1, <3>2 DEF SubLink, Bit
  <2>5. Bit(Pledges(t, i)) = 0 /\ Bit(Pledges(t, i))' = 0
    BY <1>2, <1>18 DEF Bit
  <2>6. disk'[i].nlink = k + p + q
    <3>1. CASE i = ip
      <4>1. k = 0 /\ disk'[i].nlink = 1 /\ p = 1 /\ q = 0
        BY <1>2, <1>3, <1>8, <1>13, <2>1, <3>1
      <4> QED
        BY <4>1
    <3>2. CASE i = dp
      <4>1. k = n /\ disk'[i].nlink = n + links /\ p = 0 /\ q = links
        BY <1>2, <1>4, <1>9, <1>13, <2>1, <3>2
      <4> QED
        BY <4>1
    <3>3. CASE i # ip /\ i # dp
      <4>1. disk'[i].nlink = k /\ p = 0 /\ q = 0
        BY <1>13, <2>1, <3>3
      <4> QED
        BY <4>1
    <3> QED
      BY <3>1, <3>2, <3>3
  <2>7. Weight(t, i, dp, name)' + disk[i].nlink <= Weight(t, i, dp, name) + disk'[i].nlink
    <3>1. Weight(t, i, dp, name) = 0
      BY <2>2, <2>3, <2>5 DEF Weight
    <3>2. Weight(t, i, dp, name)' = p + q + 0
      BY <2>2, <2>4, <2>5 DEF Weight
    <3>3. p + q + 0 + k <= 0 + (k + p + q)
      BY <2>1
    <3> QED
      BY <2>1, <2>6, <3>1, <3>2, <3>3
  <2>8. TypeOK /\ i \in Inum /\ dp \in Inum /\ name \in FileName /\ t \in Thread
    OBVIOUS
  <2> QED
    BY ONLY <1>13, <1>14, <1>15, <1>18, <1>19, <2>7, <2>8, CoverStep
<1>20. LinkInv'
  <2>1. \A d \in Inum, m \in FileName :
          /\ entry'[d][m] \in Inum \cup {None}
          /\ entry'[d][m] = entry[d][m] \/ disk[entry'[d][m]].type # "free"
    BY <1>2, <1>15 DEF FileName
  <2> QED
    BY <1>14, <1>19, <2>1, LinkStep
<1>21. FreeInv'
  <2>1. ASSUME NEW i \in Inum
        PROVE  /\ disk'[i].type = "free" => disk'[i] = Free
               /\ disk'[i].type # "dir" => entry'[i] = NoEntry
    <3>1. CASE i = dp
      BY <1>2, <1>9, <1>13, <3>1
    <3>2. CASE i = ip
      <4>1. disk'[i].type # "free"
        BY <1>2, <1>8, <1>13, <3>2
      <4>2. disk'[i].type # "dir" => links = 0 /\ entry[i] = NoEntry
        BY <1>3, <1>8, <1>13, <3>2 DEF FreeInv
      <4>3. [NoEntry EXCEPT ![DotDot] = None] = NoEntry
        BY DEF NoEntry
      <4> QED
        BY <1>15, <3>2, <4>1, <4>2, <4>3
    <3>3. CASE i # ip /\ i # dp
      BY <1>13, <1>15, <3>3 DEF FreeInv
    <3> QED
      BY <3>1, <3>2, <3>3
  <2> QED
    BY <2>1 DEF FreeInv, Free, NoEntry
<1> HIDE DEF Inv
<1> QED
  BY <1>1, <1>13, <1>15, <1>20, <1>21, <1>16, <1>17, PairMoves

LEMMA CreatedInv ==
  ASSUME NoDots, Inv, NEW t \in Thread, Created(t)
  PROVE  Inv'
<1>1. PICK ip : ip = Ref(t, 1)
  OBVIOUS
<1>2. PICK dp : dp = Ref(t, 2)
  OBVIOUS
<1>3. PICK name : name = LastName(call[t].path)
  OBVIOUS
<1>4. PICK links \in {0, 1} : links = IF NewType(t) = "dir" THEN 1 ELSE 0
  OBVIOUS
<1>5. /\ Locks(t, "created") /\ cwd' = cwd /\ ofile' = ofile /\ rest' = rest /\ calls' = calls
      /\ \/ Creates(t, ip, dp, name, links)
         \/ /\ Iupdate(Ilock(ip), [j \in {ip} |-> [Loaded(ip) EXCEPT !.nlink = 0]])
            /\ Continue(t, <<Put(ip), I("unlockput", <<dp>>)>>)
            /\ entry' = entry /\ holder' = holder
  BY <1>1, <1>2, <1>3, <1>4 DEF Created, Creates, files
<1>6. "created" \in {"created", "victim"}
  OBVIOUS
<1>7. /\ ip \in Inum /\ dp \in Inum /\ name \in FileName
      /\ Instruction(t).do = "created" /\ Backed(t, Instruction(t)) /\ holder[ip] = None /\ Loaded(ip) = disk[ip]
  BY <1>1, <1>2, <1>3, <1>5, <1>6, PairAt
<1>8. CASE Creates(t, ip, dp, name, links)
  <2>1. NoDots /\ Inv /\ t \in Thread
    OBVIOUS
  <2> QED
    BY ONLY <1>1, <1>2, <1>3, <1>4, <1>5, <1>7, <1>8, <2>1, CreatedDoes
<1>9. CASE /\ Iupdate(Ilock(ip), [j \in {ip} |-> [Loaded(ip) EXCEPT !.nlink = 0]])
           /\ Continue(t, <<Put(ip), I("unlockput", <<dp>>)>>)
           /\ entry' = entry /\ holder' = holder
  <2>1. disk[ip] = [type |-> NewType(t), nlink |-> 0]
    BY <1>1, <1>7 DEF Backed, Ref
  <2>2. [Loaded(ip) EXCEPT !.nlink = 0] = disk[ip]
    BY <1>7, <2>1
  <2>3. PICK tb : tb = Ilock(ip)
    OBVIOUS
  <2>4. PICK new : new = [j \in {ip} |-> disk[ip]] /\ Iupdate(tb, new)
    BY <1>9, <2>2, <2>3
  <2>5. tb \in [Inum -> Entry] /\ tb[ip].node = disk[ip]
    BY <1>7, <2>3, LockedTable DEF Inv
  <2>6. disk \in [Inum -> Node]
    BY DEF Inv, TypeOK
  <2>7. DOMAIN new = {ip} /\ new[ip] = disk[ip]
    BY <2>4
  <2>8. disk' = disk
    BY <2>4, <2>6, <2>7 DEF Iupdate
  <2>9. table' = tb
    <3>1. [tb[ip] EXCEPT !.node = disk[ip]] = tb[ip]
      BY <1>7, <2>5 DEF Entry
    <3>2. table' = [i \in Inum |-> IF i = ip THEN [tb[ip] EXCEPT !.node = disk[ip]] ELSE tb[i]]
      BY <2>4, <2>7 DEF Iupdate
    <3> QED
      BY <2>5, <3>1, <3>2
  <2> QED
    BY <1>1, <1>2, <1>5, <1>6, <1>9, <2>3, <2>8, <2>9, PairGivesUp
<1> QED
  BY <1>5, <1>8, <1>9

(* The parent counts the directories in it.                                *)
LEMMA ParentLink ==
  ASSUME TypeOK, LinkInv, NEW dp \in Inum, disk[dp].type # "free", NEW name \in FileName,
         entry[dp][name] # None, disk[entry[dp][name]].type = "dir"
  PROVE  disk[dp].nlink \in Nat \ {0}
<1>1. disk[dp].nlink \in Nat
  BY DEF TypeOK, Node
<1>2. name \in Subdirs(dp)
  BY DEF Subdirs
<1> QED
  BY <1>1, <1>2, Unlinkable

Removes(t, ip, dp, name, gone) ==
  /\ Iupdate(Ilock(ip), [j \in {dp} |-> [table[dp].node EXCEPT !.nlink = @ - gone]])
  /\ entry' = [entry EXCEPT ![dp][name] = None]
  /\ holder' = [holder EXCEPT ![dp] = None, ![ip] = t]
  /\ Continue(t, <<Put(dp), I("unlinked", <<ip>>)>>)
  /\ cwd' = cwd /\ ofile' = ofile /\ rest' = rest /\ calls' = calls

LEMMA VictimDoes ==
  ASSUME NoDots, Inv, NEW t \in Thread, Locks(t, "victim"),
         NEW ip \in Inum, ip = Ref(t, 1), NEW dp \in Inum, dp = Ref(t, 2),
         NEW name \in FileName, name = LastName(call[t].path),
         NEW gone \in {0, 1}, gone = IF disk[ip].type = "dir" THEN 1 ELSE 0,
         Removes(t, ip, dp, name, gone)
  PROVE  Inv'
<1> USE DEF Inv
<1>1. "victim" \in {"created", "victim"}
  OBVIOUS
<1>2. /\ Instruction(t).do = "victim" /\ Backed(t, Instruction(t)) /\ ip # dp /\ holder[ip] = None
      /\ disk[ip].type # "free"
      /\ disk[dp].type = "dir" /\ table[dp].valid /\ table[dp].node = disk[dp]
      /\ \A i \in Inum : ~Pledges(t, i)
  BY <1>1, PairAt
<1>3. entry[dp][name] = ip
  BY <1>2 DEF Backed, Ref
<1>4. PICK n \in Nat : n = disk[dp].nlink /\ n - gone \in Nat
  <2>1. disk[dp].nlink \in Nat
    BY DEF TypeOK, Node
  <2>2. CASE gone = 0
    BY <2>1, <2>2
  <2>3. CASE gone = 1
    <3>1. disk[ip].type = "dir" /\ ip # None
      BY <2>3, Constants
    <3>2. disk[dp].nlink \in Nat \ {0}
      BY <1>2, <1>3, <3>1, ParentLink
    <3> QED
      BY <2>3, <3>2
  <2> QED
    BY <2>2, <2>3
<1>5. disk \in [Inum -> Node] /\ disk[dp] \in Node
  BY DEF TypeOK
<1>6. PICK md : md = [disk[dp] EXCEPT !.nlink = n - gone]
  OBVIOUS
<1>7. md \in Node /\ md.type = disk[dp].type /\ md.nlink = n - gone
  <2>1. PICK old \in Node, k \in Nat : old = disk[dp] /\ k = n - gone
    BY <1>4, <1>5
  <2> QED
    BY ONLY <1>6, <2>1, Renumbered
<1>8. PICK tb : tb = Ilock(ip)
  OBVIOUS
<1>9. PICK new : new = [j \in {dp} |-> md] /\ Iupdate(tb, new)
  BY <1>2, <1>4, <1>6, <1>8 DEF Removes
<1>10. /\ tb \in [Inum -> Entry] /\ tb[ip].valid /\ tb[ip].node = disk[ip]
       /\ \A j \in Inum \ {ip} : tb[j].valid = table[j].valid /\ tb[j].node = table[j].node
       /\ \A j \in Inum \ {ip} : tb[j] = table[j]
       /\ \A j \in Inum : tb[j].ref = table[j].ref
  BY <1>2, <1>8, LockedTable
<1>11. /\ table' \in [Inum -> Entry] /\ disk' \in [Inum -> Node] /\ disk'[dp] = md
       /\ table'[dp].node = md /\ \A j \in Inum \ {dp} : disk'[j] = disk[j] /\ table'[j] = tb[j]
       /\ \A j \in Inum : table'[j].ref = tb[j].ref /\ table'[j].valid = tb[j].valid
  <2>1. dp \in Inum
    OBVIOUS
  <2> QED
    BY ONLY <1>5, <1>7, <1>9, <1>10, <2>1, Written, ZenonT(60)
<1>12. \A i \in Inum : disk'[i].type = disk[i].type
  BY <1>7, <1>11
<1>13. /\ entry' \in [Inum -> [Name -> Inum \cup {None}]]
       /\ entry'[dp][name] = None
       /\ \A d \in Inum, m \in FileName : entry'[d][m] = entry[d][m] \/ (d = dp /\ m = name)
       /\ \A i \in Inum \ {dp} : entry'[i] = entry[i]
  BY DEF TypeOK, FileName, Removes
<1>14. Moves(t, ip, dp, "unlinked")
  <2>1. /\ \A i \in Inum : table'[i].ref = table[i].ref
        /\ \A i \in {ip, dp} : table'[i].valid /\ table'[i].node = disk'[i]
        /\ \A i \in Inum \ {ip, dp} : /\ table'[i] = table[i] /\ disk'[i] = disk[i] /\ entry'[i] = entry[i]
    BY <1>2, <1>10, <1>11, <1>13
  <2> QED
    BY <1>12, <2>1 DEF Moves, Removes
<1>15. PICK end \in {"made", "unlinked"} : end = "unlinked"
  OBVIOUS
<1>16. Only(t) /\ \A i \in Inum : Pledges(t, i)' <=> i = ip
  <2>1. PairLeft(t, end, ip)
    <3> HIDE DEF Inv
    <3> QED
      BY <1>1, <1>14, <1>15, MovesLeaves
  <2> QED
    BY <1>15, <2>1 DEF PairLeft
<1>17. ASSUME NEW i \in Inum, Covered(i) PROVE Covered(i)'
  <2>1. PICK p \in Nat, q \in Nat, k \in Nat :
          p = (IF i = ip THEN 1 ELSE 0) /\ q = (IF i = dp THEN gone ELSE 0) /\ k = disk[i].nlink
    BY DEF TypeOK, Node
  <2>2. NameLink(i, dp, name) = p
    BY <1>2, <1>3, <2>1 DEF NameLink, Bit
  <2>3. NameLink(i, dp, name)' = 0 /\ SubLink(i, dp, name)' = 0
    BY <1>13, Constants DEF NameLink, SubLink, Bit
  <2>4. SubLink(i, dp, name) = q
    BY <1>3, <2>1, Constants DEF SubLink, Bit
  <2>5. Bit(Pledges(t, i)) = 0
    BY <1>2 DEF Bit
  <2>6. Bit(Pledges(t, i))' = p
    BY <1>16, <2>1 DEF Bit
  <2>7. disk'[i].nlink \in Nat /\ k = disk'[i].nlink + q
    <3>1. CASE i = dp
      <4>1. k = n /\ disk'[i].nlink = n - gone /\ q = gone
        BY <1>4, <1>7, <1>11, <2>1, <3>1
      <4> QED
        BY <1>4, <4>1
    <3>2. CASE i # dp
      <4>1. disk'[i].nlink = k /\ q = 0
        BY <1>11, <2>1, <3>2
      <4> QED
        BY <4>1
    <3> QED
      BY <3>1, <3>2
  <2>8. Weight(t, i, dp, name)' + disk[i].nlink <= Weight(t, i, dp, name) + disk'[i].nlink
    <3>1. PICK l \in Nat : l = disk'[i].nlink
      BY <2>7
    <3>2. Weight(t, i, dp, name) = p + q + 0
      BY <2>2, <2>4, <2>5 DEF Weight
    <3>3. Weight(t, i, dp, name)' = 0 + 0 + p
      BY <2>3, <2>6 DEF Weight
    <3>4. 0 + 0 + p + (l + q) <= p + q + 0 + l
      BY <2>1, <3>1
    <3> QED
      BY <2>1, <2>7, <3>1, <3>2, <3>3, <3>4
  <2>9. TypeOK /\ i \in Inum /\ dp \in Inum /\ name \in FileName /\ t \in Thread
    OBVIOUS
  <2> QED
    BY ONLY <1>11, <1>12, <1>13, <1>16, <1>17, <2>8, <2>9, CoverStep
<1>18. LinkInv'
  <2>1. \A d \in Inum, m \in FileName :
          /\ entry'[d][m] \in Inum \cup {None}
          /\ entry'[d][m] = entry[d][m] \/ entry'[d][m] = None
    BY <1>13 DEF FileName
  <2> QED
    BY <1>12, <1>17, <2>1, LinkStep
<1>19. FreeInv'
  <2>1. ASSUME NEW i \in Inum
        PROVE  /\ disk'[i].type = "free" => disk'[i] = Free
               /\ disk'[i].type # "dir" => entry'[i] = NoEntry
    BY <1>2, <1>7, <1>11, <1>13 DEF FreeInv
  <2> QED
    BY <2>1 DEF FreeInv, Free, NoEntry
<1> HIDE DEF Inv
<1> QED
  BY <1>1, <1>11, <1>13, <1>14, <1>15, <1>18, <1>19, PairMoves

LEMMA VictimInv ==
  ASSUME NoDots, Inv, NEW t \in Thread, Victim(t)
  PROVE  Inv'
<1>1. PICK ip : ip = Ref(t, 1)
  OBVIOUS
<1>2. PICK dp : dp = Ref(t, 2)
  OBVIOUS
<1>3. PICK name : name = LastName(call[t].path)
  OBVIOUS
<1>4. Locks(t, "victim") /\ "victim" \in {"created", "victim"}
  BY DEF Victim
<1>5. /\ ip \in Inum /\ dp \in Inum /\ name \in FileName /\ Loaded(ip) = disk[ip]
      /\ table[dp].node = disk[dp]
  BY <1>1, <1>2, <1>3, <1>4, PairAt
<1>6. PICK gone \in {0, 1} : gone = IF disk[ip].type = "dir" THEN 1 ELSE 0
  OBVIOUS
<1>7. CASE /\ table' = Ilock(ip) /\ Continue(t, <<Put(ip), I("unlockput", <<dp>>)>>)
           /\ disk' = disk /\ entry' = entry /\ holder' = holder
           /\ cwd' = cwd /\ ofile' = ofile /\ rest' = rest /\ calls' = calls
  BY <1>1, <1>2, <1>4, <1>7, PairGivesUp
<1>8. CASE Removes(t, ip, dp, name, gone)
  <2>1. NoDots /\ Inv /\ t \in Thread
    OBVIOUS
  <2> QED
    BY ONLY <1>1, <1>2, <1>3, <1>4, <1>5, <1>6, <1>8, <2>1, VictimDoes
<1>9. [disk[dp] EXCEPT !.nlink = IF disk[ip].type = "dir" THEN @ - 1 ELSE @] = [disk[dp] EXCEPT !.nlink = @ - gone]
  <2>1. disk[dp] \in Node /\ disk[dp].nlink \in Nat /\ \A k \in Nat : k - 0 = k
    BY <1>5 DEF Inv, TypeOK, Node
  <2>2. (IF disk[ip].type = "dir" THEN disk[dp].nlink - 1 ELSE disk[dp].nlink) = disk[dp].nlink - gone
    BY <1>6, <2>1
  <2> QED
    BY <2>2
<1>10. \/ /\ table' = Ilock(ip) /\ Continue(t, <<Put(ip), I("unlockput", <<dp>>)>>)
          /\ disk' = disk /\ entry' = entry /\ holder' = holder
          /\ cwd' = cwd /\ ofile' = ofile /\ rest' = rest /\ calls' = calls
       \/ /\ Iupdate(Ilock(ip), [j \in {dp} |-> [table[dp].node EXCEPT !.nlink =
                                                   IF Loaded(ip).type = "dir" THEN @ - 1 ELSE @]])
          /\ entry' = [entry EXCEPT ![dp][name] = None]
          /\ holder' = [holder EXCEPT ![dp] = None, ![ip] = t]
          /\ Continue(t, <<Put(dp), I("unlinked", <<ip>>)>>)
          /\ cwd' = cwd /\ ofile' = ofile /\ rest' = rest /\ calls' = calls
  BY <1>1, <1>2, <1>3 DEF Victim, onDisk, files
<1>11. [j \in {dp} |-> [table[dp].node EXCEPT !.nlink = IF Loaded(ip).type = "dir" THEN @ - 1 ELSE @]]
         = [j \in {dp} |-> [table[dp].node EXCEPT !.nlink = @ - gone]]
  BY <1>5, <1>9
<1> QED
  BY <1>7, <1>8, <1>10, <1>11 DEF Removes

(***************************************************************************)
(* iput() frees the inode: nobody else refers to it, so neither do entries *)
(* nor other threads.                                                      *)
(***************************************************************************)
LEMMA FreedLinks ==
  ASSUME Inv, NEW t \in Thread, Only(t), NEW ip \in Inum, disk[ip].type # "free", disk[ip].nlink = 0,
         disk' \in [Inum -> Node], disk'[ip] = Free, \A j \in Inum \ {ip} : disk'[j] = disk[j],
         entry' = [entry EXCEPT ![ip] = NoEntry],
         \A i \in Inum : Pledges(t, i)' => Pledges(t, i)
  PROVE  LinkInv' /\ FreeInv'
<1> USE DEF Inv
<1>1. ip # RootIno /\ ~Named(ip)
  BY Unlinkable
<1>2. disk'[ip].type = "free"
  BY DEF Free
<1>3. /\ \A i \in Inum \ {ip} : entry'[i] = entry[i] /\ disk'[i] = disk[i]
      /\ entry'[ip] = NoEntry
  BY DEF TypeOK
<1>4. FreeInv'
  <2>1. ASSUME NEW i \in Inum
        PROVE  /\ disk'[i].type = "free" => disk'[i] = Free
               /\ disk'[i].type # "dir" => entry'[i] = NoEntry
    BY <1>2, <1>3 DEF FreeInv
  <2> QED
    BY <2>1 DEF FreeInv, Free, NoEntry
<1>5. \A d \in Inum, m \in FileName :
        disk'[d].type = "dir" /\ entry'[d][m] # None =>
          d # ip /\ disk[d].type = "dir" /\ entry'[d][m] = entry[d][m] /\ entry[d][m] \in Inum \ {ip}
  <2>1. ASSUME NEW d \in Inum, NEW m \in FileName, disk'[d].type = "dir", entry'[d][m] # None
        PROVE  d # ip /\ disk[d].type = "dir" /\ entry'[d][m] = entry[d][m] /\ entry[d][m] \in Inum \ {ip}
    <3>1. d # ip
      BY <1>2, <2>1
    <3>2. disk[d].type = "dir" /\ entry'[d][m] = entry[d][m]
      BY <1>3, <2>1, <3>1
    <3>3. entry[d][m] \in Inum \cup {None}
      BY DEF TypeOK, FileName
    <3> QED
      BY <1>1, <2>1, <3>1, <3>2, <3>3 DEF Named
  <2> QED
    BY <2>1
<1>6. NoDangling'
  <2>1. ASSUME NEW d \in Inum, NEW m \in FileName, disk'[d].type = "dir", entry'[d][m] # None
        PROVE  disk'[entry'[d][m]].type # "free"
    <3>1. PICK i \in Inum \ {ip} : i = entry[d][m] /\ i = entry'[d][m] /\ disk[d].type = "dir" /\ i # None
      BY <1>5, <2>1
    <3>2. disk[i].type # "free"
      BY <3>1 DEF LinkInv, NoDangling
    <3> QED
      BY <1>3, <3>1, <3>2
  <2> QED
    BY <2>1 DEF NoDangling
<1>7. \A i \in Inum : Namers(i)' \subseteq Namers(i)
  <2>1. ASSUME NEW i \in Inum, NEW d \in Inum, NEW m \in FileName, <<d, m>> \in Namers(i)'
        PROVE <<d, m>> \in Namers(i)
    <3>1. disk'[d].type = "dir" /\ entry'[d][m] = i /\ i # None
      BY <2>1, Constants DEF Namers
    <3>2. disk[d].type = "dir" /\ entry[d][m] = i
      BY <1>5, <3>1
    <3> QED
      BY <3>2 DEF Namers
  <2> QED
    BY <2>1 DEF Namers
<1>8. \A i \in Inum : Subdirs(i)' \subseteq Subdirs(i)
  <2>1. ASSUME NEW i \in Inum, NEW m \in FileName, m \in Subdirs(i)' PROVE m \in Subdirs(i)
    <3>1. entry'[i][m] # None /\ disk'[entry'[i][m]].type = "dir"
      BY <2>1 DEF Subdirs
    <3>2. i # ip
      BY <1>3, <3>1 DEF NoEntry, FileName
    <3>3. entry'[i][m] = entry[i][m] /\ entry[i][m] \in Inum
      BY <1>3, <3>1, <3>2 DEF TypeOK, FileName
    <3>4. entry[i][m] # ip
      BY <1>2, <3>1, <3>3
    <3> QED
      BY <1>3, <3>1, <3>3, <3>4 DEF Subdirs
  <2> QED
    BY <2>1 DEF Subdirs
<1>9. \A i \in Inum : Pledgers(i)' \subseteq Pledgers(i)
  BY Unmoved DEF Pledgers, Only
<1>10. ASSUME NEW i \in Inum, disk'[i].type # "free"
       PROVE Links(i)' + Cardinality(Pledgers(i))' <= disk'[i].nlink
  <2>1. PICK a \in Nat, b \in Nat : /\ a = Links(i) + Cardinality(Pledgers(i))
                                    /\ b = Links(i)' + Cardinality(Pledgers(i))' /\ b <= a
    BY <1>7, <1>8, <1>9, Fewer
  <2>2. i # ip
    BY <1>2, <1>10
  <2>3. PICK n \in Nat : n = disk[i].nlink
    BY DEF TypeOK, Node
  <2>4. disk'[i] = disk[i] /\ a <= n
    BY <1>3, <1>10, <2>1, <2>2, <2>3 DEF LinkInv
  <2> QED
    BY <2>1, <2>3, <2>4
<1>11. disk'[RootIno].type = "dir"
  BY <1>1, <1>3, Constants DEF LinkInv
<1> QED
  BY <1>4, <1>6, <1>10, <1>11 DEF LinkInv

LEMMA IputFreesInv ==
  ASSUME Inv, NEW t \in Thread, IputFrees(t)
  PROVE  Inv'
<1> USE DEF Inv
<1>1. /\ At(t, "free") /\ Iupdate(table, [j \in {Ref(t, 1)} |-> Free])
      /\ entry' = [entry EXCEPT ![Ref(t, 1)] = NoEntry] /\ Continue(t, <<I("freed", <<Ref(t, 1)>>)>>)
      /\ holder' = holder /\ cwd' = cwd /\ ofile' = ofile /\ rest' = rest /\ calls' = calls
  BY DEF IputFrees, files
<1>2. "free" \in Puts \cup {"unlockput", "made", "unlinked"} /\ "freed" \in Puts
  BY DEF Puts
<1>3. PICK ip \in Inum : ip = Ref(t, 1)
  BY <1>1, <1>2, HeldAt
<1>4. /\ todo[t] # <<>> /\ Instruction(t).do = "free" /\ Instruction(t) \in Left(t)
      /\ Left(t) = {Instruction(t)} \cup Later(t)
      /\ \A j : Needs(Instruction(t), j) <=> j = ip
      /\ Backed(t, Instruction(t)) /\ Owned(Instruction(t)) = ip
  BY <1>1, <1>2, <1>3, HeldAt DEF Puts
<1>5. disk[ip].type # "free" /\ holder[ip] = t /\ Mine(t, ip) /\ Uses(t, ip)
  BY <1>4, Constants DEF Backed, Mine, Uses
<1>6. disk[ip].nlink = 0 /\ \A u \in Thread : ~Works(u, ip) /\ \A x \in Others(t, u) : ~Needs(x, ip)
  BY <1>1, <1>3 DEF SoleInv, Secret, Sole
<1>7. table \in [Inum -> Entry] /\ disk \in [Inum -> Node] /\ Free \in Node
  BY DEF TypeOK, Entry, Node, Free
<1>8. PICK new : new = [j \in {ip} |-> Free] /\ Iupdate(table, new)
  BY <1>1, <1>3
<1>9. /\ table' \in [Inum -> Entry] /\ disk' \in [Inum -> Node] /\ disk'[ip] = Free
      /\ table'[ip].node = Free /\ \A j \in Inum \ {ip} : disk'[j] = disk[j] /\ table'[j] = table[j]
      /\ \A j \in Inum : table'[j].ref = table[j].ref /\ table'[j].valid = table[j].valid
  <2>1. PICK nd \in Node : nd = Free
    BY <1>7
  <2> QED
    BY <1>7, <1>8, <2>1, Written
<1>10. PICK x : x = I("freed", <<ip>>)
  OBVIOUS
<1>11. /\ x \in Instr /\ x.do = "freed" /\ Len(x.refs) = 1 /\ x.refs[1] = ip
       /\ (\A j : ~Needs(x, j)) /\ Owned(x) = ip
  BY <1>2, <1>10, Single
<1>12. Continue(t, <<x>>)
  BY <1>1, <1>3, <1>10
<1>13. Backed(t, x)'
  <2>1. Owned(x) # None => holder'[Owned(x)] = t
    BY <1>1, <1>5, <1>11
  <2> QED
    BY <1>11, <2>1 DEF Backed
<1>14. /\ ThreadTypes' /\ Only(t) /\ TodoStep(t)
       /\ \A i \in Inum : Own(t, i)' = Own(t, i)
       /\ \A i : Held(t, i)' = Held(t, i)
       /\ \A i \in Inum : /\ Works(t, i)' = Works(t, i)
                          /\ \A y \in Left(t)' : Needs(y, i) => Uses(t, i) \/ (i = Ref(t, 1) /\ y = x)
                          /\ Pledges(t, i)' => Pledges(t, i)
  <2>1. holder' \in [Inum -> Thread \cup {None}]
    BY <1>1 DEF TypeOK
  <2>2. \A y \in Later(t) : Owned(y) # Ref(t, 1)
    BY <1>4 DEF ThreadInv, Chained
  <2>3. \A i \in Inum : holder'[i] = t => holder[i] = t \/ Owned(x) = i
    BY <1>1
  <2>4. x.do \in Puts /\ x.do # "free" /\ x.refs[1] = Ref(t, 1) /\ Owned(x) = Ref(t, 1)
    BY <1>2, <1>3, <1>11
  <2> QED
    BY <1>1, <1>2, <1>11, <1>12, <1>13, <2>1, <2>2, <2>3, <2>4, GoesOnWith
<1>15. LinkInv' /\ FreeInv'
  BY <1>1, <1>3, <1>5, <1>6, <1>9, <1>14, FreedLinks
<1>16. LocksStep(t) /\ EntryStep(t)
  BY <1>1, <1>3, <1>5 DEF LocksStep, EntryStep, TypeOK
<1>17. DiskStep(t)
  BY <1>1, <1>3, <1>5, <1>9 DEF DiskStep
<1>18. At(t, "freed")' /\ Ref(t, 1)' = ip
  <2>1. todo'[t] # <<>> /\ Instruction(t)' = x
    BY <1>4, <1>11, <1>12, Continued1
  <2> QED
    BY <1>11, <2>1 DEF At, Ref
<1>19. CacheStep(t)
  <2>1. ~At(t, "freed")
    BY <1>4 DEF At
  <2> QED
    BY <1>9, <1>18, <2>1 DEF CacheStep
<1>20. UsesStep(t)
  <2>1. ASSUME NEW i \in Inum, Uses(t, i)' PROVE Uses(t, i)
    BY <1>3, <1>5, <1>14, <2>1 DEF Uses
  <2> QED
    BY <1>6, <1>14, <2>1 DEF UsesStep, Uses
<1>21. RefStep(t)
  <2>1. ASSUME NEW i \in Inum
        PROVE  \E o \in Nat, m \in Nat : /\ Held(t, i)' = Held(t, i) - o + m
                                         /\ table'[i].ref = table[i].ref - o + m
    <3>1. PICK h \in Nat, s \in Nat, o \in Nat : h = Held(t, i) /\ s = table[i].ref /\ o = 0
      BY Numbers DEF TypeOK
    <3>2. Held(t, i)' = h - o + o /\ table'[i].ref = s - o + o
      BY <1>9, <1>14, <3>1
    <3> QED
      BY <3>1, <3>2
  <2> QED
    BY <1>14, <2>1, RefMoved
<1>22. Types' /\ entry' \in [Inum -> [Name -> Inum \cup {None}]]
  BY <1>1, <1>9, <1>14 DEF Types, TypeOK, NoEntry
<1> QED
  BY <1>9, <1>14, <1>15, <1>16, <1>17, <1>19, <1>20, <1>21, <1>22, DiskWrite

(***************************************************************************)
(* The invariant.                                                          *)
(***************************************************************************)
LEMMA OneOf ==
  ASSUME NEW A, NEW a, A = {a} PROVE Cardinality(A) = 1
BY FS_Singleton

LEMMA NoneOf ==
  ASSUME NEW A, A = {} PROVE Cardinality(A) = 0
BY FS_EmptySet

LEMMA InitDisk ==
  ASSUME Init
  PROVE  \E where \in {None, 1, 2}, m \in FileName \ {Home} :
           /\ disk[1] = [type |-> "dir", nlink |-> 2] /\ disk[2] = [type |-> "dir", nlink |-> 1]
           /\ disk[3] = IF where # None THEN [type |-> "file", nlink |-> 1] ELSE Free
           /\ \A i \in Inum \ {1, 2, 3} : disk[i] = Free
           /\ \A k \in FileName :
                /\ entry[1][k] = IF k = Home THEN 2 ELSE IF where = 1 /\ k = m THEN 3 ELSE None
                /\ entry[2][k] = IF where = 2 /\ k = m THEN 3 ELSE None
           /\ \A i \in Inum \ {1, 2} : entry[i] = NoEntry
           /\ disk \in [Inum -> Node] /\ entry \in [Inum -> [Name -> Inum \cup {None}]]
<1>1. 1 \in Inum /\ 2 \in Inum /\ 3 \in Inum /\ None \notin Inum /\ Home \in FileName /\ RootIno = 1
  BY InodesAssumption DEF Inum, FileName, RootIno
<1>2. PICK where \in {None, 1, 2}, m \in FileName \ {Home} :
        /\ disk = [i \in Inum |-> CASE i = 1 -> [type |-> "dir", nlink |-> 2]
                                    [] i = 2 -> [type |-> "dir", nlink |-> 1]
                                    [] i = 3 /\ where # None -> [type |-> "file", nlink |-> 1]
                                    [] OTHER -> Free]
        /\ entry = [i \in Inum |->
                      IF i \in {1, 2}
                      THEN [k \in Name |-> CASE k = DotDot -> 1
                                             [] k = Home /\ i = 1 -> 2
                                             [] OTHER -> IF where = i /\ k = m THEN 3 ELSE None]
                      ELSE NoEntry]
  BY <1>1 DEF Init
<1>3. /\ disk[1] = [type |-> "dir", nlink |-> 2] /\ disk[2] = [type |-> "dir", nlink |-> 1]
      /\ disk[3] = IF where # None THEN [type |-> "file", nlink |-> 1] ELSE Free
      /\ \A i \in Inum \ {1, 2, 3} : disk[i] = Free
  BY <1>1, <1>2
<1>4. \A k \in FileName :
        /\ entry[1][k] = IF k = Home THEN 2 ELSE IF where = 1 /\ k = m THEN 3 ELSE None
        /\ entry[2][k] = IF where = 2 /\ k = m THEN 3 ELSE None
  BY <1>1, <1>2 DEF FileName
<1>5. \A i \in Inum \ {1, 2} : entry[i] = NoEntry
  BY <1>1, <1>2
<1>6. disk \in [Inum -> Node]
  <2>1. /\ [type |-> "dir", nlink |-> 2] \in Node /\ [type |-> "dir", nlink |-> 1] \in Node
        /\ [type |-> "file", nlink |-> 1] \in Node /\ Free \in Node
    BY DEF Node, Free
  <2>2. \A i \in Inum : disk[i] \in Node
    BY <1>1, <1>3, <2>1
  <2>3. disk = [i \in Inum |-> disk[i]]
    BY <1>2
  <2> QED
    BY <2>2, <2>3
<1>7. entry \in [Inum -> [Name -> Inum \cup {None}]]
  <2>1. NoEntry \in [Name -> Inum \cup {None}]
    BY DEF NoEntry
  <2>2. ASSUME NEW i \in {1, 2} PROVE entry[i] \in [Name -> Inum \cup {None}]
    BY <1>1, <1>2
  <2>3. \A i \in Inum : entry[i] \in [Name -> Inum \cup {None}]
    BY <1>5, <2>1, <2>2
  <2>4. entry = [i \in Inum |-> entry[i]]
    BY <1>2
  <2> QED
    BY <2>3, <2>4
<1> QED
  BY <1>3, <1>4, <1>5, <1>6, <1>7

(* No thread does anything at first.                                       *)
LEMMA InitThreads ==
  ASSUME Init
  PROVE  /\ holder = [i \in Inum |-> None]
         /\ cwd = [t \in Thread |-> RootIno] /\ ofile = [t \in Thread |-> None]
         /\ call = [t \in Thread |-> None] /\ rest = [t \in Thread |-> <<>>]
         /\ todo = [t \in Thread |-> <<>>] /\ calls = 0
         /\ table = [i \in Inum |-> IF i = RootIno THEN [Unused EXCEPT !.ref = Cardinality(Thread)]
                                                   ELSE Unused]
         /\ \A t \in Thread : /\ todo[t] = <<>> /\ Left(t) = {} /\ Later(t) = {} /\ ~Leaving(t)
                              /\ \A i \in Inum : ~Pledges(t, i)
<1>1. /\ holder = [i \in Inum |-> None]
      /\ cwd = [t \in Thread |-> RootIno] /\ ofile = [t \in Thread |-> None]
      /\ call = [t \in Thread |-> None] /\ rest = [t \in Thread |-> <<>>]
      /\ todo = [t \in Thread |-> <<>>] /\ calls = 0
      /\ table = [i \in Inum |-> IF i = RootIno THEN [Unused EXCEPT !.ref = Cardinality(Thread)]
                                                ELSE Unused]
  BY DEF Init
<1>2. \A t \in Thread : todo[t] = <<>>
  BY <1>1
<1>3. \A t \in Thread : Left(t) = {} /\ Later(t) = {}
  BY <1>2 DEF Left, Later
<1>4. \A t \in Thread : ~Leaving(t) /\ \A i \in Inum : ~Pledges(t, i)
  BY <1>3 DEF Leaving, Pledges
<1> QED
  BY <1>1, <1>2, <1>3, <1>4

LEMMA InitLinks ==
  ASSUME Init PROVE LinkInv /\ FreeInv
<1>1. PICK where \in {None, 1, 2}, m \in FileName \ {Home} :
         /\ disk[1] = [type |-> "dir", nlink |-> 2] /\ disk[2] = [type |-> "dir", nlink |-> 1]
         /\ disk[3] = IF where # None THEN [type |-> "file", nlink |-> 1] ELSE Free
         /\ \A i \in Inum \ {1, 2, 3} : disk[i] = Free
         /\ \A k \in FileName :
              /\ entry[1][k] = IF k = Home THEN 2 ELSE IF where = 1 /\ k = m THEN 3 ELSE None
              /\ entry[2][k] = IF where = 2 /\ k = m THEN 3 ELSE None
         /\ \A i \in Inum \ {1, 2} : entry[i] = NoEntry
  BY InitDisk
<1>2. 1 \in Inum /\ 2 \in Inum /\ 3 \in Inum /\ None \notin Inum /\ Home \in FileName /\ RootIno = 1
  BY InodesAssumption DEF Inum, FileName, RootIno
<1>3. /\ disk[1].type = "dir" /\ disk[2].type = "dir"
      /\ \A i \in Inum \ {1, 2} : disk[i].type # "dir" /\ (disk[i].type # "free" => i = 3 /\ where # None)
      /\ Free.type = "free"
  BY <1>1, <1>2 DEF Free
<1>4. FreeInv
  BY <1>1, <1>2, <1>3 DEF FreeInv
<1>5. NoDangling
  <2>1. ASSUME NEW d \in Inum, NEW n \in FileName, disk[d].type = "dir", entry[d][n] # None
        PROVE  disk[entry[d][n]].type # "free"
    <3>1. d = 1 \/ d = 2
      BY <1>3, <2>1
    <3>2. entry[d][n] = 2 \/ (entry[d][n] = 3 /\ where # None)
      BY <1>1, <1>2, <2>1, <3>1
    <3> QED
      BY <1>1, <1>3, <3>2
  <2> QED
    BY <2>1 DEF NoDangling
<1>6. \A i \in Inum : Pledgers(i) = {}
  BY InitThreads DEF Pledgers
<1>7. Links(1) <= 2
  <2>1. Namers(1) = {}
    BY <1>1, <1>2, <1>3 DEF Namers
  <2>2. Subdirs(1) = {Home}
    BY <1>1, <1>2, <1>3 DEF Subdirs
  <2>3. Cardinality(Namers(1)) = 0 /\ Cardinality(Subdirs(1)) = 1
    BY <2>1, <2>2, OneOf, NoneOf
  <2> QED
    BY <1>2, <2>3, LinkCount DEF Count
<1>8. Links(2) <= 1
  <2>1. Namers(2) = {<<1, Home>>}
    <3>1. ASSUME NEW d \in Inum, NEW n \in FileName
          PROVE  (disk[d].type = "dir" /\ entry[d][n] = 2) <=> d = 1 /\ n = Home
      BY <1>1, <1>2, <1>3
    <3> QED
      BY <1>2, <3>1 DEF Namers
  <2>2. Subdirs(2) = {}
    BY <1>1, <1>2, <1>3 DEF Subdirs
  <2>3. Cardinality(Namers(2)) = 1 /\ Cardinality(Subdirs(2)) = 0
    BY <2>1, <2>2, OneOf, NoneOf
  <2> QED
    BY <1>2, <2>3, LinkCount DEF Count
<1>9. where # None => Links(3) <= 1
  <2>1. SUFFICES ASSUME where # None PROVE Links(3) <= 1
    OBVIOUS
  <2>2. Namers(3) = {<<where, m>>}
    <3>1. ASSUME NEW d \in Inum, NEW n \in FileName
          PROVE  (disk[d].type = "dir" /\ entry[d][n] = 3) <=> d = where /\ n = m
      BY <1>1, <1>2, <1>3, <2>1
    <3> QED
      BY <1>2, <2>1, <3>1 DEF Namers
  <2>3. Subdirs(3) = {}
    BY <1>1, <1>2 DEF Subdirs, NoEntry, FileName
  <2>4. Cardinality(Namers(3)) = 1 /\ Cardinality(Subdirs(3)) = 0
    BY <2>2, <2>3, OneOf, NoneOf
  <2> QED
    BY <1>2, <2>4, LinkCount DEF Count
<1>10. ASSUME NEW i \in Inum, disk[i].type # "free"
       PROVE  Links(i) + Cardinality(Pledgers(i)) <= disk[i].nlink
  <2>1. Cardinality(Pledgers(i)) = 0
    BY <1>6, NoneOf
  <2>2. i = 1 \/ i = 2 \/ (i = 3 /\ where # None)
    BY <1>3, <1>10
  <2>3. Links(i) <= disk[i].nlink
    BY <1>1, <1>7, <1>8, <1>9, <2>2
  <2>4. PICK l \in Nat : l = Links(i)
    BY LinkCount DEF Count
  <2>5. l + 0 = l
    BY <2>4
  <2> QED
    BY <2>1, <2>3, <2>4, <2>5
<1> QED
  BY <1>2, <1>3, <1>4, <1>5, <1>10 DEF LinkInv

LEMMA InitRefs ==
  ASSUME Init PROVE RefInv
<1>1. ASSUME NEW i \in Inum
      PROVE  table[i].ref = Cardinality(Files(i)) + Cardinality(Dirs(i)) + Cardinality(Pointers(i))
  <2>1. Files(i) = {}
    BY InitThreads, Constants DEF Files
  <2>2. Pointers(i) = {}
    <3>1. \A x \in Thread \X (1 .. 3) \X (1 .. 2) : ~(x[2] <= Len(todo[x[1]]))
      <4>1. ASSUME NEW t \in Thread, NEW k \in 1 .. 3, NEW j \in 1 .. 2
            PROVE  ~(<<t, k, j>>[2] <= Len(todo[<<t, k, j>>[1]]))
        <5>1. Len(todo[t]) = 0
          BY InitThreads
        <5> QED
          BY <5>1
      <4> QED
        BY <4>1
    <3> QED
      BY <3>1 DEF Pointers
  <2>3. Cardinality(Files(i)) = 0 /\ Cardinality(Pointers(i)) = 0
    BY <2>1, <2>2, NoneOf
  <2>4. table[i].ref = Cardinality(Dirs(i)) /\ Cardinality(Dirs(i)) \in Nat
    <3>1. CASE i = RootIno
      <4>1. Dirs(i) = Thread
        BY <3>1, InitThreads DEF Dirs
      <4> QED
        BY <3>1, <4>1, InitThreads, Constants, FS_CardinalityType DEF Unused
    <3>2. CASE i # RootIno
      <4>1. Dirs(i) = {}
        BY <3>2, InitThreads DEF Dirs
      <4>2. Cardinality(Dirs(i)) = 0
        BY <4>1, NoneOf
      <4> QED
        BY <3>2, <4>2, InitThreads DEF Unused
    <3> QED
      BY <3>1, <3>2
  <2> QED
    BY <2>3, <2>4
<1> QED
  BY <1>1 DEF RefInv

LEMMA InitInv ==
  ASSUME Init PROVE Inv
<1>1. /\ disk \in [Inum -> Node] /\ entry \in [Inum -> [Name -> Inum \cup {None}]]
      /\ disk[1].type = "dir" /\ RootIno = 1
  BY InitDisk DEF RootIno
<1>2. TypeOK
  <2>1. table \in [Inum -> [ref : Nat, valid : BOOLEAN, node : Node]]
    <3>1. Cardinality(Thread) \in Nat
      BY Constants, FS_CardinalityType
    <3>2. Free \in Node
      BY DEF Free, Node
    <3>3. Unused \in Entry /\ [Unused EXCEPT !.ref = Cardinality(Thread)] \in Entry
      BY <3>1, <3>2 DEF Unused, Entry
    <3> QED
      BY <3>3, InitThreads DEF Entry
  <2>2. /\ holder \in [Inum -> Thread \cup {None}]
        /\ cwd \in [Thread -> Inum] /\ ofile \in [Thread -> Inum \cup {None}]
        /\ call \in [Thread -> [kind : Kind, path : Path, new : Path] \cup {None}]
        /\ rest \in [Thread -> Seq(Name)] /\ calls \in 0 .. MaxCalls
    <3>1. RootIno \in Inum /\ <<>> \in Seq(Name) /\ 0 \in 0 .. MaxCalls
      BY Constants, InodesAssumption
    <3> QED
      BY ONLY <3>1, InitThreads, Init
  <2>3. \A t \in Thread : \A k \in DOMAIN todo[t] : todo[t][k].refs \in Seq(Inum) \ {<<>>}
    BY InitThreads
  <2> QED
    BY <1>1, <2>1, <2>2, <2>3 DEF TypeOK
<1>3. ThreadInv
  <2>1. todo \in [Thread -> Seq(Instr)] /\ rest \in [Thread -> Seq(FileName)]
    <3>1. <<>> \in Seq(Instr) /\ <<>> \in Seq(FileName)
      OBVIOUS
    <3> QED
      BY ONLY <3>1, InitThreads, Init
  <2>2. ASSUME NEW t \in Thread PROVE Chained(t) /\ \A x \in Left(t) : Shaped(t, x) /\ Backed(t, x)
    <3>1. todo[t] = <<>> /\ Left(t) = {} /\ Later(t) = {}
      BY InitThreads
    <3>2. Len(todo[t]) = 0
      BY <3>1
    <3> QED
      BY <3>1, <3>2 DEF Chained
  <2>3. ASSUME NEW t \in Thread, NEW i \in Inum, Works(t, i) PROVE disk[i].type # "free"
    <3>1. i = RootIno
      BY <2>3, InitThreads, Constants DEF Works
    <3> QED
      BY <1>1, <3>1
  <2> QED
    BY <2>1, <2>2, <2>3 DEF ThreadInv
<1>4. LockInv
  <2>1. \A i \in Inum : holder[i] = None /\ ~table[i].valid
    BY InitThreads DEF Unused
  <2> QED
    BY <2>1, Constants DEF LockInv
<1>5. SoleInv
  BY InitThreads DEF SoleInv, Secret, At
<1> QED
  BY <1>2, <1>3, <1>4, <1>5, InitLinks, InitRefs DEF Inv

LEMMA StepInv ==
  ASSUME NoDots, Inv, NEW t \in Thread, Step(t)
  PROVE  Inv'
<1>1. ASSUME NEW do \in {"walk", "walkparent"}, Walk(t, do) PROVE Inv'
  BY <1>1, WalkInv
<1>2. CASE Iput(t)
  BY <1>2, IputInv
<1>3. CASE IputFrees(t)
  BY <1>3, IputFreesInv
<1>4. CASE IputInvalidates(t)
  BY <1>4, IputInvalidatesInv
<1>5. CASE IputDrops(t)
  BY <1>5, IputDropsInv
<1>6. CASE UnlockPut(t)
  BY <1>6, UnlockPutInv
<1>7. CASE Open(t)
  BY <1>7, OpenInv
<1>8. CASE Existing(t)
  BY <1>8, ExistingInv
<1>9. CASE Made(t)
  BY <1>9, MadeInv
<1>10. CASE Create(t)
  BY <1>10, CreateInv
<1>11. CASE Created(t)
  BY <1>11, CreatedInv
<1>12. CASE Unlink(t)
  BY <1>12, UnlinkInv
<1>13. CASE Victim(t)
  BY <1>13, VictimInv
<1>14. CASE Unlinked(t)
  BY <1>14, UnlinkedInv
<1>15. CASE Link(t)
  BY <1>15, LinkInvKept
<1>16. CASE LinkTo(t)
  BY <1>16, LinkToInv
<1>17. CASE BadLink(t)
  BY <1>17, BadLinkInv
<1>18. CASE Chdir(t)
  BY <1>18, ChdirInv
<1>19. CASE SetCwd(t)
  BY <1>19, SetCwdInv
<1> QED
  BY <1>1, <1>2, <1>3, <1>4, <1>5, <1>6, <1>7, <1>8, <1>9, <1>10, <1>11, <1>12, <1>13, <1>14, <1>15,
     <1>16, <1>17, <1>18, <1>19 DEF Step

LEMMA NextInv ==
  ASSUME NoDots, Inv, Next
  PROVE  Inv'
<1>1. ASSUME NEW t \in Thread, NEW path \in Path, NEW kind \in Kind \ {"link"}, Begin(t, kind, path, path)
      PROVE  Inv'
  BY <1>1, BeginInv
<1>2. ASSUME NEW t \in Thread, NEW path \in Path, NEW new \in NewPath, Begin(t, "link", path, new)
      PROVE  Inv'
  <2>1. PICK kind \in Kind : kind = "link"
    BY DEF Kind
  <2>2. new \in Path
    BY InodesAssumption
  <2> QED
    BY <1>2, <2>1, <2>2, BeginInv
<1> QED
  BY <1>1, <1>2, StepInv, CloseInv DEF Next

(* A step that changes nothing.                                            *)
LEMMA StutterInv ==
  ASSUME Inv, UNCHANGED vars
  PROVE  Inv'
<1>1. /\ disk' = disk /\ entry' = entry /\ table' = table /\ holder' = holder /\ cwd' = cwd /\ ofile' = ofile
      /\ call' = call /\ rest' = rest /\ todo' = todo /\ calls' = calls
  BY DEF vars, onDisk, files
<1>2. TypeOK'
  BY <1>1 DEF Inv, TypeOK
<1>3. \A t : Left(t)' = Left(t) /\ Later(t)' = Later(t) /\ Leaving(t)' = Leaving(t) /\ Instruction(t)' = Instruction(t)
  BY <1>1 DEF Left, Later, Leaving, Instruction
<1>4. \A t, x : Shaped(t, x)' = Shaped(t, x) /\ Backed(t, x)' = Backed(t, x)
  BY <1>1 DEF Shaped, Backed, NewType
<1>5. \A t : Chained(t)' = Chained(t)
  BY <1>1, <1>3 DEF Chained, Ref
<1>6. ThreadInv'
  BY <1>1, <1>3, <1>4, <1>5 DEF Inv, ThreadInv, Works
<1>7. LockInv'
  BY <1>1, <1>3 DEF Inv, LockInv, At, Ref
<1>8. SoleInv'
  BY <1>1, <1>3 DEF Inv, SoleInv, Secret, Sole, Works, Others, At, Ref
<1>9. FreeInv'
  BY <1>1 DEF Inv, FreeInv, NoEntry, Free
<1>10. LinkInv'
  <2>1. \A i : Pledgers(i)' = Pledgers(i) /\ Links(i)' = Links(i)
    BY <1>1, <1>3 DEF Pledgers, Pledges, Links
  <2> QED
    BY <1>1, <2>1 DEF Inv, LinkInv, NoDangling
<1>11. RefInv'
  <2>1. \A i : Files(i)' = Files(i) /\ Dirs(i)' = Dirs(i) /\ Pointers(i)' = Pointers(i)
    BY <1>1, <1>3 DEF Files, Dirs, Pointers
  <2> QED
    BY <1>1, <2>1 DEF Inv, RefInv
<1> QED
  BY <1>2, <1>6, <1>7, <1>8, <1>9, <1>10, <1>11 DEF Inv

(* What is to be shown follows.                                            *)
LEMMA RefsFollow ==
  ASSUME Inv PROVE RefsCounted
<1> DEFINE At1(i) == {t \in Thread : cwd[t] = i /\ \A k \in DOMAIN todo[t] : todo[t][k].do # "setcwd"}
<1>1. \A i \in Inum : At1(i) = Dirs(i)
  BY DEF Dirs, Leaving, Left
<1>2. LastRefUnlocked
  BY PutUnlocked DEF Inv
<1>3. \A i \in Inum :
        table[i].ref = Cardinality(Files(i)) + Cardinality(At1(i)) + Cardinality(Pointers(i))
  BY <1>1 DEF Inv, RefInv
<1> QED
  BY <1>2, <1>3 DEF Inv, RefsCounted, Files, Pointers

LEMMA PanicFollows ==
  ASSUME NoDots, Inv PROVE NoPanic
<1>1. SUFFICES ASSUME NEW t \in Thread, todo[t] # <<>>, Instruction(t).do \in Locking,
                      holder[Ref(t, 1)] = None
               PROVE  PanicOf(t) = "no"
  BY DEF NoPanic
<1>2. /\ Instruction(t) \in Instr /\ Len(Instruction(t).refs) \in {1, 2} /\ Instruction(t) \in Left(t)
      /\ Shaped(t, Instruction(t)) /\ Backed(t, Instruction(t))
  BY <1>1, First, Formed DEF Inv
<1>3. Ref(t, 1) \in Inum /\ Needs(Instruction(t), Ref(t, 1))
  BY <1>1, <1>2, Refs DEF Ref, Locking
<1>4. disk[Ref(t, 1)].type # "free"
  BY <1>2, <1>3 DEF Backed
<1>5. PICK ip \in Inum : ip = Ref(t, 1)
  BY <1>3
<1>6. Loaded(ip) = disk[ip]
  BY <1>1, <1>5, LoadedDisk DEF Inv
<1>7. Instruction(t).do \in {"create", "unlink", "linkto"} => disk[ip].type = "dir"
  BY <1>2, <1>5 DEF Backed, Ref
<1>8. Instruction(t).do = "victim" => disk[ip].nlink \in Nat \ {0}
  <2>1. SUFFICES ASSUME Instruction(t).do = "victim" PROVE disk[ip].nlink \in Nat \ {0}
    OBVIOUS
  <2>2. call[t] \in Call /\ Len(Instruction(t).refs) = 2
    BY <1>2, <2>1 DEF Shaped
  <2>3. PICK name \in FileName : name = LastName(call[t].path)
    <3>1. call[t].path \in Path
      BY <2>2 DEF Call
    <3> QED
      BY <3>1, PathElems
  <2>4. PICK dp \in Inum : dp = Ref(t, 2)
    BY <1>2, <2>2, Refs DEF Ref
  <2>5. disk[dp].type = "dir" /\ entry[dp][name] = ip
    BY <1>2, <1>5, <2>1, <2>3, <2>4 DEF Backed, Ref
  <2>6. Named(ip)
    BY <2>5 DEF Named
  <2> QED
    BY <1>4, <1>5, <2>6, PledgedLink DEF Inv
<1>9. Instruction(t).do = "victim" => ~(disk[ip].nlink < 1)
  <2>1. \A k \in Nat \ {0} : ~(k < 1)
    OBVIOUS
  <2> QED
    BY <1>8, <2>1
<1> QED
  BY <1>4, <1>5, <1>6, <1>7, <1>9 DEF PanicOf

LEMMA LinksFollow ==
  ASSUME Inv PROVE LinksCovered
<1>1. ASSUME NEW i \in Inum, disk[i].type # "free" PROVE Links(i) <= disk[i].nlink
  <2>1. PICK l \in Nat, p \in Nat, n \in Nat :
          l = Links(i) /\ p = Cardinality(Pledgers(i)) /\ n = disk[i].nlink
    <3>1. Links(i) \in Nat /\ Cardinality(Pledgers(i)) \in Nat
      BY LinkCount DEF Count
    <3>2. disk[i].nlink \in Nat
      BY DEF Inv, TypeOK, Node
    <3> QED
      BY <3>1, <3>2
  <2>2. l + p <= n
    BY <1>1, <2>1 DEF Inv, LinkInv
  <2> QED
    BY <2>1, <2>2
<1> QED
  BY <1>1 DEF Inv, LinkInv, LinksCovered

(***************************************************************************)
(* The theorems.                                                           *)
(***************************************************************************)
LEMMA Invariance ==
  ASSUME NoDots PROVE Spec => []Inv
<1>1. Init => Inv
  BY InitInv
<1>2. Inv /\ [Next]_vars => Inv'
  BY NextInv, StutterInv
<1> QED
  BY <1>1, <1>2, PTL DEF Spec

(* ip->ref of every inode is the number of the pointers to it, and iput()  *)
(* finds the lock free when it drops the last one: none is lost or dropped *)
(* twice, whatever threads walk, make and remove at the same time.         *)
THEOREM RefsAreCounted ==
  ASSUME NoDots PROVE Spec => []RefsCounted
<1>1. Inv => RefsCounted
  BY RefsFollow
<1> QED
  BY <1>1, Invariance, PTL

(* No thread panics in ilock(), dirlookup() or sys_unlink().               *)
THEOREM NeverPanics ==
  ASSUME NoDots PROVE Spec => []NoPanic
<1>1. Inv => NoPanic
  BY PanicFollows
<1> QED
  BY <1>1, Invariance, PTL

(* No entry leads to a free inode, and nlink is at least the number of     *)
(* links, so that no inode is freed that can be reached.                   *)
THEOREM LinksAreCovered ==
  ASSUME NoDots PROVE Spec => []LinksCovered
<1>1. Inv => LinksCovered
  BY LinksFollow
<1> QED
  BY <1>1, Invariance, PTL
=============================================================================
