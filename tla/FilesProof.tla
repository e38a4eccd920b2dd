----------------------------- MODULE FilesProof -----------------------------
(***************************************************************************)
(* Proofs about Files, in the names of FileTable: for any processes, files,*)
(* descriptors, inodes, pages and lengths, every reference to an open file,*)
(* to an end of a pipe and to an inode is counted once, and processes that *)
(* share a file keep each other's writes.                                  *)
(***************************************************************************)
EXTENDS FileTable, FiniteSetTheorems, FunctionTheorems, SequenceTheorems, WellFoundedInduction, TLAPS

(***************************************************************************)
(* What a call may still have to do.                                       *)
(***************************************************************************)
Struct ==
  {ff \in [ref : Nat, type : {"none", "pipe", "inode", "device"},
           obj : Inode \cup Page \cup {Nothing}, mode : Open!Mode, off : Nat] :
     /\ ff.type \in {"inode", "device"} => ff.obj \in Inode
     /\ ff.type = "pipe" => ff.obj \in Page}

Instr ==
  [do : {"close", "dup"}, f : Open!File]
    \cup [do : {"last"}, f : Open!File, ff : Struct]
    \cup [do : {"iput", "unlockput"}, i : Inode]
    \cup [do : {"open"}, i : Inode, mode : Open!Mode, trunc : BOOLEAN]
    \cup [do : {"openfd"}, f : Open!File, i : Inode, mode : Open!Mode, trunc : BOOLEAN]
    \cup [do : {"pipe0"}] \cup [do : {"pipe1"}, r : Open!File]
    \cup [do : {"page", "pipefds"}, r : Open!File, w : Open!File]
    \cup [do : {"fork"}, c : Process, fd : 0 .. NOFILE]
    \cup [do : {"clear"}, fd : Open!Fd] \cup [do : {"exit"}, fd : 0 .. NOFILE]
    \cup [do : {"read"}, f : Open!File, n : {1}]
    \cup [do : {"write"}, f : Open!File, n : Nat \ {0}]
    \cup [do : {"readi"}, f : Open!File, n : {1}, at : Nat]
    \cup [do : {"writei"}, f : Open!File, n : Nat \ {0}, at : Nat]

(* Those that others may follow, and those that may follow.                *)
Opening == {w \in Instr : w.do \in {"close", "last", "iput", "clear"}}
Closing == {w \in Instr : w.do \in {"close", "unlockput", "clear", "exit"}}

Formed(s) ==
  /\ s \in Seq(Instr)
  /\ \A k \in 1 .. Len(s) : (s[k] \in Opening \/ k = Len(s)) /\ (s[k] \in Closing \/ k = 1)

(* The instructions that have a reference to a file, those that owe one,   *)
(* and so on.                                                              *)
Owns(f) ==
  {w \in Instr : \/ w.do \in {"close", "openfd"} /\ w.f = f
                 \/ w.do \in {"pipe1", "page", "pipefds"} /\ w.r = f
                 \/ w.do \in {"page", "pipefds"} /\ w.w = f}
Dups(f) == {w \in Instr : w.do = "dup" /\ w.f = f}
Ends(k, end) ==
  {w \in Instr : w.do = "last" /\ w.ff.type = "pipe" /\ w.ff.obj = k /\ w.ff.mode = end}
Puts(i) ==
  {w \in Instr : \/ w.do = "last" /\ w.ff.type \in {"inode", "device"} /\ w.ff.obj = i
                 \/ w.do \in {"iput", "open", "openfd", "unlockput"} /\ w.i = i}
Clear(fd) == [do |-> "clear", fd |-> fd]

(***************************************************************************)
(* Sequences: how many of their elements are in a set, and which they are. *)
(***************************************************************************)
Bit(b) == IF b THEN 1 ELSE 0
Places(s, S) == {k \in 1 .. Len(s) : s[k] \in S}
Num(s, S) == Cardinality(Places(s, S))
In(s) == {s[k] : k \in 1 .. Len(s)}

LEMMA BitType == \A b : Bit(b) \in Nat
BY DEF Bit

LEMMA SameNumber ==
  ASSUME NEW S, NEW T, IsFiniteSet(S), NEW g \in [S -> T],
         \A a, b \in S : g[a] = g[b] => a = b, \A t \in T : \E a \in S : g[a] = t
  PROVE  IsFiniteSet(T) /\ Cardinality(T) = Cardinality(S)
<1>1. g \in Bijection(S, T)
  BY Fun_IsBij
<1>2. ExistsBijection(S, T)
  BY <1>1 DEF ExistsBijection
<1> QED
  BY <1>2, FS_Bijection

LEMMA Together ==
  ASSUME NEW A, NEW B, IsFiniteSet(A), IsFiniteSet(B), A \cap B = {}
  PROVE  /\ IsFiniteSet(A \cup B) /\ Cardinality(A \cup B) = Cardinality(A) + Cardinality(B)
         /\ Cardinality(A) \in Nat /\ Cardinality(B) \in Nat
<1>1. Cardinality(A) \in Nat /\ Cardinality(B) \in Nat
  BY FS_CardinalityType
<1>2. Cardinality(A \cap B) = 0
  BY FS_EmptySet
<1>3. IsFiniteSet(A \cup B) /\ Cardinality(A \cup B) = Cardinality(A) + Cardinality(B) - 0
  BY <1>2, FS_Union
<1> QED
  BY <1>1, <1>3

LEMMA SetCount ==
  ASSUME NEW S, IsFiniteSet(S), NEW A, A \subseteq S
  PROVE  IsFiniteSet(A) /\ Cardinality(A) \in Nat
BY FS_Subset, FS_CardinalityType

(* A set that changes in whether t is in it, and in nothing else.          *)
LEMMA OneChanges ==
  ASSUME NEW S, IsFiniteSet(S), NEW A, NEW B, A \subseteq S, B \subseteq S, NEW t,
         \A x \in S : x # t => (x \in A <=> x \in B)
  PROVE  Cardinality(B) + Bit(t \in A) = Cardinality(A) + Bit(t \in B)
<1>1. IsFiniteSet(A) /\ Cardinality(A) \in Nat /\ IsFiniteSet(B) /\ Cardinality(B) \in Nat
  BY SetCount
<1>2. PICK C : C = A \ {t}
  OBVIOUS
<1>3. C = B \ {t}
  BY <1>2
<1>4. Cardinality(C) = IF t \in A THEN Cardinality(A) - 1 ELSE Cardinality(A)
  BY <1>1, <1>2, FS_RemoveElement
<1>5. Cardinality(C) = IF t \in B THEN Cardinality(B) - 1 ELSE Cardinality(B)
  BY <1>1, <1>3, FS_RemoveElement
<1> QED
  BY <1>1, <1>4, <1>5 DEF Bit

LEMMA PlacesFinite ==
  ASSUME NEW T, NEW s \in Seq(T), NEW S
  PROVE  IsFiniteSet(Places(s, S)) /\ Num(s, S) \in Nat
<1>1. IsFiniteSet(1 .. Len(s))
  BY FS_Interval, LenProperties
<1>2. IsFiniteSet(Places(s, S))
  BY <1>1, FS_Subset DEF Places
<1> QED
  BY <1>2, FS_CardinalityType DEF Num

LEMMA SumOfTwo ==
  ASSUME NEW T, NEW a \in Seq(T), NEW b \in Seq(T), NEW S
  PROVE  Num(a \o b, S) = Num(a, S) + Num(b, S) /\ In(a \o b) = In(a) \cup In(b)
<1>1. PICK c : c = a \o b
  OBVIOUS
<1>2. PICK m \in Nat, n \in Nat : m = Len(a) /\ n = Len(b)
  BY LenProperties
<1>3. /\ c \in Seq(T) /\ Len(c) = m + n
      /\ \A k \in 1 .. m + n : c[k] = IF k <= m THEN a[k] ELSE b[k - m]
  BY <1>1, <1>2, ConcatProperties
<1> DEFINE B == {m + k : k \in Places(b, S)}
<1>4. Places(c, S) = Places(a, S) \cup B
  <2>1. ASSUME NEW k \in Places(c, S) PROVE k \in Places(a, S) \cup B
    <3>1. k \in 1 .. m + n /\ c[k] \in S
      BY <1>3 DEF Places
    <3>2. CASE k <= m
      <4>1. k \in 1 .. m /\ a[k] \in S
        BY <1>3, <3>1, <3>2
      <4> QED
        BY <1>2, <4>1 DEF Places
    <3>3. CASE ~(k <= m)
      <4>1. k - m \in 1 .. n /\ b[k - m] \in S /\ m + (k - m) = k
        BY <1>3, <3>1, <3>3
      <4> QED
        BY <1>2, <4>1 DEF Places
    <3> QED
      BY <3>2, <3>3
  <2>2. ASSUME NEW k \in Places(a, S) PROVE k \in Places(c, S)
    <3>1. k \in 1 .. m /\ a[k] \in S
      BY <1>2 DEF Places
    <3>2. k \in 1 .. m + n /\ c[k] \in S
      BY <1>3, <3>1
    <3> QED
      BY <1>3, <3>2 DEF Places
  <2>3. ASSUME NEW k \in Places(b, S) PROVE m + k \in Places(c, S)
    <3>1. k \in 1 .. n /\ b[k] \in S
      BY <1>2 DEF Places
    <3>2. m + k \in 1 .. m + n /\ ~(m + k <= m) /\ (m + k) - m = k
      BY <3>1
    <3>3. c[m + k] = b[k]
      BY <1>3, <3>2
    <3> QED
      BY <1>3, <3>1, <3>2, <3>3 DEF Places
  <2> QED
    BY <2>1, <2>2, <2>3
<1>5. Places(a, S) \cap B = {}
  <2>1. \A k \in Places(a, S) : k <= m
    BY <1>2 DEF Places
  <2>2. \A k \in Places(b, S) : k \in Nat /\ k >= 1
    BY <1>2 DEF Places
  <2> QED
    BY <2>1, <2>2, SMTT(20) DEF Places
<1>6. IsFiniteSet(B) /\ Cardinality(B) = Num(b, S)
  <2>1. \A k \in Places(b, S) : k \in Nat
    BY <1>2 DEF Places
  <2> DEFINE g == [k \in Places(b, S) |-> m + k]
  <2>2. g \in [Places(b, S) -> B]
    OBVIOUS
  <2>3. \A j, k \in Places(b, S) : g[j] = g[k] => j = k
    BY <2>1
  <2>4. \A y \in B : \E k \in Places(b, S) : g[k] = y
    OBVIOUS
  <2>5. IsFiniteSet(Places(b, S))
    BY PlacesFinite
  <2> HIDE DEF g, B
  <2> QED
    BY <2>2, <2>3, <2>4, <2>5, SameNumber DEF Num
<1>7. Num(c, S) = Num(a, S) + Num(b, S)
  BY <1>4, <1>5, <1>6, PlacesFinite, Together DEF Num
<1>8. In(c) = In(a) \cup In(b)
  <2>1. ASSUME NEW k \in 1 .. m + n PROVE c[k] \in In(a) \cup In(b)
    <3>1. CASE k <= m
      BY <1>2, <1>3, <3>1 DEF In
    <3>2. CASE ~(k <= m)
      <4>1. k - m \in 1 .. n
        BY <3>2
      <4> QED
        BY <1>2, <1>3, <3>2, <4>1 DEF In
    <3> QED
      BY <3>1, <3>2
  <2>2. ASSUME NEW k \in 1 .. m PROVE a[k] \in In(c)
    BY <1>3 DEF In
  <2>3. ASSUME NEW k \in 1 .. n PROVE b[k] \in In(c)
    <3>1. m + k \in 1 .. m + n /\ ~(m + k <= m) /\ (m + k) - m = k
      OBVIOUS
    <3>2. c[m + k] = b[k]
      BY <1>3, <3>1
    <3> QED
      BY <1>3, <3>1, <3>2 DEF In
  <2>4. In(c) \subseteq In(a) \cup In(b)
    BY <1>3, <2>1 DEF In
  <2>5. In(a) \subseteq In(c)
    BY <1>2, <2>2 DEF In
  <2>6. In(b) \subseteq In(c)
    BY <1>2, <2>3 DEF In
  <2> QED
    BY <2>4, <2>5, <2>6
<1> QED
  BY <1>1, <1>7, <1>8

LEMMA Tuples ==
  ASSUME NEW T, NEW a \in T, NEW b \in T, NEW c \in T
  PROVE  /\ <<a>> \in Seq(T) /\ Len(<<a>>) = 1 /\ <<a>>[1] = a
         /\ <<a, b>> \in Seq(T) /\ Len(<<a, b>>) = 2 /\ <<a, b>>[1] = a /\ <<a, b>>[2] = b
         /\ <<a, b, c>> \in Seq(T) /\ Len(<<a, b, c>>) = 3
         /\ <<a, b, c>>[1] = a /\ <<a, b, c>>[2] = b /\ <<a, b, c>>[3] = c
OBVIOUS

LEMMA OfLength ==
  ASSUME NEW T, NEW s \in Seq(T), NEW S
  PROVE  /\ Len(s) = 0 => In(s) = {} /\ Num(s, S) = 0
         /\ Len(s) = 1 => In(s) = {s[1]} /\ Num(s, S) = Bit(s[1] \in S)
         /\ Len(s) = 2 => In(s) = {s[1], s[2]} /\ Num(s, S) = Bit(s[1] \in S) + Bit(s[2] \in S)
         /\ Len(s) = 3 => /\ In(s) = {s[1], s[2], s[3]}
                          /\ Num(s, S) = Bit(s[1] \in S) + Bit(s[2] \in S) + Bit(s[3] \in S)
<1> DEFINE P(k) == {j \in {k} : s[j] \in S}
<1>1. \A k : IsFiniteSet(P(k)) /\ Cardinality(P(k)) = Bit(s[k] \in S) /\ P(k) \subseteq {k}
  <2>1. TAKE k
  <2>2. CASE s[k] \in S
    <3>1. P(k) = {k}
      BY <2>2
    <3> QED
      BY <2>2, <3>1, FS_Singleton DEF Bit
  <2>3. CASE s[k] \notin S
    <3>1. P(k) = {}
      BY <2>3
    <3> QED
      BY <2>3, <3>1, FS_EmptySet DEF Bit
  <2> QED
    BY <2>2, <2>3
<1>2. PICK n \in Nat : n = Len(s)
  BY LenProperties
<1>3. CASE n = 0
  <2>1. Places(s, S) = {} /\ In(s) = {}
    BY <1>2, <1>3 DEF Places, In
  <2> QED
    BY <1>2, <1>3, <2>1, FS_EmptySet DEF Num
<1>4. CASE n = 1
  <2>1. 1 .. n = {1}
    BY <1>4
  <2>2. Places(s, S) = P(1) /\ In(s) = {s[1]}
    BY <1>2, <2>1 DEF Places, In
  <2> HIDE DEF P
  <2> QED
    BY <1>1, <1>2, <1>4, <2>2 DEF Num
<1>5. CASE n = 2
  <2>1. 1 .. n = {1, 2}
    BY <1>5
  <2>2. Places(s, S) = P(1) \cup P(2) /\ In(s) = {s[1], s[2]}
    BY <1>2, <2>1 DEF Places, In
  <2>3. P(1) \cap P(2) = {}
    BY <1>1
  <2> HIDE DEF P
  <2>4. Cardinality(Places(s, S)) = Cardinality(P(1)) + Cardinality(P(2))
    BY <1>1, <2>2, <2>3, Together
  <2> QED
    BY <1>1, <1>2, <1>5, <2>2, <2>4 DEF Num
<1>6. CASE n = 3
  <2>1. 1 .. n = {1, 2, 3}
    BY <1>6
  <2>2. Places(s, S) = (P(1) \cup P(2)) \cup P(3) /\ In(s) = {s[1], s[2], s[3]}
    BY <1>2, <2>1 DEF Places, In
  <2>3. P(1) \cap P(2) = {} /\ (P(1) \cup P(2)) \cap P(3) = {}
    BY <1>1
  <2> HIDE DEF P
  <2>4. /\ IsFiniteSet(P(1) \cup P(2))
        /\ Cardinality(P(1) \cup P(2)) = Cardinality(P(1)) + Cardinality(P(2))
    BY <1>1, <2>3, Together
  <2>5. Cardinality(Places(s, S)) = Cardinality(P(1) \cup P(2)) + Cardinality(P(3))
    BY <1>1, <2>2, <2>3, <2>4, Together
  <2> QED
    BY <1>1, <1>2, <1>6, <2>2, <2>4, <2>5 DEF Num
<1> QED
  BY <1>2, <1>3, <1>4, <1>5, <1>6

LEMMA OfTuples ==
  ASSUME NEW a, NEW S
  PROVE  /\ In(<<>>) = {} /\ Num(<<>>, S) = 0
         /\ In(<<a>>) = {a} /\ Num(<<a>>, S) = Bit(a \in S)
<1>1. PICK T : T = {a}
  OBVIOUS
<1>2. a \in T
  BY <1>1
<1>3. PICK s0, s1 : s0 = <<>> /\ s1 = <<a>>
  OBVIOUS
<1>4. s1 \in Seq(T) /\ Len(s1) = 1 /\ s1[1] = a
  BY <1>2, <1>3, Tuples
<1>5. s0 \in Seq(T) /\ Len(s0) = 0
  BY <1>3, EmptySeq
<1>6. In(s0) = {} /\ Num(s0, S) = 0
  BY <1>5, OfLength
<1>7. In(s1) = {a} /\ Num(s1, S) = Bit(a \in S)
  BY <1>4, OfLength
<1> QED
  BY <1>3, <1>6, <1>7

LEMMA OfPair ==
  ASSUME NEW a, NEW b
  PROVE  In(<<a, b>>) = {a, b} /\ \A S : Num(<<a, b>>, S) = Bit(a \in S) + Bit(b \in S)
<1>1. PICK T : T = {a, b}
  OBVIOUS
<1>2. PICK s : s = <<a, b>>
  OBVIOUS
<1>3. a \in T /\ b \in T
  BY <1>1
<1>4. s \in Seq(T) /\ Len(s) = 2 /\ s[1] = a /\ s[2] = b
  BY <1>2, <1>3, Tuples
<1>5. ASSUME NEW S PROVE In(s) = {a, b} /\ Num(s, S) = Bit(a \in S) + Bit(b \in S)
  BY <1>4, OfLength
<1> QED
  BY <1>2, <1>5

LEMMA OfTriple ==
  ASSUME NEW a, NEW b, NEW c
  PROVE  /\ In(<<a, b, c>>) = {a, b, c}
         /\ \A S : Num(<<a, b, c>>, S) = Bit(a \in S) + Bit(b \in S) + Bit(c \in S)
<1>1. PICK T : T = {a, b, c}
  OBVIOUS
<1>2. PICK s : s = <<a, b, c>>
  OBVIOUS
<1>3. a \in T /\ b \in T /\ c \in T
  BY <1>1
<1>4. s \in Seq(T) /\ Len(s) = 3 /\ s[1] = a /\ s[2] = b /\ s[3] = c
  BY <1>2, <1>3, Tuples
<1>5. ASSUME NEW S
      PROVE  In(s) = {a, b, c} /\ Num(s, S) = Bit(a \in S) + Bit(b \in S) + Bit(c \in S)
  BY <1>4, OfLength
<1> QED
  BY <1>2, <1>5

(* The head and the rest.                                                  *)
LEMMA Split ==
  ASSUME NEW T, NEW s \in Seq(T), s # <<>>
  PROVE  /\ Head(s) \in T /\ Tail(s) \in Seq(T) /\ Head(s) = s[1] /\ Len(s) \in Nat \ {0}
         /\ In(s) = {Head(s)} \cup In(Tail(s))
         /\ Len(Tail(s)) = Len(s) - 1 /\ \A k \in 1 .. Len(Tail(s)) : Tail(s)[k] = s[k + 1]
<1>1. /\ Head(s) \in T /\ Tail(s) \in Seq(T) /\ Head(s) = s[1] /\ Len(s) \in Nat \ {0}
      /\ Len(Tail(s)) = Len(s) - 1 /\ \A k \in 1 .. Len(Tail(s)) : Tail(s)[k] = s[k + 1]
  BY HeadTailProperties, EmptySeq, LenProperties
<1>0. PICK h, t : h = Head(s) /\ t = Tail(s)
  OBVIOUS
<1>2. PICK n \in Nat : h = Head(s) /\ t = Tail(s) /\ n = Len(t)
  BY <1>0, <1>1, LenProperties
<1>3. Len(s) = n + 1 /\ s[1] = h /\ \A k \in 1 .. n : t[k] = s[k + 1]
  BY <1>1, <1>2
<1>4. In(s) = {h} \cup In(t)
  <2>1. ASSUME NEW k \in 1 .. n + 1 PROVE s[k] \in {h} \cup In(t)
    <3>1. CASE k = 1
      BY <1>3, <3>1
    <3>2. CASE k # 1
      <4>1. k - 1 \in 1 .. n /\ (k - 1) + 1 = k
        BY <3>2
      <4> QED
        BY <1>2, <1>3, <4>1 DEF In
    <3> QED
      BY <3>1, <3>2
  <2>2. ASSUME NEW k \in 1 .. n PROVE t[k] \in In(s)
    BY <1>3 DEF In
  <2>3. h \in In(s)
    BY <1>3 DEF In
  <2> QED
    <3>1. In(s) = {s[k] : k \in 1 .. n + 1} /\ In(t) = {t[k] : k \in 1 .. n}
      BY <1>2, <1>3 DEF In
    <3> QED
      BY <2>1, <2>2, <2>3, <3>1
<1> QED
  BY <1>1, <1>2, <1>4

LEMMA SplitCount ==
  ASSUME NEW T, NEW s \in Seq(T), s # <<>>, NEW S
  PROVE  Num(s, S) = Bit(Head(s) \in S) + Num(Tail(s), S)
<1>0. PICK h, t : h = Head(s) /\ t = Tail(s)
  OBVIOUS
<1>1. PICK n \in Nat : h = Head(s) /\ t = Tail(s) /\ n = Len(t)
  <2>1. t \in Seq(T)
    BY <1>0, Split
  <2> QED
    BY <1>0, <2>1, LenProperties
<1>2. /\ t \in Seq(T) /\ Len(s) = n + 1 /\ s[1] = h /\ Len(s) \in Nat
      /\ \A k \in 1 .. n : t[k] = s[k + 1]
  BY <1>1, Split
<1> DEFINE A == {j \in {1} : s[j] \in S}
           B == {1 + k : k \in Places(t, S)}
<1>3. IsFiniteSet(A) /\ Cardinality(A) = Bit(h \in S)
  <2>1. CASE h \in S
    <3>1. A = {1}
      BY <1>2, <2>1
    <3> QED
      BY <2>1, <3>1, FS_Singleton DEF Bit
  <2>2. CASE h \notin S
    <3>1. A = {}
      BY <1>2, <2>2
    <3> QED
      BY <2>2, <3>1, FS_EmptySet DEF Bit
  <2> QED
    BY <2>1, <2>2
<1>4. Places(s, S) = A \cup B /\ A \cap B = {}
  <2>1. \A k \in Places(t, S) : k \in 1 .. n
    BY <1>1 DEF Places
  <2>2. A \cap B = {}
    BY <2>1
  <2>3. ASSUME NEW k \in Places(s, S) PROVE k \in A \cup B
    <3>1. k \in 1 .. n + 1 /\ s[k] \in S
      BY <1>2 DEF Places
    <3>2. CASE k = 1
      BY <3>1, <3>2
    <3>3. CASE k # 1
      <4>1. k - 1 \in 1 .. n /\ (k - 1) + 1 = k /\ 1 + (k - 1) = k
        BY <3>1, <3>3
      <4>2. k - 1 \in Places(t, S)
        BY <1>1, <1>2, <3>1, <4>1 DEF Places
      <4> QED
        BY <4>1, <4>2
    <3> QED
      BY <3>2, <3>3
  <2>4. ASSUME NEW k \in Places(t, S) PROVE 1 + k \in Places(s, S)
    <3>1. k \in 1 .. n /\ t[k] \in S
      BY <1>1 DEF Places
    <3>2. 1 + k \in 1 .. n + 1 /\ 1 + k = k + 1
      BY <3>1
    <3> QED
      BY <1>2, <3>1, <3>2 DEF Places
  <2>5. A \subseteq Places(s, S)
    <3>1. 1 \in 1 .. n + 1
      OBVIOUS
    <3> QED
      BY <1>2, <3>1 DEF Places
  <2> QED
    BY <2>2, <2>3, <2>4, <2>5
<1>5. IsFiniteSet(B) /\ Cardinality(B) = Num(t, S)
  <2>1. \A k \in Places(t, S) : k \in Nat
    BY <1>1 DEF Places
  <2> DEFINE g == [k \in Places(t, S) |-> 1 + k]
  <2>2. g \in [Places(t, S) -> B]
    OBVIOUS
  <2>3. \A j, k \in Places(t, S) : g[j] = g[k] => j = k
    BY <2>1
  <2>4. \A y \in B : \E k \in Places(t, S) : g[k] = y
    OBVIOUS
  <2>5. IsFiniteSet(Places(t, S))
    BY <1>2, PlacesFinite
  <2> HIDE DEF g, B
  <2> QED
    BY <2>2, <2>3, <2>4, <2>5, SameNumber DEF Num
<1> HIDE DEF A, B
<1>6. Num(s, S) = Bit(h \in S) + Num(t, S)
  <2>1. Cardinality(A \cup B) = Cardinality(A) + Cardinality(B)
    BY <1>3, <1>4, <1>5, Together
  <2> QED
    BY <1>3, <1>4, <1>5, <2>1 DEF Num
<1> QED
  BY <1>1, <1>6

(***************************************************************************)
(* What a call still has to do, before and after a step of it.             *)
(***************************************************************************)
LEMMA FormedInstr ==
  ASSUME NEW s, Formed(s), NEW w \in In(s) PROVE w \in Instr
<1>1. PICK k \in 1 .. Len(s) : w = s[k]
  BY DEF In
<1>2. s \in Seq(Instr)
  BY DEF Formed
<1> QED
  BY <1>1, <1>2, ElementOfSeq

LEMMA FormedNew ==
  /\ Formed(<<>>)
  /\ \A a \in Instr : Formed(<<a>>)
  /\ \A a \in Opening, b \in Closing : Formed(<<a, b>>)
  /\ \A a \in Opening, b \in Opening \cap Closing, c \in Closing : Formed(<<a, b, c>>)
<1>1. Formed(<<>>)
  <2>1. PICK s : s = <<>>
    OBVIOUS
  <2>2. s \in Seq(Instr) /\ Len(s) = 0
    BY <2>1, EmptySeq
  <2>3. 1 .. Len(s) = {}
    BY <2>2
  <2> QED
    BY <2>1, <2>2, <2>3 DEF Formed
<1>2. ASSUME NEW a \in Instr PROVE Formed(<<a>>)
  <2>1. PICK s : s = <<a>>
    OBVIOUS
  <2>2. s \in Seq(Instr) /\ Len(s) = 1
    BY <2>1, Tuples
  <2>3. \A k \in 1 .. Len(s) : k = 1
    BY <2>2
  <2> QED
    BY <2>1, <2>2, <2>3 DEF Formed
<1>3. Opening \subseteq Instr /\ Closing \subseteq Instr
  BY DEF Opening, Closing
<1>4. ASSUME NEW a \in Opening, NEW b \in Closing PROVE Formed(<<a, b>>)
  <2>1. PICK s : s = <<a, b>>
    OBVIOUS
  <2>2. s \in Seq(Instr) /\ Len(s) = 2 /\ s[1] = a /\ s[2] = b
    BY <1>3, <2>1, Tuples
  <2>3. \A k \in 1 .. Len(s) : k = 1 \/ k = 2
    BY <2>2
  <2> QED
    BY <2>1, <2>2, <2>3 DEF Formed
<1>5. ASSUME NEW a \in Opening, NEW b \in Opening \cap Closing, NEW c \in Closing
      PROVE  Formed(<<a, b, c>>)
  <2>1. PICK s : s = <<a, b, c>>
    OBVIOUS
  <2>2. s \in Seq(Instr) /\ Len(s) = 3 /\ s[1] = a /\ s[2] = b /\ s[3] = c
    BY <1>3, <2>1, Tuples
  <2>3. \A k \in 1 .. Len(s) : k = 1 \/ k = 2 \/ k = 3
    BY <2>2
  <2> QED
    BY <2>1, <2>2, <2>3 DEF Formed
<1> QED
  BY <1>1, <1>2, <1>4, <1>5

(* An instruction that nothing follows: what replaces it is all there is.  *)
LEMMA Alone ==
  ASSUME NEW s, Formed(s), s # <<>>, Head(s) \notin Opening, NEW is, Formed(is)
  PROVE  is \o Tail(s) = is /\ In(s) = {Head(s)} /\ \A S : Num(s, S) = Bit(Head(s) \in S)
<1>1. s \in Seq(Instr) /\ is \in Seq(Instr)
  BY DEF Formed
<1>2. Head(s) = s[1] /\ Len(s) \in Nat \ {0} /\ Len(Tail(s)) = Len(s) - 1 /\ Tail(s) \in Seq(Instr)
  BY <1>1, Split
<1>3. 1 \in 1 .. Len(s)
  BY <1>2
<1>4. Len(s) = 1
  BY <1>2, <1>3 DEF Formed
<1>5. Tail(s) = <<>>
  <2>1. PICK r : r = Tail(s)
    OBVIOUS
  <2>2. r \in Seq(Instr) /\ Len(r) = 0
    BY <1>2, <1>4, <2>1
  <2>3. r = <<>>
    BY <2>2, EmptySeq
  <2> QED
    BY <2>1, <2>3
<1>6. is \o <<>> = is
  BY <1>1, ConcatEmptySeq
<1> QED
  BY <1>1, <1>2, <1>4, <1>5, <1>6, OfLength

LEMMA TailFormed ==
  ASSUME NEW s, Formed(s), s # <<>>
  PROVE  /\ Formed(Tail(s)) /\ In(s) = {Head(s)} \cup In(Tail(s)) /\ In(Tail(s)) \subseteq Closing
         /\ <<>> \o Tail(s) = Tail(s) /\ Head(s) \in Instr
         /\ \A S : Num(s, S) = Bit(Head(s) \in S) + Num(Tail(s), S)
<1>1. s \in Seq(Instr)
  BY DEF Formed
<1>2. PICK t : t = Tail(s)
  OBVIOUS
<1>3. /\ t \in Seq(Instr) /\ Head(s) = s[1] /\ Head(s) \in Instr /\ Len(s) \in Nat \ {0}
      /\ In(s) = {Head(s)} \cup In(t)
      /\ Len(t) = Len(s) - 1 /\ \A k \in 1 .. Len(t) : t[k] = s[k + 1]
  BY <1>1, <1>2, Split
<1>4. ASSUME NEW k \in 1 .. Len(t)
      PROVE  t[k] = s[k + 1] /\ t[k] \in Closing /\ (t[k] \in Opening \/ k = Len(t))
  <2>1. k \in Nat /\ k + 1 \in 1 .. Len(s) /\ k + 1 # 1 /\ (k + 1 = Len(s) => k = Len(t))
    BY <1>3
  <2>2. s[k + 1] \in Closing /\ (s[k + 1] \in Opening \/ k + 1 = Len(s))
    BY <2>1 DEF Formed
  <2> QED
    BY <1>3, <2>1, <2>2
<1>5. Formed(t) /\ In(t) \subseteq Closing
  BY <1>3, <1>4 DEF Formed, In
<1>6. <<>> \o t = t
  BY <1>3, ConcatEmptySeq
<1>7. \A S : Num(s, S) = Bit(Head(s) \in S) + Num(t, S)
  BY <1>1, <1>2, SplitCount
<1> QED
  BY <1>2, <1>3, <1>5, <1>6, <1>7

(* An instruction of those that others may follow, replaced by another.    *)
LEMMA Replaced ==
  ASSUME NEW s, Formed(s), s # <<>>, NEW a \in Opening
  PROVE  /\ Formed(<<a>> \o Tail(s)) /\ In(<<a>> \o Tail(s)) = {a} \cup In(Tail(s))
         /\ \A S : Num(<<a>> \o Tail(s), S) = Bit(a \in S) + Num(Tail(s), S)
<1>1. PICK t : t = Tail(s)
  OBVIOUS
<1>2. PICK u : u = <<a>>
  OBVIOUS
<1>3. PICK c : c = u \o t
  OBVIOUS
<1>4. Formed(t) /\ In(t) \subseteq Closing /\ t \in Seq(Instr)
  BY <1>1, TailFormed DEF Formed
<1>5. u \in Seq(Instr) /\ Len(u) = 1 /\ u[1] = a
  BY <1>2, Tuples DEF Opening
<1>6. In(u) = {a} /\ \A S : Num(u, S) = Bit(a \in S)
  BY <1>2, OfTuples
<1>7. In(c) = In(u) \cup In(t) /\ \A S : Num(c, S) = Num(u, S) + Num(t, S)
  BY ZenonT(60), <1>3, <1>4, <1>5, SumOfTwo
<1>8. PICK n \in Nat : n = Len(t)
  BY <1>4, LenProperties
<1>9. c \in Seq(Instr) /\ Len(c) = 1 + n /\ \A k \in 1 .. 1 + n : c[k] = IF k <= 1 THEN u[k] ELSE t[k - 1]
  BY <1>3, <1>4, <1>5, <1>8, ConcatProperties
<1>10. Formed(c)
  <2>1. ASSUME NEW k \in 1 .. 1 + n
        PROVE  (c[k] \in Opening \/ k = 1 + n) /\ (c[k] \in Closing \/ k = 1)
    <3>1. CASE k = 1
      BY <1>5, <1>9, <3>1
    <3>2. CASE k # 1
      <4>1. k - 1 \in 1 .. n /\ ~(k <= 1) /\ (k - 1 = n => k = 1 + n)
        BY <3>2
      <4>2. c[k] = t[k - 1]
        BY <1>9, <4>1
      <4>3. t[k - 1] \in Closing /\ (t[k - 1] \in Opening \/ k - 1 = n)
        BY <1>4, <1>8, <4>1 DEF Formed, In
      <4> QED
        BY <4>1, <4>2, <4>3
    <3> QED
      BY <3>1, <3>2
  <2> QED
    BY <1>9, <2>1 DEF Formed
<1> QED
  BY <1>1, <1>2, <1>3, <1>6, <1>7, <1>10

(***************************************************************************)
(* How many of the instructions of all processes are in a set.             *)
(***************************************************************************)
Lists == [Process -> Seq(Instr)]
Where(t, S) == {x \in Process \X Nat : x[2] \in 1 .. Len(t[x[1]]) /\ t[x[1]][x[2]] \in S}
Count(t, S) == Cardinality(Where(t, S))

LEMMA Finite ==
  /\ IsFiniteSet(Process) /\ First \in Process /\ Device \subseteq Inode
  /\ NFILE \in Nat \ {0} /\ NOFILE \in Nat \ {0} /\ CHUNK \in Nat \ {0}
  /\ MaxSize \in Nat \ {0} /\ MaxWrite \in Nat \ {0}
  /\ Nothing \notin Process /\ Nothing \notin 1 .. NFILE /\ Nothing \notin Inode /\ Nothing \notin Page
<1>1. \A S : Open!IsFiniteSet(S) <=> IsFiniteSet(S)
  BY DEF Open!IsFiniteSet, IsFiniteSet
<1> QED
  BY <1>1, FileConstants DEF Open!FilesAssumption

LEMMA SameCount == \A S : Open!Cardinality(S) = Cardinality(S)
<1>1. \A S : Open!IsFiniteSet(S) <=> IsFiniteSet(S)
  BY DEF Open!IsFiniteSet, IsFiniteSet
<1> QED
  BY <1>1 DEF Open!Cardinality, Cardinality

LEMMA ImageFinite ==
  ASSUME NEW S, NEW T, IsFiniteSet(S), NEW g \in [S -> T], \A t \in T : \E a \in S : g[a] = t
  PROVE  IsFiniteSet(T)
<1>1. g \in Surjection(S, T)
  BY DEF Surjection
<1> QED
  BY <1>1, FS_Surjection

LEMMA WhereFinite ==
  ASSUME NEW t \in Lists, NEW S
  PROVE  IsFiniteSet(Where(t, S)) /\ Count(t, S) \in Nat
<1> DEFINE R(p) == {<<p, k>> : k \in Places(t[p], S)}
           All == UNION {R(p) : p \in Process}
<1>1. ASSUME NEW p \in Process PROVE IsFiniteSet(R(p))
  <2>1. IsFiniteSet(Places(t[p], S))
    BY PlacesFinite DEF Lists
  <2> DEFINE g == [k \in Places(t[p], S) |-> <<p, k>>]
  <2>2. g \in [Places(t[p], S) -> R(p)] /\ \A y \in R(p) : \E k \in Places(t[p], S) : g[k] = y
    OBVIOUS
  <2> HIDE DEF g, R
  <2> QED
    BY <2>1, <2>2, ImageFinite
<1>2. IsFiniteSet({R(p) : p \in Process})
  <2> DEFINE T == {R(p) : p \in Process}
             g == [p \in Process |-> R(p)]
  <2>1. g \in [Process -> T] /\ \A y \in T : \E p \in Process : g[p] = y
    OBVIOUS
  <2> HIDE DEF g
  <2> QED
    BY <2>1, Finite, ImageFinite
<1>3. IsFiniteSet(All)
  BY <1>1, <1>2, FS_UNION
<1>4. Where(t, S) \subseteq All
  <2>1. ASSUME NEW x \in Where(t, S) PROVE x \in All
    <3>1. PICK p \in Process, k \in Nat : x = <<p, k>> /\ k \in 1 .. Len(t[p]) /\ t[p][k] \in S
      BY DEF Where
    <3>2. x \in R(p)
      BY <3>1 DEF Places
    <3> QED
      BY <3>2
  <2> QED
    BY <2>1
<1> QED
  BY <1>3, <1>4, FS_Subset, FS_CardinalityType DEF Count

LEMMA Counted ==
  ASSUME NEW t \in Lists, NEW p \in Process, NEW u \in Seq(Instr), NEW S
  PROVE  /\ [t EXCEPT ![p] = u] \in Lists
         /\ Count([t EXCEPT ![p] = u], S) + Num(t[p], S) = Count(t, S) + Num(u, S)
<1>1. PICK v : v = [t EXCEPT ![p] = u]
  OBVIOUS
<1>2. v \in Lists /\ v[p] = u /\ \A q \in Process : q # p => v[q] = t[q]
  BY <1>1 DEF Lists
<1> DEFINE R == {x \in Where(t, S) : x[1] # p}
           P(w) == {<<p, k>> : k \in Places(w, S)}
<1>3. R = {x \in Where(v, S) : x[1] # p}
  BY <1>2 DEF Where
<1>4. ASSUME NEW w \in Lists, {x \in Where(w, S) : x[1] # p} = R
      PROVE  Count(w, S) = Cardinality(R) + Num(w[p], S)
  <2>1. P(w[p]) = {x \in Where(w, S) : x[1] = p}
    <3>1. Len(w[p]) \in Nat
      BY LenProperties DEF Lists
    <3>2. ASSUME NEW k \in Places(w[p], S) PROVE <<p, k>> \in Where(w, S)
      BY <3>1 DEF Where, Places
    <3>3. ASSUME NEW x \in Where(w, S), x[1] = p PROVE x \in P(w[p])
      <4>1. PICK k \in Nat : x = <<p, k>> /\ k \in 1 .. Len(w[p]) /\ w[p][k] \in S
        BY <3>3 DEF Where
      <4> QED
        BY <4>1 DEF Places
    <3> QED
      BY <3>2, <3>3
  <2>2. Where(w, S) = R \cup P(w[p]) /\ R \cap P(w[p]) = {}
    BY <1>4, <2>1
  <2>3. IsFiniteSet(Where(w, S))
    BY WhereFinite
  <2>4. IsFiniteSet(R) /\ IsFiniteSet(P(w[p]))
    BY <2>2, <2>3, FS_Subset
  <2>5. Cardinality(P(w[p])) = Num(w[p], S)
    <3> DEFINE g == [k \in Places(w[p], S) |-> <<p, k>>]
    <3>1. g \in [Places(w[p], S) -> P(w[p])]
      OBVIOUS
    <3>2. \A j, k \in Places(w[p], S) : g[j] = g[k] => j = k
      OBVIOUS
    <3>3. \A y \in P(w[p]) : \E k \in Places(w[p], S) : g[k] = y
      OBVIOUS
    <3>4. IsFiniteSet(Places(w[p], S))
      BY PlacesFinite DEF Lists
    <3> HIDE DEF g, P
    <3> QED
      BY <3>1, <3>2, <3>3, <3>4, SameNumber DEF Num
  <2> HIDE DEF R, P
  <2>6. Cardinality(R \cup P(w[p])) = Cardinality(R) + Cardinality(P(w[p]))
    BY <2>2, <2>4, Together
  <2> QED
    BY <2>2, <2>5, <2>6 DEF Count
<1>5. IsFiniteSet(R) /\ Cardinality(R) \in Nat
  <2>1. R \subseteq Where(t, S)
    OBVIOUS
  <2> QED
    BY <2>1, WhereFinite, FS_Subset, FS_CardinalityType
<1>6. Num(u, S) \in Nat /\ Num(t[p], S) \in Nat
  BY PlacesFinite DEF Lists
<1>7. Count(t, S) = Cardinality(R) + Num(t[p], S)
  BY <1>4
<1>8. Count(v, S) = Cardinality(R) + Num(u, S)
  BY <1>2, <1>3, <1>4
<1> HIDE DEF R
<1> QED
  BY <1>1, <1>2, <1>5, <1>6, <1>7, <1>8

LEMMA InWhere ==
  ASSUME NEW t \in Lists, NEW S, NEW p \in Process, NEW w \in In(t[p]), w \in S
  PROVE  Count(t, S) >= 1 /\ \E k \in Nat : <<p, k>> \in Where(t, S)
<1>1. PICK k \in 1 .. Len(t[p]) : w = t[p][k]
  BY DEF In
<1>2. k \in Nat
  BY <1>1, LenProperties DEF Lists
<1>3. <<p, k>> \in Where(t, S)
  BY <1>1, <1>2 DEF Where
<1>4. Count(t, S) # 0
  BY <1>3, WhereFinite, FS_EmptySet DEF Count
<1> QED
  BY <1>2, <1>3, <1>4, WhereFinite

LEMMA TwoInWhere ==
  ASSUME NEW t \in Lists, NEW S, NEW p \in Process, NEW q \in Process, p # q,
         NEW v \in In(t[p]), v \in S, NEW w \in In(t[q]), w \in S
  PROVE  Count(t, S) >= 2
<1>1. PICK j \in Nat, k \in Nat : <<p, j>> \in Where(t, S) /\ <<q, k>> \in Where(t, S)
  BY InWhere
<1>2. IsFiniteSet(Where(t, S)) /\ Count(t, S) \in Nat
  BY WhereFinite
<1>3. PICK A, x, y : A = Where(t, S) /\ x = <<p, j>> /\ y = <<q, k>>
  OBVIOUS
<1>4. x \in A /\ y \in A /\ x # y
  BY <1>1, <1>3
<1>5. Cardinality(A \ {x}) = Cardinality(A) - 1 /\ IsFiniteSet(A \ {x})
  BY <1>2, <1>3, <1>4, FS_RemoveElement
<1>6. Cardinality(A \ {x}) # 0
  BY <1>4, <1>5, FS_EmptySet
<1> QED
  BY <1>2, <1>3, <1>5, <1>6, FS_CardinalityType DEF Count

LEMMA NoneInWhere ==
  ASSUME NEW t \in Lists, NEW S, \A p \in Process : \A w \in In(t[p]) : w \notin S
  PROVE  Count(t, S) = 0
<1>1. Where(t, S) = {}
  BY DEF Where, In
<1> QED
  BY <1>1, FS_EmptySet DEF Count

(***************************************************************************)
(* The invariant, and a step of p as an exchange of instructions.          *)
(***************************************************************************)
Forms == todo \in Lists /\ \A p \in Process : Formed(todo[p])

Weight(O, S) == Cardinality(O \cap S)
Changes(p, O, N) ==
  /\ Forms' /\ \A q \in Process : q # p => todo'[q] = todo[q]
  /\ \A S : Count(todo', S) + Weight(O, S) = Count(todo, S) + Weight(N, S)

(* Nothing else remains to be done; something may.                         *)
Swaps(p, O, N) ==
  Changes(p, O, N) /\ In(todo[p]) = O /\ In(todo'[p]) = N
Trades(p, O, N) ==
  /\ Changes(p, O, N)
  /\ \E K \in SUBSET Closing : In(todo[p]) = O \cup K /\ In(todo'[p]) = N \cup K

LEMMA Weigh ==
  ASSUME NEW a, NEW S
  PROVE  IsFiniteSet({a} \cap S) /\ Weight({}, S) = 0 /\ Weight({a}, S) = Bit(a \in S)
<1>1. PICK A, E : A = {a} \cap S /\ E = {} \cap S
  OBVIOUS
<1>2. E = {} /\ (a \in S => A = {a}) /\ (a \notin S => A = {})
  BY <1>1
<1>3. Cardinality(E) = 0
  BY <1>2, FS_EmptySet
<1>4. IsFiniteSet(A) /\ Cardinality(A) = Bit(a \in S)
  BY <1>2, FS_EmptySet, FS_Singleton DEF Bit
<1> QED
  BY <1>1, <1>3, <1>4 DEF Weight

LEMMA Weigh2 ==
  ASSUME NEW a, NEW b, a # b, NEW S
  PROVE  IsFiniteSet({a, b} \cap S) /\ Weight({a, b}, S) = Bit(a \in S) + Bit(b \in S)
<1>1. PICK A, B, C : A = {a} \cap S /\ B = {b} \cap S /\ C = {a, b} \cap S
  OBVIOUS
<1>2. C = A \cup B /\ A \cap B = {}
  BY <1>1
<1>3. IsFiniteSet(A) /\ Cardinality(A) = Bit(a \in S)
  BY <1>1, Weigh DEF Weight
<1>4. IsFiniteSet(B) /\ Cardinality(B) = Bit(b \in S)
  BY <1>1, Weigh DEF Weight
<1>5. IsFiniteSet(C) /\ Cardinality(C) = Bit(a \in S) + Bit(b \in S)
  BY ZenonT(60), <1>2, <1>3, <1>4, Together
<1> QED
  BY <1>1, <1>5 DEF Weight

LEMMA Weigh3 ==
  ASSUME NEW a, NEW b, NEW c, a # b, a # c, b # c, NEW S
  PROVE  Weight({a, b, c}, S) = Bit(a \in S) + Bit(b \in S) + Bit(c \in S)
<1>1. PICK A, B, C : A = {a, b} \cap S /\ B = {c} \cap S /\ C = {a, b, c} \cap S
  OBVIOUS
<1>2. C = A \cup B /\ A \cap B = {}
  BY <1>1
<1>3. IsFiniteSet(A) /\ Cardinality(A) = Bit(a \in S) + Bit(b \in S)
  BY <1>1, Weigh2 DEF Weight
<1>4. IsFiniteSet(B) /\ Cardinality(B) = Bit(c \in S)
  BY <1>1, Weigh DEF Weight
<1>5. Cardinality(C) = Bit(a \in S) + Bit(b \in S) + Bit(c \in S)
  BY ZenonT(60), <1>2, <1>3, <1>4, Together
<1> QED
  BY <1>1, <1>5 DEF Weight

(* One process's list is replaced.                                         *)
LEMMA OneList ==
  ASSUME Forms, NEW p \in Process, NEW u, Formed(u), todo' = [todo EXCEPT ![p] = u]
  PROVE  /\ Forms' /\ todo'[p] = u /\ \A q \in Process : q # p => todo'[q] = todo[q]
         /\ \A S : /\ Count(todo', S) + Num(todo[p], S) = Count(todo, S) + Num(u, S)
                   /\ Count(todo', S) \in Nat /\ Count(todo, S) \in Nat
                   /\ Num(todo[p], S) \in Nat /\ Num(u, S) \in Nat
<1>1. todo \in Lists /\ u \in Seq(Instr) /\ todo[p] \in Seq(Instr)
  BY DEF Forms, Formed, Lists
<1>2. /\ todo' \in Lists
      /\ \A S : Count(todo', S) + Num(todo[p], S) = Count(todo, S) + Num(u, S)
  BY <1>1, Counted
<1>3. todo'[p] = u /\ \A q \in Process : q # p => todo'[q] = todo[q]
  BY <1>1 DEF Lists
<1>4. Forms'
  BY <1>2, <1>3 DEF Forms
<1> QED
  BY <1>1, <1>2, <1>3, <1>4, WhereFinite, PlacesFinite

LEMMA Begun ==
  ASSUME Forms, NEW p \in Process, todo[p] = <<>>, NEW a
  PROVE  /\ todo' = [todo EXCEPT ![p] = <<>>] => Swaps(p, {}, {})
         /\ a \in Instr /\ todo' = [todo EXCEPT ![p] = <<a>>] => Swaps(p, {}, {a})
<1>1. In(todo[p]) = {} /\ \A S : Num(todo[p], S) = 0
  BY OfTuples
<1>2. ASSUME todo' = [todo EXCEPT ![p] = <<>>] PROVE Swaps(p, {}, {})
  <2>1. /\ Forms' /\ todo'[p] = <<>> /\ \A q \in Process : q # p => todo'[q] = todo[q]
        /\ \A S : Count(todo', S) + Num(todo[p], S) = Count(todo, S) + Num(<<>>, S)
    BY <1>2, FormedNew, OneList
  <2>2. In(todo'[p]) = {} /\ \A S : Num(<<>>, S) = 0
    BY <2>1, OfTuples
  <2> QED
    BY <1>1, <2>1, <2>2, Weigh DEF Swaps, Changes
<1>3. ASSUME a \in Instr, todo' = [todo EXCEPT ![p] = <<a>>] PROVE Swaps(p, {}, {a})
  <2>1. PICK u : u = <<a>>
    OBVIOUS
  <2>2. /\ Forms' /\ todo'[p] = u /\ \A q \in Process : q # p => todo'[q] = todo[q]
        /\ \A S : Count(todo', S) + Num(todo[p], S) = Count(todo, S) + Num(u, S)
    BY <1>3, <2>1, FormedNew, OneList
  <2>3. In(u) = {a} /\ \A S : Num(u, S) = Bit(a \in S)
    BY <2>1, OfTuples
  <2> QED
    BY <1>1, <2>2, <2>3, Weigh DEF Swaps, Changes
<1> QED
  BY <1>2, <1>3

LEMMA Continued ==
  ASSUME Forms, NEW p \in Process, todo[p] # <<>>, NEW w, w = Head(todo[p]), w \notin Opening,
         NEW a, NEW is, Open!Continue(p, is)
  PROVE  /\ is = <<>> => Swaps(p, {w}, {})
         /\ is = <<a>> /\ a \in Instr => Swaps(p, {w}, {a})
<1>1. /\ Formed(todo[p]) /\ In(todo[p]) = {w} /\ \A S : Num(todo[p], S) = Bit(w \in S)
      /\ \A u : Formed(u) => u \o Tail(todo[p]) = u
  BY Alone, FormedNew DEF Forms
<1>2. ASSUME NEW u, Formed(u), u = is
      PROVE  /\ Forms' /\ todo'[p] = u /\ \A q \in Process : q # p => todo'[q] = todo[q]
             /\ \A S : Count(todo', S) + Bit(w \in S) = Count(todo, S) + Num(u, S)
  <2>1. todo' = [todo EXCEPT ![p] = u]
    BY <1>1, <1>2 DEF Open!Continue, Forms, Lists
  <2>2. /\ Forms' /\ todo'[p] = u /\ \A q \in Process : q # p => todo'[q] = todo[q]
        /\ \A S : Count(todo', S) + Num(todo[p], S) = Count(todo, S) + Num(u, S)
    BY ZenonT(60), <1>2, <2>1, OneList
  <2> QED
    BY <1>1, <2>2
<1>3. ASSUME is = <<>> PROVE Swaps(p, {w}, {})
  <2>1. Formed(is) /\ In(is) = {} /\ \A S : Num(is, S) = 0
    BY <1>3, FormedNew, OfTuples
  <2> QED
    BY <1>1, <1>2, <2>1, Weigh DEF Swaps, Changes
<1>4. ASSUME is = <<a>>, a \in Instr PROVE Swaps(p, {w}, {a})
  <2>1. Formed(is) /\ In(is) = {a} /\ \A S : Num(is, S) = Bit(a \in S)
    BY <1>4, FormedNew, OfTuples
  <2>2. Forms' /\ todo'[p] = is /\ \A q \in Process : q # p => todo'[q] = todo[q]
    BY <1>2, <2>1
  <2>3. ASSUME NEW S PROVE Count(todo', S) + Weight({w}, S) = Count(todo, S) + Weight({a}, S)
    BY ZenonT(60), <1>2, <2>1, Weigh
  <2> QED
    BY <1>1, <2>1, <2>2, <2>3 DEF Swaps, Changes
<1> QED
  BY <1>3, <1>4

LEMMA Continued2 ==
  ASSUME Forms, NEW p \in Process, todo[p] # <<>>, NEW w, w = Head(todo[p]), w \notin Opening,
         NEW a \in Opening, NEW b \in Closing, a # b, Open!Continue(p, <<a, b>>)
  PROVE  Swaps(p, {w}, {a, b})
<1>1. PICK u : u = <<a, b>>
  OBVIOUS
<1>2. Formed(u) /\ In(u) = {a, b} /\ \A S : Num(u, S) = Bit(a \in S) + Bit(b \in S)
  <2>1. Formed(<<a, b>>)
    BY FormedNew
  <2>2. In(<<a, b>>) = {a, b} /\ \A S : Num(<<a, b>>, S) = Bit(a \in S) + Bit(b \in S)
    BY OfPair
  <2> QED
    BY <1>1, <2>1, <2>2
<1>3. /\ Formed(todo[p]) /\ In(todo[p]) = {w} /\ \A S : Num(todo[p], S) = Bit(w \in S)
      /\ u \o Tail(todo[p]) = u
  BY <1>2, Alone DEF Forms
<1>4. todo' = [todo EXCEPT ![p] = u]
  BY <1>1, <1>3 DEF Open!Continue, Forms, Lists
<1>5. /\ Forms' /\ todo'[p] = u /\ \A q \in Process : q # p => todo'[q] = todo[q]
      /\ \A S : Count(todo', S) + Bit(w \in S) = Count(todo, S) + Num(u, S)
  BY ZenonT(60), <1>2, <1>3, <1>4, OneList
<1>6. ASSUME NEW S PROVE Count(todo', S) + Weight({w}, S) = Count(todo, S) + Weight({a, b}, S)
  <2>1. Count(todo', S) + Bit(w \in S) = Count(todo, S) + Num(u, S)
    BY <1>5
  <2>2. Num(u, S) = Bit(a \in S) + Bit(b \in S)
    BY <1>2
  <2>3. Weight({a, b}, S) = Bit(a \in S) + Bit(b \in S)
    BY Weigh2
  <2> QED
    BY <2>1, <2>2, <2>3, Weigh
<1> QED
  BY <1>2, <1>3, <1>5, <1>6 DEF Swaps, Changes

(* exit() closes the next descriptor.                                      *)
LEMMA Continued3 ==
  ASSUME Forms, NEW p \in Process, todo[p] # <<>>, NEW w, w = Head(todo[p]), w \notin Opening,
         NEW a \in Opening, NEW b \in Opening \cap Closing, NEW c \in Closing,
         a # b, a # c, b # c, Open!Continue(p, <<a, b, c>>)
  PROVE  Swaps(p, {w}, {a, b, c})
<1>1. PICK u : u = <<a, b, c>>
  OBVIOUS
<1>2. Formed(u) /\ In(u) = {a, b, c} /\ \A S : Num(u, S) = Bit(a \in S) + Bit(b \in S) + Bit(c \in S)
  <2>1. Formed(<<a, b, c>>)
    BY FormedNew
  <2>2. /\ In(<<a, b, c>>) = {a, b, c}
        /\ \A S : Num(<<a, b, c>>, S) = Bit(a \in S) + Bit(b \in S) + Bit(c \in S)
    BY OfTriple
  <2> QED
    BY <1>1, <2>1, <2>2
<1>3. /\ Formed(todo[p]) /\ In(todo[p]) = {w} /\ \A S : Num(todo[p], S) = Bit(w \in S)
      /\ u \o Tail(todo[p]) = u
  BY <1>2, Alone DEF Forms
<1>4. todo' = [todo EXCEPT ![p] = u]
  BY <1>1, <1>3 DEF Open!Continue, Forms, Lists
<1>5. /\ Forms' /\ todo'[p] = u /\ \A q \in Process : q # p => todo'[q] = todo[q]
      /\ \A S : Count(todo', S) + Bit(w \in S) = Count(todo, S) + Num(u, S)
  BY ZenonT(60), <1>2, <1>3, <1>4, OneList
<1>6. ASSUME NEW S PROVE Count(todo', S) + Weight({w}, S) = Count(todo, S) + Weight({a, b, c}, S)
  <2>1. Count(todo', S) + Bit(w \in S) = Count(todo, S) + Num(u, S)
    BY <1>5
  <2>2. Num(u, S) = Bit(a \in S) + Bit(b \in S) + Bit(c \in S)
    BY <1>2
  <2>3. Weight({a, b, c}, S) = Bit(a \in S) + Bit(b \in S) + Bit(c \in S)
    BY Weigh3
  <2> QED
    BY <2>1, <2>2, <2>3, Weigh
<1> QED
  BY <1>2, <1>3, <1>5, <1>6 DEF Swaps, Changes

(* An instruction that others may follow is carried out, or turns into     *)
(* another of that kind.                                                   *)
LEMMA Traded ==
  ASSUME Forms, NEW p \in Process, todo[p] # <<>>, NEW w, w = Head(todo[p]),
         NEW a, NEW is, Open!Continue(p, is)
  PROVE  /\ is = <<>> => Trades(p, {w}, {})
         /\ is = <<a>> /\ a \in Opening => Trades(p, {w}, {a})
<1>1. PICK t : t = Tail(todo[p])
  OBVIOUS
<1>2. /\ Formed(todo[p]) /\ Formed(t) /\ In(todo[p]) = {w} \cup In(t) /\ In(t) \subseteq Closing
      /\ \A S : Num(todo[p], S) = Bit(w \in S) + Num(t, S)
      /\ <<>> \o t = t
  BY <1>1, TailFormed DEF Forms
<1>3. \A S : Num(t, S) \in Nat
  BY <1>2, PlacesFinite DEF Formed
<1>4. ASSUME is = <<>> PROVE Trades(p, {w}, {})
  <2>1. todo' = [todo EXCEPT ![p] = t]
    BY <1>1, <1>2, <1>4 DEF Open!Continue, Forms, Lists
  <2>2. /\ Forms' /\ todo'[p] = t /\ \A q \in Process : q # p => todo'[q] = todo[q]
        /\ \A S : /\ Count(todo', S) + Num(todo[p], S) = Count(todo, S) + Num(t, S)
                  /\ Count(todo', S) \in Nat /\ Count(todo, S) \in Nat
    BY <1>2, <2>1, OneList
  <2>3. \A S : Count(todo', S) + Bit(w \in S) = Count(todo, S) + 0
    BY <1>2, <1>3, <2>2, BitType
  <2> QED
    BY <1>2, <2>2, <2>3, Weigh DEF Trades, Changes
<1>5. ASSUME is = <<a>>, a \in Opening PROVE Trades(p, {w}, {a})
  <2>1. PICK u : u = <<a>> \o t
    OBVIOUS
  <2>2. /\ Formed(u) /\ In(u) = {a} \cup In(t)
        /\ \A S : Num(u, S) = Bit(a \in S) + Num(t, S)
    BY <1>1, <1>2, <1>5, <2>1, Replaced
  <2>3. todo' = [todo EXCEPT ![p] = u]
    BY <1>1, <1>5, <2>1 DEF Open!Continue, Forms, Lists
  <2>4. /\ Forms' /\ todo'[p] = u /\ \A q \in Process : q # p => todo'[q] = todo[q]
        /\ \A S : /\ Count(todo', S) + Num(todo[p], S) = Count(todo, S) + Num(u, S)
                  /\ Count(todo', S) \in Nat /\ Count(todo, S) \in Nat
    BY <2>2, <2>3, OneList
  <2>5. \A S : Count(todo', S) + Bit(w \in S) = Count(todo, S) + Bit(a \in S)
    BY <1>2, <1>3, <2>2, <2>4, BitType
  <2> QED
    BY ZenonT(60), <1>2, <2>2, <2>4, <2>5, Weigh DEF Trades, Changes
<1> QED
  BY <1>4, <1>5

(***************************************************************************)
(* The sets that FilesCounted counts, and those counted here.              *)
(***************************************************************************)
Refers(f) ==
  {x \in Process \X Open!Fd : ofile[x[1]][x[2]] = f /\ Clear(x[2]) \notin In(todo[x[1]])}

RefsRight ==
  \A f \in Open!File :
    file[f].ref + Count(todo, Dups(f)) = Cardinality(Refers(f)) + Count(todo, Owns(f))

Piped(k, end) ==
  {f \in Open!File : file[f].type = "pipe" /\ file[f].obj = k /\ file[f].mode = end}
EndsRight ==
  \A k \in Page, end \in {"r", "w"} :
    Cardinality(Piped(k, end)) + Count(todo, Ends(k, end)) = Bit(end \in open[k])

Stands(i) == {f \in Open!File : file[f].type \in {"inode", "device"} /\ file[f].obj = i}
InodesRight == \A i \in Inode : iref[i] = Cardinality(Stands(i)) + Count(todo, Puts(i))

Numbered ==
  /\ file \in [Open!File -> Struct]
  /\ \A f \in Open!File : file[f].ref = 0 => file[f].type = "none"

LEMMA PendingIs ==
  ASSUME Forms
  PROVE  /\ \A x : x \in Open!Pending <=> x \in Process \X Nat /\ x[2] \in 1 .. Len(todo[x[1]])
         /\ \A x \in Open!Pending : Open!Of(x) = todo[x[1]][x[2]] /\ Open!Of(x) \in Instr
<1>1. ASSUME NEW p \in Process
      PROVE  DOMAIN todo[p] = 1 .. Len(todo[p]) /\ Len(todo[p]) \in Nat /\ todo[p] \in Seq(Instr)
  BY LenProperties DEF Forms, Lists
<1>2. ASSUME NEW x
      PROVE  x \in Open!Pending <=> x \in Process \X Nat /\ x[2] \in 1 .. Len(todo[x[1]])
  <2>1. x \in Open!Pending <=> \E p \in Process : \E k \in DOMAIN todo[p] : x = <<p, k>>
    BY DEF Open!Pending
  <2>2. ASSUME NEW p \in Process, NEW k \in DOMAIN todo[p], x = <<p, k>>
        PROVE  x \in Process \X Nat /\ x[2] \in 1 .. Len(todo[x[1]])
    <3>1. k \in 1 .. Len(todo[p]) /\ k \in Nat /\ x[1] = p /\ x[2] = k
      BY <1>1, <2>2
    <3> QED
      BY <2>2, <3>1
  <2>3. ASSUME x \in Process \X Nat, x[2] \in 1 .. Len(todo[x[1]])
        PROVE  \E p \in Process : \E k \in DOMAIN todo[p] : x = <<p, k>>
    <3>1. PICK p \in Process, k \in Nat : x = <<p, k>>
      BY <2>3
    <3>2. k \in DOMAIN todo[p]
      BY <1>1, <2>3, <3>1
    <3> QED
      BY <3>1, <3>2
  <2> QED
    BY <2>1, <2>2, <2>3
<1>3. ASSUME NEW x \in Open!Pending
      PROVE  Open!Of(x) = todo[x[1]][x[2]] /\ Open!Of(x) \in Instr
  <2>1. x[1] \in Process /\ x[2] \in 1 .. Len(todo[x[1]])
    BY <1>2
  <2>2. todo[x[1]][x[2]] \in Instr
    BY <1>1, <2>1, ElementOfSeq
  <2> QED
    BY <2>2 DEF Open!Of
<1> QED
  BY <1>2, <1>3

LEMMA HandsAre ==
  ASSUME Forms, NEW f, NEW k, NEW end, NEW i
  PROVE  /\ Open!Hands(LAMBDA w : w.do = "dup" /\ w.f = f) = Count(todo, Dups(f))
         /\ Open!Hands(LAMBDA w : \/ w.do \in {"close", "openfd"} /\ w.f = f
                                  \/ w.do \in {"pipe1", "page", "pipefds"} /\ w.r = f
                                  \/ w.do \in {"page", "pipefds"} /\ w.w = f)
              = Count(todo, Owns(f))
         /\ Open!Hands(LAMBDA w : /\ w.do = "last" /\ w.ff.type = "pipe"
                                  /\ w.ff.obj = k /\ w.ff.mode = end)
              = Count(todo, Ends(k, end))
         /\ Open!Hands(LAMBDA w : \/ /\ w.do = "last" /\ w.ff.type \in {"inode", "device"}
                                     /\ w.ff.obj = i
                                  \/ w.do \in {"iput", "open", "openfd", "unlockput"} /\ w.i = i)
              = Count(todo, Puts(i))
<1>1. ASSUME NEW S PROVE Where(todo, S) = {x \in Open!Pending : Open!Of(x) \in S}
  BY PendingIs DEF Where
<1>2. \A x \in Open!Pending : Open!Of(x) \in Dups(f) <=> Open!Of(x).do = "dup" /\ Open!Of(x).f = f
  BY PendingIs DEF Dups
<1>3. {x \in Open!Pending : Open!Of(x).do = "dup" /\ Open!Of(x).f = f} = Where(todo, Dups(f))
  BY <1>1, <1>2
<1>4. Open!Hands(LAMBDA w : w.do = "dup" /\ w.f = f) = Count(todo, Dups(f))
  BY <1>3, SameCount DEF Open!Hands, Count
<1>5. \A x \in Open!Pending :
        Open!Of(x) \in Owns(f) <=>
          \/ Open!Of(x).do \in {"close", "openfd"} /\ Open!Of(x).f = f
          \/ Open!Of(x).do \in {"pipe1", "page", "pipefds"} /\ Open!Of(x).r = f
          \/ Open!Of(x).do \in {"page", "pipefds"} /\ Open!Of(x).w = f
  BY PendingIs DEF Owns
<1>6. {x \in Open!Pending :
          \/ Open!Of(x).do \in {"close", "openfd"} /\ Open!Of(x).f = f
          \/ Open!Of(x).do \in {"pipe1", "page", "pipefds"} /\ Open!Of(x).r = f
          \/ Open!Of(x).do \in {"page", "pipefds"} /\ Open!Of(x).w = f} = Where(todo, Owns(f))
  BY <1>1, <1>5
<1>7. \A x \in Open!Pending :
        Open!Of(x) \in Ends(k, end) <=>
          /\ Open!Of(x).do = "last" /\ Open!Of(x).ff.type = "pipe"
          /\ Open!Of(x).ff.obj = k /\ Open!Of(x).ff.mode = end
  BY PendingIs DEF Ends
<1>8. {x \in Open!Pending :
          /\ Open!Of(x).do = "last" /\ Open!Of(x).ff.type = "pipe"
          /\ Open!Of(x).ff.obj = k /\ Open!Of(x).ff.mode = end} = Where(todo, Ends(k, end))
  BY <1>1, <1>7
<1>9. \A x \in Open!Pending :
        Open!Of(x) \in Puts(i) <=>
          \/ /\ Open!Of(x).do = "last" /\ Open!Of(x).ff.type \in {"inode", "device"}
             /\ Open!Of(x).ff.obj = i
          \/ Open!Of(x).do \in {"iput", "open", "openfd", "unlockput"} /\ Open!Of(x).i = i
  BY PendingIs DEF Puts
<1>10. {x \in Open!Pending :
          \/ /\ Open!Of(x).do = "last" /\ Open!Of(x).ff.type \in {"inode", "device"}
             /\ Open!Of(x).ff.obj = i
          \/ Open!Of(x).do \in {"iput", "open", "openfd", "unlockput"} /\ Open!Of(x).i = i}
         = Where(todo, Puts(i))
  BY <1>1, <1>9
<1> QED
  BY <1>3, <1>6, <1>8, <1>10, SameCount DEF Open!Hands, Count

LEMMA RefersIs ==
  ASSUME Forms, NEW f PROVE Open!Descriptors(f) = Refers(f)
<1>1. ASSUME NEW p \in Process, NEW e
      PROVE  (\A k \in DOMAIN todo[p] : todo[p][k] # [do |-> "clear", fd |-> e])
             <=> Clear(e) \notin In(todo[p])
  <2>1. DOMAIN todo[p] = 1 .. Len(todo[p])
    BY LenProperties DEF Forms, Lists
  <2> QED
    BY <2>1 DEF In, Clear
<1> QED
  BY <1>1 DEF Open!Descriptors, Refers

LEMMA RefersFinite ==
  ASSUME NEW f PROVE IsFiniteSet(Process \X Open!Fd) /\ IsFiniteSet(Refers(f)) /\ Cardinality(Refers(f)) \in Nat
<1>1. IsFiniteSet(Open!Fd)
  BY Finite, FS_Interval DEF Open!Fd
<1>2. IsFiniteSet(Process \X Open!Fd)
  BY <1>1, Finite, FS_Product
<1>3. Refers(f) \subseteq Process \X Open!Fd
  BY DEF Refers
<1> QED
  BY <1>2, <1>3, FS_Subset, FS_CardinalityType

LEMMA FilesFinite ==
  ASSUME NEW A, A \subseteq Open!File PROVE IsFiniteSet(Open!File) /\ IsFiniteSet(A) /\ Cardinality(A) \in Nat
<1>1. IsFiniteSet(Open!File)
  BY Finite, FS_Interval DEF Open!File
<1> QED
  BY <1>1, FS_Subset, FS_CardinalityType

LEMMA InUseIs ==
  ASSUME Numbered, NEW k, NEW end, NEW i
  PROVE  /\ {f \in Open!InUse({"pipe"}, k) : file[f].mode = end} = Piped(k, end)
         /\ Open!InUse({"inode", "device"}, i) = Stands(i)
<1>1. \A f \in Open!File : file[f].type \in {"pipe", "inode", "device"} => file[f].ref > 0
  BY DEF Numbered, Struct
<1> QED
  BY <1>1 DEF Open!InUse, Piped, Stands

LEMMA FromExact ==
  ASSUME Forms, Numbered, RefsRight, EndsRight, InodesRight
  PROVE  Open!RefsExact /\ Open!EndsExact /\ Open!InodeRefsExact
<1>1. Open!RefsExact
  BY HandsAre, RefersIs, SameCount DEF Open!RefsExact, RefsRight
<1>2. Open!EndsExact
  <2>1. ASSUME NEW k \in Page, NEW end \in {"r", "w"}
        PROVE  Open!Cardinality({f \in Open!InUse({"pipe"}, k) : file[f].mode = end})
                 + Open!Cardinality({x \in Open!Pending :
                      /\ Open!Of(x).do = "last" /\ Open!Of(x).ff.type = "pipe"
                      /\ Open!Of(x).ff.obj = k /\ Open!Of(x).ff.mode = end})
                 = IF end \in open[k] THEN 1 ELSE 0
    <3>1. Open!Cardinality({f \in Open!InUse({"pipe"}, k) : file[f].mode = end})
            = Cardinality(Piped(k, end))
      BY InUseIs, SameCount
    <3>2. Open!Cardinality({x \in Open!Pending :
             /\ Open!Of(x).do = "last" /\ Open!Of(x).ff.type = "pipe"
             /\ Open!Of(x).ff.obj = k /\ Open!Of(x).ff.mode = end}) = Count(todo, Ends(k, end))
      BY HandsAre DEF Open!Hands
    <3> QED
      BY <3>1, <3>2 DEF EndsRight, Bit
  <2> QED
    BY <2>1 DEF Open!EndsExact, Open!Hands
<1>3. Open!InodeRefsExact
  BY HandsAre, InUseIs, SameCount DEF Open!InodeRefsExact, InodesRight
<1> QED
  BY <1>1, <1>2, <1>3

(***************************************************************************)
(* The invariant.  What a process that runs, or is born or dies, has.      *)
(***************************************************************************)
Life ==
  \A p \in Process :
    /\ status[p] # "runs" => todo[p] = <<>>
    /\ status[p] = "unused" => \A e \in Open!Fd : ofile[p][e] = Nothing

Forks ==
  \A p \in Process : \A w \in In(todo[p]) :
    w.do = "fork" =>
      /\ status[w.c] = "embryo" /\ \A e \in Open!Fd : e >= w.fd => ofile[w.c][e] = Nothing
      /\ \A q \in Process : \A v \in In(todo[q]) : v.do = "fork" /\ v.c = w.c => q = p

(* A descriptor that exit() has passed is cleared, or will be.             *)
Passed(p, w) ==
  w.do = "exit" =>
    \A e \in Open!Fd : e < w.fd => ofile[p][e] = Nothing \/ Clear(e) \in In(todo[p])

(* Nobody has a file that is not ready; whoever dup()s has it twice.       *)
Fresh(f) == file[f].type = "none" /\ file[f].ref = 1

Unready(w) ==
  /\ w.do = "openfd" => Fresh(w.f)
  /\ w.do = "pipe1" => Fresh(w.r)
  /\ w.do = "page" => Fresh(w.r) /\ Fresh(w.w) /\ w.r # w.w
  /\ w.do = "pipefds" => file[w.r].type # "none" /\ file[w.w].type # "none" /\ w.r # w.w

Dupped(p, w) ==
  w.do = "dup" => \E d, e \in Open!Fd : d # e /\ ofile[p][d] = w.f /\ ofile[p][e] = w.f

Moving(p, w) ==
  w.do \in {"read", "write", "readi", "writei"} =>
    /\ \E e \in Open!Fd : ofile[p][e] = w.f
    /\ file[w.f].type = "inode"
    /\ w.do \in {"read", "readi"} => file[w.f].mode # "w"
    /\ w.do \in {"write", "writei"} => file[w.f].mode # "r"

(* Who has an inode locked; f->off does not change meanwhile.              *)
Locked(p, w) == w.do \in {"open", "openfd", "unlockput"} => holder[w.i] = p

Still(p, w) ==
  w.do \in {"readi", "writei"} => holder[file[w.f].obj] = p /\ w.at = file[w.f].off

Good(p, w) ==
  Passed(p, w) /\ Unready(w) /\ Dupped(p, w) /\ Moving(p, w) /\ Locked(p, w) /\ Still(p, w)

Works == \A p \in Process : \A w \in In(todo[p]) : Good(p, w)

Typed == \A f \in Open!File : Refers(f) # {} => file[f].type # "none"

(* What files on disk hold.                                                *)
Writers(i) ==
  {f \in Open!File : file[f].type = "inode" /\ file[f].obj = i /\ file[f].mode # "r"}
Units(i, p) == {k \in 1 .. Len(data[i]) : data[i][k] = p}

Kinds ==
  /\ data \in [Inode -> Seq(Process)] /\ stored \in [Inode -> [Process -> Nat]]
  /\ openings \in [Inode -> Nat]

Sizes ==
  /\ \A f \in Open!File : file[f].off <= MaxSize
  /\ \A i \in Inode : Len(data[i]) <= MaxSize

WrittenAt(i) ==
  /\ openings[i] = 0 => data[i] = <<>> /\ \A p \in Process : stored[i][p] = 0
  /\ Cardinality(Writers(i)) <= openings[i]
  /\ openings[i] <= 1 =>
       /\ \A f \in Writers(i) : file[f].off = Len(data[i])
       /\ \A p \in Process : Cardinality(Units(i, p)) = stored[i][p]
Written == \A i \in Inode : WrittenAt(i)

Types ==
  /\ ofile \in [Process -> [Open!Fd -> Open!File \cup {Nothing}]]
  /\ status \in [Process -> {"unused", "embryo", "runs"}]
  /\ open \in [Page -> SUBSET {"r", "w"}] /\ iref \in [Inode -> Int]
  /\ holder \in [Inode -> Process \cup {Nothing}]

FilesInv ==
  /\ Forms /\ Numbered /\ Types /\ Kinds /\ Sizes
  /\ Life /\ Forks /\ Works /\ Typed
  /\ RefsRight /\ EndsRight /\ InodesRight /\ Written

(* What is neither followed nor follows is all there is.                   *)
LEMMA Sole ==
  ASSUME NEW s, Formed(s), NEW w \in In(s), w \notin Opening, w \notin Closing
  PROVE  In(s) = {w} /\ \A k \in 1 .. Len(s) : k = 1
<1>1. PICK k \in 1 .. Len(s) : w = s[k]
  BY DEF In
<1>2. k = Len(s) /\ k = 1
  BY <1>1 DEF Formed
<1>3. \A j \in 1 .. Len(s) : j = 1
  BY <1>2
<1> QED
  BY <1>1, <1>2, <1>3 DEF In

LEMMA SoleOf ==
  ASSUME Forms, NEW p \in Process, NEW w \in In(todo[p])
  PROVE  /\ w \in Instr
         /\ w.do \notin {"close", "last", "iput", "clear", "unlockput", "exit"} =>
              In(todo[p]) = {w} /\ \A k \in 1 .. Len(todo[p]) : k = 1
<1>1. Formed(todo[p]) /\ w \in Instr
  BY FormedInstr DEF Forms
<1>2. ASSUME w.do \notin {"close", "last", "iput", "clear", "unlockput", "exit"}
      PROVE  w \notin Opening /\ w \notin Closing
  BY <1>2 DEF Opening, Closing
<1> QED
  BY <1>1, <1>2, Sole

LEMMA ClearDo == \A e : Clear(e).do = "clear" /\ Clear(e).fd = e
BY DEF Clear

(* For each reference that dup() still owes there are two descriptors.     *)
LEMMA DupsBound ==
  ASSUME Forms, Works, NEW f
  PROVE  Count(todo, Dups(f)) + Count(todo, Dups(f)) <= Cardinality(Refers(f))
<1> DEFINE D == Where(todo, Dups(f))
<1>1. ASSUME NEW x \in D
      PROVE  /\ x \in Process \X Nat /\ x[2] = 1 /\ \A e : Clear(e) \notin In(todo[x[1]])
             /\ \E d, e \in Open!Fd : d # e /\ ofile[x[1]][d] = f /\ ofile[x[1]][e] = f
  <2>1. PICK p \in Process, k \in Nat :
          x = <<p, k>> /\ k \in 1 .. Len(todo[p]) /\ todo[p][k] \in Dups(f)
    BY DEF Where
  <2>2. PICK w : w = todo[p][k]
    OBVIOUS
  <2>3. w \in In(todo[p]) /\ w.do = "dup" /\ w.f = f
    BY <2>1, <2>2 DEF In, Dups
  <2>4. In(todo[p]) = {w} /\ k = 1
    BY <2>1, <2>3, SoleOf
  <2>5. \A e : Clear(e) \notin In(todo[p])
    BY <2>3, <2>4, ClearDo
  <2>6. \E d, e \in Open!Fd : d # e /\ ofile[p][d] = f /\ ofile[p][e] = f
    BY <2>3 DEF Works, Good, Dupped
  <2> QED
    BY <2>1, <2>4, <2>5, <2>6
<1>2. PICK d \in [D -> Open!Fd], e \in [D -> Open!Fd] :
        \A x \in D : d[x] # e[x] /\ ofile[x[1]][d[x]] = f /\ ofile[x[1]][e[x]] = f
  <2>1. ASSUME NEW x \in D
        PROVE  \E c \in Open!Fd \X Open!Fd :
                 c[1] # c[2] /\ ofile[x[1]][c[1]] = f /\ ofile[x[1]][c[2]] = f
    <3>1. PICK a \in Open!Fd, b \in Open!Fd :
            a # b /\ ofile[x[1]][a] = f /\ ofile[x[1]][b] = f
      BY <1>1
    <3>2. <<a, b>> \in Open!Fd \X Open!Fd /\ <<a, b>>[1] = a /\ <<a, b>>[2] = b
      OBVIOUS
    <3> QED
      BY <3>1, <3>2
  <2> DEFINE C(x) == CHOOSE c \in Open!Fd \X Open!Fd :
                       c[1] # c[2] /\ ofile[x[1]][c[1]] = f /\ ofile[x[1]][c[2]] = f
  <2>2. ASSUME NEW x \in D
        PROVE  /\ C(x) \in Open!Fd \X Open!Fd /\ C(x)[1] # C(x)[2]
               /\ ofile[x[1]][C(x)[1]] = f /\ ofile[x[1]][C(x)[2]] = f
    BY <2>1
  <2> HIDE DEF C, D
  <2>3. [x \in D |-> C(x)[1]] \in [D -> Open!Fd] /\ [x \in D |-> C(x)[2]] \in [D -> Open!Fd]
    BY <2>2
  <2>4. PICK g, h : g = [x \in D |-> C(x)[1]] /\ h = [x \in D |-> C(x)[2]]
    OBVIOUS
  <2>5. g \in [D -> Open!Fd] /\ h \in [D -> Open!Fd]
    BY <2>3, <2>4
  <2>6. \A x \in D : g[x] # h[x] /\ ofile[x[1]][g[x]] = f /\ ofile[x[1]][h[x]] = f
    BY <2>2, <2>4
  <2> QED
    BY <2>5, <2>6
<1> DEFINE A == {<<x[1], d[x]>> : x \in D}
           B == {<<x[1], e[x]>> : x \in D}
<1>3. A \subseteq Refers(f) /\ B \subseteq Refers(f)
  BY <1>1, <1>2 DEF Refers
<1>4. ASSUME NEW x \in D, NEW y \in D, x[1] = y[1] PROVE x = y
  BY <1>1, <1>4
<1>5. A \cap B = {}
  BY <1>2, <1>4
<1>6. IsFiniteSet(D)
  BY WhereFinite DEF Forms
<1>7. ASSUME NEW g \in [D -> Open!Fd], NEW T, T = {<<x[1], g[x]>> : x \in D}
      PROVE  IsFiniteSet(T) /\ Cardinality(T) = Cardinality(D)
  <2> DEFINE h == [x \in D |-> <<x[1], g[x]>>]
  <2>1. h \in [D -> T] /\ \A t \in T : \E x \in D : h[x] = t
    BY <1>7
  <2>2. \A x, y \in D : h[x] = h[y] => x = y
    BY <1>4
  <2> HIDE DEF h, D
  <2> QED
    BY <1>6, <2>1, <2>2, SameNumber
<1> HIDE DEF D
<1>8. IsFiniteSet(A) /\ Cardinality(A) = Cardinality(D)
  BY <1>7
<1>9. IsFiniteSet(B) /\ Cardinality(B) = Cardinality(D)
  BY <1>7
<1> HIDE DEF A, B
<1>10. Cardinality(A \cup B) = Cardinality(A) + Cardinality(B)
  BY <1>5, <1>8, <1>9, Together
<1>11. Cardinality(A \cup B) <= Cardinality(Refers(f))
  BY <1>3, RefersFinite, FS_Subset
<1> QED
  BY <1>8, <1>9, <1>10, <1>11 DEF Count, D

LEMMA RefBound ==
  ASSUME Forms, Works, RefsRight, Numbered, NEW f \in Open!File
  PROVE  /\ file[f].ref \in Nat
         /\ Refers(f) # {} => file[f].ref >= 1
         /\ \A p \in Process : \A w \in In(todo[p]) :
              w \in Owns(f) => file[f].ref >= 1 /\ (Refers(f) # {} => file[f].ref >= 2)
         /\ \A p, q \in Process : \A v \in In(todo[p]), w \in In(todo[q]) :
              p # q /\ v \in Owns(f) /\ w \in Owns(f) => file[f].ref >= 2
<1>1. PICK R \in Nat, D \in Nat, O \in Nat :
        R = Cardinality(Refers(f)) /\ D = Count(todo, Dups(f)) /\ O = Count(todo, Owns(f))
  BY RefersFinite, WhereFinite DEF Forms
<1>2. D + D <= R
  BY <1>1, DupsBound
<1>3. file[f].ref \in Nat /\ file[f].ref + D = R + O
  BY <1>1 DEF RefsRight, Numbered, Struct
<1>4. Refers(f) # {} => R >= 1
  BY <1>1, RefersFinite, FS_EmptySet
<1>5. ASSUME NEW p \in Process, NEW w \in In(todo[p]), w \in Owns(f) PROVE O >= 1
  BY <1>1, <1>5, InWhere DEF Forms
<1>6. ASSUME NEW p \in Process, NEW q \in Process, NEW v \in In(todo[p]), NEW w \in In(todo[q]),
             p # q, v \in Owns(f), w \in Owns(f)
      PROVE  O >= 2
  BY <1>1, <1>6, TwoInWhere DEF Forms
<1> QED
  BY <1>2, <1>3, <1>4, <1>5, <1>6

(***************************************************************************)
(* What instructions have in them, and that those of the calls are some.   *)
(***************************************************************************)
LEMMA Fields ==
  ASSUME NEW w \in Instr
  PROVE  /\ w.do \in {"close", "dup", "last", "openfd", "read", "write", "readi", "writei"} =>
              w.f \in Open!File
         /\ w.do = "last" => w.ff \in Struct
         /\ w.do \in {"iput", "unlockput", "open", "openfd"} => w.i \in Inode
         /\ w.do \in {"open", "openfd"} => w.mode \in Open!Mode /\ w.trunc \in BOOLEAN
         /\ w.do \in {"pipe1", "page", "pipefds"} => w.r \in Open!File
         /\ w.do \in {"page", "pipefds"} => w.w \in Open!File
         /\ w.do = "fork" => w.c \in Process
         /\ w.do \in {"fork", "exit"} => w.fd \in 0 .. NOFILE
         /\ w.do = "clear" => w.fd \in Open!Fd /\ w = Clear(w.fd)
         /\ w.do \in {"read", "readi"} => w.n = 1
         /\ w.do \in {"write", "writei"} => w.n \in Nat \ {0}
         /\ w.do \in {"readi", "writei"} => w.at \in Nat
BY DEF Instr, Clear

LEMMA MakesLists ==
  /\ \A f \in Open!File : Open!Close(f) \in Opening /\ Open!Close(f) \in Closing
  /\ \A i \in Inode : Open!Put(i) \in Opening /\ Open!Unlockput(i) \in Closing
  /\ \A f \in Open!File, ff \in Struct : [do |-> "last", f |-> f, ff |-> ff] \in Opening
  /\ \A e \in Open!Fd : Clear(e) \in Opening /\ Clear(e) \in Closing
  /\ \A n \in 0 .. NOFILE : [do |-> "exit", fd |-> n] \in Closing
BY DEF Instr, Opening, Closing, Open!Close, Open!Put, Open!Unlockput, Clear

LEMMA Within == Opening \subseteq Instr /\ Closing \subseteq Instr
BY DEF Opening, Closing

LEMMA MakesFiles ==
  ASSUME NEW f \in Open!File, NEW g \in Open!File
  PROVE  /\ [do |-> "dup", f |-> f] \in Instr /\ [do |-> "pipe0"] \in Instr
         /\ [do |-> "pipe1", r |-> f] \in Instr
         /\ [do |-> "page", r |-> f, w |-> g] \in Instr
         /\ [do |-> "pipefds", r |-> f, w |-> g] \in Instr
BY DEF Instr

LEMMA MakesOpen ==
  ASSUME NEW f \in Open!File, NEW i \in Inode, NEW mode \in Open!Mode, NEW trunc \in BOOLEAN
  PROVE  /\ [do |-> "open", i |-> i, mode |-> mode, trunc |-> trunc] \in Instr
         /\ [do |-> "openfd", f |-> f, i |-> i, mode |-> mode, trunc |-> trunc] \in Instr
BY DEF Instr

LEMMA MakesLoops ==
  /\ \A c \in Process, n \in 0 .. NOFILE : [do |-> "fork", c |-> c, fd |-> n] \in Instr
  /\ \A n \in 0 .. NOFILE : [do |-> "exit", fd |-> n] \in Instr
BY DEF Instr

LEMMA MakesMoves ==
  /\ \A f \in Open!File : [do |-> "read", f |-> f, n |-> 1] \in Instr
  /\ \A f \in Open!File, n \in Nat \ {0} : [do |-> "write", f |-> f, n |-> n] \in Instr
  /\ \A f \in Open!File, at \in Nat : [do |-> "readi", f |-> f, n |-> 1, at |-> at] \in Instr
  /\ \A f \in Open!File, n \in Nat \ {0}, at \in Nat :
       [do |-> "writei", f |-> f, n |-> n, at |-> at] \in Instr
BY DEF Instr

LEMMA Least ==
  ASSUME NEW S \in SUBSET Nat, S # {}
  PROVE  Open!Min(S) \in S /\ \A e \in S : Open!Min(S) <= e
<1>1. PICK d \in S : \A e \in S : <<e, d>> \notin OpToRel(<, Nat)
  BY NatLessThanWellFounded, WFMin
<1>2. \A e \in S : ~(e < d)
  BY <1>1 DEF OpToRel
<1>3. \E x \in S : \A e \in S : x <= e
  BY <1>2
<1> QED
  BY <1>3 DEF Open!Min

LEMMA Heads ==
  ASSUME Forms, NEW p \in Process, NEW d, Open!At(p, d)
  PROVE  \E w \in In(todo[p]) :
           w \in Instr /\ w = Head(todo[p]) /\ w = Open!This(p) /\ w.do = d /\ todo[p] # <<>>
<1>1. todo[p] # <<>> /\ Head(todo[p]).do = d
  BY DEF Open!At
<1>2. Formed(todo[p]) /\ Head(todo[p]) \in In(todo[p]) /\ Head(todo[p]) \in Instr
  BY <1>1, TailFormed DEF Forms
<1> QED
  BY <1>1, <1>2 DEF Open!This

LEMMA NotOpening ==
  ASSUME NEW w \in Instr, w.do \notin {"close", "last", "iput", "clear"} PROVE w \notin Opening
BY DEF Opening

(***************************************************************************)
(* What each step does: the instruction it carries out, what replaces it,  *)
(* and what changes.                                                       *)
(***************************************************************************)

LEMMA FilecloseDoes ==
  ASSUME Forms, Numbered, NEW p \in Process, Open!Fileclose(p)
  PROVE  \E w \in In(todo[p]) :
           /\ w \in Instr /\ w.do = "close" /\ w.f \in Open!File
           /\ UNCHANGED <<ofile, status, open, iref, holder, data, stored, openings>>
           /\ \/ /\ file[w.f].ref > 1 /\ file' = [file EXCEPT ![w.f].ref = @ - 1]
                 /\ Trades(p, {w}, {})
              \/ /\ file[w.f].ref = 1
                 /\ file' = [file EXCEPT ![w.f] = [@ EXCEPT !.ref = 0, !.type = "none"]]
                 /\ Trades(p, {w}, {[do |-> "last", f |-> w.f, ff |-> file[w.f]]})
<1>1. PICK w \in In(todo[p]) :
        w \in Instr /\ w = Head(todo[p]) /\ w = Open!This(p) /\ w.do = "close" /\ todo[p] # <<>>
  BY Heads DEF Open!Fileclose
<1>2. w.f \in Open!File /\ file[w.f] \in Struct
  BY <1>1, Fields DEF Numbered
<1>3. UNCHANGED <<ofile, status, open, iref, holder, data, stored, openings>>
  BY DEF Open!Fileclose, Open!kernel, Open!contents
<1>4. PICK a : a = [do |-> "last", f |-> w.f, ff |-> file[w.f]]
  OBVIOUS
<1>5. a \in Opening
  BY <1>2, <1>4, MakesLists
<1>6. \/ file[w.f].ref > 1 /\ file' = [file EXCEPT ![w.f].ref = @ - 1] /\ Open!Continue(p, <<>>)
      \/ /\ file[w.f].ref = 1
         /\ file' = [file EXCEPT ![w.f] = [@ EXCEPT !.ref = 0, !.type = "none"]]
         /\ Open!Continue(p, <<a>>)
  BY <1>1, <1>4 DEF Open!Fileclose, Open!Closed
<1>7. Open!Continue(p, <<>>) => Trades(p, {w}, {})
  BY <1>1, Traded
<1>8. Open!Continue(p, <<a>>) => Trades(p, {w}, {a})
  BY <1>1, <1>5, Traded
<1> QED
  BY <1>1, <1>2, <1>3, <1>4, <1>6, <1>7, <1>8

LEMMA OpenAllocDoes ==
  ASSUME Forms, Numbered, NEW p \in Process, Open!OpenAlloc(p)
  PROVE  \E w \in In(todo[p]) :
           /\ w \in Instr /\ w.do = "open"
           /\ UNCHANGED <<ofile, status, open, iref, holder, data, stored, openings>>
           /\ \/ file' = file /\ Swaps(p, {w}, {Open!Unlockput(w.i)})
              \/ \E f \in Open!File :
                   /\ file[f].ref = 0 /\ file' = [file EXCEPT ![f].ref = 1]
                   /\ Swaps(p, {w}, {[do |-> "openfd", f |-> f, i |-> w.i, mode |-> w.mode,
                                      trunc |-> w.trunc]})
<1>1. PICK w \in In(todo[p]) :
        w \in Instr /\ w = Head(todo[p]) /\ w = Open!This(p) /\ w.do = "open" /\ todo[p] # <<>>
  BY Heads DEF Open!OpenAlloc
<1>2. w.i \in Inode /\ w.mode \in Open!Mode /\ w.trunc \in BOOLEAN /\ w \notin Opening
  BY <1>1, Fields, NotOpening
<1>3. UNCHANGED <<ofile, status, open, iref, holder, data, stored, openings>>
  BY DEF Open!OpenAlloc, Open!kernel, Open!contents
<1>4. PICK g : g = Open!Min(Open!FreeFile)
  OBVIOUS
<1>5. PICK a, b : /\ a = [do |-> "openfd", f |-> g, i |-> w.i, mode |-> w.mode, trunc |-> w.trunc]
                  /\ b = Open!Unlockput(w.i)
  OBVIOUS
<1>6. \/ file' = file /\ Open!Continue(p, <<b>>)
      \/ /\ Open!FreeFile # {} /\ file' = [file EXCEPT ![g].ref = 1]
         /\ Open!Continue(p, <<a>>)
  BY <1>1, <1>4, <1>5 DEF Open!OpenAlloc, Open!Filealloc
<1>7. Open!FreeFile # {} => g \in Open!File /\ file[g].ref = 0
  <2>1. Open!FreeFile \in SUBSET Nat
    BY DEF Open!FreeFile, Open!File
  <2> QED
    BY <1>4, <2>1, Least DEF Open!FreeFile
<1>8. b \in Instr
  BY <1>2, <1>5, MakesLists, Within
<1>9. Open!Continue(p, <<b>>) => Swaps(p, {w}, {b})
  <2>1. PICK c : c # b
    <3>1. b.do = "unlockput"
      BY <1>5 DEF Open!Unlockput
    <3> QED
      BY <1>1, <3>1
  <2> QED
    BY <1>1, <1>2, <1>8, <2>1, Continued
<1>10. Open!FreeFile # {} /\ Open!Continue(p, <<a>>) => Swaps(p, {w}, {a})
  <2>1. ASSUME Open!FreeFile # {} PROVE a \in Instr
    BY <1>2, <1>5, <1>7, <2>1, MakesOpen
  <2>2. a # b
    <3>1. a.do = "openfd" /\ b.do = "unlockput"
      BY <1>5 DEF Open!Unlockput
    <3> QED
      BY <3>1
  <2> QED
    BY <1>1, <1>2, <2>1, <2>2, Continued
<1> QED
  BY <1>1, <1>3, <1>5, <1>6, <1>7, <1>9, <1>10

LEMMA IputDoes ==
  ASSUME Forms, Numbered, Types, NEW p \in Process, Open!Iput(p)
  PROVE  \E w \in In(todo[p]) :
           /\ w \in Instr /\ w.do = "iput" /\ w.i \in Inode
           /\ UNCHANGED <<file, ofile, status, open, holder, data, stored, openings>>
           /\ iref' = [iref EXCEPT ![w.i] = @ - 1] /\ Trades(p, {w}, {})
<1>1. PICK w \in In(todo[p]) :
        w \in Instr /\ w = Head(todo[p]) /\ w = Open!This(p) /\ w.do = "iput" /\ todo[p] # <<>>
  BY Heads DEF Open!Iput
<1>2. w.i \in Inode
  BY <1>1, Fields
<1>3. UNCHANGED <<file, ofile, status, open, holder, data, stored, openings>>
  BY DEF Open!Iput, Open!kernel, Open!contents
<1>4. iref' = [iref EXCEPT ![w.i] = @ - 1] /\ Open!Continue(p, <<>>)
  BY <1>1 DEF Open!Iput
<1>5. Open!Continue(p, <<>>) => Trades(p, {w}, {})
  BY <1>1, Traded
<1> QED
  BY <1>1, <1>2, <1>3, <1>4, <1>5

LEMMA DupDoes ==
  ASSUME Forms, Numbered, Types, NEW p \in Process, Open!Dup(p)
  PROVE  \E w \in In(todo[p]) :
           /\ w \in Instr /\ w.do = "dup" /\ w.f \in Open!File
           /\ UNCHANGED <<ofile, status, open, iref, holder, data, stored, openings>>
           /\ file' = [file EXCEPT ![w.f].ref = @ + 1] /\ Swaps(p, {w}, {})
<1>1. PICK w \in In(todo[p]) :
        w \in Instr /\ w = Head(todo[p]) /\ w = Open!This(p) /\ w.do = "dup" /\ todo[p] # <<>>
  BY Heads DEF Open!Dup
<1>2. w.f \in Open!File /\ w \notin Opening
  BY <1>1, Fields, NotOpening
<1>3. UNCHANGED <<ofile, status, open, iref, holder, data, stored, openings>>
  BY DEF Open!Dup, Open!kernel, Open!contents
<1>4. file' = [file EXCEPT ![w.f].ref = @ + 1] /\ Open!Continue(p, <<>>)
  BY <1>1 DEF Open!Dup, Open!Filedup
<1>5. Open!Continue(p, <<>>) => Swaps(p, {w}, {})
  BY <1>1, <1>2, Continued
<1> QED
  BY <1>1, <1>2, <1>3, <1>4, <1>5

LEMMA UnlockPutDoes ==
  ASSUME Forms, Numbered, Types, NEW p \in Process, Open!UnlockPut(p)
  PROVE  \E w \in In(todo[p]) :
           /\ w \in Instr /\ w.do = "unlockput" /\ w.i \in Inode
           /\ UNCHANGED <<file, ofile, status, open, iref, data, stored, openings>>
           /\ holder' = [holder EXCEPT ![w.i] = Nothing] /\ Swaps(p, {w}, {Open!Put(w.i)})
<1>1. PICK w \in In(todo[p]) :
        w \in Instr /\ w = Head(todo[p]) /\ w = Open!This(p) /\ w.do = "unlockput" /\ todo[p] # <<>>
  BY Heads DEF Open!UnlockPut
<1>2. w.i \in Inode /\ w \notin Opening
  BY <1>1, Fields, NotOpening
<1>3. UNCHANGED <<file, ofile, status, open, iref, data, stored, openings>>
  BY DEF Open!UnlockPut, Open!kernel, Open!contents
<1>4. PICK a : a = Open!Put(w.i)
  OBVIOUS
<1>5. holder' = [holder EXCEPT ![w.i] = Nothing] /\ Open!Continue(p, <<a>>)
  BY <1>1, <1>4 DEF Open!UnlockPut
<1>6. Open!Continue(p, <<a>>) => Swaps(p, {w}, {a})
  <2>1. a \in Instr
    BY <1>2, <1>4, MakesLists, MakesFiles, MakesOpen, MakesLoops, MakesMoves, Within
  <2> QED
    BY <1>1, <1>2, <2>1, Continued
<1> QED
  BY <1>1, <1>2, <1>3, <1>4, <1>5, <1>6

LEMMA LastCloseDoes ==
  ASSUME Forms, Numbered, Types, NEW p \in Process, Open!LastClose(p)
  PROVE  \E w \in In(todo[p]) :
           /\ w \in Instr /\ w.do = "last" /\ w.ff \in Struct
           /\ UNCHANGED <<file, ofile, status, iref, holder, data, stored, openings>>
           /\ \/ /\ w.ff.type = "pipe" /\ open' = [open EXCEPT ![w.ff.obj] = @ \ {w.ff.mode}]
                 /\ Trades(p, {w}, {})
              \/ /\ w.ff.type \in {"inode", "device"} /\ open' = open
                 /\ Trades(p, {w}, {Open!Put(w.ff.obj)})
              \/ w.ff.type = "none" /\ open' = open /\ Trades(p, {w}, {})
<1>1. PICK w \in In(todo[p]) :
        w \in Instr /\ w = Head(todo[p]) /\ w = Open!This(p) /\ w.do = "last" /\ todo[p] # <<>>
  BY Heads DEF Open!LastClose
<1>2. w.ff \in Struct
  BY <1>1, Fields
<1>3. /\ w.ff.type \in {"none", "pipe", "inode", "device"}
      /\ w.ff.type \in {"inode", "device"} => w.ff.obj \in Inode
  BY <1>2 DEF Struct
<1>4. UNCHANGED <<file, ofile, status, iref, holder, data, stored, openings>>
  BY DEF Open!LastClose, Open!contents
<1>5. PICK a : a = Open!Put(w.ff.obj)
  OBVIOUS
<1>6. /\ open' = IF w.ff.type = "pipe" THEN [open EXCEPT ![w.ff.obj] = @ \ {w.ff.mode}] ELSE open
      /\ w.ff.type \in {"inode", "device"} => Open!Continue(p, <<a>>)
      /\ w.ff.type \notin {"inode", "device"} => Open!Continue(p, <<>>)
  BY <1>1, <1>5 DEF Open!LastClose, Open!Copy
<1>7. Open!Continue(p, <<>>) => Trades(p, {w}, {})
  BY <1>1, Traded
<1>8. w.ff.type \in {"inode", "device"} => Trades(p, {w}, {a})
  <2>1. ASSUME w.ff.type \in {"inode", "device"} PROVE a \in Opening
    BY <1>3, <1>5, <2>1, MakesLists
  <2> QED
    BY <1>1, <1>6, <2>1, Traded
<1>9. CASE w.ff.type = "pipe"
  <2>1. Trades(p, {w}, {})
    BY <1>6, <1>7, <1>9
  <2> QED
    BY <1>1, <1>2, <1>4, <1>6, <1>9, <2>1
<1>10. CASE w.ff.type = "none"
  <2>1. Trades(p, {w}, {})
    BY <1>6, <1>7, <1>10
  <2> QED
    BY <1>1, <1>2, <1>4, <1>6, <1>10, <2>1
<1>11. CASE w.ff.type \in {"inode", "device"}
  BY <1>1, <1>2, <1>4, <1>5, <1>6, <1>8, <1>11
<1> QED
  BY <1>3, <1>9, <1>10, <1>11

LEMMA FreeLeast ==
  ASSUME Open!FreeFile # {}
  PROVE  Open!Min(Open!FreeFile) \in Open!File /\ file[Open!Min(Open!FreeFile)].ref = 0
<1>1. Open!FreeFile \in SUBSET Nat
  BY DEF Open!FreeFile, Open!File
<1> QED
  BY <1>1, Least DEF Open!FreeFile

LEMMA PipeFile0Does ==
  ASSUME Forms, Numbered, NEW p \in Process, Open!PipeFile0(p)
  PROVE  \E w \in In(todo[p]) :
           /\ w \in Instr /\ w.do = "pipe0"
           /\ UNCHANGED <<ofile, status, open, iref, holder, data, stored, openings>>
           /\ \/ file' = file /\ Swaps(p, {w}, {})
              \/ \E f \in Open!File :
                   /\ file[f].ref = 0 /\ file' = [file EXCEPT ![f].ref = 1]
                   /\ Swaps(p, {w}, {[do |-> "pipe1", r |-> f]})
<1>1. PICK w \in In(todo[p]) :
        w \in Instr /\ w = Head(todo[p]) /\ w = Open!This(p) /\ w.do = "pipe0" /\ todo[p] # <<>>
  BY Heads DEF Open!PipeFile0
<1>2. w \notin Opening
  BY <1>1, NotOpening
<1>3. UNCHANGED <<ofile, status, open, iref, holder, data, stored, openings>>
  BY DEF Open!PipeFile0, Open!kernel, Open!contents
<1>4. PICK g : g = Open!Min(Open!FreeFile)
  OBVIOUS
<1>5. PICK a : a = [do |-> "pipe1", r |-> g]
  OBVIOUS
<1>6. \/ file' = file /\ Open!Continue(p, <<>>)
      \/ /\ Open!FreeFile # {} /\ file' = [file EXCEPT ![g].ref = 1]
         /\ Open!Continue(p, <<a>>)
  BY <1>1, <1>4, <1>5 DEF Open!PipeFile0, Open!Filealloc
<1>7. Open!FreeFile # {} => g \in Open!File /\ file[g].ref = 0
  BY <1>4, FreeLeast
<1>8. Open!Continue(p, <<>>) => Swaps(p, {w}, {})
  BY <1>1, <1>2, Continued
<1>9. Open!FreeFile # {} /\ Open!Continue(p, <<a>>) => Swaps(p, {w}, {a})
  <2>1. ASSUME Open!FreeFile # {} PROVE a \in Instr
    BY <1>5, <1>7, <2>1, MakesFiles
  <2> QED
    BY <1>1, <1>2, <2>1, Continued
<1> QED
  BY <1>1, <1>3, <1>5, <1>6, <1>7, <1>8, <1>9

LEMMA PipeFile1Does ==
  ASSUME Forms, Numbered, NEW p \in Process, Open!PipeFile1(p)
  PROVE  \E w \in In(todo[p]) :
           /\ w \in Instr /\ w.do = "pipe1" /\ w.r \in Open!File
           /\ UNCHANGED <<ofile, status, open, iref, holder, data, stored, openings>>
           /\ \/ file' = file /\ Swaps(p, {w}, {Open!Close(w.r)})
              \/ \E f \in Open!File :
                   /\ file[f].ref = 0 /\ file' = [file EXCEPT ![f].ref = 1]
                   /\ Swaps(p, {w}, {[do |-> "page", r |-> w.r, w |-> f]})
<1>1. PICK w \in In(todo[p]) :
        w \in Instr /\ w = Head(todo[p]) /\ w = Open!This(p) /\ w.do = "pipe1" /\ todo[p] # <<>>
  BY Heads DEF Open!PipeFile1
<1>2. w \notin Opening /\ w.r \in Open!File
  BY <1>1, Fields, NotOpening
<1>3. UNCHANGED <<ofile, status, open, iref, holder, data, stored, openings>>
  BY DEF Open!PipeFile1, Open!kernel, Open!contents
<1>4. PICK g : g = Open!Min(Open!FreeFile)
  OBVIOUS
<1>5. PICK a, b : a = [do |-> "page", r |-> w.r, w |-> g] /\ b = Open!Close(w.r)
  OBVIOUS
<1>6. \/ file' = file /\ Open!Continue(p, <<b>>)
      \/ /\ Open!FreeFile # {} /\ file' = [file EXCEPT ![g].ref = 1]
         /\ Open!Continue(p, <<a>>)
  BY <1>1, <1>4, <1>5 DEF Open!PipeFile1, Open!Filealloc
<1>7. Open!FreeFile # {} => g \in Open!File /\ file[g].ref = 0
  BY <1>4, FreeLeast
<1>8. Open!Continue(p, <<b>>) => Swaps(p, {w}, {b})
  <2>1. b \in Instr
    BY <1>2, <1>5, MakesLists, Within
  <2> QED
    BY <1>1, <1>2, <2>1, Continued
<1>9. Open!FreeFile # {} /\ Open!Continue(p, <<a>>) => Swaps(p, {w}, {a})
  <2>1. ASSUME Open!FreeFile # {} PROVE a \in Instr
    BY <1>2, <1>5, <1>7, <2>1, MakesFiles
  <2> QED
    BY <1>1, <1>2, <2>1, Continued
<1> QED
  BY <1>1, <1>2, <1>3, <1>5, <1>6, <1>7, <1>8, <1>9

(* Files other than those of F stay as they are.                           *)
Elsewhere(F) ==
  file' \in [Open!File -> Struct] /\ \A g \in Open!File : g \notin F => file'[g] = file[g]

LEMMA FreeFds ==
  ASSUME Types, NEW p \in Process
  PROVE  /\ Open!FreeFd(p) \in SUBSET Nat
         /\ \A e : e \in Open!FreeFd(p) <=> e \in Open!Fd /\ ofile[p][e] = Nothing
         /\ \A e : e \in Open!Opened(p) <=> e \in Open!Fd /\ ofile[p][e] # Nothing
         /\ \A e \in Open!Opened(p) : ofile[p][e] \in Open!File
<1>1. \A e \in Open!Fd : ofile[p][e] \in Open!File \cup {Nothing}
  BY DEF Types
<1>2. Open!Fd \subseteq Nat
  BY DEF Open!Fd
<1>3. Open!Opened(p) = {e \in Open!Fd : ofile[p][e] # Nothing}
  BY DEF Open!Opened
<1>4. Open!FreeFd(p) = {e \in Open!Fd : ofile[p][e] = Nothing}
  BY <1>3 DEF Open!FreeFd
<1> QED
  BY <1>1, <1>2, <1>3, <1>4

LEMMA OpenFdDoes ==
  ASSUME Forms, Numbered, Types, NEW p \in Process, Open!OpenFd(p)
  PROVE  \E w \in In(todo[p]) :
           /\ w \in Instr /\ w.do = "openfd" /\ w.f \in Open!File /\ w.i \in Inode
           /\ w.mode \in Open!Mode /\ w.trunc \in BOOLEAN
           /\ UNCHANGED <<status, open, iref, stored>>
           /\ \/ /\ UNCHANGED <<file, ofile, holder, data, openings>>
                 /\ Swaps(p, {w}, {Open!Close(w.f), Open!Unlockput(w.i)})
              \/ \E e \in Open!Fd :
                   /\ ofile[p][e] = Nothing /\ ofile' = [ofile EXCEPT ![p][e] = w.f]
                   /\ Elsewhere({w.f}) /\ file'[w.f].ref = file[w.f].ref
                   /\ file'[w.f].type = IF w.i \in Device THEN "device" ELSE "inode"
                   /\ file'[w.f].obj = w.i /\ file'[w.f].mode = w.mode
                   /\ file'[w.f].off = IF w.i \in Device THEN file[w.f].off ELSE 0
                   /\ data' = [data EXCEPT ![w.i] = IF w.trunc /\ w.i \notin Device THEN <<>> ELSE @]
                   /\ openings' = [openings EXCEPT ![w.i] =
                                     IF (w.trunc /\ w.i \notin Device) \/ w.mode # "r" THEN @ + 1 ELSE @]
                   /\ holder' = [holder EXCEPT ![w.i] = Nothing]
                   /\ Swaps(p, {w}, {})
<1>1. PICK w \in In(todo[p]) :
        w \in Instr /\ w = Head(todo[p]) /\ w = Open!This(p) /\ w.do = "openfd" /\ todo[p] # <<>>
  BY Heads DEF Open!OpenFd
<1>2. /\ w \notin Opening /\ w.f \in Open!File /\ w.i \in Inode /\ w.mode \in Open!Mode
      /\ w.trunc \in BOOLEAN
  BY <1>1, Fields, NotOpening
<1>3. UNCHANGED <<status, open, iref, stored>>
  BY DEF Open!OpenFd
<1>4. PICK a, b, e : /\ a = Open!Close(w.f) /\ b = Open!Unlockput(w.i)
                     /\ e = Open!Min(Open!FreeFd(p))
  OBVIOUS
<1>5. \/ UNCHANGED <<file, ofile, holder, data, openings>> /\ Open!Continue(p, <<a, b>>)
      \/ /\ Open!FreeFd(p) # {} /\ Open!Continue(p, <<>>)
         /\ ofile' = [ofile EXCEPT ![p][e] = w.f]
         /\ file' = [file EXCEPT ![w.f].type = IF w.i \in Device THEN "device" ELSE "inode",
                                 ![w.f].off = IF w.i \in Device THEN @ ELSE 0,
                                 ![w.f].obj = w.i, ![w.f].mode = w.mode]
         /\ data' = [data EXCEPT ![w.i] = IF w.trunc /\ w.i \notin Device THEN <<>> ELSE @]
         /\ openings' = [openings EXCEPT ![w.i] =
                           IF (w.trunc /\ w.i \notin Device) \/ w.mode # "r" THEN @ + 1 ELSE @]
         /\ holder' = [holder EXCEPT ![w.i] = Nothing]
  BY <1>1, <1>4 DEF Open!OpenFd
<1>6. Open!Continue(p, <<a, b>>) => Swaps(p, {w}, {a, b})
  <2>1. a \in Opening /\ b \in Closing /\ a # b
    <3>1. a \in Opening /\ b \in Closing
      BY <1>2, <1>4, MakesLists
    <3>2. a.do = "close" /\ b.do = "unlockput"
      BY <1>4 DEF Open!Close, Open!Unlockput
    <3> QED
      BY <3>1, <3>2
  <2> QED
    BY <1>1, <1>2, <2>1, Continued2
<1>7. Open!Continue(p, <<>>) => Swaps(p, {w}, {})
  BY <1>1, <1>2, Continued
<1>8. CASE UNCHANGED <<file, ofile, holder, data, openings>> /\ Open!Continue(p, <<a, b>>)
  BY <1>1, <1>2, <1>3, <1>4, <1>6, <1>8
<1>9. CASE /\ Open!FreeFd(p) # {} /\ Open!Continue(p, <<>>)
           /\ ofile' = [ofile EXCEPT ![p][e] = w.f]
           /\ file' = [file EXCEPT ![w.f].type = IF w.i \in Device THEN "device" ELSE "inode",
                                   ![w.f].off = IF w.i \in Device THEN @ ELSE 0,
                                   ![w.f].obj = w.i, ![w.f].mode = w.mode]
           /\ data' = [data EXCEPT ![w.i] = IF w.trunc /\ w.i \notin Device THEN <<>> ELSE @]
           /\ openings' = [openings EXCEPT ![w.i] =
                             IF (w.trunc /\ w.i \notin Device) \/ w.mode # "r" THEN @ + 1 ELSE @]
           /\ holder' = [holder EXCEPT ![w.i] = Nothing]
  <2>1. e \in Open!Fd /\ ofile[p][e] = Nothing
    BY <1>4, <1>9, FreeFds, Least
  <2>2. file[w.f] \in Struct
    BY <1>2 DEF Numbered
  <2>3. /\ Elsewhere({w.f}) /\ file'[w.f].ref = file[w.f].ref
        /\ file'[w.f].type = IF w.i \in Device THEN "device" ELSE "inode"
        /\ file'[w.f].obj = w.i /\ file'[w.f].mode = w.mode
        /\ file'[w.f].off = IF w.i \in Device THEN file[w.f].off ELSE 0
    <3>1. PICK ff : ff = [ref |-> file[w.f].ref, type |-> IF w.i \in Device THEN "device" ELSE "inode",
                          obj |-> w.i, mode |-> w.mode,
                          off |-> IF w.i \in Device THEN file[w.f].off ELSE 0]
      OBVIOUS
    <3>2. ff \in Struct
      BY <1>2, <2>2, <3>1 DEF Struct
    <3>3. file' = [file EXCEPT ![w.f] = ff]
      <4>1. PICK t, o : /\ t = (IF w.i \in Device THEN "device" ELSE "inode")
                        /\ o = (IF w.i \in Device THEN file[w.f].off ELSE 0)
        OBVIOUS
      <4>2. file \in [Open!File -> Struct]
        BY DEF Numbered
      <4>3. [[[[file[w.f] EXCEPT !.type = t] EXCEPT !.off = o] EXCEPT !.obj = w.i] EXCEPT !.mode = w.mode]
              = ff
        <5>1. PICK x : x = file[w.f]
          OBVIOUS
        <5>2. x \in [ref : Nat, type : {"none", "pipe", "inode", "device"},
                     obj : Inode \cup Page \cup {Nothing}, mode : Open!Mode, off : Nat]
          BY <2>2, <5>1 DEF Struct
        <5>3. ff = [ref |-> x.ref, type |-> t, obj |-> w.i, mode |-> w.mode, off |-> o]
          BY <3>1, <4>1, <5>1
        <5>4. [[[[x EXCEPT !.type = t] EXCEPT !.off = o] EXCEPT !.obj = w.i] EXCEPT !.mode = w.mode]
                = [ref |-> x.ref, type |-> t, obj |-> w.i, mode |-> w.mode, off |-> o]
          <6>1. PICK y : y = [x EXCEPT !.type = t]
            OBVIOUS
          <6>2. y = [ref |-> x.ref, type |-> t, obj |-> x.obj, mode |-> x.mode, off |-> x.off]
            BY <5>2, <6>1
          <6>3. PICK z : z = [y EXCEPT !.off = o]
            OBVIOUS
          <6>4. z = [ref |-> x.ref, type |-> t, obj |-> x.obj, mode |-> x.mode, off |-> o]
            BY <6>2, <6>3
          <6>5. PICK v : v = [z EXCEPT !.obj = w.i]
            OBVIOUS
          <6>6. v = [ref |-> x.ref, type |-> t, obj |-> w.i, mode |-> x.mode, off |-> o]
            BY <6>4, <6>5
          <6>7. [v EXCEPT !.mode = w.mode]
                  = [ref |-> x.ref, type |-> t, obj |-> w.i, mode |-> w.mode, off |-> o]
            BY <6>6
          <6> QED
            BY <6>1, <6>3, <6>5, <6>7
        <5> QED
          BY <5>1, <5>3, <5>4
      <4>4. file' = [file EXCEPT ![w.f] =
              [[[[@ EXCEPT !.type = t] EXCEPT !.off = o] EXCEPT !.obj = w.i] EXCEPT !.mode = w.mode]]
        <5>1. file' = [file EXCEPT ![w.f].type = t, ![w.f].off = o, ![w.f].obj = w.i,
                                   ![w.f].mode = w.mode]
          BY <1>9, <4>1
        <5> QED
          BY <1>2, <4>2, <5>1
      <4> QED
        BY <4>3, <4>4
    <3> QED
      BY <1>2, <3>1, <3>2, <3>3 DEF Elsewhere, Numbered
  <2> QED
    BY <1>1, <1>2, <1>3, <1>7, <1>9, <2>1, <2>3
<1> QED
  BY <1>5, <1>8, <1>9

LEMMA PipePageDoes ==
  ASSUME Forms, Numbered, Types, Works, NEW p \in Process, Open!PipePage(p)
  PROVE  \E w \in In(todo[p]) :
           /\ w \in Instr /\ w.do = "page" /\ w.r \in Open!File /\ w.w \in Open!File /\ w.r # w.w
           /\ UNCHANGED <<ofile, status, iref, holder, data, stored, openings>>
           /\ \/ /\ UNCHANGED <<file, open>>
                 /\ Swaps(p, {w}, {Open!Close(w.r), Open!Close(w.w)})
              \/ \E k \in Page :
                   /\ open[k] = {} /\ open' = [open EXCEPT ![k] = {"r", "w"}]
                   /\ Elsewhere({w.r, w.w})
                   /\ file'[w.r] = [file[w.r] EXCEPT !.type = "pipe", !.obj = k, !.mode = "r"]
                   /\ file'[w.w] = [file[w.w] EXCEPT !.type = "pipe", !.obj = k, !.mode = "w"]
                   /\ Swaps(p, {w}, {[do |-> "pipefds", r |-> w.r, w |-> w.w]})
<1>1. PICK w \in In(todo[p]) :
        w \in Instr /\ w = Head(todo[p]) /\ w = Open!This(p) /\ w.do = "page" /\ todo[p] # <<>>
  BY Heads DEF Open!PipePage
<1>2. w \notin Opening /\ w.r \in Open!File /\ w.w \in Open!File /\ w.r # w.w
  BY <1>1, Fields, NotOpening DEF Works, Good, Unready
<1>3. UNCHANGED <<ofile, status, iref, holder, data, stored, openings>>
  BY DEF Open!PipePage, Open!contents
<1>4. PICK a, b, c : /\ a = Open!Close(w.r) /\ b = Open!Close(w.w)
                     /\ c = [do |-> "pipefds", r |-> w.r, w |-> w.w]
  OBVIOUS
<1>5. Open!Continue(p, <<a, b>>) => Swaps(p, {w}, {a, b})
  <2>1. a \in Opening /\ b \in Closing /\ a # b
    <3>1. a \in Opening /\ b \in Closing
      BY <1>2, <1>4, MakesLists
    <3>2. a.f = w.r /\ b.f = w.w
      BY <1>4 DEF Open!Close
    <3> QED
      BY <1>2, <3>1, <3>2
  <2> QED
    BY <1>1, <1>2, <2>1, Continued2
<1>6. Open!Continue(p, <<c>>) => Swaps(p, {w}, {c})
  <2>1. c \in Instr
    BY <1>2, <1>4, MakesFiles
  <2> QED
    BY <1>1, <1>2, <2>1, Continued
<1>7. \/ UNCHANGED <<file, open>> /\ Open!Continue(p, <<a, b>>)
      \/ \E k \in Page :
           /\ open[k] = {} /\ open' = [open EXCEPT ![k] = {"r", "w"}]
           /\ file' = [file EXCEPT
                         ![w.r] = [file[w.r] EXCEPT !.type = "pipe", !.obj = k, !.mode = "r"],
                         ![w.w] = [file[w.w] EXCEPT !.type = "pipe", !.obj = k, !.mode = "w"]]
           /\ Open!Continue(p, <<c>>)
  BY <1>1, <1>4 DEF Open!PipePage
<1>8. CASE UNCHANGED <<file, open>> /\ Open!Continue(p, <<a, b>>)
  BY <1>1, <1>2, <1>3, <1>4, <1>5, <1>8
<1>9. ASSUME NEW k \in Page, open[k] = {}, open' = [open EXCEPT ![k] = {"r", "w"}],
             file' = [file EXCEPT
                         ![w.r] = [file[w.r] EXCEPT !.type = "pipe", !.obj = k, !.mode = "r"],
                         ![w.w] = [file[w.w] EXCEPT !.type = "pipe", !.obj = k, !.mode = "w"]],
             Open!Continue(p, <<c>>)
      PROVE  /\ Elsewhere({w.r, w.w})
             /\ file'[w.r] = [file[w.r] EXCEPT !.type = "pipe", !.obj = k, !.mode = "r"]
             /\ file'[w.w] = [file[w.w] EXCEPT !.type = "pipe", !.obj = k, !.mode = "w"]
  <2>1. PICK x, y : /\ x = [file[w.r] EXCEPT !.type = "pipe", !.obj = k, !.mode = "r"]
                    /\ y = [file[w.w] EXCEPT !.type = "pipe", !.obj = k, !.mode = "w"]
    OBVIOUS
  <2>2. x \in Struct /\ y \in Struct
    <3>1. file[w.r] \in Struct /\ file[w.w] \in Struct
      BY <1>2 DEF Numbered
    <3>2. x \in Struct
      BY <2>1, <3>1 DEF Struct, Open!Mode
    <3>3. y \in Struct
      BY <2>1, <3>1 DEF Struct, Open!Mode
    <3> QED
      BY <3>2, <3>3
  <2>3. file' = [file EXCEPT ![w.r] = x, ![w.w] = y]
    BY <1>9, <2>1
  <2>4. Elsewhere({w.r, w.w}) /\ file'[w.r] = x /\ file'[w.w] = y
    BY <1>2, <2>2, <2>3 DEF Elsewhere, Numbered
  <2> QED
    BY <2>1, <2>4
<1> QED
  BY <1>1, <1>2, <1>3, <1>4, <1>6, <1>7, <1>8, <1>9

LEMMA PipeFdsDoes ==
  ASSUME Forms, Numbered, Types, Works, NEW p \in Process, Open!PipeFds(p)
  PROVE  \E w \in In(todo[p]) :
           /\ w \in Instr /\ w.do = "pipefds" /\ w.r \in Open!File /\ w.w \in Open!File /\ w.r # w.w
           /\ UNCHANGED <<file, status, open, iref, holder, data, stored, openings>>
           /\ \/ ofile' = ofile /\ Swaps(p, {w}, {Open!Close(w.r), Open!Close(w.w)})
              \/ \E d, e \in Open!Fd :
                   /\ d # e /\ ofile[p][d] = Nothing /\ ofile[p][e] = Nothing
                   /\ ofile' = [ofile EXCEPT ![p][d] = w.r, ![p][e] = w.w]
                   /\ Swaps(p, {w}, {})
<1>1. PICK w \in In(todo[p]) :
        w \in Instr /\ w = Head(todo[p]) /\ w = Open!This(p) /\ w.do = "pipefds" /\ todo[p] # <<>>
  BY Heads DEF Open!PipeFds
<1>2. w \notin Opening /\ w.r \in Open!File /\ w.w \in Open!File /\ w.r # w.w
  BY <1>1, Fields, NotOpening DEF Works, Good, Unready
<1>3. UNCHANGED <<file, status, open, iref, holder, data, stored, openings>>
  BY DEF Open!PipeFds, Open!kernel, Open!contents
<1>4. PICK a, b : a = Open!Close(w.r) /\ b = Open!Close(w.w)
  OBVIOUS
<1>5. PICK d : d = Open!Min(Open!FreeFd(p))
  OBVIOUS
<1>6. PICK e : e = Open!Min(Open!FreeFd(p) \ {d})
  OBVIOUS
<1>7. \/ ofile' = ofile /\ Open!Continue(p, <<a, b>>)
      \/ /\ Open!Cardinality(Open!FreeFd(p)) >= 2
         /\ ofile' = [ofile EXCEPT ![p][d] = w.r, ![p][e] = w.w]
         /\ Open!Continue(p, <<>>)
  BY <1>1, <1>4, <1>5, <1>6 DEF Open!PipeFds
<1>8. Open!Continue(p, <<a, b>>) => Swaps(p, {w}, {a, b})
  <2>1. a \in Opening /\ b \in Closing /\ a # b
    <3>1. a \in Opening /\ b \in Closing
      BY <1>2, <1>4, MakesLists
    <3>2. a.f = w.r /\ b.f = w.w
      BY <1>4 DEF Open!Close
    <3> QED
      BY <1>2, <3>1, <3>2
  <2> QED
    BY <1>1, <1>2, <2>1, Continued2
<1>9. Open!Continue(p, <<>>) => Swaps(p, {w}, {})
  BY <1>1, <1>2, Continued
<1>10. ASSUME Open!Cardinality(Open!FreeFd(p)) >= 2
       PROVE  /\ d \in Open!Fd /\ e \in Open!Fd
              /\ d # e /\ ofile[p][d] = Nothing /\ ofile[p][e] = Nothing
  <2>1. PICK A : A = Open!FreeFd(p)
    OBVIOUS
  <2>2. A \subseteq Open!Fd /\ A \in SUBSET Nat
    BY <2>1, FreeFds
  <2>3. IsFiniteSet(A) /\ Cardinality(A) >= 2
    <3>1. IsFiniteSet(Open!Fd)
      BY Finite, FS_Interval DEF Open!Fd
    <3> QED
      BY <1>10, <2>1, <2>2, <3>1, FS_Subset, SameCount
  <2>4. A # {}
    BY <2>3, FS_EmptySet
  <2>5. d \in A
    BY <1>5, <2>1, <2>2, <2>4, Least
  <2>6. A \ {d} # {}
    <3>1. Cardinality(A \ {d}) = Cardinality(A) - 1
      BY <2>3, <2>5, FS_RemoveElement
    <3>2. Cardinality(A) \in Nat
      BY <2>3, FS_CardinalityType
    <3>3. Cardinality(A \ {d}) # 0
      BY <2>3, <3>1, <3>2
    <3> QED
      BY <3>3, FS_EmptySet
  <2>7. e \in A \ {d}
    BY <1>6, <2>1, <2>2, <2>6, Least
  <2> QED
    BY <2>1, <2>5, <2>7, FreeFds
<1>11. CASE ofile' = ofile /\ Open!Continue(p, <<a, b>>)
  BY <1>1, <1>2, <1>3, <1>4, <1>8, <1>11
<1>12. CASE /\ Open!Cardinality(Open!FreeFd(p)) >= 2
            /\ ofile' = [ofile EXCEPT ![p][d] = w.r, ![p][e] = w.w]
            /\ Open!Continue(p, <<>>)
  <2>1. Swaps(p, {w}, {})
    BY <1>9, <1>12
  <2> QED
    BY <1>1, <1>2, <1>3, <1>10, <1>12, <2>1
<1> QED
  BY <1>7, <1>11, <1>12

(* The descriptors that fork() and exit() have not passed.                 *)
LEMMA LeftOver ==
  ASSUME Types, NEW p \in Process, NEW n, n = Open!This(p).fd, NEW e, e = Open!Min(Open!Remaining(p))
  PROVE  /\ Open!Remaining(p) # {} =>
              /\ e \in Open!Fd /\ e >= n /\ ofile[p][e] \in Open!File /\ e + 1 \in 0 .. NOFILE
              /\ \A d \in Open!Fd : n <= d /\ d < e => ofile[p][d] = Nothing
         /\ Open!Remaining(p) = {} => \A d \in Open!Fd : d >= n => ofile[p][d] = Nothing
<1>1. PICK R : R = Open!Remaining(p)
  OBVIOUS
<1>2. R = {d \in Open!Opened(p) : d >= n}
  BY <1>1 DEF Open!Remaining
<1>3. /\ \A d : d \in Open!Opened(p) <=> d \in Open!Fd /\ ofile[p][d] # Nothing
      /\ \A d \in Open!Opened(p) : ofile[p][d] \in Open!File
  BY FreeFds
<1>4. Open!Fd \subseteq Nat /\ \A d \in Open!Fd : d + 1 \in 0 .. NOFILE
  BY Finite DEF Open!Fd
<1>5. R \in SUBSET Nat
  BY <1>2, <1>3, <1>4
<1>6. ASSUME R # {} PROVE e \in R /\ \A d \in R : e <= d
  BY <1>1, <1>5, <1>6, Least
<1>7. ASSUME R # {}
      PROVE  /\ e \in Open!Fd /\ e >= n /\ ofile[p][e] \in Open!File /\ e + 1 \in 0 .. NOFILE
             /\ \A d \in Open!Fd : n <= d /\ d < e => ofile[p][d] = Nothing
  <2>1. e \in Open!Fd /\ e >= n /\ ofile[p][e] \in Open!File /\ e + 1 \in 0 .. NOFILE
    BY <1>2, <1>3, <1>4, <1>6, <1>7
  <2>2. ASSUME NEW d \in Open!Fd, n <= d, d < e, ofile[p][d] # Nothing PROVE FALSE
    <3>1. d \in Nat /\ e \in Nat
      BY <1>4, <2>1
    <3>2. d \in Open!Opened(p)
      BY <1>3, <2>2
    <3>3. d \notin R
      BY <1>6, <1>7, <2>2, <3>1
    <3>4. ~(d >= n)
      BY <1>2, <3>2, <3>3
    <3> QED
      BY <2>2, <3>4
  <2> QED
    BY <2>1, <2>2
<1>8. ASSUME R = {} PROVE \A d \in Open!Fd : d >= n => ofile[p][d] = Nothing
  BY <1>2, <1>3, <1>8
<1> QED
  BY <1>1, <1>7, <1>8

LEMMA ForkDupDoes ==
  ASSUME Forms, Numbered, Types, NEW p \in Process, Open!ForkDup(p)
  PROVE  \E w \in In(todo[p]), e \in Open!Fd :
           /\ w \in Instr /\ w.do = "fork" /\ w.c \in Process
           /\ UNCHANGED <<status, open, iref, holder, data, stored, openings>>
           /\ e >= w.fd /\ e + 1 \in 0 .. NOFILE /\ ofile[p][e] \in Open!File
           /\ file' = [file EXCEPT ![ofile[p][e]].ref = @ + 1]
           /\ ofile' = [ofile EXCEPT ![w.c][e] = ofile[p][e]]
           /\ Swaps(p, {w}, {[do |-> "fork", c |-> w.c, fd |-> e + 1]})
<1>1. PICK w \in In(todo[p]) :
        w \in Instr /\ w = Head(todo[p]) /\ w = Open!This(p) /\ w.do = "fork" /\ todo[p] # <<>>
  BY Heads DEF Open!ForkDup
<1>2. w.c \in Process /\ w \notin Opening
  BY <1>1, Fields, NotOpening
<1>3. UNCHANGED <<status, open, iref, holder, data, stored, openings>>
  BY DEF Open!ForkDup, Open!kernel, Open!contents
<1>4. PICK e, a : e = Open!Min(Open!Remaining(p)) /\ a = [do |-> "fork", c |-> w.c, fd |-> e + 1]
  OBVIOUS
<1>5. /\ Open!Remaining(p) # {} /\ Open!Continue(p, <<a>>)
      /\ file' = [file EXCEPT ![ofile[p][e]].ref = @ + 1]
      /\ ofile' = [ofile EXCEPT ![w.c][e] = ofile[p][e]]
  BY <1>1, <1>4 DEF Open!ForkDup, Open!Filedup
<1>6. e \in Open!Fd /\ e >= w.fd /\ ofile[p][e] \in Open!File /\ e + 1 \in 0 .. NOFILE
  <2>1. PICK n : n = Open!This(p).fd
    OBVIOUS
  <2> QED
    BY <1>1, <1>4, <1>5, <2>1, LeftOver
<1>7. a \in Instr
  BY <1>2, <1>4, <1>6, MakesLoops
<1>8. Swaps(p, {w}, {a})
  BY <1>1, <1>2, <1>5, <1>7, Continued
<1> QED
  BY <1>1, <1>2, <1>3, <1>4, <1>5, <1>6, <1>8

LEMMA BornDoes ==
  ASSUME Forms, Numbered, Types, NEW p \in Process, Open!Born(p)
  PROVE  \E w \in In(todo[p]) :
           /\ w \in Instr /\ w.do = "fork" /\ w.c \in Process
           /\ UNCHANGED <<file, ofile, open, iref, holder, data, stored, openings>>
           /\ status' = [status EXCEPT ![w.c] = "runs"] /\ Swaps(p, {w}, {})
<1>1. PICK w \in In(todo[p]) :
        w \in Instr /\ w = Head(todo[p]) /\ w = Open!This(p) /\ w.do = "fork" /\ todo[p] # <<>>
  BY Heads DEF Open!Born
<1>2. w.c \in Process /\ w \notin Opening
  BY <1>1, Fields, NotOpening
<1>3. UNCHANGED <<file, ofile, open, iref, holder, data, stored, openings>>
  BY DEF Open!Born, Open!kernel, Open!contents
<1>4. status' = [status EXCEPT ![w.c] = "runs"] /\ Open!Continue(p, <<>>)
  BY <1>1 DEF Open!Born
<1>5. Swaps(p, {w}, {})
  BY <1>1, <1>2, <1>4, Continued
<1> QED
  BY <1>1, <1>2, <1>3, <1>4, <1>5

LEMMA ExitClosesDoes ==
  ASSUME Forms, Numbered, Types, NEW p \in Process, Open!ExitCloses(p)
  PROVE  \E w \in In(todo[p]), e \in Open!Fd :
           /\ w \in Instr /\ w.do = "exit" /\ e + 1 \in 0 .. NOFILE
           /\ UNCHANGED <<file, ofile, status, open, iref, holder, data, stored, openings>>
           /\ e >= w.fd /\ ofile[p][e] \in Open!File
           /\ \A d \in Open!Fd : w.fd <= d /\ d < e => ofile[p][d] = Nothing
           /\ Swaps(p, {w}, {Open!Close(ofile[p][e]), Clear(e), [do |-> "exit", fd |-> e + 1]})
<1>1. PICK w \in In(todo[p]) :
        w \in Instr /\ w = Head(todo[p]) /\ w = Open!This(p) /\ w.do = "exit" /\ todo[p] # <<>>
  BY Heads DEF Open!ExitCloses
<1>2. w \notin Opening
  BY <1>1, NotOpening
<1>3. UNCHANGED <<file, ofile, status, open, iref, holder, data, stored, openings>>
  BY DEF Open!ExitCloses, Open!kernel, Open!contents
<1>4. PICK e : e = Open!Min(Open!Remaining(p))
  OBVIOUS
<1>5. PICK a, b, c : a = Open!Close(ofile[p][e]) /\ b = Clear(e) /\ c = [do |-> "exit", fd |-> e + 1]
  OBVIOUS
<1>6. Open!Remaining(p) # {} /\ Open!Continue(p, <<a, b, c>>)
  BY <1>1, <1>4, <1>5 DEF Open!ExitCloses, Clear
<1>7. /\ e \in Open!Fd /\ e >= w.fd /\ ofile[p][e] \in Open!File /\ e + 1 \in 0 .. NOFILE
      /\ \A d \in Open!Fd : w.fd <= d /\ d < e => ofile[p][d] = Nothing
  <2>1. PICK n : n = Open!This(p).fd
    OBVIOUS
  <2> QED
    BY <1>1, <1>4, <1>6, <2>1, LeftOver
<1>8. /\ a \in Opening /\ b \in Opening \cap Closing /\ c \in Closing
      /\ a # b /\ a # c /\ b # c
  <2>1. a \in Opening /\ b \in Opening \cap Closing /\ c \in Closing
    BY <1>5, <1>7, MakesLists
  <2>2. a.do = "close" /\ b.do = "clear" /\ c.do = "exit"
    BY <1>5 DEF Open!Close, Clear
  <2> QED
    BY <2>1, <2>2
<1>9. Swaps(p, {w}, {a, b, c})
  BY <1>1, <1>2, <1>6, <1>8, Continued3
<1> QED
  BY <1>1, <1>3, <1>5, <1>7, <1>9

LEMMA ExitClearsDoes ==
  ASSUME Forms, Numbered, Types, NEW p \in Process, Open!ExitClears(p)
  PROVE  \E w \in In(todo[p]) :
           /\ w \in Instr /\ w.do = "clear" /\ w.fd \in Open!Fd /\ w = Clear(w.fd)
           /\ UNCHANGED <<file, status, open, iref, holder, data, stored, openings>>
           /\ ofile' = [ofile EXCEPT ![p][w.fd] = Nothing] /\ Trades(p, {w}, {})
<1>1. PICK w \in In(todo[p]) :
        w \in Instr /\ w = Head(todo[p]) /\ w = Open!This(p) /\ w.do = "clear" /\ todo[p] # <<>>
  BY Heads DEF Open!ExitClears
<1>2. w.fd \in Open!Fd /\ w = Clear(w.fd)
  BY <1>1, Fields
<1>3. UNCHANGED <<file, status, open, iref, holder, data, stored, openings>>
  BY DEF Open!ExitClears, Open!kernel, Open!contents
<1>4. ofile' = [ofile EXCEPT ![p][w.fd] = Nothing] /\ Open!Continue(p, <<>>)
  BY <1>1 DEF Open!ExitClears
<1>5. Trades(p, {w}, {})
  BY <1>1, <1>4, Traded
<1> QED
  BY <1>1, <1>2, <1>3, <1>4, <1>5

LEMMA DeadDoes ==
  ASSUME Forms, Numbered, Types, NEW p \in Process, Open!Dead(p)
  PROVE  \E w \in In(todo[p]) :
           /\ w \in Instr /\ w.do = "exit"
           /\ UNCHANGED <<file, ofile, open, iref, holder, data, stored, openings>>
           /\ status' = [status EXCEPT ![p] = "unused"]
           /\ \A d \in Open!Fd : d >= w.fd => ofile[p][d] = Nothing
           /\ Swaps(p, {w}, {})
<1>1. PICK w \in In(todo[p]) :
        w \in Instr /\ w = Head(todo[p]) /\ w = Open!This(p) /\ w.do = "exit" /\ todo[p] # <<>>
  BY Heads DEF Open!Dead
<1>2. w \notin Opening
  BY <1>1, NotOpening
<1>3. UNCHANGED <<file, ofile, open, iref, holder, data, stored, openings>>
  BY DEF Open!Dead, Open!kernel, Open!contents
<1>4. /\ Open!Remaining(p) = {} /\ status' = [status EXCEPT ![p] = "unused"]
      /\ Open!Continue(p, <<>>)
  BY <1>1 DEF Open!Dead
<1>5. \A d \in Open!Fd : d >= w.fd => ofile[p][d] = Nothing
  <2>1. PICK n, e : n = Open!This(p).fd /\ e = Open!Min(Open!Remaining(p))
    OBVIOUS
  <2> QED
    BY <1>1, <1>4, <2>1, LeftOver
<1>6. Swaps(p, {w}, {})
  BY <1>1, <1>2, <1>4, Continued
<1> QED
  BY <1>1, <1>3, <1>4, <1>5, <1>6

LEMMA LockDoes ==
  ASSUME Forms, Numbered, Types, Works, NEW p \in Process, Open!Lock(p)
  PROVE  \E w \in In(todo[p]) :
           /\ w \in Instr /\ w.do \in {"read", "write"} /\ w.f \in Open!File
           /\ file[w.f].obj \in Inode /\ holder[file[w.f].obj] = Nothing
           /\ UNCHANGED <<file, ofile, status, open, iref, data, stored, openings>>
           /\ holder' = [holder EXCEPT ![file[w.f].obj] = p]
           /\ Swaps(p, {w}, {[do |-> IF w.do = "read" THEN "readi" ELSE "writei",
                              f |-> w.f, n |-> w.n, at |-> file[w.f].off]})
<1>1. PICK d \in {"read", "write"} : Open!At(p, d)
  BY DEF Open!Lock
<1>2. PICK w \in In(todo[p]) :
        w \in Instr /\ w = Head(todo[p]) /\ w = Open!This(p) /\ w.do = d /\ todo[p] # <<>>
  BY <1>1, Heads
<1>3. w.f \in Open!File /\ w \notin Opening
  BY <1>1, <1>2, Fields, NotOpening
<1>4. file[w.f] \in Struct /\ file[w.f].type = "inode" /\ file[w.f].obj \in Inode /\ file[w.f].off \in Nat
  <2>1. file[w.f] \in Struct /\ file[w.f].type = "inode"
    BY <1>1, <1>2, <1>3 DEF Numbered, Works, Good, Moving
  <2> QED
    BY <2>1 DEF Struct
<1>5. UNCHANGED <<file, ofile, status, open, iref, data, stored, openings>>
  BY DEF Open!Lock, Open!contents
<1>6. PICK a : a = [do |-> IF w.do = "read" THEN "readi" ELSE "writei",
                    f |-> w.f, n |-> w.n, at |-> file[w.f].off]
  OBVIOUS
<1>7. Open!At(p, "read") <=> w.do = "read"
  BY <1>2 DEF Open!At
<1>8. /\ holder[file[w.f].obj] = Nothing /\ holder' = [holder EXCEPT ![file[w.f].obj] = p]
      /\ Open!Continue(p, <<a>>)
  <2>1. Open!Continue(p, <<[do |-> IF Open!At(p, "read") THEN "readi" ELSE "writei",
                            f |-> w.f, n |-> w.n, at |-> file[w.f].off]>>)
    BY <1>2 DEF Open!Lock
  <2>2. (IF Open!At(p, "read") THEN "readi" ELSE "writei") = IF w.do = "read" THEN "readi" ELSE "writei"
    BY <1>7
  <2>3. Open!Continue(p, <<a>>)
    BY <1>6, <2>1, <2>2
  <2> QED
    BY <1>2, <2>3 DEF Open!Lock, Open!Ilock
<1>9. a \in Instr
  <2>1. CASE w.do = "read"
    <3>1. w.n = 1
      BY <1>2, <2>1, Fields
    <3> QED
      BY <1>3, <1>4, <1>6, <2>1, <3>1, MakesMoves
  <2>2. CASE w.do = "write"
    <3>1. w.n \in Nat \ {0}
      BY <1>2, <2>2, Fields
    <3> QED
      BY <1>3, <1>4, <1>6, <2>2, <3>1, MakesMoves
  <2> QED
    BY <1>1, <1>2, <2>1, <2>2
<1>10. Swaps(p, {w}, {a})
  BY <1>2, <1>3, <1>8, <1>9, Continued
<1> QED
  BY <1>1, <1>2, <1>3, <1>4, <1>5, <1>6, <1>8, <1>10

LEMMA ReadiDoes ==
  ASSUME Forms, Numbered, Types, Works, NEW p \in Process, Open!Readi(p)
  PROVE  \E w \in In(todo[p]), r \in {0, 1} :
           /\ w \in Instr /\ w.do = "readi" /\ w.f \in Open!File /\ file[w.f].obj \in Inode
           /\ UNCHANGED <<ofile, status, open, iref, data, stored, openings>>
           /\ r = 1 => w.at < Len(data[file[w.f].obj])
           /\ file' = [file EXCEPT ![w.f].off = @ + r]
           /\ holder' = [holder EXCEPT ![file[w.f].obj] = Nothing]
           /\ Swaps(p, {w}, {})
<1>1. PICK w \in In(todo[p]) :
        w \in Instr /\ w = Head(todo[p]) /\ w = Open!This(p) /\ w.do = "readi" /\ todo[p] # <<>>
  BY Heads DEF Open!Readi
<1>2. w.f \in Open!File /\ w \notin Opening /\ w.n = 1
  BY <1>1, Fields, NotOpening
<1>3. file[w.f] \in Struct /\ file[w.f].type = "inode" /\ file[w.f].obj \in Inode
  <2>1. file[w.f] \in Struct /\ file[w.f].type = "inode"
    BY <1>1, <1>2 DEF Numbered, Works, Good, Moving
  <2> QED
    BY <2>1 DEF Struct
<1>4. UNCHANGED <<ofile, status, open, iref, data, stored, openings>>
  BY DEF Open!Readi, Open!contents
<1>5. /\ Open!Continue(p, <<>>)
      /\ \E r \in {0, IF w.at < Len(data[file[w.f].obj]) THEN w.n ELSE 0} :
           file' = [file EXCEPT ![w.f].off = @ + r]
      /\ holder' = [holder EXCEPT ![file[w.f].obj] = Nothing]
  BY <1>1 DEF Open!Readi
<1>6. PICK r \in {0, 1} : /\ r = 1 => w.at < Len(data[file[w.f].obj])
                          /\ file' = [file EXCEPT ![w.f].off = @ + r]
  <2>1. PICK r \in {0, IF w.at < Len(data[file[w.f].obj]) THEN w.n ELSE 0} :
          file' = [file EXCEPT ![w.f].off = @ + r]
    BY <1>5
  <2>2. r \in {0, 1} /\ (r = 1 => w.at < Len(data[file[w.f].obj]))
    BY <1>2, <2>1
  <2> QED
    BY <2>1, <2>2
<1>7. Swaps(p, {w}, {})
  BY <1>1, <1>2, <1>5, Continued
<1> QED
  BY <1>1, <1>2, <1>3, <1>4, <1>5, <1>6, <1>7

LEMMA WriteiDoes ==
  ASSUME Forms, Numbered, Types, Kinds, Works, NEW p \in Process, Open!Writei(p)
  PROVE  \E w \in In(todo[p]), r \in Nat :
           /\ w \in Instr /\ w.do = "writei" /\ w.f \in Open!File /\ file[w.f].obj \in Inode
           /\ UNCHANGED <<ofile, status, open, iref, openings>>
           /\ r # 0 => w.at <= Len(data[file[w.f].obj]) /\ w.at + r <= MaxSize
           /\ file' = [file EXCEPT ![w.f].off = @ + r]
           /\ data' = IF r = 0 THEN data
                      ELSE [data EXCEPT ![file[w.f].obj] = Open!Patched(@, w.at, r, p)]
           /\ stored' = [stored EXCEPT ![file[w.f].obj][p] = @ + r]
           /\ holder' = [holder EXCEPT ![file[w.f].obj] = Nothing]
           /\ \/ Swaps(p, {w}, {})
              \/ \E m \in Nat \ {0} : Swaps(p, {w}, {[do |-> "write", f |-> w.f, n |-> m]})
<1>1. PICK w \in In(todo[p]) :
        w \in Instr /\ w = Head(todo[p]) /\ w = Open!This(p) /\ w.do = "writei" /\ todo[p] # <<>>
  BY Heads DEF Open!Writei
<1>2. w.f \in Open!File /\ w \notin Opening /\ w.n \in Nat \ {0} /\ w.at \in Nat
  BY <1>1, Fields, NotOpening
<1>3. file[w.f] \in Struct /\ file[w.f].type = "inode" /\ file[w.f].obj \in Inode
  <2>1. file[w.f] \in Struct /\ file[w.f].type = "inode"
    BY <1>1, <1>2 DEF Numbered, Works, Good, Moving
  <2> QED
    BY <2>1 DEF Struct
<1>4. UNCHANGED <<ofile, status, open, iref, openings>>
  BY DEF Open!Writei
<1>5. PICK i, n1 : i = file[w.f].obj /\ n1 = Open!Min({w.n, CHUNK})
  OBVIOUS
<1>6. n1 \in Nat /\ n1 <= w.n
  <2>1. {w.n, CHUNK} \in SUBSET Nat /\ {w.n, CHUNK} # {} /\ w.n \in {w.n, CHUNK}
    BY <1>2, Finite
  <2> QED
    BY <1>2, <1>5, <2>1, Least
<1>7. PICK r \in Open!Writable(w.at, n1, Len(data[i])) :
        /\ file' = [file EXCEPT ![w.f].off = @ + r]
        /\ data' = IF r = 0 THEN data ELSE [data EXCEPT ![i] = Open!Patched(@, w.at, r, p)]
        /\ stored' = [stored EXCEPT ![i][p] = @ + r]
        /\ holder' = [holder EXCEPT ![i] = Nothing]
        /\ Open!Continue(p, IF r # n1 \/ w.n = n1 THEN <<>>
                            ELSE <<[do |-> "write", f |-> w.f, n |-> w.n - n1]>>)
  BY <1>1, <1>5 DEF Open!Writei
<1>8. r \in Nat /\ (r # 0 => ~(w.at > Len(data[i])) /\ ~(w.at + n1 > MaxSize) /\ r <= n1)
  BY <1>6, <1>7 DEF Open!Writable
<1>9. r # 0 => w.at <= Len(data[i]) /\ w.at + r <= MaxSize
  <2>1. PICK l : l = Len(data[i])
    OBVIOUS
  <2>2. l \in Nat
    <3>1. data[i] \in Seq(Process)
      BY <1>3, <1>5 DEF Kinds
    <3> QED
      BY <2>1, <3>1, LenProperties
  <2> QED
    BY <1>2, <1>6, <1>8, <2>1, <2>2, Finite
<1>10. CASE r # n1 \/ w.n = n1
  <2>1. Open!Continue(p, <<>>)
    BY <1>7, <1>10
  <2>2. Swaps(p, {w}, {})
    BY <1>1, <1>2, <2>1, Continued
  <2> QED
    BY <1>1, <1>2, <1>3, <1>4, <1>5, <1>7, <1>8, <1>9, <2>2
<1>11. CASE ~(r # n1 \/ w.n = n1)
  <2>1. PICK m : m = w.n - n1
    OBVIOUS
  <2>2. m \in Nat \ {0}
    BY <1>2, <1>6, <1>11, <2>1
  <2>3. PICK a : a = [do |-> "write", f |-> w.f, n |-> m]
    OBVIOUS
  <2>4. Open!Continue(p, <<a>>)
    BY <1>7, <1>11, <2>1, <2>3
  <2>5. a \in Instr
    BY <1>2, <2>2, <2>3, MakesMoves
  <2>6. Swaps(p, {w}, {a})
    BY <1>1, <1>2, <2>4, <2>5, Continued
  <2> QED
    BY <1>1, <1>2, <1>3, <1>4, <1>5, <1>7, <1>8, <1>9, <2>2, <2>3, <2>6
<1> QED
  BY <1>10, <1>11

(* What a call starts with.                                                *)
LEMMA BeginsDoes ==
  ASSUME Forms, NEW p \in Process, NEW a, NEW is, Open!Begins(p, is)
  PROVE  /\ status[p] = "runs" /\ todo[p] = <<>> /\ In(todo[p]) = {}
         /\ is = <<>> => Swaps(p, {}, {})
         /\ is = <<a>> /\ a \in Instr => Swaps(p, {}, {a})
<1>1. status[p] = "runs" /\ todo[p] = <<>> /\ todo' = [todo EXCEPT ![p] = is]
  BY DEF Open!Begins
<1>2. In(todo[p]) = {}
  BY <1>1, OfTuples
<1> QED
  BY <1>1, <1>2, Begun

(***************************************************************************)
(* What a step leaves as it is.                                            *)
(***************************************************************************)
LEMMA SwapsTrade ==
  ASSUME NEW p, NEW O, NEW N, Swaps(p, O, N) PROVE Trades(p, O, N)
<1>1. In(todo[p]) = O \cup {} /\ In(todo'[p]) = N \cup {}
  BY DEF Swaps
<1>2. {} \in SUBSET Closing
  OBVIOUS
<1> QED
  BY <1>1, <1>2 DEF Swaps, Trades

LEMMA ClosingDo == \A w \in Closing : w.do \in {"close", "unlockput", "clear", "exit"}
BY DEF Closing

LEMMA RefersSame ==
  ASSUME NEW p \in Process, NEW O, NEW N, Trades(p, O, N), ofile' = ofile,
         \A w \in O \cup N : w.do # "clear", NEW f
  PROVE  Refers(f)' = Refers(f)
<1>1. PICK K : In(todo[p]) = O \cup K /\ In(todo'[p]) = N \cup K
  BY DEF Trades
<1>2. \A e : Clear(e) \notin O \cup N
  BY ClearDo
<1>3. \A q \in Process : \A e : Clear(e) \in In(todo'[q]) <=> Clear(e) \in In(todo[q])
  BY <1>1, <1>2 DEF Trades, Changes
<1> QED
  BY <1>3 DEF Refers

LEMMA LifeKept ==
  ASSUME Life, NEW p \in Process, NEW O, NEW N, Changes(p, O, N), status[p] = "runs", status' = status,
         \A q \in Process : status[q] = "unused" => ofile'[q] = ofile[q]
  PROVE  Life'
BY DEF Life, Changes

LEMMA ForksKept ==
  ASSUME Forms, Forks, NEW p \in Process, NEW O, NEW N, Trades(p, O, N), \A w \in N : w.do # "fork",
         \A c \in Process : status[c] = "embryo" => status'[c] = "embryo" /\ ofile'[c] = ofile[c]
  PROVE  Forks'
<1>1. PICK K \in SUBSET Closing : In(todo[p]) = O \cup K /\ In(todo'[p]) = N \cup K
  BY DEF Trades
<1>2. ASSUME NEW q \in Process, NEW w \in In(todo'[q]), w.do = "fork"
      PROVE  w \in In(todo[q]) /\ w.c \in Process
  <2>1. q # p
    BY <1>1, <1>2, ClosingDo
  <2>2. w \in In(todo[q])
    BY <1>2, <2>1 DEF Trades, Changes
  <2> QED
    BY <1>2, <2>2, SoleOf, Fields
<1> QED
  BY <1>2 DEF Forks

(* Where dup(), read() and write() are under way the file is open.         *)
LEMMA Used ==
  ASSUME Forms, Works, NEW p \in Process, NEW w \in In(todo[p]),
         w.do \in {"dup", "read", "write", "readi", "writei"}
  PROVE  w.f \in Open!File /\ Refers(w.f) # {} /\ In(todo[p]) = {w} /\ \A e : Clear(e) \notin In(todo[p])
<1>1. w \in Instr /\ In(todo[p]) = {w}
  BY SoleOf
<1>2. w.f \in Open!File
  BY <1>1, Fields
<1>3. \A e : Clear(e) \notin In(todo[p])
  BY <1>1, ClearDo
<1>4. PICK e \in Open!Fd : ofile[p][e] = w.f
  BY DEF Works, Good, Dupped, Moving
<1>5. <<p, e>> \in Refers(w.f)
  BY <1>3, <1>4 DEF Refers
<1> QED
  BY <1>1, <1>2, <1>3, <1>5

(* What the calls of other processes rely on.                              *)
CalmFiles(p) ==
  /\ file' \in [Open!File -> Struct]
  /\ \A q \in Process : q # p =>
       \A w \in In(todo[q]), g \in Open!File :
         w \in Owns(g) => file'[g].type = file[g].type /\ (file[g].ref = 1 => file'[g].ref = 1)
  /\ \A g \in Open!File : Refers(g) # {} =>
       file'[g].type = file[g].type /\ file'[g].obj = file[g].obj /\ file'[g].mode = file[g].mode
  /\ \A q \in Process : q # p =>
       \A w \in In(todo[q]) : w.do \in {"readi", "writei"} => file'[w.f].off = file[w.f].off

Calm(p) ==
  /\ CalmFiles(p)
  /\ \A q \in Process : q # p /\ todo[q] # <<>> => ofile'[q] = ofile[q]
  /\ \A i \in Inode : holder[i] \notin {p, Nothing} => holder'[i] = holder[i]

LEMMA OwnsWhich ==
  ASSUME NEW w \in Instr
  PROVE  /\ w.do \in {"close", "openfd"} => w \in Owns(w.f)
         /\ w.do \in {"pipe1", "page", "pipefds"} => w \in Owns(w.r)
         /\ w.do \in {"page", "pipefds"} => w \in Owns(w.w)
BY DEF Owns

LEMMA Others ==
  ASSUME Forms, Numbered, Types, Works, NEW p \in Process, NEW O, NEW N, Changes(p, O, N), Calm(p),
         NEW q \in Process, q # p, NEW w \in In(todo'[q])
  PROVE  Good(q, w)'
<1>1. todo'[q] = todo[q] /\ w \in In(todo[q])
  BY DEF Changes
<1>2. w \in Instr /\ Good(q, w) /\ todo[q] # <<>>
  BY <1>1, SoleOf, OfTuples DEF Works
<1>3. ofile'[q] = ofile[q]
  BY <1>2 DEF Calm
<1>4. Passed(q, w)' /\ Dupped(q, w)'
  BY <1>1, <1>2, <1>3 DEF Good, Passed, Dupped
<1>5. Unready(w)'
  <2>1. ASSUME NEW g \in Open!File, w \in Owns(g)
        PROVE  (Fresh(g) => Fresh(g)') /\ (file[g].type # "none" => file'[g].type # "none")
    BY <1>1, <2>1 DEF Calm, CalmFiles, Fresh
  <2>2. /\ w.do = "openfd" => w.f \in Open!File /\ w \in Owns(w.f)
        /\ w.do \in {"pipe1", "page", "pipefds"} => w.r \in Open!File /\ w \in Owns(w.r)
        /\ w.do \in {"page", "pipefds"} => w.w \in Open!File /\ w \in Owns(w.w)
    BY <1>2, OwnsWhich, Fields
  <2>3. Unready(w)
    BY <1>2 DEF Good
  <2>4. CASE w.do = "openfd"
    BY <2>1, <2>2, <2>3, <2>4 DEF Unready
  <2>5. CASE w.do = "pipe1"
    BY <2>1, <2>2, <2>3, <2>5 DEF Unready
  <2>6. CASE w.do = "page"
    BY <2>1, <2>2, <2>3, <2>6 DEF Unready
  <2>7. CASE w.do = "pipefds"
    BY <2>1, <2>2, <2>3, <2>7 DEF Unready
  <2> QED
    BY <2>4, <2>5, <2>6, <2>7 DEF Unready
<1>6. Locked(q, w)'
  <2>1. ASSUME w.do \in {"open", "openfd", "unlockput"} PROVE holder'[w.i] = q
    <3>1. w.i \in Inode /\ holder[w.i] = q
      BY <1>2, <2>1, Fields DEF Good, Locked
    <3>2. q \notin {p, Nothing}
      BY Finite
    <3> QED
      BY <3>1, <3>2 DEF Calm
  <2> QED
    BY <2>1 DEF Locked
<1>7. ASSUME w.do \in {"read", "write", "readi", "writei"}
      PROVE  Moving(q, w)' /\ Still(q, w)'
  <2>1. w.f \in Open!File /\ Refers(w.f) # {}
    BY <1>1, <1>7, Used
  <2>2. /\ file'[w.f].type = file[w.f].type /\ file'[w.f].obj = file[w.f].obj
        /\ file'[w.f].mode = file[w.f].mode
    BY <2>1 DEF Calm, CalmFiles
  <2>3. Moving(q, w)'
    BY <1>2, <1>3, <2>2 DEF Good, Moving
  <2>4. ASSUME w.do \in {"readi", "writei"}
        PROVE  holder'[file'[w.f].obj] = q /\ w.at = file'[w.f].off
    <3>1. holder[file[w.f].obj] = q /\ w.at = file[w.f].off /\ file[w.f].type = "inode"
      BY <1>2, <2>4 DEF Good, Still, Moving
    <3>2. file'[w.f].off = file[w.f].off
      BY <1>1, <2>4 DEF Calm, CalmFiles
    <3>3. file[w.f] \in Struct
      BY <2>1 DEF Numbered
    <3>4. file[w.f].obj \in Inode
      BY <3>1, <3>3 DEF Struct
    <3>5. q \notin {p, Nothing}
      BY Finite
    <3> QED
      BY <2>2, <3>1, <3>2, <3>4, <3>5 DEF Calm
  <2> QED
    BY <2>3, <2>4 DEF Still
<1>8. Moving(q, w)' /\ Still(q, w)'
  BY <1>7 DEF Moving, Still
<1> QED
  BY <1>4, <1>5, <1>6, <1>8 DEF Good

LEMMA WorksKept ==
  ASSUME Forms, Numbered, Types, Works, NEW p \in Process, NEW O, NEW N, Changes(p, O, N), Calm(p),
         \A w \in In(todo'[p]) : Good(p, w)'
  PROVE  Works'
<1>1. ASSUME NEW q \in Process, NEW w \in In(todo'[q]) PROVE Good(q, w)'
  <2>1. CASE q = p
    BY <2>1
  <2>2. CASE q # p
    BY <2>2, Others
  <2> QED
    BY <2>1, <2>2
<1> QED
  BY <1>1 DEF Works

(* What is left of a list when close() or exit() goes on.                  *)
LEMMA Rest ==
  ASSUME Forms, Works, NEW p \in Process, NEW O, NEW N, Trades(p, O, N),
         ofile' = ofile, holder' = holder, \A w \in O : w.do # "clear", \A w \in N : w.do \in {"last", "iput"}
  PROVE  \A w \in In(todo'[p]) : Good(p, w)'
<1>1. PICK K \in SUBSET Closing : In(todo[p]) = O \cup K /\ In(todo'[p]) = N \cup K
  BY DEF Trades
<1>2. ASSUME NEW w \in In(todo'[p])
      PROVE  Good(p, w)'
  <2>1. w.do \in {"last", "iput", "close", "clear"} \/ (w \in K /\ w.do \in {"unlockput", "exit"})
    BY <1>1, <1>2, ClosingDo
  <2>2. CASE w.do \in {"last", "iput", "close", "clear"}
    BY <2>2 DEF Good, Passed, Unready, Dupped, Moving, Locked, Still
  <2>3. CASE w \in K /\ w.do \in {"unlockput", "exit"}
    <3>1. Good(p, w)
      BY <1>1, <2>3 DEF Works
    <3>2. Unready(w)' /\ Dupped(p, w)' /\ Moving(p, w)' /\ Still(p, w)'
      BY <2>3 DEF Unready, Dupped, Moving, Still
    <3>3. Locked(p, w)'
      BY <3>1 DEF Good, Locked
    <3>4. \A e : Clear(e) \in In(todo[p]) => Clear(e) \in In(todo'[p])
      BY <1>1, ClearDo
    <3>5. Passed(p, w)'
      BY <3>1, <3>4 DEF Good, Passed
    <3> QED
      BY <3>2, <3>3, <3>5 DEF Good
  <2> QED
    BY <2>1, <2>2, <2>3
<1> QED
  BY <1>2

LEMMA TypedKept ==
  ASSUME Typed, NEW p, Calm(p), \A f \in Open!File : Refers(f)' # {} => Refers(f) # {}
  PROVE  Typed'
BY DEF Typed, Calm, CalmFiles

(* A file that is free, or whose only reference p has.                     *)
LEMMA Private ==
  ASSUME Forms, Works, RefsRight, Numbered, NEW p \in Process, NEW f \in Open!File,
         \/ file[f].ref = 0
         \/ file[f].ref = 1 /\ \E v \in In(todo[p]) : v \in Owns(f)
  PROVE  Refers(f) = {} /\ \A q \in Process : q # p => \A w \in In(todo[q]) : w \notin Owns(f)
<1>1. /\ file[f].ref \in Nat
      /\ Refers(f) # {} => file[f].ref >= 1
      /\ \A q \in Process : \A w \in In(todo[q]) :
           w \in Owns(f) => file[f].ref >= 1 /\ (Refers(f) # {} => file[f].ref >= 2)
      /\ \A r, q \in Process : \A v \in In(todo[r]), w \in In(todo[q]) :
           r # q /\ v \in Owns(f) /\ w \in Owns(f) => file[f].ref >= 2
  BY RefBound
<1>2. CASE file[f].ref = 0
  BY <1>1, <1>2
<1>3. CASE file[f].ref = 1 /\ \E v \in In(todo[p]) : v \in Owns(f)
  <2>1. ~(file[f].ref >= 2)
    BY <1>3
  <2> QED
    BY <1>1, <1>3, <2>1
<1> QED
  BY <1>2, <1>3

LEMMA CalmSame ==
  ASSUME Numbered, file' = file, NEW p PROVE CalmFiles(p)
BY DEF Numbered, CalmFiles

LEMMA CalmPrivate ==
  ASSUME Forms, Works, NEW p \in Process, NEW F, Elsewhere(F),
         \A f \in F : /\ Refers(f) = {}
                      /\ \A q \in Process : q # p => \A w \in In(todo[q]) : w \notin Owns(f)
  PROVE  CalmFiles(p)
<1>1. ASSUME NEW q \in Process, q # p, NEW w \in In(todo[q]), w.do \in {"readi", "writei"}
      PROVE  file'[w.f].off = file[w.f].off
  BY <1>1, Used DEF Elsewhere
<1> QED
  BY <1>1 DEF CalmFiles, Elsewhere

LEMMA CalmRef ==
  ASSUME Forms, Works, RefsRight, Numbered, NEW p \in Process, NEW f \in Open!File, NEW n \in Nat,
         Refers(f) # {} \/ (\E v \in In(todo[p]) : v \in Owns(f)),
         file' = [file EXCEPT ![f].ref = n]
  PROVE  /\ CalmFiles(p) /\ file'[f].ref = n /\ \A g \in Open!File : g # f => file'[g] = file[g]
         /\ \A g \in Open!File : /\ file'[g].type = file[g].type /\ file'[g].obj = file[g].obj
                                 /\ file'[g].mode = file[g].mode /\ file'[g].off = file[g].off
<1>1. file \in [Open!File -> Struct]
  BY DEF Numbered
<1>2. PICK ff : ff = [file[f] EXCEPT !.ref = n]
  OBVIOUS
<1>3. /\ ff \in Struct /\ ff.ref = n /\ ff.type = file[f].type /\ ff.obj = file[f].obj
      /\ ff.mode = file[f].mode /\ ff.off = file[f].off
  BY <1>1, <1>2 DEF Struct
<1>4. file' = [file EXCEPT ![f] = ff]
  BY <1>1, <1>2
<1>5. file'[f] = ff /\ (\A g \in Open!File : g # f => file'[g] = file[g]) /\ file' \in [Open!File -> Struct]
  BY <1>1, <1>3, <1>4
<1>6. \A g \in Open!File : /\ file'[g].type = file[g].type /\ file'[g].obj = file[g].obj
                           /\ file'[g].mode = file[g].mode /\ file'[g].off = file[g].off
  BY <1>3, <1>5
<1>7. ASSUME NEW q \in Process, q # p, NEW w \in In(todo[q]), NEW g \in Open!File, w \in Owns(g),
             file[g].ref = 1
      PROVE  file'[g].ref = 1
  <2>1. CASE g # f
    BY <1>5, <1>7, <2>1
  <2>2. CASE g = f
    <3>1. CASE Refers(f) # {}
      <4>1. file[f].ref >= 2
        BY <1>7, <2>2, <3>1, RefBound
      <4> QED
        BY <1>7, <2>2, <4>1
    <3>2. CASE \E v \in In(todo[p]) : v \in Owns(f)
      BY <1>7, <2>2, <3>2, Private
    <3> QED
      BY <3>1, <3>2
  <2> QED
    BY <2>1, <2>2
<1>8. ASSUME NEW q \in Process, NEW w \in In(todo[q]), w.do \in {"readi", "writei"}
      PROVE  file'[w.f].off = file[w.f].off
  BY <1>6, <1>8, Used
<1> QED
  BY <1>3, <1>5, <1>6, <1>7, <1>8 DEF CalmFiles

LEMMA CalmOff ==
  ASSUME Forms, Works, Numbered, NEW p \in Process, NEW u \in In(todo[p]), u.do \in {"readi", "writei"},
         NEW f \in Open!File, f = u.f, NEW n \in Nat, file' = [file EXCEPT ![f].off = n]
  PROVE  /\ CalmFiles(p) /\ file'[f].off = n /\ \A g \in Open!File : g # f => file'[g] = file[g]
         /\ \A g \in Open!File : /\ file'[g].type = file[g].type /\ file'[g].obj = file[g].obj
                                 /\ file'[g].mode = file[g].mode /\ file'[g].ref = file[g].ref
<1>1. file \in [Open!File -> Struct]
  BY DEF Numbered
<1>2. PICK ff : ff = [file[f] EXCEPT !.off = n]
  OBVIOUS
<1>3. /\ ff \in Struct /\ ff.off = n /\ ff.type = file[f].type /\ ff.obj = file[f].obj
      /\ ff.mode = file[f].mode /\ ff.ref = file[f].ref
  BY <1>1, <1>2 DEF Struct
<1>4. file' = [file EXCEPT ![f] = ff]
  BY <1>1, <1>2
<1>5. file'[f] = ff /\ (\A g \in Open!File : g # f => file'[g] = file[g]) /\ file' \in [Open!File -> Struct]
  BY <1>1, <1>3, <1>4
<1>6. \A g \in Open!File : /\ file'[g].type = file[g].type /\ file'[g].obj = file[g].obj
                           /\ file'[g].mode = file[g].mode /\ file'[g].ref = file[g].ref
  BY <1>3, <1>5
<1>7. ASSUME NEW q \in Process, q # p, NEW w \in In(todo[q]), w.do \in {"readi", "writei"}
      PROVE  file'[w.f].off = file[w.f].off
  <2>1. holder[file[w.f].obj] = q /\ holder[file[f].obj] = p
    BY <1>7 DEF Works, Good, Still
  <2>2. w.f # f
    BY <1>7, <2>1
  <2>3. w.f \in Open!File
    BY <1>7, Used
  <2> QED
    BY <1>5, <2>2, <2>3
<1> QED
  BY <1>3, <1>5, <1>6, <1>7 DEF CalmFiles

(***************************************************************************)
(* Counts.                                                                 *)
(***************************************************************************)
LEMMA NoWeight ==
  ASSUME NEW O, NEW S, \A w \in O : w \notin S PROVE Weight(O, S) = 0
<1>1. PICK E : E = O \cap S
  OBVIOUS
<1>2. E = {}
  BY <1>1
<1> QED
  BY <1>1, <1>2, FS_EmptySet DEF Weight

LEMMA RefsKept ==
  ASSUME Forms, Numbered, RefsRight, NEW p, NEW O, NEW N, Changes(p, O, N),
         \A f \in Open!File :
           \E a, b, c, d \in Nat :
             /\ a = Weight(O, Owns(f)) /\ b = Weight(N, Owns(f))
             /\ c = Weight(O, Dups(f)) /\ d = Weight(N, Dups(f))
             /\ file'[f].ref + d + Cardinality(Refers(f)) + a
                  = file[f].ref + c + Cardinality(Refers(f)') + b,
         file' \in [Open!File -> Struct]
  PROVE  RefsRight'
<1>1. ASSUME NEW f \in Open!File
      PROVE  file'[f].ref + Count(todo', Dups(f)) = Cardinality(Refers(f)') + Count(todo', Owns(f))
  <2>1. PICK a \in Nat, b \in Nat, c \in Nat, d \in Nat :
          /\ a = Weight(O, Owns(f)) /\ b = Weight(N, Owns(f))
          /\ c = Weight(O, Dups(f)) /\ d = Weight(N, Dups(f))
          /\ file'[f].ref + d + Cardinality(Refers(f)) + a
               = file[f].ref + c + Cardinality(Refers(f)') + b
    OBVIOUS
  <2>2. Forms'
    BY DEF Changes
  <2>3. PICK R \in Nat, Q \in Nat, D \in Nat, E \in Nat, G \in Nat, H \in Nat :
          /\ R = Cardinality(Refers(f)) /\ Q = Cardinality(Refers(f)')
          /\ D = Count(todo, Dups(f)) /\ E = Count(todo', Dups(f))
          /\ G = Count(todo, Owns(f)) /\ H = Count(todo', Owns(f))
    <3>1. Cardinality(Refers(f)) \in Nat
      BY RefersFinite
    <3>2. Cardinality(Refers(f)') \in Nat
      <4>1. Refers(f)' \subseteq Process \X Open!Fd
        BY DEF Refers
      <4> QED
        BY <4>1, RefersFinite, FS_Subset, FS_CardinalityType
    <3>3. \A S : Count(todo, S) \in Nat /\ Count(todo', S) \in Nat
      BY <2>2, WhereFinite DEF Forms
    <3> QED
      BY <3>1, <3>2, <3>3
  <2>4. E + c = D + d /\ H + a = G + b
    BY <2>1, <2>3 DEF Changes
  <2>5. file[f].ref + D = R + G
    BY <2>3 DEF RefsRight
  <2>6. file[f].ref \in Nat /\ file'[f].ref \in Nat
    BY DEF Numbered, Struct
  <2> QED
    BY <2>1, <2>3, <2>4, <2>5, <2>6
<1> QED
  BY <1>1 DEF RefsRight

(* Pipes as they were, and inodes.                                         *)
PipesAlike ==
  \A g \in Open!File : file[g].type = "pipe" \/ file'[g].type = "pipe" =>
    file'[g].type = file[g].type /\ file'[g].obj = file[g].obj /\ file'[g].mode = file[g].mode
NodesAlike ==
  \A g \in Open!File : file[g].type \in {"inode", "device"} \/ file'[g].type \in {"inode", "device"} =>
    file'[g].type = file[g].type /\ file'[g].obj = file[g].obj

LEMMA EndsKept ==
  ASSUME EndsRight, Forms, NEW p, NEW O, NEW N, Changes(p, O, N), open' = open, PipesAlike,
         \A w \in O \cup N : w.do # "last"
  PROVE  EndsRight'
<1>1. ASSUME NEW k \in Page, NEW end \in {"r", "w"}
      PROVE  Piped(k, end)' = Piped(k, end) /\ Count(todo', Ends(k, end)) = Count(todo, Ends(k, end))
  <2>1. Piped(k, end)' = Piped(k, end)
    BY DEF Piped, PipesAlike
  <2>2. Weight(O, Ends(k, end)) = 0
    BY NoWeight DEF Ends
  <2>3. Weight(N, Ends(k, end)) = 0
    BY NoWeight DEF Ends
  <2>4. Count(todo, Ends(k, end)) \in Nat /\ Count(todo', Ends(k, end)) \in Nat
    BY WhereFinite DEF Forms, Changes
  <2>5. Count(todo', Ends(k, end)) + 0 = Count(todo, Ends(k, end)) + 0
    BY <2>2, <2>3 DEF Changes
  <2> QED
    BY <2>1, <2>4, <2>5
<1> QED
  BY <1>1 DEF EndsRight

LEMMA InodesKept ==
  ASSUME InodesRight, Forms, NEW p, NEW O, NEW N, Changes(p, O, N), iref' = iref, NodesAlike,
         \A i \in Inode : \E a \in Nat : a = Weight(O, Puts(i)) /\ a = Weight(N, Puts(i))
  PROVE  InodesRight'
<1>1. ASSUME NEW i \in Inode
      PROVE  Stands(i)' = Stands(i) /\ Count(todo', Puts(i)) = Count(todo, Puts(i))
  <2>1. Stands(i)' = Stands(i)
    BY DEF Stands, NodesAlike
  <2>2. PICK a \in Nat : a = Weight(O, Puts(i)) /\ a = Weight(N, Puts(i))
    OBVIOUS
  <2>3. Count(todo, Puts(i)) \in Nat /\ Count(todo', Puts(i)) \in Nat
    BY WhereFinite DEF Forms, Changes
  <2>4. Count(todo', Puts(i)) + a = Count(todo, Puts(i)) + a
    BY <2>2 DEF Changes
  <2> QED
    BY <2>1, <2>2, <2>3, <2>4
<1> QED
  BY <1>1 DEF InodesRight

LEMMA WrittenAtKept ==
  ASSUME NEW i \in Inode, WrittenAt(i), Kinds, data'[i] = data[i], stored'[i] = stored[i],
         openings'[i] \in Nat, openings'[i] >= openings[i], Writers(i)' \subseteq Writers(i),
         \A f \in Writers(i)' : file'[f].off = file[f].off
  PROVE  WrittenAt(i)'
<1>1. Writers(i) \subseteq Open!File
  BY DEF Writers
<1>2. IsFiniteSet(Writers(i)) /\ Cardinality(Writers(i)) \in Nat
  BY <1>1, FilesFinite
<1>3. Cardinality(Writers(i)') <= Cardinality(Writers(i)) /\ Cardinality(Writers(i)') \in Nat
  BY <1>2, FS_Subset, FS_CardinalityType
<1>4. \A q : Units(i, q)' = Units(i, q)
  BY DEF Units
<1>5. openings[i] \in Nat
  BY DEF Kinds
<1>6. PICK m \in Nat, n \in Nat : m = openings[i] /\ n = openings'[i]
  BY <1>5
<1>7. /\ m = 0 => data[i] = <<>> /\ \A q \in Process : stored[i][q] = 0
      /\ Cardinality(Writers(i)) <= m
      /\ m <= 1 =>
           /\ \A f \in Writers(i) : file[f].off = Len(data[i])
           /\ \A q \in Process : Cardinality(Units(i, q)) = stored[i][q]
  BY <1>6 DEF WrittenAt
<1>8. m <= n
  BY <1>6
<1>9. Cardinality(Writers(i)') <= n
  BY <1>2, <1>3, <1>6, <1>7, <1>8
<1>10. n = 0 => data'[i] = <<>> /\ \A q \in Process : stored'[i][q] = 0
  BY <1>6, <1>7, <1>8
<1>11. ASSUME n <= 1
       PROVE  /\ \A f \in Writers(i)' : file'[f].off = Len(data'[i])
              /\ \A q \in Process : Cardinality(Units(i, q)') = stored'[i][q]
  <2>1. m <= 1
    BY <1>6, <1>8, <1>11
  <2> QED
    BY <1>4, <1>7, <2>1
<1> QED
  BY <1>6, <1>9, <1>10, <1>11 DEF WrittenAt

LEMMA WrittenKept ==
  ASSUME Written, Kinds, Numbered, data' = data, stored' = stored, openings' = openings,
         \A g \in Open!File : file'[g].type = "inode" =>
           /\ file[g].type = "inode" /\ file'[g].obj = file[g].obj /\ file'[g].mode = file[g].mode
           /\ file'[g].off = file[g].off
  PROVE  Written'
<1>1. ASSUME NEW i \in Inode PROVE WrittenAt(i)'
  <2>1. Writers(i)' \subseteq Writers(i) /\ \A f \in Writers(i)' : file'[f].off = file[f].off
    BY DEF Writers
  <2>2. openings'[i] \in Nat /\ openings'[i] >= openings[i]
    BY DEF Kinds
  <2> QED
    BY <2>1, <2>2, WrittenAtKept DEF Written
<1> QED
  BY <1>1 DEF Written

LEMMA OwnsAre ==
  ASSUME NEW w \in Instr, NEW f
  PROVE  /\ w.do \in {"close", "openfd"} => (w \in Owns(f) <=> w.f = f)
         /\ w.do = "pipe1" => (w \in Owns(f) <=> w.r = f)
         /\ w.do \in {"page", "pipefds"} => (w \in Owns(f) <=> w.r = f \/ w.w = f)
         /\ w.do \notin {"close", "openfd", "pipe1", "page", "pipefds"} => w \notin Owns(f)
         /\ w.do = "dup" => (w \in Dups(f) <=> w.f = f)
         /\ w.do # "dup" => w \notin Dups(f)
BY DEF Owns, Dups

LEMMA PutsAre ==
  ASSUME NEW w \in Instr, NEW i
  PROVE  /\ w.do \in {"iput", "open", "openfd", "unlockput"} => (w \in Puts(i) <=> w.i = i)
         /\ w.do = "last" => (w \in Puts(i) <=> w.ff.type \in {"inode", "device"} /\ w.ff.obj = i)
         /\ w.do \notin {"iput", "open", "openfd", "unlockput", "last"} => w \notin Puts(i)
BY DEF Puts

(* Of instructions that neither have nor owe a reference there is nothing  *)
(* to count.                                                               *)
LEMMA RefsNeutral ==
  ASSUME Forms, Numbered, RefsRight, NEW p, NEW O, NEW N, Changes(p, O, N),
         \A w \in O \cup N : w.do \notin {"close", "openfd", "pipe1", "page", "pipefds", "dup"},
         file' \in [Open!File -> Struct],
         \A f \in Open!File : file'[f].ref = file[f].ref /\ Refers(f)' = Refers(f)
  PROVE  RefsRight'
<1>1. ASSUME NEW f \in Open!File
      PROVE  \E a, b, c, d \in Nat :
               /\ a = Weight(O, Owns(f)) /\ b = Weight(N, Owns(f))
               /\ c = Weight(O, Dups(f)) /\ d = Weight(N, Dups(f))
               /\ file'[f].ref + d + Cardinality(Refers(f)) + a
                    = file[f].ref + c + Cardinality(Refers(f)') + b
  <2>1. /\ Weight(O, Owns(f)) = 0 /\ Weight(N, Owns(f)) = 0
        /\ Weight(O, Dups(f)) = 0 /\ Weight(N, Dups(f)) = 0
    BY NoWeight DEF Owns, Dups
  <2>2. PICK x, y, z : x = file[f].ref /\ y = Cardinality(Refers(f)) /\ z = file'[f].ref
    OBVIOUS
  <2>3. x \in Nat /\ y \in Nat /\ z = x /\ Cardinality(Refers(f)') = y
    BY <2>2, RefersFinite DEF Numbered, Struct
  <2> QED
    BY <2>1, <2>2, <2>3
<1> QED
  BY <1>1, RefsKept

LEMMA InodesNeutral ==
  ASSUME InodesRight, Forms, NEW p, NEW O, NEW N, Changes(p, O, N), iref' = iref, NodesAlike,
         \A w \in O \cup N : w.do \notin {"iput", "open", "openfd", "unlockput", "last"}
  PROVE  InodesRight'
<1>1. ASSUME NEW i \in Inode PROVE \E a \in Nat : a = Weight(O, Puts(i)) /\ a = Weight(N, Puts(i))
  <2>1. Weight(O, Puts(i)) = 0
    BY NoWeight DEF Puts
  <2>2. Weight(N, Puts(i)) = 0
    BY NoWeight DEF Puts
  <2> QED
    BY <2>1, <2>2
<1> QED
  BY <1>1, InodesKept

LEMMA Runs ==
  ASSUME Life, NEW p \in Process, NEW w \in In(todo[p]) PROVE status[p] = "runs"
BY OfTuples DEF Life

LEMMA FilesSame ==
  ASSUME Numbered, Written, Kinds, Sizes, UNCHANGED <<file, data, stored, openings>>
  PROVE  Numbered' /\ Kinds' /\ Sizes' /\ Written' /\ PipesAlike /\ NodesAlike
<1>1. Numbered' /\ Kinds' /\ Sizes' /\ PipesAlike /\ NodesAlike
  BY DEF Numbered, Kinds, Sizes, PipesAlike, NodesAlike
<1>2. Written'
  BY WrittenKept
<1> QED
  BY <1>1, <1>2

(* Steps that change nothing in files and descriptors.                     *)
LEMMA Quiet ==
  ASSUME FilesInv, NEW p \in Process, NEW O, NEW N, Trades(p, O, N),
         UNCHANGED <<file, ofile, data, stored, openings>>, Types',
         \A i \in Inode : holder[i] \notin {p, Nothing} => holder'[i] = holder[i],
         \A w \in In(todo'[p]) : Good(p, w)',
         \A f \in Open!File : Refers(f)' # {} => Refers(f) # {},
         Life', Forks', RefsRight', EndsRight', InodesRight'
  PROVE  FilesInv'
<1>1. Forms' /\ Changes(p, O, N)
  BY DEF Trades, Changes
<1>2. Numbered' /\ Kinds' /\ Sizes' /\ Written'
  BY FilesSame DEF FilesInv
<1>3. Calm(p)
  BY CalmSame DEF FilesInv, Calm
<1>4. Works'
  BY <1>1, <1>3, WorksKept DEF FilesInv
<1>5. Typed'
  BY <1>3, TypedKept DEF FilesInv
<1> QED
  BY <1>1, <1>2, <1>4, <1>5 DEF FilesInv

LEMMA Quieter ==
  ASSUME FilesInv, NEW p \in Process, NEW O, NEW N, Trades(p, O, N), status[p] = "runs",
         UNCHANGED <<file, ofile, status, open, data, stored, openings>>, Types',
         \A i \in Inode : holder[i] \notin {p, Nothing} => holder'[i] = holder[i],
         \A w \in In(todo'[p]) : Good(p, w)',
         \A w \in O \cup N : w.do \notin {"clear", "last"}, \A w \in N : w.do # "fork",
         RefsRight', InodesRight'
  PROVE  FilesInv'
<1>1. Changes(p, O, N)
  BY DEF Trades
<1>2. \A f : Refers(f)' = Refers(f)
  BY RefersSame
<1>3. Life'
  BY <1>1, LifeKept DEF FilesInv
<1>4. Forks'
  BY ForksKept DEF FilesInv
<1>5. EndsRight'
  BY <1>1, EndsKept, FilesSame DEF FilesInv
<1> QED
  BY <1>2, <1>3, <1>4, <1>5, Quiet

LEMMA RefsTraded ==
  ASSUME Forms, Numbered, RefsRight, NEW p, NEW O, NEW N, Changes(p, O, N),
         file' \in [Open!File -> Struct],
         \A f \in Open!File : file'[f].ref = file[f].ref /\ Refers(f)' = Refers(f),
         \A f \in Open!File :
           \E a, c \in Nat : /\ a = Weight(O, Owns(f)) /\ a = Weight(N, Owns(f))
                             /\ c = Weight(O, Dups(f)) /\ c = Weight(N, Dups(f))
  PROVE  RefsRight'
<1>1. ASSUME NEW f \in Open!File
      PROVE  \E a, b, c, d \in Nat :
               /\ a = Weight(O, Owns(f)) /\ b = Weight(N, Owns(f))
               /\ c = Weight(O, Dups(f)) /\ d = Weight(N, Dups(f))
               /\ file'[f].ref + d + Cardinality(Refers(f)) + a
                    = file[f].ref + c + Cardinality(Refers(f)') + b
  <2>1. PICK a \in Nat, c \in Nat : /\ a = Weight(O, Owns(f)) /\ a = Weight(N, Owns(f))
                                    /\ c = Weight(O, Dups(f)) /\ c = Weight(N, Dups(f))
    OBVIOUS
  <2>2. PICK x, y, z : x = file[f].ref /\ y = Cardinality(Refers(f)) /\ z = file'[f].ref
    OBVIOUS
  <2>3. x \in Nat /\ y \in Nat /\ z = x /\ Cardinality(Refers(f)') = y
    BY <2>2, RefersFinite DEF Numbered, Struct
  <2> QED
    BY <2>1, <2>2, <2>3
<1> QED
  BY <1>1, RefsKept

LEMMA InodesCount ==
  ASSUME InodesRight, Forms, Types, Types', NEW p, NEW O, NEW N, Changes(p, O, N),
         \A i \in Inode :
           \E a, b \in Nat : /\ a = Weight(O, Puts(i)) /\ b = Weight(N, Puts(i))
                             /\ iref'[i] + a + Cardinality(Stands(i))
                                  = iref[i] + b + Cardinality(Stands(i)')
  PROVE  InodesRight'
<1>1. ASSUME NEW i \in Inode
      PROVE  iref'[i] = Cardinality(Stands(i)') + Count(todo', Puts(i))
  <2>1. PICK a \in Nat, b \in Nat : /\ a = Weight(O, Puts(i)) /\ b = Weight(N, Puts(i))
                                    /\ iref'[i] + a + Cardinality(Stands(i))
                                         = iref[i] + b + Cardinality(Stands(i)')
    OBVIOUS
  <2>2. Stands(i) \subseteq Open!File /\ Stands(i)' \subseteq Open!File
    BY DEF Stands
  <2>3. Forms'
    BY DEF Changes
  <2>4. PICK R \in Nat, Q \in Nat, G \in Nat, H \in Nat :
          /\ R = Cardinality(Stands(i)) /\ Q = Cardinality(Stands(i)')
          /\ G = Count(todo, Puts(i)) /\ H = Count(todo', Puts(i))
    <3>1. Cardinality(Stands(i)) \in Nat /\ Cardinality(Stands(i)') \in Nat
      BY <2>2, FilesFinite
    <3>2. \A S : Count(todo, S) \in Nat /\ Count(todo', S) \in Nat
      BY <2>3, WhereFinite DEF Forms
    <3> QED
      BY <3>1, <3>2
  <2>5. H + a = G + b
    BY <2>1, <2>4 DEF Changes
  <2>6. iref[i] = R + G
    BY <2>4 DEF InodesRight
  <2>7. PICK x \in Int, y \in Int : x = iref[i] /\ y = iref'[i]
    BY DEF Types
  <2>8. y + a + R = x + b + Q /\ x = R + G
    BY <2>1, <2>4, <2>6, <2>7
  <2>9. y = Q + H
    BY <2>5, <2>8
  <2> QED
    BY <2>4, <2>7, <2>9
<1> QED
  BY <1>1 DEF InodesRight

(* Of these nothing is required.                                           *)
LEMMA Idle ==
  ASSUME NEW p, NEW w, w.do \in {"close", "last", "iput", "clear", "pipe0", "fork"} PROVE Good(p, w)'
BY DEF Good, Passed, Unready, Dupped, Moving, Locked, Still

LEMMA IputKeeps ==
  ASSUME FilesInv, NEW p \in Process, Open!Iput(p) PROVE FilesInv'
<1>1. PICK w \in In(todo[p]) :
        /\ w \in Instr /\ w.do = "iput" /\ w.i \in Inode
        /\ UNCHANGED <<file, ofile, status, open, holder, data, stored, openings>>
        /\ iref' = [iref EXCEPT ![w.i] = @ - 1] /\ Trades(p, {w}, {})
  BY IputDoes DEF FilesInv
<1>2. PICK O, N : O = {w} /\ N = {}
  OBVIOUS
<1>3. Trades(p, O, N) /\ Changes(p, O, N)
  BY <1>1, <1>2 DEF Trades
<1>4. Types'
  BY <1>1 DEF FilesInv, Types
<1>5. \A f : Refers(f)' = Refers(f)
  BY <1>1, <1>2, <1>3, RefersSame
<1>6. file' \in [Open!File -> Struct]
  BY <1>1 DEF FilesInv, Numbered
<1>7. RefsRight'
  BY <1>1, <1>2, <1>3, <1>5, <1>6, RefsNeutral DEF FilesInv
<1>8. InodesRight'
  <2>1. ASSUME NEW i \in Inode
        PROVE  \E a, b \in Nat : /\ a = Weight(O, Puts(i)) /\ b = Weight(N, Puts(i))
                                 /\ iref'[i] + a + Cardinality(Stands(i))
                                      = iref[i] + b + Cardinality(Stands(i)')
    <3>1. Weight(O, Puts(i)) = Bit(w \in Puts(i)) /\ Weight(N, Puts(i)) = 0
      BY <1>2, Weigh
    <3>2. w \in Puts(i) <=> w.i = i
      BY <1>1, PutsAre
    <3>3. Stands(i)' = Stands(i) /\ Cardinality(Stands(i)) \in Nat
      BY <1>1, FilesFinite DEF Stands
    <3>4. iref \in [Inode -> Int] /\ iref[i] \in Int
      BY DEF FilesInv, Types
    <3>5. iref'[i] = IF w.i = i THEN iref[i] - 1 ELSE iref[i]
      BY <1>1, <3>4
    <3>6. iref'[i] + Bit(w \in Puts(i)) = iref[i] /\ iref'[i] \in Int
      BY <3>2, <3>4, <3>5 DEF Bit
    <3>7. PICK x, y, z, n : x = iref[i] /\ y = iref'[i] /\ z = Cardinality(Stands(i)) /\ n = Bit(w \in Puts(i))
      OBVIOUS
    <3>8. x \in Int /\ y \in Int /\ z \in Nat /\ n \in Nat /\ y + n = x
      BY <3>3, <3>4, <3>6, <3>7, BitType
    <3>9. y + n + z = x + 0 + z
      BY <3>8
    <3>10. 0 \in Nat /\ n = Weight(O, Puts(i)) /\ 0 = Weight(N, Puts(i))
      BY <3>1, <3>7
    <3> QED
      BY <3>3, <3>7, <3>8, <3>9, <3>10
  <2> QED
    BY <1>3, <1>4, <2>1, InodesCount DEF FilesInv
<1>9. \A v \in In(todo'[p]) : Good(p, v)'
  BY <1>1, <1>2, <1>3, Rest DEF FilesInv
<1>10. status[p] = "runs"
  BY Runs DEF FilesInv
<1> QED
  BY <1>1, <1>2, <1>3, <1>4, <1>7, <1>8, <1>9, <1>10, Quieter

LEMMA UnlockPutKeeps ==
  ASSUME FilesInv, NEW p \in Process, Open!UnlockPut(p) PROVE FilesInv'
<1>1. PICK w \in In(todo[p]) :
        /\ w \in Instr /\ w.do = "unlockput" /\ w.i \in Inode
        /\ UNCHANGED <<file, ofile, status, open, iref, data, stored, openings>>
        /\ holder' = [holder EXCEPT ![w.i] = Nothing] /\ Swaps(p, {w}, {Open!Put(w.i)})
  BY UnlockPutDoes DEF FilesInv
<1>2. PICK a : a = Open!Put(w.i)
  OBVIOUS
<1>3. PICK O, N : O = {w} /\ N = {a}
  OBVIOUS
<1>4. a.do = "iput" /\ a.i = w.i /\ a \in Instr
  BY <1>1, <1>2, MakesLists, Within DEF Open!Put
<1>5. Trades(p, O, N) /\ Changes(p, O, N) /\ In(todo'[p]) = {a}
  BY <1>1, <1>2, <1>3, SwapsTrade DEF Swaps
<1>6. Types'
  BY <1>1 DEF FilesInv, Types
<1>7. \A f : Refers(f)' = Refers(f)
  BY <1>1, <1>3, <1>4, <1>5, RefersSame
<1>8. file' \in [Open!File -> Struct]
  BY <1>1 DEF FilesInv, Numbered
<1>9. RefsRight'
  BY <1>1, <1>3, <1>4, <1>5, <1>7, <1>8, RefsNeutral DEF FilesInv
<1>10. InodesRight'
  <2>1. ASSUME NEW i \in Inode PROVE \E n \in Nat : n = Weight(O, Puts(i)) /\ n = Weight(N, Puts(i))
    <3>1. w \in Puts(i) <=> a \in Puts(i)
      BY <1>1, <1>4, PutsAre
    <3>2. Weight(O, Puts(i)) = Bit(w \in Puts(i)) /\ Weight(N, Puts(i)) = Bit(a \in Puts(i))
      BY <1>3, Weigh
    <3> QED
      BY <3>1, <3>2, BitType DEF Bit
  <2> QED
    BY <1>1, <1>5, <2>1, InodesKept, FilesSame DEF FilesInv
<1>11. \A v \in In(todo'[p]) : Good(p, v)'
  BY <1>4, <1>5, Idle
<1>12. status[p] = "runs"
  BY Runs DEF FilesInv
<1>13. \A i \in Inode : holder[i] \notin {p, Nothing} => holder'[i] = holder[i]
  <2>1. holder[w.i] = p
    BY <1>1 DEF FilesInv, Works, Good, Locked
  <2> QED
    BY <1>1, <2>1 DEF FilesInv, Types
<1> QED
  BY <1>1, <1>3, <1>4, <1>5, <1>6, <1>9, <1>10, <1>11, <1>12, <1>13, Quieter

(* A call that fails goes on to give up what it has.                       *)
LEMMA GivesUp ==
  ASSUME FilesInv, NEW p \in Process, NEW w \in In(todo[p]), w.do \notin {"clear", "last", "dup"},
         NEW N, Swaps(p, {w}, N),
         UNCHANGED <<file, ofile, status, open, iref, holder, data, stored, openings>>,
         \A v \in N : v.do = "close" \/ (v.do = "unlockput" /\ holder[v.i] = p),
         \A f \in Open!File : Weight(N, Owns(f)) = Bit(w \in Owns(f)),
         \A i \in Inode : Weight(N, Puts(i)) = Bit(w \in Puts(i))
  PROVE  FilesInv'
<1>1. PICK O : O = {w}
  OBVIOUS
<1>2. Trades(p, O, N) /\ Changes(p, O, N) /\ In(todo'[p]) = N
  BY <1>1, SwapsTrade DEF Swaps
<1>3. w \in Instr /\ status[p] = "runs"
  BY SoleOf, Runs DEF FilesInv
<1>4. Types'
  BY DEF FilesInv, Types
<1>5. \A f : Refers(f)' = Refers(f)
  BY <1>1, <1>2, RefersSame
<1>6. file' \in [Open!File -> Struct]
  BY DEF FilesInv, Numbered
<1>7. RefsRight'
  <2>1. ASSUME NEW f \in Open!File
        PROVE  \E a, c \in Nat : /\ a = Weight(O, Owns(f)) /\ a = Weight(N, Owns(f))
                                 /\ c = Weight(O, Dups(f)) /\ c = Weight(N, Dups(f))
    <3>1. Weight(O, Owns(f)) = Bit(w \in Owns(f))
      BY <1>1, Weigh
    <3>2. Weight(O, Dups(f)) = 0
      BY <1>1, NoWeight DEF Dups
    <3>3. Weight(N, Dups(f)) = 0
      BY NoWeight DEF Dups
    <3>4. PICK a, c : a = Bit(w \in Owns(f)) /\ c = 0
      OBVIOUS
    <3>5. a \in Nat /\ c \in Nat /\ a = Weight(N, Owns(f))
      BY <3>4, BitType
    <3> QED
      BY <3>1, <3>2, <3>3, <3>4, <3>5
  <2> QED
    BY <1>2, <1>5, <1>6, <2>1, RefsTraded DEF FilesInv
<1>8. InodesRight'
  <2>1. ASSUME NEW i \in Inode PROVE \E a \in Nat : a = Weight(O, Puts(i)) /\ a = Weight(N, Puts(i))
    <3>1. Weight(O, Puts(i)) = Bit(w \in Puts(i))
      BY <1>1, Weigh
    <3>2. PICK a : a = Bit(w \in Puts(i))
      OBVIOUS
    <3> QED
      BY <3>1, <3>2, BitType
  <2> QED
    BY <1>2, <2>1, InodesKept, FilesSame DEF FilesInv
<1>9. ASSUME NEW v \in In(todo'[p]) PROVE Good(p, v)'
  <2>1. CASE v.do = "close"
    BY <2>1, Idle
  <2>2. CASE v.do = "unlockput" /\ holder[v.i] = p
    BY <2>2 DEF Good, Passed, Unready, Dupped, Moving, Locked, Still
  <2> QED
    BY <1>2, <2>1, <2>2
<1>10. \A v \in O \cup N : v.do \notin {"clear", "last"}
  BY <1>1
<1>11. \A v \in N : v.do # "fork"
  OBVIOUS
<1>12. \A i \in Inode : holder[i] \notin {p, Nothing} => holder'[i] = holder[i]
  OBVIOUS
<1> QED
  BY <1>2, <1>3, <1>4, <1>7, <1>8, <1>9, <1>10, <1>11, <1>12, Quieter

(* filealloc() has found f.                                                *)
LEMMA Allocated ==
  ASSUME FilesInv, NEW p \in Process, NEW f \in Open!File, file[f].ref = 0,
         file' = [file EXCEPT ![f].ref = 1]
  PROVE  /\ CalmFiles(p) /\ Elsewhere({f}) /\ Fresh(f)'
         /\ Refers(f) = {} /\ \A q \in Process : \A w \in In(todo[q]) : w \notin Owns(f)
         /\ \A g \in Open!File : /\ file'[g].type = file[g].type /\ file'[g].obj = file[g].obj
                                 /\ file'[g].mode = file[g].mode /\ file'[g].off = file[g].off
                                 /\ file'[g].ref = IF g = f THEN 1 ELSE file[g].ref
<1>1. file \in [Open!File -> Struct] /\ file[f].type = "none"
  BY DEF FilesInv, Numbered
<1>2. PICK ff : ff = [file[f] EXCEPT !.ref = 1]
  OBVIOUS
<1>3. /\ ff \in Struct /\ ff.ref = 1 /\ ff.type = file[f].type /\ ff.obj = file[f].obj
      /\ ff.mode = file[f].mode /\ ff.off = file[f].off
  BY <1>1, <1>2 DEF Struct
<1>4. file' = [file EXCEPT ![f] = ff]
  BY <1>1, <1>2
<1>5. file'[f] = ff /\ (\A g \in Open!File : g # f => file'[g] = file[g]) /\ file' \in [Open!File -> Struct]
  BY <1>1, <1>3, <1>4
<1>6. Elsewhere({f})
  BY <1>5 DEF Elsewhere
<1>7. Refers(f) = {} /\ \A q \in Process : \A w \in In(todo[q]) : w \notin Owns(f)
  <2>1. /\ Refers(f) # {} => file[f].ref >= 1
        /\ \A q \in Process : \A w \in In(todo[q]) : w \in Owns(f) => file[f].ref >= 1
    BY RefBound DEF FilesInv
  <2> QED
    BY <2>1
<1>8. CalmFiles(p)
  <2>1. PICK F : F = {f}
    OBVIOUS
  <2>2. /\ Elsewhere(F)
        /\ \A g \in F : /\ Refers(g) = {}
                        /\ \A q \in Process : q # p => \A w \in In(todo[q]) : w \notin Owns(g)
    BY <1>6, <1>7, <2>1
  <2> QED
    BY <2>2, CalmPrivate DEF FilesInv
<1>9. Fresh(f)'
  BY <1>1, <1>3, <1>5 DEF Fresh
<1> QED
  BY <1>3, <1>5, <1>6, <1>7, <1>8, <1>9

LEMMA Alike ==
  ASSUME FilesInv, file' \in [Open!File -> Struct],
         \A g \in Open!File : /\ file'[g].type = file[g].type /\ file'[g].obj = file[g].obj
                              /\ file'[g].mode = file[g].mode /\ file'[g].off = file[g].off,
         \A g \in Open!File : file'[g].ref = 0 => file'[g].type = "none",
         UNCHANGED <<data, stored, openings>>
  PROVE  PipesAlike /\ NodesAlike /\ Numbered' /\ Kinds' /\ Sizes' /\ Written'
<1>1. PipesAlike /\ NodesAlike /\ Numbered' /\ Kinds' /\ Sizes'
  BY DEF FilesInv, PipesAlike, NodesAlike, Numbered, Kinds, Sizes
<1>2. Written'
  BY WrittenKept DEF FilesInv
<1> QED
  BY <1>1, <1>2

LEMMA AllocKeeps ==
  ASSUME FilesInv, NEW p \in Process, NEW w \in In(todo[p]), w.do \in {"open", "pipe0", "pipe1"},
         NEW a \in Instr, a.do \in {"openfd", "pipe1", "page"}, Swaps(p, {w}, {a}),
         NEW f \in Open!File, file[f].ref = 0, file' = [file EXCEPT ![f].ref = 1],
         UNCHANGED <<ofile, status, open, iref, holder, data, stored, openings>>,
         Good(p, a)',
         \A g \in Open!File : a \in Owns(g) <=> w \in Owns(g) \/ g = f,
         \A i \in Inode : a \in Puts(i) <=> w \in Puts(i)
  PROVE  FilesInv'
<1>1. PICK O, N : O = {w} /\ N = {a}
  OBVIOUS
<1>2. Trades(p, O, N) /\ Changes(p, O, N) /\ In(todo'[p]) = {a} /\ Forms'
  BY <1>1, SwapsTrade DEF Swaps, Changes
<1>3. status[p] = "runs"
  BY Runs DEF FilesInv
<1>4. Types'
  BY DEF FilesInv, Types
<1>5. \A g : Refers(g)' = Refers(g)
  BY <1>1, <1>2, RefersSame
<1>6. /\ CalmFiles(p) /\ file' \in [Open!File -> Struct] /\ w \notin Owns(f)
      /\ \A g \in Open!File : /\ file'[g].type = file[g].type /\ file'[g].obj = file[g].obj
                              /\ file'[g].mode = file[g].mode /\ file'[g].off = file[g].off
                              /\ file'[g].ref = IF g = f THEN 1 ELSE file[g].ref
  BY Allocated DEF Elsewhere
<1>7. \A g \in Open!File : file'[g].ref = 0 => file'[g].type = "none"
  BY <1>6 DEF FilesInv, Numbered
<1>8. PipesAlike /\ NodesAlike /\ Numbered' /\ Kinds' /\ Sizes' /\ Written'
  BY <1>6, <1>7, Alike
<1>9. RefsRight'
  <2>1. ASSUME NEW g \in Open!File
        PROVE  \E k, l, c, d \in Nat :
                 /\ k = Weight(O, Owns(g)) /\ l = Weight(N, Owns(g))
                 /\ c = Weight(O, Dups(g)) /\ d = Weight(N, Dups(g))
                 /\ file'[g].ref + d + Cardinality(Refers(g)) + k
                      = file[g].ref + c + Cardinality(Refers(g)') + l
    <3>1. Weight(O, Dups(g)) = 0 /\ Weight(N, Dups(g)) = 0
      BY <1>1, NoWeight DEF Dups
    <3>2. PICK k, l : k = Bit(w \in Owns(g)) /\ l = Bit(a \in Owns(g))
      OBVIOUS
    <3>3. k = Weight(O, Owns(g)) /\ l = Weight(N, Owns(g)) /\ k \in Nat /\ l \in Nat
      BY <1>1, <3>2, Weigh, BitType
    <3>4. PICK x, y, z : x = file[g].ref /\ y = file'[g].ref /\ z = Cardinality(Refers(g))
      OBVIOUS
    <3>5. x \in Nat /\ y \in Nat /\ z \in Nat /\ z = Cardinality(Refers(g)')
      BY <1>5, <1>6, <3>4, RefersFinite DEF FilesInv, Numbered, Struct
    <3>6. y + k = x + l
      <4>1. CASE g = f
        BY <1>6, <3>2, <3>4, <4>1 DEF Bit
      <4>2. CASE g # f
        BY <1>6, <3>2, <3>4, <3>5, <4>2 DEF Bit
      <4> QED
        BY <4>1, <4>2
    <3> QED
      BY <3>1, <3>3, <3>4, <3>5, <3>6
  <2> QED
    BY <1>2, <1>6, <2>1, RefsKept DEF FilesInv
<1>10. InodesRight'
  <2>1. ASSUME NEW i \in Inode PROVE \E k \in Nat : k = Weight(O, Puts(i)) /\ k = Weight(N, Puts(i))
    <3>1. Weight(O, Puts(i)) = Bit(w \in Puts(i)) /\ Weight(N, Puts(i)) = Bit(a \in Puts(i))
      BY <1>1, Weigh
    <3> QED
      BY <3>1, BitType DEF Bit
  <2> QED
    BY <1>2, <1>8, <2>1, InodesKept DEF FilesInv
<1>11. EndsRight'
  BY <1>1, <1>2, <1>8, EndsKept DEF FilesInv
<1>12. Calm(p)
  BY <1>6 DEF Calm
<1>13. Works' /\ Typed'
  BY <1>2, <1>5, <1>12, WorksKept, TypedKept DEF FilesInv
<1>14. Life'
  BY <1>2, <1>3, LifeKept DEF FilesInv
<1>15. Forks'
  BY <1>1, <1>2, ForksKept DEF FilesInv
<1> QED
  BY <1>2, <1>4, <1>8, <1>9, <1>10, <1>11, <1>13, <1>14, <1>15 DEF FilesInv

LEMMA OpenAllocKeeps ==
  ASSUME FilesInv, NEW p \in Process, Open!OpenAlloc(p) PROVE FilesInv'
<1>1. PICK w \in In(todo[p]) :
        /\ w \in Instr /\ w.do = "open"
        /\ UNCHANGED <<ofile, status, open, iref, holder, data, stored, openings>>
        /\ \/ file' = file /\ Swaps(p, {w}, {Open!Unlockput(w.i)})
           \/ \E f \in Open!File :
                /\ file[f].ref = 0 /\ file' = [file EXCEPT ![f].ref = 1]
                /\ Swaps(p, {w}, {[do |-> "openfd", f |-> f, i |-> w.i, mode |-> w.mode,
                                   trunc |-> w.trunc]})
  BY OpenAllocDoes DEF FilesInv
<1>2. w.i \in Inode /\ w.mode \in Open!Mode /\ w.trunc \in BOOLEAN /\ holder[w.i] = p
  BY <1>1, Fields DEF FilesInv, Works, Good, Locked
<1>3. ASSUME file' = file, Swaps(p, {w}, {Open!Unlockput(w.i)}) PROVE FilesInv'
  <2>1. PICK a : a = Open!Unlockput(w.i)
    OBVIOUS
  <2>2. a \in Instr /\ a.do = "unlockput" /\ a.i = w.i
    BY <1>2, <2>1, MakesLists, Within DEF Open!Unlockput
  <2>3. PICK N : N = {a}
    OBVIOUS
  <2>4. ASSUME NEW f \in Open!File PROVE Weight(N, Owns(f)) = Bit(w \in Owns(f))
    <3>1. a \notin Owns(f) /\ w \notin Owns(f)
      BY <1>1, <2>2, OwnsAre
    <3> QED
      BY <2>3, <3>1, Weigh DEF Bit
  <2>5. ASSUME NEW i \in Inode PROVE Weight(N, Puts(i)) = Bit(w \in Puts(i))
    <3>1. a \in Puts(i) <=> w \in Puts(i)
      BY <1>1, <2>2, PutsAre
    <3> QED
      BY <2>3, <3>1, Weigh DEF Bit
  <2>6. Swaps(p, {w}, N)
    BY <1>3, <2>1, <2>3
  <2>7. w.do \notin {"clear", "last", "dup"}
    BY <1>1
  <2>8. \A v \in N : v.do = "close" \/ (v.do = "unlockput" /\ holder[v.i] = p)
    BY <1>2, <2>2, <2>3
  <2> QED
    BY <1>1, <1>3, <2>4, <2>5, <2>6, <2>7, <2>8, GivesUp
<1>4. ASSUME NEW f \in Open!File, file[f].ref = 0, file' = [file EXCEPT ![f].ref = 1],
             Swaps(p, {w}, {[do |-> "openfd", f |-> f, i |-> w.i, mode |-> w.mode,
                             trunc |-> w.trunc]})
      PROVE  FilesInv'
  <2>1. PICK a : a = [do |-> "openfd", f |-> f, i |-> w.i, mode |-> w.mode, trunc |-> w.trunc]
    OBVIOUS
  <2>2. a \in Instr /\ a.do = "openfd" /\ a.i = w.i /\ a.f = f
    BY <1>2, <2>1, MakesOpen
  <2>3. Fresh(f)'
    BY <1>4, Allocated
  <2>4. holder'[a.i] = p
    BY <1>1, <1>2, <2>2
  <2>5. Good(p, a)'
    BY <2>2, <2>3, <2>4 DEF Good, Passed, Unready, Dupped, Moving, Locked, Still
  <2>6. \A g \in Open!File : a \in Owns(g) <=> w \in Owns(g) \/ g = f
    BY <1>1, <2>2, OwnsAre
  <2>7. \A i \in Inode : a \in Puts(i) <=> w \in Puts(i)
    BY <1>1, <2>2, PutsAre
  <2>8. Swaps(p, {w}, {a})
    BY <1>4, <2>1
  <2> QED
    BY <1>1, <1>4, <2>2, <2>5, <2>6, <2>7, <2>8, AllocKeeps
<1> QED
  BY <1>1, <1>3, <1>4

LEMMA PipeFile0Keeps ==
  ASSUME FilesInv, NEW p \in Process, Open!PipeFile0(p) PROVE FilesInv'
<1>1. PICK w \in In(todo[p]) :
        /\ w \in Instr /\ w.do = "pipe0"
        /\ UNCHANGED <<ofile, status, open, iref, holder, data, stored, openings>>
        /\ \/ file' = file /\ Swaps(p, {w}, {})
           \/ \E f \in Open!File :
                /\ file[f].ref = 0 /\ file' = [file EXCEPT ![f].ref = 1]
                /\ Swaps(p, {w}, {[do |-> "pipe1", r |-> f]})
  BY PipeFile0Does DEF FilesInv
<1>2. /\ \A f : w \notin Owns(f)
      /\ \A i : w \notin Puts(i)
  BY <1>1, OwnsAre, PutsAre
<1>3. ASSUME file' = file, Swaps(p, {w}, {}) PROVE FilesInv'
  <2>1. PICK N : N = {}
    OBVIOUS
  <2>2. /\ \A f \in Open!File : Weight(N, Owns(f)) = Bit(w \in Owns(f))
        /\ \A i \in Inode : Weight(N, Puts(i)) = Bit(w \in Puts(i))
    BY <1>2, <2>1, Weigh DEF Bit
  <2>3. Swaps(p, {w}, N)
    BY <1>3, <2>1
  <2> QED
    BY <1>1, <1>3, <2>1, <2>2, <2>3, GivesUp
<1>4. ASSUME NEW f \in Open!File, file[f].ref = 0, file' = [file EXCEPT ![f].ref = 1],
             Swaps(p, {w}, {[do |-> "pipe1", r |-> f]})
      PROVE  FilesInv'
  <2>1. PICK a : a = [do |-> "pipe1", r |-> f]
    OBVIOUS
  <2>2. a \in Instr /\ a.do = "pipe1" /\ a.r = f
    BY <2>1, MakesFiles
  <2>3. Fresh(f)'
    BY <1>4, Allocated
  <2>4. Good(p, a)'
    BY <2>2, <2>3 DEF Good, Passed, Unready, Dupped, Moving, Locked, Still
  <2>5. \A g \in Open!File : a \in Owns(g) <=> w \in Owns(g) \/ g = f
    BY <1>2, <2>2, OwnsAre
  <2>6. \A i \in Inode : a \in Puts(i) <=> w \in Puts(i)
    BY <1>2, <2>2, PutsAre
  <2>7. Swaps(p, {w}, {a})
    BY <1>4, <2>1
  <2> QED
    BY <1>1, <1>4, <2>2, <2>4, <2>5, <2>6, <2>7, AllocKeeps
<1> QED
  BY <1>1, <1>3, <1>4

LEMMA PipeFile1Keeps ==
  ASSUME FilesInv, NEW p \in Process, Open!PipeFile1(p) PROVE FilesInv'
<1>1. PICK w \in In(todo[p]) :
        /\ w \in Instr /\ w.do = "pipe1" /\ w.r \in Open!File
        /\ UNCHANGED <<ofile, status, open, iref, holder, data, stored, openings>>
        /\ \/ file' = file /\ Swaps(p, {w}, {Open!Close(w.r)})
           \/ \E f \in Open!File :
                /\ file[f].ref = 0 /\ file' = [file EXCEPT ![f].ref = 1]
                /\ Swaps(p, {w}, {[do |-> "page", r |-> w.r, w |-> f]})
  BY PipeFile1Does DEF FilesInv
<1>2. /\ \A f : w \in Owns(f) <=> w.r = f
      /\ \A i : w \notin Puts(i)
  BY <1>1, OwnsAre, PutsAre
<1>3. Fresh(w.r)
  BY <1>1 DEF FilesInv, Works, Good, Unready
<1>4. ASSUME file' = file, Swaps(p, {w}, {Open!Close(w.r)}) PROVE FilesInv'
  <2>1. PICK a : a = Open!Close(w.r)
    OBVIOUS
  <2>2. a \in Instr /\ a.do = "close" /\ a.f = w.r
    BY <1>1, <2>1, MakesLists, Within DEF Open!Close
  <2>3. PICK N : N = {a}
    OBVIOUS
  <2>4. \A f : a \in Owns(f) <=> w \in Owns(f)
    BY <1>2, <2>2, OwnsAre
  <2>5. \A i : a \notin Puts(i)
    BY <2>2, PutsAre
  <2>6. \A f \in Open!File : Weight(N, Owns(f)) = Bit(w \in Owns(f))
    BY <2>3, <2>4, Weigh DEF Bit
  <2>7. \A i \in Inode : Weight(N, Puts(i)) = Bit(w \in Puts(i))
    BY <1>2, <2>3, <2>5, Weigh DEF Bit
  <2>8. Swaps(p, {w}, N)
    BY <1>4, <2>1, <2>3
  <2>9. w.do \notin {"clear", "last", "dup"}
    BY <1>1
  <2>10. \A v \in N : v.do = "close" \/ (v.do = "unlockput" /\ holder[v.i] = p)
    BY <2>2, <2>3
  <2> QED
    BY <1>1, <1>4, <2>6, <2>7, <2>8, <2>9, <2>10, GivesUp
<1>5. ASSUME NEW f \in Open!File, file[f].ref = 0, file' = [file EXCEPT ![f].ref = 1],
             Swaps(p, {w}, {[do |-> "page", r |-> w.r, w |-> f]})
      PROVE  FilesInv'
  <2>1. PICK a : a = [do |-> "page", r |-> w.r, w |-> f]
    OBVIOUS
  <2>2. a \in Instr /\ a.do = "page" /\ a.r = w.r /\ a.w = f
    BY <1>1, <2>1, MakesFiles
  <2>3. w.r # f
    BY <1>3, <1>5 DEF Fresh
  <2>4. Fresh(f)' /\ Fresh(w.r)'
    <3>1. Fresh(f)'
      BY <1>5, Allocated
    <3>2. file'[w.r] = file[w.r]
      BY <1>1, <1>5, <2>3, Allocated DEF Elsewhere
    <3> QED
      BY <1>3, <3>1, <3>2 DEF Fresh
  <2>5. Good(p, a)'
    BY <2>2, <2>3, <2>4 DEF Good, Passed, Unready, Dupped, Moving, Locked, Still
  <2>6. \A g \in Open!File : a \in Owns(g) <=> w \in Owns(g) \/ g = f
    BY <1>2, <2>2, OwnsAre
  <2>7. \A i \in Inode : a \in Puts(i) <=> w \in Puts(i)
    BY <1>2, <2>2, PutsAre
  <2>8. Swaps(p, {w}, {a})
    BY <1>5, <2>1
  <2> QED
    BY <1>1, <1>5, <2>2, <2>5, <2>6, <2>7, <2>8, AllocKeeps
<1> QED
  BY <1>1, <1>4, <1>5

(* A descriptor that refers to f more, or less.                            *)
LEMMA NoMore ==
  ASSUME NEW f,
         \A q \in Process, e \in Open!Fd :
           (ofile'[q][e] = f /\ Clear(e) \notin In(todo'[q])) <=> (ofile[q][e] = f /\ Clear(e) \notin In(todo[q]))
  PROVE  Refers(f)' = Refers(f)
BY DEF Refers

LEMMA OneMore ==
  ASSUME NEW f, NEW p \in Process, NEW d \in Open!Fd,
         ofile'[p][d] = f, Clear(d) \notin In(todo'[p]), ofile[p][d] # f \/ Clear(d) \in In(todo[p]),
         \A q \in Process, e \in Open!Fd : q # p \/ e # d =>
           ((ofile'[q][e] = f /\ Clear(e) \notin In(todo'[q])) <=> (ofile[q][e] = f /\ Clear(e) \notin In(todo[q])))
  PROVE  Cardinality(Refers(f)') = Cardinality(Refers(f)) + 1
<1>1. PICK S, A, B, t : S = Process \X Open!Fd /\ A = Refers(f) /\ B = Refers(f)' /\ t = <<p, d>>
  OBVIOUS
<1>2. A \subseteq S /\ B \subseteq S /\ t \notin A /\ t \in B
  BY <1>1 DEF Refers
<1>3. ASSUME NEW x \in S, x # t PROVE x \in A <=> x \in B
  <2>1. PICK q \in Process, e \in Open!Fd : x = <<q, e>> /\ (q # p \/ e # d)
    BY <1>1, <1>3
  <2> QED
    BY <1>1, <2>1 DEF Refers
<1>4. IsFiniteSet(S) /\ Cardinality(A) \in Nat /\ Cardinality(B) \in Nat
  <2>1. IsFiniteSet(S)
    BY <1>1, RefersFinite
  <2> QED
    BY <1>2, <2>1, SetCount
<1>5. Cardinality(B) + Bit(t \in A) = Cardinality(A) + Bit(t \in B)
  BY <1>2, <1>3, <1>4, OneChanges
<1>6. Bit(t \in A) = 0 /\ Bit(t \in B) = 1
  BY <1>2 DEF Bit
<1> QED
  BY <1>1, <1>4, <1>5, <1>6

LEMMA OneFewer ==
  ASSUME NEW f, NEW p \in Process, NEW d \in Open!Fd,
         ofile[p][d] = f, Clear(d) \notin In(todo[p]), ofile'[p][d] # f \/ Clear(d) \in In(todo'[p]),
         \A q \in Process, e \in Open!Fd : q # p \/ e # d =>
           ((ofile'[q][e] = f /\ Clear(e) \notin In(todo'[q])) <=> (ofile[q][e] = f /\ Clear(e) \notin In(todo[q])))
  PROVE  Cardinality(Refers(f)) = Cardinality(Refers(f)') + 1
<1>1. PICK S, A, B, t : S = Process \X Open!Fd /\ A = Refers(f) /\ B = Refers(f)' /\ t = <<p, d>>
  OBVIOUS
<1>2. A \subseteq S /\ B \subseteq S /\ t \in A /\ t \notin B
  BY <1>1 DEF Refers
<1>3. ASSUME NEW x \in S, x # t PROVE x \in A <=> x \in B
  <2>1. PICK q \in Process, e \in Open!Fd : x = <<q, e>> /\ (q # p \/ e # d)
    BY <1>1, <1>3
  <2> QED
    BY <1>1, <2>1 DEF Refers
<1>4. IsFiniteSet(S) /\ Cardinality(A) \in Nat /\ Cardinality(B) \in Nat
  <2>1. IsFiniteSet(S)
    BY <1>1, RefersFinite
  <2> QED
    BY <1>2, <2>1, SetCount
<1>5. Cardinality(B) + Bit(t \in A) = Cardinality(A) + Bit(t \in B)
  BY <1>2, <1>3, <1>4, OneChanges
<1>6. Bit(t \in A) = 1 /\ Bit(t \in B) = 0
  BY <1>2 DEF Bit
<1> QED
  BY <1>1, <1>4, <1>5, <1>6

(* Two files are given up by one that has both.                            *)
LEMMA GivesTwo ==
  ASSUME FilesInv, NEW p \in Process, NEW w \in In(todo[p]), w.do \in {"page", "pipefds"}, w.r # w.w,
         Swaps(p, {w}, {Open!Close(w.r), Open!Close(w.w)}),
         UNCHANGED <<file, ofile, status, open, iref, holder, data, stored, openings>>
  PROVE  FilesInv'
<1>1. w \in Instr
  BY SoleOf DEF FilesInv
<1>2. w.r \in Open!File /\ w.w \in Open!File
  BY <1>1, Fields
<1>3. PICK a, b : a = Open!Close(w.r) /\ b = Open!Close(w.w)
  OBVIOUS
<1>4. a \in Instr /\ a.do = "close" /\ a.f = w.r /\ b \in Instr /\ b.do = "close" /\ b.f = w.w
  BY <1>2, <1>3, MakesLists, Within DEF Open!Close
<1>5. a # b
  BY <1>4
<1>6. PICK N : N = {a, b}
  OBVIOUS
<1>7. ASSUME NEW f \in Open!File PROVE Weight(N, Owns(f)) = Bit(w \in Owns(f))
  <2>1. Weight(N, Owns(f)) = Bit(a \in Owns(f)) + Bit(b \in Owns(f))
    BY <1>5, <1>6, Weigh2
  <2>2. /\ a \in Owns(f) <=> w.r = f
        /\ b \in Owns(f) <=> w.w = f
        /\ w \in Owns(f) <=> w.r = f \/ w.w = f
    BY <1>1, <1>4, OwnsAre
  <2> QED
    BY <2>1, <2>2 DEF Bit
<1>8. ASSUME NEW i \in Inode PROVE Weight(N, Puts(i)) = Bit(w \in Puts(i))
  <2>1. a \notin Puts(i) /\ b \notin Puts(i) /\ w \notin Puts(i)
    BY <1>1, <1>4, PutsAre
  <2>2. Weight(N, Puts(i)) = 0
    BY <1>6, <2>1, NoWeight
  <2> QED
    BY <2>1, <2>2 DEF Bit
<1>9. /\ w.do \notin {"clear", "last", "dup"} /\ Swaps(p, {w}, N)
      /\ \A v \in N : v.do = "close" \/ (v.do = "unlockput" /\ holder[v.i] = p)
  BY <1>3, <1>4, <1>6
<1> QED
  BY <1>7, <1>8, <1>9, GivesUp

LEMMA PipePageKeeps ==
  ASSUME FilesInv, NEW p \in Process, Open!PipePage(p) PROVE FilesInv'
<1>1. PICK w \in In(todo[p]) :
        /\ w \in Instr /\ w.do = "page" /\ w.r \in Open!File /\ w.w \in Open!File /\ w.r # w.w
        /\ UNCHANGED <<ofile, status, iref, holder, data, stored, openings>>
        /\ \/ /\ UNCHANGED <<file, open>>
              /\ Swaps(p, {w}, {Open!Close(w.r), Open!Close(w.w)})
           \/ \E k \in Page :
                /\ open[k] = {} /\ open' = [open EXCEPT ![k] = {"r", "w"}]
                /\ Elsewhere({w.r, w.w})
                /\ file'[w.r] = [file[w.r] EXCEPT !.type = "pipe", !.obj = k, !.mode = "r"]
                /\ file'[w.w] = [file[w.w] EXCEPT !.type = "pipe", !.obj = k, !.mode = "w"]
                /\ Swaps(p, {w}, {[do |-> "pipefds", r |-> w.r, w |-> w.w]})
  BY PipePageDoes DEF FilesInv
<1>2. CASE UNCHANGED <<file, open>> /\ Swaps(p, {w}, {Open!Close(w.r), Open!Close(w.w)})
  BY <1>1, <1>2, GivesTwo
<1>3. ASSUME NEW k \in Page, open[k] = {}, open' = [open EXCEPT ![k] = {"r", "w"}],
             Elsewhere({w.r, w.w}),
             file'[w.r] = [file[w.r] EXCEPT !.type = "pipe", !.obj = k, !.mode = "r"],
             file'[w.w] = [file[w.w] EXCEPT !.type = "pipe", !.obj = k, !.mode = "w"],
             Swaps(p, {w}, {[do |-> "pipefds", r |-> w.r, w |-> w.w]})
      PROVE  FilesInv'
  <2>1. PICK c : c = [do |-> "pipefds", r |-> w.r, w |-> w.w]
    OBVIOUS
  <2>2. c \in Instr /\ c.do = "pipefds" /\ c.r = w.r /\ c.w = w.w
    BY <1>1, <2>1, MakesFiles
  <2>3. PICK O, N, F : O = {w} /\ N = {c} /\ F = {w.r, w.w}
    OBVIOUS
  <2>4. Trades(p, O, N) /\ Changes(p, O, N) /\ In(todo'[p]) = {c} /\ Forms'
    BY <1>3, <2>1, <2>3, SwapsTrade DEF Swaps, Changes
  <2>5. status[p] = "runs"
    BY Runs DEF FilesInv
  <2>6. Types'
    BY <1>1, <1>3 DEF FilesInv, Types
  <2>7. Fresh(w.r) /\ Fresh(w.w)
    BY <1>1 DEF FilesInv, Works, Good, Unready
  <2>8. file[w.r] \in Struct /\ file[w.w] \in Struct
    BY <1>1 DEF FilesInv, Numbered
  <2>9. /\ file'[w.r].type = "pipe" /\ file'[w.r].obj = k /\ file'[w.r].mode = "r"
        /\ file'[w.r].ref = 1 /\ file'[w.r].off = file[w.r].off
    BY <1>3, <2>7, <2>8 DEF Struct, Fresh
  <2>10. /\ file'[w.w].type = "pipe" /\ file'[w.w].obj = k /\ file'[w.w].mode = "w"
         /\ file'[w.w].ref = 1 /\ file'[w.w].off = file[w.w].off
    BY <1>3, <2>7, <2>8 DEF Struct, Fresh
  <2>11. /\ file' \in [Open!File -> Struct]
         /\ \A g \in Open!File : g \notin F => file'[g] = file[g]
    BY <1>3, <2>3 DEF Elsewhere
  <2>12. \A f : Refers(f)' = Refers(f)
    BY <1>1, <2>2, <2>3, <2>4, RefersSame
  <2>13. Calm(p)
    <3>1. ASSUME NEW f \in F
          PROVE  /\ Refers(f) = {}
                 /\ \A q \in Process : q # p => \A v \in In(todo[q]) : v \notin Owns(f)
      <4>1. f \in Open!File /\ file[f].ref = 1 /\ w \in Owns(f)
        BY <1>1, <2>3, <2>7, <3>1, OwnsAre DEF Fresh
      <4> QED
        BY <4>1, Private DEF FilesInv
    <3>2. Elsewhere(F)
      BY <1>3, <2>3
    <3>3. CalmFiles(p)
      BY <3>1, <3>2, CalmPrivate DEF FilesInv
    <3> QED
      BY <1>1, <3>3 DEF Calm
  <2>14. Good(p, c)'
    BY <1>1, <2>2, <2>9, <2>10 DEF Good, Passed, Unready, Dupped, Moving, Locked, Still
  <2>15. Works' /\ Typed'
    BY <2>4, <2>12, <2>13, <2>14, WorksKept, TypedKept DEF FilesInv
  <2>16. Numbered' /\ Kinds' /\ Sizes'
    <3>1. \A g \in Open!File : /\ file'[g].ref = 0 => file'[g].type = "none"
                               /\ file'[g].off <= MaxSize
      <4>1. \A g \in Open!File : (file[g].ref = 0 => file[g].type = "none") /\ file[g].off <= MaxSize
        BY DEF FilesInv, Numbered, Sizes
      <4>2. /\ file'[w.r].ref = 1 /\ file'[w.r].off <= MaxSize
            /\ file'[w.w].ref = 1 /\ file'[w.w].off <= MaxSize
        BY <1>1, <2>9, <2>10, <4>1
      <4>3. \A g \in Open!File : g = w.r \/ g = w.w \/ file'[g] = file[g]
        BY <2>3, <2>11
      <4> QED
        BY <4>1, <4>2, <4>3
    <3>2. Numbered'
      BY <2>11, <3>1 DEF Numbered
    <3>3. Kinds'
      BY <1>1 DEF FilesInv, Kinds
    <3>4. Sizes'
      BY <1>1, <3>1 DEF FilesInv, Sizes
    <3> QED
      BY <3>2, <3>3, <3>4
  <2>17. Written'
    BY <1>1, <2>3, <2>9, <2>10, <2>11, WrittenKept DEF FilesInv
  <2>18. Life'
    BY <1>1, <2>4, <2>5, LifeKept DEF FilesInv
  <2>19. Forks'
    BY <1>1, <2>2, <2>3, <2>4, ForksKept DEF FilesInv
  <2>20. RefsRight'
    <3>1. ASSUME NEW f \in Open!File
          PROVE  \E a, b \in Nat : /\ a = Weight(O, Owns(f)) /\ a = Weight(N, Owns(f))
                                   /\ b = Weight(O, Dups(f)) /\ b = Weight(N, Dups(f))
      <4>1. /\ w \in Owns(f) <=> c \in Owns(f)
            /\ w \notin Dups(f) /\ c \notin Dups(f)
        BY <1>1, <2>2, OwnsAre
      <4>2. PICK a : a = Bit(w \in Owns(f))
        OBVIOUS
      <4>3. a = Weight(O, Owns(f)) /\ a = Weight(N, Owns(f)) /\ a \in Nat
        BY <2>3, <4>1, <4>2, Weigh, BitType DEF Bit
      <4>4. Weight(O, Dups(f)) = 0 /\ Weight(N, Dups(f)) = 0
        BY <2>3, <4>1, NoWeight
      <4> QED
        BY <4>3, <4>4
    <3>2. \A f \in Open!File : file'[f].ref = file[f].ref
      BY <2>3, <2>7, <2>9, <2>10, <2>11 DEF Fresh
    <3> QED
      BY <2>4, <2>11, <2>12, <3>1, <3>2, RefsTraded DEF FilesInv
  <2>21. InodesRight'
    <3>1. NodesAlike
      BY <2>3, <2>7, <2>9, <2>10, <2>11 DEF NodesAlike, Fresh
    <3> QED
      BY <1>1, <2>2, <2>3, <2>4, <3>1, InodesNeutral DEF FilesInv
  <2>22. EndsRight'
    <3>1. ASSUME NEW j \in Page, NEW end \in {"r", "w"}
          PROVE  Cardinality(Piped(j, end)') + Count(todo', Ends(j, end)) = Bit(end \in open'[j])
      <4>1. Weight(O, Ends(j, end)) = 0
        BY ZenonT(60), <1>1, <2>3, NoWeight DEF Ends
      <4>2. Weight(N, Ends(j, end)) = 0
        BY <2>2, <2>3, NoWeight DEF Ends
      <4>3. PICK m \in Nat, n \in Nat : m = Count(todo, Ends(j, end)) /\ n = Count(todo', Ends(j, end))
        BY <2>4, WhereFinite DEF FilesInv, Forms
      <4>4. n = m
        <5>1. n + 0 = m + 0
          BY <2>4, <4>1, <4>2, <4>3 DEF Changes
        <5> QED
          BY <5>1
      <4>5. Cardinality(Piped(j, end)) + m = Bit(end \in open[j])
        BY <4>3 DEF FilesInv, EndsRight
      <4>6. CASE j # k
        <5>1. Piped(j, end)' = Piped(j, end)
          BY <2>3, <2>7, <2>9, <2>10, <2>11, <4>6 DEF Piped, Fresh
        <5>2. open'[j] = open[j]
          BY <1>3, <4>6 DEF FilesInv, Types
        <5> QED
          BY <4>3, <4>4, <4>5, <5>1, <5>2
      <4>7. CASE j = k
        <5>1. Piped(j, end) \subseteq Open!File
          BY DEF Piped
        <5>2. IsFiniteSet(Piped(j, end)) /\ Cardinality(Piped(j, end)) \in Nat
          BY <5>1, FilesFinite
        <5>3. Bit(end \in open[j]) = 0 /\ open'[j] = {"r", "w"}
          BY <1>3, <4>7 DEF FilesInv, Types, Bit
        <5>4. m = 0 /\ Cardinality(Piped(j, end)) = 0
          BY <4>5, <5>2, <5>3
        <5>5. Piped(j, end) = {}
          BY <5>2, <5>4, FS_EmptySet
        <5>6. PICK f : f = IF end = "r" THEN w.r ELSE w.w
          OBVIOUS
        <5>7. ASSUME NEW g \in Open!File, g \notin F PROVE g \notin Piped(j, end)'
          BY <2>11, <5>5, <5>7 DEF Piped
        <5>8. Piped(j, end)' = {f}
          BY ZenonT(60), <1>1, <2>3, <2>9, <2>10, <4>7, <5>6, <5>7 DEF Piped
        <5>9. Cardinality(Piped(j, end)') = 1
          BY <5>8, FS_Singleton
        <5> QED
          BY <4>3, <4>4, <5>3, <5>4, <5>9 DEF Bit
      <4> QED
        BY <4>6, <4>7
    <3> QED
      BY <3>1 DEF EndsRight
  <2> QED
    BY <2>4, <2>6, <2>15, <2>16, <2>17, <2>18, <2>19, <2>20, <2>21, <2>22 DEF FilesInv
<1> QED
  BY <1>1, <1>2, <1>3

LEMMA PipeFdsKeeps ==
  ASSUME FilesInv, NEW p \in Process, Open!PipeFds(p) PROVE FilesInv'
<1>1. PICK w \in In(todo[p]) :
        /\ w \in Instr /\ w.do = "pipefds" /\ w.r \in Open!File /\ w.w \in Open!File /\ w.r # w.w
        /\ UNCHANGED <<file, status, open, iref, holder, data, stored, openings>>
        /\ \/ ofile' = ofile /\ Swaps(p, {w}, {Open!Close(w.r), Open!Close(w.w)})
           \/ \E d, e \in Open!Fd :
                /\ d # e /\ ofile[p][d] = Nothing /\ ofile[p][e] = Nothing
                /\ ofile' = [ofile EXCEPT ![p][d] = w.r, ![p][e] = w.w]
                /\ Swaps(p, {w}, {})
  BY PipeFdsDoes DEF FilesInv
<1>2. CASE ofile' = ofile /\ Swaps(p, {w}, {Open!Close(w.r), Open!Close(w.w)})
  BY <1>1, <1>2, GivesTwo
<1>3. ASSUME NEW d \in Open!Fd, NEW e \in Open!Fd, d # e, ofile[p][d] = Nothing, ofile[p][e] = Nothing,
             ofile' = [ofile EXCEPT ![p][d] = w.r, ![p][e] = w.w], Swaps(p, {w}, {})
      PROVE  FilesInv'
  <2>1. PICK O, N : O = {w} /\ N = {}
    OBVIOUS
  <2>2. /\ Trades(p, O, N) /\ Changes(p, O, N) /\ Forms'
        /\ In(todo[p]) = {w} /\ In(todo'[p]) = {} /\ \A q \in Process : q # p => todo'[q] = todo[q]
    BY <1>3, <2>1, SwapsTrade DEF Swaps, Changes
  <2>3. status[p] = "runs"
    BY Runs DEF FilesInv
  <2>4. ofile \in [Process -> [Open!Fd -> Open!File \cup {Nothing}]]
    BY DEF FilesInv, Types
  <2>5. /\ ofile' \in [Process -> [Open!Fd -> Open!File \cup {Nothing}]]
        /\ ofile'[p][d] = w.r /\ ofile'[p][e] = w.w
        /\ \A q \in Process : q # p => ofile'[q] = ofile[q]
        /\ \A c \in Open!Fd : c # d /\ c # e => ofile'[p][c] = ofile[p][c]
    BY <1>1, <1>3, <2>4
  <2>6. Types'
    BY <1>1, <2>5 DEF FilesInv, Types
  <2>7. Nothing \notin Open!File
    BY Finite DEF Open!File
  <2>8. \A c : Clear(c) \notin In(todo[p]) /\ Clear(c) \notin In(todo'[p])
    BY <1>1, <2>2, ClearDo
  <2>9. ASSUME NEW f \in Open!File, f # w.r, f # w.w PROVE Refers(f)' = Refers(f)
    <3>1. \A q \in Process, c \in Open!Fd : ofile'[q][c] = f <=> ofile[q][c] = f
      BY <1>3, <2>5, <2>7, <2>9
    <3>2. \A q \in Process, c \in Open!Fd : Clear(c) \in In(todo'[q]) <=> Clear(c) \in In(todo[q])
      BY <2>2, <2>8
    <3> QED
      BY <3>1, <3>2, NoMore
  <2>10. ASSUME NEW f \in {w.r, w.w} PROVE Cardinality(Refers(f)') = Cardinality(Refers(f)) + 1
    <3>1. PICK c : c = IF f = w.r THEN d ELSE e
      OBVIOUS
    <3>2. /\ c \in Open!Fd /\ ofile'[p][c] = f /\ ofile[p][c] # f /\ f \in Open!File
          /\ Clear(c) \notin In(todo'[p])
      BY <1>1, <1>3, <2>5, <2>7, <2>8, <3>1
    <3>3. \A q \in Process, a \in Open!Fd : q # p \/ a # c => (ofile'[q][a] = f <=> ofile[q][a] = f)
      BY <1>1, <1>3, <2>5, <2>7, <3>1, <3>2
    <3>4. \A q \in Process, a \in Open!Fd : Clear(a) \in In(todo'[q]) <=> Clear(a) \in In(todo[q])
      BY <2>2, <2>8
    <3> QED
      BY <3>2, <3>3, <3>4, OneMore
  <2>11. file' \in [Open!File -> Struct]
    BY <1>1 DEF FilesInv, Numbered
  <2>12. RefsRight'
    <3>1. ASSUME NEW f \in Open!File
          PROVE  \E k, l, m, n \in Nat :
                   /\ k = Weight(O, Owns(f)) /\ l = Weight(N, Owns(f))
                   /\ m = Weight(O, Dups(f)) /\ n = Weight(N, Dups(f))
                   /\ file'[f].ref + n + Cardinality(Refers(f)) + k
                        = file[f].ref + m + Cardinality(Refers(f)') + l
      <4>1. Weight(O, Dups(f)) = 0 /\ Weight(N, Dups(f)) = 0 /\ Weight(N, Owns(f)) = 0
        BY <1>1, <2>1, NoWeight DEF Dups
      <4>2. PICK k : k = Bit(w \in Owns(f))
        OBVIOUS
      <4>3. k = Weight(O, Owns(f)) /\ k \in Nat
        BY <2>1, <4>2, Weigh, BitType
      <4>4. PICK x, z : x = file[f].ref /\ z = Cardinality(Refers(f))
        OBVIOUS
      <4>5. x \in Nat /\ z \in Nat /\ file'[f].ref = x
        BY <1>1, <4>4, RefersFinite DEF FilesInv, Numbered, Struct
      <4>6. Cardinality(Refers(f)') = z + k
        <5>1. CASE f \in {w.r, w.w}
          <6>1. w \in Owns(f)
            BY <1>1, <5>1, OwnsAre
          <6> QED
            BY <2>10, <4>2, <4>4, <5>1, <6>1 DEF Bit
        <5>2. CASE f \notin {w.r, w.w}
          <6>1. w \notin Owns(f)
            BY <1>1, <5>2, OwnsAre
          <6> QED
            BY <2>9, <4>2, <4>4, <4>5, <5>2, <6>1 DEF Bit
        <5> QED
          BY <5>1, <5>2
      <4> QED
        BY <4>1, <4>3, <4>4, <4>5, <4>6
    <3> QED
      BY <2>2, <2>11, <3>1, RefsKept DEF FilesInv
  <2>13. PipesAlike /\ NodesAlike /\ Numbered' /\ Kinds' /\ Sizes' /\ Written'
    BY <1>1, FilesSame DEF FilesInv
  <2>14. EndsRight' /\ InodesRight'
    BY <1>1, <2>1, <2>2, <2>13, EndsKept, InodesNeutral DEF FilesInv
  <2>15. Calm(p)
    BY <1>1, <2>5, CalmSame DEF Calm, FilesInv
  <2>16. Works'
    BY <2>2, <2>15, WorksKept DEF FilesInv
  <2>17. Typed'
    <3>1. file[w.r].type # "none" /\ file[w.w].type # "none"
      BY <1>1 DEF FilesInv, Works, Good, Unready
    <3>2. ASSUME NEW f \in Open!File, Refers(f)' # {} PROVE file'[f].type # "none"
      BY <1>1, <2>9, <3>1, <3>2 DEF FilesInv, Typed
    <3> QED
      BY <3>2 DEF Typed
  <2>18. Life'
    <3>1. \A q \in Process : status[q] = "unused" => ofile'[q] = ofile[q]
      BY <2>3, <2>5
    <3> QED
      BY <1>1, <2>2, <2>3, <3>1, LifeKept DEF FilesInv
  <2>19. Forks'
    <3>1. \A c \in Process : status[c] = "embryo" => status'[c] = "embryo" /\ ofile'[c] = ofile[c]
      BY <1>1, <2>3, <2>5
    <3> QED
      BY <2>1, <2>2, <3>1, ForksKept DEF FilesInv
  <2> QED
    BY <2>2, <2>6, <2>12, <2>13, <2>14, <2>16, <2>17, <2>18, <2>19 DEF FilesInv
<1> QED
  BY <1>1, <1>2, <1>3

(* What open() with O_TRUNC, or for writing, makes of the file.            *)
LEMMA OpenWritten ==
  ASSUME Written, Kinds, Numbered, NEW f \in Open!File, file[f].type = "none", NEW i \in Inode,
         NEW mode \in Open!Mode, NEW trunc \in BOOLEAN, trunc => i \notin Device,
         Elsewhere({f}), file'[f].type = IF i \in Device THEN "device" ELSE "inode",
         file'[f].obj = i, file'[f].mode = mode, i \notin Device => file'[f].off = 0,
         data' = [data EXCEPT ![i] = IF trunc THEN <<>> ELSE @],
         openings' = [openings EXCEPT ![i] = IF trunc \/ mode # "r" THEN @ + 1 ELSE @],
         stored' = stored
  PROVE  Written' /\ Kinds'
<1>1. /\ data \in [Inode -> Seq(Process)] /\ openings \in [Inode -> Nat]
      /\ stored \in [Inode -> [Process -> Nat]]
  BY DEF Kinds
<1>2. /\ data'[i] = IF trunc THEN <<>> ELSE data[i]
      /\ openings'[i] = IF trunc \/ mode # "r" THEN openings[i] + 1 ELSE openings[i]
      /\ \A j \in Inode : j # i => data'[j] = data[j] /\ openings'[j] = openings[j]
      /\ \A j \in Inode : openings'[j] \in Nat /\ openings[j] \in Nat
  BY <1>1
<1>3. Kinds'
  <2>1. <<>> \in Seq(Process)
    OBVIOUS
  <2>2. data' \in [Inode -> Seq(Process)]
    BY <1>1, <2>1
  <2>3. openings' \in [Inode -> Nat]
    BY <1>1
  <2> QED
    BY <1>1, <2>2, <2>3 DEF Kinds
<1>4. \A g \in Open!File : g # f => file'[g] = file[g]
  BY DEF Elsewhere
<1>5. ASSUME NEW j \in Inode, j # i \/ i \in Device \/ mode = "r"
      PROVE  Writers(j)' \subseteq Writers(j) /\ \A g \in Writers(j)' : file'[g].off = file[g].off
  <2>1. ASSUME NEW g \in Writers(j)' PROVE g # f /\ g \in Open!File
    BY <1>5, <2>1 DEF Writers
  <2>2. ASSUME NEW g \in Writers(j)' PROVE g \in Writers(j) /\ file'[g].off = file[g].off
    BY <1>4, <2>1, <2>2 DEF Writers
  <2> QED
    BY <2>2
<1>6. ASSUME NEW j \in Inode, j # i PROVE WrittenAt(j)'
  <2>1. WrittenAt(j)
    BY DEF Written
  <2>2. Writers(j)' \subseteq Writers(j) /\ \A g \in Writers(j)' : file'[g].off = file[g].off
    BY <1>5, <1>6
  <2>3. data'[j] = data[j] /\ stored'[j] = stored[j] /\ openings'[j] \in Nat /\ openings'[j] >= openings[j]
    BY <1>2, <1>6
  <2> QED
    BY <2>1, <2>2, <2>3, WrittenAtKept
<1>7. WrittenAt(i)'
  <2>1. WrittenAt(i)
    BY DEF Written
  <2>2. PICK m \in Nat, n \in Nat : m = openings[i] /\ n = openings'[i]
    BY <1>2
  <2>3. CASE ~trunc /\ (mode = "r" \/ i \in Device)
    <3>1. Writers(i)' \subseteq Writers(i) /\ \A g \in Writers(i)' : file'[g].off = file[g].off
      BY <1>5, <2>3
    <3>2. data'[i] = data[i] /\ stored'[i] = stored[i] /\ openings'[i] \in Nat /\ openings'[i] >= openings[i]
      BY <1>2, <2>3
    <3> QED
      BY <2>1, <3>1, <3>2, WrittenAtKept
  <2>4. CASE i \notin Device /\ (trunc \/ mode # "r")
    <3>1. n = m + 1
      BY <1>2, <2>2, <2>4
    <3>2. Writers(i)' \subseteq Writers(i) \cup {f}
      BY <1>4 DEF Writers
    <3>3. Writers(i) \subseteq Open!File
      BY DEF Writers
    <3>4. IsFiniteSet(Writers(i)) /\ Cardinality(Writers(i)) \in Nat
      BY <3>3, FilesFinite
    <3>5. Cardinality(Writers(i)) <= m
      BY <2>1, <2>2 DEF WrittenAt
    <3>6. Cardinality(Writers(i)') <= n
      <4>1. PICK A, B, C : A = Writers(i) /\ B = Writers(i)' /\ C = A \cup {f}
        OBVIOUS
      <4>2. IsFiniteSet(C) /\ Cardinality(C) \in Nat /\ Cardinality(C) <= Cardinality(A) + 1
        <5>1. IsFiniteSet(A) /\ Cardinality(A) \in Nat
          BY <3>4, <4>1
        <5>2. /\ IsFiniteSet(A \cup {f})
              /\ Cardinality(A \cup {f}) = IF f \in A THEN Cardinality(A) ELSE Cardinality(A) + 1
          BY <5>1, FS_AddElement
        <5> QED
          BY <4>1, <5>1, <5>2
      <4>3. Cardinality(B) <= Cardinality(C) /\ Cardinality(B) \in Nat
        BY <3>2, <4>1, <4>2, FS_Subset, FS_CardinalityType
      <4> QED
        BY <3>1, <3>4, <3>5, <4>1, <4>2, <4>3
    <3>7. ASSUME n <= 1
          PROVE  /\ \A g \in Writers(i)' : file'[g].off = Len(data'[i])
                 /\ \A q \in Process : Cardinality(Units(i, q)') = stored'[i][q]
      <4>1. m = 0
        BY <3>1, <3>7
      <4>2. data[i] = <<>> /\ \A q \in Process : stored[i][q] = 0
        BY <2>1, <2>2, <4>1 DEF WrittenAt
      <4>3. Writers(i) = {}
        BY <3>4, <3>5, <4>1, FS_EmptySet
      <4>4. data'[i] = <<>>
        BY <1>2, <4>2
      <4>5. Len(data'[i]) = 0
        BY <4>4
      <4>6. \A g \in Writers(i)' : file'[g].off = 0
        BY <2>4, <3>2, <4>3
      <4>7. ASSUME NEW q \in Process PROVE Cardinality(Units(i, q)') = 0
        <5>1. Units(i, q)' = {}
          BY <4>5 DEF Units
        <5> QED
          BY <5>1, FS_EmptySet
      <4> QED
        BY <4>2, <4>5, <4>6, <4>7
    <3> QED
      BY <2>2, <3>1, <3>6, <3>7 DEF WrittenAt
  <2> QED
    BY <2>3, <2>4
<1>8. Written'
  BY <1>6, <1>7 DEF Written
<1> QED
  BY <1>3, <1>8

LEMMA OpenFdKeeps ==
  ASSUME FilesInv, NEW p \in Process, Open!OpenFd(p) PROVE FilesInv'
<1>1. PICK w \in In(todo[p]) :
        /\ w \in Instr /\ w.do = "openfd" /\ w.f \in Open!File /\ w.i \in Inode
        /\ w.mode \in Open!Mode /\ w.trunc \in BOOLEAN
        /\ UNCHANGED <<status, open, iref, stored>>
        /\ \/ /\ UNCHANGED <<file, ofile, holder, data, openings>>
              /\ Swaps(p, {w}, {Open!Close(w.f), Open!Unlockput(w.i)})
           \/ \E e \in Open!Fd :
                /\ ofile[p][e] = Nothing /\ ofile' = [ofile EXCEPT ![p][e] = w.f]
                /\ Elsewhere({w.f}) /\ file'[w.f].ref = file[w.f].ref
                /\ file'[w.f].type = IF w.i \in Device THEN "device" ELSE "inode"
                /\ file'[w.f].obj = w.i /\ file'[w.f].mode = w.mode
                /\ file'[w.f].off = IF w.i \in Device THEN file[w.f].off ELSE 0
                /\ data' = [data EXCEPT ![w.i] = IF w.trunc /\ w.i \notin Device THEN <<>> ELSE @]
                /\ openings' = [openings EXCEPT ![w.i] =
                                  IF (w.trunc /\ w.i \notin Device) \/ w.mode # "r" THEN @ + 1 ELSE @]
                /\ holder' = [holder EXCEPT ![w.i] = Nothing]
                /\ Swaps(p, {w}, {})
  BY OpenFdDoes DEF FilesInv
<1>2. Fresh(w.f) /\ holder[w.i] = p
  BY <1>1 DEF FilesInv, Works, Good, Unready, Locked
<1>3. ASSUME UNCHANGED <<file, ofile, holder, data, openings>>,
             Swaps(p, {w}, {Open!Close(w.f), Open!Unlockput(w.i)})
      PROVE  FilesInv'
  <2>1. PICK a, b : a = Open!Close(w.f) /\ b = Open!Unlockput(w.i)
    OBVIOUS
  <2>2. /\ a \in Instr /\ a.do = "close" /\ a.f = w.f
        /\ b \in Instr /\ b.do = "unlockput" /\ b.i = w.i /\ a # b
    <3>1. a.do = "close" /\ a.f = w.f /\ b.do = "unlockput" /\ b.i = w.i
      BY <2>1 DEF Open!Close, Open!Unlockput
    <3>2. a \in Instr /\ b \in Instr
      BY <1>1, <2>1, MakesLists, Within
    <3> QED
      BY <3>1, <3>2
  <2>3. PICK N : N = {a, b}
    OBVIOUS
  <2>4. ASSUME NEW f \in Open!File PROVE Weight(N, Owns(f)) = Bit(w \in Owns(f))
    <3>1. Weight(N, Owns(f)) = Bit(a \in Owns(f)) + Bit(b \in Owns(f))
      BY <2>2, <2>3, Weigh2
    <3>2. (a \in Owns(f) <=> w \in Owns(f)) /\ b \notin Owns(f)
      BY <1>1, <2>2, OwnsAre
    <3> QED
      BY <3>1, <3>2 DEF Bit
  <2>5. ASSUME NEW i \in Inode PROVE Weight(N, Puts(i)) = Bit(w \in Puts(i))
    <3>1. Weight(N, Puts(i)) = Bit(a \in Puts(i)) + Bit(b \in Puts(i))
      BY <2>2, <2>3, Weigh2
    <3>2. (b \in Puts(i) <=> w \in Puts(i)) /\ a \notin Puts(i)
      BY <1>1, <2>2, PutsAre
    <3> QED
      BY <3>1, <3>2 DEF Bit
  <2>6. w.do \notin {"clear", "last", "dup"} /\ Swaps(p, {w}, N)
    BY <1>1, <1>3, <2>1, <2>3
  <2>7. \A v \in N : v.do = "close" \/ (v.do = "unlockput" /\ holder[v.i] = p)
    BY <1>2, <2>2, <2>3
  <2> QED
    BY <1>1, <1>3, <2>4, <2>5, <2>6, <2>7, GivesUp
<1>4. ASSUME NEW e \in Open!Fd, ofile[p][e] = Nothing, ofile' = [ofile EXCEPT ![p][e] = w.f],
             Elsewhere({w.f}), file'[w.f].ref = file[w.f].ref,
             file'[w.f].type = IF w.i \in Device THEN "device" ELSE "inode",
             file'[w.f].obj = w.i, file'[w.f].mode = w.mode,
             file'[w.f].off = IF w.i \in Device THEN file[w.f].off ELSE 0,
             data' = [data EXCEPT ![w.i] = IF w.trunc /\ w.i \notin Device THEN <<>> ELSE @],
             openings' = [openings EXCEPT ![w.i] =
                            IF (w.trunc /\ w.i \notin Device) \/ w.mode # "r" THEN @ + 1 ELSE @],
             holder' = [holder EXCEPT ![w.i] = Nothing],
             Swaps(p, {w}, {})
      PROVE  FilesInv'
  <2>1. PICK O, N, F : O = {w} /\ N = {} /\ F = {w.f}
    OBVIOUS
  <2>2. /\ Trades(p, O, N) /\ Changes(p, O, N) /\ Forms'
        /\ In(todo[p]) = {w} /\ In(todo'[p]) = {} /\ \A q \in Process : q # p => todo'[q] = todo[q]
    BY <1>4, <2>1, SwapsTrade DEF Swaps, Changes
  <2>3. status[p] = "runs"
    BY Runs DEF FilesInv
  <2>4. ofile \in [Process -> [Open!Fd -> Open!File \cup {Nothing}]]
    BY DEF FilesInv, Types
  <2>5. /\ ofile' \in [Process -> [Open!Fd -> Open!File \cup {Nothing}]]
        /\ ofile'[p][e] = w.f
        /\ \A q \in Process : q # p => ofile'[q] = ofile[q]
        /\ \A c \in Open!Fd : c # e => ofile'[p][c] = ofile[p][c]
    BY <1>1, <1>4, <2>4
  <2>6. Types'
    BY <1>1, <1>4, <2>5 DEF FilesInv, Types
  <2>7. Nothing \notin Open!File
    BY Finite DEF Open!File
  <2>8. \A c : Clear(c) \notin In(todo[p]) /\ Clear(c) \notin In(todo'[p])
    BY <1>1, <2>2, ClearDo
  <2>9. \A q \in Process, c \in Open!Fd : Clear(c) \in In(todo'[q]) <=> Clear(c) \in In(todo[q])
    BY <2>2, <2>8
  <2>10. ASSUME NEW f \in Open!File, f # w.f PROVE Refers(f)' = Refers(f)
    <3>1. \A q \in Process, c \in Open!Fd : ofile'[q][c] = f <=> ofile[q][c] = f
      BY <1>4, <2>5, <2>7, <2>10
    <3> QED
      BY <2>9, <3>1, NoMore
  <2>11. Cardinality(Refers(w.f)') = Cardinality(Refers(w.f)) + 1
    <3>1. PICK f : f = w.f
      OBVIOUS
    <3>2. /\ ofile'[p][e] = f /\ ofile[p][e] # f /\ Clear(e) \notin In(todo'[p])
          /\ \A q \in Process, a \in Open!Fd : q # p \/ a # e => (ofile'[q][a] = f <=> ofile[q][a] = f)
      BY <1>1, <1>4, <2>5, <2>7, <2>8, <3>1
    <3>3. Cardinality(Refers(f)') = Cardinality(Refers(f)) + 1
      BY <2>9, <3>2, OneMore
    <3> QED
      BY <3>1, <3>3
  <2>12. file' \in [Open!File -> Struct] /\ \A g \in Open!File : g # w.f => file'[g] = file[g]
    BY <1>4 DEF Elsewhere
  <2>13. RefsRight'
    <3>1. ASSUME NEW f \in Open!File
          PROVE  \E k, l, m, n \in Nat :
                   /\ k = Weight(O, Owns(f)) /\ l = Weight(N, Owns(f))
                   /\ m = Weight(O, Dups(f)) /\ n = Weight(N, Dups(f))
                   /\ file'[f].ref + n + Cardinality(Refers(f)) + k
                        = file[f].ref + m + Cardinality(Refers(f)') + l
      <4>1. Weight(O, Dups(f)) = 0 /\ Weight(N, Dups(f)) = 0 /\ Weight(N, Owns(f)) = 0
        BY <1>1, <2>1, NoWeight DEF Dups
      <4>2. PICK k : k = Bit(w \in Owns(f))
        OBVIOUS
      <4>3. k = Weight(O, Owns(f)) /\ k \in Nat
        BY <2>1, <4>2, Weigh, BitType
      <4>4. PICK x, z : x = file[f].ref /\ z = Cardinality(Refers(f))
        OBVIOUS
      <4>5. x \in Nat /\ z \in Nat
        BY <4>4, RefersFinite DEF FilesInv, Numbered, Struct
      <4>6. file'[f].ref = x
        BY <1>4, <2>12, <4>4
      <4>7. Cardinality(Refers(f)') = z + k
        <5>1. CASE f = w.f
          <6>1. w \in Owns(f)
            BY <1>1, <5>1, OwnsAre
          <6> QED
            BY <2>11, <4>2, <4>4, <5>1, <6>1 DEF Bit
        <5>2. CASE f # w.f
          <6>1. w \notin Owns(f)
            BY <1>1, <5>2, OwnsAre
          <6> QED
            BY <2>10, <4>2, <4>4, <4>5, <5>2, <6>1 DEF Bit
        <5> QED
          BY <5>1, <5>2
      <4> QED
        BY <4>1, <4>3, <4>4, <4>5, <4>6, <4>7
    <3> QED
      BY <2>2, <2>12, <3>1, RefsKept DEF FilesInv
  <2>14. InodesRight'
    <3>1. ASSUME NEW i \in Inode
          PROVE  \E a, b \in Nat : /\ a = Weight(O, Puts(i)) /\ b = Weight(N, Puts(i))
                                   /\ iref'[i] + a + Cardinality(Stands(i))
                                        = iref[i] + b + Cardinality(Stands(i)')
      <4>1. PICK a, A, B : a = Bit(w \in Puts(i)) /\ A = Stands(i) /\ B = Stands(i)'
        OBVIOUS
      <4>2. a = Weight(O, Puts(i)) /\ a \in Nat /\ Weight(N, Puts(i)) = 0
        BY <2>1, <4>1, Weigh, BitType
      <4>3. A \subseteq Open!File /\ B \subseteq Open!File /\ w.f \notin A
        BY <1>2, <4>1 DEF Stands, Fresh
      <4>4. w.f \in B <=> w \in Puts(i)
        <5>1. w.f \in B <=> w.i = i
          BY <1>1, <1>4, <4>1 DEF Stands
        <5> QED
          BY <1>1, <5>1, PutsAre
      <4>5. \A x \in Open!File : x # w.f => (x \in A <=> x \in B)
        BY <2>12, <4>1 DEF Stands
      <4>6. IsFiniteSet(Open!File) /\ Cardinality(A) \in Nat /\ Cardinality(B) \in Nat
        BY <4>3, FilesFinite
      <4>7. PICK t : t = w.f
        OBVIOUS
      <4>8. Cardinality(B) + Bit(t \in A) = Cardinality(A) + Bit(t \in B)
        BY <4>3, <4>5, <4>6, <4>7, OneChanges
      <4>9. Bit(t \in A) = 0 /\ Bit(t \in B) = a
        BY <4>1, <4>3, <4>4, <4>7 DEF Bit
      <4>10. PICK x, y, z : x = iref[i] /\ y = Cardinality(A) /\ z = Cardinality(B)
        OBVIOUS
      <4>11. x \in Int /\ y \in Nat /\ z \in Nat /\ z = y + a /\ iref'[i] = x
        BY <1>1, <4>2, <4>6, <4>8, <4>9, <4>10 DEF FilesInv, Types
      <4>12. x + a + y = x + 0 + z
        BY <4>2, <4>11
      <4> QED
        BY <4>1, <4>2, <4>10, <4>11, <4>12
    <3> QED
      BY <2>2, <2>6, <3>1, InodesCount DEF FilesInv
  <2>15. EndsRight'
    <3>1. PipesAlike
      BY <1>2, <1>4, <2>12 DEF PipesAlike, Fresh
    <3>2. \A v \in O \cup N : v.do # "last"
      BY <1>1, <2>1
    <3> QED
      BY <1>1, <2>2, <3>1, <3>2, EndsKept DEF FilesInv
  <2>16. Numbered' /\ Sizes'
    <3>1. \A g \in Open!File : (file[g].ref = 0 => file[g].type = "none") /\ file[g].off <= MaxSize
      BY DEF FilesInv, Numbered, Sizes
    <3>2. file'[w.f].ref = 1 /\ file'[w.f].off <= MaxSize
      BY <1>1, <1>2, <1>4, <3>1, Finite DEF Fresh
    <3>3. \A g \in Open!File : g = w.f \/ file'[g] = file[g]
      BY <2>12
    <3>4. \A g \in Open!File : (file'[g].ref = 0 => file'[g].type = "none") /\ file'[g].off <= MaxSize
      BY <3>1, <3>2, <3>3
    <3>5. Numbered'
      BY <2>12, <3>4 DEF Numbered
    <3>6. ASSUME NEW i \in Inode PROVE Len(data'[i]) <= MaxSize
      <4>1. Len(data[i]) <= MaxSize
        BY DEF FilesInv, Sizes
      <4>2. data'[i] = data[i] \/ data'[i] = <<>>
        BY <1>1, <1>4 DEF FilesInv, Kinds
      <4>3. Len(<<>>) = 0
        OBVIOUS
      <4>4. CASE data'[i] = data[i]
        BY <4>1, <4>4
      <4>5. CASE data'[i] = <<>>
        BY <4>3, <4>5, Finite
      <4> QED
        BY <4>2, <4>4, <4>5
    <3>7. Sizes'
      BY <3>4, <3>6 DEF Sizes
    <3> QED
      BY <3>5, <3>7
  <2>17. Written' /\ Kinds'
    <3>1. PICK f, i, mode, trunc : f = w.f /\ i = w.i /\ mode = w.mode /\ trunc = (w.trunc /\ w.i \notin Device)
      OBVIOUS
    <3>2. f \in Open!File /\ i \in Inode /\ mode \in Open!Mode /\ trunc \in BOOLEAN /\ (trunc => i \notin Device)
      BY <1>1, <3>1
    <3>3. file[f].type = "none"
      BY <1>2, <3>1 DEF Fresh
    <3>4. /\ Elsewhere({f}) /\ file'[f].type = IF i \in Device THEN "device" ELSE "inode"
          /\ file'[f].obj = i /\ file'[f].mode = mode /\ (i \notin Device => file'[f].off = 0)
      BY <1>4, <3>1
    <3>5. /\ data' = [data EXCEPT ![i] = IF trunc THEN <<>> ELSE @]
          /\ openings' = [openings EXCEPT ![i] = IF trunc \/ mode # "r" THEN @ + 1 ELSE @]
          /\ stored' = stored
      BY <1>1, <1>4, <3>1
    <3> QED
      BY <3>2, <3>3, <3>4, <3>5, OpenWritten DEF FilesInv
  <2>18. Calm(p)
    <3>1. ASSUME NEW f \in F
          PROVE  /\ Refers(f) = {}
                 /\ \A q \in Process : q # p => \A v \in In(todo[q]) : v \notin Owns(f)
      <4>1. f \in Open!File /\ file[f].ref = 1 /\ w \in Owns(f)
        BY <1>1, <1>2, <2>1, <3>1, OwnsAre DEF Fresh
      <4> QED
        BY <4>1, Private DEF FilesInv
    <3>2. Elsewhere(F)
      BY <1>4, <2>1
    <3>3. CalmFiles(p)
      BY <3>1, <3>2, CalmPrivate DEF FilesInv
    <3>4. \A i \in Inode : holder[i] \notin {p, Nothing} => holder'[i] = holder[i]
      BY <1>2, <1>4 DEF FilesInv, Types
    <3> QED
      BY <2>5, <3>3, <3>4 DEF Calm
  <2>19. Works'
    BY <2>2, <2>18, WorksKept DEF FilesInv
  <2>20. Typed'
    <3>1. file'[w.f].type # "none"
      BY <1>4
    <3>2. ASSUME NEW f \in Open!File, Refers(f)' # {} PROVE file'[f].type # "none"
      BY <2>10, <2>12, <3>1, <3>2 DEF FilesInv, Typed
    <3> QED
      BY <3>2 DEF Typed
  <2>21. Life'
    <3>1. \A q \in Process : status[q] = "unused" => ofile'[q] = ofile[q]
      BY <2>3, <2>5
    <3> QED
      BY <1>1, <2>2, <2>3, <3>1, LifeKept DEF FilesInv
  <2>22. Forks'
    <3>1. \A c \in Process : status[c] = "embryo" => status'[c] = "embryo" /\ ofile'[c] = ofile[c]
      BY <1>1, <2>3, <2>5
    <3> QED
      BY <2>1, <2>2, <3>1, ForksKept DEF FilesInv
  <2> QED
    BY <2>2, <2>6, <2>13, <2>14, <2>15, <2>16, <2>17, <2>19, <2>20, <2>21, <2>22 DEF FilesInv
<1> QED
  BY <1>1, <1>3, <1>4

(* Steps that start or go on with one instruction, with descriptors,       *)
(* references and status as they are.                                      *)
LEMMA GoesOn ==
  ASSUME FilesInv, NEW p \in Process, NEW O, NEW a \in Instr, Swaps(p, O, {a}), status[p] = "runs",
         UNCHANGED <<file, ofile, status, open, iref, data, stored, openings>>, Types',
         \A i \in Inode : holder[i] \notin {p, Nothing} => holder'[i] = holder[i],
         \A w \in O : w.do \in {"read", "write"},
         a.do \in {"pipe0", "exit", "read", "write", "readi", "writei"},
         Good(p, a)'
  PROVE  FilesInv'
<1>1. PICK N : N = {a}
  OBVIOUS
<1>2. Trades(p, O, N) /\ Changes(p, O, N) /\ In(todo'[p]) = {a}
  BY <1>1, SwapsTrade DEF Swaps
<1>3. \A w \in O \cup N : w.do \notin {"clear", "last", "fork", "close", "openfd", "pipe1", "page",
                                        "pipefds", "dup", "iput", "open", "unlockput"}
  BY <1>1
<1>4. \A f : Refers(f)' = Refers(f)
  BY <1>2, <1>3, RefersSame
<1>5. file' \in [Open!File -> Struct]
  BY DEF FilesInv, Numbered
<1>6. RefsRight'
  BY <1>2, <1>3, <1>4, <1>5, RefsNeutral DEF FilesInv
<1>7. InodesRight'
  BY <1>2, <1>3, InodesNeutral, FilesSame DEF FilesInv
<1> QED
  BY <1>2, <1>3, <1>6, <1>7, Quieter

LEMMA LockKeeps ==
  ASSUME FilesInv, NEW p \in Process, Open!Lock(p) PROVE FilesInv'
<1>1. PICK w \in In(todo[p]) :
        /\ w \in Instr /\ w.do \in {"read", "write"} /\ w.f \in Open!File
        /\ file[w.f].obj \in Inode /\ holder[file[w.f].obj] = Nothing
        /\ UNCHANGED <<file, ofile, status, open, iref, data, stored, openings>>
        /\ holder' = [holder EXCEPT ![file[w.f].obj] = p]
        /\ Swaps(p, {w}, {[do |-> IF w.do = "read" THEN "readi" ELSE "writei",
                           f |-> w.f, n |-> w.n, at |-> file[w.f].off]})
  BY LockDoes DEF FilesInv
<1>2. PICK a : a = [do |-> IF w.do = "read" THEN "readi" ELSE "writei",
                    f |-> w.f, n |-> w.n, at |-> file[w.f].off]
  OBVIOUS
<1>3. /\ a.do \in {"readi", "writei"} /\ a.f = w.f /\ a.at = file[w.f].off
      /\ (a.do = "readi" => w.do = "read") /\ (a.do = "writei" => w.do = "write")
  BY <1>1, <1>2
<1>4. Swaps(p, {w}, {a})
  BY <1>1, <1>2
<1>5. a \in Instr
  <2>1. Forms' /\ a \in In(todo'[p])
    BY <1>4 DEF Swaps, Changes
  <2>2. Formed(todo'[p])
    BY <2>1 DEF Forms
  <2>3. todo'[p] \in Seq(Instr)
    BY <2>2 DEF Formed
  <2> QED
    BY <2>1, <2>3, ElementOfSeq DEF In
<1>6. holder \in [Inode -> Process \cup {Nothing}]
  BY DEF FilesInv, Types
<1>7. Types'
  BY <1>1, <1>6 DEF FilesInv, Types
<1>8. /\ holder'[file[w.f].obj] = p
      /\ \A i \in Inode : holder[i] \notin {p, Nothing} => holder'[i] = holder[i]
  BY <1>1, <1>6
<1>9. Good(p, a)'
  <2>1. Moving(p, w)
    BY DEF FilesInv, Works, Good
  <2>2. Moving(p, a)'
    BY <1>1, <1>3, <2>1 DEF Moving
  <2>3. Still(p, a)'
    BY <1>1, <1>3, <1>8 DEF Still
  <2> QED
    BY <1>3, <2>2, <2>3 DEF Good, Passed, Unready, Dupped, Locked
<1>10. status[p] = "runs"
  BY Runs DEF FilesInv
<1>11. \A v \in {w} : v.do \in {"read", "write"}
  BY <1>1
<1>12. a.do \in {"pipe0", "exit", "read", "write", "readi", "writei"}
  BY <1>3
<1>13. PICK O : O = {w}
  OBVIOUS
<1> QED
  BY <1>1, <1>4, <1>5, <1>7, <1>8, <1>9, <1>10, <1>11, <1>12, <1>13, GoesOn

LEMMA SysPipeKeeps ==
  ASSUME FilesInv, NEW p \in Process, Open!SysPipe(p) PROVE FilesInv'
<1>1. PICK a : a = [do |-> "pipe0"]
  OBVIOUS
<1>2. Open!Begins(p, <<a>>) /\ UNCHANGED <<file, ofile, status, open, iref, holder, data, stored, openings>>
  BY <1>1 DEF Open!SysPipe, Open!kernel, Open!contents
<1>3. a \in Instr /\ a.do = "pipe0"
  BY <1>1 DEF Instr
<1>4. status[p] = "runs" /\ Swaps(p, {}, {a})
  BY <1>2, <1>3, BeginsDoes DEF FilesInv
<1>5. Types'
  BY <1>2 DEF FilesInv, Types
<1>6. Good(p, a)'
  BY <1>3, Idle
<1>7. PICK O : O = {}
  OBVIOUS
<1> QED
  BY <1>2, <1>3, <1>4, <1>5, <1>6, <1>7, GoesOn

LEMMA ExitKeeps ==
  ASSUME FilesInv, NEW p \in Process, Open!Exit(p) PROVE FilesInv'
<1>1. PICK a : a = [do |-> "exit", fd |-> 0]
  OBVIOUS
<1>2. Open!Begins(p, <<a>>) /\ UNCHANGED <<file, ofile, status, open, iref, holder, data, stored, openings>>
  BY <1>1 DEF Open!Exit, Open!kernel, Open!contents
<1>3. a \in Instr /\ a.do = "exit" /\ a.fd = 0
  <2>1. 0 \in 0 .. NOFILE
    BY Finite
  <2> QED
    BY <1>1, <2>1, MakesLoops
<1>4. status[p] = "runs" /\ Swaps(p, {}, {a})
  BY <1>2, <1>3, BeginsDoes DEF FilesInv
<1>5. Types'
  BY <1>2 DEF FilesInv, Types
<1>6. Good(p, a)'
  <2>1. \A e \in Open!Fd : ~(e < 0)
    BY DEF Open!Fd
  <2>2. Passed(p, a)'
    BY <1>3, <2>1 DEF Passed
  <2> QED
    BY <1>3, <2>2 DEF Good, Unready, Dupped, Moving, Locked, Still
<1>7. PICK O : O = {}
  OBVIOUS
<1> QED
  BY <1>2, <1>3, <1>4, <1>5, <1>6, <1>7, GoesOn

LEMMA SysReadKeeps ==
  ASSUME FilesInv, NEW p \in Process, NEW e \in Open!Fd, Open!SysRead(p, e) PROVE FilesInv'
<1>1. PICK f : f = ofile[p][e]
  OBVIOUS
<1>2. f \in Open!File /\ file[f].type = "inode" /\ file[f].mode # "w"
  <2>1. e \in Open!Opened(p) /\ file[f].type = "inode" /\ file[f].mode # "w"
    BY <1>1 DEF Open!SysRead, Open!OnDisk
  <2> QED
    BY <1>1, <2>1, FreeFds DEF FilesInv
<1>3. PICK a : a = [do |-> "read", f |-> f, n |-> 1]
  OBVIOUS
<1>4. Open!Begins(p, <<a>>) /\ UNCHANGED <<file, ofile, status, open, iref, holder, data, stored, openings>>
  BY <1>1, <1>3 DEF Open!SysRead, Open!kernel, Open!contents
<1>5. a \in Instr /\ a.do = "read" /\ a.f = f
  BY <1>2, <1>3, MakesMoves
<1>6. status[p] = "runs" /\ Swaps(p, {}, {a})
  BY <1>4, <1>5, BeginsDoes DEF FilesInv
<1>7. Types'
  BY <1>4 DEF FilesInv, Types
<1>8. Good(p, a)'
  BY <1>1, <1>2, <1>4, <1>5 DEF Good, Passed, Unready, Dupped, Moving, Locked, Still
<1>9. PICK O : O = {}
  OBVIOUS
<1> QED
  BY <1>4, <1>5, <1>6, <1>7, <1>8, <1>9, GoesOn

LEMMA SysWriteKeeps ==
  ASSUME FilesInv, NEW p \in Process, NEW e \in Open!Fd, NEW n \in 1 .. MaxWrite, Open!SysWrite(p, e, n)
  PROVE  FilesInv'
<1>1. PICK f : f = ofile[p][e]
  OBVIOUS
<1>2. f \in Open!File /\ file[f].type = "inode" /\ file[f].mode # "r"
  <2>1. e \in Open!Opened(p) /\ file[f].type = "inode" /\ file[f].mode # "r"
    BY <1>1 DEF Open!SysWrite, Open!OnDisk
  <2> QED
    BY <1>1, <2>1, FreeFds DEF FilesInv
<1>3. PICK a : a = [do |-> "write", f |-> f, n |-> n]
  OBVIOUS
<1>4. Open!Begins(p, <<a>>) /\ UNCHANGED <<file, ofile, status, open, iref, holder, data, stored, openings>>
  BY <1>1, <1>3 DEF Open!SysWrite, Open!kernel, Open!contents
<1>5. a \in Instr /\ a.do = "write" /\ a.f = f
  <2>1. n \in Nat \ {0}
    BY Finite
  <2> QED
    BY <1>2, <1>3, <2>1, MakesMoves
<1>6. status[p] = "runs" /\ Swaps(p, {}, {a})
  BY <1>4, <1>5, BeginsDoes DEF FilesInv
<1>7. Types'
  BY <1>4 DEF FilesInv, Types
<1>8. Good(p, a)'
  BY <1>1, <1>2, <1>4, <1>5 DEF Good, Passed, Unready, Dupped, Moving, Locked, Still
<1>9. PICK O : O = {}
  OBVIOUS
<1> QED
  BY <1>4, <1>5, <1>6, <1>7, <1>8, <1>9, GoesOn

LEMMA SysOpenKeeps ==
  ASSUME FilesInv, NEW p \in Process, NEW i \in Inode, NEW mode \in Open!Mode, NEW trunc \in BOOLEAN,
         Open!SysOpen(p, i, mode, trunc)
  PROVE  FilesInv'
<1>1. PICK a : a = [do |-> "open", i |-> i, mode |-> mode, trunc |-> trunc]
  OBVIOUS
<1>2. /\ Open!Begins(p, <<a>>) /\ UNCHANGED <<file, ofile, status, open, data, stored, openings>>
      /\ holder[i] = Nothing /\ holder' = [holder EXCEPT ![i] = p] /\ iref' = [iref EXCEPT ![i] = @ + 1]
  BY <1>1 DEF Open!SysOpen, Open!contents
<1>3. a \in Instr /\ a.do = "open" /\ a.i = i
  BY <1>1 DEF Instr
<1>4. PICK O, N : O = {} /\ N = {a}
  OBVIOUS
<1>5. status[p] = "runs" /\ Swaps(p, O, N)
  BY <1>2, <1>3, <1>4, BeginsDoes DEF FilesInv
<1>6. Trades(p, O, N) /\ Changes(p, O, N) /\ In(todo'[p]) = {a}
  BY <1>4, <1>5, SwapsTrade DEF Swaps
<1>7. holder \in [Inode -> Process \cup {Nothing}] /\ iref \in [Inode -> Int]
  BY DEF FilesInv, Types
<1>8. Types'
  BY <1>2, <1>7 DEF FilesInv, Types
<1>9. holder'[i] = p /\ \A j \in Inode : holder[j] \notin {p, Nothing} => holder'[j] = holder[j]
  BY <1>2, <1>7
<1>10. Good(p, a)'
  BY <1>3, <1>9 DEF Good, Passed, Unready, Dupped, Moving, Locked, Still
<1>11. \A w \in O \cup N : w.do = "open"
  BY <1>3, <1>4
<1>12. \A f : Refers(f)' = Refers(f)
  BY <1>2, <1>6, <1>11, RefersSame
<1>13. file' \in [Open!File -> Struct]
  BY <1>2 DEF FilesInv, Numbered
<1>14. RefsRight'
  BY <1>2, <1>6, <1>11, <1>12, <1>13, RefsNeutral DEF FilesInv
<1>15. InodesRight'
  <2>1. ASSUME NEW j \in Inode
        PROVE  \E b, c \in Nat : /\ b = Weight(O, Puts(j)) /\ c = Weight(N, Puts(j))
                                 /\ iref'[j] + b + Cardinality(Stands(j))
                                      = iref[j] + c + Cardinality(Stands(j)')
    <3>1. PICK x, y, z, n : /\ x = iref[j] /\ y = iref'[j] /\ z = Cardinality(Stands(j))
                            /\ n = Bit(a \in Puts(j))
      OBVIOUS
    <3>2. Weight(O, Puts(j)) = 0 /\ Weight(N, Puts(j)) = n /\ n \in Nat
      BY <1>4, <3>1, Weigh, BitType
    <3>3. a \in Puts(j) <=> i = j
      BY <1>3, PutsAre
    <3>4. y = x + n /\ x \in Int
      BY <1>2, <1>7, <3>1, <3>3 DEF Bit
    <3>5. Stands(j)' = Stands(j) /\ z \in Nat
      <4>1. Stands(j) \subseteq Open!File
        BY DEF Stands
      <4> QED
        BY <1>2, <3>1, <4>1, FilesFinite DEF Stands
    <3>6. y + 0 + z = x + n + z
      BY <3>2, <3>4, <3>5
    <3> QED
      BY <3>1, <3>2, <3>5, <3>6
  <2> QED
    BY <1>6, <1>8, <2>1, InodesCount DEF FilesInv
<1>16. \A w \in In(todo'[p]) : Good(p, w)'
  BY <1>6, <1>10
<1> QED
  BY <1>2, <1>5, <1>6, <1>8, <1>9, <1>11, <1>14, <1>15, <1>16, Quieter


(***************************************************************************)
(* Steps in which the number of references to a file in use changes.       *)
(***************************************************************************)
LEMMA RefChanges ==
  ASSUME FilesInv, NEW p \in Process, NEW O, NEW N, Trades(p, O, N),
         NEW f \in Open!File, NEW n \in Nat \ {0}, file' = [file EXCEPT ![f].ref = n],
         Refers(f) # {} \/ (\E v \in In(todo[p]) : v \in Owns(f)),
         UNCHANGED <<open, iref, holder, data, stored, openings>>, Types',
         \A q \in Process : q # p /\ todo[q] # <<>> => ofile'[q] = ofile[q],
         \A w \in O \cup N : w.do \notin {"last", "iput", "open", "openfd", "unlockput"},
         \A w \in In(todo'[p]) : Good(p, w)',
         \A g \in Open!File : Refers(g)' # {} => Refers(g) # {},
         RefsRight', Life', Forks'
  PROVE  FilesInv'
<1>1. Changes(p, O, N) /\ Forms'
  BY DEF Trades, Changes
<1>2. n \in Nat
  OBVIOUS
<1>3. /\ CalmFiles(p) /\ file'[f].ref = n /\ \A g \in Open!File : g # f => file'[g] = file[g]
      /\ \A g \in Open!File : /\ file'[g].type = file[g].type /\ file'[g].obj = file[g].obj
                              /\ file'[g].mode = file[g].mode /\ file'[g].off = file[g].off
  BY <1>2, CalmRef DEF FilesInv
<1>4. file' \in [Open!File -> Struct]
  BY <1>3 DEF CalmFiles
<1>5. \A g \in Open!File : file'[g].ref = 0 => file'[g].type = "none"
  BY <1>3 DEF FilesInv, Numbered
<1>6. PipesAlike /\ NodesAlike /\ Numbered' /\ Kinds' /\ Sizes' /\ Written'
  BY <1>3, <1>4, <1>5, Alike
<1>7. EndsRight'
  BY <1>1, <1>6, EndsKept DEF FilesInv
<1>8. InodesRight'
  BY <1>1, <1>6, InodesNeutral DEF FilesInv
<1>9. Calm(p)
  BY <1>3 DEF Calm
<1>10. Works' /\ Typed'
  BY <1>1, <1>9, WorksKept, TypedKept DEF FilesInv
<1> QED
  BY <1>1, <1>6, <1>7, <1>8, <1>10 DEF FilesInv

(* One instruction that has a reference, or owes one, is carried out, and  *)
(* the number changes by as much.                                          *)
LEMMA RefBalance ==
  ASSUME FilesInv, NEW p \in Process, NEW O, NEW N, NEW w \in Instr, Changes(p, O, N),
         \A S : Weight(O, S) = Bit(w \in S),
         \A v \in N : v.do \in {"last", "fork"},
         file' \in [Open!File -> Struct],
         \A f \in Open!File :
           /\ Cardinality(Refers(f)') = Cardinality(Refers(f))
           /\ w.do = "close" => file'[f].ref = IF f = w.f THEN file[f].ref - 1 ELSE file[f].ref
           /\ w.do = "dup" => file'[f].ref = IF f = w.f THEN file[f].ref + 1 ELSE file[f].ref,
         w.do \in {"close", "dup"}
  PROVE  RefsRight'
<1>1. ASSUME NEW f \in Open!File
      PROVE  \E a, b, c, d \in Nat :
               /\ a = Weight(O, Owns(f)) /\ b = Weight(N, Owns(f))
               /\ c = Weight(O, Dups(f)) /\ d = Weight(N, Dups(f))
               /\ file'[f].ref + d + Cardinality(Refers(f)) + a
                    = file[f].ref + c + Cardinality(Refers(f)') + b
  <2>1. Weight(N, Dups(f)) = 0 /\ Weight(N, Owns(f)) = 0
    <3>1. \A v \in N : v \notin Dups(f) /\ v \notin Owns(f)
      BY DEF Dups, Owns
    <3> QED
      BY <3>1, NoWeight
  <2>2. PICK a, c : a = Bit(w \in Owns(f)) /\ c = Bit(w \in Dups(f))
    OBVIOUS
  <2>3. a = Weight(O, Owns(f)) /\ a \in Nat /\ c = Weight(O, Dups(f)) /\ c \in Nat
    BY <2>2, BitType
  <2>4. PICK x, y, z : x = file[f].ref /\ y = file'[f].ref /\ z = Cardinality(Refers(f))
    OBVIOUS
  <2>5. x \in Nat /\ y \in Nat /\ z \in Nat /\ z = Cardinality(Refers(f)')
    BY <2>4, RefersFinite DEF FilesInv, Numbered, Struct
  <2>6. y + a = x + c
    <3>1. CASE w.do = "close"
      <4>1. (w \in Owns(f) <=> w.f = f) /\ w \notin Dups(f)
        BY <3>1, OwnsAre
      <4>2. c = 0 /\ y = IF w.f = f THEN x - 1 ELSE x
        BY <2>2, <2>4, <3>1, <4>1 DEF Bit
      <4>3. a = IF w.f = f THEN 1 ELSE 0
        BY <2>2, <4>1 DEF Bit
      <4> QED
        BY <2>5, <4>2, <4>3
    <3>2. CASE w.do = "dup"
      <4>1. (w \in Dups(f) <=> w.f = f) /\ w \notin Owns(f)
        BY <3>2, OwnsAre
      <4>2. a = 0 /\ y = IF w.f = f THEN x + 1 ELSE x
        BY <2>2, <2>4, <3>2, <4>1 DEF Bit
      <4>3. c = IF w.f = f THEN 1 ELSE 0
        BY <2>2, <4>1 DEF Bit
      <4> QED
        BY <2>5, <4>2, <4>3
    <3> QED
      BY <3>1, <3>2
  <2> QED
    BY <2>1, <2>3, <2>4, <2>5, <2>6
<1>2. Forms /\ Numbered /\ RefsRight
  BY DEF FilesInv
<1> QED
  BY <1>1, <1>2, RefsKept

LEMMA DupKeeps ==
  ASSUME FilesInv, NEW p \in Process, Open!Dup(p) PROVE FilesInv'
<1>1. PICK w \in In(todo[p]) :
        /\ w \in Instr /\ w.do = "dup" /\ w.f \in Open!File
        /\ UNCHANGED <<ofile, status, open, iref, holder, data, stored, openings>>
        /\ file' = [file EXCEPT ![w.f].ref = @ + 1] /\ Swaps(p, {w}, {})
  BY DupDoes DEF FilesInv
<1>2. PICK O, N, f, n : O = {w} /\ N = {} /\ f = w.f /\ n = file[w.f].ref + 1
  OBVIOUS
<1>3. Trades(p, O, N) /\ Changes(p, O, N) /\ In(todo'[p]) = {}
  BY <1>1, <1>2, SwapsTrade DEF Swaps
<1>4. file \in [Open!File -> Struct]
  BY DEF FilesInv, Numbered
<1>5. f \in Open!File /\ file[f].ref \in Nat /\ n \in Nat \ {0}
  <2>1. f \in Open!File /\ file[f].ref \in Nat
    BY <1>1, <1>2, <1>4 DEF Struct
  <2>2. PICK x : x = file[f].ref
    OBVIOUS
  <2> QED
    BY <1>2, <2>1, <2>2
<1>6. file' = [file EXCEPT ![f].ref = n]
  BY <1>1, <1>2, <1>4
<1>7. Refers(f) # {}
  BY <1>1, <1>2, Used DEF FilesInv
<1>8. \A g : Refers(g)' = Refers(g)
  BY <1>1, <1>2, <1>3, RefersSame
<1>9. Types'
  BY <1>1 DEF FilesInv, Types
<1>10. /\ CalmFiles(p) /\ file'[f].ref = n /\ \A g \in Open!File : g # f => file'[g] = file[g]
  BY <1>5, <1>6, <1>7, CalmRef DEF FilesInv
<1>11. \A g \in Open!File : file'[g].ref = IF g = w.f THEN file[g].ref + 1 ELSE file[g].ref
  BY <1>2, <1>10
<1>12. RefsRight'
  <2>1. \A S : Weight(O, S) = Bit(w \in S)
    BY <1>2, Weigh
  <2>2. \A v \in N : v.do \in {"last", "fork"}
    BY <1>2
  <2>3. file' \in [Open!File -> Struct]
    BY <1>10 DEF CalmFiles
  <2>4. w \in Instr /\ w.do = "dup"
    BY <1>1
  <2> QED
    BY <1>3, <1>8, <1>11, <2>1, <2>2, <2>3, <2>4, RefBalance
<1>13. Life'
  BY <1>1, <1>3, Runs, LifeKept DEF FilesInv
<1>14. Forks'
  BY <1>1, <1>2, <1>3, ForksKept DEF FilesInv
<1>15. /\ \A v \in O \cup N : v.do \notin {"last", "iput", "open", "openfd", "unlockput"}
       /\ \A v \in In(todo'[p]) : Good(p, v)'
       /\ \A q \in Process : q # p /\ todo[q] # <<>> => ofile'[q] = ofile[q]
  BY <1>1, <1>2, <1>3
<1>16. \A g \in Open!File : Refers(g)' # {} => Refers(g) # {}
  BY <1>8
<1> QED
  BY <1>1, <1>3, <1>5, <1>6, <1>7, <1>9, <1>12, <1>13, <1>14, <1>15, <1>16, RefChanges

(* fileclose(): others still have the file.                                *)
LEMMA FilecloseShared ==
  ASSUME FilesInv, NEW p \in Process, NEW w \in In(todo[p]), w \in Instr, w.do = "close",
         UNCHANGED <<ofile, status, open, iref, holder, data, stored, openings>>,
         NEW f \in Open!File, f = w.f, NEW n \in Nat \ {0}, file[f].ref = n + 1,
         file' = [file EXCEPT ![f].ref = n], Trades(p, {w}, {})
  PROVE  FilesInv'
<1>2. PICK O, N : O = {w} /\ N = {}
  OBVIOUS
<1>3. Trades(p, O, N) /\ Changes(p, O, N)
  BY <1>2 DEF Trades
<1>7. w \in Owns(f)
  BY OwnsAre
<1>8. \A g : Refers(g)' = Refers(g)
  BY <1>2, <1>3, RefersSame
<1>9. Types'
  BY DEF FilesInv, Types
<1>10. n \in Nat
  OBVIOUS
<1>11. CalmFiles(p) /\ file'[f].ref = n /\ \A g \in Open!File : g # f => file'[g] = file[g]
  <2>1. \E v \in In(todo[p]) : v \in Owns(f)
    BY <1>7
  <2>2. Forms /\ Works /\ RefsRight /\ Numbered
    BY DEF FilesInv
  <2>3. /\ CalmFiles(p) /\ file'[f].ref = n /\ \A g \in Open!File : g # f => file'[g] = file[g]
        /\ \A g \in Open!File : file'[g].type = file[g].type
    BY ZenonT(60), <1>10, <2>1, <2>2, CalmRef
  <2> QED
    BY <2>3
<1>12. \A g \in Open!File : file'[g].ref = IF g = w.f THEN file[g].ref - 1 ELSE file[g].ref
  BY <1>10, <1>11
<1>13. RefsRight'
  <2>1. \A S : Weight(O, S) = Bit(w \in S)
    BY <1>2, Weigh
  <2>2. \A v \in N : v.do \in {"last", "fork"}
    BY <1>2
  <2>3. file' \in [Open!File -> Struct]
    BY <1>11 DEF CalmFiles
  <2> QED
    BY <1>3, <1>8, <1>12, <2>1, <2>2, <2>3, RefBalance
<1>14. Life'
  BY <1>3, Runs, LifeKept DEF FilesInv
<1>15. Forks'
  BY <1>2, <1>3, ForksKept DEF FilesInv
<1>16. \A v \in In(todo'[p]) : Good(p, v)'
  BY <1>2, <1>3, Rest DEF FilesInv
<1>17. /\ \A v \in O \cup N : v.do \notin {"last", "iput", "open", "openfd", "unlockput"}
       /\ \A q \in Process : q # p /\ todo[q] # <<>> => ofile'[q] = ofile[q]
  BY <1>2
<1>18. \A g \in Open!File : Refers(g)' # {} => Refers(g) # {}
  BY <1>8
<1> QED
  BY <1>3, <1>7, <1>9, <1>13, <1>14, <1>15, <1>16, <1>17, <1>18, RefChanges

(* fileclose(): the last reference goes; what it stood for is in l.        *)
LEMMA FilecloseLast ==
  ASSUME FilesInv, NEW p \in Process, NEW w \in In(todo[p]), w \in Instr, w.do = "close",
         UNCHANGED <<ofile, status, open, iref, holder, data, stored, openings>>,
         NEW f \in Open!File, f = w.f, file[f].ref = 1,
         file' = [file EXCEPT ![f] = [@ EXCEPT !.ref = 0, !.type = "none"]],
         NEW l \in Instr, l.do = "last", l.ff = file[f], Trades(p, {w}, {l})
  PROVE  FilesInv'
<1>2. PICK O, N, F : O = {w} /\ N = {l} /\ F = {f}
  OBVIOUS
<1>3. Trades(p, O, N) /\ Changes(p, O, N) /\ Forms'
  BY <1>2 DEF Trades, Changes
<1>4. file \in [Open!File -> Struct] /\ \A g \in Open!File : file[g].ref = 0 => file[g].type = "none"
  BY DEF FilesInv, Numbered
<1>5. /\ Elsewhere(F) /\ file' \in [Open!File -> Struct]
      /\ \A g \in Open!File : g # f => file'[g] = file[g]
      /\ file'[f].ref = 0 /\ file'[f].type = "none" /\ file'[f].off = file[f].off
  <2>1. PICK s : s = file[f]
    OBVIOUS
  <2>2. s \in Struct
    BY <1>4, <2>1
  <2>3. PICK t : t = [s EXCEPT !.ref = 0]
    OBVIOUS
  <2>4. t \in Struct /\ t.ref = 0 /\ t.off = s.off
    BY <2>2, <2>3 DEF Struct
  <2>5. PICK u : u = [t EXCEPT !.type = "none"]
    OBVIOUS
  <2>6. u \in Struct /\ u.ref = 0 /\ u.type = "none" /\ u.off = s.off
    BY <2>4, <2>5 DEF Struct
  <2>7. file' = [file EXCEPT ![f] = u]
    BY <1>4, <2>1, <2>3, <2>5
  <2>8. file' \in [Open!File -> Struct] /\ file'[f] = u /\ \A g \in Open!File : g # f => file'[g] = file[g]
    BY <1>4, <2>6, <2>7
  <2> QED
    BY <1>2, <2>1, <2>6, <2>8 DEF Elsewhere
<1>6. w \in Owns(f)
  BY OwnsAre
<1>7. \A g : Refers(g)' = Refers(g)
  BY <1>2, <1>3, RefersSame
<1>8. Types'
  BY DEF FilesInv, Types
<1>9. RefsRight'
  <2>1. \A S : Weight(O, S) = Bit(w \in S)
    BY <1>2, Weigh
  <2>2. \A v \in N : v.do \in {"last", "fork"}
    BY <1>2
  <2>3. \A g \in Open!File : file'[g].ref = IF g = w.f THEN file[g].ref - 1 ELSE file[g].ref
    BY <1>5
  <2> QED
    BY <1>3, <1>5, <1>7, <2>1, <2>2, <2>3, RefBalance
<1>10. Numbered'
  BY <1>4, <1>5 DEF Numbered
<1>11. Sizes' /\ Kinds'
  <2>1. \A g \in Open!File : file'[g].off = file[g].off
    BY <1>5
  <2> QED
    BY <2>1 DEF FilesInv, Sizes, Kinds
<1>12. Written'
  <2>1. \A g \in Open!File : file'[g].type = "inode" => g # f
    BY <1>5
  <2>2. \A g \in Open!File : file'[g].type = "inode" =>
           /\ file[g].type = "inode" /\ file'[g].obj = file[g].obj /\ file'[g].mode = file[g].mode
           /\ file'[g].off = file[g].off
    BY <1>5, <2>1
  <2> QED
    BY <2>2, WrittenKept DEF FilesInv
<1>13. EndsRight'
  <2>1. ASSUME NEW k \in Page, NEW end \in {"r", "w"}
        PROVE  Cardinality(Piped(k, end)') + Count(todo', Ends(k, end)) = Bit(end \in open'[k])
    <3>1. PICK A, B : A = Piped(k, end) /\ B = Piped(k, end)'
      OBVIOUS
    <3>2. A \subseteq Open!File /\ B \subseteq Open!File /\ f \notin B
      BY <1>5, <3>1 DEF Piped
    <3>3. \A x \in Open!File : x # f => (x \in A <=> x \in B)
      BY <1>5, <3>1 DEF Piped
    <3>4. IsFiniteSet(Open!File) /\ Cardinality(A) \in Nat /\ Cardinality(B) \in Nat
      BY <3>2, FilesFinite
    <3>5. Cardinality(B) + Bit(f \in A) = Cardinality(A) + Bit(f \in B)
      BY <3>2, <3>3, <3>4, OneChanges
    <3>6. f \in A <=> l \in Ends(k, end)
      BY <3>1 DEF Piped, Ends
    <3>7. PICK S : S = Ends(k, end)
      OBVIOUS
    <3>8. w \notin S
      BY <3>7 DEF Ends
    <3>9. Weight(O, S) = 0 /\ Weight(N, S) = Bit(f \in A)
      <4>1. Weight(O, S) = Bit(w \in S) /\ Weight(N, S) = Bit(l \in S)
        BY <1>2, Weigh
      <4> QED
        BY <3>6, <3>7, <3>8, <4>1 DEF Bit
    <3>10. PICK x, y, c, d, b : /\ x = Cardinality(A) /\ y = Cardinality(B) /\ b = Bit(f \in A)
                                /\ c = Count(todo, S) /\ d = Count(todo', S)
      OBVIOUS
    <3>11. c \in Nat /\ d \in Nat /\ b \in Nat
      BY <1>3, <3>10, WhereFinite, BitType DEF Forms, FilesInv
    <3>12. d + Weight(O, S) = c + Weight(N, S)
      BY <1>3, <3>10 DEF Changes
    <3>13. d + 0 = c + b
      BY <3>9, <3>10, <3>12
    <3>14. y + b = x + 0
      BY <3>2, <3>5, <3>10 DEF Bit
    <3>15. x + c = Bit(end \in open[k])
      BY <3>1, <3>7, <3>10 DEF EndsRight, FilesInv
    <3>16. y + d = x + c
      BY <3>4, <3>10, <3>11, <3>13, <3>14
    <3> QED
      BY <3>1, <3>7, <3>10, <3>15, <3>16
  <2> QED
    BY <2>1 DEF EndsRight
<1>14. InodesRight'
  <2>1. ASSUME NEW i \in Inode
        PROVE  \E a, b \in Nat : /\ a = Weight(O, Puts(i)) /\ b = Weight(N, Puts(i))
                                 /\ iref'[i] + a + Cardinality(Stands(i))
                                      = iref[i] + b + Cardinality(Stands(i)')
    <3>1. PICK A, B, b : A = Stands(i) /\ B = Stands(i)' /\ b = Bit(l \in Puts(i))
      OBVIOUS
    <3>2. A \subseteq Open!File /\ B \subseteq Open!File /\ f \notin B
      BY <1>5, <3>1 DEF Stands
    <3>3. \A x \in Open!File : x # f => (x \in A <=> x \in B)
      BY <1>5, <3>1 DEF Stands
    <3>4. IsFiniteSet(Open!File) /\ Cardinality(A) \in Nat /\ Cardinality(B) \in Nat
      BY <3>2, FilesFinite
    <3>5. Cardinality(B) + Bit(f \in A) = Cardinality(A) + Bit(f \in B)
      BY <3>2, <3>3, <3>4, OneChanges
    <3>6. f \in A <=> l \in Puts(i)
      <4>1. f \in A <=> l.ff.type \in {"inode", "device"} /\ l.ff.obj = i
        BY <3>1 DEF Stands
      <4> QED
        BY <4>1, PutsAre
    <3>7. w \notin Puts(i)
      BY PutsAre
    <3>8. Weight(O, Puts(i)) = 0 /\ Weight(N, Puts(i)) = b
      <4>1. Weight(O, Puts(i)) = Bit(w \in Puts(i)) /\ Weight(N, Puts(i)) = Bit(l \in Puts(i))
        BY <1>2, Weigh
      <4> QED
        BY <3>1, <3>7, <4>1 DEF Bit
    <3>9. Bit(f \in A) = b /\ Bit(f \in B) = 0
      BY <3>1, <3>2, <3>6 DEF Bit
    <3>10. PICK x, y, z : x = iref[i] /\ y = Cardinality(A) /\ z = Cardinality(B)
      OBVIOUS
    <3>11. x \in Int /\ y \in Nat /\ z \in Nat /\ b \in Nat /\ z + b = y /\ iref'[i] = x
      BY <3>1, <3>4, <3>5, <3>9, <3>10, BitType DEF FilesInv, Types
    <3>12. x + 0 + y = x + b + z
      BY <3>11
    <3> QED
      BY <3>1, <3>8, <3>10, <3>11, <3>12
  <2> QED
    BY <1>3, <1>8, <2>1, InodesCount DEF FilesInv
<1>15. Calm(p)
  <2>1. ASSUME NEW g \in F
        PROVE  /\ Refers(g) = {}
               /\ \A q \in Process : q # p => \A v \in In(todo[q]) : v \notin Owns(g)
    BY <1>2, <1>6, <2>1, Private DEF FilesInv
  <2>2. CalmFiles(p)
    BY <1>5, <2>1, CalmPrivate DEF FilesInv
  <2> QED
    BY <2>2 DEF Calm
<1>16. Works' /\ Typed'
  <2>1. \A v \in In(todo'[p]) : Good(p, v)'
    BY <1>2, <1>3, Rest DEF FilesInv
  <2> QED
    BY <1>3, <1>7, <1>15, <2>1, WorksKept, TypedKept DEF FilesInv
<1>17. Life'
  BY <1>3, Runs, LifeKept DEF FilesInv
<1>18. Forks'
  BY <1>2, <1>3, ForksKept DEF FilesInv
<1> QED
  BY <1>3, <1>8, <1>9, <1>10, <1>11, <1>12, <1>13, <1>14, <1>16, <1>17, <1>18 DEF FilesInv

LEMMA FilecloseKeeps ==
  ASSUME FilesInv, NEW p \in Process, Open!Fileclose(p) PROVE FilesInv'
<1>1. PICK w \in In(todo[p]) :
        /\ w \in Instr /\ w.do = "close" /\ w.f \in Open!File
        /\ UNCHANGED <<ofile, status, open, iref, holder, data, stored, openings>>
        /\ \/ /\ file[w.f].ref > 1 /\ file' = [file EXCEPT ![w.f].ref = @ - 1]
              /\ Trades(p, {w}, {})
           \/ /\ file[w.f].ref = 1
              /\ file' = [file EXCEPT ![w.f] = [@ EXCEPT !.ref = 0, !.type = "none"]]
              /\ Trades(p, {w}, {[do |-> "last", f |-> w.f, ff |-> file[w.f]]})
  BY FilecloseDoes DEF FilesInv
<1>2. PICK f, l : f = w.f /\ l = [do |-> "last", f |-> w.f, ff |-> file[w.f]]
  OBVIOUS
<1>3. CASE file[w.f].ref > 1 /\ file' = [file EXCEPT ![w.f].ref = @ - 1] /\ Trades(p, {w}, {})
  <2>1. file \in [Open!File -> Struct]
    BY DEF FilesInv, Numbered
  <2>2. PICK n, x : n = file[f].ref - 1 /\ x = file[f].ref
    OBVIOUS
  <2>3. x \in Nat /\ n \in Nat \ {0} /\ x = n + 1
    <3>1. x \in Nat /\ x > 1
      BY <1>1, <1>2, <1>3, <2>1, <2>2 DEF Struct
    <3> QED
      BY <2>2, <3>1
  <2>4. file' = [file EXCEPT ![f].ref = n]
    BY <1>1, <1>2, <1>3, <2>1, <2>2
  <2>5. f \in Open!File /\ f = w.f /\ file[f].ref = n + 1
    BY <1>1, <1>2, <2>2, <2>3
  <2> QED
    BY <1>1, <1>3, <2>3, <2>4, <2>5, FilecloseShared
<1>4. CASE /\ file[w.f].ref = 1
           /\ file' = [file EXCEPT ![w.f] = [@ EXCEPT !.ref = 0, !.type = "none"]]
           /\ Trades(p, {w}, {[do |-> "last", f |-> w.f, ff |-> file[w.f]]})
  <2>1. file[w.f] \in Struct
    BY <1>1 DEF FilesInv, Numbered
  <2>2. l \in Instr /\ l.do = "last" /\ l.ff = file[f]
    BY <1>1, <1>2, <2>1, MakesLists, Within
  <2>3. /\ file' = [file EXCEPT ![f] = [@ EXCEPT !.ref = 0, !.type = "none"]]
        /\ f \in Open!File /\ f = w.f /\ file[f].ref = 1 /\ Trades(p, {w}, {l})
    BY <1>1, <1>2, <1>4
  <2> QED
    BY <1>1, <2>2, <2>3, FilecloseLast
<1> QED
  BY <1>1, <1>3, <1>4

(* The end of a pipe that a file stood for is closed.                      *)
LEMMA EndCloses ==
  ASSUME FilesInv, NEW p \in Process, NEW O, NEW N, NEW w \in In(todo[p]), w \in Instr, w.do = "last",
         \A S : Weight(O, S) = Bit(w \in S), \A S : Weight(N, S) = 0, Changes(p, O, N), file' = file,
         \/ w.ff.type = "pipe" /\ w.ff.obj \in Page /\ open' = [open EXCEPT ![w.ff.obj] = @ \ {w.ff.mode}]
         \/ w.ff.type # "pipe" /\ open' = open
  PROVE  EndsRight'
<1>1. ASSUME NEW k \in Page, NEW end \in {"r", "w"}
      PROVE  Cardinality(Piped(k, end)') + Count(todo', Ends(k, end)) = Bit(end \in open'[k])
  <2>1. PICK S : S = Ends(k, end)
    OBVIOUS
  <2>2. PICK x, c, d : x = Cardinality(Piped(k, end)) /\ c = Count(todo, S) /\ d = Count(todo', S)
    OBVIOUS
  <2>3. x \in Nat /\ c \in Nat /\ d \in Nat
    <3>1. Piped(k, end) \subseteq Open!File /\ Forms /\ Forms'
      BY DEF Piped, FilesInv, Changes
    <3> QED
      BY <2>2, <3>1, FilesFinite, WhereFinite DEF Forms
  <2>4. Cardinality(Piped(k, end)') = x
    BY <2>2 DEF Piped
  <2>5. x + c = Bit(end \in open[k])
    BY <2>1, <2>2 DEF FilesInv, EndsRight
  <2>6. d + Bit(w \in S) = c + 0
    BY <2>2 DEF Changes
  <2>7. w \in S <=> w.ff.type = "pipe" /\ w.ff.obj = k /\ w.ff.mode = end
    BY <2>1 DEF Ends
  <2>8. open \in [Page -> SUBSET {"r", "w"}]
    BY DEF FilesInv, Types
  <2>9. x + d = Bit(end \in open'[k])
    <3>1. CASE w \in S
      <4>1. c >= 1
        BY <2>1, <2>2, <3>1, InWhere DEF FilesInv, Forms
      <4>2. Bit(end \in open[k]) = 1 /\ x = 0 /\ c = 1
        BY <2>3, <2>5, <4>1 DEF Bit
      <4>3. d = 0
        BY <2>3, <2>6, <3>1, <4>2 DEF Bit
      <4>4. end \notin open'[k]
        BY <2>7, <2>8, <3>1
      <4> QED
        BY <4>2, <4>3, <4>4 DEF Bit
    <3>2. CASE w \notin S
      <4>1. d = c
        BY <2>3, <2>6, <3>2 DEF Bit
      <4>2. end \in open'[k] <=> end \in open[k]
        BY <2>7, <2>8, <3>2
      <4> QED
        BY <2>5, <4>1, <4>2 DEF Bit
    <3> QED
      BY <3>1, <3>2
  <2> QED
    BY <2>1, <2>2, <2>4, <2>9
<1> QED
  BY <1>1 DEF EndsRight

LEMMA EndsSteady ==
  ASSUME FilesInv, NEW p, NEW O, NEW N, Changes(p, O, N), file' = file, open' = open,
         \A k \in Page, end \in {"r", "w"} : Weight(O, Ends(k, end)) = 0 /\ Weight(N, Ends(k, end)) = 0
  PROVE  EndsRight'
<1>1. ASSUME NEW k \in Page, NEW end \in {"r", "w"}
      PROVE  Cardinality(Piped(k, end)') + Count(todo', Ends(k, end)) = Bit(end \in open'[k])
  <2>1. PICK c, d : c = Count(todo, Ends(k, end)) /\ d = Count(todo', Ends(k, end))
    OBVIOUS
  <2>2. c \in Nat /\ d \in Nat
    BY <2>1, WhereFinite DEF Forms, FilesInv, Changes
  <2>3. d + 0 = c + 0
    BY <2>1 DEF Changes
  <2>4. Cardinality(Piped(k, end)) + c = Bit(end \in open[k])
    BY <2>1 DEF FilesInv, EndsRight
  <2>5. Piped(k, end)' = Piped(k, end)
    BY DEF Piped
  <2> QED
    BY <2>1, <2>2, <2>3, <2>4, <2>5
<1> QED
  BY <1>1 DEF EndsRight

LEMMA LastCloseKeeps ==
  ASSUME FilesInv, NEW p \in Process, Open!LastClose(p) PROVE FilesInv'
<1>1. PICK w \in In(todo[p]) :
        /\ w \in Instr /\ w.do = "last" /\ w.ff \in Struct
        /\ UNCHANGED <<file, ofile, status, iref, holder, data, stored, openings>>
        /\ \/ /\ w.ff.type = "pipe" /\ open' = [open EXCEPT ![w.ff.obj] = @ \ {w.ff.mode}]
              /\ Trades(p, {w}, {})
           \/ /\ w.ff.type \in {"inode", "device"} /\ open' = open
              /\ Trades(p, {w}, {Open!Put(w.ff.obj)})
           \/ w.ff.type = "none" /\ open' = open /\ Trades(p, {w}, {})
  BY LastCloseDoes DEF FilesInv
<1>2. /\ w.ff.type = "pipe" => w.ff.obj \in Page
      /\ w.ff.type \in {"inode", "device"} => w.ff.obj \in Inode
  BY <1>1 DEF Struct
<1>3. ASSUME NEW O, NEW N, Trades(p, O, N), O = {w}, \A v \in N : v.do = "iput",
             Types', EndsRight', \A i \in Inode : \E n \in Nat : n = Weight(O, Puts(i)) /\ n = Weight(N, Puts(i))
      PROVE  FilesInv'
  <2>1. Changes(p, O, N) /\ \A v \in O \cup N : v.do \in {"last", "iput"}
    BY <1>1, <1>3 DEF Trades
  <2>2. \A f : Refers(f)' = Refers(f)
    BY <1>1, <1>3, <2>1, RefersSame
  <2>3. file' \in [Open!File -> Struct]
    BY <1>1 DEF FilesInv, Numbered
  <2>4. \A f \in Open!File : file'[f].ref = file[f].ref
    BY <1>1
  <2>5. RefsRight'
    BY <2>1, <2>2, <2>3, <2>4, RefsNeutral DEF FilesInv
  <2>6. PipesAlike /\ NodesAlike
    BY <1>1, FilesSame DEF FilesInv
  <2>7. InodesRight'
    BY <1>1, <1>3, <2>1, <2>6, InodesKept DEF FilesInv
  <2>8. \A v \in In(todo'[p]) : Good(p, v)'
    BY <1>1, <1>3, <2>1, Rest DEF FilesInv
  <2>9. Life'
    BY <1>1, <2>1, Runs, LifeKept DEF FilesInv
  <2>10. Forks'
    BY <1>1, <1>3, <2>1, ForksKept DEF FilesInv
  <2>11. \A f \in Open!File : Refers(f)' # {} => Refers(f) # {}
    BY <2>2
  <2> QED
    BY <1>1, <1>3, <2>5, <2>7, <2>8, <2>9, <2>10, <2>11, Quiet
<1>4. ASSUME \/ w.ff.type = "pipe" /\ open' = [open EXCEPT ![w.ff.obj] = @ \ {w.ff.mode}]
             \/ w.ff.type = "none" /\ open' = open,
             Trades(p, {w}, {})
      PROVE  FilesInv'
  <2>1. PICK O, N : O = {w} /\ N = {}
    OBVIOUS
  <2>2. Trades(p, O, N) /\ Changes(p, O, N) /\ \A v \in N : v.do = "iput"
    BY <1>4, <2>1 DEF Trades
  <2>3. (\A S : Weight(O, S) = Bit(w \in S)) /\ \A S : Weight(N, S) = 0
    BY <2>1, Weigh
  <2>4. open \in [Page -> SUBSET {"r", "w"}]
    BY DEF FilesInv, Types
  <2>5. open' \in [Page -> SUBSET {"r", "w"}]
    BY <1>2, <1>4, <2>4
  <2>6. Types'
    BY <1>1, <2>5 DEF FilesInv, Types
  <2>7. EndsRight'
    <3>1. \/ /\ w.ff.type = "pipe" /\ w.ff.obj \in Page
             /\ open' = [open EXCEPT ![w.ff.obj] = @ \ {w.ff.mode}]
          \/ w.ff.type # "pipe" /\ open' = open
      BY <1>2, <1>4
    <3>2. w \in Instr /\ w.do = "last" /\ file' = file
      BY <1>1
    <3> QED
      BY <2>2, <2>3, <3>1, <3>2, EndCloses
  <2>8. ASSUME NEW i \in Inode PROVE \E n \in Nat : n = Weight(O, Puts(i)) /\ n = Weight(N, Puts(i))
    <3>1. w \notin Puts(i)
      BY <1>1, <1>4, PutsAre
    <3>2. Weight(O, Puts(i)) = 0 /\ Weight(N, Puts(i)) = 0
      BY <2>3, <3>1 DEF Bit
    <3> QED
      BY <3>2
  <2> QED
    BY <1>3, <2>1, <2>2, <2>6, <2>7, <2>8
<1>5. ASSUME w.ff.type \in {"inode", "device"}, open' = open, Trades(p, {w}, {Open!Put(w.ff.obj)})
      PROVE  FilesInv'
  <2>1. PICK a, O, N : a = Open!Put(w.ff.obj) /\ O = {w} /\ N = {a}
    OBVIOUS
  <2>2. a.do = "iput" /\ a.i = w.ff.obj /\ a \in Instr
    BY <1>2, <1>5, <2>1, MakesLists, Within DEF Open!Put
  <2>3. Trades(p, O, N) /\ Changes(p, O, N) /\ \A v \in N : v.do = "iput"
    BY <1>5, <2>1, <2>2 DEF Trades
  <2>4. (\A S : Weight(O, S) = Bit(w \in S)) /\ \A S : Weight(N, S) = Bit(a \in S)
    BY <2>1, Weigh
  <2>5. Types'
    BY <1>1, <1>5 DEF FilesInv, Types
  <2>6. EndsRight'
    <3>1. \A k \in Page, end \in {"r", "w"} : w \notin Ends(k, end) /\ a \notin Ends(k, end)
      BY <1>5, <2>2 DEF Ends
    <3>2. \A k \in Page, end \in {"r", "w"} : Weight(O, Ends(k, end)) = 0 /\ Weight(N, Ends(k, end)) = 0
      BY <2>4, <3>1 DEF Bit
    <3> QED
      BY <1>1, <1>5, <2>3, <3>2, EndsSteady
  <2>7. ASSUME NEW i \in Inode PROVE \E n \in Nat : n = Weight(O, Puts(i)) /\ n = Weight(N, Puts(i))
    <3>1. (w \in Puts(i) <=> w.ff.obj = i) /\ (a \in Puts(i) <=> a.i = i)
      BY <1>1, <1>5, <2>2, PutsAre
    <3>2. w \in Puts(i) <=> a \in Puts(i)
      BY <2>2, <3>1
    <3> QED
      BY <2>4, <3>2, BitType DEF Bit
  <2> QED
    BY SMTT(60), <1>3, <2>1, <2>3, <2>5, <2>6, <2>7
<1> QED
  BY <1>1, <1>4, <1>5

(* fork() copies a descriptor to the child, which has done nothing yet.    *)
LEMMA ForkDupKeeps ==
  ASSUME FilesInv, NEW p \in Process, Open!ForkDup(p) PROVE FilesInv'
<1>1. PICK w \in In(todo[p]), e \in Open!Fd :
        /\ w \in Instr /\ w.do = "fork" /\ w.c \in Process
        /\ UNCHANGED <<status, open, iref, holder, data, stored, openings>>
        /\ e >= w.fd /\ e + 1 \in 0 .. NOFILE /\ ofile[p][e] \in Open!File
        /\ file' = [file EXCEPT ![ofile[p][e]].ref = @ + 1]
        /\ ofile' = [ofile EXCEPT ![w.c][e] = ofile[p][e]]
        /\ Swaps(p, {w}, {[do |-> "fork", c |-> w.c, fd |-> e + 1]})
  BY ForkDupDoes DEF FilesInv
<1>2. PICK a, f, n, c : /\ a = [do |-> "fork", c |-> w.c, fd |-> e + 1] /\ f = ofile[p][e]
                        /\ n = file[f].ref + 1 /\ c = w.c
  OBVIOUS
<1>3. PICK O, N : O = {w} /\ N = {a}
  OBVIOUS
<1>4. /\ a.do = "fork" /\ a.c = c /\ a.fd = e + 1 /\ f \in Open!File /\ c \in Process
      /\ ofile' = [ofile EXCEPT ![c][e] = f]
  BY <1>1, <1>2
<1>5. /\ Trades(p, O, N) /\ Changes(p, O, N) /\ Forms' /\ \A q \in Process : q # p => todo'[q] = todo[q]
      /\ In(todo[p]) = {w} /\ In(todo'[p]) = {a}
  BY <1>1, <1>2, <1>3, SwapsTrade DEF Swaps, Changes
<1>6. /\ status[c] = "embryo" /\ \A d \in Open!Fd : d >= w.fd => ofile[c][d] = Nothing
      /\ \A q \in Process : \A v \in In(todo[q]) : v.do = "fork" /\ v.c = c => q = p
  BY <1>1, <1>2 DEF FilesInv, Forks
<1>7. status[p] = "runs" /\ c # p /\ todo[c] = <<>> /\ ofile[c][e] = Nothing
  BY <1>1, <1>4, <1>6, Runs DEF FilesInv, Life
<1>8. \A d : \A q \in Process : Clear(d) \in In(todo'[q]) <=> Clear(d) \in In(todo[q])
  BY <1>1, <1>4, <1>5, ClearDo
<1>9. Clear(e) \notin In(todo[p]) /\ Clear(e) \notin In(todo[c]) /\ Clear(e) \notin In(todo'[c])
  BY <1>1, <1>4, <1>5, <1>7, <1>8, OfTuples, ClearDo
<1>10. ofile \in [Process -> [Open!Fd -> Open!File \cup {Nothing}]]
  BY DEF FilesInv, Types
<1>11. /\ ofile' \in [Process -> [Open!Fd -> Open!File \cup {Nothing}]] /\ ofile'[c][e] = f
       /\ \A q \in Process : q # c => ofile'[q] = ofile[q]
       /\ \A d \in Open!Fd : d # e => ofile'[c][d] = ofile[c][d]
  BY <1>4, <1>10
<1>12. Types'
  BY <1>1, <1>11 DEF FilesInv, Types
<1>13. Nothing \notin Open!File
  BY Finite DEF Open!File
<1>14. Refers(f) # {}
  <2>1. PICK x : x = <<p, e>>
    OBVIOUS
  <2>2. x \in Process \X Open!Fd /\ x[1] = p /\ x[2] = e
    BY <2>1
  <2> QED
    BY <1>2, <1>9, <2>2 DEF Refers
<1>15. n \in Nat \ {0} /\ file' = [file EXCEPT ![f].ref = n]
  <2>1. file \in [Open!File -> Struct]
    BY DEF FilesInv, Numbered
  <2>2. PICK x : x = file[f].ref
    OBVIOUS
  <2>3. x \in Nat
    BY <1>4, <2>1, <2>2 DEF Struct
  <2>4. n \in Nat \ {0}
    BY <1>2, <2>2, <2>3
  <2> QED
    BY <1>1, <1>2, <2>1, <2>4
<1>16. CalmFiles(p) /\ file'[f].ref = n /\ \A g \in Open!File : g # f => file'[g] = file[g]
  BY <1>4, <1>14, <1>15, CalmRef DEF FilesInv
<1>17. Cardinality(Refers(f)') = Cardinality(Refers(f)) + 1
  <2>1. \A q \in Process, d \in Open!Fd : q # c \/ d # e => (ofile'[q][d] = f <=> ofile[q][d] = f)
    BY <1>11
  <2>2. ofile[c][e] # f
    BY <1>4, <1>7, <1>13
  <2> QED
    BY <1>4, <1>8, <1>9, <1>11, <2>1, <2>2, OneMore
<1>18. ASSUME NEW g \in Open!File, g # f PROVE Refers(g)' = Refers(g)
  <2>1. \A q \in Process, d \in Open!Fd : ofile'[q][d] = g <=> ofile[q][d] = g
    BY <1>7, <1>11, <1>13, <1>18
  <2> QED
    BY <1>8, <2>1, NoMore
<1>19. RefsRight'
  <2>1. ASSUME NEW g \in Open!File
        PROVE  \E k, l, m, r \in Nat :
                 /\ k = Weight(O, Owns(g)) /\ l = Weight(N, Owns(g))
                 /\ m = Weight(O, Dups(g)) /\ r = Weight(N, Dups(g))
                 /\ file'[g].ref + r + Cardinality(Refers(g)) + k
                      = file[g].ref + m + Cardinality(Refers(g)') + l
    <3>1. \A v \in O \cup N : v \notin Dups(g) /\ v \notin Owns(g)
      BY <1>1, <1>3, <1>4 DEF Dups, Owns
    <3>2. /\ Weight(O, Dups(g)) = 0 /\ Weight(N, Dups(g)) = 0
          /\ Weight(O, Owns(g)) = 0 /\ Weight(N, Owns(g)) = 0
      BY <3>1, NoWeight
    <3>3. PICK x, y, z, u : /\ x = file[g].ref /\ y = file'[g].ref /\ z = Cardinality(Refers(g))
                            /\ u = Cardinality(Refers(g)')
      OBVIOUS
    <3>4. x \in Nat /\ z \in Nat
      BY <3>3, RefersFinite DEF FilesInv, Numbered, Struct
    <3>5. (y = x + 1 /\ u = z + 1) \/ (y = x /\ u = z)
      BY <1>2, <1>16, <1>17, <1>18, <3>3
    <3>6. y + 0 + z + 0 = x + 0 + u + 0
      BY <3>4, <3>5
    <3> QED
      BY <3>2, <3>3, <3>6
  <2>2. file' \in [Open!File -> Struct]
    BY <1>16 DEF CalmFiles
  <2> QED
    BY <1>5, <2>1, <2>2, RefsKept DEF FilesInv
<1>20. Life'
  <2>1. \A q \in Process : status[q] = "unused" => ofile'[q] = ofile[q]
    BY <1>6, <1>11
  <2> QED
    BY <1>1, <1>5, <1>7, <2>1, LifeKept DEF FilesInv
<1>21. Forks'
  <2>1. ASSUME NEW q \in Process, NEW v \in In(todo'[q]), v.do = "fork"
        PROVE  /\ status'[v.c] = "embryo" /\ \A d \in Open!Fd : d >= v.fd => ofile'[v.c][d] = Nothing
               /\ \A r \in Process : \A u \in In(todo'[r]) : u.do = "fork" /\ u.c = v.c => r = q
    <3>1. CASE q = p
      <4>1. v = a
        BY <1>5, <2>1, <3>1
      <4>2. \A d \in Open!Fd : d >= a.fd => d >= w.fd /\ d # e
        <5>1. w.fd \in Nat /\ e \in Nat
          BY <1>1, Fields DEF Open!Fd
        <5> QED
          BY <1>1, <1>4, <5>1 DEF Open!Fd
      <4>3. \A d \in Open!Fd : d >= a.fd => ofile'[c][d] = Nothing
        BY <1>6, <1>11, <4>2
      <4>4. \A r \in Process : \A u \in In(todo'[r]) : u.do = "fork" /\ u.c = c => r = p
        BY <1>5, <1>6
      <4> QED
        BY <1>1, <1>4, <1>6, <3>1, <4>1, <4>3, <4>4
    <3>2. CASE q # p
      <4>1. v \in In(todo[q]) /\ v.c # c /\ v.c \in Process
        <5>1. v \in In(todo[q])
          BY <1>5, <2>1, <3>2
        <5>2. v \in Instr
          BY <5>1, SoleOf DEF FilesInv
        <5> QED
          BY <1>6, <2>1, <3>2, <5>1, <5>2, Fields
      <4>2. /\ status[v.c] = "embryo" /\ \A d \in Open!Fd : d >= v.fd => ofile[v.c][d] = Nothing
            /\ \A r \in Process : \A u \in In(todo[r]) : u.do = "fork" /\ u.c = v.c => r = q
        BY <2>1, <4>1 DEF FilesInv, Forks
      <4>3. \A r \in Process : \A u \in In(todo'[r]) : u.do = "fork" /\ u.c = v.c => r = q
        BY <1>4, <1>5, <4>1, <4>2
      <4> QED
        BY <1>1, <1>11, <4>1, <4>2, <4>3
    <3> QED
      BY <3>1, <3>2
  <2> QED
    BY <2>1 DEF Forks
<1>22. \A v \in In(todo'[p]) : Good(p, v)'
  BY <1>4, <1>5, Idle
<1>23. \A g \in Open!File : Refers(g)' # {} => Refers(g) # {}
  BY <1>14, <1>18
<1>24. \A q \in Process : q # p /\ todo[q] # <<>> => ofile'[q] = ofile[q]
  BY <1>7, <1>11
<1>25. \A v \in O \cup N : v.do \notin {"last", "iput", "open", "openfd", "unlockput"}
  BY <1>1, <1>3, <1>4
<1> QED
  BY ZenonT(60), <1>1, <1>4, <1>5, <1>12, <1>14, <1>15, <1>19, <1>20, <1>21, <1>22, <1>23, <1>24, <1>25, RefChanges

(***************************************************************************)
(* A process is born, or starts to be.                                     *)
(***************************************************************************)
(* Nothing changes in files, references, inodes and pipes.                 *)
LEMMA NothingCounted ==
  ASSUME FilesInv, NEW p \in Process, NEW O, NEW N, Trades(p, O, N),
         UNCHANGED <<file, ofile, open, iref, holder, data, stored, openings>>, Types',
         \A w \in O \cup N : w.do \in {"fork", "exit"},
         \A w \in In(todo'[p]) : Good(p, w)',
         Life', Forks'
  PROVE  FilesInv'
<1>1. Changes(p, O, N)
  BY DEF Trades
<1>2. \A w \in O \cup N : w.do \notin {"clear", "close", "openfd", "pipe1", "page", "pipefds", "dup",
                                        "iput", "open", "unlockput", "last"}
  OBVIOUS
<1>3. \A f : Refers(f)' = Refers(f)
  BY <1>2, RefersSame
<1>4. file' \in [Open!File -> Struct]
  BY DEF FilesInv, Numbered
<1>5. RefsRight'
  BY <1>1, <1>2, <1>3, <1>4, RefsNeutral DEF FilesInv
<1>6. PipesAlike /\ NodesAlike
  BY FilesSame DEF FilesInv
<1>7. EndsRight' /\ InodesRight'
  BY <1>1, <1>2, <1>6, EndsKept, InodesNeutral DEF FilesInv
<1>8. \A f \in Open!File : Refers(f)' # {} => Refers(f) # {}
  BY <1>3
<1> QED
  BY <1>5, <1>7, <1>8, Quiet

LEMMA BornKeeps ==
  ASSUME FilesInv, NEW p \in Process, Open!Born(p) PROVE FilesInv'
<1>1. PICK w \in In(todo[p]) :
        /\ w \in Instr /\ w.do = "fork" /\ w.c \in Process
        /\ UNCHANGED <<file, ofile, open, iref, holder, data, stored, openings>>
        /\ status' = [status EXCEPT ![w.c] = "runs"] /\ Swaps(p, {w}, {})
  BY BornDoes DEF FilesInv
<1>2. PICK O, N, c : O = {w} /\ N = {} /\ c = w.c
  OBVIOUS
<1>3. /\ Trades(p, O, N) /\ Changes(p, O, N) /\ \A q \in Process : q # p => todo'[q] = todo[q]
      /\ In(todo'[p]) = {}
  BY <1>1, <1>2, SwapsTrade DEF Swaps, Changes
<1>4. status \in [Process -> {"unused", "embryo", "runs"}]
  BY DEF FilesInv, Types
<1>5. /\ status' \in [Process -> {"unused", "embryo", "runs"}] /\ status'[c] = "runs"
      /\ \A q \in Process : q # c => status'[q] = status[q]
  BY <1>1, <1>2, <1>4
<1>6. Types'
  BY <1>1, <1>5 DEF FilesInv, Types
<1>7. status[p] = "runs"
  BY Runs DEF FilesInv
<1>8. \A q \in Process : \A v \in In(todo[q]) : v.do = "fork" /\ v.c = c => q = p
  BY <1>1, <1>2 DEF FilesInv, Forks
<1>9. Life'
  <2>1. ASSUME NEW q \in Process
        PROVE  /\ status'[q] # "runs" => todo'[q] = <<>>
               /\ status'[q] = "unused" => \A e \in Open!Fd : ofile'[q][e] = Nothing
    <3>1. CASE q = c
      BY <1>5, <3>1
    <3>2. CASE q # c
      <4>1. status'[q] = status[q]
        BY <1>5, <3>2
      <4>2. status'[q] # "runs" => q # p /\ todo[q] = <<>>
        BY <1>7, <4>1 DEF FilesInv, Life
      <4> QED
        BY <1>1, <1>3, <4>1, <4>2 DEF FilesInv, Life
    <3> QED
      BY <3>1, <3>2
  <2> QED
    BY <2>1 DEF Life
<1>10. Forks'
  <2>1. ASSUME NEW q \in Process, NEW v \in In(todo'[q]), v.do = "fork"
        PROVE  /\ status'[v.c] = "embryo" /\ \A d \in Open!Fd : d >= v.fd => ofile'[v.c][d] = Nothing
               /\ \A r \in Process : \A u \in In(todo'[r]) : u.do = "fork" /\ u.c = v.c => r = q
    <3>1. q # p /\ v \in In(todo[q])
      BY <1>3, <2>1
    <3>2. v.c # c /\ v.c \in Process
      BY <1>8, <2>1, <3>1, SoleOf, Fields DEF FilesInv
    <3>3. /\ status[v.c] = "embryo" /\ \A d \in Open!Fd : d >= v.fd => ofile[v.c][d] = Nothing
          /\ \A r \in Process : \A u \in In(todo[r]) : u.do = "fork" /\ u.c = v.c => r = q
      BY <2>1, <3>1 DEF FilesInv, Forks
    <3>4. \A r \in Process : \A u \in In(todo'[r]) : u.do = "fork" /\ u.c = v.c => r = q
      BY <1>3, <3>3
    <3> QED
      BY <1>1, <1>5, <3>2, <3>3, <3>4
  <2> QED
    BY <2>1 DEF Forks
<1>11. \A v \in O \cup N : v.do \in {"fork", "exit"}
  BY <1>1, <1>2
<1> QED
  BY <1>1, <1>3, <1>6, <1>9, <1>10, <1>11, NothingCounted

LEMMA ForkKeeps ==
  ASSUME FilesInv, NEW p \in Process, NEW c \in Process, Open!Fork(p, c) PROVE FilesInv'
<1>1. PICK a, is : a = [do |-> "fork", c |-> c, fd |-> 0] /\ is = <<a>>
  OBVIOUS
<1>2. /\ status[c] = "unused" /\ status' = [status EXCEPT ![c] = "embryo"] /\ Open!Begins(p, is)
      /\ UNCHANGED <<file, ofile, open, iref, holder, data, stored, openings>>
  BY <1>1 DEF Open!Fork, Open!kernel, Open!contents
<1>3. a.do = "fork" /\ a.c = c /\ a.fd = 0 /\ a \in Instr
  <2>1. 0 \in 0 .. NOFILE
    BY Finite
  <2> QED
    BY <1>1, <2>1, MakesLoops
<1>4. status[p] = "runs" /\ In(todo[p]) = {} /\ Swaps(p, {}, {a})
  BY <1>1, <1>2, <1>3, BeginsDoes DEF FilesInv
<1>5. PICK O, N : O = {} /\ N = {a}
  OBVIOUS
<1>6. /\ Trades(p, O, N) /\ Changes(p, O, N) /\ \A q \in Process : q # p => todo'[q] = todo[q]
      /\ In(todo'[p]) = {a}
  BY <1>4, <1>5, SwapsTrade DEF Swaps, Changes
<1>7. status \in [Process -> {"unused", "embryo", "runs"}]
  BY DEF FilesInv, Types
<1>8. /\ status' \in [Process -> {"unused", "embryo", "runs"}] /\ status'[c] = "embryo"
      /\ \A q \in Process : q # c => status'[q] = status[q]
  BY <1>2, <1>7
<1>9. Types'
  BY <1>2, <1>8 DEF FilesInv, Types
<1>10. /\ c # p /\ \A e \in Open!Fd : ofile[c][e] = Nothing
       /\ \A q \in Process : \A v \in In(todo[q]) : ~ (v.do = "fork" /\ v.c = c)
  BY <1>2, <1>4 DEF FilesInv, Life, Forks
<1>11. Life'
  <2>1. ASSUME NEW q \in Process
        PROVE  /\ status'[q] # "runs" => todo'[q] = <<>>
               /\ status'[q] = "unused" => \A e \in Open!Fd : ofile'[q][e] = Nothing
    <3>1. status'[q] # "runs" => q # p /\ status[q] # "runs"
      BY <1>2, <1>4, <1>8, <1>10
    <3>2. status'[q] = "unused" => status[q] = "unused"
      BY <1>8
    <3> QED
      BY <1>2, <1>6, <3>1, <3>2 DEF FilesInv, Life
  <2> QED
    BY <2>1 DEF Life
<1>12. Forks'
  <2>1. ASSUME NEW q \in Process, NEW v \in In(todo'[q]), v.do = "fork"
        PROVE  /\ status'[v.c] = "embryo" /\ \A d \in Open!Fd : d >= v.fd => ofile'[v.c][d] = Nothing
               /\ \A r \in Process : \A u \in In(todo'[r]) : u.do = "fork" /\ u.c = v.c => r = q
    <3>1. CASE q = p
      <4>1. v = a
        BY <1>6, <2>1, <3>1
      <4>2. \A r \in Process : \A u \in In(todo'[r]) : u.do = "fork" /\ u.c = c => r = p
        BY <1>6, <1>10
      <4> QED
        BY <1>2, <1>3, <1>8, <1>10, <3>1, <4>1, <4>2
    <3>2. CASE q # p
      <4>1. v \in In(todo[q])
        BY <1>6, <2>1, <3>2
      <4>2. v.c # c /\ v.c \in Process
        BY <1>10, <2>1, <4>1, SoleOf, Fields DEF FilesInv
      <4>3. /\ status[v.c] = "embryo" /\ \A d \in Open!Fd : d >= v.fd => ofile[v.c][d] = Nothing
            /\ \A r \in Process : \A u \in In(todo[r]) : u.do = "fork" /\ u.c = v.c => r = q
        BY <2>1, <4>1 DEF FilesInv, Forks
      <4>4. \A r \in Process : \A u \in In(todo'[r]) : u.do = "fork" /\ u.c = v.c => r = q
        BY <1>3, <1>6, <4>2, <4>3
      <4> QED
        BY <1>2, <1>8, <4>2, <4>3, <4>4
    <3> QED
      BY <3>1, <3>2
  <2> QED
    BY <2>1 DEF Forks
<1>13. \A v \in O \cup N : v.do \in {"fork", "exit"}
  BY <1>3, <1>5
<1>14. \A v \in In(todo'[p]) : Good(p, v)'
  BY <1>3, <1>6, Idle
<1> QED
  BY <1>2, <1>6, <1>9, <1>11, <1>12, <1>13, <1>14, NothingCounted

(***************************************************************************)
(* exit().                                                                 *)
(***************************************************************************)
LEMMA DeadKeeps ==
  ASSUME FilesInv, NEW p \in Process, Open!Dead(p) PROVE FilesInv'
<1>1. PICK w \in In(todo[p]) :
        /\ w \in Instr /\ w.do = "exit"
        /\ UNCHANGED <<file, ofile, open, iref, holder, data, stored, openings>>
        /\ status' = [status EXCEPT ![p] = "unused"]
        /\ \A d \in Open!Fd : d >= w.fd => ofile[p][d] = Nothing
        /\ Swaps(p, {w}, {})
  BY DeadDoes DEF FilesInv
<1>2. PICK O, N : O = {w} /\ N = {}
  OBVIOUS
<1>3. /\ Trades(p, O, N) /\ Changes(p, O, N) /\ \A q \in Process : q # p => todo'[q] = todo[q]
      /\ In(todo[p]) = {w} /\ In(todo'[p]) = {} /\ Forms'
  BY <1>1, <1>2, SwapsTrade DEF Swaps, Changes
<1>4. status \in [Process -> {"unused", "embryo", "runs"}]
  BY DEF FilesInv, Types
<1>5. /\ status' \in [Process -> {"unused", "embryo", "runs"}] /\ status'[p] = "unused"
      /\ \A q \in Process : q # p => status'[q] = status[q]
  BY <1>1, <1>4
<1>6. Types'
  BY <1>1, <1>5 DEF FilesInv, Types
<1>7. status[p] = "runs"
  BY Runs DEF FilesInv
<1>8. todo'[p] = <<>>
  <2>1. PICK s : s = todo'[p]
    OBVIOUS
  <2>2. s \in Seq(Instr) /\ In(s) = {}
    BY <1>3, <2>1 DEF Forms, Formed
  <2>3. s # <<>> => s[1] \in In(s)
    BY <2>2 DEF In
  <2> QED
    BY <2>1, <2>2, <2>3
<1>9. \A e \in Open!Fd : ofile[p][e] = Nothing
  <2>1. ASSUME NEW e \in Open!Fd, e < w.fd PROVE ofile[p][e] = Nothing
    <3>1. Passed(p, w)
      BY DEF FilesInv, Works, Good
    <3>2. Clear(e) # w
      BY <1>1, ClearDo
    <3> QED
      BY <1>1, <1>3, <2>1, <3>1, <3>2 DEF Passed
  <2>2. w.fd \in Nat
    BY <1>1, Fields
  <2>3. ASSUME NEW e \in Open!Fd PROVE e < w.fd \/ e >= w.fd
    BY <2>2 DEF Open!Fd
  <2> QED
    BY <1>1, <2>1, <2>3
<1>10. Life'
  <2>1. ASSUME NEW q \in Process
        PROVE  /\ status'[q] # "runs" => todo'[q] = <<>>
               /\ status'[q] = "unused" => \A e \in Open!Fd : ofile'[q][e] = Nothing
    BY <1>1, <1>3, <1>5, <1>8, <1>9 DEF FilesInv, Life
  <2> QED
    BY <2>1 DEF Life
<1>11. Forks'
  <2>1. \A q \in Process : status[q] = "embryo" => status'[q] = "embryo" /\ ofile'[q] = ofile[q]
    BY <1>1, <1>5, <1>7
  <2> QED
    BY <1>2, <1>3, <2>1, ForksKept DEF FilesInv
<1>12. \A v \in O \cup N : v.do \in {"fork", "exit"}
  BY <1>1, <1>2
<1> QED
  BY <1>1, <1>3, <1>6, <1>10, <1>11, <1>12, NothingCounted

LEMMA ExitClosesKeeps ==
  ASSUME FilesInv, NEW p \in Process, Open!ExitCloses(p) PROVE FilesInv'
<1>1. PICK w \in In(todo[p]), e \in Open!Fd :
        /\ w \in Instr /\ w.do = "exit" /\ e + 1 \in 0 .. NOFILE
        /\ UNCHANGED <<file, ofile, status, open, iref, holder, data, stored, openings>>
        /\ e >= w.fd /\ ofile[p][e] \in Open!File
        /\ \A d \in Open!Fd : w.fd <= d /\ d < e => ofile[p][d] = Nothing
        /\ Swaps(p, {w}, {Open!Close(ofile[p][e]), Clear(e), [do |-> "exit", fd |-> e + 1]})
  BY ExitClosesDoes DEF FilesInv
<1>2. PICK f, a, b, c : /\ f = ofile[p][e] /\ a = Open!Close(f) /\ b = Clear(e)
                        /\ c = [do |-> "exit", fd |-> e + 1]
  OBVIOUS
<1>3. PICK O, N : O = {w} /\ N = {a, b, c}
  OBVIOUS
<1>4. /\ f \in Open!File /\ a \in Instr /\ a.do = "close" /\ a.f = f
      /\ b \in Instr /\ b.do = "clear" /\ b.fd = e
      /\ c \in Instr /\ c.do = "exit" /\ c.fd = e + 1 /\ a # b /\ a # c /\ b # c
  <2>1. f \in Open!File /\ a.do = "close" /\ a.f = f /\ c.do = "exit" /\ c.fd = e + 1
    BY <1>1, <1>2 DEF Open!Close
  <2>2. b.do = "clear" /\ b.fd = e
    BY <1>2, ClearDo
  <2>3. a \in Instr /\ b \in Instr /\ c \in Instr
    BY <1>1, <1>2, <2>1, MakesLists, MakesLoops, Within
  <2> QED
    BY <2>1, <2>2, <2>3
<1>5. /\ Trades(p, O, N) /\ Changes(p, O, N) /\ \A q \in Process : q # p => todo'[q] = todo[q]
      /\ In(todo[p]) = {w} /\ In(todo'[p]) = {a, b, c}
  BY <1>1, <1>2, <1>3, SwapsTrade DEF Swaps, Changes
<1>6. Types'
  BY <1>1 DEF FilesInv, Types
<1>7. /\ \A d : Clear(d) \notin In(todo[p])
      /\ \A d : Clear(d) \in In(todo'[p]) <=> d = e
  BY <1>1, <1>2, <1>4, <1>5, ClearDo
<1>8. Cardinality(Refers(f)) = Cardinality(Refers(f)') + 1
  <2>1. ofile[p][e] = f /\ Clear(e) \notin In(todo[p]) /\ Clear(e) \in In(todo'[p])
    BY <1>2, <1>7
  <2>2. \A q \in Process, d \in Open!Fd : q # p \/ d # e =>
          ((ofile'[q][d] = f /\ Clear(d) \notin In(todo'[q])) <=> (ofile[q][d] = f /\ Clear(d) \notin In(todo[q])))
    BY <1>1, <1>5, <1>7
  <2> QED
    BY <2>1, <2>2, OneFewer
<1>9. ASSUME NEW g, g # f PROVE Refers(g)' = Refers(g)
  <2>1. \A q \in Process, d \in Open!Fd :
          (ofile'[q][d] = g /\ Clear(d) \notin In(todo'[q])) <=> (ofile[q][d] = g /\ Clear(d) \notin In(todo[q]))
    BY <1>1, <1>2, <1>5, <1>7, <1>9
  <2> QED
    BY <2>1, NoMore
<1>10. RefsRight'
  <2>1. ASSUME NEW g \in Open!File
        PROVE  \E k, l, m, r \in Nat :
                 /\ k = Weight(O, Owns(g)) /\ l = Weight(N, Owns(g))
                 /\ m = Weight(O, Dups(g)) /\ r = Weight(N, Dups(g))
                 /\ file'[g].ref + r + Cardinality(Refers(g)) + k
                      = file[g].ref + m + Cardinality(Refers(g)') + l
    <3>1. \A v \in O \cup N : v \notin Dups(g)
      BY <1>1, <1>3, <1>4 DEF Dups
    <3>2. w \notin Owns(g) /\ b \notin Owns(g) /\ c \notin Owns(g) /\ (a \in Owns(g) <=> f = g)
      BY <1>1, <1>4, OwnsAre
    <3>3. \A v \in O : v \notin Owns(g)
      BY <1>3, <3>2
    <3>4. /\ Weight(O, Dups(g)) = 0 /\ Weight(N, Dups(g)) = 0
          /\ Weight(O, Owns(g)) = 0
      BY <3>1, <3>3, NoWeight
    <3>5. Weight(N, Owns(g)) = Bit(a \in Owns(g)) + Bit(b \in Owns(g)) + Bit(c \in Owns(g))
      BY <1>3, <1>4, Weigh3
    <3>6. PICK l : l = Weight(N, Owns(g))
      OBVIOUS
    <3>7. l = IF f = g THEN 1 ELSE 0
      BY <3>2, <3>5, <3>6 DEF Bit
    <3>8. PICK x, z, u : x = file[g].ref /\ z = Cardinality(Refers(g)) /\ u = Cardinality(Refers(g)')
      OBVIOUS
    <3>9. x \in Nat /\ z \in Nat /\ u \in Nat /\ file'[g].ref = x
      <4>1. x \in Nat /\ z \in Nat /\ file'[g].ref = x
        BY <1>1, <3>8, RefersFinite DEF FilesInv, Numbered, Struct
      <4>2. u \in Nat
        <5>1. CASE g = f
          <6>1. IsFiniteSet(Refers(g)') /\ Cardinality(Refers(g)') \in Nat
            <7>1. Refers(g)' \subseteq Process \X Open!Fd
              BY DEF Refers
            <7> QED
              BY <7>1, RefersFinite, SetCount
          <6> QED
            BY <3>8, <6>1
        <5>2. CASE g # f
          BY <1>9, <3>8, <4>1, <5>2
        <5> QED
          BY <5>1, <5>2
      <4> QED
        BY <4>1, <4>2
    <3>10. x + 0 + z + 0 = x + 0 + u + l
      <4>1. CASE g = f
        BY <1>8, <3>7, <3>8, <3>9, <4>1
      <4>2. CASE g # f
        BY <1>9, <3>7, <3>8, <3>9, <4>2
      <4> QED
        BY <4>1, <4>2
    <3>11. l \in Nat
      BY <3>7
    <3> QED
      BY <3>4, <3>6, <3>8, <3>9, <3>10, <3>11
  <2>2. file' \in [Open!File -> Struct]
    BY <1>1 DEF FilesInv, Numbered
  <2> QED
    BY <1>5, <2>1, <2>2, RefsKept DEF FilesInv
<1>11. PipesAlike /\ NodesAlike
  BY <1>1, FilesSame DEF FilesInv
<1>12. /\ \A v \in O \cup N : v.do \notin {"last", "iput", "open", "openfd", "unlockput"}
       /\ \A v \in N : v.do # "fork"
  BY <1>1, <1>3, <1>4
<1>13. EndsRight' /\ InodesRight'
  BY <1>1, <1>5, <1>11, <1>12, EndsKept, InodesNeutral DEF FilesInv
<1>14. Good(p, c)'
  <2>1. ASSUME NEW d \in Open!Fd, d < e + 1
        PROVE  ofile'[p][d] = Nothing \/ Clear(d) \in In(todo'[p])
    <3>1. w.fd \in Nat /\ d \in Nat /\ e \in Nat
      BY <1>1, Fields DEF Open!Fd
    <3>2. CASE d = e
      BY <1>7, <3>2
    <3>3. CASE w.fd <= d /\ d < e
      BY <1>1, <3>3
    <3>4. CASE d < w.fd
      <4>1. Passed(p, w)
        BY DEF FilesInv, Works, Good
      <4>2. ofile[p][d] = Nothing \/ Clear(d) \in In(todo[p])
        BY <1>1, <3>4, <4>1 DEF Passed
      <4> QED
        BY <1>1, <1>7, <4>2
    <3> QED
      BY <2>1, <3>1, <3>2, <3>3, <3>4
  <2> QED
    BY <1>4, <2>1 DEF Good, Passed, Unready, Dupped, Moving, Locked, Still
<1>15. \A v \in In(todo'[p]) : Good(p, v)'
  BY <1>4, <1>5, <1>14, Idle
<1>16. Life'
  BY <1>1, <1>5, Runs, LifeKept DEF FilesInv
<1>17. Forks'
  BY <1>1, <1>5, <1>12, ForksKept DEF FilesInv
<1>18. ASSUME NEW g \in Open!File, Refers(g)' # {} PROVE Refers(g) # {}
  <2>1. Refers(g)' \subseteq Refers(g)
    BY <1>1, <1>5, <1>7 DEF Refers
  <2> QED
    BY <1>18, <2>1
<1> QED
  BY <1>1, <1>5, <1>6, <1>10, <1>13, <1>15, <1>16, <1>17, <1>18, Quiet

(* The descriptor of a file that exit() has closed is cleared.             *)
LEMMA ExitClearsKeeps ==
  ASSUME FilesInv, NEW p \in Process, Open!ExitClears(p) PROVE FilesInv'
<1>1. PICK w \in In(todo[p]) :
        /\ w \in Instr /\ w.do = "clear" /\ w.fd \in Open!Fd /\ w = Clear(w.fd)
        /\ UNCHANGED <<file, status, open, iref, holder, data, stored, openings>>
        /\ ofile' = [ofile EXCEPT ![p][w.fd] = Nothing] /\ Trades(p, {w}, {})
  BY ExitClearsDoes DEF FilesInv
<1>2. PICK O, N, e : O = {w} /\ N = {} /\ e = w.fd
  OBVIOUS
<1>3. e \in Open!Fd /\ w = Clear(e)
  BY <1>1, <1>2
<1>4. Trades(p, O, N) /\ Changes(p, O, N) /\ Forms' /\ \A q \in Process : q # p => todo'[q] = todo[q]
  BY <1>1, <1>2 DEF Trades, Changes
<1>5. PICK K \in SUBSET Closing : In(todo[p]) = {w} \cup K /\ In(todo'[p]) = K
  BY <1>1 DEF Trades
<1>6. ofile \in [Process -> [Open!Fd -> Open!File \cup {Nothing}]]
  BY DEF FilesInv, Types
<1>7. /\ ofile' \in [Process -> [Open!Fd -> Open!File \cup {Nothing}]] /\ ofile'[p][e] = Nothing
      /\ \A q \in Process : q # p => ofile'[q] = ofile[q]
      /\ \A d \in Open!Fd : d # e => ofile'[p][d] = ofile[p][d]
  BY <1>1, <1>2, <1>3, <1>6
<1>8. Types'
  BY <1>1, <1>7 DEF FilesInv, Types
<1>9. Nothing \notin Open!File
  BY Finite DEF Open!File
<1>10. \A d : d # e => (Clear(d) \in In(todo'[p]) <=> Clear(d) \in In(todo[p]))
  BY <1>3, <1>5, ClearDo
<1>11. ASSUME NEW g \in Open!File PROVE Refers(g)' = Refers(g)
  <2>1. Clear(e) \in In(todo[p]) /\ ofile'[p][e] # g
    BY <1>3, <1>7, <1>9
  <2>2. ASSUME NEW q \in Process, NEW d \in Open!Fd
        PROVE  (ofile'[q][d] = g /\ Clear(d) \notin In(todo'[q]))
                 <=> (ofile[q][d] = g /\ Clear(d) \notin In(todo[q]))
    <3>1. CASE q # p
      BY <1>4, <1>7, <3>1
    <3>2. CASE q = p /\ d # e
      BY <1>7, <1>10, <3>2
    <3>3. CASE q = p /\ d = e
      BY <2>1, <3>3
    <3> QED
      BY <3>1, <3>2, <3>3
  <2> QED
    BY <2>2, NoMore
<1>12. file' \in [Open!File -> Struct]
  BY <1>1 DEF FilesInv, Numbered
<1>13. \A v \in O \cup N : v.do \notin {"close", "openfd", "pipe1", "page", "pipefds", "dup",
                                         "iput", "open", "unlockput", "last"}
  BY <1>1, <1>2
<1>14. \A f \in Open!File : file'[f].ref = file[f].ref /\ Refers(f)' = Refers(f)
  BY <1>1, <1>11
<1>15. RefsRight'
  BY <1>4, <1>12, <1>13, <1>14, RefsNeutral DEF FilesInv
<1>16. PipesAlike /\ NodesAlike /\ Numbered' /\ Kinds' /\ Sizes' /\ Written'
  BY <1>1, FilesSame DEF FilesInv
<1>17. EndsRight' /\ InodesRight'
  BY <1>1, <1>4, <1>13, <1>16, EndsKept, InodesNeutral DEF FilesInv
<1>18. Calm(p)
  BY <1>1, <1>7, CalmSame DEF Calm, FilesInv
<1>19. ASSUME NEW v \in In(todo'[p]) PROVE Good(p, v)'
  <2>1. v \in In(todo[p]) /\ v.do \in {"close", "unlockput", "clear", "exit"}
    BY <1>5, ClosingDo
  <2>2. CASE v.do \in {"close", "clear"}
    BY <2>2, Idle
  <2>3. CASE v.do = "unlockput"
    <3>1. holder[v.i] = p
      BY <2>1, <2>3 DEF FilesInv, Works, Good, Locked
    <3> QED
      BY <1>1, <2>3, <3>1 DEF Good, Passed, Unready, Dupped, Moving, Locked, Still
  <2>4. CASE v.do = "exit"
    <3>1. \A d \in Open!Fd : d < v.fd => ofile[p][d] = Nothing \/ Clear(d) \in In(todo[p])
      BY <2>1, <2>4 DEF FilesInv, Works, Good, Passed
    <3>2. \A d \in Open!Fd : d < v.fd => ofile'[p][d] = Nothing \/ Clear(d) \in In(todo'[p])
      BY <1>7, <1>10, <3>1
    <3> QED
      BY <2>4, <3>2 DEF Good, Passed, Unready, Dupped, Moving, Locked, Still
  <2> QED
    BY <2>1, <2>2, <2>3, <2>4
<1>20. Works'
  BY <1>4, <1>18, <1>19, WorksKept DEF FilesInv
<1>21. Typed'
  BY <1>11, <1>18, TypedKept DEF FilesInv
<1>22. status[p] = "runs"
  BY Runs DEF FilesInv
<1>23. Life'
  <2>1. \A q \in Process : status[q] = "unused" => ofile'[q] = ofile[q]
    BY <1>7, <1>22
  <2> QED
    BY <1>1, <1>4, <1>22, <2>1, LifeKept DEF FilesInv
<1>24. Forks'
  <2>1. \A c \in Process : status[c] = "embryo" => status'[c] = "embryo" /\ ofile'[c] = ofile[c]
    BY <1>1, <1>7, <1>22
  <2> QED
    BY <1>2, <1>4, <2>1, ForksKept DEF FilesInv
<1> QED
  BY <1>4, <1>8, <1>15, <1>16, <1>17, <1>20, <1>21, <1>23, <1>24 DEF FilesInv

(***************************************************************************)
(* close() and dup().                                                      *)
(***************************************************************************)
(* Only the descriptors of p change.                                       *)
LEMMA DescriptorsChange ==
  ASSUME FilesInv, NEW p \in Process, NEW O, NEW N, Trades(p, O, N), status[p] = "runs",
         UNCHANGED <<file, status, open, iref, holder, data, stored, openings>>, Types',
         \A q \in Process : q # p => ofile'[q] = ofile[q],
         \A w \in O \cup N : w.do \in {"close", "dup"},
         \A w \in In(todo'[p]) : Good(p, w)',
         \A g \in Open!File : Refers(g)' # {} => Refers(g) # {},
         RefsRight'
  PROVE  FilesInv'
<1>1. Changes(p, O, N) /\ Forms'
  BY DEF Trades, Changes
<1>2. PipesAlike /\ NodesAlike /\ Numbered' /\ Kinds' /\ Sizes' /\ Written'
  BY FilesSame DEF FilesInv
<1>3. /\ \A v \in O \cup N : v.do \notin {"last", "iput", "open", "openfd", "unlockput"}
      /\ \A v \in N : v.do # "fork"
  OBVIOUS
<1>4. EndsRight' /\ InodesRight'
  BY <1>1, <1>2, <1>3, EndsKept, InodesNeutral DEF FilesInv
<1>5. Calm(p)
  BY CalmSame DEF Calm, FilesInv
<1>6. Works' /\ Typed'
  BY <1>1, <1>5, WorksKept, TypedKept DEF FilesInv
<1>7. Life'
  BY <1>1, LifeKept DEF FilesInv
<1>8. Forks'
  BY <1>3, ForksKept DEF FilesInv
<1> QED
  BY <1>1, <1>2, <1>4, <1>6, <1>7, <1>8 DEF FilesInv

LEMMA SysCloseKeeps ==
  ASSUME FilesInv, NEW p \in Process, NEW e \in Open!Fd, Open!SysClose(p, e) PROVE FilesInv'
<1>1. PICK f, a, is : f = ofile[p][e] /\ a = Open!Close(f) /\ is = <<a>>
  OBVIOUS
<1>2. /\ e \in Open!Opened(p) /\ ofile' = [ofile EXCEPT ![p][e] = Nothing] /\ Open!Begins(p, is)
      /\ UNCHANGED <<file, status, open, iref, holder, data, stored, openings>>
  BY <1>1 DEF Open!SysClose, Open!kernel, Open!contents
<1>3. f \in Open!File /\ a \in Instr /\ a.do = "close" /\ a.f = f
  <2>1. f \in Open!File
    BY <1>1, <1>2, FreeFds DEF FilesInv
  <2> QED
    BY <1>1, <2>1, MakesLists, Within DEF Open!Close
<1>4. status[p] = "runs" /\ In(todo[p]) = {} /\ Swaps(p, {}, {a})
  BY <1>1, <1>2, <1>3, BeginsDoes DEF FilesInv
<1>5. PICK O, N : O = {} /\ N = {a}
  OBVIOUS
<1>6. /\ Trades(p, O, N) /\ Changes(p, O, N) /\ \A q \in Process : q # p => todo'[q] = todo[q]
      /\ In(todo'[p]) = {a}
  BY <1>4, <1>5, SwapsTrade DEF Swaps, Changes
<1>7. ofile \in [Process -> [Open!Fd -> Open!File \cup {Nothing}]]
  BY DEF FilesInv, Types
<1>8. /\ ofile' \in [Process -> [Open!Fd -> Open!File \cup {Nothing}]] /\ ofile'[p][e] = Nothing
      /\ \A q \in Process : q # p => ofile'[q] = ofile[q]
      /\ \A d \in Open!Fd : d # e => ofile'[p][d] = ofile[p][d]
  BY <1>2, <1>7
<1>9. Types'
  BY <1>2, <1>8 DEF FilesInv, Types
<1>10. Nothing \notin Open!File
  BY Finite DEF Open!File
<1>11. \A d : Clear(d) \notin In(todo[p]) /\ Clear(d) \notin In(todo'[p])
  BY <1>3, <1>4, <1>6, ClearDo
<1>12. \A q \in Process : \A d : Clear(d) \in In(todo'[q]) <=> Clear(d) \in In(todo[q])
  BY <1>6, <1>11
<1>13. Cardinality(Refers(f)) = Cardinality(Refers(f)') + 1
  <2>1. ofile[p][e] = f /\ ofile'[p][e] # f
    BY <1>1, <1>3, <1>8, <1>10
  <2>2. \A q \in Process, d \in Open!Fd : q # p \/ d # e => (ofile'[q][d] = f <=> ofile[q][d] = f)
    BY <1>8
  <2> QED
    BY <1>11, <1>12, <2>1, <2>2, OneFewer
<1>14. ASSUME NEW g \in Open!File, g # f PROVE Refers(g)' = Refers(g)
  <2>1. \A q \in Process, d \in Open!Fd : ofile'[q][d] = g <=> ofile[q][d] = g
    BY <1>1, <1>8, <1>10, <1>14
  <2> QED
    BY <1>12, <2>1, NoMore
<1>15. ASSUME NEW g \in Open!File
       PROVE  Refers(g)' \subseteq Refers(g) /\ Cardinality(Refers(g)') \in Nat
  <2>1. Refers(g)' \subseteq Refers(g)
    <3>1. \A q \in Process, d \in Open!Fd : ofile'[q][d] = g => ofile[q][d] = g
      BY <1>8, <1>10, <1>15
    <3>2. ASSUME NEW x \in Refers(g)' PROVE x \in Refers(g)
      <4>1. x \in Process \X Open!Fd /\ ofile'[x[1]][x[2]] = g /\ Clear(x[2]) \notin In(todo'[x[1]])
        BY <3>2 DEF Refers
      <4> QED
        BY <1>12, <3>1, <4>1 DEF Refers
    <3> QED
      BY <3>2
  <2> QED
    BY <2>1, RefersFinite, SetCount
<1>16. RefsRight'
  <2>1. ASSUME NEW g \in Open!File
        PROVE  \E k, l, m, r \in Nat :
                 /\ k = Weight(O, Owns(g)) /\ l = Weight(N, Owns(g))
                 /\ m = Weight(O, Dups(g)) /\ r = Weight(N, Dups(g))
                 /\ file'[g].ref + r + Cardinality(Refers(g)) + k
                      = file[g].ref + m + Cardinality(Refers(g)') + l
    <3>1. a \notin Dups(g) /\ (a \in Owns(g) <=> f = g)
      BY <1>3, OwnsAre
    <3>2. Weight(O, Dups(g)) = 0 /\ Weight(O, Owns(g)) = 0
      BY <1>5, Weigh
    <3>3. Weight(N, Dups(g)) = Bit(a \in Dups(g)) /\ Weight(N, Owns(g)) = Bit(a \in Owns(g))
      BY <1>5, Weigh
    <3>4. PICK l : l = Weight(N, Owns(g))
      OBVIOUS
    <3>5. Weight(N, Dups(g)) = 0 /\ l = IF f = g THEN 1 ELSE 0
      BY <3>1, <3>3, <3>4 DEF Bit
    <3>6. PICK x, z, u : x = file[g].ref /\ z = Cardinality(Refers(g)) /\ u = Cardinality(Refers(g)')
      OBVIOUS
    <3>7. x \in Nat /\ z \in Nat /\ u \in Nat /\ file'[g].ref = x /\ l \in Nat
      BY <1>2, <1>15, <3>5, <3>6, RefersFinite DEF FilesInv, Numbered, Struct
    <3>8. z = u + l
      <4>1. CASE g = f
        BY <1>13, <3>5, <3>6, <3>7, <4>1
      <4>2. CASE g # f
        BY <1>14, <3>5, <3>6, <3>7, <4>2
      <4> QED
        BY <4>1, <4>2
    <3>9. x + 0 + z + 0 = x + 0 + u + l
      BY <3>7, <3>8
    <3> QED
      BY <3>2, <3>4, <3>5, <3>6, <3>7, <3>9
  <2>2. file' \in [Open!File -> Struct]
    BY <1>2 DEF FilesInv, Numbered
  <2> QED
    BY <1>6, <2>1, <2>2, RefsKept DEF FilesInv
<1>17. \A v \in O \cup N : v.do \in {"close", "dup"}
  BY <1>3, <1>5
<1>18. \A v \in In(todo'[p]) : Good(p, v)'
  BY <1>3, <1>6, Idle
<1>19. \A g \in Open!File : Refers(g)' # {} => Refers(g) # {}
  BY <1>15
<1> QED
  BY <1>2, <1>4, <1>6, <1>8, <1>9, <1>16, <1>17, <1>18, <1>19, DescriptorsChange

LEMMA SysDupKeeps ==
  ASSUME FilesInv, NEW p \in Process, NEW d \in Open!Fd, Open!SysDup(p, d) PROVE FilesInv'
<1>1. PICK f, a, is, e : /\ f = ofile[p][d] /\ a = [do |-> "dup", f |-> f] /\ is = <<a>>
                         /\ e = Open!Min(Open!FreeFd(p))
  OBVIOUS
<1>2. /\ d \in Open!Opened(p)
      /\ \/ /\ Open!FreeFd(p) # {} /\ ofile' = [ofile EXCEPT ![p][e] = f] /\ Open!Begins(p, is)
         \/ Open!Begins(p, <<>>) /\ ofile' = ofile
      /\ UNCHANGED <<file, status, open, iref, holder, data, stored, openings>>
  BY <1>1 DEF Open!SysDup, Open!kernel, Open!contents
<1>3. f \in Open!File /\ a \in Instr /\ a.do = "dup" /\ a.f = f
  <2>1. f \in Open!File
    BY <1>1, <1>2, FreeFds DEF FilesInv
  <2> QED
    BY <1>1, <2>1, MakesFiles
<1>4. ASSUME Open!Begins(p, <<>>), ofile' = ofile PROVE FilesInv'
  <2>1. PICK is0 : is0 = <<>>
    OBVIOUS
  <2>2. status[p] = "runs" /\ In(todo[p]) = {} /\ Swaps(p, {}, {})
    BY <1>4, <2>1, BeginsDoes DEF FilesInv
  <2>3. PICK O, N : O = {} /\ N = {}
    OBVIOUS
  <2>4. Trades(p, O, N) /\ Changes(p, O, N) /\ In(todo'[p]) = {}
    BY <2>2, <2>3, SwapsTrade DEF Swaps
  <2>5. Types'
    BY <1>2, <1>4 DEF FilesInv, Types
  <2>6. Life'
    BY <1>2, <1>4, <2>2, <2>4, LifeKept DEF FilesInv
  <2>7. Forks'
    BY <1>2, <1>4, <2>3, <2>4, ForksKept DEF FilesInv
  <2>8. \A v \in O \cup N : v.do \in {"fork", "exit"}
    BY <2>3
  <2> QED
    BY <1>2, <1>4, <2>4, <2>5, <2>6, <2>7, <2>8, NothingCounted
<1>5. ASSUME Open!FreeFd(p) # {}, ofile' = [ofile EXCEPT ![p][e] = f], Open!Begins(p, is) PROVE FilesInv'
  <2>1. status[p] = "runs" /\ In(todo[p]) = {} /\ Swaps(p, {}, {a})
    BY <1>1, <1>3, <1>5, BeginsDoes DEF FilesInv
  <2>2. PICK O, N : O = {} /\ N = {a}
    OBVIOUS
  <2>3. /\ Trades(p, O, N) /\ Changes(p, O, N) /\ \A q \in Process : q # p => todo'[q] = todo[q]
        /\ In(todo'[p]) = {a}
    BY <2>1, <2>2, SwapsTrade DEF Swaps, Changes
  <2>4. e \in Open!Fd /\ ofile[p][e] = Nothing
    <3>1. Open!FreeFd(p) \in SUBSET Nat
      BY FreeFds DEF FilesInv
    <3>2. e \in Open!FreeFd(p)
      BY <1>1, <1>5, <3>1, Least
    <3> QED
      BY <3>2, FreeFds DEF FilesInv
  <2>5. ofile \in [Process -> [Open!Fd -> Open!File \cup {Nothing}]]
    BY DEF FilesInv, Types
  <2>6. /\ ofile' \in [Process -> [Open!Fd -> Open!File \cup {Nothing}]] /\ ofile'[p][e] = f
        /\ \A q \in Process : q # p => ofile'[q] = ofile[q]
        /\ \A c \in Open!Fd : c # e => ofile'[p][c] = ofile[p][c]
    BY <1>3, <1>5, <2>4, <2>5
  <2>7. Types'
    BY <1>2, <2>6 DEF FilesInv, Types
  <2>8. Nothing \notin Open!File
    BY Finite DEF Open!File
  <2>9. \A c : Clear(c) \notin In(todo[p]) /\ Clear(c) \notin In(todo'[p])
    BY <1>3, <2>1, <2>3, ClearDo
  <2>10. \A q \in Process : \A c : Clear(c) \in In(todo'[q]) <=> Clear(c) \in In(todo[q])
    BY <2>3, <2>9
  <2>11. Cardinality(Refers(f)') = Cardinality(Refers(f)) + 1
    <3>1. ofile'[p][e] = f /\ ofile[p][e] # f
      BY <1>3, <2>4, <2>6, <2>8
    <3>2. \A q \in Process, c \in Open!Fd : q # p \/ c # e => (ofile'[q][c] = f <=> ofile[q][c] = f)
      BY <2>6
    <3> QED
      BY <2>4, <2>9, <2>10, <3>1, <3>2, OneMore
  <2>12. ASSUME NEW g \in Open!File, g # f PROVE Refers(g)' = Refers(g)
    <3>1. \A q \in Process, c \in Open!Fd : ofile'[q][c] = g <=> ofile[q][c] = g
      BY <2>4, <2>6, <2>8, <2>12
    <3> QED
      BY <2>10, <3>1, NoMore
  <2>13. RefsRight'
    <3>1. ASSUME NEW g \in Open!File
          PROVE  \E k, l, m, r \in Nat :
                   /\ k = Weight(O, Owns(g)) /\ l = Weight(N, Owns(g))
                   /\ m = Weight(O, Dups(g)) /\ r = Weight(N, Dups(g))
                   /\ file'[g].ref + r + Cardinality(Refers(g)) + k
                        = file[g].ref + m + Cardinality(Refers(g)') + l
      <4>1. a \notin Owns(g) /\ (a \in Dups(g) <=> f = g)
        BY <1>3, OwnsAre
      <4>2. Weight(O, Dups(g)) = 0 /\ Weight(O, Owns(g)) = 0
        BY <2>2, Weigh
      <4>3. Weight(N, Dups(g)) = Bit(a \in Dups(g)) /\ Weight(N, Owns(g)) = Bit(a \in Owns(g))
        BY <2>2, Weigh
      <4>4. PICK r : r = Weight(N, Dups(g))
        OBVIOUS
      <4>5. Weight(N, Owns(g)) = 0 /\ r = IF f = g THEN 1 ELSE 0
        BY <4>1, <4>3, <4>4 DEF Bit
      <4>6. PICK x, z, u : x = file[g].ref /\ z = Cardinality(Refers(g)) /\ u = Cardinality(Refers(g)')
        OBVIOUS
      <4>7. x \in Nat /\ z \in Nat /\ file'[g].ref = x /\ r \in Nat
        BY <1>2, <4>5, <4>6, RefersFinite DEF FilesInv, Numbered, Struct
      <4>8. u = z + r
        <5>1. CASE g = f
          BY <2>11, <4>5, <4>6, <4>7, <5>1
        <5>2. CASE g # f
          BY <2>12, <4>5, <4>6, <4>7, <5>2
        <5> QED
          BY <5>1, <5>2
      <4>9. x + r + z + 0 = x + 0 + u + 0
        BY <4>7, <4>8
      <4> QED
        BY <4>2, <4>4, <4>5, <4>6, <4>7, <4>9
    <3>2. file' \in [Open!File -> Struct]
      BY <1>2 DEF FilesInv, Numbered
    <3> QED
      BY <2>3, <3>1, <3>2, RefsKept DEF FilesInv
  <2>14. \A v \in O \cup N : v.do \in {"close", "dup"}
    BY <1>3, <2>2
  <2>15. Good(p, a)'
    <3>1. d # e /\ ofile'[p][d] = f /\ ofile'[p][e] = f
      BY <1>1, <1>3, <2>4, <2>6, <2>8
    <3> QED
      BY <1>3, <2>4, <3>1 DEF Good, Passed, Unready, Dupped, Moving, Locked, Still
  <2>16. \A v \in In(todo'[p]) : Good(p, v)'
    BY <2>3, <2>15
  <2>17. \A g \in Open!File : Refers(g)' # {} => Refers(g) # {}
    <3>1. PICK x : x = <<p, d>>
      OBVIOUS
    <3>2. x \in Process \X Open!Fd /\ x[1] = p /\ x[2] = d
      BY <3>1
    <3>3. Refers(f) # {}
      BY <1>1, <2>9, <3>2 DEF Refers
    <3> QED
      BY <2>12, <3>3
  <2> QED
    BY <1>2, <2>1, <2>3, <2>6, <2>7, <2>13, <2>14, <2>16, <2>17, DescriptorsChange
<1> QED
  BY <1>2, <1>4, <1>5

(***************************************************************************)
(* A turn of read() or write() has moved f->off, with the inode locked.    *)
(***************************************************************************)
LEMMA MovedKeeps ==
  ASSUME FilesInv, NEW p \in Process, NEW w \in In(todo[p]), w \in Instr, w.do \in {"readi", "writei"},
         NEW f \in Open!File, f = w.f, NEW i \in Inode, i = file[f].obj,
         NEW n \in Nat, n <= MaxSize, file' = [file EXCEPT ![f].off = n],
         NEW O, NEW N, Trades(p, O, N), In(todo'[p]) = N,
         \A v \in O : v = w, \A v \in N : v.do = "write" /\ v.f = f /\ w.do = "writei",
         UNCHANGED <<ofile, status, open, iref, openings>>, holder' = [holder EXCEPT ![i] = Nothing],
         Kinds', \A j \in Inode : Len(data'[j]) <= MaxSize, Written'
  PROVE  FilesInv'
<1>1. Changes(p, O, N) /\ Forms'
  BY DEF Trades, Changes
<1>2. /\ CalmFiles(p) /\ file'[f].off = n /\ \A g \in Open!File : g # f => file'[g] = file[g]
      /\ \A g \in Open!File : /\ file'[g].type = file[g].type /\ file'[g].obj = file[g].obj
                              /\ file'[g].mode = file[g].mode /\ file'[g].ref = file[g].ref
  BY ZenonT(60), CalmOff DEF FilesInv
<1>3. file' \in [Open!File -> Struct]
  BY <1>2 DEF CalmFiles
<1>4. Numbered'
  BY <1>2, <1>3 DEF FilesInv, Numbered
<1>5. Sizes'
  <2>1. \A g \in Open!File : file'[g].off <= MaxSize
    BY <1>2 DEF FilesInv, Sizes
  <2> QED
    BY <2>1 DEF Sizes
<1>6. Types'
  BY DEF FilesInv, Types
<1>7. PipesAlike /\ NodesAlike
  BY <1>2 DEF PipesAlike, NodesAlike
<1>8. /\ \A v \in O \cup N : v.do \notin {"close", "openfd", "pipe1", "page", "pipefds", "dup",
                                           "iput", "open", "unlockput", "last", "clear"}
      /\ \A v \in N : v.do # "fork"
  OBVIOUS
<1>9. \A g : Refers(g)' = Refers(g)
  BY <1>8, RefersSame
<1>10. RefsRight'
  BY <1>1, <1>2, <1>3, <1>8, <1>9, RefsNeutral DEF FilesInv
<1>11. EndsRight' /\ InodesRight'
  BY <1>1, <1>7, <1>8, EndsKept, InodesNeutral DEF FilesInv
<1>12. /\ Moving(p, w) /\ holder[i] = p
  BY DEF FilesInv, Works, Good, Still
<1>13. Calm(p)
  <2>1. \A j \in Inode : holder[j] \notin {p, Nothing} => holder'[j] = holder[j]
    BY <1>12 DEF FilesInv, Types
  <2> QED
    BY <1>2, <2>1 DEF Calm
<1>14. ASSUME NEW v \in In(todo'[p]) PROVE Good(p, v)'
  <2>1. v.do = "write" /\ v.f = f /\ w.do = "writei"
    BY <1>14
  <2>2. (\E e \in Open!Fd : ofile'[p][e] = f) /\ file'[f].type = "inode" /\ file'[f].mode # "r"
    BY <1>2, <1>12, <2>1 DEF Moving
  <2> QED
    BY <2>1, <2>2 DEF Good, Passed, Unready, Dupped, Moving, Locked, Still
<1>15. Works' /\ Typed'
  BY <1>1, <1>9, <1>13, <1>14, WorksKept, TypedKept DEF FilesInv
<1>16. Life'
  BY <1>1, Runs, LifeKept DEF FilesInv
<1>17. Forks'
  BY <1>8, ForksKept DEF FilesInv
<1> QED
  BY <1>1, <1>4, <1>5, <1>6, <1>10, <1>11, <1>15, <1>16, <1>17 DEF FilesInv

LEMMA ReadiKeeps ==
  ASSUME FilesInv, NEW p \in Process, Open!Readi(p) PROVE FilesInv'
<1>1. PICK w \in In(todo[p]), r \in {0, 1} :
        /\ w \in Instr /\ w.do = "readi" /\ w.f \in Open!File /\ file[w.f].obj \in Inode
        /\ UNCHANGED <<ofile, status, open, iref, data, stored, openings>>
        /\ r = 1 => w.at < Len(data[file[w.f].obj])
        /\ file' = [file EXCEPT ![w.f].off = @ + r]
        /\ holder' = [holder EXCEPT ![file[w.f].obj] = Nothing]
        /\ Swaps(p, {w}, {})
  BY ReadiDoes DEF FilesInv
<1>2. PICK O, N, f, i, n, x, L :
        /\ O = {w} /\ N = {} /\ f = w.f /\ i = file[f].obj /\ n = file[f].off + r
        /\ x = file[f].off /\ L = Len(data[i])
  OBVIOUS
<1>3. f \in Open!File /\ i \in Inode /\ file \in [Open!File -> Struct]
  BY <1>1, <1>2 DEF FilesInv, Numbered
<1>4. x \in Nat /\ n = x + r /\ n \in Nat /\ file' = [file EXCEPT ![f].off = n]
  <2>1. x \in Nat /\ n = x + r
    BY <1>2, <1>3 DEF Struct
  <2>2. file' = [file EXCEPT ![f].off = n]
    BY <1>1, <1>2, <1>3
  <2> QED
    BY <2>1, <2>2
<1>5. L \in Nat /\ L <= MaxSize /\ x <= MaxSize
  BY <1>2, <1>3 DEF FilesInv, Kinds, Sizes
<1>6. Moving(p, w) /\ w.at = x
  BY <1>1, <1>2 DEF FilesInv, Works, Good, Still
<1>7. r = 1 => x < L
  BY <1>1, <1>2, <1>6
<1>8. n <= MaxSize
  BY <1>4, <1>5, <1>7, Finite
<1>9. Trades(p, O, N) /\ In(todo'[p]) = N
  BY <1>1, <1>2, SwapsTrade DEF Swaps
<1>10. Kinds'
  BY <1>1 DEF FilesInv, Kinds
<1>11. \A j \in Inode : Len(data'[j]) <= MaxSize
  BY <1>1 DEF FilesInv, Sizes
<1>12. /\ file'[f].off = n /\ \A g \in Open!File : g # f => file'[g] = file[g]
       /\ \A g \in Open!File : /\ file'[g].type = file[g].type /\ file'[g].obj = file[g].obj
                               /\ file'[g].mode = file[g].mode
  BY <1>1, <1>2, <1>3, <1>4, CalmOff DEF FilesInv
<1>13. Written'
  <2>1. ASSUME NEW j \in Inode PROVE WrittenAt(j)'
    <3>1. Writers(j)' = Writers(j)
      BY <1>12 DEF Writers
    <3>2. WrittenAt(j)
      BY DEF FilesInv, Written
    <3>3. \A q \in Process : Units(j, q)' = Units(j, q)
      BY <1>1 DEF Units
    <3>4. ASSUME openings[j] <= 1, NEW g \in Writers(j) PROVE file'[g].off = Len(data[j])
      <4>1. g \in Open!File /\ file[g].obj = j /\ file[g].off = Len(data[j])
        BY <3>2, <3>4 DEF Writers, WrittenAt
      <4>2. CASE g = f
        <5>1. x = L /\ j = i
          BY <1>2, <4>1, <4>2
        <5>2. r = 0
          BY <1>5, <1>7, <5>1
        <5> QED
          BY <1>2, <1>4, <1>12, <4>2, <5>1, <5>2
      <4>3. CASE g # f
        BY <1>12, <4>1, <4>3
      <4> QED
        BY <4>2, <4>3
    <3> QED
      BY <1>1, <3>1, <3>2, <3>3, <3>4 DEF WrittenAt
  <2> QED
    BY <2>1 DEF Written
<1>14. /\ \A v \in O : v = w
       /\ \A v \in N : v.do = "write" /\ v.f = f /\ w.do = "writei"
       /\ holder' = [holder EXCEPT ![i] = Nothing]
  BY <1>1, <1>2
<1>15. w.do \in {"readi", "writei"} /\ f = w.f /\ i = file[f].obj
  BY <1>1, <1>2
<1>16. UNCHANGED <<ofile, status, open, iref, openings>> /\ w \in Instr
  BY <1>1
<1> QED
  BY <1>3, <1>4, <1>8, <1>9, <1>10, <1>11, <1>13, <1>14, <1>15, <1>16, MovedKeeps

(* What writei() makes of a file.                                          *)
Larger(a, b) == IF a >= b THEN a ELSE b
Stored(d, t, at, r, p, n) ==
  \A k \in 1 .. n : t[k] = IF k > at /\ k <= at + r THEN p ELSE d[k]

LEMMA Greater ==
  ASSUME NEW a \in Nat, NEW b \in Nat
  PROVE  Open!Max({a, b}) = Larger(a, b)
<1>1. PICK m : m = IF a >= b THEN a ELSE b
  OBVIOUS
<1>2. m \in {a, b} /\ \A y \in {a, b} : m >= y
  BY <1>1
<1>3. \A x \in {a, b} : (\A y \in {a, b} : x >= y) => x = m
  BY <1>1
<1>4. Open!Max({a, b}) = m
  BY <1>2, <1>3 DEF Open!Max
<1> QED
  BY <1>1, <1>4 DEF Larger

LEMMA Patching ==
  ASSUME NEW d \in Seq(Process), NEW at \in Nat, at <= Len(d), NEW r \in Nat, NEW p \in Process
  PROVE  /\ Open!Patched(d, at, r, p) \in Seq(Process)
         /\ Len(Open!Patched(d, at, r, p)) = Larger(Len(d), at + r)
         /\ Stored(d, Open!Patched(d, at, r, p), at, r, p, Larger(Len(d), at + r))
<1>1. PICK L, t, M : L = Len(d) /\ t = Open!Patched(d, at, r, p) /\ M = Larger(L, at + r)
  OBVIOUS
<1>2. L \in Nat /\ M \in Nat /\ at + r \in Nat /\ Open!Max({L, at + r}) = M
  BY <1>1, Greater DEF Larger
<1>3. t = [k \in 1 .. M |-> IF k > at /\ k <= at + r THEN p ELSE d[k]]
  BY <1>1, <1>2 DEF Open!Patched
<1>4. ASSUME NEW k \in 1 .. M PROVE (IF k > at /\ k <= at + r THEN p ELSE d[k]) \in Process
  <2>1. CASE k > at /\ k <= at + r
    BY <2>1
  <2>2. CASE ~ (k > at /\ k <= at + r)
    <3>1. k \in 1 .. L
      BY <1>1, <1>2, <1>4, <2>2 DEF Larger
    <3>2. d[k] \in Process
      BY <1>1, <3>1, ElementOfSeq
    <3> QED
      BY <2>2, <3>2
  <2> QED
    BY <2>1, <2>2
<1>5. t \in [1 .. M -> Process]
  BY <1>3, <1>4
<1>6. t \in Seq(Process) /\ Len(t) = M
  BY <1>2, <1>5, LenProperties, SeqDef
<1>7. Stored(d, t, at, r, p, M)
  BY <1>3 DEF Stored
<1> QED
  BY <1>1, <1>6, <1>7

LEMMA PatchedSize ==
  ASSUME NEW d \in Seq(Process), NEW at \in Nat, at <= Len(d), NEW r \in Nat, NEW p \in Process,
         Len(d) <= MaxSize, at + r <= MaxSize
  PROVE  Open!Patched(d, at, r, p) \in Seq(Process) /\ Len(Open!Patched(d, at, r, p)) <= MaxSize
<1>1. Len(Open!Patched(d, at, r, p)) = Larger(Len(d), at + r) /\ Open!Patched(d, at, r, p) \in Seq(Process)
  BY Patching
<1>2. Larger(Len(d), at + r) <= MaxSize
  BY DEF Larger
<1> QED
  BY <1>1, <1>2

LEMMA PatchedEnd ==
  ASSUME NEW d \in Seq(Process), NEW L, L = Len(d), NEW r \in Nat \ {0}, NEW p \in Process
  PROVE  /\ Len(Open!Patched(d, L, r, p)) = L + r /\ L \in Nat
         /\ Stored(d, Open!Patched(d, L, r, p), L, r, p, L + r)
<1>1. L \in Nat /\ L <= Len(d) /\ r \in Nat
  OBVIOUS
<1>2. /\ Len(Open!Patched(d, L, r, p)) = Larger(Len(d), L + r)
      /\ Stored(d, Open!Patched(d, L, r, p), L, r, p, Larger(Len(d), L + r))
  BY ZenonT(60), <1>1, Patching
<1>3. Larger(Len(d), L + r) = L + r
  <2>1. Larger(L, L + r) = L + r
    BY <1>1 DEF Larger
  <2> QED
    BY <2>1
<1> QED
  BY <1>1, <1>2, <1>3

AtTheEnd(d, L, r, p) == d \in Seq(Process) /\ L = Len(d) /\ r \in Nat \ {0} /\ p \in Process

(* The same as one formula, to be used where much else is known.           *)
LEMMA PatchedThere ==
  \A d, L, r, p :
    AtTheEnd(d, L, r, p) => /\ Len(Open!Patched(d, L, r, p)) = L + r
                           /\ Stored(d, Open!Patched(d, L, r, p), L, r, p, L + r)
<1>1. SUFFICES ASSUME NEW d, NEW L, NEW r, NEW p, AtTheEnd(d, L, r, p)
               PROVE  /\ Len(Open!Patched(d, L, r, p)) = L + r
                      /\ Stored(d, Open!Patched(d, L, r, p), L, r, p, L + r)
  OBVIOUS
<1>2. d \in Seq(Process) /\ L = Len(d) /\ r \in Nat \ {0} /\ p \in Process
  BY <1>1 DEF AtTheEnd
<1> QED
  BY <1>2, PatchedEnd

Kept(d, n, q) == {k \in 1 .. n : d[k] = q}

(* At the end of the file, the units of p grow by r.                       *)
LEMMA Appended ==
  ASSUME NEW L \in Nat, NEW r \in Nat, NEW d, NEW t, NEW p, Stored(d, t, L, r, p, L + r),
         NEW q
  PROVE  /\ Cardinality(Kept(t, L + r, q)) = Cardinality(Kept(d, L, q)) + (IF q = p THEN r ELSE 0)
         /\ Cardinality(Kept(d, L, q)) \in Nat
<1>1. PICK A, B, C : A = Kept(d, L, q) /\ B = Kept(t, L + r, q) /\ C = L + 1 .. L + r
  OBVIOUS
<1>2. IsFiniteSet(1 .. L) /\ IsFiniteSet(C)
  BY <1>1, FS_Interval
<1>3. IsFiniteSet(A) /\ Cardinality(A) \in Nat
  <2>1. A \subseteq 1 .. L
    BY <1>1 DEF Kept
  <2> QED
    BY <1>2, <2>1, SetCount
<1>4. Cardinality(C) = r
  <2>1. Cardinality(C) = IF L + 1 > L + r THEN 0 ELSE L + r - (L + 1) + 1
    BY <1>1, FS_Interval
  <2> QED
    BY <2>1
<1>5. ASSUME q = p PROVE Cardinality(B) = Cardinality(A) + r
  <2>1. B = A \cup C /\ A \cap C = {}
    BY <1>1, <1>5 DEF Stored, Kept
  <2> QED
    BY <1>2, <1>3, <1>4, <2>1, Together
<1>6. ASSUME q # p PROVE B = A
  BY <1>1, <1>6 DEF Stored, Kept
<1>7. Cardinality(B) = Cardinality(A) + (IF q = p THEN r ELSE 0)
  BY <1>3, <1>5, <1>6
<1> QED
  BY <1>1, <1>3, <1>7

LEMMA OneWriter ==
  ASSUME NEW S, IsFiniteSet(S), Cardinality(S) <= 1, NEW f \in S, NEW g \in S PROVE g = f
<1>1. SUFFICES ASSUME g # f PROVE FALSE
  OBVIOUS
<1>2. PICK A, B, C : A = {f} /\ B = {g} /\ C = A \cup B
  OBVIOUS
<1>3. IsFiniteSet(A) /\ IsFiniteSet(B) /\ Cardinality(A) = 1 /\ Cardinality(B) = 1
  BY <1>2, FS_Singleton
<1>4. A \cap B = {} /\ C \subseteq S /\ C = A \cup B
  BY <1>1, <1>2
<1>5. Cardinality(C) = 2
  BY <1>3, <1>4, Together
<1>6. Cardinality(C) <= Cardinality(S) /\ Cardinality(S) \in Nat
  BY <1>4, FS_Subset, FS_CardinalityType
<1> QED
  BY <1>5, <1>6

(* writei() at f->off: what is stored is at the end when nobody else has   *)
(* opened the file for writing.                                            *)
LEMMA StoresAt ==
  ASSUME FilesInv, NEW p \in Process, NEW f \in Open!File, NEW i \in Inode, f \in Writers(i),
         NEW at \in Nat, at = file[f].off, NEW r \in Nat,
         r # 0 => at <= Len(data[i]),
         file'[f].off = at + r, \A g \in Open!File : g # f => file'[g] = file[g],
         Writers(i)' = Writers(i),
         data'[i] = IF r = 0 THEN data[i] ELSE Open!Patched(data[i], at, r, p),
         stored'[i] = [stored[i] EXCEPT ![p] = @ + r], openings' = openings
  PROVE  WrittenAt(i)'
<1>1. WrittenAt(i) /\ data[i] \in Seq(Process) /\ stored[i] \in [Process -> Nat] /\ openings[i] \in Nat
  BY DEF FilesInv, Written, Kinds
<1>2. PICK W : W = Writers(i)
  OBVIOUS
<1>3. W \subseteq Open!File /\ f \in W
  BY <1>2 DEF Writers
<1>4. IsFiniteSet(W) /\ Cardinality(W) \in Nat
  BY <1>3, FilesFinite
<1>5. Cardinality(W) # 0
  BY <1>3, <1>4, FS_EmptySet
<1>6. openings[i] >= 1
  <2>1. Cardinality(W) <= openings[i]
    BY <1>1, <1>2 DEF WrittenAt
  <2> QED
    BY <1>1, <1>4, <1>5, <2>1
<1>7. Cardinality(Writers(i)') <= openings'[i] /\ openings'[i] # 0
  BY <1>1, <1>6 DEF WrittenAt
<1>8. ASSUME openings[i] <= 1
      PROVE  /\ \A g \in Writers(i)' : file'[g].off = Len(data'[i])
             /\ \A q \in Process : Cardinality(Units(i, q)') = stored'[i][q]
  <2>1. PICK L, d, t : L = Len(data[i]) /\ d = data[i] /\ t = data'[i]
    OBVIOUS
  <2>2. L \in Nat /\ at = L /\ \A q \in Process : Cardinality(Units(i, q)) = stored[i][q]
    BY <1>1, <1>8, <2>1 DEF WrittenAt
  <2>3. \A g \in W : g = f
    <3>1. Cardinality(W) <= 1
      BY <1>1, <1>2, <1>4, <1>8 DEF WrittenAt
    <3> QED
      BY <1>3, <1>4, <3>1, OneWriter
  <2>4. /\ Len(t) = L + r
        /\ Stored(d, t, L, r, p, L + r)
    <3>1. d \in Seq(Process) /\ L = Len(d)
      BY <1>1, <2>1
    <3>2. CASE r = 0
      <4>1. t = d /\ L + r = L
        BY <2>1, <2>2, <3>2
      <4>2. Stored(d, d, L, r, p, L + r)
        BY <2>2, <3>2 DEF Stored
      <4> QED
        BY <3>1, <4>1, <4>2
    <3>3. CASE r # 0
      <4>1. t = Open!Patched(d, L, r, p)
        BY <2>1, <2>2, <3>3
      <4>2. r \in Nat \ {0}
        BY <3>3
      <4>3. AtTheEnd(d, L, r, p)
        BY <3>1, <4>2 DEF AtTheEnd
      <4>4. /\ Len(Open!Patched(d, L, r, p)) = L + r
            /\ Stored(d, Open!Patched(d, L, r, p), L, r, p, L + r)
        BY ZenonT(60), <4>3, PatchedThere
      <4> QED
        BY <4>1, <4>4
    <3> QED
      BY <3>2, <3>3
  <2>5. \A g \in Writers(i)' : file'[g].off = Len(data'[i])
    BY <1>2, <2>1, <2>2, <2>3, <2>4
  <2>6. ASSUME NEW q \in Process PROVE Cardinality(Units(i, q)') = stored'[i][q]
    <3>1. PICK A, B : A = Kept(d, L, q) /\ B = Kept(t, L + r, q)
      OBVIOUS
    <3>2. A = Units(i, q) /\ B = Units(i, q)'
      BY <2>1, <2>4, <3>1 DEF Units, Kept
    <3>3. Cardinality(B) = Cardinality(A) + (IF q = p THEN r ELSE 0) /\ Cardinality(A) \in Nat
      BY <2>2, <2>4, <3>1, Appended
    <3>4. PICK x : x = stored[i][q]
      OBVIOUS
    <3>5. x = Cardinality(A)
      BY <2>2, <3>2, <3>4
    <3>6. stored'[i][q] = IF q = p THEN x + r ELSE x
      BY <1>1, <3>4
    <3>7. x \in Nat /\ (IF q = p THEN x + r ELSE x) = x + (IF q = p THEN r ELSE 0)
      BY <1>1, <3>4
    <3> QED
      BY <3>2, <3>3, <3>5, <3>6, <3>7
  <2> QED
    BY <2>5, <2>6
<1> QED
  BY <1>7, <1>8 DEF WrittenAt

LEMMA WriteiKeeps ==
  ASSUME FilesInv, NEW p \in Process, Open!Writei(p) PROVE FilesInv'
<1>1. PICK w \in In(todo[p]), r \in Nat :
        /\ w \in Instr /\ w.do = "writei" /\ w.f \in Open!File /\ file[w.f].obj \in Inode
        /\ UNCHANGED <<ofile, status, open, iref, openings>>
        /\ r # 0 => w.at <= Len(data[file[w.f].obj]) /\ w.at + r <= MaxSize
        /\ file' = [file EXCEPT ![w.f].off = @ + r]
        /\ data' = IF r = 0 THEN data
                   ELSE [data EXCEPT ![file[w.f].obj] = Open!Patched(@, w.at, r, p)]
        /\ stored' = [stored EXCEPT ![file[w.f].obj][p] = @ + r]
        /\ holder' = [holder EXCEPT ![file[w.f].obj] = Nothing]
        /\ \/ Swaps(p, {w}, {})
           \/ \E m \in Nat \ {0} : Swaps(p, {w}, {[do |-> "write", f |-> w.f, n |-> m]})
  BY WriteiDoes DEF FilesInv
<1>2. PICK O, f, i, n, at, L :
        /\ O = {w} /\ f = w.f /\ i = file[f].obj /\ n = file[f].off + r
        /\ at = file[f].off /\ L = Len(data[i])
  OBVIOUS
<1>3. f \in Open!File /\ i \in Inode /\ file \in [Open!File -> Struct]
  BY <1>1, <1>2 DEF FilesInv, Numbered
<1>4. at \in Nat /\ n = at + r /\ n \in Nat /\ file' = [file EXCEPT ![f].off = n]
  <2>1. at \in Nat /\ n = at + r
    BY <1>2, <1>3 DEF Struct
  <2>2. file' = [file EXCEPT ![f].off = n]
    BY <1>1, <1>2, <1>3
  <2> QED
    BY <2>1, <2>2
<1>5. L \in Nat /\ L <= MaxSize /\ at <= MaxSize
  BY <1>2, <1>3 DEF FilesInv, Kinds, Sizes
<1>6. Moving(p, w) /\ w.at = at
  BY <1>1, <1>2 DEF FilesInv, Works, Good, Still
<1>7. r # 0 => at <= L /\ at + r <= MaxSize
  BY <1>1, <1>2, <1>6
<1>8. n <= MaxSize
  BY <1>4, <1>5, <1>7
<1>9. /\ data \in [Inode -> Seq(Process)] /\ stored \in [Inode -> [Process -> Nat]]
      /\ openings \in [Inode -> Nat]
  BY DEF FilesInv, Kinds
<1>10. /\ data'[i] = IF r = 0 THEN data[i] ELSE Open!Patched(data[i], at, r, p)
       /\ \A j \in Inode : j # i => data'[j] = data[j]
       /\ DOMAIN data' = Inode
       /\ data' = [j \in Inode |-> data'[j]]
  BY <1>1, <1>2, <1>3, <1>6, <1>9
<1>11. data'[i] \in Seq(Process) /\ Len(data'[i]) <= MaxSize
  <2>1. CASE r = 0
    BY <1>2, <1>3, <1>5, <1>9, <1>10, <2>1
  <2>2. CASE r # 0
    <3>1. PICK d, t : d = data[i] /\ t = Open!Patched(d, at, r, p)
      OBVIOUS
    <3>2. d \in Seq(Process) /\ L = Len(d)
      BY <1>2, <1>3, <1>9, <3>1
    <3>3. at \in Nat /\ r \in Nat /\ at <= L /\ at + r <= MaxSize
      BY <1>4, <1>7, <2>2
    <3>4. t \in Seq(Process) /\ Len(t) <= MaxSize
      BY <1>5, <3>1, <3>2, <3>3, PatchedSize
    <3> QED
      BY <1>10, <2>2, <3>1, <3>4
  <2> QED
    BY <2>1, <2>2
<1>12. \A j \in Inode : Len(data'[j]) <= MaxSize
  <2>1. ASSUME NEW j \in Inode, j # i PROVE Len(data'[j]) <= MaxSize
    BY <1>10, <2>1 DEF FilesInv, Sizes
  <2> QED
    BY <1>11, <2>1
<1>13. /\ stored' \in [Inode -> [Process -> Nat]] /\ stored'[i] = [stored[i] EXCEPT ![p] = @ + r]
       /\ \A j \in Inode : j # i => stored'[j] = stored[j]
  <2>1. PICK u : u = [stored[i] EXCEPT ![p] = @ + r]
    OBVIOUS
  <2>2. stored[i] \in [Process -> Nat] /\ stored[i][p] \in Nat
    BY <1>3, <1>9
  <2>3. u \in [Process -> Nat]
    BY <2>1, <2>2
  <2>4. stored' = [stored EXCEPT ![i] = u]
    BY <1>1, <1>2, <1>3, <1>9, <2>1
  <2> QED
    BY <1>3, <1>9, <2>1, <2>3, <2>4
<1>14. Kinds'
  <2>1. \A j \in Inode : data'[j] \in Seq(Process)
    BY <1>9, <1>10, <1>11
  <2>2. data' \in [Inode -> Seq(Process)]
    BY <1>10, <2>1
  <2> QED
    BY <1>1, <1>9, <1>13, <2>2 DEF Kinds
<1>15. /\ file'[f].off = n /\ \A g \in Open!File : g # f => file'[g] = file[g]
       /\ \A g \in Open!File : /\ file'[g].type = file[g].type /\ file'[g].obj = file[g].obj
                               /\ file'[g].mode = file[g].mode
  BY <1>1, <1>2, <1>3, <1>4, CalmOff DEF FilesInv
<1>16. Written'
  <2>1. \A j \in Inode : Writers(j)' = Writers(j)
    BY <1>15 DEF Writers
  <2>2. f \in Writers(i)
    BY <1>1, <1>2, <1>3, <1>6 DEF Moving, Writers
  <2>3. WrittenAt(i)'
    <3>1. (r # 0 => at <= Len(data[i])) /\ file'[f].off = at + r /\ at = file[f].off
      BY <1>2, <1>4, <1>7, <1>15
    <3>2. /\ stored'[i] = [stored[i] EXCEPT ![p] = @ + r] /\ openings' = openings
          /\ Writers(i)' = Writers(i)
      BY <1>1, <1>3, <1>13, <2>1
    <3>3. data'[i] = IF r = 0 THEN data[i] ELSE Open!Patched(data[i], at, r, p)
      BY <1>10
    <3> QED
      BY <1>3, <1>4, <1>15, <2>2, <3>1, <3>2, <3>3, StoresAt
  <2>4. ASSUME NEW j \in Inode, j # i PROVE WrittenAt(j)'
    <3>1. \A g \in Writers(j)' : file'[g].off = file[g].off
      BY <1>2, <1>15, <2>1, <2>4 DEF Writers
    <3>2. openings'[j] = openings[j] /\ openings[j] \in Nat
      BY <1>1, <1>9
    <3>3. WrittenAt(j) /\ Kinds
      BY DEF FilesInv, Written
    <3>4. openings'[j] \in Nat /\ openings'[j] >= openings[j] /\ Writers(j)' \subseteq Writers(j)
      BY <2>1, <3>2
    <3>5. data'[j] = data[j] /\ stored'[j] = stored[j]
      BY <1>10, <1>13, <2>4
    <3> QED
      BY <3>1, <3>3, <3>4, <3>5, WrittenAtKept
  <2> QED
    BY <2>3, <2>4 DEF Written
<1>17. holder' = [holder EXCEPT ![i] = Nothing] /\ f = w.f /\ i = file[f].obj /\ w.do \in {"readi", "writei"}
  BY <1>1, <1>2
<1>18. PICK N : Swaps(p, {w}, N) /\ \A v \in N : v.do = "write" /\ v.f = f
  <2>1. CASE Swaps(p, {w}, {})
    BY <2>1
  <2>2. ASSUME NEW m, Swaps(p, {w}, {[do |-> "write", f |-> w.f, n |-> m]})
        PROVE  \E N : Swaps(p, {w}, N) /\ \A v \in N : v.do = "write" /\ v.f = f
    <3>1. PICK a, N : a = [do |-> "write", f |-> w.f, n |-> m] /\ N = {a}
      OBVIOUS
    <3>2. Swaps(p, {w}, N)
      BY <2>2, <3>1
    <3>3. a.do = "write" /\ a.f = f
      BY <1>2, <3>1
    <3> QED
      BY <3>1, <3>2, <3>3
  <2> QED
    BY <1>1, <2>1, <2>2
<1>19. Trades(p, O, N) /\ In(todo'[p]) = N
  BY <1>2, <1>18, SwapsTrade DEF Swaps
<1>20. (\A v \in O : v = w) /\ \A v \in N : v.do = "write" /\ v.f = f /\ w.do = "writei"
  BY <1>1, <1>2, <1>18
<1>21. UNCHANGED <<ofile, status, open, iref, openings>> /\ w \in Instr
  BY <1>1
<1> QED
  BY <1>3, <1>4, <1>8, <1>12, <1>14, <1>16, <1>17, <1>19, <1>20, <1>21, MovedKeeps

(***************************************************************************)
(* The invariant holds at first, every step keeps it, and it is enough.    *)
(***************************************************************************)
LEMMA FilesFirst ==
  ASSUME Open!Init PROVE FilesInv
<1>1. /\ file = [f \in Open!File |-> Open!Empty]
      /\ ofile = [p \in Process |-> [fd \in Open!Fd |-> Nothing]]
      /\ status = [p \in Process |-> IF p = First THEN "runs" ELSE "unused"]
      /\ open = [k \in Page |-> {}] /\ iref = [i \in Inode |-> 0]
      /\ holder = [i \in Inode |-> Nothing] /\ data = [i \in Inode |-> <<>>]
      /\ todo = [p \in Process |-> <<>>]
      /\ stored = [i \in Inode |-> [p \in Process |-> 0]] /\ openings = [i \in Inode |-> 0]
  BY DEF Open!Init
<1>2. Forms /\ \A p \in Process : todo[p] = <<>> /\ In(todo[p]) = {}
  <2>1. \A p \in Process : todo[p] = <<>>
    BY <1>1
  <2>2. todo \in Lists
    BY <1>1 DEF Lists
  <2>3. In(<<>>) = {} /\ Formed(<<>>)
    BY OfTuples, FormedNew
  <2> QED
    BY <2>1, <2>2, <2>3 DEF Forms
<1>3. /\ file \in [Open!File -> Struct]
      /\ \A f \in Open!File : file[f].ref = 0 /\ file[f].type = "none" /\ file[f].off = 0
  BY <1>1 DEF Open!Empty, Struct, Open!Mode
<1>4. Numbered
  BY <1>3 DEF Numbered
<1>5. Types
  BY <1>1 DEF Types
<1>6. Kinds
  BY <1>1 DEF Kinds
<1>7. Sizes
  <2>1. \A i \in Inode : data[i] = <<>>
    BY <1>1
  <2>2. Len(<<>>) = 0
    OBVIOUS
  <2>3. \A i \in Inode : Len(data[i]) = 0
    BY <2>1, <2>2
  <2> QED
    BY <1>3, <2>3, Finite DEF Sizes
<1>8. Life
  BY <1>1 DEF Life
<1>9. Forks /\ Works
  BY <1>2 DEF Forks, Works
<1>10. \A f \in Open!File : Refers(f) = {}
  <2>1. Nothing \notin Open!File
    BY Finite DEF Open!File
  <2> QED
    BY <1>1, <2>1 DEF Refers
<1>11. Typed
  BY <1>10 DEF Typed
<1>12. \A S : Count(todo, S) = 0
  BY <1>2, NoneInWhere DEF Forms
<1>13. Cardinality({}) = 0
  BY FS_EmptySet
<1>14. RefsRight
  BY <1>3, <1>10, <1>12, <1>13 DEF RefsRight
<1>15. EndsRight
  <2>1. \A k \in Page, end \in {"r", "w"} : Piped(k, end) = {} /\ open[k] = {}
    BY <1>1, <1>3 DEF Piped
  <2>2. ASSUME NEW k \in Page, NEW end \in {"r", "w"}
        PROVE  Cardinality(Piped(k, end)) + Count(todo, Ends(k, end)) = Bit(end \in open[k])
    <3>1. end \notin open[k]
      BY <2>1
    <3> QED
      BY <1>12, <1>13, <2>1, <3>1 DEF Bit
  <2> QED
    BY <2>2 DEF EndsRight
<1>16. InodesRight
  <2>1. \A i \in Inode : Stands(i) = {} /\ iref[i] = 0
    BY <1>1, <1>3 DEF Stands
  <2> QED
    BY <1>12, <1>13, <2>1 DEF InodesRight
<1>17. Written
  <2>1. ASSUME NEW i \in Inode PROVE WrittenAt(i)
    <3>1. /\ Writers(i) = {} /\ openings[i] = 0 /\ data[i] = <<>> /\ \A p \in Process : stored[i][p] = 0
      BY <1>1, <1>3 DEF Writers
    <3>2. \A p \in Process : Units(i, p) = {}
      <4>1. Len(data[i]) = 0
        BY <3>1
      <4> QED
        BY <4>1 DEF Units
    <3>3. Cardinality(Writers(i)) = 0
      BY <1>13, <3>1
    <3>4. \A p \in Process : Cardinality(Units(i, p)) = stored[i][p]
      BY <1>13, <3>1, <3>2
    <3> QED
      BY <3>1, <3>3, <3>4 DEF WrittenAt
  <2> QED
    BY <2>1 DEF Written
<1> QED
  BY <1>2, <1>4, <1>5, <1>6, <1>7, <1>8, <1>9, <1>11, <1>14, <1>15, <1>16, <1>17 DEF FilesInv

LEMMA FilesStutter ==
  ASSUME FilesInv, UNCHANGED Open!vars PROVE FilesInv'
<1>1. UNCHANGED <<file, ofile, status, open, iref, holder, data, todo, stored, openings>>
  BY DEF Open!vars, Open!kernel, Open!contents
<1>2. Numbered' /\ Kinds' /\ Sizes' /\ Written'
  BY <1>1, FilesSame DEF FilesInv
<1>3. Forms' /\ Types'
  BY <1>1 DEF FilesInv, Forms, Types
<1>4. Life' /\ Forks'
  BY <1>1 DEF FilesInv, Life, Forks
<1>5. Works'
  <2>1. ASSUME NEW p \in Process, NEW w \in In(todo[p]) PROVE Good(p, w)'
    <3>1. Good(p, w)
      BY DEF FilesInv, Works
    <3> QED
      BY <1>1, <3>1 DEF Good, Passed, Unready, Fresh, Dupped, Moving, Locked, Still
  <2> QED
    BY <1>1, <2>1 DEF Works
<1>6. \A f : Refers(f)' = Refers(f)
  BY <1>1 DEF Refers
<1>7. Typed' /\ RefsRight'
  BY <1>1, <1>6 DEF FilesInv, Typed, RefsRight
<1>8. EndsRight' /\ InodesRight'
  <2>1. \A k, end : Piped(k, end)' = Piped(k, end)
    BY <1>1 DEF Piped
  <2>2. \A i : Stands(i)' = Stands(i)
    BY <1>1 DEF Stands
  <2> QED
    BY <1>1, <2>1, <2>2 DEF FilesInv, EndsRight, InodesRight
<1> QED
  BY <1>2, <1>3, <1>4, <1>5, <1>7, <1>8 DEF FilesInv

LEMMA FilesNext ==
  ASSUME FilesInv, Open!Next PROVE FilesInv'
<1>1. PICK p \in Process : Open!Step(p) \/ Open!Call(p)
  BY DEF Open!Next
<1>2. CASE Open!Step(p)
  <2>1. CASE \/ Open!Fileclose(p) \/ Open!LastClose(p) \/ Open!Iput(p) \/ Open!Dup(p)
    BY <2>1, FilecloseKeeps, LastCloseKeeps, IputKeeps, DupKeeps
  <2>2. CASE Open!OpenAlloc(p) \/ Open!OpenFd(p) \/ Open!UnlockPut(p)
    BY <2>2, OpenAllocKeeps, OpenFdKeeps, UnlockPutKeeps
  <2>3. CASE Open!PipeFile0(p) \/ Open!PipeFile1(p) \/ Open!PipePage(p) \/ Open!PipeFds(p)
    BY <2>3, PipeFile0Keeps, PipeFile1Keeps, PipePageKeeps, PipeFdsKeeps
  <2>4. CASE Open!ForkDup(p) \/ Open!Born(p) \/ Open!ExitCloses(p) \/ Open!ExitClears(p) \/ Open!Dead(p)
    BY <2>4, ForkDupKeeps, BornKeeps, ExitClosesKeeps, ExitClearsKeeps, DeadKeeps
  <2>5. CASE Open!Lock(p) \/ Open!Readi(p) \/ Open!Writei(p)
    BY <2>5, LockKeeps, ReadiKeeps, WriteiKeeps
  <2> QED
    BY <1>2, <2>1, <2>2, <2>3, <2>4, <2>5 DEF Open!Step
<1>3. CASE Open!Call(p)
  <2>1. CASE Open!SysPipe(p) \/ Open!Exit(p)
    BY <2>1, SysPipeKeeps, ExitKeeps
  <2>2. CASE \E c \in Process : Open!Fork(p, c)
    BY <2>2, ForkKeeps
  <2>3. CASE \E i \in Inode, mode \in Open!Mode, trunc \in BOOLEAN : Open!SysOpen(p, i, mode, trunc)
    BY <2>3, SysOpenKeeps
  <2>4. ASSUME NEW e \in Open!Fd,
               \/ Open!SysClose(p, e) \/ Open!SysDup(p, e) \/ Open!SysRead(p, e)
               \/ \E n \in 1 .. MaxWrite : Open!SysWrite(p, e, n)
        PROVE  FilesInv'
    BY <2>4, SysCloseKeeps, SysDupKeeps, SysReadKeeps, SysWriteKeeps
  <2> QED
    BY <1>3, <2>1, <2>2, <2>3, <2>4 DEF Open!Call
<1> QED
  BY <1>1, <1>2, <1>3

LEMMA FilesEnough ==
  ASSUME FilesInv PROVE FilesCounted
<1>1. Open!RefsExact /\ Open!EndsExact /\ Open!InodeRefsExact
  BY FromExact DEF FilesInv
<1>2. Open!TypeOK
  <2>1. file \in [Open!File -> [ref : Nat, type : {"none", "pipe", "inode", "device"},
                   obj : Inode \cup Page \cup {Nothing}, mode : Open!Mode, off : 0 .. MaxSize]]
    <3>1. ASSUME NEW f \in Open!File
          PROVE  file[f] \in [ref : Nat, type : {"none", "pipe", "inode", "device"},
                   obj : Inode \cup Page \cup {Nothing}, mode : Open!Mode, off : 0 .. MaxSize]
      <4>1. file[f] \in Struct /\ file[f].off <= MaxSize
        BY DEF FilesInv, Numbered, Sizes
      <4>2. file[f].off \in 0 .. MaxSize
        BY <4>1, Finite DEF Struct
      <4> QED
        BY <4>1, <4>2 DEF Struct
    <3> QED
      BY <3>1 DEF FilesInv, Numbered
  <2>2. iref \in [Inode -> Nat]
    <3>1. ASSUME NEW i \in Inode PROVE iref[i] \in Nat
      <4>1. Stands(i) \subseteq Open!File
        BY DEF Stands
      <4>2. Cardinality(Stands(i)) \in Nat /\ Count(todo, Puts(i)) \in Nat
        BY <4>1, FilesFinite, WhereFinite DEF FilesInv, Forms
      <4> QED
        BY <4>2 DEF FilesInv, InodesRight
    <3> QED
      BY <3>1 DEF FilesInv, Types
  <2> QED
    BY <2>1, <2>2 DEF FilesInv, Types, Kinds, Open!TypeOK
<1>3. Open!WritesKept
  <2>1. ASSUME NEW i \in Inode, openings[i] <= 1, NEW p \in Process
        PROVE  Open!Cardinality({k \in DOMAIN data[i] : data[i][k] = p}) = stored[i][p]
    <3>1. data[i] \in Seq(Process)
      BY DEF FilesInv, Kinds
    <3>2. DOMAIN data[i] = 1 .. Len(data[i])
      BY <3>1
    <3>3. {k \in DOMAIN data[i] : data[i][k] = p} = Units(i, p)
      BY <3>2 DEF Units
    <3>4. Cardinality(Units(i, p)) = stored[i][p]
      BY <2>1 DEF FilesInv, Written, WrittenAt
    <3> QED
      BY <3>3, <3>4, SameCount
  <2> QED
    BY <2>1 DEF Open!WritesKept
<1> QED
  BY <1>1, <1>2, <1>3 DEF FilesCounted, Open!FilesCounted

(* For any processes, tables, inodes, pages and lengths, and whatever the  *)
(* calls and their order: every reference to an open file, to an end of a  *)
(* pipe and to an inode is counted once, also half way through dup(),      *)
(* open(), pipe(), fork(), exit() and close(); and as long as a file was   *)
(* opened for writing once, those who share it keep each other's writes.   *)
THEOREM FilesAreCounted == Open!Spec => []FilesCounted
<1>1. Open!Init => FilesInv
  BY FilesFirst
<1>2. FilesInv /\ [Open!Next]_(Open!vars) => FilesInv'
  BY FilesNext, FilesStutter
<1>3. FilesInv => FilesCounted
  BY FilesEnough
<1> QED
  BY <1>1, <1>2, <1>3, PTL DEF Open!Spec
=============================================================================
