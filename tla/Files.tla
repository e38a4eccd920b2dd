------------------------------- MODULE Files --------------------------------
(***************************************************************************)
(* kernel/file.c and the calls of kernel/sysfile.c, fork() and exit() that *)
(* use it: descriptors, the table of open files, whose references processes*)
(* share, and what the last reference gives back: an end of a pipe or a    *)
(* reference to an inode.                                                  *)
(*                                                                         *)
(* What a process does under ftable.lock, or with an inode locked, is one  *)
(* action; todo[p] is what remains of its call.  Reading and writing pipes *)
(* and devices changes nothing here (Pipe, Console); nor does fstat().     *)
(***************************************************************************)
EXTENDS Naturals, Sequences, FiniteSets, FiniteSetsExt

CONSTANTS
  Process,
  First,       \* the process that runs at first
  NFILE, NOFILE,
  Inode, Device,
  Page,        \* pages a pipe may get
  None,
  CHUNK,       \* "max" of filewrite(): what one transaction may write
  MaxSize,     \* the largest file (MAXFILE * BSIZE)
  MaxWrite,    \* bound on the n of write()
  MaxCalls     \* bound on the calls of all processes together

FilesAssumption ==
  /\ IsFiniteSet(Process) /\ First \in Process /\ Device \subseteq Inode
  /\ {NFILE, NOFILE, CHUNK, MaxSize, MaxWrite, MaxCalls} \subseteq Nat \ {0}
  /\ None \notin Process \cup 1 .. NFILE \cup Inode \cup Page

File == 1 .. NFILE
Fd == 0 .. NOFILE - 1
Mode == {"r", "w", "rw"}

VARIABLES
  file,     \* File -> struct file: mode is readable and writable
  ofile,    \* Process -> Fd -> File or None
  status,   \* Process -> "unused", "embryo" (fork() is copying to it) or "runs"
  open,     \* Page -> the ends of the pipe in it that are open; {} when it is free
  iref,     \* Inode -> ip->ref, as far as files and calls made here go
  holder,   \* Inode -> who has ip->lock, or None
  data,     \* Inode -> the file: of each unit, who wrote it
  todo, calls,
  stored,   \* history: Inode -> Process -> units that writei() said it wrote
  openings  \* history: Inode -> opens that could write or truncate

kernel == <<open, iref, holder>>
contents == <<data, stored, openings>>
vars == <<file, ofile, status, kernel, contents, todo, calls>>

Empty == [ref |-> 0, type |-> "none", obj |-> None, mode |-> "r", off |-> 0]

Init ==
  /\ file = [f \in File |-> Empty]
  /\ ofile = [p \in Process |-> [fd \in Fd |-> None]]
  /\ status = [p \in Process |-> IF p = First THEN "runs" ELSE "unused"]
  /\ open = [k \in Page |-> {}] /\ iref = [i \in Inode |-> 0]
  /\ holder = [i \in Inode |-> None] /\ data = [i \in Inode |-> <<>>]
  /\ todo = [p \in Process |-> <<>>] /\ calls = 0
  /\ stored = [i \in Inode |-> [p \in Process |-> 0]]
  /\ openings = [i \in Inode |-> 0]

-----------------------------------------------------------------------------
At(p, do) == todo[p] # <<>> /\ Head(todo[p]).do = do
This(p) == Head(todo[p])
Continue(p, is) == todo' = [todo EXCEPT ![p] = is \o Tail(@)]

Close(f) == [do |-> "close", f |-> f]
Put(i) == [do |-> "iput", i |-> i]

Begins(p, is) ==
  /\ status[p] = "runs" /\ todo[p] = <<>> /\ calls < MaxCalls
  /\ calls' = calls + 1 /\ todo' = [todo EXCEPT ![p] = is]

(* The number of the file that a descriptor is open on.                    *)
Opened(p) == {fd \in Fd : ofile[p][fd] # None}
FreeFd(p) == Fd \ Opened(p)

FreeFile == {f \in File : file[f].ref = 0}

(* filealloc() for the current instruction: it does not touch f->type.     *)
Filealloc(p, found(_), none) ==
  \/ FreeFile = {} /\ Continue(p, none) /\ UNCHANGED file
  \/ /\ FreeFile # {}
     /\ file' = [file EXCEPT ![Min(FreeFile)].ref = 1]
     /\ Continue(p, found(Min(FreeFile)))

Filedup(f) == file' = [file EXCEPT ![f].ref = @ + 1]

-----------------------------------------------------------------------------
(* Slip: f->type is not reset.                                          *)
ClosedKeepsType(ff) == [ff EXCEPT !.ref = 0]

Closed(ff) == [ff EXCEPT !.ref = 0, !.type = "none"]

(* fileclose() under ftable.lock.                                          *)
Fileclose(p) ==
  /\ At(p, "close")
  /\ LET f == This(p).f
     IN \/ /\ file[f].ref > 1
           /\ file' = [file EXCEPT ![f].ref = @ - 1] /\ Continue(p, <<>>)
        \/ /\ file[f].ref = 1
           /\ file' = [file EXCEPT ![f] = Closed(@)]
           /\ Continue(p, <<[do |-> "last", f |-> f, ff |-> file[f]]>>)
  /\ UNCHANGED <<ofile, status, kernel, contents, calls>>

(* Slip: f is used after the lock has been released.                    *)
CopyLate(p) == file[This(p).f]

Copy(p) == This(p).ff

(* The last reference: pipeclose() or iput(); a file of no type is one     *)
(* that open() or pipe() gave up.                                          *)
LastClose(p) ==
  /\ At(p, "last")
  /\ LET ff == Copy(p)
     IN /\ open' = IF ff.type = "pipe" THEN [open EXCEPT ![ff.obj] = @ \ {ff.mode}] ELSE open
        /\ Continue(p, IF ff.type \in {"inode", "device"} THEN <<Put(ff.obj)>> ELSE <<>>)
  /\ UNCHANGED <<file, ofile, status, iref, holder, contents, calls>>

Iput(p) ==
  /\ At(p, "iput")
  /\ iref' = [iref EXCEPT ![This(p).i] = @ - 1] /\ Continue(p, <<>>)
  /\ UNCHANGED <<file, ofile, status, open, holder, contents, calls>>

SysClose(p, fd) ==
  /\ fd \in Opened(p)
  /\ Begins(p, <<Close(ofile[p][fd])>>)
  /\ ofile' = [ofile EXCEPT ![p][fd] = None]
  /\ UNCHANGED <<file, status, kernel, contents>>

-----------------------------------------------------------------------------
(* sys_dup(): the descriptor before the reference.                         *)
SysDup(p, fd) ==
  /\ fd \in Opened(p)
  /\ \/ /\ FreeFd(p) # {}
        /\ ofile' = [ofile EXCEPT ![p][Min(FreeFd(p))] = ofile[p][fd]]
        /\ Begins(p, <<[do |-> "dup", f |-> ofile[p][fd]]>>)
     \/ FreeFd(p) = {} /\ Begins(p, <<>>) /\ UNCHANGED ofile
  /\ UNCHANGED <<file, status, kernel, contents>>

Dup(p) ==
  /\ At(p, "dup")
  /\ Filedup(This(p).f) /\ Continue(p, <<>>)
  /\ UNCHANGED <<ofile, status, kernel, contents, calls>>

(* sys_open() from where it has found and locked the inode.                *)
SysOpen(p, i, mode, trunc) ==
  /\ holder[i] = None
  /\ Begins(p, <<[do |-> "open", i |-> i, mode |-> mode, trunc |-> trunc]>>)
  /\ holder' = [holder EXCEPT ![i] = p] /\ iref' = [iref EXCEPT ![i] = @ + 1]
  /\ UNCHANGED <<file, ofile, status, open, contents>>

Unlockput(i) == [do |-> "unlockput", i |-> i]

OpenAlloc(p) ==
  /\ At(p, "open")
  /\ Filealloc(p, LAMBDA f : <<[do |-> "openfd", f |-> f, i |-> This(p).i,
                                mode |-> This(p).mode, trunc |-> This(p).trunc]>>,
               <<Unlockput(This(p).i)>>)
  /\ UNCHANGED <<ofile, status, kernel, contents, calls>>

OpenFd(p) ==
  /\ At(p, "openfd")
  /\ LET i == This(p).i
         f == This(p).f
         trunc == This(p).trunc /\ i \notin Device
     IN \/ /\ FreeFd(p) = {}
           /\ Continue(p, <<Close(f), Unlockput(i)>>)
           /\ UNCHANGED <<file, ofile, holder, data, openings>>
        \/ /\ FreeFd(p) # {}
           /\ ofile' = [ofile EXCEPT ![p][Min(FreeFd(p))] = f]
           /\ file' = [file EXCEPT ![f].type = IF i \in Device THEN "device" ELSE "inode",
                                   ![f].off = IF i \in Device THEN @ ELSE 0,
                                   ![f].obj = i, ![f].mode = This(p).mode]
           /\ data' = [data EXCEPT ![i] = IF trunc THEN <<>> ELSE @]
           /\ openings' = [openings EXCEPT ![i] = IF trunc \/ This(p).mode # "r" THEN @ + 1 ELSE @]
           /\ holder' = [holder EXCEPT ![i] = None]
           /\ Continue(p, <<>>)
  /\ UNCHANGED <<status, open, iref, stored, calls>>

UnlockPut(p) ==
  /\ At(p, "unlockput")
  /\ holder' = [holder EXCEPT ![This(p).i] = None] /\ Continue(p, <<Put(This(p).i)>>)
  /\ UNCHANGED <<file, ofile, status, open, iref, contents, calls>>

-----------------------------------------------------------------------------
(* sys_pipe(): two files, a page, two descriptors; each may be missing.    *)
SysPipe(p) ==
  /\ Begins(p, <<[do |-> "pipe0"]>>)
  /\ UNCHANGED <<file, ofile, status, kernel, contents>>

PipeFile0(p) ==
  /\ At(p, "pipe0")
  /\ Filealloc(p, LAMBDA f : <<[do |-> "pipe1", r |-> f]>>, <<>>)
  /\ UNCHANGED <<ofile, status, kernel, contents, calls>>

PipeFile1(p) ==
  /\ At(p, "pipe1")
  /\ Filealloc(p, LAMBDA f : <<[do |-> "page", r |-> This(p).r, w |-> f]>>, <<Close(This(p).r)>>)
  /\ UNCHANGED <<ofile, status, kernel, contents, calls>>

(* kalloc() may fail although there are pages here: others have memory too.*)
PipePage(p) ==
  /\ At(p, "page")
  /\ LET r == This(p).r
         w == This(p).w
         End(f, k, mode) == [file[f] EXCEPT !.type = "pipe", !.obj = k, !.mode = mode]
     IN \/ Continue(p, <<Close(r), Close(w)>>) /\ UNCHANGED <<file, open>>
        \/ \E k \in Page :
             /\ open[k] = {} /\ open' = [open EXCEPT ![k] = {"r", "w"}]
             /\ file' = [file EXCEPT ![r] = End(r, k, "r"), ![w] = End(w, k, "w")]
             /\ Continue(p, <<[do |-> "pipefds", r |-> r, w |-> w]>>)
  /\ UNCHANGED <<ofile, status, iref, holder, contents, calls>>

(* The second copyout() or fdalloc() may fail as well as the first: what   *)
(* was stored in ofile is taken back.                                      *)
PipeFds(p) ==
  /\ At(p, "pipefds")
  /\ \/ Continue(p, <<Close(This(p).r), Close(This(p).w)>>) /\ UNCHANGED ofile
     \/ /\ Cardinality(FreeFd(p)) >= 2
        /\ LET fd0 == Min(FreeFd(p))
               fd1 == Min(FreeFd(p) \ {fd0})
           IN ofile' = [ofile EXCEPT ![p][fd0] = This(p).r, ![p][fd1] = This(p).w]
        /\ Continue(p, <<>>)
  /\ UNCHANGED <<file, status, kernel, contents, calls>>

-----------------------------------------------------------------------------
(* The loops of fork() and exit() over the descriptors of p: those that    *)
(* are left.                                                               *)
Remaining(p) == {fd \in Opened(p) : fd >= This(p).fd}

(* fork(): the child gets a reference for each descriptor, then it runs.   *)
Fork(p, c) ==
  /\ status[c] = "unused"
  /\ Begins(p, <<[do |-> "fork", c |-> c, fd |-> 0]>>)
  /\ status' = [status EXCEPT ![c] = "embryo"]
  /\ UNCHANGED <<file, ofile, kernel, contents>>

ForkDup(p) ==
  /\ At(p, "fork") /\ Remaining(p) # {}
  /\ LET fd == Min(Remaining(p))
     IN /\ Filedup(ofile[p][fd])
        /\ ofile' = [ofile EXCEPT ![This(p).c][fd] = ofile[p][fd]]
        /\ Continue(p, <<[do |-> "fork", c |-> This(p).c, fd |-> fd + 1]>>)
  /\ UNCHANGED <<status, kernel, contents, calls>>

Born(p) ==
  /\ At(p, "fork") /\ Remaining(p) = {}
  /\ status' = [status EXCEPT ![This(p).c] = "runs"] /\ Continue(p, <<>>)
  /\ UNCHANGED <<file, ofile, kernel, contents, calls>>

(* exit(): fileclose() before p->ofile[fd] = 0.                            *)
Exit(p) ==
  /\ Begins(p, <<[do |-> "exit", fd |-> 0]>>)
  /\ UNCHANGED <<file, ofile, status, kernel, contents>>

ExitCloses(p) ==
  /\ At(p, "exit") /\ Remaining(p) # {}
  /\ LET fd == Min(Remaining(p))
     IN Continue(p, <<Close(ofile[p][fd]), [do |-> "clear", fd |-> fd],
                      [do |-> "exit", fd |-> fd + 1]>>)
  /\ UNCHANGED <<file, ofile, status, kernel, contents, calls>>

ExitClears(p) ==
  /\ At(p, "clear")
  /\ ofile' = [ofile EXCEPT ![p][This(p).fd] = None] /\ Continue(p, <<>>)
  /\ UNCHANGED <<file, status, kernel, contents, calls>>

Dead(p) ==
  /\ At(p, "exit") /\ Remaining(p) = {}
  /\ status' = [status EXCEPT ![p] = "unused"] /\ Continue(p, <<>>)
  /\ UNCHANGED <<file, ofile, kernel, contents, calls>>

-----------------------------------------------------------------------------
(* read() and write() of a file on disk.  at is the offset that readi() or *)
(* writei() is called with, read with the inode locked.                    *)
OnDisk(p, fd) == fd \in Opened(p) /\ file[ofile[p][fd]].type = "inode"

SysRead(p, fd) ==
  /\ OnDisk(p, fd) /\ file[ofile[p][fd]].mode # "w"
  /\ Begins(p, <<[do |-> "read", f |-> ofile[p][fd], n |-> 1]>>)
  /\ UNCHANGED <<file, ofile, status, kernel, contents>>

SysWrite(p, fd, n) ==
  /\ OnDisk(p, fd) /\ file[ofile[p][fd]].mode # "r"
  /\ Begins(p, <<[do |-> "write", f |-> ofile[p][fd], n |-> n]>>)
  /\ UNCHANGED <<file, ofile, status, kernel, contents>>

(* Slip: no ilock().                                                    *)
NoIlock(p, i) == TRUE

Ilock(p, i) == holder[i] = None

Lock(p) ==
  /\ At(p, "read") \/ At(p, "write")
  /\ LET f == This(p).f
         i == file[f].obj
     IN /\ Ilock(p, i) /\ holder' = [holder EXCEPT ![i] = p]
        /\ Continue(p, <<[do |-> IF At(p, "read") THEN "readi" ELSE "writei",
                          f |-> f, n |-> This(p).n, at |-> file[f].off]>>)
  /\ UNCHANGED <<file, ofile, status, open, iref, contents, calls>>

(* readi() returns 0 at and behind the end, -1 for a bad user address.     *)
Readi(p) ==
  /\ At(p, "readi")
  /\ LET f == This(p).f
         i == file[f].obj
     IN /\ \E r \in {0, IF This(p).at < Len(data[i]) THEN This(p).n ELSE 0} :
             file' = [file EXCEPT ![f].off = @ + r]
        /\ holder' = [holder EXCEPT ![i] = None]
  /\ Continue(p, <<>>)
  /\ UNCHANGED <<ofile, status, open, iref, contents, calls>>

(* d with r units of p at offset at.                                       *)
Patched(d, at, r, p) ==
  [k \in 1 .. Max({Len(d), at + r}) |-> IF k > at /\ k <= at + r THEN p ELSE d[k]]

(* What writei() may return, -1 as 0: a disk that fills up or a bad user   *)
(* address ends it early.                                                  *)
Writable(at, n1, size) == IF at > size \/ at + n1 > MaxSize THEN {0} ELSE 0 .. n1

(* One turn of the loop of filewrite(): a transaction.                     *)
Writei(p) ==
  /\ At(p, "writei")
  /\ LET f == This(p).f
         i == file[f].obj
         n1 == Min({This(p).n, CHUNK})
     IN \E r \in Writable(This(p).at, n1, Len(data[i])) :
          /\ file' = [file EXCEPT ![f].off = @ + r]
          /\ data' = IF r = 0 THEN data ELSE [data EXCEPT ![i] = Patched(@, This(p).at, r, p)]
          /\ stored' = [stored EXCEPT ![i][p] = @ + r]
          /\ holder' = [holder EXCEPT ![i] = None]
          /\ Continue(p, IF r # n1 \/ This(p).n = n1 THEN <<>>
                         ELSE <<[do |-> "write", f |-> f, n |-> This(p).n - n1]>>)
  /\ UNCHANGED <<ofile, status, open, iref, openings, calls>>

-----------------------------------------------------------------------------
Step(p) ==
  \/ Fileclose(p) \/ LastClose(p) \/ Iput(p) \/ Dup(p) \/ OpenAlloc(p) \/ OpenFd(p)
  \/ UnlockPut(p) \/ PipeFile0(p) \/ PipeFile1(p) \/ PipePage(p) \/ PipeFds(p)
  \/ ForkDup(p) \/ Born(p) \/ ExitCloses(p) \/ ExitClears(p) \/ Dead(p)
  \/ Lock(p) \/ Readi(p) \/ Writei(p)

Call(p) ==
  \/ SysPipe(p) \/ Exit(p)
  \/ \E c \in Process : Fork(p, c)
  \/ \E i \in Inode, mode \in Mode, trunc \in BOOLEAN : SysOpen(p, i, mode, trunc)
  \/ \E fd \in Fd :
       \/ SysClose(p, fd) \/ SysDup(p, fd) \/ SysRead(p, fd)
       \/ \E n \in 1 .. MaxWrite : SysWrite(p, fd, n)

Next == \E p \in Process : Step(p) \/ Call(p)

Spec == Init /\ [][Next]_vars

-----------------------------------------------------------------------------
TypeOK ==
  /\ file \in [File -> [ref : Nat, type : {"none", "pipe", "inode", "device"},
                        obj : Inode \cup Page \cup {None}, mode : Mode, off : 0 .. MaxSize]]
  /\ ofile \in [Process -> [Fd -> File \cup {None}]]
  /\ status \in [Process -> {"unused", "embryo", "runs"}]
  /\ open \in [Page -> SUBSET {"r", "w"}] /\ iref \in [Inode -> Nat]
  /\ holder \in [Inode -> Process \cup {None}]
  /\ data \in [Inode -> Seq(Process)]

(* What remains to be done, as <<process, position>>.                      *)
Pending == UNION {{<<p, k>> : k \in DOMAIN todo[p]} : p \in Process}
Of(x) == todo[x[1]][x[2]]
Hands(Holds(_)) == Cardinality({x \in Pending : Holds(Of(x))})

(* Descriptors that refer to f; the one that exit() has closed, or is      *)
(* closing, it will clear.                                                 *)
Descriptors(f) ==
  {x \in Process \X Fd :
     /\ ofile[x[1]][x[2]] = f
     /\ \A k \in DOMAIN todo[x[1]] : todo[x[1]][k] # [do |-> "clear", fd |-> x[2]]}

(* f->ref counts the descriptors that refer to f and the references in the *)
(* hands of calls; only dup() owes one.                                    *)
RefsExact ==
  \A f \in File :
    file[f].ref + Hands(LAMBDA w : w.do = "dup" /\ w.f = f) =
      Cardinality(Descriptors(f))
      + Hands(LAMBDA w : \/ w.do \in {"close", "openfd"} /\ w.f = f
                         \/ w.do \in {"pipe1", "page", "pipefds"} /\ w.r = f
                         \/ w.do \in {"page", "pipefds"} /\ w.w = f)

InUse(type, o) == {f \in File : file[f].ref > 0 /\ file[f].type \in type /\ file[f].obj = o}

(* An end of a pipe is open as long as one file, or its last close under   *)
(* way, stands for it, and no two files do.                                *)
EndsExact ==
  \A k \in Page, end \in {"r", "w"} :
    Cardinality({f \in InUse({"pipe"}, k) : file[f].mode = end})
      + Hands(LAMBDA w : w.do = "last" /\ w.ff.type = "pipe" /\ w.ff.obj = k /\ w.ff.mode = end)
      = IF end \in open[k] THEN 1 ELSE 0

InodeRefsExact ==
  \A i \in Inode :
    iref[i] = Cardinality(InUse({"inode", "device"}, i))
      + Hands(LAMBDA w : \/ w.do = "last" /\ w.ff.type \in {"inode", "device"} /\ w.ff.obj = i
                         \/ w.do \in {"iput", "open", "openfd", "unlockput"} /\ w.i = i)

(* Whoever shares an open file or gives one up half way, every reference   *)
(* is counted once: so filedup() and fileclose() do not panic, an end of a *)
(* pipe is closed when its last descriptor is, and an inode is put once.   *)
FilesCounted == TypeOK /\ RefsExact /\ EndsExact /\ InodeRefsExact

(* As long as a file is opened for writing once, processes that share the  *)
(* struct file do not overwrite each other: it holds all that the calls of *)
(* writei() have stored, each unit once.                                   *)
WritesKept ==
  \A i \in Inode : openings[i] <= 1 =>
    \A p \in Process : Cardinality({k \in DOMAIN data[i] : data[i][k] = p}) = stored[i][p]

=============================================================================
