------------------------------- MODULE Inodes -------------------------------
(***************************************************************************)
(* kernel/fs.c above the blocks, and the path system calls of              *)
(* kernel/sysfile.c: the inode table, the inodes on disk, the directories, *)
(* and the threads that walk and change them.                              *)
(*                                                                         *)
(* What a thread does from locking one inode until it needs another lock   *)
(* is one action.  What remains of its call is todo[t], a sequence of      *)
(* instructions; each owns references to the inodes refs, and locks or     *)
(* drops the first of them.  Transactions are in Log.  Contents of files   *)
(* and device numbers are left out, and so is the entry ".".               *)
(***************************************************************************)
EXTENDS Naturals, Sequences, SequencesExt, FiniteSets, FiniteSetsExt

CONSTANTS
  Thread,
  NInode,      \* sb.ninodes: the inodes are 1 .. NInode
  Name, DotDot,
  Home,        \* the name of the directory there is at first
  Path,        \* the paths of calls, [abs |-> BOOLEAN, elems |-> Seq(Name)]
  NewPath,     \* those that link() may be asked to make
  None,
  DiskMayFill, \* whether writei() may find no free block
  MaxCalls     \* bound on the calls of all threads together

ASSUME InodesAssumption ==
  /\ NInode \in Nat /\ NInode > 2 /\ DotDot \in Name /\ Home \in Name \ {DotDot} 
  /\ MaxCalls \in Nat /\ NewPath \subseteq Path
  /\ None \notin Thread \cup 1 .. NInode /\ DiskMayFill \in BOOLEAN
  /\ IsFiniteSet(Thread) /\ IsFiniteSet(Name) \* NPROC, DIRSIZ
  /\ \A p \in Path : p.abs \in BOOLEAN /\ p.elems \in Seq(Name) \ {<<>>}

Inum == 1 .. NInode
FileName == Name \ {DotDot}
RootIno == 1
Kind == {"open", "creat", "mkdir", "link", "unlink", "chdir"}

VARIABLES
  disk,    \* Inum -> [type, nlink]: what struct dinode says
  entry,   \* Inum -> Name -> Inum or None: the struct dirents of a directory
  table,   \* Inum -> [ref, valid, node]: the inode table, node its copy of disk
  holder,  \* Inum -> the thread that has ip->lock, or None
  cwd, ofile,
  call,    \* per thread: the system call it makes, or None
  rest,    \* per thread: what is left of the path it walks
  todo, calls

onDisk == <<disk, entry>>
files == <<cwd, ofile>>
vars == <<onDisk, table, holder, files, call, rest, todo, calls>>

Node == [type : {"free", "file", "dir"}, nlink : Nat]

TypeOK ==
  /\ disk \in [Inum -> Node]
  /\ entry \in [Inum -> [Name -> Inum \cup {None}]]
  /\ table \in [Inum -> [ref : Nat, valid : BOOLEAN, node : Node]]
  /\ holder \in [Inum -> Thread \cup {None}]
  /\ cwd \in [Thread -> Inum] /\ ofile \in [Thread -> Inum \cup {None}]
  /\ call \in [Thread -> [kind : Kind, path : Path, new : Path] \cup {None}]
  /\ rest \in [Thread -> Seq(Name)]
  /\ \A t \in Thread : \A k \in DOMAIN todo[t] : todo[t][k].refs \in Seq(Inum) \ {<<>>}
  /\ calls \in 0 .. MaxCalls

-----------------------------------------------------------------------------
Free == [type |-> "free", nlink |-> 0]
NoEntry == [n \in Name |-> None]

(* iget() clears ip->valid when it takes an entry with ip->ref = 0.        *)
Unused == [ref |-> 0, valid |-> FALSE, node |-> Free]

(* A root made by mkfs; processes, who are in the root, have made a        *)
(* directory in it and perhaps a file, in the directory or next to it.     *)
Init ==
  /\ \E where \in {None, RootIno, 2}, m \in FileName \ {Home} :
       LET sub == 2
           file == 3
           FileIn(d, k) == IF where = d /\ k = m THEN file ELSE None
       IN
       /\ disk = [i \in Inum |-> CASE i = RootIno -> [type |-> "dir", nlink |-> 2]
                                   [] i = sub -> [type |-> "dir", nlink |-> 1]
                                   [] i = file /\ where # None -> [type |-> "file", nlink |-> 1]
                                   [] OTHER -> Free]
       /\ entry = [i \in Inum |->
                     IF i \in {RootIno, sub}
                     THEN [k \in Name |-> CASE k = DotDot -> RootIno
                                            [] k = Home /\ i = RootIno -> sub
                                            [] OTHER -> FileIn(i, k)]
                     ELSE NoEntry]
  /\ table = [i \in Inum |-> IF i = RootIno THEN [Unused EXCEPT !.ref = Cardinality(Thread)]
                                            ELSE Unused]
  /\ holder = [i \in Inum |-> None]
  /\ cwd = [t \in Thread |-> RootIno] /\ ofile = [t \in Thread |-> None]
  /\ call = [t \in Thread |-> None] /\ rest = [t \in Thread |-> <<>>]
  /\ todo = [t \in Thread |-> <<>>] /\ calls = 0

-----------------------------------------------------------------------------
I(do, refs) == [do |-> do, refs |-> refs]
Put(i) == I("put", <<i>>)

Instruction(t) == Head(todo[t])
Ref(t, k) == Instruction(t).refs[k]
At(t, do) == todo[t] # <<>> /\ Instruction(t).do = do

(* The current instruction is done; is is what it leaves to do.            *)
Continue(t, is) ==
  LET next == is \o Tail(todo[t])
  IN /\ todo' = [todo EXCEPT ![t] = next]
     /\ call' = [call EXCEPT ![t] = IF next = <<>> THEN None ELSE @]

(* iget() or idup(): one more reference.                                   *)
Iget(tb, i) == [tb EXCEPT ![i].ref = @ + 1]

(* The inode as ilock() finds it, and the table after ilock().             *)
Loaded(i) == IF table[i].valid THEN table[i].node ELSE disk[i]
Ilock(i) == [table EXCEPT ![i].valid = TRUE, ![i].node = Loaded(i)]

(* The locked inodes of new get these fields, and iupdate() writes them.   *)
Iupdate(tb, new) ==
  /\ table' = [i \in Inum |-> IF i \in DOMAIN new THEN [tb[i] EXCEPT !.node = new[i]] ELSE tb[i]]
  /\ disk' = [i \in Inum |-> IF i \in DOMAIN new THEN new[i] ELSE disk[i]]

(* Mutant: iput() for iunlockput().                                     *)
KeepLocked(i) == UNCHANGED holder

Unlock(i) == holder' = [holder EXCEPT ![i] = None]

(* Instructions that begin with ilock() of their first inode.              *)
Locking == {"walk", "walkparent", "open", "create", "existing", "created",
            "unlink", "victim", "link", "linkto", "badlink", "chdir"}

(* What ilock() and what follows it panic about; the kernel ends there.    *)
PanicOf(t) ==
  LET node == Loaded(Ref(t, 1))
  IN CASE node.type = "free" -> "ilock: no type"
       [] Instruction(t).do \in {"create", "unlink", "linkto"} /\ node.type # "dir"
            -> "dirlookup not DIR"
       [] Instruction(t).do = "victim" /\ node.nlink < 1 -> "unlink: nlink < 1"
       [] OTHER -> "no"

Locks(t, do) == At(t, do) /\ holder[Ref(t, 1)] = None /\ PanicOf(t) = "no"

-----------------------------------------------------------------------------
(* namex()                                                                 *)

Parent(kind) == kind \in {"creat", "mkdir", "unlink"}

(* Where the walk of a path begins: with a new reference to the root or to *)
(* the working directory.                                                  *)
Start(t, path) == IF path.abs THEN RootIno ELSE cwd[t]

Begin(t, kind, path, new) ==
  /\ todo[t] = <<>> /\ calls < MaxCalls
  /\ calls' = calls + 1
  /\ call' = [call EXCEPT ![t] = [kind |-> kind, path |-> path, new |-> new]]
  /\ rest' = [rest EXCEPT ![t] = path.elems]
  /\ table' = Iget(table, Start(t, path))
  /\ todo' = [todo EXCEPT ![t] =
                <<I(IF Parent(kind) THEN "walkparent" ELSE "walk", <<Start(t, path)>>)>>]
  /\ UNCHANGED <<onDisk, holder, files>>

(* The handler that namei() or nameiparent() returns to.                   *)
Arrive(t) ==
  CASE call[t].kind = "link" /\ At(t, "walkparent") -> "linkto"
    [] call[t].kind \in {"creat", "mkdir"} -> "create"
    [] OTHER -> call[t].kind

(* Mutant: sys_link() just returns.                                     *)
UndoNothing(t) == <<>>

(* After a failure sys_link() takes its link back, the others just return. *)
Undo(t) == IF Len(Instruction(t).refs) = 2 THEN <<I("badlink", <<Ref(t, 2)>>)>> ELSE <<>>

Walk(t, do) ==
  /\ Locks(t, do)
  /\ LET ip == Ref(t, 1)
         others == Tail(Instruction(t).refs)
         last == Len(rest[t]) = 1
         next == entry[ip][Head(rest[t])]
         isDir == Loaded(ip).type = "dir"
     IN \/ /\ isDir /\ do = "walkparent" /\ last
           /\ table' = Ilock(ip)
           /\ Continue(t, <<I(Arrive(t), Instruction(t).refs)>>) /\ UNCHANGED rest
        \/ /\ ~isDir \/ (~(do = "walkparent" /\ last) /\ next = None)
           /\ table' = Ilock(ip)
           /\ Continue(t, <<Put(ip)>> \o Undo(t))
           /\ rest' = [rest EXCEPT ![t] = <<>>]
        \/ /\ isDir /\ ~(do = "walkparent" /\ last) /\ next # None
           /\ table' = Iget(Ilock(ip), next)
           /\ Continue(t, <<Put(ip), I(IF last THEN Arrive(t) ELSE do, <<next>> \o others)>>)
           /\ rest' = [rest EXCEPT ![t] = Tail(@)]
  /\ UNCHANGED <<onDisk, holder, files, calls>>

-----------------------------------------------------------------------------
(* iput(): the last reference to an inode without links frees it.          *)

(* Mutant: ip->ref == 1 is not tested.                                  *)
LastRefOfMany(i) == table[i].valid /\ table[i].node.nlink = 0

(* Mutant: ip->nlink == 0 is not tested.                                *)
LastRefWithLinks(i) == table[i].ref = 1 /\ table[i].valid

LastRef(i) == table[i].ref = 1 /\ table[i].valid /\ table[i].node.nlink = 0

Drop(i) ==
  table' = [table EXCEPT ![i] = IF @.ref = 1 THEN Unused ELSE [table[i] EXCEPT !.ref = @ - 1]]

Iput(t) ==
  /\ At(t, "put")
  /\ LET i == Ref(t, 1)
     IN \/ /\ LastRef(i) /\ holder[i] = None
           /\ holder' = [holder EXCEPT ![i] = t]
           /\ Continue(t, <<I("free", <<i>>)>>) /\ UNCHANGED table
        \/ ~LastRef(i) /\ Drop(i) /\ Continue(t, <<>>) /\ UNCHANGED holder
  /\ UNCHANGED <<onDisk, files, rest, calls>>

(* itrunc() and iupdate() with ip->type = 0.                               *)
IputFrees(t) ==
  /\ At(t, "free")
  /\ LET i == Ref(t, 1)
     IN /\ Iupdate(table, [j \in {i} |-> Free])
        /\ entry' = [entry EXCEPT ![i] = NoEntry]
        /\ Continue(t, <<I("freed", <<i>>)>>)
  /\ UNCHANGED <<holder, files, rest, calls>>

(* ip->valid = 0, releasesleep().                                          *)
IputInvalidates(t) ==
  /\ At(t, "freed")
  /\ table' = [table EXCEPT ![Ref(t, 1)].valid = FALSE]
  /\ Unlock(Ref(t, 1)) /\ Continue(t, <<I("drop", <<Ref(t, 1)>>)>>)
  /\ UNCHANGED <<onDisk, files, rest, calls>>

IputDrops(t) ==
  /\ At(t, "drop")
  /\ Drop(Ref(t, 1)) /\ Continue(t, <<>>)
  /\ UNCHANGED <<onDisk, holder, files, rest, calls>>

(* iunlockput() of an inode that was locked in an earlier step.            *)
UnlockPut(t) ==
  /\ At(t, "unlockput")
  /\ Unlock(Ref(t, 1)) /\ Continue(t, <<Put(Ref(t, 1))>>)
  /\ UNCHANGED <<onDisk, table, files, rest, calls>>

-----------------------------------------------------------------------------
(* sys_open() with the inode locked.  A process has one descriptor, and a  *)
(* directory may be asked for writing.                                     *)
Opens(t, ip, refusable) ==
  \/ /\ ofile[t] = None
     /\ ofile' = [ofile EXCEPT ![t] = ip] /\ Continue(t, <<>>)
  \/ /\ ofile[t] # None \/ refusable
     /\ Continue(t, <<Put(ip)>>) /\ UNCHANGED ofile

Open(t) ==
  /\ Locks(t, "open")
  /\ LET ip == Ref(t, 1)
     IN Opens(t, ip, Loaded(ip).type = "dir") /\ table' = Ilock(ip)
  /\ UNCHANGED <<onDisk, holder, cwd, rest, calls>>

(* create() found the name: only open() can use it, if it is a file.       *)
Existing(t) ==
  /\ Locks(t, "existing")
  /\ LET ip == Ref(t, 1)
     IN /\ IF call[t].kind = "creat" /\ Loaded(ip).type = "file"
           THEN Opens(t, ip, FALSE)
           ELSE Continue(t, <<Put(ip)>>) /\ UNCHANGED ofile
        /\ table' = Ilock(ip)
  /\ UNCHANGED <<onDisk, holder, cwd, rest, calls>>

(* create() made the inode and returned it locked.                         *)
Made(t) ==
  /\ At(t, "made")
  /\ LET ip == Ref(t, 1)
     IN /\ IF call[t].kind = "creat" THEN Opens(t, ip, FALSE)
                                     ELSE Continue(t, <<Put(ip)>>) /\ UNCHANGED ofile
        /\ Unlock(ip)
  /\ UNCHANGED <<onDisk, table, cwd, rest, calls>>

Close(t) ==
  /\ todo[t] = <<>> /\ ofile[t] # None
  /\ todo' = [todo EXCEPT ![t] = <<Put(ofile[t])>>]
  /\ ofile' = [ofile EXCEPT ![t] = None]
  /\ UNCHANGED <<onDisk, table, holder, cwd, call, rest, calls>>

-----------------------------------------------------------------------------
(* create() under the lock of the parent: the name may be there; else      *)
(* ialloc() takes the first free inode, if any, and dp stays locked.       *)
LastName(path) == Last(path.elems)
NewType(t) == IF call[t].kind = "mkdir" THEN "dir" ELSE "file"
FreeInodes == {i \in Inum : disk[i].type = "free"}

Create(t) ==
  /\ Locks(t, "create")
  /\ LET dp == Ref(t, 1)
         ip == entry[dp][LastName(call[t].path)]
     IN \/ /\ ip # None
           /\ table' = Iget(Ilock(dp), ip) /\ Continue(t, <<Put(dp), I("existing", <<ip>>)>>)
           /\ UNCHANGED <<disk, holder>>
        \/ /\ ip = None /\ FreeInodes = {}
           /\ table' = Ilock(dp) /\ Continue(t, <<Put(dp)>>) /\ UNCHANGED <<disk, holder>>
        \/ /\ ip = None /\ FreeInodes # {}
           /\ LET new == Min(FreeInodes)
              IN /\ disk' = [disk EXCEPT ![new].type = NewType(t)]
                 /\ table' = Iget(Ilock(dp), new)
                 /\ Continue(t, <<I("created", <<new, dp>>)>>)
           /\ holder' = [holder EXCEPT ![dp] = t]
  /\ UNCHANGED <<entry, files, rest, calls>>

(* dirlink() fails when the directory needs a block and there is none.     *)
Full == DiskMayFill

(* create() with both inodes locked, entries ".." and name written.        *)
Created(t) ==
  /\ Locks(t, "created")
  /\ LET ip == Ref(t, 1)
         dp == Ref(t, 2)
         links == IF NewType(t) = "dir" THEN 1 ELSE 0
     IN \/ /\ Iupdate(Ilock(ip), [j \in {ip, dp} |->
                IF j = ip THEN [Loaded(ip) EXCEPT !.nlink = 1]
                          ELSE [table[dp].node EXCEPT !.nlink = @ + links]])
           /\ entry' = [entry EXCEPT ![dp][LastName(call[t].path)] = ip,
                                     ![ip][DotDot] = IF links = 1 THEN dp ELSE None]
           /\ holder' = [holder EXCEPT ![dp] = None, ![ip] = t]
           /\ Continue(t, <<Put(dp), I("made", <<ip>>)>>)
        \/ /\ Full
           /\ Iupdate(Ilock(ip), [j \in {ip} |-> [Loaded(ip) EXCEPT !.nlink = 0]])
           /\ Continue(t, <<Put(ip), I("unlockput", <<dp>>)>>)
           /\ UNCHANGED <<entry, holder>>
  /\ UNCHANGED <<files, rest, calls>>

-----------------------------------------------------------------------------
(* sys_unlink(): under the lock of the parent, then under both locks.      *)
Unlink(t) ==
  /\ Locks(t, "unlink")
  /\ LET dp == Ref(t, 1)
         name == LastName(call[t].path)
         ip == entry[dp][name]
     IN \/ /\ name = DotDot \/ ip = None
           /\ table' = Ilock(dp) /\ Continue(t, <<Put(dp)>>) /\ UNCHANGED holder
        \/ /\ name # DotDot /\ ip # None
           /\ table' = Iget(Ilock(dp), ip) /\ Continue(t, <<I("victim", <<ip, dp>>)>>)
           /\ holder' = [holder EXCEPT ![dp] = t]
  /\ UNCHANGED <<onDisk, files, rest, calls>>

IsDirEmpty(i) == \A n \in FileName : entry[i][n] = None

Victim(t) ==
  /\ Locks(t, "victim")
  /\ LET ip == Ref(t, 1)
         dp == Ref(t, 2)
         isDir == Loaded(ip).type = "dir"
     IN \/ /\ isDir /\ ~IsDirEmpty(ip)
           /\ table' = Ilock(ip) /\ Continue(t, <<Put(ip), I("unlockput", <<dp>>)>>)
           /\ UNCHANGED <<onDisk, holder>>
        \/ /\ isDir => IsDirEmpty(ip)
           /\ entry' = [entry EXCEPT ![dp][LastName(call[t].path)] = None]
           /\ Iupdate(Ilock(ip), [j \in {dp} |->
                [table[dp].node EXCEPT !.nlink = IF isDir THEN @ - 1 ELSE @]])
           /\ holder' = [holder EXCEPT ![dp] = None, ![ip] = t]
           /\ Continue(t, <<Put(dp), I("unlinked", <<ip>>)>>)
  /\ UNCHANGED <<files, rest, calls>>

Unlinked(t) ==
  /\ At(t, "unlinked")
  /\ LET ip == Ref(t, 1)
     IN /\ Iupdate(table, [j \in {ip} |-> [table[ip].node EXCEPT !.nlink = @ - 1]])
        /\ Unlock(ip) /\ Continue(t, <<Put(ip)>>)
  /\ UNCHANGED <<entry, files, rest, calls>>

-----------------------------------------------------------------------------
(* Mutant: ip->nlink++ is forgotten.                                    *)
NotCounted(node) == node

(* sys_link(): the link is counted before the entry is written.            *)
Counted(node) == [node EXCEPT !.nlink = @ + 1]

Link(t) ==
  /\ Locks(t, "link")
  /\ LET ip == Ref(t, 1)
         new == call[t].new
     IN \/ /\ Loaded(ip).type = "dir"
           /\ table' = Ilock(ip) /\ Continue(t, <<Put(ip)>>) /\ UNCHANGED <<disk, rest>>
        \/ /\ Loaded(ip).type # "dir"
           /\ Iupdate(Iget(Ilock(ip), Start(t, new)),
                      [j \in {ip} |-> Counted(Loaded(ip))])
           /\ Continue(t, <<I("walkparent", <<Start(t, new), ip>>)>>)
           /\ rest' = [rest EXCEPT ![t] = new.elems]
  /\ UNCHANGED <<entry, holder, files, calls>>

LinkTo(t) ==
  /\ Locks(t, "linkto")
  /\ LET dp == Ref(t, 1)
         ip == Ref(t, 2)
         name == LastName(call[t].new)
     IN \/ /\ entry[dp][name] = None
           /\ entry' = [entry EXCEPT ![dp][name] = ip] /\ Continue(t, <<Put(dp), Put(ip)>>)
        \/ /\ entry[dp][name] # None \/ Full
           /\ Continue(t, <<Put(dp), I("badlink", <<ip>>)>>) /\ UNCHANGED entry
  /\ table' = Ilock(Ref(t, 1))
  /\ UNCHANGED <<disk, holder, files, rest, calls>>

BadLink(t) ==
  /\ Locks(t, "badlink")
  /\ LET ip == Ref(t, 1)
     IN /\ Iupdate(Ilock(ip), [j \in {ip} |-> [Loaded(ip) EXCEPT !.nlink = @ - 1]])
        /\ Continue(t, <<Put(ip)>>)
  /\ UNCHANGED <<entry, holder, files, rest, calls>>

-----------------------------------------------------------------------------
(* sys_chdir(): p->cwd changes after iput() of the old one.                *)
Chdir(t) ==
  /\ Locks(t, "chdir")
  /\ LET ip == Ref(t, 1)
     IN /\ table' = Ilock(ip)
        /\ Continue(t, IF Loaded(ip).type = "dir" THEN <<Put(cwd[t]), I("setcwd", <<ip>>)>>
                                                  ELSE <<Put(ip)>>)
  /\ UNCHANGED <<onDisk, holder, files, rest, calls>>

SetCwd(t) ==
  /\ At(t, "setcwd")
  /\ cwd' = [cwd EXCEPT ![t] = Ref(t, 1)] /\ Continue(t, <<>>)
  /\ UNCHANGED <<onDisk, table, holder, ofile, rest, calls>>

-----------------------------------------------------------------------------
Step(t) ==
  \/ \E do \in {"walk", "walkparent"} : Walk(t, do)
  \/ Iput(t) \/ IputFrees(t) \/ IputInvalidates(t) \/ IputDrops(t) \/ UnlockPut(t)
  \/ Open(t) \/ Existing(t) \/ Made(t)
  \/ Create(t) \/ Created(t) \/ Unlink(t) \/ Victim(t) \/ Unlinked(t)
  \/ Link(t) \/ LinkTo(t) \/ BadLink(t) \/ Chdir(t) \/ SetCwd(t)

Next ==
  \E t \in Thread :
    \/ Step(t) \/ Close(t)
    \/ \E path \in Path :
         \/ \E kind \in Kind \ {"link"} : Begin(t, kind, path, path)
         \/ \E new \in NewPath : Begin(t, "link", path, new)

Spec == Init /\ [][Next]_vars

(* Threads in the kernel go on, and acquiresleep() wakes up.               *)
FairSpec == Spec /\ \A t \in Thread : WF_vars(Step(t))

-----------------------------------------------------------------------------
Quiescent == \A t \in Thread : todo[t] = <<>>

(* The panics of ilock(), dirlookup() and sys_unlink() are never reached:  *)
(* an inode that a path led to is allocated, a parent is a directory.      *)
NoPanic ==
  \A t \in Thread :
    todo[t] # <<>> /\ Instruction(t).do \in Locking /\ holder[Ref(t, 1)] = None
      => PanicOf(t) = "no"

(* The comment in iput(): with the last reference the lock is free.        *)
LastRefUnlocked ==
  \A t \in Thread : At(t, "put") /\ LastRef(Ref(t, 1)) => holder[Ref(t, 1)] = None

(* Everything has its type; ip->ref of every inode is the number of        *)
(* working directories, open files and pointers in the kernel that refer   *)
(* to it; and nobody has locked an inode that iput() is about to free.     *)
RefsCounted ==
  /\ TypeOK /\ LastRefUnlocked
  /\ \A i \in Inum :
       table[i].ref =
         Cardinality({t \in Thread : ofile[t] = i})
         + Cardinality({t \in Thread :
                          cwd[t] = i /\ \A k \in DOMAIN todo[t] : todo[t][k].do # "setcwd"})
         + Cardinality({x \in Thread \X (1 .. 3) \X (1 .. 2) :
                          /\ x[2] <= Len(todo[x[1]]) /\ x[3] <= Len(todo[x[1]][x[2]].refs)
                          /\ todo[x[1]][x[2]].refs[x[3]] = i})

(* Directory entries lead to inodes that are allocated.                    *)
NoDangling ==
  \A d \in Inum, n \in FileName :
    disk[d].type = "dir" /\ entry[d][n] # None => disk[entry[d][n]].type # "free"

(* The links of an inode: entries that name it, and ".." of the            *)
(* directories in it (and of the root itself).                             *)
Links(i) ==
  Cardinality({x \in Inum \X FileName : disk[x[1]].type = "dir" /\ entry[x[1]][x[2]] = i})
  + Cardinality({n \in FileName : entry[i][n] # None /\ disk[entry[i][n]].type = "dir"})
  + IF i = RootIno THEN 1 ELSE 0

(* No entry leads to a free inode, and between calls nlink is not less     *)
(* than the number of links: a smaller one would free an inode that can be *)
(* reached.                                                                *)
LinksCovered ==
  /\ NoDangling
  /\ Quiescent => \A i \in Inum : disk[i].type # "free" => Links(i) <= disk[i].nlink

(* Every call returns: nobody waits for ever for the lock of an inode.     *)
CallsReturn == \A t \in Thread : todo[t] # <<>> ~> todo[t] = <<>>

=============================================================================
