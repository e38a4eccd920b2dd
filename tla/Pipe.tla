-------------------------------- MODULE Pipe --------------------------------
(***************************************************************************)
(* kernel/pipe.c: one pipe, the processes that hold its ends, and the part *)
(* of kernel/file.c that closes it with the last descriptor.               *)
(*                                                                         *)
(* pi->lock is a spinlock: a process holds it over a whole pipewrite() or  *)
(* piperead() except while it sleeps.  One turn of a loop is one action,   *)
(* because kill() takes only p->lock and may come between two turns.       *)
(***************************************************************************)
EXTENDS Naturals, Sequences, FiniteSets

CONSTANTS
  Reader, Writer,  \* the processes that have the read end, the write end
  None,
  Byte,
  PIPESIZE,
  WRAP,        \* nread and nwrite are uint: they wrap at 2^32
  MaxCount,    \* bound on the n of a call
  Killable     \* the processes that may be killed

ASSUME PipeAssumption ==
  /\ Reader \cap Writer = {} /\ None \notin Reader \cup Writer
  /\ PIPESIZE \in Nat \ {0} /\ WRAP \in Nat /\ WRAP > PIPESIZE
  /\ WRAP % PIPESIZE = 0
  /\ MaxCount \in Nat /\ Killable \subseteq Reader \cup Writer

Proc == Reader \cup Writer

VARIABLES
  data, nread, nwrite, readopen, writeopen, lock,   \* *pi
  frees,       \* how often kfree() was given the page of *pi
  holders,     \* the processes that have a descriptor of the pipe open
  closing,     \* the ends whose last descriptor is gone: "read", "write"
  killed, pc,
  n, i         \* per process: the arguments and index of its call

pipe == <<data, nread, nwrite, readopen, writeopen, frees>>
fds == <<holders, closing>>
vars == <<pipe, lock, fds, killed, pc, n, i>>

(* "acquire" is before the lock, "loop" in the first loop, "copy" in the   *)
(* second loop of piperead(), "asleep" in sleep().                         *)
TypeOK ==
  /\ data \in [0 .. PIPESIZE - 1 -> Byte]
  /\ nread \in 0 .. WRAP - 1 /\ nwrite \in 0 .. WRAP - 1
  /\ readopen \in {0, 1} /\ writeopen \in {0, 1}
  /\ lock \in Proc \cup {None} /\ frees \in 0 .. 2
  /\ holders \subseteq Proc /\ closing \subseteq {"read", "write"}
  /\ killed \subseteq Killable
  /\ pc \in [Proc -> {"user", "acquire", "loop", "copy", "asleep"}]
  /\ n \in [Proc -> 0 .. MaxCount] /\ i \in [Proc -> 0 .. MaxCount]

(* pipealloc(), and fork() has given each process its end.                 *)
Init ==
  /\ data \in [0 .. PIPESIZE - 1 -> Byte]   \* a page from kalloc()
  /\ nread = 0 /\ nwrite = 0 /\ readopen = 1 /\ writeopen = 1
  /\ lock = None /\ frees = 0 /\ holders = Proc /\ closing = {} /\ killed = {}
  /\ pc = [p \in Proc |-> "user"]
  /\ n = [p \in Proc |-> 0] /\ i = [p \in Proc |-> 0]

Goto(p, l) == pc' = [pc EXCEPT ![p] = l]

(* Back to the user: the call's locals are gone.                           *)
Reset(p) == n' = [n EXCEPT ![p] = 0] /\ i' = [i EXCEPT ![p] = 0]

(* wakeup(&pi->nread) wakes the sleeping readers, wakeup(&pi->nwrite) the  *)
(* sleeping writers: pc after p went to l and the processes in W awoke.    *)
Woken(p, l, W) ==
  pc' = [s \in Proc |-> IF s = p THEN l
                        ELSE IF s \in W /\ pc[s] = "asleep" THEN "acquire" ELSE pc[s]]

(* A call of read() or write() with k bytes; exec() and exit() are seen as *)
(* the process making no further call.                                     *)
Call(p, k) ==
  /\ pc[p] = "user" /\ p \in holders /\ p \notin killed
  /\ n' = [n EXCEPT ![p] = k]
  /\ Goto(p, "acquire")
  /\ UNCHANGED <<pipe, lock, fds, killed, i>>

(* acquire(&pi->lock), at the start or in sleep().                         *)
Acquire(p) ==
  /\ pc[p] = "acquire" /\ lock = None
  /\ lock' = p /\ Goto(p, "loop")
  /\ UNCHANGED <<pipe, fds, killed, n, i>>

(***************************************************************************)
(* pipewrite()                                                             *)
(***************************************************************************)
(* ++ of a uint.                                                           *)
PlusOne(x) == (x + 1) % WRAP

(* DOC: pipewrite-full                                                     *)
FullOffByOne == nwrite = (nread + PIPESIZE + 1) % WRAP
Full == nwrite = (nread + PIPESIZE) % WRAP

(* "pi->readopen == 0 || killed(pr)": returns -1 and wakes nobody.         *)
WriteFails(p) ==
  /\ pc[p] = "loop" /\ p \in Writer /\ i[p] < n[p]
  /\ readopen = 0 \/ p \in killed
  /\ lock' = None /\ Goto(p, "user") /\ Reset(p)
  /\ UNCHANGED <<pipe, fds, killed>>

CanWrite(p) ==
  pc[p] = "loop" /\ p \in Writer /\ i[p] < n[p] /\ readopen = 1 /\ p \notin killed

(* wakeup(&pi->nread), before it sleeps and at its end.                    *)
WriteWakes == Reader

WriteSleeps(p) ==
  /\ CanWrite(p) /\ Full
  /\ Woken(p, "asleep", WriteWakes) /\ lock' = None
  /\ UNCHANGED <<pipe, fds, killed, n, i>>

WriteByte(p, b) ==
  /\ CanWrite(p) /\ ~Full
  /\ data' = [data EXCEPT ![nwrite % PIPESIZE] = b]
  /\ nwrite' = PlusOne(nwrite)
  /\ i' = [i EXCEPT ![p] = @ + 1]
  /\ UNCHANGED <<nread, readopen, writeopen, frees, lock, fds, killed, pc, n>>

(* The loop is over, or copyin() failed.                                   *)
WriteReturns(p) ==
  /\ pc[p] = "loop" /\ p \in Writer
  /\ \/ i[p] = n[p]
     \/ CanWrite(p) /\ ~Full
  /\ Woken(p, "user", WriteWakes) /\ lock' = None /\ Reset(p)
  /\ UNCHANGED <<pipe, fds, killed>>

(***************************************************************************)
(* piperead()                                                              *)
(***************************************************************************)
Empty == nread = nwrite

ReadSleeps(p) ==
  /\ pc[p] = "loop" /\ p \in Reader
  /\ Empty /\ writeopen = 1
  /\ lock' = None
  /\ IF p \in killed
     THEN Goto(p, "user") /\ Reset(p)
     ELSE Goto(p, "asleep") /\ UNCHANGED <<n, i>>
  /\ UNCHANGED <<pipe, fds, killed>>

ReadStarts(p) ==
  /\ pc[p] = "loop" /\ p \in Reader
  /\ ~Empty \/ writeopen = 0
  /\ Goto(p, "copy")
  /\ UNCHANGED <<pipe, lock, fds, killed, n, i>>

(* wakeup(&pi->nwrite) and the end of piperead().                          *)
ReadWakesIfAll == IF Empty THEN Writer ELSE {}
ReadWakes == Writer

ReadReturns(p) == Woken(p, "user", ReadWakes) /\ lock' = None /\ Reset(p)

(* One turn of the second loop; when copyout() fails the byte is gone.     *)
ReadByte(p) ==
  /\ pc[p] = "copy" /\ i[p] < n[p] /\ ~Empty
  /\ nread' = PlusOne(nread)
  /\ \/ i' = [i EXCEPT ![p] = @ + 1] /\ UNCHANGED <<lock, pc, n>>
     \/ ReadReturns(p)
  /\ UNCHANGED <<data, nwrite, readopen, writeopen, frees, fds, killed>>

ReadEnds(p) ==
  /\ pc[p] = "copy" /\ (i[p] = n[p] \/ Empty)
  /\ ReadReturns(p)
  /\ UNCHANGED <<pipe, fds, killed>>

(***************************************************************************)
(* close(): fileclose() drops a descriptor; the last one of an end calls   *)
(* pipeclose().                                                            *)
(***************************************************************************)
End(p) == IF p \in Reader THEN "read" ELSE "write"
Peers(p) == IF p \in Reader THEN Reader ELSE Writer

Fileclose(p) ==
  /\ pc[p] = "user" /\ p \in holders
  /\ holders' = holders \ {p}
  /\ closing' = IF Peers(p) \cap holders = {p} THEN closing \cup {End(p)} ELSE closing
  /\ UNCHANGED <<pipe, lock, killed, pc, n, i>>

(* When pipeclose() gives the page back, with r and w as readopen and      *)
(* writeopen.                                                              *)
OneClosed(r, w) == r = 0 \/ w = 0
BothClosed(r, w) == r = 0 /\ w = 0

(* Whom pipeclose() wakes.                                                 *)
CloseWakesOwnEnd(e) == IF e = "write" THEN Writer ELSE Reader
CloseWakes(e) == IF e = "write" THEN Reader ELSE Writer

Pipeclose(e) ==
  /\ e \in closing /\ lock = None
  /\ closing' = closing \ {e}
  /\ writeopen' = IF e = "write" THEN 0 ELSE writeopen
  /\ readopen' = IF e = "read" THEN 0 ELSE readopen
  /\ frees' = IF BothClosed(readopen', writeopen') THEN frees + 1 ELSE frees
  /\ Woken(None, "user", CloseWakes(e))
  /\ UNCHANGED <<data, nread, nwrite, lock, holders, killed, n, i>>

(* kill() of another process wakes it.                                     *)
Kill(p) ==
  /\ p \in Killable \ killed
  /\ killed' = killed \cup {p}
  /\ Goto(p, IF pc[p] = "asleep" THEN "acquire" ELSE pc[p])
  /\ UNCHANGED <<pipe, lock, fds, n, i>>

Next ==
  \/ \E p \in Proc :
       \/ \E k \in 0 .. MaxCount : Call(p, k)
       \/ Acquire(p) \/ WriteFails(p) \/ WriteSleeps(p) \/ WriteReturns(p)
       \/ \E b \in Byte : WriteByte(p, b)
       \/ ReadSleeps(p) \/ ReadStarts(p) \/ ReadByte(p) \/ ReadEnds(p)
       \/ Fileclose(p) \/ Kill(p)
  \/ \E e \in {"read", "write"} : Pipeclose(e)

Spec == Init /\ [][Next]_vars

(* A process in the kernel proceeds.  The spinlock and the scheduler are   *)
(* fair to a process that waits for them again and again.                  *)
Works(p) ==
  \/ WriteFails(p) \/ WriteSleeps(p) \/ WriteReturns(p) \/ ReadSleeps(p)
  \/ ReadStarts(p) \/ ReadByte(p) \/ ReadEnds(p)
  \/ \E b \in Byte : WriteByte(p, b)

Fairness ==
  /\ \A p \in Proc : SF_vars(Acquire(p)) /\ WF_vars(Works(p))
  /\ \A e \in {"read", "write"} : SF_vars(Pipeclose(e))

FairSpec == Spec /\ Fairness

(***************************************************************************)
(* Properties.                                                             *)
(***************************************************************************)

Filled == (nwrite + WRAP - nread) % WRAP

(* The bytes in the buffer, the oldest first.                              *)
Contents == [k \in 1 .. Filled |-> data[(nread + k - 1) % PIPESIZE]]

Fifo == INSTANCE BoundedPipe WITH
  q <- Contents, readEnd <- readopen, writeEnd <- writeopen, Capacity <- PIPESIZE

(* The pipe is a bounded first-in first-out queue, also when nread and     *)
(* nwrite wrap: no byte is lost, repeated or overtaken.                    *)
IsFifo == Fifo!PipeSpec

(* Everything has its type; while nobody is in the pipe, a reader sleeps   *)
(* only over an empty pipe with a write end, a writer only over a full one *)
(* with a read end.                                                        *)
SleepersHaveReason ==
  /\ TypeOK
  /\ lock = None => \A p \in Proc : pc[p] = "asleep" =>
      IF p \in Reader THEN Empty /\ writeopen = 1 ELSE Full /\ readopen = 1

(* The page of the pipe is freed once, when both ends are closed, and then *)
(* no process is in the pipe, asleep or at its lock, nor can get there.    *)
FreedByLastClose ==
  /\ frees = IF readopen = 0 /\ writeopen = 0 THEN 1 ELSE 0
  /\ frees > 0 =>
      /\ holders = {} /\ closing = {} /\ lock = None
      /\ \A p \in Proc : pc[p] = "user"

(* Once the write end is closed, every piperead() returns: the reader sees *)
(* the end of the file.  Nor does a pipewrite() hang over a closed read    *)
(* end.                                                                    *)
OtherEndSeen ==
  \A p \in Proc :
    pc[p] # "user" /\ (IF p \in Reader THEN writeopen ELSE readopen) = 0 ~> pc[p] = "user"

=============================================================================
