# TLA+ models of XV6-and-Networks

The repository is a teaching kernel, xv6 for RISC-V, with what a course added to
it: system call counters, alarms and two schedulers (`src/initial-xv6`), and
socket programs: messages in chunks over UDP and a tic-tac-toe game over TCP and
over UDP (`src/networks`). These modules model the kernel's concurrent core, the additions
and the socket programs, at the granularity of locks and messages, check them with TLC and prove the most
important results with TLAPS.

Paths below are relative to `src/initial-xv6/src/` unless they begin with `src/`.

## 1. Inventory

| Component | State | Operations | Hard because |
|---|---|---|---|
| Process table (`kernel/proc.c`) | `proc[]`: state, parent, pid, chan, killed; `p->lock`, `wait_lock`; `c->proc` | fork, exit, wait, waitx, kill, sleep, wakeup, yield, sched, scheduler | harts interleave; `p->lock` is held across `swtch`; two lock orders meet in exit and wait |
| MLFQ (`proc.c`, `trap.c`) | queue, ticks used, arrival stamp; global stamp counter | scheduler, boost every 48 ticks, accounting at the end of `usertrap()` | the accounting takes no lock; the scheduler works on copies |
| LBS (`proc.c`) | tickets, arrival stamp | scheduler, settickets, fork | two passes over a changing table |
| Alarms (`trap.c`, `sysproc.c`) | interval, ticks, in-handler flag, saved trapframe | timer interrupt, sigalarm, sigreturn | the handler may make the same system calls |
| Counters (`syscall.c`, `sysproc.c`) | one count per process and call | count, add to the parent at exit | updates without a lock; `p->parent` read without `wait_lock` |
| Log (`log.c`) | header and blocks on disk, header in memory, outstanding, committing | begin_op, log_write, end_op, commit, recovery | crash between any two writes; group commit |
| Buffer cache (`bio.c`), sleep locks (`sleeplock.c`) | LRU list, refcnt, valid; locked | bget, bread, bwrite, brelse, bpin, bunpin | one buffer per block |
| Inodes and paths (`fs.c`, `sysfile.c`) | disk inodes, inode table, directories, cwd, open files | namex, open, create, mkdir, link, unlink, chdir, close, iput | a path is walked one lock at a time; the last reference frees |
| Files and descriptors (`file.c`) | `ftable`, `p->ofile` | filealloc, filedup, fileclose, read, write | last close; split writes |
| Pipes (`pipe.c`) | ring of 512 bytes, two counters, two flags | pipewrite, piperead, pipeclose | two wait channels; counters wrap; kill in the middle |
| Disk driver (`virtio_disk.c`) | 8 descriptors, two rings | virtio_disk_rw, virtio_disk_intr | shares memory with a device that works in any order |
| Physical pages (`kalloc.c`, `vm.c`) | free list, page tables | kalloc, kfree, fork, growproc, exec | out of memory at every point |
| Spin locks (`spinlock.c`) | `locked`, `cpu` per lock; `noff`, `intena` per hart | acquire, release, push_off, pop_off | interrupts between any two steps; threads change harts while the counts belong to the hart |
| File blocks (`fs.c`) | bitmap, addresses of an inode, indirect blocks | balloc, bfree, bmap, itrunc, writei | the disk fills up half way; a transaction must fit the log |
| Page tables (`vm.c`) | trees of pages | walk, mappages, uvmunmap, uvmalloc, uvmcopy, copyin, copyout | ends of pages, addresses that wrap, guard pages, no memory |
| Console and UART (`console.c`, `uart.c`) | two rings | read, write, interrupts | interrupt and sleeper; the line is edited in the ring |
| Clock (`trap.c`, `sysproc.c`) | ticks; rtime, ctime, etime of each process | clockintr, sleep, waitx | the counter wraps; the times are updated process by process |
| Shell, init, cat, echo (`user/`) | the line; descriptors of each process | parse, runcmd, fork, pipe, dup, wait | an end of a pipe that stays open hangs its other end |
| User allocator (`user/umalloc.c`) | circular free list | malloc, free, morecore | a block at the ends of the list; memory taken by others |
| Image builder (`mkfs/mkfs.c`) | the image | ialloc, iappend, balloc | a file longer than its direct blocks |
| Chunked messages (`src/networks/messaging_via_chunks`) | chunks, acknowledgements, send times | send_chunks, receive_ack, receive_chunks | datagrams are lost or sent twice; an acknowledgement looks like a chunk |
| Tic-tac-toe (`src/networks/tic-tac-toe`) | board, player, answers | ready, moves, a new game | whose line is it, and for what; TCP joins texts, UDP loses them |

How they interact. Every trap runs `usertrap()`: it counts alarms and queue
ticks and may `yield()`. System calls run on the process's kernel stack; they
block with `sleep(chan, lk)` and are made runnable by `wakeup(chan)`, from
another process (wait, pipe, log) or from an interrupt (disk, clock, console).
A path system call is bracketed by `begin_op()` and `end_op()`; inside it inodes
are locked one or two at a time, blocks are taken from the buffer cache and
written through `log_write()`; `commit()` writes them through the disk driver.
`fork`, `exec` and `sbrk` take pages from `kalloc()`. The closing of a pipe comes
from the closing of files, and that from `exit()`.

What makes each correct is stated as properties in section 4. What is not
modelled, and why, is in section 7 and in `PROJECT.json`.

## 2. Modules

| Module | Models | State and actions |
|---|---|---|
| `Proc` | process table, round robin | one variable per field of `struct proc`, a program counter per kernel thread, `lock` and `waitLock` as owners; one action per critical section or loop turn |
| `ProcProof` | | proofs about `Proc` |
| `Spinlock` | `spinlock.c` under its callers | one action per statement of acquire, release, push_off and pop_off; `noff`, `intena` and `sie` are the hart's, `todo` is what a thread or handler still has to do; a scheduler turns interrupts on between passes over the table, not before each thread; a new thread gets them by `usertrapret()` |
| `Mlfq` | `-DMLFQ` scheduler | `queue`, `used`, `arr` are `queue_num`, `ticks_in_queue`, `arrival_time_queue`; each unlocked access of `usertrap()` is an action |
| `Lbs` | `-DLBS` scheduler | both passes slot by slot; the draw is any number of the range the code draws from |
| `Alarm` | sigalarm, sigreturn | a context is (code, point, a0); `tf` and `backup` are the two pages; `sigreturn()` may be called at any time, as nothing checks that a handler runs |
| `Interrupts` | `Spinlock` and instances of `Alarm` and `Console` | nothing of its own: what interrupts do, to the kernel, to a program and at the terminal; a variable of an instance that `Spinlock` has the name of is renamed (`buf` is `inBuf`, `pc` is `at`) |
| `InterruptsProof` | | proofs about all three |
| `Syscount` | counters | the read and the write of each update are two actions; `due` is the count there should be |
| `Clock` | clockintr, sleep(), the times of waitx() | `tickslock` as its owner; `update_time()` visits one process per action; `time` counts the interrupts and never wraps |
| `Board` | the functions both game servers have | lines, winner, draw, legal moves |
| `GameTcp`, `GameUdp` | the servers and their clients | the server from one receive to the next; `in` and `out` are the lines and texts under way, `cpc` where a client is |
| `Chunks` | both chunk programs | a turn of each loop; `net` is what is under way; `seen` and `mishaps` are history |
| `ShellParser` | the parser of `sh.c`, without the built-in `cd` | operators from a text to a command, next to the grammar they should accept |
| `Shell` | what the processes of a line do; init, cat, echo | `tasks` is what a process still has to do, `fd` its descriptors, `items` what is in each pipe |
| `Umalloc` | `umalloc.c` | `hdr` is the list of free blocks with its two fields, `live` what the program has; the program also calls `sbrk()` |
| `Mkfs` | `mkfs.c` | a block of the image appended per action |
| `MCAdditions` | `Interrupts` and the parts from `Mlfq` to `Chunks` side by side | they share no state, so a behaviour is one of theirs, chosen by `part` |
| `AtomicStore` | what the log promises | operations change `volatile`; groups of them become `durable` at once; a crash returns to `durable` |
| `Log` | `log.c` with pinned and recycled buffers | one action per block written, in commit and in recovery; `Crash` at any point |
| `LogProof` | | proofs about `Log` |
| `Memory` | who owns each page | every `kalloc()` is an action that may fail; `free` is `kmem.freelist`, in its order |
| `Vm` | page tables and copies | `m` is the memory, tables included; `shadow` is what each process should see; one action per call, with the loops of `vm.c` as functions |
| `Bcache` | `bio.c`, `sleeplock.c` | `lru` is the list, by place; each critical section is an action; a user has one buffer |
| `Resources` | `Memory` and an instance of `Bcache` | no state of its own: what the kernel gives and takes back |
| `ResourcesProof` | | proofs about both |
| `Files` | `file.c`, the calls of `sysfile.c` on descriptors | `file` is `ftable`, `ofile` the descriptors; `todo` is what remains of a call |
| `FileTable` | an instance of `Files` | no state of its own: the names under which the runs and the proofs know it |
| `FilesProof` | | proofs about `Files` |
| `MCResources` | `Resources`, `Vm`, the shell, `Umalloc` and `Mkfs` side by side | a behaviour is one of theirs |
| `BoundedPipe` | what a pipe promises | a FIFO of limited capacity with two ends |
| `Pipe` | `pipe.c` and the last close | one action per loop turn, so that `kill()` comes in between; `frees` counts the `kfree()`s of the page |
| `PipeProof` | | proofs about `Pipe` |
| `Console` | `console.c`, `uart.c`, and a device | both rings by their indices; `uartstart()` turn by turn; `line` and `draft` are what was typed |
| `VirtioDisk` | `virtio_disk.c`, and a device | descriptors, rings, indices modulo `WRAP`; the device takes in order and completes in any order |
| `VirtioProof` | | proofs about `VirtioDisk` |
| `Blocks` | the blocks of files | `words` are the contents of blocks, bitmap and indirect blocks; `pc` is where a write or truncation is; `logged` the blocks of its transaction |
| `MCDevices` | `VirtioDisk`, `FileTable` and `Blocks` side by side | a behaviour is one of theirs |
| `Inodes` | `fs.c` above the blocks, path calls of `sysfile.c` | what a thread does from one `ilock()` to the next is an action; what remains of its call is `todo[t]`, whose instructions own references |
| `InodesProof` | | proofs about `Inodes` |

The remaining `MC*` modules give constants to TLC (symmetry, sets of paths); each
`.cfg` names its bounds.

Composition. `Log` implements `AtomicStore` and `Pipe` implements `BoundedPipe`,
each by `INSTANCE ... WITH` a refinement mapping; the abstract specification is a
property of the run, and of a theorem. `Shell` composes what `ShellParser` reads with
processes, descriptors and pipes. `MCAdditions`, `MCResources` and `MCDevices`
put modules side by side. The parts with theorems keep their variables, so that a property means the
same in the run and in the theorem; `x1`, `x2`, ... stand for those of the other parts, in the order
in which each declares them. `Inodes` stands on what
the modules below it establish: its actions are steps of a transaction (`Log`),
its waiting for a lock is sleep and wakeup (`Proc`). Components that share no
state are not multiplied: their product would show nothing more.

Slips. Some modules hold, before a definition, variants of it (for example
`FullOffByOne` before `Full`): the mistakes that the mutation checks listed in
`PROJECT.json` put in its place. No specification uses them.

## 3. Modelling decisions

* **Locks and steps.** A critical section that takes one lock and releases it
  before anything else is one action. A lock held across actions is a variable.
  Unlocked accesses of shared fields are actions of their own.
* **Scheduling.** A hart runs its scheduler loop or one kernel thread. Timer
  interrupts may come at each point where interrupts are on.
* **Data.** Bytes, blocks and names are members of small sets. The value of a
  block in `Log` is the number of the operation that wrote it. Integers that
  wrap (`nread`, `avail->idx`) are taken modulo `WRAP`, a small multiple of the
  ring's size, so that the wrap happens within a run.
* **Outside.** A device is what its driver expects of it. To the kernel modules user programs
  are any calls with the given arguments; the shell, the allocator and `mkfs` have
  modules of their own, which take the system calls as what the kernel modules
  establish. The file system starts as `mkfs` and an early process would have left it.
* **Loops that nobody interrupts**, such as `malloc()`'s walk of its list, the
  walks of page tables and the parser, are functions and operators: one call is one action.
* **Networks.** Both sides of each program run on one machine, so datagrams may be
  lost but do not overtake each other, and a stream loses nothing. A line says
  for which question the user typed it (`for`); the servers never look at that.
  What a client does not act on is left out. Players do not leave before the server does.
* **Panics.** `Inodes` has no step for a panic: `PanicOf` is its condition and
  `NoPanic` says that it is never true where it would be tested.

## 4. Runs

Passing runs exhaust the state space of their bounds; every property has a
mutant, a plausible mistake in the code, that violates it under the same bounds.

| Run | Bounds | Shows |
|---|---|---|
| `proc_safety` | 3 slots, 2 harts, forks while `nextpid` is below 5, `kill(0)` and `kill(2)` | No kernel stack on two harts, no panic in `sched()`, no orphan, no lost wakeup, fork's late access finds its child, a zombie is freed by its parent only. `KillsByPid`: who is marked killed had the pid of a `kill()`, or faulted, and the mark stays with that pid; only that of a `kill(0)` passes to the next process |
| `proc_liveness` | 2 slots, 2 harts | Nobody runnable starves; a parent of a zombie returns from `wait()` |
| `additions` | see `MCAdditions` | `NoOvershoot`, `ResumesExactly`: alarms are not jumped over and resume exactly. `LocksRight`: one holder, interrupts off while a lock is held and as the thread had them afterwards, none of the panics. `CountsRight`: counters never exceed and, without races, equal what is due. `QueuesRight`, `RunsTheBest`: MLFQ slices end, the boost lifts everybody, the best of the collected processes runs; a lottery has a winner, and of equals the first. `TimesRight`: sleepers are woken in time and not before, also across the wrap of `ticks`, and the times of `waitx()` add up. `GamesFair`: each line answers what is asked, marks are their sender's, turns are fair. `FairExchange`: messages arrive intact while chunks are lost, and sent again, but no acknowledgement. `TypedIsRead`: what is typed at the console is read, no interrupt is lost. |
| `mlfq_two_harts` | 2 slots, 2 harts | **Violation** (5.1) |
| `log` | 3 blocks, 2 threads, 2 operations of 2 blocks, 1 crash | `AtomicOps`: the log is an atomic store. `QuiescentIsDurable`: when no operation runs everything is on its home block. `ReservationsHold`: no panic, and whoever sleeps has a waker. `BeginReturns`: `begin_op()` returns |
| `resources` | see `MCResources` | `PagesConserved`: each page is free once or has one owner, whichever `kalloc()` fails. `Coherent`: each block has one buffer, `bget()` finds one unless all are in use or pinned, and who holds a buffer sees what was stored last. `MemoryRight`: a process sees its bytes at its addresses, copies in and out move those, each page belongs to one table. `ProgramsRight`: every program of a line reads and writes what its place means, the next line waits, nothing hangs, and the parser accepts the language and nothing else. `LayoutsSound`: the allocator's free list is an ordered circle and each unit is in one block; `mkfs` makes a sound file system |
| `memory_reuse` | 8 pages, slots used twice | **Violation** (5.2) |
| `pipe` | 1 reader that may be killed, 2 writers, 2 bytes of room, counters modulo 4 | `IsFifo`: a pipe is a bounded FIFO. `SleepersHaveReason`: nobody sleeps without a reason. `OtherEndSeen`: both ends see the other's close. `FreedByLastClose`: the page is freed once, by the second close, when nobody uses it |
| `devices` | see `MCDevices` | `DiskSynced`: descriptors are conserved and the device sees only those in use, a return means the data are there, no used entry is overlooked. `FilesCounted`: references to files, pipe ends and inodes are counted once, also when an open fails half way, and writes through a shared offset do not overwrite each other. `BlocksConserved`: the bitmap marks what has an owner, each block has one, no file has a hole, a transaction fits |
| `disk_liveness` | 8 descriptors, indices modulo 8 from 6 on, 3 threads, 3 transfers | `TransfersEnd`: every transfer ends, also one that finds two descriptors and gives them back. One thread waits for descriptors at a time: two that wake each other in turn would need four |
| `fs` | 3 inodes, 2 threads, 3 calls, the disk may be full, paths without `..` | `RefsCounted`: references are counted exactly and the last one finds the lock free. `LinksCovered`: no entry leads to a free inode, between calls no inode has fewer links counted than it has. `NoPanic`, `CallsReturn` |
| `fs_dotdot` | the same with a path through `..` | **Violation** (5.3) |

Why the bounds are enough. Two harts and three slots give init, a parent and a
child, with exit, wait and kill overlapping in every order; pids beyond
`MaxPid` would only repeat slots. Two queues have the top, the bottom and a
demotion; a boost every 6 ticks falls before, in and after a slice. Two
operations make one that joins a group and one that comes during a commit; a third block
lets one of them be absorbed and one recycled. Two turns around a ring of two
bytes cover full, empty and wrap. With eight descriptors a third transfer finds
two and gives them back. A page table of five pages is that of a small process.
Three buffers for four blocks make every
`bget()` of a new block recycle one, also while another user waits; with two blocks pinned two users find one buffer, and the second none. Input of
two characters fills the ring with and without the end of a line; the handler and one writer
already compete for the transmitter, and `TypedStays` is about any number of them.
Two harts and two threads meet in every order at one lock that a handler takes and
one that it does not; a third hart would only wait as well. The clock starts two
ticks before its wrap, and a negative amount is a sleep that does not end.
Lines of the shell have up to three programs in a pipe, a
block, a list and a background part, pipes of one item are full at once; texts of
five characters have each pair of symbols next to each other, with and without
blanks. Fourteen units hold a free block at either end, between two blocks in use, and next to
memory of somebody else. A file of up to ten units with one direct and four indirect
blocks is longer than its direct blocks; six blocks run out in each
allocation. Tables of three entries on three levels give pages that share none, one, or
both upper tables, and steps of 4, -3 and -20 end inside, at and beyond
a page. Three processes with two descriptors share a file after a fork, and four calls
open, duplicate, write and close it. The games have the board and the two players of the code and run
until all answers have been given; new games follow without bound. Messages of one to three chunks, two from
each side, lose any chunks in any of the five turns that stand for MAX_RETRIES: `MaxMishaps` bounds lost acknowledgements,
needless repetitions and giving up, not lost chunks. Two threads on three inodes (the root, a directory, a
file) meet on each pair of locks that calls take, and an inode number is reused.

Fairness. A kernel thread that can run does: weak fairness of its steps. A
spinlock that is free again and again is obtained: strong fairness of the steps
that wait for one (`__sync_lock_test_and_set` loops; the hardware arbitrates).
Timer interrupts remain pending until interrupts are on, so preemption is
strongly fair. The device serves what it is given. Nothing is assumed of user
programs, of crashes or of kills. `Inodes` needs only weak fairness:
`releasesleep()` wakes all who wait, with few threads none is passed over for ever.
That nothing hangs in the shell is an invariant: a state without a step is one
where all is done.

## 5. Where the code departs from its own words

Runs that TLC refutes:

1. `mlfq_two_harts`: the accounting of `usertrap()` (`kernel/trap.c:133`) makes the
   running process RUNNABLE without `p->lock`; another hart may run it on the
   same kernel stack. `kernel/proc.h:103` asks for the lock.
2. `memory_reuse`: `freeproc()` frees `p->backup` and keeps the pointer
   (`kernel/proc.c:233`); when the slot is reused and its trapframe cannot be
   allocated, the page is freed a second time.
3. `fs_dotdot`: the entry `..` of a removed directory holds no link, so its
   parent may be freed; a walk through it panics, `ilock: no type`
   (`kernel/fs.c:315`).

Others, found while the models were written; the runs above keep clear of them by
the constants or guards named:

* `kill(0)` marks the first free slot (`proc.c:841`), and its next owner is killed at
  birth. It is one of the calls of `proc_safety`; `KillsByPid` allows that mark, and no other, to pass on.
* `panic("bget: no buffers")` (`bio.c:88`) is not out of reach: the log pins up to 29 blocks
  (`log.c:214`), and NBUF = 30 (`param.h:12`) leaves one buffer for the others, and none while `write_log()` fills a
  log block; nor are there enough for 64 processes that read. A user who finds none takes no step in `Bcache`.
* MLFQ: after a boost `p` is `&proc[NPROC]`, and a device interrupt in that tick
  stamps the memory behind the table (`trap.c:156`): modelled as a stamp that no
  process gets. After 1000000 stamps nothing is smaller than `leasttime`
  (`proc.c:605`): `MaxTime < LEAST`.
* LBS: the draw ranges over `total_tickets + 1` numbers although the comment says
  `[0, total_tickets)` (`proc.c:678-679`); all-zero tickets stop the machine
  (`proc.c:675`): `Tickets` has no 0; an earlier arrival in a slot before the
  winning ticket loses (`proc.c:689`), against `src/initial-xv6/README.md` on
  FCFS; `fork()` overwrites what the running child set (`proc.c:403`).
* `sigalarm()` in a handler re-enables delivery and the saved context is lost
  (`sysproc.c:154`): `Rearms = {0}`. A handler that forks leaves a child whose
  backup page holds no context: `ForkCode = {"main"}`.
* Counters: concurrent updates get lost, children that are killed transfer
  nothing, and a parent that exits first may have its slot's new owner credited:
  `CountsRight` says when the count is exact, `OrphansOn = FALSE`.
* `begin_op()` reserves up to LOGSIZE blocks, the log on disk holds LOGSIZE - 1
  (`log.c:220`): in the run operations write fewer blocks than they reserve, as
  those of `sysfile.c` do.
* A killed writer leaves without waking the readers of what it wrote
  (`pipe.c:86`): `Killable` holds a reader only.
* `iput()` drops its reference after it made the inode free (`fs.c:350-360`). If
  the number is allocated again in between and the new inode is removed, its
  `iput()` sees `ref = 2` and does not free it, and the late decrement does not look again:
  the inode is lost until the disk is rebuilt.
* `create()` in a directory that was removed after the path was walked makes an
  entry that nobody can reach, and its inode is lost with the directory.
* The chunk programs (`src/networks/messaging_via_chunks`): `receive_ack()` returns without a value when nothing has
  arrived (`fake_server.c:54`), and the number that counts as
  acknowledged is then uninitialised: with `MaxMishaps = 1` TLC finds
  `AckedMeansReceived` violated, against "All packets are sent and acknowledged."
  (`:153`). A chunk that comes again is not acknowledged again (`:181`), so one lost
  acknowledgement makes the sender use up its retries; what it sends meanwhile is
  read by the other side as acknowledgements, or as chunks of the next message.
  A message of ten chunks ends at index 80 of 80 (`:212`). `MaxMishaps = 0`.
* The TCP game (`src/networks/tic-tac-toe/TCP`): when one `recv()` returns the result and the question that follows
  it, the client breaks at the result (`client_tcp.c:77`) and does not answer; the
  server waits for ever for that player (`server_tcp.c:229`). A player who leaves
  in a turn makes the server send boards without end (`server_tcp.c:183`); players do not leave.
* The UDP game (`src/networks/tic-tac-toe/UDP`): a third client's lines are taken for a player's
  (`server_udp.c:126`), and prompt that player once more: `Client` has two
  members. A lost datagram of a game is not sent again: both sides wait.
* `waitx()` without a child copies uninitialised times to the user
  (`sysproc.c:112-116`). A process that starts to run between the two halves of a clock
  interrupt has run a tick more than it lived, and its waiting time is then -1:
  `TimesRight` allows it.
* `sleep(-1)` is a sleep of 2^32 - 1 ticks (`sysproc.c:69`): modelled so.
* `sbrk()` of less than minus the size succeeds and changes nothing
  (`vm.c:249`): modelled so. `copyout()` writes to pages without PTE_W: the copies
  do not distinguish.
* `malloc()` of 2 GB and more: the number of bytes that `morecore()` asks for does not fit
  the `int` of `sbrk()` (`user/umalloc.c:54`, `user/user.h:22`), and the block
  that is entered in the list is not there. `Request` has none.
* The shell: of two redirections the inner one wins; `>>` opens the file at offset 0
  and overwrites; `a & b` is a syntax error. `ParsesRight` says what is accepted.
  A fork that fails in init ends it, and the kernel panics (`user/init.c:29-31`):
  `NPROC` leaves room.
* `mkfs` rounds the size of the root directory up to the next block even when it is
  exact (`mkfs/mkfs.c:166`): one block of zeros more than entries, which `LayoutsSound` allows.

## 6. Proofs

`ProcProof` (any number of slots, harts and pids). The invariant is
`TypeOK /\ StackInv /\ FamilyInv /\ WakeupInv`.

* `StackInv` ties the locks, the program points and `c->proc` together: a thread
  is on at most one hart, a hart's process is RUNNING except between setting its
  state and `swtch()`, and each lock is held exactly at the points that
  hold it. Without it neither `OneCpuPerStack` nor `SchedAssertions` is
  inductive: the states they exclude are reached from states in which a lock has
  no owner.
* `FamilyInv`: init lives and has no parent; a parent is alive; an exiting
  process has no child below its `reparent()` index, and none after that loop.
  It needs `ForkInv`: two forks never fill the same slot.
* `WakeupInv`: a parent asleep over a zombie exists only while somebody holds
  `wait_lock` in the middle of waking init; below the scan index of `wait()` there is no zombie, below
  the wakeup index of `exit()` no sleeping parent.

From it follow `StackExclusion`, `SchedNeverPanics`, `NoOrphans`,
`ForkOwnsChild`, `WakeupNotLost`, `ZombiesAreFinal` and `KillsAreByPid`, whatever `kill()` is called with,
0 included.

`InterruptsProof`, the alarms (any intervals, programs of any length): assumes `PlainHandlers`:
handlers only turn the alarm off and do not fork, like those of
`user/alarmtest.c`. `HandlerInv` says that the backup
is the context that the last handler interrupted, which was not a handler's, and that no tick can fire
while one runs: without it `sigreturn()`, which may come at any time, could load anything. Theorems: `AlarmNotJumped` (type correctness included),
`HandlerIsTransparent`, `HandlerNotReentered`.

`InterruptsProof`, the locks (any harts and threads). What a context still has to
do is a sequence of operations, and the invariant reads off it what is held: `Owed(s, k)` are the locks
that the operations from `k` on release before they take them.

* `Sound`: each operation of a context fits what follows it: a release comes when the lock is not owed
  again, `sched()` when only the lock of the thread itself is, and at most one return from an
  interrupt, with the registers of the `acquire()` it stopped.
* `Holds`: what a hart holds is what the context on it owes, up to the lock that `acquire()` or `release()`
  is at; `noff` is the number of those. A thread that is on no hart owes its own lock
  (`ThreadInv`), which the scheduler that picks it holds: locks pass from thread to scheduler and back.
* `Masks`: interrupts are on only when `noff` is 0; they, or `intena` while something is held, are as the
  context had them; a handler runs with interrupts off. `sched()` keeps `intena` with the thread, because
  the thread comes back on another hart. Nothing is known of a thread that has not been in user space, nor of a scheduler
  within a pass: they have what the hart's last thread left, until `sret` or the next `intr_on()`.
* `LockInv`: `locked` and `cpu` of a lock agree with who holds it, up to the step between swap and note.

`LocksRight` alone is not inductive: nothing in it says that a switch finds the lock held that the thread
will release. Theorem: `LocksAreRight`.

`InterruptsProof`, the console (rings of any size, indices that wrap at any larger multiple of it, any
readers and writers, reads of any length). The invariant is `TtyInv`.

* `Typed`: `line` and `draft` are as long as the distances between `cons.r`, `cons.w` and `cons.e`, each
  character is where its index points, and together they fit the ring. A full ring has a line,
  because what fills it is committed. `draft` holds ordinary characters only, so
  that `C('U')`, which stops at the end of a line, erases all of it.
* `Reading`: a reader that sleeps, or was woken, has still something to read; while it sleeps there is no line.
* `Sending`: a writer sleeps only while its ring is full; a ring that is not empty has the device
  busy, its interrupt pending, the handler under way, or somebody in `uartstart()`.
* `Threads`: `uart_tx_lock` is held by exactly the one in `uartstart()`. Without it nothing says that the
  one that is to send the rest is still there.

`TypedIsRead` is not inductive: the ring it describes could be overwritten. That the indices wrap
at a multiple of the size is used where a character is stored and found again: it is what makes
`k % INPUT_BUF_SIZE` go on through the wrap. Theorem: `TypedStays`, type correctness included.

`LogProof` (any blocks, threads, operations, sizes and crashes). The invariant `Inv` is
`TypeOK /\ ControlInv /\ BufferInv /\ ListInv /\ DataInv`.

* `ControlInv`: `outstanding` is the number of running operations, one thread commits
  while none runs, after a crash one thread recovers while all others wait, and
  the index of a loop is in its range only there.
* `BufferInv`: `refcnt` is one for the holder and one for the pin; a pinned
  buffer is in the cache. So recycling one never loses what is not on the disk.
* `ListInv`: neither list names a block twice, and the header on disk is empty or
  the list in memory. Without it the copy of a block could be overwritten by an earlier one.
* `DataInv`: a block is on its place unless the log names it; before the
  header is written the log blocks are the cached ones, afterwards those installed
  are the log's.

`Rec` is what recovery makes of a disk; `Found` and `Copied` say that installing a
block leaves it as it is, so a crash during recovery changes nothing. Every
step is then one of `AtomicStore` or a stutter: `WriteHead` is its commit, the crash its crash
(`LogIsAtomic`). `NothingLeftBehind` follows from the same invariant.
`ReservationsSuffice` needs `RoomInv`: the log and the slots that running operations have
reserved and not used fit LOGSIZE; it assumes `Sizes`, which the constants of
`kernel/param.h` and `mkfs/mkfs.c` (10, 30, 30) satisfy for operations that write up to
eight blocks.

`PipeProof` (any capacity, any width of the counters that is a multiple of it, any processes).
`LockInv` and `SleepInv` tie the lock, the program points and the two
channels together and give `NobodySleepsInVain`, if only readers are killed; a
killed writer leaves without waking (section 5). `EndInv` ties the two flags to those who hold descriptors
or are about to close, and gives `PageFreedOnce`. `QueueInv` adds that
no more than PIPESIZE bytes are in the pipe and that a closed end has no
holders; the refinement reads the abstract queue as the bytes between `nread`
and `nwrite`, modulo the ring. Every step of `Pipe` is then one of `BoundedPipe` or a stutter: `PipeIsFifo`.
The arithmetic of counters that wrap at a multiple of the ring's size is in lemmas of its own
(`Distance` to `OtherPlace`), here and in `VirtioProof`.

`VirtioProof` (any threads, three or more descriptors, any width of the indices that is a
multiple of their number). The invariant `Inv` has these parts beside the types and `LockInv`:

* `OwnInv`: a call that has descriptors has three, nobody else has them, and from
  the formatting on they are the chain of its head. This is `DescriptorsKept`.
* `PlaceInv`: a request is in exactly one place: between `devIdx` and `avail->idx`, with
  the device, or between `disk.used_idx` and `used->idx`. As each request takes
  three descriptors there are always fewer than NUM of them, so neither ring is overrun
  (the pigeonhole argument of the lemmas on the windows).
* `PendingInv`: wherever it is, its caller still waits for it. With `SyncInv` (the data of
  what has been completed are in place) this is `ReturnsInSync`: `virtio_disk_rw()` returns
  after its own transfer and not after another one.
* `AnnouncedInv` is `InterruptsKept`: an entry that nobody looks at has an interrupt under way.

All three are parts of `DiskSynced`, which the run `devices` checks (`DiskStaysSynced`).

`ResourcesProof`, the buffers (any buffers, blocks, users and pins). `LockInv` ties the sleep locks to the program
points; `CountInv` says that `refcnt` is the users who hold or wait for a buffer
plus its pins, and the pigeonhole principle then gives that `bget()` finds no unused one only when
users and pins are as many as the buffers (section 5). As a buffer in use keeps its block
(`HeldInv`), no block gets a second buffer (`BlockInv`). `DataInv`, that the data of a
valid buffer, or of its block on the disk when it is not pinned, are what was stored last, completes
`CacheIsCoherent`.

`ResourcesProof`, the pages (any slots, pages and sizes). Every kind of page a slot can have
(trapframe, backup, page tables, user pages, those of the image `exec()` builds, the page
not mapped yet) is a `Part`. The invariant `Inv` says that the parts and the free list
share no page and make up the memory (`OwnInv`), that no list has a page twice (`ListInv`),
and which parts are empty at which point (`Control`). The lemmas `Takes`, `Gives` and
`Rearranged` are the three ways in which pages move; the sequences that the error paths free
are shown to be exactly what the slot has at that point (`ReleasedAll`). The bug of section 5 is
the one case in which they are not: `PagesKept` holds of the executions in which no trapframe
allocation fails in a slot that still points to the backup page of its former process
(`NoDanglingBackup`). It holds by itself while each slot is used once, as in the run `resources`.

`InodesProof` (any threads, inodes, names, trees and calls) assumes `NoDots`: no path of a call
goes through `..`, as in the run `fs`. With such paths the theorems are false, that is the bug of
section 5.3. What makes them true otherwise is that whoever works with an inode has a
reference or an entry that leads to it, and none of the calls gives one up before it has another.
The invariant `Inv` says it of every instruction that a call has left (`todo`):

* `ThreadInv`: which instructions there can be and in which order (`Shaped`, `Chained`), and what
  each still relies on (`Backed`): the inodes it refers to are allocated, the one it owns is
  locked by its thread, and in `create()` and `sys_unlink()` the entry of the parent is as it
  was found. An inode that a thread has open or works in is allocated.
* `LockInv`: a lock has an instruction that will release it; a cached inode is what is
  on the disk, except one freed by an `iput()` that has not yet invalidated it.
* `SoleInv`: an inode that is being freed, or was just made, has no link and nobody
  else refers to it. That is the argument why `iput()` may lock it without waiting
  (`fs.c:343`), and it needs the next two.
* `LinkInv`: `nlink` covers the entries that name an inode and the links pledged: `link()` counts before it
  writes the entry, `unlink()` writes before it counts. `LinksCovered` speaks of
  moments when no call is under way only; between them it is not inductive.
* `RefInv`: `ref` is the number of descriptors, working directories and pointers, which the
  run checks as `RefsCounted`.

Theorems: `RefsAreCounted`, `NeverPanics`, `LinksAreCovered`. TLC checked `Inv` itself with the bounds of
`fs` before it was proved.

`FilesProof` (any processes, descriptors, files, inodes, pipes and lengths, any calls). A call is
the sequence of instructions it has left (`todo`), and each of them owns references, owes
one, or neither. `FilesCounted` says that the counts add up but not why they stay so; the invariant
`FilesInv` adds what each step relies on:

* `Forms`: the shape of `todo`. Only a release may be followed by something, only a
  release or the rest of `exit()` may follow, so a call has at most one unfinished thing and a tail that gives back.
* `RefsRight`, `EndsRight`, `InodesRight`: the three counts. A step exchanges a few instructions
  for others (`Changes`, `Swaps`, `Trades`), and the weight of these in each
  set that is counted is what the fields it writes change by. `Numbered`: a file without references is of no
  type; `Typed`: one that a descriptor refers to has one. `filealloc()` and `fileclose()`
  keep it because `ff` is copied before the type is cleared.
* `Life`, `Forks`: who does not run has nothing left to do, an unused slot has no descriptor, and the
  child of a fork is filled by one parent, from the first descriptor on.
* `Works`: what each instruction may rely on: a file under construction has one reference and
  no type yet, that of `dup()` two descriptors (so that the count it owes is not the last),
  `exit()` has cleared what it passed or will, and who reads or writes keeps the descriptor,
  holds the inode from `ilock()` on, and has the offset that it read then.
* `Written`, `Kinds`, `Sizes`: while an inode was opened for writing at most once, the offset of the
  one file that writes is the length of what is there. So `WritesKept`: an `ilock()` held
  across `writei()` and the update of `f->off` is what keeps two processes that share a file apart.

Theorem: `FilesAreCounted`, both parts and type correctness. TLC checked `FilesInv` with the bounds of `devices`
before it was proved.

Assumptions are those of the constants, named in each module, and those
named here. Only model-checked: liveness (outside the prover's reach) and the
properties of `Vm`, `Mlfq`, `Lbs`, `Syscount`, `Clock`, `Blocks`, the games, `Chunks`, `Shell`, `Umalloc` and
`Mkfs`; those of `ShellParser`, `Umalloc` and `Mkfs` rest on recursion over data.
Where the table of runs names no type invariant, it is a conjunct of one of the
properties.

## 7. Not modelled

* Machine level: boot, trap entry and return, `swtch`, the set-up of PLIC and UART, the
  permissions of pages, the kernel's own page table. They keep no state that
  changes after boot, or are registers.
* Output (`printf`, `panic`) and string moves.
* The loading of ELF files and the argument stack of `exec`; its memory is in `Memory` and `Vm`.
* The RAM disk, which this kernel does not contain.
* User programs and tests without state of their own, `usertests.c` (3103 lines) and
  `grind.c` among them: read for what they promise of the kernel, not modelled.
* The shell's built-in `cd`, which does not touch descriptors; `chdir()` is in `Inodes`.
* `fsinit()` in the first `forkret()`: in `Spinlock` a new thread goes straight to user space.
* Players who leave a game early, and socket calls that fail.

## 8. Plan

Written in this order: `Proc`, the additions, `Log`, `Memory`, `Pipe`,
`VirtioDisk`, `Inodes`, the programs of `src/networks`, `Bcache`, `Console`, `Files`,
`Blocks`, `Clock`, `Umalloc`, `Vm`, `Mkfs`, `Spinlock`, the shell; proofs of `Proc`, `Alarm`, `Pipe`, `Log`, `VirtioDisk`, `Bcache`, `Memory`,
`Inodes`, `Spinlock`, `Files`, `Console`.
What would come next:

1. Proofs: the bitmap in `Blocks`, the slices of `Mlfq`.
2. `Inodes` on top of `Blocks` and `Log` in one module: the truncation of a file
   in the transaction of the call that drops its last reference.
3. Players who disconnect.
