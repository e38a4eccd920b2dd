---------------------------- MODULE AtomicStore ----------------------------
(***************************************************************************)
(* What the logging layer of kernel/log.c promises the file system: the    *)
(* writes of a system call reach the disk all or not at all.  A crash      *)
(* brings back the last committed contents, and a commit happens only      *)
(* between operations.                                                     *)
(***************************************************************************)
CONSTANTS Block, Thread, Value

VARIABLES
  durable,     \* what a restart would find
  volatile,    \* what running processes see
  active       \* the threads inside begin_op() ... end_op()

storeVars == <<durable, volatile, active>>

StoreInit ==
  /\ durable \in [Block -> Value] /\ volatile = durable
  /\ active = {}

StoreBegin(t) ==
  /\ t \notin active /\ active' = active \cup {t}
  /\ UNCHANGED <<durable, volatile>>

StoreWrite(t, b, v) ==
  /\ t \in active
  /\ volatile' = [volatile EXCEPT ![b] = v]
  /\ UNCHANGED <<durable, active>>

StoreEnd(t) ==
  /\ t \in active /\ active' = active \ {t}
  /\ UNCHANGED <<durable, volatile>>

StoreCommit ==
  /\ active = {} /\ durable' = volatile
  /\ UNCHANGED <<volatile, active>>

StoreCrash ==
  /\ volatile' = durable /\ active' = {}
  /\ UNCHANGED durable

StoreNext ==
  \/ \E t \in Thread : StoreBegin(t) \/ StoreEnd(t)
  \/ \E t \in Thread, b \in Block, v \in Value : StoreWrite(t, b, v)
  \/ StoreCommit
  \/ StoreCrash

StoreSpec == StoreInit /\ [][StoreNext]_storeVars

=============================================================================
