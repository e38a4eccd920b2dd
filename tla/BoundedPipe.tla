---------------------------- MODULE BoundedPipe ----------------------------
(***************************************************************************)
(* What a pipe promises its users: a first-in first-out queue of at most   *)
(* Capacity bytes between two ends that are closed once and for all.       *)
(* Nothing enters it when the read end is closed.                          *)
(***************************************************************************)
EXTENDS Naturals, Sequences

CONSTANTS Byte, Capacity

VARIABLES q, readEnd, writeEnd

pipeVars == <<q, readEnd, writeEnd>>

PipeInit == q = <<>> /\ readEnd = 1 /\ writeEnd = 1

Put(b) ==
  /\ readEnd = 1 /\ writeEnd = 1 /\ Len(q) < Capacity
  /\ q' = Append(q, b) /\ UNCHANGED <<readEnd, writeEnd>>

Get ==
  /\ readEnd = 1 /\ q # <<>>
  /\ q' = Tail(q) /\ UNCHANGED <<readEnd, writeEnd>>

CloseRead == readEnd = 1 /\ readEnd' = 0 /\ UNCHANGED <<q, writeEnd>>
CloseWrite == writeEnd = 1 /\ writeEnd' = 0 /\ UNCHANGED <<q, readEnd>>

PipeNext == Get \/ CloseRead \/ CloseWrite \/ \E b \in Byte : Put(b)

PipeSpec == PipeInit /\ [][PipeNext]_pipeVars

=============================================================================
