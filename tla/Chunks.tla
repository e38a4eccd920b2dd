------------------------------- MODULE Chunks -------------------------------
(***************************************************************************)
(* networks/messaging_via_chunks: fake_client.c and fake_server.c send     *)
(* each other messages in chunks over UDP, in turns; the client begins.    *)
(* send_chunks and receive_chunks are the same in both.                    *)
(*                                                                         *)
(* Both are on one machine (SERVER_PORT at INADDR_ANY): datagrams may be   *)
(* lost but stay in order.  A chunk is its number and the message it is    *)
(* of; an acknowledgement is an int, and nothing tells it from a chunk.    *)
(***************************************************************************)
EXTENDS Integers, Sequences, FiniteSets

LOCAL INSTANCE SequencesExt

CONSTANTS
  MAX_RETRIES,
  MAX_CHUNKS,   \* chunks of a message, at most
  MaxSends,     \* bound on the messages of each side
  MaxMishaps    \* bound on what is counted in mishaps

ChunksAssumption ==
  /\ MAX_RETRIES \in Nat \ {0} /\ MAX_CHUNKS \in Nat \ {0} /\ MaxSends \in Nat
  /\ MaxMishaps \in Nat

Peer == {"client", "server"}
Other(e) == IF e = "client" THEN "server" ELSE "client"

VARIABLES
  mode,        \* per peer: "type" (before fgets), "send", "recv"
  sent,        \* per peer: the number of messages it has begun to send
  size,        \* per peer: total_chunks of send_chunks()
  acked,       \* per peer: the i with ack_recv[i - 1]
  retries,
  total, got,  \* per peer: total_chunks and ack_chunk of receive_chunks()
  rec_buf,     \* per peer: for each chunk of it the message it is from, 0: junk
  heard,       \* per peer: the messages received
  net,         \* per peer: the datagrams on the way to it
  seen,        \* per peer: the chunks of its message that have arrived
  mishaps      \* how often something went wrong that the protocol cannot mend

sender == <<sent, size, acked, retries>>
receiver == <<total, got, rec_buf, heard>>
vars == <<mode, sender, receiver, net, seen, mishaps>>

Number == 1 .. MAX_CHUNKS
Chunk == [seq : Number, total : Number, msg : 1 .. MaxSends]
Ack == [seq : Number]
IsChunk(d) == "msg" \in DOMAIN d

TypeOK ==
  /\ mode \in [Peer -> {"type", "send", "recv"}]
  /\ sent \in [Peer -> 0 .. MaxSends] /\ size \in [Peer -> 0 .. MAX_CHUNKS]
  /\ acked \in [Peer -> SUBSET Number] /\ retries \in [Peer -> 0 .. MAX_RETRIES]
  /\ total \in [Peer -> -1 .. MAX_CHUNKS + 1] /\ got \in [Peer -> SUBSET Number]
  /\ rec_buf \in [Peer -> [Number -> 0 .. MaxSends]] /\ heard \in [Peer -> Nat]
  /\ net \in [Peer -> Seq(Chunk \cup Ack)]
  /\ seen \in [Peer -> SUBSET Number] /\ mishaps \in 0 .. MaxMishaps

Init ==
  /\ mode = [e \in Peer |-> IF e = "client" THEN "type" ELSE "recv"]
  /\ sent = [e \in Peer |-> 0] /\ size = [e \in Peer |-> 0]
  /\ acked = [e \in Peer |-> {}] /\ retries = [e \in Peer |-> 0]
  /\ total = [e \in Peer |-> -1] /\ got = [e \in Peer |-> {}]
  /\ rec_buf = [e \in Peer |-> [k \in Number |-> 0]] /\ heard = [e \in Peer |-> 0]
  /\ net = [e \in Peer |-> <<>>]
  /\ seen = [e \in Peer |-> {}] /\ mishaps = 0

ChunkOf(e, k) == [seq |-> k, total |-> size'[e], msg |-> sent'[e]]

(* The chunks with numbers in S, the lowest first.                         *)
Chunks(e, S) ==
  LET order == SetToSortSeq(S, <) IN [j \in DOMAIN order |-> ChunkOf(e, order[j])]

(***************************************************************************)
(* send_chunks()                                                           *)
(***************************************************************************)

(* Until the loop; the user has typed a message of n chunks.               *)
Send(e, n) ==
  /\ mode[e] = "type" /\ sent[e] < MaxSends
  /\ mode' = [mode EXCEPT ![e] = "send"]
  /\ sent' = [sent EXCEPT ![e] = @ + 1] /\ size' = [size EXCEPT ![e] = n]
  /\ acked' = [acked EXCEPT ![e] = {}] /\ retries' = [retries EXCEPT ![e] = 0]
  /\ net' = [net EXCEPT ![Other(e)] = @ \o Chunks(e, 1 .. n)]
  /\ seen' = [seen EXCEPT ![e] = {}]
  /\ UNCHANGED <<receiver, mishaps>>

(* receive_ack(): the first int of any datagram.  When there is none, it   *)
(* returns without a value, unless it took 100 ms, and id is not           *)
(* initialized: any number, or (0) none that counts.                       *)
ReceiveAck(e, id) ==
  IF net[e] # <<>> THEN id = Head(net[e]).seq ELSE id \in 0 .. size[e]

(* Chunk k of e's message has arrived or is under way.                     *)
UnderWay(e, k) ==
  \/ k \in seen[e]
  \/ \E j \in DOMAIN net[Other(e)] :
       LET d == net[Other(e)][j] IN IsChunk(d) /\ d.seq = k /\ d.msg = sent[e]

(* An id made up, chunks R sent again although they are under way, or the  *)
(* last turn without all acknowledgements.                                 *)
Mishap(e, id, R) ==
  \/ net[e] = <<>> /\ id # 0
  \/ \E k \in R : UnderWay(e, k)
  \/ retries'[e] = MAX_RETRIES /\ acked'[e] # 1 .. size[e]

(* A mishap is counted, and does not happen beyond the bound.              *)
CountIf(mishap) ==
  IF mishap THEN mishaps < MaxMishaps /\ mishaps' = mishaps + 1 ELSE UNCHANGED mishaps

(* ack_cnt is counted anew in every turn.                                 *)
AckCountKept(e) == Cardinality(acked[e]) + Cardinality(acked'[e])
AckCount(e) == Cardinality(acked'[e])

(* Slip: total_chunks of a chunk that is sent again is what is left.       *)
ResentAsRest(e, S) == [j \in 1 .. Cardinality(S) |-> [Chunks(e, S)[j] EXCEPT !.total = Cardinality(S)]]

Resent(e, S) == Chunks(e, S)

(* One turn of the loop; of the chunks not acknowledged those whose time   *)
(* is over are sent again.  After the last turn receive_chunks() begins.   *)
SendTurn(e, id, R) ==
  /\ mode[e] = "send" /\ ReceiveAck(e, id)
  /\ acked' = [acked EXCEPT ![e] = @ \cup ({id} \cap 1 .. size[e])]
  /\ R \subseteq (1 .. size[e]) \ acked'[e]
  /\ retries' = [retries EXCEPT ![e] = @ + 1]
  /\ IF retries'[e] = MAX_RETRIES \/ AckCount(e) = size[e]
     THEN /\ mode' = [mode EXCEPT ![e] = "recv"]
          /\ total' = [total EXCEPT ![e] = -1] /\ got' = [got EXCEPT ![e] = {}]
     ELSE UNCHANGED <<mode, total, got>>
  /\ UNCHANGED <<sent, size>>
  /\ net' = [net EXCEPT ![Other(e)] = @ \o Resent(e, R),
                        ![e] = IF @ = <<>> THEN @ ELSE Tail(@)]
  /\ CountIf(Mishap(e, id, R))
  /\ UNCHANGED <<rec_buf, heard, seen>>

(***************************************************************************)
(* receive_chunks()                                                        *)
(***************************************************************************)

(* total_chunks: of the first datagram; when that is an acknowledgement,   *)
(* what the bytes behind it happened to be.                                *)
Totals(e, d) ==
  IF total[e] # -1 THEN {total[e]}
  ELSE IF IsChunk(d) THEN {d.total} ELSE -1 .. MAX_CHUNKS + 1

(* Only the first copy of a chunk is kept, and acknowledged.               *)
New(e, k) == k \notin got[e]

RecvTurn(e) ==
  LET d == Head(net[e]) IN
  /\ mode[e] = "recv" /\ net[e] # <<>>
  /\ \E t \in Totals(e, d) : total' = [total EXCEPT ![e] = t]
  /\ got' = [got EXCEPT ![e] = @ \cup {d.seq}]
  /\ IF New(e, d.seq)
     THEN /\ rec_buf' = [rec_buf EXCEPT ![e][d.seq] = IF IsChunk(d) THEN d.msg ELSE 0]
          /\ net' = [net EXCEPT ![e] = Tail(@), ![Other(e)] = Append(@, [seq |-> d.seq])]
     ELSE net' = [net EXCEPT ![e] = Tail(@)] /\ UNCHANGED rec_buf
  /\ IF total'[e] # -1 /\ Cardinality(got'[e]) >= total'[e]
     THEN /\ mode' = [mode EXCEPT ![e] = "type"]
          /\ heard' = [heard EXCEPT ![e] = @ + 1]
     ELSE UNCHANGED <<mode, heard>>
  /\ seen' = IF IsChunk(d) /\ d.msg = sent[Other(e)]
             THEN [seen EXCEPT ![Other(e)] = @ \cup {d.seq}] ELSE seen
  /\ UNCHANGED <<sender, mishaps>>

Lose(e) ==
  /\ net[e] # <<>> /\ net' = [net EXCEPT ![e] = Tail(@)]
  /\ CountIf(~IsChunk(Head(net[e])))
  /\ UNCHANGED <<mode, sender, receiver, seen>>

Next ==
  \E e \in Peer :
    \/ \E n \in Number : Send(e, n)
    \/ \E id \in 0 .. MAX_CHUNKS, R \in SUBSET Number : SendTurn(e, id, R)
    \/ RecvTurn(e)
    \/ Lose(e)

Spec == Init /\ [][Next]_vars

(***************************************************************************)
(* Properties.                                                             *)
(***************************************************************************)

(* "All packets are sent and acknowledged": then they have arrived.        *)
AckedMeansReceived ==
  \A e \in Peer : mode[e] = "recv" /\ sent[e] > 0 /\ acked[e] = 1 .. size[e] =>
    seen[e] = 1 .. size[e]

(* What receive_chunks() returned: the other side's message, all of it and *)
(* nothing else.                                                           *)
Intact ==
  \A e \in Peer : mode[e] = "type" /\ heard[e] > 0 =>
    /\ heard[e] = sent[Other(e)] /\ got[e] = 1 .. size[Other(e)]
    /\ \A k \in got[e] : rec_buf[e][k] = heard[e]

(* As long as only chunks are lost, and not acknowledgements, nothing is   *)
(* sent again that is under way, and nobody gives up, every message        *)
(* arrives intact and what is said to be acknowledged has arrived.         *)
FairExchange == mishaps = 0 => AckedMeansReceived /\ Intact

=============================================================================
