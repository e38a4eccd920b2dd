------------------------------- MODULE GameUdp -------------------------------
(***************************************************************************)
(* networks/tic-tac-toe/UDP: the server and the clients, over the loopback *)
(* interface (client_udp.c connects to 127.0.0.1): datagrams may be lost   *)
(* but stay in order.                                                      *)
(*                                                                         *)
(* The server has one socket and takes a datagram from whoever sent it.    *)
(* As in GameTcp an action goes from one recvfrom() to the next, and only  *)
(* the texts a client acts on are kept.                                    *)
(***************************************************************************)
EXTENDS Board, Sequences

LOCAL INSTANCE Functions

CONSTANT Client

VARIABLES
  board, current, client_addrs,   \* num_players is Len(client_addrs)
  spc,         \* the server waits to: "ready", "move", "answer"; "closed"
  agreed,      \* the senders of the "yes" counted; ready_count is its length
  in,          \* the lines on the way to the server, each with its sender
  out,         \* per client: the texts on the way to it
  cpc          \* per client: "start", "listen", "done"

server == <<board, current, client_addrs, spc, agreed>>
vars == <<server, in, out, cpc>>

Answers == [ready |-> {<<"ready">>}, move |-> Cell, answer |-> {<<"yes">>}]
MayType(c, q) == [from : {c}, for : {q}, says : {<<"no">>} \cup Answers[q]]
Line == UNION {MayType(c, q) : c \in Client, q \in DOMAIN Answers}

TypeOK ==
  /\ board \in [Cell -> {" ", "X", "O"}] /\ current \in Player
  /\ client_addrs \in Seq(Client) /\ Len(client_addrs) <= 2
  /\ spc \in {"ready", "move", "answer", "closed"}
  /\ agreed \in Seq(Client) /\ Len(agreed) <= 2
  /\ in \in Seq(Line)
  /\ out \in [Client -> Seq({"move", "result", "question", "thanks"})]
  /\ cpc \in [Client -> {"start", "listen", "done"}]

Init ==
  /\ board = EmptyBoard /\ current = 0 /\ client_addrs = <<>>
  /\ spc = "ready" /\ agreed = <<>>
  /\ in = <<>> /\ out = [c \in Client |-> <<>>]
  /\ cpc = [c \in Client |-> "start"]

(***************************************************************************)
(* The server.                                                             *)
(***************************************************************************)
Says == Head(in).says
Reads == in # <<>> /\ in' = Tail(in)

Address(p) == client_addrs[p + 1]

SendMoveBack(p, addrs) == out' = [out EXCEPT ![Head(in).from] = Append(@, "move")]
SendMove(p, addrs) == out' = [out EXCEPT ![addrs[p + 1]] = Append(@, "move")]
SendBoth(texts) ==
  out' = [c \in Client |-> IF c \in Range(client_addrs) THEN out[c] \o texts ELSE out[c]]

(* resetGame(), and the first turn.                                        *)
StartGame(addrs) ==
  /\ board' = EmptyBoard /\ current' = 0 /\ spc' = "move" /\ SendMove(0, addrs)

(* The first two that say "ready" are the players.                         *)
ReadReady ==
  /\ spc = "ready" /\ Reads
  /\ client_addrs' = IF Says = <<"ready">> THEN Append(client_addrs, Head(in).from)
                     ELSE client_addrs
  /\ IF Len(client_addrs') = 2 THEN StartGame(client_addrs')
     ELSE UNCHANGED <<board, current, spc, out>>
  /\ UNCHANGED <<agreed, cpc>>

ReadMove ==
  /\ spc = "move" /\ Reads
  /\ IF Legal(board, Says)
     THEN board' = [board EXCEPT ![Says] = Symbol[current]]
     ELSE UNCHANGED board
  /\ IF CheckWinner(board') \/ CheckDraw(board')
     THEN /\ spc' = "answer" /\ agreed' = <<>>
          /\ SendBoth(<<"result", "question">>)
          /\ UNCHANGED current
     ELSE /\ current' = IF board' = board THEN current ELSE 1 - current
          /\ SendMove(current', client_addrs)
          /\ UNCHANGED <<spc, agreed>>
  /\ UNCHANGED <<client_addrs, cpc>>

(* "no" ends the server; what is neither "yes" nor "no" is ignored.        *)
ReadAnswer ==
  /\ spc = "answer" /\ Reads
  /\ agreed' = IF Says = <<"yes">> THEN Append(agreed, Head(in).from) ELSE agreed
  /\ IF Len(agreed') = 2
     THEN StartGame(client_addrs)
     ELSE /\ \/ Says = <<"no">> /\ spc' = "closed" /\ SendBoth(<<"thanks">>)
             \/ Says \in Cell \cup {<<"no">>, <<"yes">>, <<"ready">>} /\ UNCHANGED <<spc, out>>
          /\ UNCHANGED <<board, current>>
  /\ UNCHANGED <<client_addrs, cpc>>

(***************************************************************************)
(* The clients, and the network.                                           *)
(***************************************************************************)
Types(c, q) == \E line \in MayType(c, q) : in' = Append(in, line)

Start(c) ==
  /\ cpc[c] = "start" /\ cpc' = [cpc EXCEPT ![c] = "listen"]
  /\ Types(c, "ready")
  /\ UNCHANGED <<server, out>>

(* One datagram a time; at the result the inner loop is only begun again.  *)
Receive(c) ==
  /\ cpc[c] = "listen" /\ out[c] # <<>>
  /\ out' = [out EXCEPT ![c] = Tail(@)]
  /\ CASE Head(out[c]) = "move" -> Types(c, "move") /\ UNCHANGED cpc
       [] Head(out[c]) = "question" -> Types(c, "answer") /\ UNCHANGED cpc
       [] Head(out[c]) = "result" -> UNCHANGED <<in, cpc>>
       [] Head(out[c]) = "thanks" -> cpc' = [cpc EXCEPT ![c] = "done"] /\ UNCHANGED in
  /\ UNCHANGED server

LoseLine == Reads /\ UNCHANGED <<server, out, cpc>>

LoseText(c) ==
  /\ out[c] # <<>> /\ out' = [out EXCEPT ![c] = Tail(@)]
  /\ UNCHANGED <<server, in, cpc>>

Next ==
  \/ ReadReady \/ ReadMove \/ ReadAnswer \/ LoseLine
  \/ \E c \in Client : Start(c) \/ Receive(c) \/ LoseText(c)

Spec == Init /\ [][Next]_vars

(***************************************************************************)
(* Properties.                                                             *)
(***************************************************************************)

(* The server does not look who sent a line; still the next one that       *)
(* places a mark is from the player the mark is for, and a new game begins *)
(* only when both players have agreed.                                     *)
OwnMarks ==
  /\ spc = "move" /\ in # <<>> /\ Legal(board, Says) => Head(in).from = Address(current)
  /\ spc = "move" => \A k, l \in DOMAIN agreed : agreed[k] = agreed[l] => k = l

(* As in GameTcp.                                                          *)
FairGame ==
  /\ spc = "move" => Continues(board, current)
  /\ spc = "answer" => Has(board, current) \/ CheckDraw(board)
  /\ ~Has(board, 1 - current)

=============================================================================
