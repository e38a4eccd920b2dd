------------------------------- MODULE GameTcp -------------------------------
(***************************************************************************)
(* networks/tic-tac-toe/TCP: the server and its two clients.               *)
(*                                                                         *)
(* The server is one thread: an action goes from one recv() to the next.   *)
(* A client acts only on four of the texts it is sent; the others are left *)
(* out.  TCP keeps no borders between texts: a client's recv() returns any *)
(* number of those that have arrived.  A typed line is what the user makes *)
(* of the question it answers.                                             *)
(***************************************************************************)
EXTENDS Board, Sequences

VARIABLES
  board, current,   \* board, current_player
  spc,         \* the server waits to: "accept", "ready", "move", "answer"; "closed"
  i,           \* the player whose connection, readiness or answer it waits for
  ready,       \* the players with response_from_p1, _p2
  again,       \* the players with rp1, rp2
  in,          \* per player: the lines on the way to the server
  out,         \* per player: the texts on the way to the client
  cpc          \* per client: "welcome", "listen", "done"

server == <<board, current, spc, i, ready, again>>
vars == <<server, in, out, cpc>>

Text == {"welcome", "move", "result", "question"}

(* A line: what it was typed for and its words; "no" is every other line.  *)
Answers == [ready |-> {<<"ready">>}, move |-> Cell, answer |-> {<<"yes">>}]
MayType(q) == [for : {q}, says : {<<"no">>} \cup Answers[q]]
Line == UNION {MayType(q) : q \in DOMAIN Answers}

TypeOK ==
  /\ board \in [Cell -> {" ", "X", "O"}] /\ current \in Player
  /\ spc \in {"accept", "ready", "move", "answer", "closed"}
  /\ i \in Player /\ ready \subseteq Player /\ again \subseteq Player
  /\ in \in [Player -> Seq(Line)] /\ out \in [Player -> Seq(Text)]
  /\ cpc \in [Player -> {"welcome", "listen", "done"}]

Init ==
  /\ board = EmptyBoard /\ current = 0
  /\ spc = "accept" /\ i = 0 /\ ready = {} /\ again = {}
  /\ in = [p \in Player |-> <<>>] /\ out = [p \in Player |-> <<>>]
  /\ cpc = [p \in Player |-> "welcome"]

(***************************************************************************)
(* The server.                                                             *)
(***************************************************************************)
SendTo(p, text) == out' = [out EXCEPT ![p] = Append(@, text)]

(* recv() from player p returns the one line there is (see AnswersMatch).  *)
Says(p) == Head(in[p]).says
Reads(p) == in[p] # <<>> /\ in' = [in EXCEPT ![p] = Tail(@)]

Accept ==
  /\ spc = "accept" /\ SendTo(i, "welcome")
  /\ IF i = 0 THEN i' = 1 /\ UNCHANGED spc ELSE i' = 0 /\ spc' = "ready"
  /\ UNCHANGED <<board, current, ready, again, in, cpc>>

(* resetGame(), and the first turn.                                        *)
StartGame ==
  /\ board' = EmptyBoard /\ current' = 0 /\ spc' = "move" /\ SendTo(0, "move")

(* The loop that asks each player that is not ready yet.                   *)
ReadReady ==
  /\ spc = "ready" /\ Reads(i)
  /\ ready' = IF Says(i) = <<"ready">> THEN ready \cup {i} ELSE ready
  /\ IF ready' = Player
     THEN StartGame /\ UNCHANGED i
     ELSE i' = (IF 1 - i \in ready' THEN i ELSE 1 - i) /\ UNCHANGED <<board, current, spc, out>>
  /\ UNCHANGED <<again, cpc>>

(* The turn passes on only with a mark.                                    *)
TurnAlways(marked) == 1 - current
Turn(marked) == IF marked THEN 1 - current ELSE current

ReadMove ==
  /\ spc = "move" /\ Reads(current)
  /\ IF Legal(board, Says(current))
     THEN board' = [board EXCEPT ![Says(current)] = Symbol[current]]
     ELSE UNCHANGED board
  /\ IF CheckWinner(board') \/ CheckDraw(board')
     THEN /\ spc' = "answer" /\ i' = 0 /\ again' = {}
          /\ out' = [p \in Player |->
               out[p] \o <<"result">> \o (IF p = 0 THEN <<"question">> ELSE <<>>)]
          /\ UNCHANGED current
     ELSE /\ current' = Turn(board' # board)
          /\ SendTo(current', "move")
          /\ UNCHANGED <<spc, i, again>>
  /\ UNCHANGED <<ready, cpc>>

(* Player 1 is asked after player 0 has answered.                          *)
ReadAnswer ==
  /\ spc = "answer" /\ Reads(i)
  /\ again' = IF Says(i) = <<"yes">> THEN again \cup {i} ELSE again
  /\ IF i = 0 THEN i' = 1 /\ SendTo(1, "question") /\ UNCHANGED <<board, current, spc>>
     ELSE /\ UNCHANGED i
          /\ IF again' = Player THEN StartGame
             ELSE spc' = "closed" /\ UNCHANGED <<board, current, out>>
  /\ UNCHANGED <<ready, cpc>>

(***************************************************************************)
(* The client of player p.                                                 *)
(***************************************************************************)
Types(p, q) == \E line \in MayType(q) : in' = [in EXCEPT ![p] = Append(@, line)]

(* The first recv() is of the welcome; then the user types "ready".        *)
Welcome(p) ==
  /\ cpc[p] = "welcome" /\ out[p] # <<>>
  /\ out' = [out EXCEPT ![p] = <<>>] /\ cpc' = [cpc EXCEPT ![p] = "listen"]
  /\ Types(p, "ready")
  /\ UNCHANGED server

(* What the client looks for in the texts received, the first that is      *)
(* there; the game's result makes it break out before the question.        *)
Finds(texts) ==
  IF "move" \in texts THEN "move" ELSE IF "result" \in texts THEN "result" ELSE "question"

Receive(p, k) ==
  LET found == Finds({out[p][j] : j \in 1 .. k}) IN
  /\ cpc[p] = "listen"
  /\ out' = [out EXCEPT ![p] = SubSeq(@, k + 1, Len(@))]
  /\ \/ found = "move" /\ Types(p, "move")
     \/ found = "result" /\ UNCHANGED in
     \/ found = "question" /\ Types(p, "answer")
  /\ UNCHANGED <<server, cpc>>

Disconnected(p) ==
  /\ cpc[p] = "listen" /\ spc = "closed" /\ out[p] = <<>>
  /\ cpc' = [cpc EXCEPT ![p] = "done"]
  /\ UNCHANGED <<server, in, out>>

Next ==
  \/ Accept \/ ReadReady \/ ReadMove \/ ReadAnswer
  \/ \E p \in Player :
       \/ Welcome(p) \/ Disconnected(p)
       \/ \E k \in 1 .. Len(out[p]) : Receive(p, k)

Spec == Init /\ [][Next]_vars

(***************************************************************************)
(* Properties.                                                             *)
(***************************************************************************)

(* A line is read as the answer to the question it was typed for, however  *)
(* the texts of the server were joined on the way: what a player has sent  *)
(* is one line, for what the server asks that player now.  In a game the   *)
(* server never waits in vain: the move was sent or is still asked for.    *)
AnswersMatch ==
  /\ \A p \in Player : in[p] # <<>> =>
       /\ Len(in[p]) = 1
       /\ CASE Head(in[p]).for = "ready" -> spc \in {"accept", "ready"} /\ p \notin ready
            [] Head(in[p]).for = "move" -> spc = "move" /\ p = current
            [] Head(in[p]).for = "answer" -> spc = "answer" /\ p = i
  /\ spc = "move" => in[current] # <<>> \/ \E k \in DOMAIN out[current] : out[current][k] = "move"

(* The players take turns, and a game goes on exactly while it is neither  *)
(* won nor drawn; never do both players have a line.                       *)
FairGame ==
  /\ spc = "move" => Continues(board, current)
  /\ spc = "answer" => Has(board, current) \/ CheckDraw(board)
  /\ ~Has(board, 1 - current)

=============================================================================
