-------------------------------- MODULE Board --------------------------------
(***************************************************************************)
(* The board of networks/tic-tac-toe: the TCP and the UDP server have the  *)
(* same functions on it.  Player 0 plays X, player 1 plays O.              *)
(***************************************************************************)
EXTENDS Naturals, FiniteSets

CONSTANT N     \* rows and columns: 3

BoardAssumption == N \in Nat \ {0}

Player == {0, 1}
Cell == (1 .. N) \X (1 .. N)

Lines ==
  {{<<i, j>> : j \in 1 .. N} : i \in 1 .. N} \cup {{<<i, j>> : i \in 1 .. N} : j \in 1 .. N}
    \cup {{<<i, i>> : i \in 1 .. N}, {<<i, N + 1 - i>> : i \in 1 .. N}}

Symbol == [p \in Player |-> IF p = 0 THEN "X" ELSE "O"]

(* The board of resetGame().                                               *)
EmptyBoard == [c \in Cell |-> " "]

Has(b, p) == \E l \in Lines : \A c \in l : b[c] = Symbol[p]

CheckWinner(b) == \E p \in Player : Has(b, p)
CheckDraw(b) == \A c \in Cell : b[c] # " "

(* The test of a move before it is made.                                   *)
Legal(b, c) == c \in Cell /\ b[c] = " "

Marks(b, p) == Cardinality({c \in Cell : b[c] = Symbol[p]})

(* A board of a game that p is to continue.                                *)
Continues(b, p) == ~CheckWinner(b) /\ ~CheckDraw(b) /\ Marks(b, 0) = Marks(b, 1) + p

=============================================================================
