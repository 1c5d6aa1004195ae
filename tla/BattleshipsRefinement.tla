----------------------- MODULE BattleshipsRefinement -----------------------
(***************************************************************************)
(* The game that the server and its clients play: the state of             *)
(* BattleshipsGame in terms of the state of Battleships.  A shot is under  *)
(* way from the moment it is in shared memory until the server has         *)
(* evaluated it.                                                           *)
(***************************************************************************)
EXTENDS BattleshipsOrder

Fired(c) ==
  pc[c] \in {"guess_post", "wait_answer"} /\ spc \in {"guess", "answer"}

Quit == give_up_flag = 1

Afloat == IF Quit THEN [i \in Players |-> {}] ELSE board

NextSeat == IF Quit THEN 1 ELSE Current

Shot == IF \E c \in Clients : Fired(c) THEN <<shooter, guess>> ELSE <<>>

\* playing ends with a third hit, and by then the turn has been switched.
Winner == IF ~Quit /\ playing = 0 THEN owner[Target] ELSE None

Quitter == IF Quit THEN shooter ELSE None

Outcome ==
  [c \in Clients |->
     IF pc[c] \in {"won", "lost", "walkover", "gaveup"} THEN pc[c] ELSE "in"]

Game == INSTANCE BattleshipsGame WITH
  seat <- owner, afloat <- Afloat, mover <- NextSeat, aim <- Shot,
  winner <- Winner, quitter <- Quitter, told <- Outcome

(***************************************************************************)
(* Until a client overtakes the other one, the programs play the game:     *)
(* every shot is fired by the player whose turn it is and hits the board   *)
(* of the other one, the counters of hits tell when a ship is sunk, and    *)
(* the outcomes the clients report are true.                               *)
(***************************************************************************)
PlaysTheGame == Game!Init /\ [][Game!Next \/ ~Orderly']_(Game!vars)

-----------------------------------------------------------------------------
(***************************************************************************)
(* What that takes beyond InOrder: the counters and the responses agree    *)
(* with the boards and with the places of the clients.                     *)
(***************************************************************************)
\* Nothing is on a board before its player has placed a ship.
NothingPlaced ==
  /\ writer # None => registration \in Placements
  /\ spc \notin PlayLabels \cup {"over"} =>
       /\ owner[2] = None /\ board[2] = {}
       /\ \A i \in Players : hits[i] = 0
       /\ playing = 1
  /\ spc \notin PlayLabels \cup {"over", "reg2", "place2"} =>
       owner[1] = None /\ board[1] = {}
  /\ spc \in {"place1", "place2"} => writer \in Clients

\* hits[i] counts the cells that the ship of the opponent has lost.
Tally(i) ==
  \/ board[3 - i] = {} /\ hits[i] = 0
  \/ /\ IsFiniteSet(board[3 - i])
     /\ hits[i] \in 0 .. ShipLength
     /\ Cardinality(board[3 - i]) = ShipLength - hits[i]

Tallied ==
  /\ spc \in {"reg2", "place2"} => Tally(2)
  /\ spc \in PlayLabels \cup {"over"} /\ give_up_flag = 0 =>
       \A i \in Players : Tally(i)

Sank(i) == hits[i] = ShipLength

\* Unless someone gave up, playing ends with the third hit of the mover.
Scored ==
  give_up_flag = 0 /\ spc \in PlayLabels \cup {"over"} =>
    /\ \A i \in Players :
         Sank(i) => owner[i] = Mover /\ spc \notin {"guess", "answer"}
    /\ playing = 0 <=> \E i \in Players : Sank(i)
    /\ spc \in {"answer_post", "answered", "ack"} =>
         (response = "WON" <=> playing = 0)
    /\ spc = "next" /\ playing = 0 => response = "LOST"
    /\ response # "WALKOVER"
    /\ pc[Mover] \in {"turn_post", "turn_pass"} => playing = 1
    /\ spc \in {"answer_post", "answered", "ack", "verdict", "next"}
         /\ pc[Mover] = "wait_turn" => playing = 1
    /\ spc \in {"answer", "answer_post"} \/ (spc = "guess" /\ s5 > 0) =>
         pc[Mover] = "wait_answer"

\* A shot or a give-up is the mover's.
Signed ==
  /\ give_up_flag = 1 => spc \in PlayLabels \cup {"over"} /\ shooter = Mover
  /\ give_up_flag = 1 /\ spc \in {"verdict", "next"} =>
       response \in {"LOST", "WALKOVER"}

\* The end: the mover has left, the other one is about to be told.
GameOver ==
  spc = "over" =>
    /\ owner[1] \in Clients /\ owner[2] \in Clients /\ owner[1] # owner[2]
    /\ playing = 0
    /\ response \in {"LOST", "WALKOVER"}
    /\ pc[Mover] = IF give_up_flag = 1 THEN "gaveup" ELSE "won"
    /\ pc[Waiter] \in {"wait_turn", "wait_action", "turn_check", "lost",
                       "walkover"}

\* As long as no signal ends the server.
Uninterrupted == server_terminated_flag = 0 /\ spc # "dead"

Accounted ==
  Uninterrupted /\ Orderly =>
    NothingPlaced /\ Tallied /\ Scored /\ Signed /\ GameOver

=============================================================================
