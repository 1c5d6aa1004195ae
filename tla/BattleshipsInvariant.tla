------------------------ MODULE BattleshipsInvariant ------------------------
(***************************************************************************)
(* What keeps the server and the client of a turn apart: where the token   *)
(* that circulates through s4 and s5 is in each phase of a game.           *)
(***************************************************************************)
EXTENDS Battleships

\* The server has neither announced its end nor stopped playing.
Alive == server_terminated_flag = 0 /\ spc \notin {"over", "dead"}

PlaceLabels == {"place_check", "place_input", "place_cs", "place_post"}

\* c has placed its ship and takes part in the game.
InGame(c) ==
  \/ pc[c] \in {"wait_turn", "wait_action", "turn_check"}
  \/ Admitted(c) /\ pc[c] \notin PlaceLabels

\* The client of the turn, if it is still alive, is in one of these places.
TurnIn(S) == \A c \in Clients : InTurn(c) => pc[c] \in S

\* The turn is neither in s2 nor in s3.
TurnUsed == s2 + s3 = 0

(***************************************************************************)
(* The phases of the handshake, while nobody has given up.                 *)
(***************************************************************************)
\* game_action_data has not been used yet.
Registering ==
  spc \in {"join1", "join2", "unlink", "open", "reg1", "place1"} =>
    s4 = 1 /\ s5 = 0 /\ TurnIn(PlaceLabels)

\* The server waits for a shot (or for a placement, while one is fired).
Shooting ==
  /\ spc \in {"reg2", "guess"} =>
       \/ s4 = 1 /\ s5 = 0 /\ TurnIn(PlaceLabels \cup {"wait_action"})
       \/ /\ s4 = 0 /\ s5 = 0 /\ TurnUsed
          /\ TurnIn({"turn_check", "input", "guess_cs", "guess_post", "quit_cs"})
       \/ s4 = 0 /\ s5 = 1 /\ TurnUsed /\ TurnIn({"wait_answer"})
  /\ spc = "place2" => s4 = 1 /\ s5 = 0

\* The server evaluates the shot.
Evaluating ==
  spc \in {"answer", "answer_post"} =>
    s4 = 0 /\ s5 = 0 /\ TurnUsed /\ TurnIn({"wait_answer"})

\* The client reads the answer.
Reading ==
  spc \in {"answered", "ack"} =>
    \/ s4 = 1 /\ s5 = 0 /\ TurnUsed /\ TurnIn({"wait_answer"})
    \/ /\ s4 = 0 /\ s5 = 0 /\ TurnUsed
       /\ TurnIn({"answer_check", "answer_cs", "turn_post", "won_post"})
    \/ s4 = 0 /\ s5 = 1 /\ s3 = 0 /\ TurnIn({"turn_pass", "won_pass"})

\* The client has acknowledged the answer.
Concluding ==
  spc \in {"verdict", "next"} =>
    s4 = 1 /\ s5 = 0 /\ s3 = 0 /\ TurnIn({"turn_pass", "won_pass"})

(***************************************************************************)
(* After a client has given up nobody looks at game_action_data any more,  *)
(* and nobody who waits for a turn gets one, until the server has left     *)
(* play().                                                                 *)
(***************************************************************************)
GivenUp ==
  /\ spc \in {"reg2", "place2", "guess", "answer", "answer_post", "answered",
              "verdict", "next"}
  /\ TurnIn(PlaceLabels \cup {"quit_post", "quit_pass"})
  /\ spc \in {"reg2", "place2"} => s3 = 0 /\ TurnIn({"quit_post", "quit_pass"})
  /\ s3 > 0 \/ spc \in {"reg2", "place2"} =>
       \A c \in Clients : pc[c] # "wait_turn"
  /\ spc \in {"verdict", "next"} => playing = 0

(***************************************************************************)
(* Before the second placement at most one client has placed its ship.     *)
(***************************************************************************)
FirstPlacement ==
  /\ spc \in {"join1", "join2", "unlink", "open"} =>
       s3 = 0 /\ \A c \in Clients : ~InGame(c) /\ ~InTurn(c)
  /\ spc \in {"reg1", "place1"} \/ (spc = "reg2" /\ s2 = 0) =>
       \A c, d \in Clients : InGame(c) /\ InGame(d) => c = d
  /\ spc = "reg1" => \A c \in Clients : InGame(c) => s2 = 1

\* The response of a game that goes on is not the end of one.
Undecided ==
  response \in {"LOST", "WALKOVER"} => playing = 0 /\ spc \in {"verdict", "next"}

(***************************************************************************)
(* In each phase of a game the token of game_action_data is in s4, in s5,  *)
(* with the server or with the client of the turn, and that client is at   *)
(* the matching place of its loop.                                         *)
(***************************************************************************)
Handshake ==
  Alive =>
    /\ IF give_up_flag = 0
       THEN Registering /\ Shooting /\ Evaluating /\ Reading /\ Concluding
       ELSE GivenUp
    /\ FirstPlacement
    /\ Undecided

=============================================================================
