-------------------------- MODULE BattleshipsOrder --------------------------
(***************************************************************************)
(* Why the turns of two clients alternate until one overtakes the other:   *)
(* where each of them is in each phase of the game, and who has waited     *)
(* longer.                                                                 *)
(***************************************************************************)
EXTENDS BattleshipsInvariant

\* The game is made for two clients, and does not notice if one is killed.
TwoPlayers ==
  /\ Mortal = {}
  /\ \E a, b : a # b /\ Clients = {a, b}

Joined(c) == pc[c] \notin {"start", "join"}

AllJoined == \A c \in Clients : Joined(c)

\* Both players post s1 before the server goes on.
Joining ==
  /\ spc \in {"join1", "join2"} =>
       \A c \in Clients : pc[c] \in {"start", "join", "wait_place"}
  /\ spc = "join1" /\ s1 > 0 => \E c \in Clients : Joined(c)
  /\ spc = "join1" /\ s1 > 1 => AllJoined
  /\ spc = "join2" => \E c \in Clients : Joined(c)
  /\ spc = "join2" /\ s1 > 0 => AllJoined
  /\ spc \in {"unlink", "open"} => \A c \in Clients : pc[c] = "wait_place"

\* f has placed its ship, and everyone else has waited longer.
PlacedFirst(f) ==
  /\ pc[f] = "wait_turn"
  /\ writer = f
  /\ \A c \in Clients \ {f} : pc[c] = "wait_place" /\ c \in ahead[f]

\* c is waiting for its turn to place, or placing.
AboutToPlace(c) ==
  /\ pc[c] \in PlaceLabels \cup {"wait_place"}
  /\ pc[c] = "place_post" => writer = c

PlacingFirst ==
  /\ spc = "reg1" =>
       \/ s2 = 0 /\ \A c \in Clients : AboutToPlace(c)
       \/ s2 = 1 /\ \E f \in Clients : PlacedFirst(f)
  /\ spc = "place1" => \E f \in Clients : PlacedFirst(f)

\* c has placed its ship after f, and f has waited longer.
PlacedSecond(c, f) ==
  pc[c] = "wait_turn" /\ f \in ahead[c] /\ writer = c

PlacingSecond ==
  /\ spc \in {"reg2", "place2"} =>
       owner[1] \in Clients /\ pc[owner[1]] = "wait_turn"
  /\ spc = "reg2" =>
       /\ s2 = 0 => \A c \in Clients \ {owner[1]} :
                      /\ AboutToPlace(c)
                      /\ pc[c] = "wait_place" => c \in ahead[owner[1]]
       /\ s2 = 1 => \E c \in Clients \ {owner[1]} : PlacedSecond(c, owner[1])
  /\ spc = "place2" =>
       \E c \in Clients \ {owner[1]} : PlacedSecond(c, owner[1])

\* The player whose shot the server waits for or has just evaluated.
Mover == IF spc \in {"guess", "answer"} THEN owner[Current] ELSE owner[Target]

Waiter == IF spc \in {"guess", "answer"} THEN owner[Target] ELSE owner[Current]

PlayLabels ==
  {"guess", "answer", "answer_post", "answered", "ack", "verdict", "next"}

Winning(c) == pc[c] \in {"won_post", "won_pass", "won"}

\* The mover moves, and the waiter waits behind it.
Playing ==
  spc \in PlayLabels =>
    /\ owner[1] \in Clients /\ owner[2] \in Clients /\ owner[1] # owner[2]
    /\ pc[Waiter] = "wait_turn"
    /\ pc[Mover] = "wait_turn" \/ (InGame(Mover) /\ pc[Mover] # "wait_turn")
         \/ pc[Mover] \in {"won", "gaveup"}
    /\ s3 > 0 => /\ spc = "guess"
                 /\ pc[Mover] = "wait_turn"
                 /\ Mover \in ahead[Waiter]
    /\ s2 > 0 => \/ pc[Mover] = "wait_turn" /\ Waiter \in ahead[Mover]
                 \/ pc[Mover] \in {"won", "gaveup"}
    /\ Winning(Mover) => playing = 0
    /\ pc[Mover] \in {"quit_post", "quit_pass", "gaveup"} <=> give_up_flag = 1
    /\ response = "WON" => playing = 0
    /\ pc[Mover] \in {"guess_post", "quit_post", "wait_answer"} =>
         shooter = Mover
    /\ spc = "answer" \/ (spc = "guess" /\ s5 > 0) => shooter = Mover

(***************************************************************************)
(* Until a client overtakes the other one, the server has announced its    *)
(* end or the game is over, the two clients are where the phase of the     *)
(* server puts them, and the one whose turn it is not has waited less long.*)
(***************************************************************************)
InOrder ==
  Alive /\ Orderly =>
    /\ Joining /\ PlacingFirst /\ PlacingSecond /\ Playing
    /\ spc \notin PlayLabels =>
         give_up_flag = 0 /\ turn = 0 /\ response = "HIT"
    /\ Undecided

=============================================================================
