----------------------------- MODULE Battleships -----------------------------
(***************************************************************************)
(* One game of battleships: the server process and its client processes,   *)
(* which share two memory segments and five POSIX semaphores.              *)
(*                                                                         *)
(*   s1  counts the clients that joined                                    *)
(*   s2  a client hands the turn back to the server                        *)
(*   s3  the server hands the turn to some client                          *)
(*   s4  the server releases game_action_data to the client whose turn it  *)
(*       is; s5 is the way back                                            *)
(*                                                                         *)
(* The model starts when allocate_resources() of the server has returned   *)
(* and ends when the server leaves play().  A program counter names the    *)
(* call a process is about to make.  Every access to shared memory is a    *)
(* step apart from the semaphore operations around it, so overlapping      *)
(* accesses are states of the model.                                       *)
(***************************************************************************)
EXTENDS BattleshipsBoard, FiniteSets

CONSTANTS
  Clients,     \* client processes, in any number: nothing stops a third one
  None,        \* no client
  Placements,  \* ship placements users type
  Guesses,     \* shots users type
  Signals,     \* may SIGINT or SIGTERM reach the server?
  Mortal       \* clients that may be killed at any point

ASSUME ConstantsAssumption ==
  /\ None \notin Clients
  /\ Placements \subseteq Placement
  /\ Guesses \subseteq Cells
  /\ Signals \in BOOLEAN
  /\ Mortal \subseteq Clients

VARIABLES
  s1, s2, s3, s4, s5,      \* values of the semaphores
  registration,            \* *registration_data
  guess,                   \* game_action_data->x, ->y
  give_up_flag, response, server_terminated_flag, \* rest of game_action_data
  spc,                     \* program counter of the server
  board,                   \* board1 and board2 of the server
  turn, hits, playing,     \* locals of play() of the server
  pc,                      \* program counter of each client
  found,                   \* SHOT_HIT cells of the board of each client
  ahead,                   \* history: clients that wait longer than this one
  overtaken,               \* history: clients that lost a turn to another one
  writer, shooter,         \* history: who wrote registration, guess last
  owner, ship              \* history: whose ship each board got, and where

sems    == <<s1, s2, s3, s4, s5>>
action  == <<guess, give_up_flag, response, server_terminated_flag, shooter>>
shm     == <<registration, writer, action>>
placed  == <<board, owner, ship>>
locals  == <<turn, hits, playing>>
server  == <<spc, placed, locals>>
waiting == <<ahead, overtaken>>
client  == <<pc, found, waiting>>
vars    == <<sems, shm, server, client>>

Players == {1, 2}

Responses == {"HIT", "MISS", "WON", "WALKOVER", "LOST"}

\* A client that has posted s1 or s2 and is about to call sem_wait(s3), or is
\* blocked in it: the semaphore cannot tell, and wakes any of them.
Queued == {"wait_place", "wait_turn"}

\* Final states of a client: how its process ended.
Ended == {"won", "lost", "walkover", "gaveup", "bailed", "refused", "killed"}

ServerLabels ==
  {"join1", "join2", "unlink", "open", "reg1", "place1", "reg2", "place2",
   "guess", "answer", "answer_post", "answered", "ack", "verdict", "next",
   "wake3", "wake34", "over", "dead"}

ClientLabels ==
  Ended \cup Queued \cup
  {"start", "join", "place_check", "place_input", "place_cs", "place_post",
   "wait_action", "turn_check", "input", "guess_cs", "guess_post", "quit_cs",
   "quit_post", "quit_pass", "wait_answer", "answer_check", "answer_cs",
   "turn_post", "turn_pass", "won_post", "won_pass"}

\* Mutant: one hit less is enough.
ShipLengthShort == 2

\* player1_hits == 3, player2_hits == 3.
ShipLength == 3

-----------------------------------------------------------------------------
Init ==
  /\ s1 = 0 /\ s2 = 1 /\ s3 = 0 /\ s4 = 1 /\ s5 = 0
  /\ registration = [x |-> 0, y |-> 0, positioning |-> HORIZONTAL]
  /\ guess = <<0, 0>>
  /\ give_up_flag = 0
  /\ response = "HIT"           \* a fresh segment is filled with zeros
  /\ server_terminated_flag = 0
  /\ spc = "join1"
  /\ board = [i \in Players |-> {}]
  /\ turn = 0
  /\ hits = [i \in Players |-> 0]
  /\ playing = 1
  /\ pc = [c \in Clients |-> "start"]
  /\ found = [c \in Clients |-> {}]
  /\ ahead = [c \in Clients |-> {}] /\ overtaken = {}
  /\ writer = None /\ shooter = None
  /\ owner = [i \in Players |-> None]
  /\ ship = [i \in Players |-> {}]

-----------------------------------------------------------------------------
(***************************************************************************)
(* The server.                                                             *)
(***************************************************************************)
ServerStep(from, to) == spc = from /\ spc' = to

\* wait_for_players_to_join: the two sem_wait(s1).
WaitJoin ==
  /\ ServerStep("join1", "join2") \/ ServerStep("join2", "unlink")
  /\ s1 > 0 /\ s1' = s1 - 1
  /\ UNCHANGED <<s2, s3, s4, s5, shm, placed, locals, client>>

\* sem_close(s1), sem_unlink(SEM_1): nobody can join any more.
UnlinkJoin ==
  /\ ServerStep("unlink", "open")
  /\ UNCHANGED <<sems, shm, placed, locals, client>>

\* Mutant: the first sem_wait(s2) is left out.
OpenPlacingEager ==
  /\ ServerStep("open", "reg1")
  /\ s3' = s3 + 1
  /\ UNCHANGED <<s1, s2, s4, s5, shm, placed, locals, client>>

\* The first sem_wait(s2) and sem_post(s3): a client may place its ship.
OpenPlacing ==
  /\ ServerStep("open", "reg1")
  /\ s2 > 0 /\ s2' = s2 - 1
  /\ s3' = s3 + 1
  /\ UNCHANGED <<s1, s4, s5, shm, placed, locals, client>>

\* sem_wait(s2) for the placement of the first or of the second player.
WaitPlacement ==
  /\ ServerStep("reg1", "place1") \/ ServerStep("reg2", "place2")
  /\ s2 > 0 /\ s2' = s2 - 1
  /\ UNCHANGED <<s1, s3, s4, s5, shm, placed, locals, client>>

\* place_ship_on_board(board<i>, *registration_data) and sem_post(s3).
PlacePlayer(i, from, to) ==
  /\ ServerStep(from, to)
  /\ board' = [board EXCEPT ![i] = PlaceShip(@, registration)]
  /\ ship' = [ship EXCEPT ![i] = PlaceShip(board[i], registration)]
  /\ owner' = [owner EXCEPT ![i] = writer]
  /\ s3' = s3 + 1
  /\ UNCHANGED <<s1, s2, s4, s5, shm, locals, client>>

Place == PlacePlayer(1, "place1", "reg2") \/ PlacePlayer(2, "place2", "guess")

\* play(): sem_wait(s5) for the guess.
WaitGuess ==
  /\ ServerStep("guess", "answer")
  /\ s5 > 0 /\ s5' = s5 - 1
  /\ UNCHANGED <<s1, s2, s3, s4, shm, placed, locals, client>>

\* Mutants: the two players are swapped, for the hits and for the board.
CurrentSwapped == 2 - turn
TargetSwapped  == turn + 1

\* The player whose turn the server takes it to be, and its opponent.
Current == turn + 1
Target  == 2 - turn

\* Evaluate whatever cell is in game_action_data, and switch the turn.
Answer ==
  /\ ServerStep("answer", "answer_post")
  /\ board' = [board EXCEPT ![Target] = @ \ {guess}]
  /\ hits' = [hits EXCEPT ![Current] = IF guess \in board[Target] THEN @ + 1
                                                                 ELSE @]
  /\ LET over == \E i \in Players : hits'[i] = ShipLength
     IN  /\ response' = IF over THEN "WON"
                        ELSE IF guess \in board[Target] THEN "HIT" ELSE "MISS"
         /\ playing' = IF over THEN 0 ELSE playing
  /\ turn' = 1 - turn
  /\ UNCHANGED <<sems, registration, writer, guess, give_up_flag, shooter,
                 server_terminated_flag, owner, ship, client>>

\* Mutant: the answer is posted once more than it is taken.
PostAnswerTwice ==
  /\ ServerStep("answer_post", "answered")
  /\ s4' = s4 + 2
  /\ UNCHANGED <<s1, s2, s3, s5, shm, placed, locals, client>>

PostAnswer ==
  /\ ServerStep("answer_post", "answered")
  /\ s4' = s4 + 1
  /\ UNCHANGED <<s1, s2, s3, s5, shm, placed, locals, client>>

\* The give_up_flag is looked at after the answer has been released.
Walkover ==
  /\ ServerStep("answered", "verdict")
  /\ give_up_flag = 1
  /\ response' = "WALKOVER"
  /\ playing' = 0
  /\ s4' = s4 + 1
  /\ UNCHANGED <<s1, s2, s3, s5, registration, writer, guess, give_up_flag,
                 server_terminated_flag, shooter, placed, turn, hits, client>>

NoWalkover ==
  /\ ServerStep("answered", "ack")
  /\ give_up_flag # 1
  /\ UNCHANGED <<sems, shm, placed, locals, client>>

\* Mutant: the server does not wait until the client has read the answer.
WaitAckSkipped ==
  /\ ServerStep("ack", "verdict")
  /\ s4' = s4 + 1
  /\ UNCHANGED <<s1, s2, s3, s5, shm, placed, locals, client>>

\* The client has read the answer: sem_wait(s5), sem_post(s4).
WaitAck ==
  /\ ServerStep("ack", "verdict")
  /\ s5 > 0 /\ s5' = s5 - 1
  /\ s4' = s4 + 1
  /\ UNCHANGED <<s1, s2, s3, shm, placed, locals, client>>

\* Mutant: the loser is told that its opponent gave up.
VerdictWalkover ==
  /\ ServerStep("verdict", "next")
  /\ IF \E i \in Players : hits[i] = ShipLength
     THEN response' = "WALKOVER" /\ playing' = 0
     ELSE UNCHANGED <<response, playing>>
  /\ UNCHANGED <<sems, registration, writer, guess, give_up_flag, shooter,
                 server_terminated_flag, placed, turn, hits, client>>

\* Mutant: the loser is told nothing.
VerdictForgotten ==
  /\ ServerStep("verdict", "next")
  /\ UNCHANGED <<sems, shm, placed, locals, client>>

\* After the third hit, whoever comes next has lost.
Verdict ==
  /\ ServerStep("verdict", "next")
  /\ IF \E i \in Players : hits[i] = ShipLength
     THEN response' = "LOST" /\ playing' = 0
     ELSE UNCHANGED <<response, playing>>
  /\ UNCHANGED <<sems, registration, writer, guess, give_up_flag, shooter,
                 server_terminated_flag, placed, turn, hits, client>>

\* sem_wait(s2), sem_post(s3): pass the turn on; leave play() when it is over.
PassTurn ==
  /\ ServerStep("next", IF playing = 1 THEN "guess" ELSE "over")
  /\ s2 > 0 /\ s2' = s2 - 1
  /\ s3' = s3 + 1
  /\ UNCHANGED <<s1, s4, s5, shm, placed, locals, client>>

\* Mutant: the EINTR branches post the semaphores without setting the flag.
InterruptSilent ==
  /\ Signals
  /\ \/ spc \in {"join1", "ack", "next"} /\ spc' = "dead"
     \/ spc \in {"join2", "reg1", "reg2"} /\ spc' = "wake3"
     \/ ServerStep("guess", "wake34")
  /\ UNCHANGED <<sems, shm, placed, locals, client>>

\* A signal interrupts a blocked sem_wait.  Four of the waits tell the
\* clients before the server exits, three do not; anywhere else the signal
\* has no effect.  The wait at "open" never blocks.
Interrupt ==
  /\ Signals
  /\ \/ /\ spc \in {"join1", "ack", "next"}
        /\ spc' = "dead"
        /\ UNCHANGED server_terminated_flag
     \/ /\ spc \in {"join2", "reg1", "reg2"}
        /\ spc' = "wake3"
        /\ server_terminated_flag' = 1
     \/ /\ ServerStep("guess", "wake34")
        /\ server_terminated_flag' = 1
  /\ UNCHANGED <<sems, registration, writer, guess, give_up_flag, response,
                 shooter, placed, locals, client>>

\* The sem_post calls of the EINTR branches, then bail_out().
WakeClients ==
  /\ spc \in {"wake3", "wake34"}
  /\ spc' = "dead"
  /\ s3' = s3 + 1
  /\ s4' = IF spc = "wake34" THEN s4 + 1 ELSE s4
  /\ UNCHANGED <<s1, s2, s5, shm, placed, locals, client>>

ServerNext ==
  \/ WaitJoin \/ UnlinkJoin \/ OpenPlacing \/ WaitPlacement \/ Place
  \/ WaitGuess \/ Answer \/ PostAnswer \/ Walkover \/ NoWalkover \/ WaitAck
  \/ Verdict \/ PassTurn \/ WakeClients

-----------------------------------------------------------------------------
(***************************************************************************)
(* The clients.                                                            *)
(***************************************************************************)
Step(c, from, to) == pc[c] = from /\ pc' = [pc EXCEPT ![c] = to]

\* The order in which the clients hand the turn on, and so begin to wait for
\* the next one: a history that no step depends on.
StartWaiting(c) ==
  /\ ahead' = [ahead EXCEPT ![c] = {d \in Clients : pc[d] \in Queued}]
  /\ UNCHANGED overtaken

StopWaiting(c) ==
  ahead' = [d \in Clients |-> IF d = c THEN {} ELSE ahead[d] \ {c}]

\* SEM_1 exists from allocate_resources() until both players joined.
Joinable == spc \in {"join1", "join2", "unlink"}

\* allocate_resources() of the client.
Allocate(c) ==
  /\ Step(c, "start", IF Joinable THEN "join" ELSE "refused")
  /\ UNCHANGED <<sems, shm, server, found, waiting>>

\* join_and_place_ship: sem_post(s1).
Join(c) ==
  /\ Step(c, "join", "wait_place")
  /\ s1' = s1 + 1
  /\ StartWaiting(c)
  /\ UNCHANGED <<s2, s3, s4, s5, shm, server, found>>

\* sem_wait(s3), before placing a ship and before every turn: POSIX says
\* nothing about which of several waiting clients gets it, and one that has
\* not come to its sem_wait yet cannot.
TakeTurn(c) ==
  /\ Step(c, "wait_place", "place_check") \/ Step(c, "wait_turn", "wait_action")
  /\ s3 > 0 /\ s3' = s3 - 1
  /\ StopWaiting(c)
  /\ overtaken' = overtaken \cup ahead[c]
  /\ UNCHANGED <<s1, s2, s4, s5, shm, server, found>>

\* The server_terminated_flag is looked at before and after the user types.
PlaceCheck(c) ==
  /\ LET alive == server_terminated_flag # 1
     IN  \/ Step(c, "place_check", IF alive THEN "place_input" ELSE "bailed")
         \/ Step(c, "place_input", IF alive THEN "place_cs" ELSE "bailed")
  /\ UNCHANGED <<sems, shm, server, found, waiting>>

\* The critical section on registration_data.
WritePlacement(c) ==
  /\ Step(c, "place_cs", "place_post")
  /\ \E p \in Placements : registration' = p
  /\ writer' = c
  /\ UNCHANGED <<sems, action, server, found, waiting>>

\* Mutant: the client posts the semaphore it has just waited for.
PostPlacementBack(c) ==
  /\ Step(c, "place_post", "wait_turn")
  /\ s3' = s3 + 1
  /\ StartWaiting(c)
  /\ UNCHANGED <<s1, s2, s4, s5, shm, server, found>>

\* sem_post(s2) after the placement.
PostPlacement(c) ==
  /\ Step(c, "place_post", "wait_turn")
  /\ s2' = s2 + 1
  /\ StartWaiting(c)
  /\ UNCHANGED <<s1, s3, s4, s5, shm, server, found>>

\* sem_wait(s4): before a turn, and for the answer to a guess.
WaitAction(c) ==
  /\ \/ Step(c, "wait_action", "turn_check")
     \/ Step(c, "wait_answer", "answer_check")
  /\ s4 > 0 /\ s4' = s4 - 1
  /\ UNCHANGED <<s1, s2, s3, s5, shm, server, found, waiting>>

\* Is the server gone, or the game over?
TurnCheck(c) ==
  \/ /\ server_terminated_flag = 1
     /\ Step(c, "turn_check", "bailed")
     /\ UNCHANGED <<sems, shm, server, found, waiting>>
  \/ /\ server_terminated_flag # 1
     /\ response \in {"LOST", "WALKOVER"}
     /\ Step(c, "turn_check", IF response = "LOST" THEN "lost" ELSE "walkover")
     /\ s5' = s5 + 1
     /\ UNCHANGED <<s1, s2, s3, s4, shm, server, found, waiting>>
  \/ /\ server_terminated_flag # 1
     /\ response \notin {"LOST", "WALKOVER"}
     /\ Step(c, "turn_check", "input")
     /\ UNCHANGED <<sems, shm, server, found, waiting>>

\* The user has typed a shot or q (anything else is asked for again).
Input(c) ==
  /\ \/ server_terminated_flag = 1 /\ Step(c, "input", "bailed")
     \/ /\ server_terminated_flag # 1
        /\ Step(c, "input", "guess_cs") \/ Step(c, "input", "quit_cs")
  /\ UNCHANGED <<sems, shm, server, found, waiting>>

\* The critical section on game_action_data, for a shot and for giving up.
WriteGuess(c) ==
  /\ Step(c, "guess_cs", "guess_post")
  /\ \E g \in Guesses : guess' = g
  /\ shooter' = c
  /\ UNCHANGED <<sems, registration, writer, give_up_flag, response,
                 server_terminated_flag, server, found, waiting>>

WriteGiveUp(c) ==
  /\ Step(c, "quit_cs", "quit_post")
  /\ give_up_flag' = 1
  /\ shooter' = c
  /\ UNCHANGED <<sems, registration, writer, guess, response,
                 server_terminated_flag, server, found, waiting>>

\* sem_post(s5) after a shot, after giving up, and after reading the answer.
PostAction(c) ==
  /\ \/ Step(c, "guess_post", "wait_answer")
     \/ Step(c, "quit_post", "quit_pass")
     \/ Step(c, "turn_post", "turn_pass")
     \/ Step(c, "won_post", "won_pass")
  /\ s5' = s5 + 1
  /\ UNCHANGED <<s1, s2, s3, s4, shm, server, found, waiting>>

AnswerCheck(c) ==
  /\ Step(c, "answer_check",
          IF server_terminated_flag = 1 THEN "bailed" ELSE "answer_cs")
  /\ UNCHANGED <<sems, shm, server, found, waiting>>

\* The critical section in which the answer is read.
ReadAnswer(c) ==
  /\ Step(c, "answer_cs", IF response = "WON" THEN "won_post" ELSE "turn_post")
  /\ found' = IF response \in {"WON", "HIT"}
              THEN [found EXCEPT ![c] = @ \cup {guess}]
              ELSE found
  /\ UNCHANGED <<sems, shm, server, waiting>>

\* sem_post(s2): end of the turn.
EndTurn(c) ==
  /\ Step(c, "turn_pass", "wait_turn")
  /\ s2' = s2 + 1
  /\ StartWaiting(c)
  /\ UNCHANGED <<s1, s3, s4, s5, shm, server, found>>

\* Mutant: a client that leaves keeps the turn.
LeavingWithTurn(c) ==
  /\ Step(c, "quit_pass", "gaveup") \/ Step(c, "won_pass", "won")
  /\ UNCHANGED <<sems, shm, server, found, waiting>>

\* sem_post(s2) of a client that won or gave up, and exits.
Leaving(c) ==
  /\ Step(c, "quit_pass", "gaveup") \/ Step(c, "won_pass", "won")
  /\ s2' = s2 + 1
  /\ UNCHANGED <<s1, s3, s4, s5, shm, server, found, waiting>>

\* The client installs no signal handler: SIGINT just ends it.
Kill(c) ==
  /\ c \in Mortal
  /\ pc[c] \notin Ended
  /\ pc' = [pc EXCEPT ![c] = "killed"]
  /\ StopWaiting(c)
  /\ UNCHANGED <<sems, shm, server, found, overtaken>>

ClientNext(c) ==
  \/ Allocate(c) \/ Join(c) \/ TakeTurn(c) \/ PlaceCheck(c)
  \/ WritePlacement(c) \/ PostPlacement(c) \/ WaitAction(c) \/ TurnCheck(c)
  \/ Input(c) \/ WriteGuess(c) \/ WriteGiveUp(c) \/ PostAction(c)
  \/ AnswerCheck(c) \/ ReadAnswer(c) \/ EndTurn(c) \/ Leaving(c)

Next ==
  \/ ServerNext \/ Interrupt
  \/ \E c \in Clients : ClientNext(c) \/ Kill(c)

Spec == Init /\ [][Next]_vars

\* Every process that can run is scheduled, and users answer the prompts.
Fairness == WF_vars(ServerNext) /\ \A c \in Clients : WF_vars(ClientNext(c))

FairSpec == Spec /\ Fairness

\* The behaviours in which no client is overtaken by another one.
Orderly == overtaken = {}

OrderlySpec == Init /\ [][Next /\ Orderly']_vars /\ Fairness

-----------------------------------------------------------------------------
TypeOK ==
  /\ s1 \in Nat /\ s2 \in Nat /\ s3 \in Nat /\ s4 \in Nat /\ s5 \in Nat
  /\ registration \in Placement
  /\ guess \in Cells
  /\ give_up_flag \in {0, 1}
  /\ response \in Responses
  /\ server_terminated_flag \in {0, 1}
  /\ spc \in ServerLabels
  /\ board \in [Players -> SUBSET Cells]
  /\ ship \in [Players -> SUBSET Cells]
  /\ owner \in [Players -> Clients \cup {None}]
  /\ turn \in {0, 1}
  /\ hits \in [Players -> Nat]
  /\ playing \in {0, 1}
  /\ pc \in [Clients -> ClientLabels]
  /\ found \in [Clients -> SUBSET Cells]
  /\ ahead \in [Clients -> SUBSET Clients] /\ overtaken \subseteq Clients
  /\ writer \in Clients \cup {None}
  /\ shooter \in Clients \cup {None}

(***************************************************************************)
(* The regions the client marks CRITICAL SECTION (battleships-client.c     *)
(* lines 224-228, 291-307 and 318-345): no two clients are in one at the   *)
(* same time, whatever the order in which the semaphores wake them, also   *)
(* while the server is being terminated; and the server never reads a      *)
(* placement that a client is writing.                                     *)
(***************************************************************************)
Critical(c) == pc[c] \in {"place_cs", "guess_cs", "quit_cs", "answer_cs"}

CriticalSections ==
  /\ \A c, d \in Clients : Critical(c) /\ Critical(d) => c = d
  /\ spc \in {"place1", "place2"} => \A c \in Clients : pc[c] # "place_cs"

(***************************************************************************)
(* Why they hold: while the server has not announced its end there is one  *)
(* turn, and it is in s2, in s3, with the server that took it from s2, or  *)
(* with one client; afterwards no further client passes a look at          *)
(* server_terminated_flag, so the one that had is alone.                   *)
(***************************************************************************)
Admitted(c) ==
  pc[c] \in {"place_input", "place_cs", "place_post", "input", "guess_cs",
             "guess_post", "quit_cs", "quit_post", "quit_pass", "wait_answer",
             "answer_check", "answer_cs", "turn_post", "turn_pass", "won_post",
             "won_pass"}

InTurn(c) == Admitted(c) \/ pc[c] \in {"place_check", "wait_action", "turn_check"}

OneTurn ==
  IF server_terminated_flag = 0
  THEN /\ \A c, d \in Clients : InTurn(c) /\ InTurn(d) => c = d
       /\ \A c \in Clients : InTurn(c) => s2 + s3 = 0
       /\ s2 + s3 \in {0, 1}
       /\ spc \in {"place1", "place2"} =>
            s2 + s3 = 0 /\ \A c \in Clients : ~InTurn(c)
       /\ spc \notin {"wake3", "wake34"}
  ELSE /\ \A c, d \in Clients : Admitted(c) /\ Admitted(d) => c = d
       /\ spc \in {"wake3", "wake34", "dead"}

(***************************************************************************)
(* The server never evaluates a guess, and never overwrites the response   *)
(* with WALKOVER or LOST, while a client is using game_action_data.        *)
(***************************************************************************)
UsesAction(c) ==
  \/ pc[c] \in {"guess_cs", "quit_cs", "answer_cs"}
  \/ pc[c] = "turn_check" /\ server_terminated_flag # 1

ServerUsesAction ==
  \/ spc \in {"answer", "verdict"}
  \/ spc = "answered" /\ give_up_flag = 1

ActionExclusive == ServerUsesAction => \A c \in Clients : ~UsesAction(c)

(***************************************************************************)
(* The shot the server evaluates for a player was fired by that player:    *)
(* clients take turns, as the comments on SEM_2 and SEM_3 promise.         *)
(***************************************************************************)
TurnRespected == spc = "answer" => shooter = owner[Current]

(***************************************************************************)
(* They do not: sem_wait(s3) may return in the client that has just played,*)
(* also from a semaphore that serves its waiters in order, if the other    *)
(* client is still between its sem_post and its sem_wait.  Until that      *)
(* happens for the first time the program keeps what it promises; the      *)
(* properties that follow say so.                                          *)
(***************************************************************************)
\* Until a client overtakes another one, the shots are fired in turn.
ShotsInTurn == Orderly => TurnRespected

(***************************************************************************)
(* Between two turns, the hits a client has marked on its own board are    *)
(* exactly the cells its opponent's ship has lost in the server.           *)
(***************************************************************************)
FoundMatchesBoard ==
  Orderly /\ spc = "guess" /\ s5 = 0 =>
    \A i \in Players : found[owner[i]] = ship[3 - i] \ board[3 - i]

(***************************************************************************)
(* A client is told it won only after it has itself hit every cell of the  *)
(* ship of its opponent.                                                   *)
(***************************************************************************)
Sunk(c, i) == owner[i] = c /\ ship[3 - i] # {} /\ ship[3 - i] \subseteq found[c]

WonMeansSunk ==
  Orderly =>
    \A c \in Clients :
      pc[c] \in {"won_post", "won_pass", "won"} => \E i \in Players : Sunk(c, i)

(***************************************************************************)
(* A client is told it lost only if another one has hit its ship three     *)
(* times ("If it hits it 3 times, this client won").                       *)
(***************************************************************************)
LostMeansSunk ==
  Orderly =>
    \A c \in Clients :
      pc[c] = "lost" => \E i \in Players : owner[3 - i] = c /\ Sunk(owner[i], i)

\* Two clients never both leave the game as its winner.
OneWinner ==
  \A c, d \in Clients :
    pc[c] \in {"won", "walkover"} /\ pc[d] \in {"won", "walkover"} => c = d

(***************************************************************************)
(* What must happen; FairSpec does not see to the first three, OrderlySpec *)
(* does.                                                                   *)
(***************************************************************************)
\* Once two players have joined, both ships get placed and play() starts.
RegistrationCompletes == spc = "unlink" ~> spc = "guess"

\* A player that waits for its turn gets it, or learns that the game is over.
TurnComes == \A c \in Clients : pc[c] = "wait_turn" ~> pc[c] # "wait_turn"

\* When one player wins or gives up, the game ends for everyone.
GameEnds ==
  (\E c \in Clients : pc[c] \in {"won", "gaveup"})
    ~> spc = "over" /\ \A c \in Clients : pc[c] \in Ended

\* A client that waits for its turn when the server is terminated gets to know.
TerminationReachesPlayers ==
  \A c \in Clients :
    spc = "dead" /\ pc[c] = "wait_turn" ~> pc[c] # "wait_turn"

=============================================================================
