--------------------- MODULE BattleshipsRefinementProofs --------------------
(***************************************************************************)
(* Two clients, until one of them takes a turn for which the other one has *)
(* waited longer: proof that they shoot in turns; that, signals or not,    *)
(* the boards the clients draw and the victories they report are true; and *)
(* that without a signal the programs play BattleshipsGame.                *)
(***************************************************************************)
EXTENDS BattleshipsProofs, BattleshipsRefinement, FiniteSetTheorems

(***************************************************************************)
(* Each action moves at most one of the server and the two clients, and    *)
(* InOrder says of the other two where they are and who is ahead.          *)
(***************************************************************************)
LEMMA OrderStep ==
  ASSUME TypeOK, OneTurn, Handshake, InOrder, TwoPlayers, [Next]_vars
  PROVE  InOrder'
<1>. USE DEF TypeOK, OneTurn, InTurn, Admitted, ServerStep, Step, sems, action,
         shm, placed, locals, server, client, Handshake, Alive, InGame, TurnIn,
         PlaceLabels, TurnUsed, Registering, Shooting, Evaluating, Reading,
         Concluding, GivenUp, FirstPlacement, Undecided, InOrder, Joining,
         Joined, AllJoined, PlacedFirst, AboutToPlace, PlacingFirst,
         PlacedSecond, PlacingSecond, Mover, Waiter, Current, Target,
         PlayLabels, Winning, Playing, TwoPlayers, ServerLabels, Players,
         StartWaiting, StopWaiting, waiting, Orderly, Queued, Joinable
<1>1. CASE WaitJoin      BY <1>1 DEF WaitJoin
<1>2. CASE UnlinkJoin    BY <1>2 DEF UnlinkJoin
<1>3. CASE OpenPlacing   BY <1>3 DEF OpenPlacing
<1>4. CASE WaitPlacement BY <1>4 DEF WaitPlacement
<1>5. CASE Place
  <2>1. CASE PlacePlayer(1, "place1", "reg2")
    BY <2>1 DEF PlacePlayer
  <2>2. CASE PlacePlayer(2, "place2", "guess")
    BY <2>2 DEF PlacePlayer
  <2>. QED
    BY <1>5, <2>1, <2>2 DEF Place
<1>6. CASE WaitGuess     BY <1>6 DEF WaitGuess
<1>7. CASE Answer        BY <1>7 DEF Answer
<1>8. CASE PostAnswer    BY <1>8 DEF PostAnswer
<1>9. CASE Walkover      BY <1>9 DEF Walkover
<1>10. CASE NoWalkover   BY <1>10 DEF NoWalkover
<1>11. CASE WaitAck      BY <1>11 DEF WaitAck
<1>12. CASE Verdict      BY <1>12 DEF Verdict
<1>13. CASE PassTurn     BY <1>13 DEF PassTurn
<1>14. CASE WakeClients  BY <1>14 DEF WakeClients
<1>15. CASE Interrupt    BY <1>15 DEF Interrupt
<1>16. ASSUME NEW c \in Clients, ClientNext(c)
       PROVE  InOrder'
  <2>1. CASE Allocate(c)       BY SMTT(60), <2>1 DEF Allocate
  <2>2. CASE Join(c)           BY SMTT(60), <2>2 DEF Join
  <2>3. CASE TakeTurn(c)       BY SMTT(60), <2>3 DEF TakeTurn
  <2>4. CASE PlaceCheck(c)     BY SMTT(60), <2>4 DEF PlaceCheck
  <2>5. CASE WritePlacement(c) BY SMTT(60), <2>5 DEF WritePlacement
  <2>6. CASE PostPlacement(c)  BY SMTT(60), <2>6 DEF PostPlacement
  <2>7. CASE WaitAction(c)     BY SMTT(60), <2>7 DEF WaitAction
  <2>8. CASE TurnCheck(c)      BY SMTT(60), <2>8 DEF TurnCheck
  <2>9. CASE Input(c)          BY SMTT(60), <2>9 DEF Input
  <2>10. CASE WriteGuess(c)    BY SMTT(60), <2>10 DEF WriteGuess
  <2>11. CASE WriteGiveUp(c)   BY SMTT(60), <2>11 DEF WriteGiveUp
  <2>12. CASE PostAction(c)    BY SMTT(60), <2>12 DEF PostAction
  <2>13. CASE AnswerCheck(c)   BY SMTT(60), <2>13 DEF AnswerCheck
  <2>14. CASE ReadAnswer(c)    BY SMTT(60), <2>14 DEF ReadAnswer
  <2>15. CASE EndTurn(c)       BY SMTT(60), <2>15 DEF EndTurn
  <2>16. CASE Leaving(c)       BY SMTT(60), <2>16 DEF Leaving
  <2>. QED
    BY <1>16, <2>1, <2>2, <2>3, <2>4, <2>5, <2>6, <2>7, <2>8, <2>9, <2>10,
       <2>11, <2>12, <2>13, <2>14, <2>15, <2>16 DEF ClientNext
<1>17. ASSUME NEW c \in Clients, Kill(c)
       PROVE  InOrder'
  BY <1>17 DEF Kill
<1>18. CASE UNCHANGED vars
  BY SMTT(60), <1>18 DEF vars
<1>. QED
  BY <1>1, <1>2, <1>3, <1>4, <1>5, <1>6, <1>7, <1>8, <1>9, <1>10, <1>11, <1>12,
     <1>13, <1>14, <1>15, <1>16, <1>17, <1>18 DEF Next, ServerNext

\* Until one client overtakes the other, both are where the server expects them.
THEOREM OrderAlways ==
  ASSUME TwoPlayers
  PROVE  Spec => []InOrder
<1>1. Init => InOrder
  BY DEF Init, InOrder, Joining, Joined, AllJoined, PlacingFirst,
         PlacingSecond, Playing, PlayLabels, Undecided
<1>2. TypeOK /\ OneTurn /\ Handshake /\ InOrder /\ [Next]_vars => InOrder'
  BY TwoPlayers, OrderStep
<1>. QED
  BY <1>1, <1>2, TypeCorrect, OneTurnAlways, HandshakeAlways, PTL DEF Spec

(***************************************************************************)
(* The shot that the server evaluates for a player was fired by that       *)
(* player, as long as no client has overtaken the other one; the run       *)
(* bs_alternate shows what happens then.                                   *)
(***************************************************************************)
THEOREM TurnsAlternate ==
  ASSUME TwoPlayers
  PROVE  Spec => []ShotsInTurn
<1>1. TypeOK /\ OneTurn /\ InOrder => ShotsInTurn
  <2> SUFFICES ASSUME TypeOK, OneTurn, InOrder, Orderly, spc = "answer"
               PROVE  shooter = owner[Current]
    BY DEF ShotsInTurn, TurnRespected
  <2>1. Alive
    BY DEF Alive, OneTurn, TypeOK
  <2>. QED
    BY <2>1 DEF InOrder, Playing, PlayLabels, Mover
<1>. QED
  BY <1>1, TypeCorrect, OneTurnAlways, OrderAlways, PTL

-----------------------------------------------------------------------------

\* A ship that was placed has three cells.
LEMMA ShipSize ==
  ASSUME NEW p \in Placement
  PROVE  LET s == PlaceShip({}, p)
         IN  s = {} \/ (IsFiniteSet(s) /\ Cardinality(s) = ShipLength)
<1>1. CASE p.positioning \in Positioning
  <2>1. PICK a, b, e : ShipCells(p) = {a, b, e} /\ a # b /\ b # e /\ a # e
    BY <1>1, ShipEnds
  <2>2. IsFiniteSet({a, b, e}) /\ Cardinality({a, b, e}) = 3
    BY <2>1, Three
  <2>. QED
    BY <2>1, <2>2 DEF PlaceShip, ShipLength
<1>2. CASE p.positioning \notin Positioning
  BY <1>2 DEF PlaceShip
<1>. QED
  BY <1>1, <1>2

\* A shot lowers the number of cells that are left by the hits it scores.
LEMMA ShotTally ==
  ASSUME NEW s, NEW g, NEW h \in 0 .. ShipLength, IsFiniteSet(s),
         Cardinality(s) = ShipLength - h
  PROVE  /\ IsFiniteSet(s \ {g})
         /\ g \in s => /\ h + 1 \in 0 .. ShipLength
                       /\ Cardinality(s \ {g}) = ShipLength - (h + 1)
         /\ g \notin s => Cardinality(s \ {g}) = ShipLength - h
<1>1. IsFiniteSet(s \ {g}) /\ Cardinality(s \ {g}) \in Nat
  BY FS_RemoveElement, FS_CardinalityType
<1>2. g \in s => Cardinality(s \ {g}) = Cardinality(s) - 1
  BY FS_RemoveElement
<1>3. g \notin s => s \ {g} = s
  OBVIOUS
<1>4. g \in s => h + 1 \in 0 .. ShipLength
                /\ Cardinality(s \ {g}) = ShipLength - (h + 1)
  BY <1>1, <1>2 DEF ShipLength
<1>. QED
  BY <1>1, <1>3, <1>4

\* The third hit takes the last cell, and no cell is left but by it.
LEMMA SunkTally ==
  ASSUME NEW s, NEW h,
         \/ s = {} /\ h = 0
         \/ /\ IsFiniteSet(s)
            /\ h \in 0 .. ShipLength
            /\ Cardinality(s) = ShipLength - h
  PROVE  /\ h = ShipLength => s = {}
         /\ s = {} => h \in {0, ShipLength}
BY FS_EmptySet DEF ShipLength

\* Placing a ship on an empty board keeps the tally at nothing.
LEMMA PlaceTally ==
  ASSUME TypeOK, NEW i \in Players, NEW j \in Players, j = 3 - i, i = 3 - j,
         board[i] = {}, hits[j] = 0,
         board' = [board EXCEPT ![i] = PlaceShip(@, registration)],
         UNCHANGED hits
  PROVE  Tally(j)'
<1>1. registration \in Placement /\ board'[i] = PlaceShip({}, registration)
  BY DEF TypeOK
<1>2. \/ board'[i] = {}
      \/ IsFiniteSet(board'[i]) /\ Cardinality(board'[i]) = ShipLength
  BY <1>1, ShipSize
<1>3. hits'[j] = 0
  OBVIOUS
<1>. QED
  BY <1>2, <1>3 DEF Tally, ShipLength

\* The evaluation of a shot keeps both tallies.
LEMMA AnswerTally ==
  ASSUME TypeOK, Answer, NEW i \in Players, Tally(i), ~Sank(i)
  PROVE  Tally(i)'
<1>. DEFINE s == board[3 - i]
<1>1. i = Current \/ i = 3 - Current
  BY DEF TypeOK, Players, Current
<1>2. CASE i = 3 - Current
  <2>1. board'[3 - i] = board[3 - i] /\ hits'[i] = hits[i]
    BY <1>2 DEF TypeOK, Players, Current, Target, Answer
  <2>. QED
    BY <2>1 DEF Tally
<1>3. CASE i = Current
  <2>1. /\ 3 - i \in Players
        /\ board'[3 - i] = s \ {guess}
        /\ hits'[i] = IF guess \in s THEN hits[i] + 1 ELSE hits[i]
    BY <1>3 DEF TypeOK, Players, Current, Target, Answer
  <2>2. CASE s = {} /\ hits[i] = 0
    BY <2>1, <2>2 DEF Tally
  <2>3. CASE /\ IsFiniteSet(s) /\ hits[i] \in 0 .. ShipLength
             /\ Cardinality(s) = ShipLength - hits[i]
    <3>1. IsFiniteSet(s \ {guess})
          /\ (guess \in s => hits[i] + 1 \in 0 .. ShipLength
                /\ Cardinality(s \ {guess}) = ShipLength - (hits[i] + 1))
          /\ (guess \notin s =>
                Cardinality(s \ {guess}) = ShipLength - hits[i])
      BY <2>3, ShotTally
    <3>. QED
      BY <2>1, <2>3, <3>1 DEF Tally
  <2>. QED
    BY <2>2, <2>3 DEF Tally
<1>. QED
  BY <1>1, <1>2, <1>3

-----------------------------------------------------------------------------
(***************************************************************************)
(* The accounts of the game are kept by every action.  A shot is the only  *)
(* step that touches the counters and the boards together.                 *)
(***************************************************************************)
LEMMA AccountedStep ==
  ASSUME TypeOK, OneTurn, Handshake, InOrder, Accounted, TwoPlayers, [Next]_vars
  PROVE  Accounted'
<1>. USE DEF TypeOK, OneTurn, InTurn, Admitted, ServerStep, Step, sems, action,
         shm, placed, locals, server, client, Handshake, Alive, InGame, TurnIn,
         PlaceLabels, TurnUsed, Registering, Shooting, Evaluating, Reading,
         Concluding, GivenUp, FirstPlacement, Undecided, InOrder, Joining,
         Joined, AllJoined, PlacedFirst, AboutToPlace, PlacingFirst,
         PlacedSecond, PlacingSecond, Mover, Waiter, Current, Target,
         PlayLabels, Winning, Playing, TwoPlayers, ServerLabels, Players,
         StartWaiting, StopWaiting, waiting, Orderly, Queued, Joinable,
         NothingPlaced, Tally, Tallied, Sank,
         Scored, Signed, GameOver, Uninterrupted, Accounted, ShipLength
<1>1. CASE WaitJoin      BY <1>1 DEF WaitJoin
<1>2. CASE UnlinkJoin    BY <1>2 DEF UnlinkJoin
<1>3. CASE OpenPlacing   BY <1>3 DEF OpenPlacing
<1>4. CASE WaitPlacement BY SMTT(60), <1>4 DEF WaitPlacement
<1>5. CASE Place
  <2>. SUFFICES ASSUME Orderly PROVE Accounted'
    BY <1>5 DEF Place, PlacePlayer
  <2>1. CASE PlacePlayer(1, "place1", "reg2")
    <3>. USE <2>1 DEF PlacePlayer
    <3>1. Tally(2)'
      <4>1. /\ 1 \in Players /\ 2 \in Players /\ 2 = 3 - 1 /\ 1 = 3 - 2
            /\ board[1] = {} /\ hits[2] = 0
            /\ board' = [board EXCEPT ![1] = PlaceShip(@, registration)]
            /\ UNCHANGED hits
        OBVIOUS
      <4>. HIDE DEF TypeOK, Tally, Players
      <4>. QED
        BY ONLY TypeOK, <4>1, PlaceTally
    <3>2. NothingPlaced' /\ Scored' /\ Signed' /\ GameOver'
      OBVIOUS
    <3>. QED
      BY <3>1, <3>2
  <2>2. CASE PlacePlayer(2, "place2", "guess")
    <3>. USE <2>2 DEF PlacePlayer
    <3>1. Tally(1)'
      <4>1. /\ 2 \in Players /\ 1 \in Players /\ 1 = 3 - 2 /\ 2 = 3 - 1
            /\ board[2] = {} /\ hits[1] = 0
            /\ board' = [board EXCEPT ![2] = PlaceShip(@, registration)]
            /\ UNCHANGED hits
        OBVIOUS
      <4>. HIDE DEF TypeOK, Tally, Players
      <4>. QED
        BY ONLY TypeOK, <4>1, PlaceTally
    <3>2. Tally(2)'
      <4>1. Tally(2) /\ board'[1] = board[1] /\ hits' = hits
        OBVIOUS
      <4>. QED
        BY <4>1
    <3>3. NothingPlaced' /\ Scored' /\ Signed' /\ GameOver'
      OBVIOUS
    <3>. QED
      BY <3>1, <3>2, <3>3
  <2>. QED
    BY <1>5, <2>1, <2>2 DEF Place
<1>6. CASE WaitGuess     BY <1>6 DEF WaitGuess
<1>7. CASE Answer
  <2>. SUFFICES ASSUME Orderly PROVE Accounted'
    BY <1>7 DEF Answer
  <2>1. /\ spc = "answer" /\ spc' = "answer_post" /\ turn' = 1 - turn
        /\ UNCHANGED <<sems, registration, writer, give_up_flag, shooter,
                       server_terminated_flag, owner, pc>>
    BY <1>7 DEF Answer
  <2>2. Mover = owner[Current] /\ Mover' = owner[Current]
    BY <2>1
  <2>3. /\ Current \in Players /\ Target \in Players /\ Current # Target
        /\ \A i \in Players : i = Current \/ i = Target
    OBVIOUS
  <2>4. NothingPlaced' /\ Signed' /\ GameOver'
    BY <1>7, <2>1, <2>2 DEF Answer
  <2>5. CASE give_up_flag = 1
    BY <2>1, <2>4, <2>5
  <2>6. CASE give_up_flag = 0
    <3>1. \A i \in Players : Tally(i) /\ ~Sank(i)
      BY <2>1, <2>6
    <3>2. \A i \in Players : Tally(i)'
      <4>. HIDE DEF TypeOK, Tally, Sank, Players
      <4>. QED
        BY <1>7, <3>1, AnswerTally
    <3>3. /\ playing = 1
          /\ hits[Target] # ShipLength /\ hits[Current] # ShipLength
      BY <2>1, <2>3, <2>6, <3>1
    <3>4. /\ hits'[Target] = hits[Target]
          /\ playing' = IF hits'[Current] = ShipLength THEN 0 ELSE 1
          /\ response' \in {"WON", "HIT", "MISS"}
          /\ response' = "WON" <=> hits'[Current] = ShipLength
      BY <1>7, <2>3, <3>3 DEF Answer
    <3>5. pc[Mover] = "wait_answer"
      BY <2>1, <2>6
    <3>6. Scored'
      <4>1. \A i \in Players : hits'[i] = ShipLength => i = Current
        BY <2>3, <3>3, <3>4
      <4>2. \A i \in Players :
              Sank(i)' => owner'[i] = Mover' /\ spc' = "answer_post"
        BY <2>1, <2>2, <4>1
      <4>3. playing' = 0 <=> \E i \in Players : hits'[i] = ShipLength
        BY SMTT(60), <2>3, <3>4, <4>1
      <4>4. response' = "WON" <=> playing' = 0
        BY <3>4
      <4>. QED
        BY <2>1, <2>2, <3>4, <3>5, <4>2, <4>3, <4>4
    <3>. QED
      BY <2>1, <2>4, <2>6, <3>2, <3>6
  <2>. QED
    BY <2>5, <2>6
<1>8. CASE PostAnswer    BY <1>8 DEF PostAnswer
<1>9. CASE Walkover      BY <1>9 DEF Walkover
<1>10. CASE NoWalkover   BY <1>10 DEF NoWalkover
<1>11. CASE WaitAck      BY <1>11 DEF WaitAck
<1>12. CASE Verdict      BY <1>12 DEF Verdict
<1>13. CASE PassTurn     BY <1>13 DEF PassTurn
<1>14. CASE WakeClients  BY <1>14 DEF WakeClients
<1>15. CASE Interrupt    BY <1>15 DEF Interrupt
<1>16. ASSUME NEW c \in Clients, ClientNext(c)
       PROVE  Accounted'
  <2>1. CASE Allocate(c)       BY SMTT(60), <2>1 DEF Allocate
  <2>2. CASE Join(c)           BY SMTT(60), <2>2 DEF Join
  <2>3. CASE TakeTurn(c)       BY SMTT(60), <2>3 DEF TakeTurn
  <2>4. CASE PlaceCheck(c)     BY <2>4 DEF PlaceCheck
  <2>5. CASE WritePlacement(c) BY SMTT(60), <2>5 DEF WritePlacement
  <2>6. CASE PostPlacement(c)  BY SMTT(60), <2>6 DEF PostPlacement
  <2>7. CASE WaitAction(c)     BY SMTT(60), <2>7 DEF WaitAction
  <2>8. CASE TurnCheck(c)      BY SMTT(60), <2>8 DEF TurnCheck
  <2>9. CASE Input(c)          BY <2>9 DEF Input
  <2>10. CASE WriteGuess(c)    BY SMTT(60), <2>10 DEF WriteGuess
  <2>11. CASE WriteGiveUp(c)   BY SMTT(60), <2>11 DEF WriteGiveUp
  <2>12. CASE PostAction(c)    BY SMTT(60), <2>12 DEF PostAction
  <2>13. CASE AnswerCheck(c)   BY SMTT(60), <2>13 DEF AnswerCheck
  <2>14. CASE ReadAnswer(c)    BY SMTT(60), <2>14 DEF ReadAnswer
  <2>15. CASE EndTurn(c)       BY SMTT(60), <2>15 DEF EndTurn
  <2>16. CASE Leaving(c)       BY SMTT(60), <2>16 DEF Leaving
  <2>. QED
    BY <1>16, <2>1, <2>2, <2>3, <2>4, <2>5, <2>6, <2>7, <2>8, <2>9, <2>10,
       <2>11, <2>12, <2>13, <2>14, <2>15, <2>16 DEF ClientNext
<1>17. ASSUME NEW c \in Clients, Kill(c)
       PROVE  Accounted'
  BY <1>17 DEF Kill
<1>18. CASE UNCHANGED vars
  BY SMTT(60), <1>18 DEF vars
<1>. QED
  BY <1>1, <1>2, <1>3, <1>4, <1>5, <1>6, <1>7, <1>8, <1>9, <1>10, <1>11, <1>12,
     <1>13, <1>14, <1>15, <1>16, <1>17, <1>18 DEF Next, ServerNext

\* Counters and responses agree with the boards and the places of the clients.
THEOREM AccountedAlways ==
  ASSUME TwoPlayers
  PROVE  Spec => []Accounted
<1>1. Init => Accounted
  BY DEF Init, Accounted, NothingPlaced, Tallied, Scored, Signed, GameOver,
         Uninterrupted, PlayLabels, Players
<1>2. TypeOK /\ OneTurn /\ Handshake /\ InOrder /\ Accounted /\ [Next]_vars
        => Accounted'
  BY TwoPlayers, AccountedStep
<1>. QED
  BY <1>1, <1>2, TypeCorrect, OneTurnAlways, HandshakeAlways, OrderAlways, PTL
     DEF Spec

\* Only a signal ends the server before the game does.
LEMMA NeverInterrupted ==
  ASSUME ~Signals
  PROVE  Spec => []Uninterrupted
<1>1. Init => Uninterrupted
  BY DEF Init, Uninterrupted
<1>2. TypeOK /\ OneTurn /\ Uninterrupted /\ [Next]_vars => Uninterrupted'
  <2>. SUFFICES ASSUME TypeOK, OneTurn, Uninterrupted, [Next]_vars
                PROVE  Uninterrupted'
    OBVIOUS
  <2>. USE ~Signals DEF Uninterrupted, OneTurn, ServerStep, PlacePlayer, shm, action, server
  <2>1. CASE ServerNext
    BY <2>1 DEF ServerNext, WaitJoin, UnlinkJoin, OpenPlacing, WaitPlacement,
       Place, WaitGuess,
       Answer, PostAnswer, Walkover, NoWalkover, WaitAck, Verdict, PassTurn, WakeClients
  <2>2. CASE Interrupt
    BY <2>2 DEF Interrupt
  <2>3. ASSUME NEW c \in Clients, ClientNext(c) \/ Kill(c)
        PROVE  Uninterrupted'
    BY <2>3 DEF ClientNext, Kill, Allocate, Join, TakeTurn, PlaceCheck,
       WritePlacement,
       PostPlacement, WaitAction, TurnCheck, Input, WriteGuess, WriteGiveUp, PostAction,
       AnswerCheck, ReadAnswer, EndTurn, Leaving
  <2>4. CASE UNCHANGED vars
    BY <2>4 DEF vars
  <2>. QED
    BY <2>1, <2>2, <2>3, <2>4 DEF Next
<1>. QED
  BY <1>1, <1>2, TypeCorrect, OneTurnAlways, PTL DEF Spec

-----------------------------------------------------------------------------
GameVars == <<owner, Afloat, NextSeat, Shot, Winner, Quitter, Outcome>>

\* The game is played on the board of the program.
LEMMA GameBoard ==
  /\ Game!Cells = Cells
  /\ \A b, p : Game!PlaceShip(b, p) = PlaceShip(b, p)
BY DEF Cells, Game!Cells, Coord, Game!Coord, Dimension, Game!Dimension,
       PlaceShip, Game!PlaceShip, ShipCells, Game!ShipCells, Direction,
       Game!Direction, Positioning, Game!Positioning, HORIZONTAL,
       Game!HORIZONTAL, VERTICAL, Game!VERTICAL, DIAGONAL1, Game!DIAGONAL1,
       DIAGONAL2, Game!DIAGONAL2

LEMMA GameNext ==
  /\ Game!Resolve => Game!Next
  /\ \A c \in Clients :
       /\ \A i \in Players : Game!TakeSeat(i, c) => Game!Next
       /\ \A cell \in Cells : Game!Aim(c, cell) => Game!Next
       /\ Game!GiveUp(c) => Game!Next
       /\ Game!Leave(c) => Game!Next
BY GameBoard DEF Game!Next, Game!Seats, Players

\* A client that exits changes its own outcome only.
LEMMA OutcomeLeft ==
  ASSUME TypeOK, NEW c \in Clients,
         pc[c] \in {"turn_check", "quit_pass", "won_pass"},
         pc'[c] \in {"won", "lost", "walkover", "gaveup"},
         pc' = [pc EXCEPT ![c] = pc'[c]]
  PROVE  Outcome' = [Outcome EXCEPT ![c] = pc'[c]] /\ Outcome[c] = "in"
BY DEF Outcome, TypeOK

(***************************************************************************)
(* Placing takes a seat, writing a guess aims, writing give_up_flag gives  *)
(* up, evaluating a guess resolves the shot, and the step with which a     *)
(* client exits leaves the game; every other step is invisible.            *)
(***************************************************************************)
LEMMA GameStep ==
  ASSUME TypeOK, OneTurn, Handshake, InOrder, Accounted, Accounted',
         Uninterrupted, Uninterrupted', Orderly, Orderly', TwoPlayers,
         ~Signals, [Next]_vars
  PROVE  Game!Next \/ UNCHANGED GameVars
<1>. USE DEF TypeOK, OneTurn, InTurn, Admitted, ServerStep, Step, sems, action,
         shm, placed, locals, server, client, Handshake, Alive, InGame, TurnIn,
         PlaceLabels, TurnUsed, Registering, Shooting, Evaluating, Reading,
         Concluding, GivenUp, FirstPlacement, Undecided, InOrder, Joining,
         Joined, AllJoined, PlacedFirst, AboutToPlace, PlacingFirst,
         PlacedSecond, PlacingSecond, Mover, Waiter, Current, Target,
         PlayLabels, Winning, Playing, TwoPlayers, ServerLabels, Players,
         StartWaiting, StopWaiting, waiting, Orderly, Queued, Joinable,
         NothingPlaced, Tally, Tallied, Sank,
         Scored, Signed, GameOver, Uninterrupted, Accounted, ShipLength, Fired,
         Quit, Afloat, NextSeat, Shot, Winner, Quitter, Outcome, GameVars
<1>1. CASE WaitJoin      BY SMTT(60), <1>1 DEF WaitJoin
<1>2. CASE UnlinkJoin    BY <1>2 DEF UnlinkJoin
<1>3. CASE OpenPlacing   BY <1>3 DEF OpenPlacing
<1>4. CASE WaitPlacement BY SMTT(60), <1>4 DEF WaitPlacement
<1>5. CASE Place
  <2>1. CASE PlacePlayer(1, "place1", "reg2")
    <3>. USE <2>1 DEF PlacePlayer
    <3>1. /\ writer \in Clients /\ registration \in Placements
          /\ give_up_flag = 0 /\ owner[1] = None /\ board[1] = {}
      BY ConstantsAssumption
    <3>2. Afloat' = [Afloat EXCEPT ![1] = PlaceShip({}, registration)]
      BY <3>1
    <3>3. owner' = [owner EXCEPT ![1] = writer]
      OBVIOUS
    <3>4. UNCHANGED <<NextSeat, Shot, Winner, Quitter, Outcome>>
      BY <3>1
    <3>5. Game!TakeSeat(1, writer)
      BY ONLY <3>1, <3>2, <3>3, <3>4, GameBoard DEF Game!TakeSeat
    <3>. QED
      BY ONLY <3>1, <3>5, GameNext DEF Players
  <2>2. CASE PlacePlayer(2, "place2", "guess")
    <3>. USE <2>2 DEF PlacePlayer
    <3>1. /\ writer \in Clients /\ registration \in Placements
          /\ give_up_flag = 0 /\ owner[2] = None /\ board[2] = {}
          /\ owner[1] # None /\ owner[1] # writer
      BY ConstantsAssumption
    <3>2. Afloat' = [Afloat EXCEPT ![2] = PlaceShip({}, registration)]
      BY <3>1
    <3>3. owner' = [owner EXCEPT ![2] = writer]
      OBVIOUS
    <3>4. UNCHANGED <<NextSeat, Shot, Winner, Quitter, Outcome>>
      BY <3>1
    <3>5. Game!TakeSeat(2, writer)
      BY ONLY <3>1, <3>2, <3>3, <3>4, GameBoard DEF Game!TakeSeat
    <3>. QED
      BY ONLY <3>1, <3>5, GameNext DEF Players
  <2>. QED
    BY <1>5, <2>1, <2>2 DEF Place
<1>6. CASE WaitGuess     BY <1>6 DEF WaitGuess
<1>7. CASE Answer
  <2>1. CASE give_up_flag = 1
    BY <1>7, <2>1 DEF Answer
  <2>2. CASE give_up_flag = 0
    <3>1. /\ spc = "answer" /\ spc' = "answer_post" /\ turn' = 1 - turn
          /\ board' = [board EXCEPT ![Target] = @ \ {guess}]
          /\ hits' = [hits EXCEPT ![Current] =
                        IF guess \in board[Target] THEN @ + 1 ELSE @]
          /\ UNCHANGED <<give_up_flag, shooter, guess, owner, pc>>
      BY <1>7 DEF Answer
    <3>2. /\ Current \in Players /\ Target \in Players
          /\ Target = 3 - Current /\ Current = 3 - Target
          /\ Current' = Target /\ Target' = Current
          /\ \A i \in Players : i = Current \/ i = Target
      BY <3>1
    <3>3. /\ shooter = owner[Current] /\ shooter \in Clients
          /\ pc[shooter] = "wait_answer"
          /\ owner[1] \in Clients /\ owner[2] \in Clients
      BY <2>2, <3>1, <3>2
    <3>4. Shot = <<shooter, guess>> /\ Shot' = <<>>
      BY <3>1, <3>3
    <3>5. Winner = None /\ Quitter = None /\ Quitter' = None
      BY <2>2, <3>1
    <3>6. /\ Afloat = board /\ Afloat' = board'
          /\ NextSeat = Current /\ NextSeat' = Target /\ Outcome' = Outcome
      BY <2>2, <3>1, <3>2
    <3>7. playing' = 0 <=> hits'[Current] = ShipLength
      <4>1. playing' = 0 <=> \E i \in Players : hits'[i] = ShipLength
        BY <1>7, <2>2, <3>2 DEF Answer
      <4>2. hits'[Target] # ShipLength
        BY <2>2, <3>1, <3>2
      <4>. QED
        BY <3>2, <4>1, <4>2
    <3>8. hits'[Current] = ShipLength <=> board[Target] = {guess}
      <4>1. \A i \in Players : Tally(i)' /\ hits[i] # ShipLength
        BY <2>2, <3>1, <3>2
      <4>2. \/ board'[Target] = {} /\ hits'[Current] = 0
            \/ /\ IsFiniteSet(board'[Target])
               /\ hits'[Current] \in 0 .. ShipLength
               /\ Cardinality(board'[Target]) = ShipLength - hits'[Current]
        BY <3>2, <4>1
      <4>3. /\ board'[Target] = board[Target] \ {guess}
            /\ hits'[Current] = IF guess \in board[Target]
                                THEN hits[Current] + 1 ELSE hits[Current]
            /\ hits[Current] \in Nat /\ hits[Current] # ShipLength
        BY <3>1, <3>2, <4>1
      <4>4. /\ hits'[Current] = ShipLength => board'[Target] = {}
            /\ board'[Target] = {} => hits'[Current] \in {0, ShipLength}
        BY ONLY <4>2, SunkTally
      <4>. QED
        BY ONLY <4>3, <4>4 DEF ShipLength
    <3>9. Winner' = IF board[Target] = {guess} THEN shooter ELSE None
      BY <2>2, <3>1, <3>2, <3>3, <3>7, <3>8
    <3>10. Game!InPlay
      BY <3>3, <3>5, ConstantsAssumption
         DEF Game!InPlay, Game!Decided, Game!Seats
    <3>11. Game!Resolve
      BY ONLY <3>1, <3>2, <3>4, <3>5, <3>6, <3>9, <3>10
         DEF Game!Resolve, Game!Opponent, Game!NoShot
    <3>. QED
      BY ONLY <3>11, GameNext
  <2>. QED
    BY <2>1, <2>2
<1>8. CASE PostAnswer    BY <1>8 DEF PostAnswer
<1>9. CASE Walkover      BY <1>9 DEF Walkover
<1>10. CASE NoWalkover   BY <1>10 DEF NoWalkover
<1>11. CASE WaitAck      BY <1>11 DEF WaitAck
<1>12. CASE Verdict      BY <1>12 DEF Verdict
<1>13. CASE PassTurn     BY <1>13 DEF PassTurn
<1>14. CASE WakeClients  BY <1>14 DEF WakeClients
<1>15. CASE Interrupt    BY <1>15 DEF Interrupt
<1>16. ASSUME NEW c \in Clients, ClientNext(c)
       PROVE  Game!Next \/ UNCHANGED GameVars
  <2>1. CASE Allocate(c)       BY SMTT(60), <2>1 DEF Allocate
  <2>2. CASE Join(c)           BY SMTT(60), <2>2 DEF Join
  <2>3. CASE TakeTurn(c)       BY SMTT(60), <2>3 DEF TakeTurn
  <2>4. CASE PlaceCheck(c)     BY SMTT(60), <2>4 DEF PlaceCheck
  <2>5. CASE WritePlacement(c) BY SMTT(60), <2>5 DEF WritePlacement
  <2>6. CASE PostPlacement(c)  BY SMTT(60), <2>6 DEF PostPlacement
  <2>7. CASE WaitAction(c)     BY <2>7 DEF WaitAction
  <2>8. CASE TurnCheck(c)
    <3>. USE <2>8 DEF TurnCheck
    <3>1. CASE pc'[c] \in {"lost", "walkover"}
      <4>. USE <3>1
      <4>1. /\ pc[c] = "turn_check" /\ spc = "over"
            /\ pc'[c] = (IF response = "LOST" THEN "lost" ELSE "walkover")
            /\ pc' = [pc EXCEPT ![c] = pc'[c]]
        OBVIOUS
      <4>2. /\ pc' = [pc EXCEPT ![c] = pc'[c]]
            /\ pc[c] = "turn_check" /\ pc'[c] \in {"lost", "walkover"}
        BY <4>1
      <4>3. c = Waiter /\ c # Mover /\ Mover \in Clients
        BY <4>1
      <4>4. UNCHANGED <<owner, Afloat, NextSeat, Shot, Winner, Quitter>>
        BY <4>1, <4>3
      <4>5. IF give_up_flag = 1
            THEN Quitter = Mover /\ Winner = None
            ELSE Quitter = None /\ Winner = Mover /\ pc'[c] = "lost"
        BY <4>1, <4>3
      <4>6. pc'[c] \in Game!Outcomes(c)
        BY ONLY <3>1, <4>3, <4>5, ConstantsAssumption, c \in Clients
           DEF Game!Outcomes
      <4>7. Outcome' = [Outcome EXCEPT ![c] = pc'[c]] /\ Outcome[c] = "in"
        BY ONLY TypeOK, <4>2, OutcomeLeft, c \in Clients
      <4>8. \E i \in {1, 2} : owner[i] = c
        BY <4>3
      <4>9. Game!Leave(c)
        BY ONLY <4>4, <4>6, <4>7, <4>8 DEF Game!Leave, Game!Seats
      <4>. QED
        BY ONLY <4>9, GameNext, c \in Clients
    <3>2. CASE pc'[c] \notin {"lost", "walkover"}
      <4>1. /\ pc[c] = "turn_check" /\ pc' = [pc EXCEPT ![c] = "input"]
            /\ UNCHANGED <<sems, shm, server, found, waiting>>
        BY <3>2
      <4>2. \A d \in Clients : Fired(d)' <=> Fired(d)
        BY SMTT(60), <4>1
      <4>3. UNCHANGED Outcome
        BY <4>1
      <4>. QED
        BY SMTT(60), <4>1, <4>2, <4>3
    <3>. QED
      BY <3>1, <3>2
  <2>9. CASE Input(c)          BY <2>9 DEF Input
  <2>10. CASE WriteGuess(c)
    <3>1. \E g \in Cells : Game!Aim(c, g)
      BY SMTT(60), <2>10, ConstantsAssumption
         DEF WriteGuess, Game!Aim, Game!InPlay, Game!Decided, Game!NoShot,
             Game!Seats
    <3>. QED
      BY ONLY <3>1, GameNext, c \in Clients
  <2>11. CASE WriteGiveUp(c)
    <3>1. Game!GiveUp(c)
      BY SMTT(60), <2>11, ConstantsAssumption
         DEF WriteGiveUp, Game!GiveUp, Game!InPlay, Game!Decided, Game!NoShot,
             Game!Seats
    <3>. QED
      BY ONLY <3>1, GameNext, c \in Clients
  <2>12. CASE PostAction(c)    BY SMTT(60), <2>12 DEF PostAction
  <2>13. CASE AnswerCheck(c)   BY SMTT(60), <2>13 DEF AnswerCheck
  <2>14. CASE ReadAnswer(c)    BY SMTT(60), <2>14 DEF ReadAnswer
  <2>15. CASE EndTurn(c)       BY SMTT(60), <2>15 DEF EndTurn
  <2>16. CASE Leaving(c)
    <3>. USE <2>16 DEF Leaving
    <3>1. \/ pc[c] = "quit_pass" /\ pc' = [pc EXCEPT ![c] = "gaveup"]
          \/ pc[c] = "won_pass" /\ pc' = [pc EXCEPT ![c] = "won"]
      OBVIOUS
    <3>2. /\ pc' = [pc EXCEPT ![c] = pc'[c]]
          /\ \/ pc[c] = "quit_pass" /\ pc'[c] = "gaveup"
             \/ pc[c] = "won_pass" /\ pc'[c] = "won"
      BY <3>1
    <3>3. c = Mover /\ spc \in PlayLabels
      BY SMTT(60), <3>1
    <3>4. UNCHANGED <<owner, Afloat, NextSeat, Shot, Winner, Quitter>>
      BY SMTT(60), <3>1, <3>3
    <3>5. IF give_up_flag = 1
          THEN Quitter = Mover /\ Winner = None /\ pc'[c] = "gaveup"
          ELSE Quitter = None /\ Winner = Mover /\ pc'[c] = "won"
      BY SMTT(60), <3>1, <3>3
    <3>6. pc'[c] \in Game!Outcomes(c)
      BY ONLY <3>3, <3>5, ConstantsAssumption, c \in Clients
         DEF Game!Outcomes
    <3>7. Outcome' = [Outcome EXCEPT ![c] = pc'[c]] /\ Outcome[c] = "in"
      BY ONLY TypeOK, <3>2, OutcomeLeft, c \in Clients
    <3>8. \E i \in {1, 2} : owner[i] = c
      BY SMTT(60), <3>3
    <3>9. Game!Leave(c)
      BY ONLY <3>4, <3>6, <3>7, <3>8 DEF Game!Leave, Game!Seats
    <3>. QED
      BY ONLY <3>9, GameNext, c \in Clients
  <2>. QED
    BY <1>16, <2>1, <2>2, <2>3, <2>4, <2>5, <2>6, <2>7, <2>8, <2>9, <2>10,
       <2>11, <2>12, <2>13, <2>14, <2>15, <2>16 DEF ClientNext
<1>17. ASSUME NEW c \in Clients, Kill(c)
       PROVE  Game!Next \/ UNCHANGED GameVars
  BY <1>17 DEF Kill
<1>18. CASE UNCHANGED vars
  BY <1>18 DEF vars
<1>. QED
  BY <1>1, <1>2, <1>3, <1>4, <1>5, <1>6, <1>7, <1>8, <1>9, <1>10, <1>11, <1>12,
     <1>13, <1>14, <1>15, <1>16, <1>17, <1>18 DEF Next, ServerNext

\* A client that was overtaken stays overtaken.
LEMMA StaysOrderly ==
  ASSUME [Next]_vars, Orderly'
  PROVE  Orderly
<1>. USE DEF Orderly, server, client, waiting, StartWaiting
<1>1. CASE ServerNext \/ Interrupt
  BY <1>1 DEF ServerNext, WaitJoin, UnlinkJoin, OpenPlacing, WaitPlacement,
     Place, PlacePlayer, WaitGuess, Answer, PostAnswer, Walkover, NoWalkover,
     WaitAck, Verdict, PassTurn, WakeClients, Interrupt
<1>2. ASSUME NEW c \in Clients, ClientNext(c) \/ Kill(c)
      PROVE  Orderly
  BY <1>2 DEF ClientNext, Kill, Allocate, Join, TakeTurn, PlaceCheck,
     WritePlacement, PostPlacement, WaitAction, TurnCheck, Input, WriteGuess,
     WriteGiveUp, PostAction, AnswerCheck, ReadAnswer, EndTurn, Leaving
<1>3. CASE UNCHANGED vars
  BY <1>3 DEF vars
<1>. QED
  BY <1>1, <1>2, <1>3 DEF Next

(***************************************************************************)
(* The programs play the game until a client overtakes the other one: two  *)
(* clients, and a server that no signal interrupts, take the steps of the  *)
(* abstract game, whatever ships they place and wherever they shoot.       *)
(***************************************************************************)
THEOREM Refinement ==
  ASSUME TwoPlayers, ~Signals
  PROVE  Spec => PlaysTheGame
<1>1. Init => Game!Init
  BY DEF Init, Game!Init, Game!Seats, Game!NoShot, Players, Afloat, NextSeat,
         Current, Shot, Fired, Winner, Quit, Quitter, Outcome
<1>2. /\ TypeOK /\ OneTurn /\ Handshake /\ InOrder
      /\ Accounted /\ Accounted' /\ Uninterrupted /\ Uninterrupted' /\ [Next]_vars
      => [Game!Next \/ ~Orderly']_(Game!vars)
  BY TwoPlayers, ~Signals, GameStep, StaysOrderly DEF GameVars, Game!vars
<1>. QED
  BY <1>1, <1>2, ~Signals, TypeCorrect, OneTurnAlways, HandshakeAlways,
     OrderAlways,
     AccountedAlways, NeverInterrupted, PTL DEF Spec, PlaysTheGame

\* A run in which no client overtakes the other one is a game from end to end.
THEOREM OrderlyRefinement ==
  ASSUME TwoPlayers, ~Signals
  PROVE  Spec /\ []Orderly => Game!Spec
<1>1. Orderly' /\ [Game!Next \/ ~Orderly']_(Game!vars) => [Game!Next]_(Game!vars)
  OBVIOUS
<1>. QED
  BY <1>1, TwoPlayers, ~Signals, Refinement, PTL DEF PlaysTheGame, Game!Spec

-----------------------------------------------------------------------------
(***************************************************************************)
(* The two boards of a player, the one in the server and the one its       *)
(* opponent draws, and the end of the game.  Signals are allowed here.     *)
(***************************************************************************)
\* The client has fired, and has not marked the answer on its board yet.
Expecting(c) == pc[c] \in {"wait_answer", "answer_check", "answer_cs"}

\* The cell that the client of the turn will mark.
Due(c) ==
  IF Expecting(c) /\ response \in {"WON", "HIT"} THEN {guess} ELSE {}

\* What a client has marked, with what it is about to mark, is what its
\* opponent's ship has lost.
Marked ==
  Uninterrupted =>
    /\ \A i \in Players : board[i] \subseteq ship[i]
    /\ spc \notin PlayLabels \cup {"over"} =>
         /\ \A i \in Players : board[i] = ship[i]
         /\ \A c \in Clients : found[c] = {}
    /\ spc \in {"guess", "answer"} =>
         \A i \in Players : found[owner[i]] = ship[3 - i] \ board[3 - i]
    /\ /\ spc \in {"answer_post", "answered", "ack", "verdict", "next"}
       /\ give_up_flag = 0
       =>
         \A i \in Players :
           found[owner[i]] \cup Due(owner[i]) = ship[3 - i] \ board[3 - i]

\* With the cell of the shot that is under way, c has hit the whole ship.
LastShot(c) ==
  \E i \in Players :
    /\ owner[i] = c /\ ship[3 - i] # {}
    /\ ship[3 - i] \subseteq found[c] \cup {guess}

\* A client about to read that it won has only the last cell to mark.
AboutToWin ==
  server_terminated_flag = 0 /\ response = "WON" =>
    \A c \in Clients :
      /\ pc[c] \notin {"wait_action", "turn_check", "input", "guess_cs",
                      "guess_post"}
      /\ Expecting(c) => LastShot(c)

(***************************************************************************)
(* Every action keeps what the clients have marked and what the ships have *)
(* lost together: the evaluation of a shot takes a cell from a ship, and   *)
(* the cell is due until the client has read the answer.                   *)
(***************************************************************************)
LEMMA MarkedStep ==
  ASSUME TypeOK, OneTurn, Handshake, InOrder, Accounted, Marked, TwoPlayers,
         Orderly, Orderly', [Next]_vars
  PROVE  Marked'
<1>. USE DEF TypeOK, OneTurn, InTurn, Admitted, ServerStep, Step, sems, action,
         shm, placed, locals, server, client, Handshake, Alive, InGame, TurnIn,
         PlaceLabels, TurnUsed, Registering, Shooting, Evaluating, Reading,
         Concluding, GivenUp, FirstPlacement, Undecided, InOrder, Joining,
         Joined, AllJoined, PlacedFirst, AboutToPlace, PlacingFirst,
         PlacedSecond, PlacingSecond, Mover, Waiter, Current, Target,
         PlayLabels, Winning, Playing, TwoPlayers, ServerLabels, Players,
         NothingPlaced, Tally, Tallied, Sank, Scored, Signed, GameOver,
         Uninterrupted, Accounted, ShipLength,
         Expecting, Due, Marked, AboutToWin, LastShot,
         StartWaiting, StopWaiting, waiting, Orderly, Queued
<1>1. CASE WaitJoin BY <1>1 DEF WaitJoin
<1>2. CASE UnlinkJoin BY <1>2 DEF UnlinkJoin
<1>3. CASE OpenPlacing BY <1>3 DEF OpenPlacing
<1>4. CASE WaitPlacement BY <1>4 DEF WaitPlacement
<1>5. CASE Place BY <1>5 DEF Place, PlacePlayer
<1>6. CASE WaitGuess BY <1>6 DEF WaitGuess
<1>7. CASE Answer BY <1>7 DEF Answer
<1>8. CASE PostAnswer BY <1>8 DEF PostAnswer
<1>9. CASE Walkover BY <1>9 DEF Walkover
<1>10. CASE NoWalkover BY <1>10 DEF NoWalkover
<1>11. CASE WaitAck BY <1>11 DEF WaitAck
<1>12. CASE Verdict BY <1>12 DEF Verdict
<1>13. CASE PassTurn BY <1>13 DEF PassTurn
<1>14. CASE WakeClients BY <1>14 DEF WakeClients
<1>15. CASE Interrupt BY <1>15 DEF Interrupt
<1>16. ASSUME NEW c \in Clients, ClientNext(c) PROVE Marked'
  <2>1. CASE Allocate(c) BY SMTT(60), <2>1 DEF Allocate
  <2>2. CASE Join(c) BY SMTT(60), <2>2 DEF Join
  <2>3. CASE TakeTurn(c) BY SMTT(60), <2>3 DEF TakeTurn
  <2>4. CASE PlaceCheck(c) BY <2>4 DEF PlaceCheck
  <2>5. CASE WritePlacement(c) BY SMTT(60), <2>5 DEF WritePlacement
  <2>6. CASE PostPlacement(c) BY SMTT(60), <2>6 DEF PostPlacement
  <2>7. CASE WaitAction(c) BY <2>7 DEF WaitAction
  <2>8. CASE TurnCheck(c) BY <2>8 DEF TurnCheck
  <2>9. CASE Input(c) BY <2>9 DEF Input
  <2>10. CASE WriteGuess(c) BY SMTT(60), <2>10 DEF WriteGuess
  <2>11. CASE WriteGiveUp(c) BY SMTT(60), <2>11 DEF WriteGiveUp
  <2>12. CASE PostAction(c) BY SMTT(60), <2>12 DEF PostAction
  <2>13. CASE AnswerCheck(c) BY SMTT(60), <2>13 DEF AnswerCheck
  <2>14. CASE ReadAnswer(c) BY SMTT(60), <2>14 DEF ReadAnswer
  <2>15. CASE EndTurn(c) BY SMTT(60), <2>15 DEF EndTurn
  <2>16. CASE Leaving(c) BY <2>16 DEF Leaving
  <2>. QED
    BY <1>16, <2>1, <2>2, <2>3, <2>4, <2>5, <2>6, <2>7, <2>8, <2>9, <2>10,
       <2>11, <2>12, <2>13, <2>14, <2>15, <2>16 DEF ClientNext
<1>17. ASSUME NEW c \in Clients, Kill(c) PROVE Marked'
  BY <1>17 DEF Kill
<1>18. CASE UNCHANGED vars
  BY <1>18 DEF vars
<1>. QED
  BY <1>1, <1>2, <1>3, <1>4, <1>5, <1>6, <1>7, <1>8, <1>9, <1>10, <1>11, <1>12,
     <1>13, <1>14, <1>15, <1>16, <1>17, <1>18 DEF Next, ServerNext

(***************************************************************************)
(* WON is the answer to a third hit, which takes the last cell of the      *)
(* ship; and nobody else gets a turn while the response is WON.            *)
(***************************************************************************)
LEMMA AboutToWinStep ==
  ASSUME TypeOK, OneTurn, Handshake, InOrder, Coronation, Accounted, Marked,
         AboutToWin, TwoPlayers, Orderly, Orderly', [Next]_vars
  PROVE  AboutToWin'
<1>. USE DEF TypeOK, OneTurn, InTurn, Admitted, ServerStep, Step, sems, action,
         shm, placed, locals, server, client, Handshake, Alive, InGame, TurnIn,
         PlaceLabels, TurnUsed, Registering, Shooting, Evaluating, Reading,
         Concluding, GivenUp, FirstPlacement, Undecided, InOrder, Joining,
         Joined, AllJoined, PlacedFirst, AboutToPlace, PlacingFirst,
         PlacedSecond, PlacingSecond, Mover, Waiter, Current, Target,
         PlayLabels, Winning, Playing, TwoPlayers, ServerLabels, Players,
         NothingPlaced, Tally, Tallied, Sank, Scored, Signed, GameOver,
         Uninterrupted, Accounted, ShipLength,
         Expecting, Due, Marked, AboutToWin, LastShot,
         StartWaiting, StopWaiting, waiting, Orderly, Queued
<1>1. CASE WaitJoin BY <1>1 DEF WaitJoin
<1>2. CASE UnlinkJoin BY <1>2 DEF UnlinkJoin
<1>3. CASE OpenPlacing BY <1>3 DEF OpenPlacing
<1>4. CASE WaitPlacement BY <1>4 DEF WaitPlacement
<1>5. CASE Place BY <1>5 DEF Place, PlacePlayer
<1>6. CASE WaitGuess BY <1>6 DEF WaitGuess
<1>7. CASE Answer
  <2>1. /\ UNCHANGED <<pc, guess, give_up_flag, found, owner, ship,
                       server_terminated_flag>>
        /\ spc = "answer"
        /\ board' = [board EXCEPT ![Target] = @ \ {guess}]
        /\ hits' = [hits EXCEPT ![Current] =
                       IF guess \in board[Target] THEN @ + 1 ELSE @]
    BY ONLY <1>7 DEF Answer, ServerStep, client
  <2>9. response' = "WON" => \E i \in Players : hits'[i] = ShipLength
    BY ONLY <1>7 DEF Answer
  <2>2. /\ Current \in Players /\ Target \in Players /\ 3 - Current = Target
        /\ \A i \in Players : i = Current \/ i = Target
    OBVIOUS
  <2>3. ASSUME server_terminated_flag = 0, response' = "WON", NEW c \in Clients
        PROVE  /\ pc[c] \notin {"wait_action", "turn_check", "input",
                                  "guess_cs", "guess_post"}
               /\ Expecting(c) => LastShot(c)
    <3>4. CASE give_up_flag = 1
      BY <2>1, <2>3, <3>4
    <3>5. CASE give_up_flag = 0
      <4>1. /\ pc[c] \in {"wait_turn", "wait_answer"}
            /\ Expecting(c) => c = owner[Current]
        BY <2>1, <2>3, <3>5
      <4>2. \A i \in Players : Tally(i) /\ ~Sank(i)
        BY <2>1, <2>3, <3>5
      <4>3. \A i \in Players : Tally(i)'
        <5>. HIDE DEF TypeOK, Tally, Sank, Players
        <5>. QED
          BY <1>7, <4>2, AnswerTally
      <4>4. /\ guess \in board[Target] /\ hits'[Current] = ShipLength
            /\ board'[Target] = board[Target] \ {guess}
        BY <2>9, <2>1, <2>2, <2>3, <4>2
      <4>5. board'[Target] = {}
        <5>1. \/ board'[Target] = {} /\ hits'[Current] = 0
              \/ /\ IsFiniteSet(board'[Target])
                 /\ hits'[Current] \in 0 .. ShipLength
                 /\ Cardinality(board'[Target]) = ShipLength - hits'[Current]
          BY ONLY <2>2, <4>3 DEF Tally
        <5>. QED
          BY ONLY <4>4, <5>1, SunkTally
      <4>6. /\ board[Target] \subseteq ship[Target]
            /\ found[owner[Current]] = ship[Target] \ board[Target]
        BY <2>1, <2>2, <2>3, <3>5
      <4>7. /\ ship[Target] # {}
            /\ ship[Target] \subseteq found[owner[Current]] \cup {guess}
        BY ONLY <4>4, <4>5, <4>6
      <4>. QED
        BY ONLY <2>2, <4>1, <4>7 DEF LastShot
    <3>. QED
      BY <3>4, <3>5
  <2>4. UNCHANGED <<pc, guess, found, owner, ship, server_terminated_flag>>
    BY <2>1
  <2>5. \A c \in Clients : /\ LastShot(c)' <=> LastShot(c)
                           /\ Expecting(c)' <=> Expecting(c)
    BY ONLY <2>4 DEF LastShot, Expecting, Players
  <2>. QED
    BY ONLY <2>3, <2>4, <2>5 DEF AboutToWin
<1>8. CASE PostAnswer BY <1>8 DEF PostAnswer
<1>9. CASE Walkover BY <1>9 DEF Walkover
<1>10. CASE NoWalkover BY <1>10 DEF NoWalkover
<1>11. CASE WaitAck BY <1>11 DEF WaitAck
<1>12. CASE Verdict BY <1>12 DEF Verdict
<1>13. CASE PassTurn BY <1>13 DEF PassTurn
<1>14. CASE WakeClients BY <1>14 DEF WakeClients
<1>15. CASE Interrupt BY <1>15 DEF Interrupt
<1>16. ASSUME NEW c \in Clients, ClientNext(c) PROVE AboutToWin'
  <2>1. CASE Allocate(c) BY SMTT(60), <2>1 DEF Allocate
  <2>2. CASE Join(c) BY SMTT(60), <2>2 DEF Join
  <2>3. CASE TakeTurn(c)
    <3>1. CASE pc[c] = "wait_place"
      BY SMTT(60), <2>3, <3>1 DEF TakeTurn
    <3>2. CASE pc[c] = "wait_turn"
      <4>1. /\ s3 > 0
            /\ UNCHANGED <<spc, response, server_terminated_flag, give_up_flag>>
        BY <2>3 DEF TakeTurn
      <4>2. ~(server_terminated_flag = 0 /\ response = "WON")
        BY <3>2, <4>1 DEF Coronation, NoTurnAfterDeath, OneTold, Announced
      <4>. QED
        BY <4>1, <4>2
    <3>. QED
      BY <2>3, <3>1, <3>2 DEF TakeTurn
  <2>4. CASE PlaceCheck(c) BY SMTT(60), <2>4 DEF PlaceCheck
  <2>5. CASE WritePlacement(c) BY SMTT(60), <2>5 DEF WritePlacement
  <2>6. CASE PostPlacement(c) BY SMTT(60), <2>6 DEF PostPlacement
  <2>7. CASE WaitAction(c) BY <2>7 DEF WaitAction
  <2>8. CASE TurnCheck(c) BY <2>8 DEF TurnCheck
  <2>9. CASE Input(c) BY <2>9 DEF Input
  <2>10. CASE WriteGuess(c) BY <2>10 DEF WriteGuess
  <2>11. CASE WriteGiveUp(c) BY SMTT(60), <2>11 DEF WriteGiveUp
  <2>12. CASE PostAction(c) BY SMTT(60), <2>12 DEF PostAction
  <2>13. CASE AnswerCheck(c) BY SMTT(60), <2>13 DEF AnswerCheck
  <2>14. CASE ReadAnswer(c) BY SMTT(60), <2>14 DEF ReadAnswer
  <2>15. CASE EndTurn(c) BY SMTT(60), <2>15 DEF EndTurn
  <2>16. CASE Leaving(c) BY <2>16 DEF Leaving
  <2>. QED
    BY <1>16, <2>1, <2>2, <2>3, <2>4, <2>5, <2>6, <2>7, <2>8, <2>9, <2>10,
       <2>11, <2>12, <2>13, <2>14, <2>15, <2>16 DEF ClientNext
<1>17. ASSUME NEW c \in Clients, Kill(c) PROVE AboutToWin'
  BY <1>17 DEF Kill
<1>18. CASE UNCHANGED vars
  BY SMTT(60), <1>18 DEF vars
<1>. QED
  BY <1>1, <1>2, <1>3, <1>4, <1>5, <1>6, <1>7, <1>8, <1>9, <1>10, <1>11, <1>12,
     <1>13, <1>14, <1>15, <1>16, <1>17, <1>18 DEF Next, ServerNext

(***************************************************************************)
(* Between two turns the hits a client has marked on its own board         *)
(* (battleships-client.c lines 318-345) are the cells that the ship of its *)
(* opponent has lost on the board of the server, wherever they shoot, also *)
(* when a signal is about to end the server, as long as no client has      *)
(* overtaken the other one.                                                *)
(***************************************************************************)
THEOREM MarksAgree ==
  ASSUME TwoPlayers
  PROVE  Spec => []FoundMatchesBoard
<1>1. Init => Marked
  BY DEF Init, Marked, PlayLabels, Players
<1>2. /\ TypeOK /\ OneTurn /\ Handshake /\ InOrder /\ Accounted
      /\ (Orderly => Marked) /\ [Next]_vars
      => (Orderly => Marked)'
  BY TwoPlayers, StaysOrderly, MarkedStep
<1>3. TypeOK /\ OneTurn /\ (Orderly => Marked) => FoundMatchesBoard
  BY DEF TypeOK, OneTurn, Marked, Uninterrupted, FoundMatchesBoard
<1>. QED
  BY <1>1, <1>2, <1>3, TypeCorrect, OneTurnAlways, HandshakeAlways,
     OrderAlways, AccountedAlways, PTL DEF Spec

\* What a winner has sunk stays sunk: ships are placed before anybody wins.
LEMMA SunkStep ==
  ASSUME TypeOK, OneTurn, Coronation, AboutToWin, WonMeansSunk, Orderly,
         Orderly', [Next]_vars
  PROVE  WonMeansSunk'
<1>. SUFFICES ASSUME NEW d \in Clients, Crowned(d)'
              PROVE  \E i \in Players : Sunk(d, i)'
  BY DEF WonMeansSunk, Crowned
<1>. USE DEF Coronation, Crowned, ServerStep, Step, sems, action, shm, placed, locals,
         server, client
<1>1. /\ UNCHANGED <<owner, ship>> /\ found[d] \subseteq found'[d] /\ Crowned(d)
      => \E i \in Players : Sunk(d, i)'
  BY DEF WonMeansSunk, Sunk, Players
<1>. USE <1>1 DEF TypeOK
<1>2. CASE Place
  BY <1>2 DEF Place, PlacePlayer, OneTurn, WonInPlay, Alive
<1>3. ASSUME WaitJoin \/ UnlinkJoin \/ OpenPlacing \/ WaitPlacement \/
             WaitGuess \/ Answer \/ PostAnswer \/ Walkover \/ NoWalkover \/
             WaitAck \/ Verdict \/ PassTurn \/ WakeClients \/ Interrupt
      PROVE \E i \in Players : Sunk(d, i)'
  BY <1>3 DEF WaitJoin, UnlinkJoin, OpenPlacing, WaitPlacement, WaitGuess,
     Answer, PostAnswer, Walkover, NoWalkover, WaitAck, Verdict, PassTurn,
     WakeClients, Interrupt
<1>4. ASSUME NEW c \in Clients, ClientNext(c)
      PROVE  \E i \in Players : Sunk(d, i)'
  <2>1. CASE ReadAnswer(c)
    <3>1. CASE Crowned(d)
      BY <2>1, <3>1 DEF ReadAnswer
    <3>2. CASE ~Crowned(d)
      <4>1. /\ c = d /\ pc[d] = "answer_cs" /\ response = "WON"
            /\ found' = [found EXCEPT ![d] = @ \cup {guess}]
            /\ UNCHANGED <<owner, ship>>
        BY <2>1, <3>2 DEF ReadAnswer
      <4>2. server_terminated_flag = 0
        BY <4>1 DEF NoneTold
      <4>3. LastShot(d)
        BY <4>1, <4>2 DEF AboutToWin, Expecting
      <4>4. found'[d] = found[d] \cup {guess}
        BY <4>1
      <4>. QED
        BY ONLY <4>1, <4>3, <4>4 DEF LastShot, Sunk, Players
    <3>. QED
      BY <3>1, <3>2
  <2>2. CASE Allocate(c) BY <2>2 DEF Allocate
  <2>3. CASE Join(c) BY <2>3 DEF Join
  <2>4. CASE TakeTurn(c) BY <2>4 DEF TakeTurn
  <2>5. CASE PlaceCheck(c) BY <2>5 DEF PlaceCheck
  <2>6. CASE WritePlacement(c) BY <2>6 DEF WritePlacement
  <2>7. CASE PostPlacement(c) BY <2>7 DEF PostPlacement
  <2>8. CASE WaitAction(c) BY <2>8 DEF WaitAction
  <2>9. CASE TurnCheck(c) BY <2>9 DEF TurnCheck
  <2>10. CASE Input(c) BY <2>10 DEF Input
  <2>11. CASE WriteGuess(c) BY <2>11 DEF WriteGuess
  <2>12. CASE WriteGiveUp(c) BY <2>12 DEF WriteGiveUp
  <2>13. CASE PostAction(c) BY <2>13 DEF PostAction
  <2>14. CASE AnswerCheck(c) BY <2>14 DEF AnswerCheck
  <2>15. CASE EndTurn(c) BY <2>15 DEF EndTurn
  <2>16. CASE Leaving(c) BY <2>16 DEF Leaving
  <2>. QED
    BY <1>4, <2>1, <2>2, <2>3, <2>4, <2>5, <2>6, <2>7, <2>8, <2>9, <2>10,
       <2>11, <2>12, <2>13, <2>14, <2>15, <2>16 DEF ClientNext
<1>5. ASSUME NEW c \in Clients, Kill(c)
      PROVE  \E i \in Players : Sunk(d, i)'
  BY <1>5 DEF Kill
<1>6. CASE UNCHANGED vars
  BY <1>6 DEF vars
<1>. QED
  BY <1>2, <1>3, <1>4, <1>5, <1>6 DEF Next, ServerNext

(***************************************************************************)
(* A client that is told it won (battleships-client.c line 319) has hit    *)
(* every cell of the ship of its opponent, and there was a ship to hit, as *)
(* long as no client has overtaken the other one.                          *)
(***************************************************************************)
THEOREM WinnersSank ==
  ASSUME TwoPlayers
  PROVE  Spec => []WonMeansSunk
<1>1. Init => Marked /\ AboutToWin /\ WonMeansSunk
  BY DEF Init, Marked, AboutToWin, WonMeansSunk, PlayLabels, Players
<1>2. /\ TypeOK /\ OneTurn /\ Handshake /\ InOrder /\ Accounted
      /\ (Orderly => Marked) /\ [Next]_vars
      => (Orderly => Marked)'
  BY TwoPlayers, StaysOrderly, MarkedStep
<1>3. /\ TypeOK /\ OneTurn /\ Handshake /\ InOrder /\ Coronation /\ Accounted
      /\ (Orderly => Marked /\ AboutToWin) /\ [Next]_vars
      => (Orderly => AboutToWin)'
  BY TwoPlayers, StaysOrderly, AboutToWinStep
<1>4. /\ TypeOK /\ OneTurn /\ Coronation /\ (Orderly => AboutToWin)
      /\ WonMeansSunk /\ [Next]_vars
      => WonMeansSunk'
  <2>1. ~Orderly' => WonMeansSunk'
    BY DEF WonMeansSunk
  <2>. QED
    BY <2>1, StaysOrderly, SunkStep
<1>. QED
  BY <1>1, <1>2, <1>3, <1>4, TypeCorrect, OneTurnAlways, HandshakeAlways,
     OrderAlways,
     CoronationAlways, AccountedAlways, PTL DEF Spec

-----------------------------------------------------------------------------
(***************************************************************************)
(* Deadlock.  What follows are the conditions under which the server and a *)
(* client cannot take a step, or the client none without overtaking the    *)
(* other one: a sem_wait whose semaphore is zero, or the end.              *)
(***************************************************************************)
ServerWaits ==
  \/ spc \in {"join1", "join2"} /\ s1 = 0
  \/ spc \in {"open", "reg1", "reg2", "next"} /\ s2 = 0
  \/ spc \in {"guess", "ack"} /\ s5 = 0
  \/ spc \in {"over", "dead"}

ClientWaits(c) ==
  \/ pc[c] \in Queued /\ (s3 = 0 \/ ahead[c] # {})
  \/ pc[c] \in {"wait_action", "wait_answer"} /\ s4 = 0
  \/ pc[c] \in Ended

\* While no signal ends the server and nobody was overtaken, someone can move,
\* and without overtaking anyone, until all have ended.
NeverStuck ==
  /\ Uninterrupted /\ Orderly
  /\ ~(spc = "over" /\ \A c \in Clients : pc[c] \in Ended)
  => ~ServerWaits \/ \E c \in Clients : ~ClientWaits(c)

\* Who is ahead of a client waits itself, and has waited longer.
QueueOrder ==
  \A c, d \in Clients : c \in ahead[d] => pc[c] \in Queued /\ d \notin ahead[c]

\* No post of s1 is lost.
JoinsCounted ==
  /\ spc = "join1" => /\ AllJoined => s1 > 1
                      /\ \A c \in Clients : Joined(c) => s1 > 0
  /\ spc = "join2" /\ AllJoined => s1 > 0

\* The turn is somewhere.
TurnKept ==
  \/ s2 + s3 > 0
  \/ spc \in {"place1", "place2"}
  \/ \E c \in Clients : InTurn(c)

\* The turn comes back to the server only with something in s5 to answer.
TurnPlayed ==
  spc = "guess" /\ s5 = 0 => s2 = 0 /\ pc[Mover] \notin {"quit_pass", "gaveup"}

\* s4 is free for the one who has to be told how the game ended.
AnswerFree == spc \in {"verdict", "next"} => s4 > 0

\* The last player can take its turn, or already has.
LastTurn ==
  spc = "over" =>
    \/ pc[Waiter] = "wait_turn" /\ s3 > 0 /\ ahead[Waiter] = {} /\ s4 > 0
    \/ pc[Waiter] = "wait_action" /\ s4 > 0
    \/ pc[Waiter] \in {"turn_check", "lost", "walkover"}

NothingLost ==
  Uninterrupted /\ Orderly =>
    /\ JoinsCounted /\ TurnPlayed /\ AnswerFree /\ LastTurn
    /\ spc = "over" \/ TurnKept

\* The order in which clients began to wait is one, whoever gets the turn.
LEMMA QueueOrderAlways == Spec => []QueueOrder
<1>1. Init => QueueOrder
  BY DEF Init, QueueOrder
<1>2. TypeOK /\ QueueOrder /\ [Next]_vars => QueueOrder'
  <2>. SUFFICES ASSUME TypeOK, QueueOrder, [Next]_vars
                PROVE  QueueOrder'
    OBVIOUS
  <2>. USE DEF TypeOK, QueueOrder, Queued, ServerStep, Step, client, waiting
  <2>1. CASE ServerNext \/ Interrupt
    BY <2>1 DEF ServerNext, WaitJoin, UnlinkJoin, OpenPlacing, WaitPlacement,
       Place, PlacePlayer, WaitGuess, Answer, PostAnswer, Walkover, NoWalkover,
       WaitAck, Verdict, PassTurn, WakeClients, Interrupt
  <2>2. ASSUME NEW c \in Clients, Join(c) \/ PostPlacement(c) \/ EndTurn(c)
        PROVE  QueueOrder'
    <3>1. /\ pc[c] \notin Queued
          /\ pc' = [pc EXCEPT ![c] = pc'[c]] /\ pc'[c] \in Queued
          /\ ahead' = [ahead EXCEPT ![c] = {d \in Clients : pc[d] \in Queued}]
      BY <2>2 DEF Join, PostPlacement, EndTurn, StartWaiting
    <3>. QED
      BY <3>1
  <2>3. ASSUME NEW c \in Clients, TakeTurn(c) \/ Kill(c)
        PROVE  QueueOrder'
    BY <2>3 DEF TakeTurn, Kill, StopWaiting
  <2>4. ASSUME NEW c \in Clients,
               Allocate(c) \/ PlaceCheck(c) \/ WritePlacement(c) \/
               WaitAction(c) \/ TurnCheck(c) \/ Input(c) \/ WriteGuess(c) \/
               WriteGiveUp(c) \/ PostAction(c) \/ AnswerCheck(c) \/
               ReadAnswer(c) \/ Leaving(c)
        PROVE  QueueOrder'
    <3>1. /\ pc[c] \notin Queued /\ ahead' = ahead
          /\ pc' = [pc EXCEPT ![c] = pc'[c]]
      BY <2>4 DEF Allocate, PlaceCheck, WritePlacement, WaitAction, TurnCheck,
         Input, WriteGuess, WriteGiveUp, PostAction, AnswerCheck, ReadAnswer,
         Leaving
    <3>. QED
      BY <3>1
  <2>5. CASE UNCHANGED vars
    BY <2>5 DEF vars
  <2>. QED
    BY <2>1, <2>2, <2>3, <2>4, <2>5 DEF Next, ClientNext
<1>. QED
  BY <1>1, <1>2, TypeCorrect, PTL DEF Spec

\* Every action leaves the tokens where someone can take them.
LEMMA NothingLostStep ==
  ASSUME TypeOK, OneTurn, Handshake, InOrder, Accounted, QueueOrder,
         NothingLost, TwoPlayers, [Next]_vars
  PROVE  NothingLost'
<1>. USE DEF TypeOK, OneTurn, InTurn, Admitted, ServerStep, Step, sems, action,
         shm, placed, locals, server, client, Handshake, Alive, InGame, TurnIn,
         PlaceLabels, TurnUsed, Registering, Shooting, Evaluating, Reading,
         Concluding, GivenUp, FirstPlacement, Undecided, InOrder, Joining,
         Joined, AllJoined, PlacedFirst, AboutToPlace, PlacingFirst,
         PlacedSecond, PlacingSecond, Mover, Waiter, Current, Target,
         PlayLabels, Winning, Playing, TwoPlayers, ServerLabels, Players,
         StartWaiting, StopWaiting, waiting, Orderly, Queued, Joinable, GameOver,
         Uninterrupted, Accounted, QueueOrder, JoinsCounted, TurnKept,
         TurnPlayed, AnswerFree, LastTurn, NothingLost
<1>1. CASE WaitJoin      BY <1>1 DEF WaitJoin
<1>2. CASE UnlinkJoin    BY <1>2 DEF UnlinkJoin
<1>3. CASE OpenPlacing   BY <1>3 DEF OpenPlacing
<1>4. CASE WaitPlacement BY <1>4 DEF WaitPlacement
<1>5. CASE Place         BY <1>5 DEF Place, PlacePlayer
<1>6. CASE WaitGuess     BY <1>6 DEF WaitGuess
<1>7. CASE Answer        BY <1>7 DEF Answer
<1>8. CASE PostAnswer    BY <1>8 DEF PostAnswer
<1>9. CASE Walkover      BY <1>9 DEF Walkover
<1>10. CASE NoWalkover   BY <1>10 DEF NoWalkover
<1>11. CASE WaitAck      BY <1>11 DEF WaitAck
<1>12. CASE Verdict      BY <1>12 DEF Verdict
<1>13. CASE PassTurn     BY <1>13 DEF PassTurn
<1>14. CASE WakeClients  BY <1>14 DEF WakeClients
<1>15. CASE Interrupt    BY <1>15 DEF Interrupt
<1>16. ASSUME NEW c \in Clients, ClientNext(c)
       PROVE  NothingLost'
  <2>1. CASE Allocate(c)       BY SMTT(60), <2>1 DEF Allocate
  <2>2. CASE Join(c)           BY SMTT(60), <2>2 DEF Join
  <2>3. CASE TakeTurn(c)       BY SMTT(60), <2>3 DEF TakeTurn
  <2>4. CASE PlaceCheck(c)     BY SMTT(60), <2>4 DEF PlaceCheck
  <2>5. CASE WritePlacement(c) BY SMTT(60), <2>5 DEF WritePlacement
  <2>6. CASE PostPlacement(c)  BY SMTT(60), <2>6 DEF PostPlacement
  <2>7. CASE WaitAction(c)     BY SMTT(60), <2>7 DEF WaitAction
  <2>8. CASE TurnCheck(c)      BY SMTT(60), <2>8 DEF TurnCheck
  <2>9. CASE Input(c)          BY SMTT(60), <2>9 DEF Input
  <2>10. CASE WriteGuess(c)    BY SMTT(60), <2>10 DEF WriteGuess
  <2>11. CASE WriteGiveUp(c)   BY SMTT(60), <2>11 DEF WriteGiveUp
  <2>12. CASE PostAction(c)    BY SMTT(60), <2>12 DEF PostAction
  <2>13. CASE AnswerCheck(c)   BY SMTT(60), <2>13 DEF AnswerCheck
  <2>14. CASE ReadAnswer(c)    BY SMTT(60), <2>14 DEF ReadAnswer
  <2>15. CASE EndTurn(c)       BY SMTT(60), <2>15 DEF EndTurn
  <2>16. CASE Leaving(c)       BY SMTT(60), <2>16 DEF Leaving
  <2>. QED
    BY <1>16, <2>1, <2>2, <2>3, <2>4, <2>5, <2>6, <2>7, <2>8, <2>9, <2>10,
       <2>11, <2>12, <2>13, <2>14, <2>15, <2>16 DEF ClientNext
<1>17. ASSUME NEW c \in Clients, Kill(c)
       PROVE  NothingLost'
  BY <1>17 DEF Kill
<1>18. CASE UNCHANGED vars
  BY SMTT(60), <1>18 DEF vars
<1>. QED
  BY <1>1, <1>2, <1>3, <1>4, <1>5, <1>6, <1>7, <1>8, <1>9, <1>10, <1>11, <1>12,
     <1>13, <1>14, <1>15, <1>16, <1>17, <1>18 DEF Next, ServerNext

\* Of two clients one has nobody ahead of it.
LEMMA QueueHead ==
  ASSUME TypeOK, TwoPlayers, QueueOrder
  PROVE  \E c \in Clients : ahead[c] = {}
<1>1. PICK a, b : a # b /\ Clients = {a, b}
  BY DEF TwoPlayers
<1>2. ahead[a] \subseteq {a, b} /\ ahead[b] \subseteq {a, b}
  BY <1>1 DEF TypeOK
<1>3. a \notin ahead[a] /\ b \notin ahead[b] /\ ~(a \in ahead[b] /\ b \in ahead[a])
  BY <1>1 DEF QueueOrder
<1>4. ahead[a] = {} \/ ahead[b] = {}
  BY <1>2, <1>3
<1>. QED
  BY <1>1, <1>4

(***************************************************************************)
(* Whatever the server waits for, someone can bring it: what the phases of *)
(* the handshake and the order of the clients say of the turn, wherever it *)
(* is, leaves one of its holders free to move.                             *)
(***************************************************************************)
LEMMA SomeoneMoves ==
  ASSUME TypeOK, OneTurn, Handshake, InOrder, Accounted, QueueOrder,
         NothingLost, TwoPlayers
  PROVE  NeverStuck
<1>. SUFFICES ASSUME Uninterrupted, Orderly, ServerWaits,
                     \A c \in Clients : ClientWaits(c)
              PROVE  spc = "over" /\ \A c \in Clients : pc[c] \in Ended
  BY DEF NeverStuck
<1>. USE DEF Uninterrupted, NothingLost
<1>0. /\ spc # "over" => Alive
      /\ s1 \in Nat /\ s2 \in Nat /\ s3 \in Nat /\ s4 \in Nat /\ s5 \in Nat
      /\ \E c \in Clients : TRUE
  BY DEF Alive, TypeOK, TwoPlayers
<1>1. \A c \in Clients :
        /\ pc[c] \notin {"start", "join", "turn_check"}
        /\ InTurn(c) => pc[c] \in {"wait_action", "wait_answer"} /\ s4 = 0
        /\ pc[c] \in Queued => s3 = 0 \/ ahead[c] # {}
  BY <1>0 DEF ClientWaits, InTurn, Admitted, Queued, Ended
<1>2. CASE spc \in {"join1", "join2"}
  BY <1>0, <1>1, <1>2 DEF ServerWaits, JoinsCounted, AllJoined, Joined
<1>3. CASE spc = "open"
  BY <1>0, <1>1, <1>3 DEF ServerWaits, Handshake, FirstPlacement, TurnKept
<1>4. CASE spc \in {"reg1", "reg2"}
  <2>1. s2 = 0 /\ \A c \in Clients : InTurn(c) => pc[c] \notin PlaceLabels
    BY <1>0, <1>1, <1>4 DEF ServerWaits, PlaceLabels
  <2>2. CASE spc = "reg1"
    <3>1. \A c \in Clients : pc[c] = "wait_place"
      BY <1>0, <2>1, <2>2 DEF InOrder, PlacingFirst, AboutToPlace, InTurn,
         Admitted, PlaceLabels
    <3>2. s3 > 0
      BY <1>0, <2>1, <2>2, <3>1 DEF TurnKept, InTurn, Admitted
    <3>. QED
      BY <1>0, <1>1, <3>1, <3>2, QueueHead DEF Queued
  <2>3. CASE spc = "reg2"
    <3>1. /\ owner[1] \in Clients /\ pc[owner[1]] = "wait_turn"
          /\ \A c \in Clients \ {owner[1]} :
               pc[c] = "wait_place" /\ c \in ahead[owner[1]]
      BY <1>0, <2>1, <2>3 DEF InOrder, PlacingSecond, AboutToPlace, InTurn,
         Admitted, PlaceLabels
    <3>2. s3 > 0
      BY <1>0, <2>1, <2>3, <3>1 DEF TurnKept, InTurn, Admitted
    <3>3. PICK c \in Clients : ahead[c] = {}
      BY QueueHead
    <3>. QED
      BY <1>0, <1>1, <3>1, <3>2, <3>3 DEF Queued
  <2>. QED
    BY <1>4, <2>2, <2>3
<1>5. CASE spc = "guess"
  <2>1. s5 = 0 /\ s2 = 0 /\ pc[Mover] \notin {"quit_pass", "gaveup"}
    BY <1>0, <1>5 DEF ServerWaits, TurnPlayed
  <2>2. /\ Mover \in Clients /\ Waiter \in Clients
        /\ \A c \in Clients : c \in {Mover, Waiter}
        /\ pc[Waiter] = "wait_turn"
        /\ s3 > 0 => pc[Mover] = "wait_turn" /\ Mover \in ahead[Waiter]
        /\ pc[Mover] \in {"quit_post", "quit_pass", "gaveup"} <=> give_up_flag = 1
    BY <1>0, <1>5 DEF InOrder, Playing, PlayLabels, Mover, Waiter, Current,
       Target, TwoPlayers, TypeOK
  <2>3. CASE s3 > 0
    <3>1. PICK c \in Clients : ahead[c] = {}
      BY QueueHead
    <3>. QED
      BY <1>0, <1>1, <2>2, <2>3, <3>1 DEF Queued
  <2>4. CASE s3 = 0
    <3>1. InTurn(Mover)
      BY <1>0, <1>5, <2>1, <2>2, <2>4 DEF TurnKept, InTurn, Admitted
    <3>2. pc[Mover] \in {"wait_action", "wait_answer"} /\ s4 = 0
      BY <1>1, <2>2, <3>1
    <3>3. give_up_flag = 0
      BY <2>2, <3>2 DEF TypeOK
    <3>. QED
      BY <1>0, <1>5, <2>1, <2>2, <3>1, <3>2, <3>3
         DEF Handshake, Shooting, TurnIn, PlaceLabels
  <2>. QED
    BY <1>0, <2>3, <2>4
<1>6. CASE spc = "ack"
  <2>1. s5 = 0 /\ give_up_flag = 0
    BY <1>0, <1>6 DEF ServerWaits, Handshake, GivenUp, TypeOK
  <2>2. /\ s2 + s3 = 0
        /\ \/ TurnIn({"wait_answer"}) /\ s4 = 1
           \/ TurnIn({"answer_check", "answer_cs", "turn_post", "won_post"})
    BY <1>0, <1>6, <2>1 DEF Handshake, Reading, TurnUsed
  <2>3. PICK c \in Clients : InTurn(c)
    BY <1>0, <1>6, <2>2 DEF TurnKept
  <2>. QED
    BY <1>1, <2>2, <2>3 DEF TurnIn
<1>7. CASE spc = "next"
  <2>1. s2 = 0 /\ s3 = 0
    <3>1. Waiter \in Clients /\ pc[Waiter] = "wait_turn"
      BY <1>0, <1>7 DEF InOrder, Playing, PlayLabels, Waiter, Current, TypeOK
    <3>. QED
      BY <1>0, <1>7, <3>1 DEF ServerWaits, Handshake, Concluding, GivenUp
  <2>2. PICK c \in Clients : InTurn(c)
    BY <1>0, <1>7, <2>1 DEF TurnKept
  <2>3. TurnIn(PlaceLabels \cup {"turn_pass", "won_pass", "quit_post", "quit_pass"})
    BY <1>0, <1>7 DEF Handshake, Concluding, GivenUp, TurnIn
  <2>. QED
    BY <1>1, <2>2, <2>3 DEF TurnIn, PlaceLabels
<1>8. CASE spc = "over"
  <2>1. /\ Mover \in Clients /\ Waiter \in Clients
        /\ \A c \in Clients : c \in {Mover, Waiter}
        /\ pc[Mover] \in {"won", "gaveup"}
    BY <1>0, <1>8 DEF Accounted, GameOver, Mover, Waiter, Current, Target,
       TwoPlayers, TypeOK
  <2>2. pc[Waiter] \in {"lost", "walkover"}
    BY <1>0, <1>1, <1>8, <2>1 DEF LastTurn, ClientWaits, Queued, Ended
  <2>. QED
    BY <1>8, <2>1, <2>2 DEF Ended
<1>. QED
  BY <1>2, <1>3, <1>4, <1>5, <1>6, <1>7, <1>8 DEF ServerWaits

(***************************************************************************)
(* Until a client overtakes the other one or a signal ends the server, two *)
(* players never come to a state in which the server and both clients are  *)
(* blocked in sem_wait for ever, wherever they place, shoot and give up:   *)
(* the one who waits longer can always be served.  The deadlock that the   *)
(* program can come to otherwise takes a client that was overtaken.        *)
(***************************************************************************)
THEOREM NoDeadlock ==
  ASSUME TwoPlayers
  PROVE  Spec => []NeverStuck
<1>1. Init => NothingLost
  BY DEF Init, NothingLost, JoinsCounted, AllJoined, Joined, TurnPlayed,
         AnswerFree, LastTurn, TurnKept, TwoPlayers
<1>2. /\ TypeOK /\ OneTurn /\ Handshake /\ InOrder /\ Accounted /\ QueueOrder
      /\ NothingLost /\ [Next]_vars
      => NothingLost'
  BY TwoPlayers, NothingLostStep
<1>3. /\ TypeOK /\ OneTurn /\ Handshake /\ InOrder /\ Accounted /\ QueueOrder
      /\ NothingLost
      => NeverStuck
  BY TwoPlayers, SomeoneMoves
<1>. QED
  BY <1>1, <1>2, <1>3, QueueOrderAlways, TypeCorrect, OneTurnAlways,
     HandshakeAlways, OrderAlways, AccountedAlways, PTL DEF Spec

=============================================================================
