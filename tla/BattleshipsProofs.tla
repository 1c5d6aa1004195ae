-------------------------- MODULE BattleshipsProofs --------------------------
(***************************************************************************)
(* Proofs about Battleships, for any set of clients, either way of waking  *)
(* them, and with or without signals and killed clients; and about the     *)
(* ships that can be placed on a board.                                    *)
(***************************************************************************)
EXTENDS BattleshipsInvariant, BattleshipsRule, FiniteSetTheorems, TLAPS

\* Three different things are three.
LEMMA Three ==
  ASSUME NEW a, NEW b, NEW e, a # b, b # e, a # e
  PROVE  IsFiniteSet({a, b, e}) /\ Cardinality({a, b, e}) = 3
<1>1. IsFiniteSet({a}) /\ Cardinality({a}) = 1
  BY FS_Singleton
<1>2. IsFiniteSet({a, b}) /\ Cardinality({a, b}) = 2
  <2>1. {a, b} = {a} \cup {b} /\ b \notin {a}
    OBVIOUS
  <2>. QED
    BY <1>1, <2>1, FS_AddElement
<1>3. {a, b, e} = {a, b} \cup {e} /\ e \notin {a, b}
  OBVIOUS
<1>. QED
  BY <1>2, <1>3, FS_AddElement

Steps == {<<1, 0>>, <<0, 1>>, <<1, -1>>, <<1, 1>>}

\* A placement asks for its centre and the cells on two sides of it.
LEMMA ShipEnds ==
  ASSUME NEW p \in Placement, p.positioning \in Positioning
  PROVE  LET d == Direction(p.positioning)
             a == <<p.x - d[1], p.y - d[2]>>
             b == <<p.x, p.y>>
             e == <<p.x + d[1], p.y + d[2]>>
         IN  /\ d \in Steps
             /\ ShipCells(p) = {a, b, e}
             /\ a # b /\ b # e /\ a # e
<1>. DEFINE d == Direction(p.positioning)
            a == <<p.x - d[1], p.y - d[2]>>
            b == <<p.x, p.y>>
            e == <<p.x + d[1], p.y + d[2]>>
<1>1. d \in Steps
  BY DEF Direction, Positioning, Steps, HORIZONTAL, VERTICAL, DIAGONAL1, DIAGONAL2
<1>2. ShipCells(p) = {a, b, e}
  BY <1>1 DEF ShipCells, Placement, Steps
<1>3. a # b /\ b # e /\ a # e
  BY <1>1 DEF Placement, Steps
<1>. QED
  BY <1>1, <1>2, <1>3

\* A placement marks three cells of the board or nothing.
LEMMA MarksThree ==
  ASSUME NEW p \in Placement
  PROVE  PlaceShip({}, p) \in Trios \cup {{}}
<1>1. CASE PlaceShip({}, p) = {}
  BY <1>1
<1>2. CASE PlaceShip({}, p) # {}
  <2>1. /\ PlaceShip({}, p) = ShipCells(p) /\ ShipCells(p) \subseteq Cells
        /\ p.positioning \in Positioning
    BY <1>2 DEF PlaceShip
  <2>2. Cardinality(ShipCells(p)) = 3
    <3>1. PICK a, b, e : ShipCells(p) = {a, b, e} /\ a # b /\ b # e /\ a # e
      BY <2>1, ShipEnds
    <3>2. Cardinality({a, b, e}) = 3
      BY <3>1, Three
    <3>. QED
      BY <3>1, <3>2
  <2>. QED
    BY <2>1, <2>2 DEF Trios
<1>. QED
  BY <1>1, <1>2

\* Two placements that ask for the same cells are the same.
LEMMA OneWay ==
  ASSUME NEW p \in Placement, NEW q \in Placement,
         p.positioning \in Positioning, q.positioning \in Positioning,
         ShipCells(p) = ShipCells(q)
  PROVE  p = q
<1>. DEFINE d == Direction(p.positioning)
            g == Direction(q.positioning)
<1>1. d \in Steps /\ g \in Steps
  BY ShipEnds
<1>2. p.x \in Int /\ p.y \in Int /\ q.x \in Int /\ q.y \in Int
  BY DEF Placement
<1>3. \A k \in {-1, 0, 1} : \E j \in {-1, 0, 1} :
        p.x + k * d[1] = q.x + j * g[1] /\ p.y + k * d[2] = q.y + j * g[2]
  <2>. TAKE k \in {-1, 0, 1}
  <2>1. <<p.x + k * d[1], p.y + k * d[2]>> \in ShipCells(q)
    BY DEF ShipCells
  <2>. QED
    BY <2>1 DEF ShipCells
<1>4. p.x = q.x /\ p.y = q.y /\ d = g
  <2>. HIDE DEF d, g
  <2>. QED
    BY SMTT(60), <1>1, <1>2, <1>3 DEF Steps
<1>5. p.positioning = q.positioning
  BY <1>4 DEF Direction, Positioning, HORIZONTAL, VERTICAL, DIAGONAL1, DIAGONAL2
<1>. QED
  BY <1>4, <1>5 DEF Placement

\* What a placement marks is a line.
LEMMA MarksLine ==
  ASSUME NEW p \in Placement, PlaceShip({}, p) # {}
  PROVE  InLine(PlaceShip({}, p))
<1>. DEFINE d == Direction(p.positioning)
            a == <<p.x - d[1], p.y - d[2]>>
            b == <<p.x, p.y>>
            e == <<p.x + d[1], p.y + d[2]>>
<1>1. PlaceShip({}, p) = ShipCells(p) /\ p.positioning \in Positioning
  BY DEF PlaceShip
<1>2. d \in Steps /\ ShipCells(p) = {a, b, e} /\ a # e
  BY <1>1, ShipEnds
<1>3. /\ a[1] + e[1] = 2 * b[1] /\ a[2] + e[2] = 2 * b[2]
      /\ {a[1] - b[1], a[2] - b[2]} \subseteq {-1, 0, 1}
  BY <1>2 DEF Placement, Steps
<1>. HIDE DEF a, b, e
<1>. QED
  BY <1>1, <1>2, <1>3 DEF InLine

\* Three cells in line are what some placement marks.
LEMMA LineIsMarked ==
  ASSUME NEW t \in Trios, InLine(t)
  PROVE  \E p \in Asked : PlaceShip({}, p) = t
<1>1. PICK a, b, c \in t :
        /\ a # c
        /\ a[1] + c[1] = 2 * b[1] /\ a[2] + c[2] = 2 * b[2]
        /\ {a[1] - b[1], a[2] - b[2]} \subseteq {-1, 0, 1}
  BY DEF InLine
<1>2. PICK a1, a2, b1, b2, c1, c2 \in 0 .. 3 :
        a = <<a1, a2>> /\ b = <<b1, b2>> /\ c = <<c1, c2>>
  <2>1. a \in Cells /\ b \in Cells /\ c \in Cells
    BY DEF Trios
  <2>. QED
    BY <2>1 DEF Cells, Coord, Dimension
<1>3. /\ a1 # c1 \/ a2 # c2
      /\ a1 + c1 = 2 * b1 /\ a2 + c2 = 2 * b2
      /\ a1 - b1 \in {-1, 0, 1} /\ a2 - b2 \in {-1, 0, 1}
  BY <1>1, <1>2
<1>4. t = {a, b, c}
  <2>1. /\ a1 # b1 \/ a2 # b2
        /\ b1 # c1 \/ b2 # c2
    BY ONLY <1>3, a1 \in 0 .. 3, a2 \in 0 .. 3, b1 \in 0 .. 3, b2 \in 0 .. 3,
       c1 \in 0 .. 3, c2 \in 0 .. 3
  <2>2. Cardinality({a, b, c}) = 3
    <3>1. a # b /\ b # c /\ a # c
      BY <1>2, <1>3, <2>1
    <3>. QED
      BY <3>1, Three
  <2>3. IsFiniteSet(t)
    <3>1. Dimension - 1 \in Int
      BY DEF Dimension
    <3>2. IsFiniteSet(Coord)
      BY <3>1, FS_Interval DEF Coord
    <3>3. IsFiniteSet(Cells)
      BY <3>2, FS_Product DEF Cells
    <3>. QED
      BY <3>3, FS_Subset DEF Trios
  <2>4. Cardinality(t) = 3 /\ {a, b, c} \in SUBSET t
    BY DEF Trios
  <2>. QED
    BY <2>2, <2>3, <2>4, FS_Subset
<1>5. \E pos \in Positioning :
        LET d == Direction(pos)
        IN  \/ /\ a1 = b1 - d[1] /\ a2 = b2 - d[2]
               /\ c1 = b1 + d[1] /\ c2 = b2 + d[2]
            \/ /\ a1 = b1 + d[1] /\ a2 = b2 + d[2]
               /\ c1 = b1 - d[1] /\ c2 = b2 - d[2]
  <2>1. /\ Direction(HORIZONTAL) = <<1, 0>> /\ Direction(VERTICAL) = <<0, 1>>
        /\ Direction(DIAGONAL1) = <<1, -1>> /\ Direction(DIAGONAL2) = <<1, 1>>
    BY DEF Direction, HORIZONTAL, VERTICAL, DIAGONAL1, DIAGONAL2
  <2>2. \E d \in Steps :
          \/ /\ a1 = b1 - d[1] /\ a2 = b2 - d[2]
             /\ c1 = b1 + d[1] /\ c2 = b2 + d[2]
          \/ /\ a1 = b1 + d[1] /\ a2 = b2 + d[2]
             /\ c1 = b1 - d[1] /\ c2 = b2 - d[2]
    BY <1>3 DEF Steps
  <2>. QED
    BY <2>1, <2>2 DEF Positioning, Steps
<1>6. PICK pos \in Positioning :
        LET d == Direction(pos)
        IN  \/ /\ a1 = b1 - d[1] /\ a2 = b2 - d[2]
               /\ c1 = b1 + d[1] /\ c2 = b2 + d[2]
            \/ /\ a1 = b1 + d[1] /\ a2 = b2 + d[2]
               /\ c1 = b1 - d[1] /\ c2 = b2 - d[2]
  BY <1>5
<1>. DEFINE p == [x |-> b1, y |-> b2, positioning |-> pos]
            d == Direction(pos)
<1>7. p \in Placement /\ p \in Asked /\ p.positioning = pos
  BY DEF Placement, Asked, Positioning, HORIZONTAL, VERTICAL, DIAGONAL1,
     DIAGONAL2, Dimension
<1>8. ShipCells(p) = {<<b1 - d[1], b2 - d[2]>>, b, <<b1 + d[1], b2 + d[2]>>}
  BY <1>2, <1>7, ShipEnds
<1>9. ShipCells(p) = t
  BY <1>2, <1>4, <1>6, <1>8
<1>10. PlaceShip({}, p) = t
  BY <1>7, <1>9 DEF PlaceShip, Trios
<1>. QED
  BY <1>7, <1>10

\* A placement beyond the numbers that Asked gives marks nothing.
LEMMA AskedSuffices ==
  ASSUME NEW p \in Placement, PlaceShip({}, p) # {}
  PROVE  p \in Asked
<1>1. p.positioning \in Positioning /\ ShipCells(p) \subseteq Cells
  BY DEF PlaceShip
<1>2. <<p.x, p.y>> \in Cells
  BY <1>1, ShipEnds
<1>. QED
  BY <1>1, <1>2 DEF Placement, Asked, Cells, Coord, Dimension, Positioning,
     HORIZONTAL, VERTICAL, DIAGONAL1, DIAGONAL2

(***************************************************************************)
(* place_ship_on_board makes a ship of three cells in line, and for each   *)
(* of them there is one placement only, among all that a client can send.  *)
(***************************************************************************)
THEOREM RuleOfTheBoard ==
  /\ sample.trio \in Trios => ShipsAreLines
  /\ \A p \in Placement : PlaceShip({}, p) # {} => p \in Asked
<1>1. ASSUME sample.trio \in Trios PROVE ShipsAreLines
  <2>. DEFINE t == sample.trio
              ways == {p \in Asked : PlaceShip({}, p) = t}
  <2>0. Asked \subseteq Placement
    BY DEF Asked, Placement, Dimension
  <2>1. t # {} /\ t \in Trios
    BY <1>1, FS_EmptySet DEF Trios
  <2>2. ASSUME InLine(t) PROVE Cardinality(ways) = 1
    <3>1. PICK p \in Asked : PlaceShip({}, p) = t
      BY <2>1, <2>2, LineIsMarked
    <3>2. ASSUME NEW q \in Asked, PlaceShip({}, q) = t PROVE q = p
      <4>1. \A r \in {p, q} : /\ r \in Placement /\ r.positioning \in Positioning
                              /\ ShipCells(r) = t
        BY <2>0, <2>1, <3>1, <3>2 DEF PlaceShip
      <4>. QED
        BY <4>1, OneWay
    <3>3. ways = {p}
      BY <3>1, <3>2
    <3>. QED
      BY <3>3, FS_Singleton
  <2>3. ASSUME ~InLine(t) PROVE Cardinality(ways) = 0
    <3>1. ways = {}
      BY <2>0, <2>1, <2>3, MarksLine
    <3>. QED
      BY <3>1, FS_EmptySet
  <2>4. \A p \in Asked : PlaceShip({}, p) \in Trios \cup {{}}
    BY <2>0, MarksThree
  <2>5. \A p \in Asked : PlaceShip(t, p) = t \cup PlaceShip({}, p)
    BY DEF PlaceShip
  <2>. QED
    BY <2>2, <2>3, <2>4, <2>5 DEF ShipsAreLines
<1>. QED
  BY <1>1, AskedSuffices

-----------------------------------------------------------------------------
\* Placing a ship keeps a board within the 4 x 4 cells, whatever was typed.
LEMMA PlaceShipType ==
  ASSUME NEW b \in SUBSET Cells, NEW p
  PROVE  PlaceShip(b, p) \in SUBSET Cells
BY DEF PlaceShip

\* Every variable keeps its type.
THEOREM TypeCorrect == Spec => []TypeOK
<1>. USE DEF Players, Responses, ServerLabels, ClientLabels, Ended, Queued
<1>1. Init => TypeOK
  <2> SUFFICES ASSUME Init PROVE TypeOK
    OBVIOUS
  <2>1. guess \in Cells
    BY DEF Init, Cells, Coord, Dimension
  <2>2. registration \in Placement
    BY DEF Init, Placement, HORIZONTAL
  <2>3. /\ board \in [Players -> SUBSET Cells]
        /\ ship \in [Players -> SUBSET Cells]
        /\ owner \in [Players -> Clients \cup {None}]
        /\ hits \in [Players -> Nat]
    BY DEF Init
  <2>4. /\ pc \in [Clients -> ClientLabels]
        /\ found \in [Clients -> SUBSET Cells]
        /\ ahead \in [Clients -> SUBSET Clients]
        /\ overtaken \subseteq Clients
    BY DEF Init
  <2>. QED
    BY <2>1, <2>2, <2>3, <2>4 DEF Init, TypeOK
<1>2. TypeOK /\ [Next]_vars => TypeOK'
  <2> SUFFICES ASSUME TypeOK, [Next]_vars PROVE TypeOK'
    OBVIOUS
  <2>. USE DEF TypeOK, ServerStep, Step, StartWaiting, StopWaiting,
           waiting, shm, action, placed, locals, server, client, sems
  <2>1. CASE WaitJoin      BY <2>1 DEF WaitJoin
  <2>2. CASE UnlinkJoin    BY <2>2 DEF UnlinkJoin
  <2>3. CASE OpenPlacing   BY <2>3 DEF OpenPlacing
  <2>4. CASE WaitPlacement BY <2>4 DEF WaitPlacement
  <2>5. CASE Place         BY <2>5, PlaceShipType DEF Place, PlacePlayer
  <2>6. CASE WaitGuess     BY <2>6 DEF WaitGuess
  <2>7. CASE Answer        BY <2>7 DEF Answer, Current, Target, ShipLength
  <2>8. CASE PostAnswer    BY <2>8 DEF PostAnswer
  <2>9. CASE Walkover      BY <2>9 DEF Walkover
  <2>10. CASE NoWalkover   BY <2>10 DEF NoWalkover
  <2>11. CASE WaitAck      BY <2>11 DEF WaitAck
  <2>12. CASE Verdict      BY <2>12 DEF Verdict, ShipLength
  <2>13. CASE PassTurn     BY <2>13 DEF PassTurn
  <2>14. CASE WakeClients  BY <2>14 DEF WakeClients
  <2>15. CASE Interrupt    BY <2>15 DEF Interrupt
  <2>16. ASSUME NEW c \in Clients, ClientNext(c) PROVE TypeOK'
    <3>1. CASE Allocate(c)       BY <3>1 DEF Allocate
    <3>2. CASE Join(c)           BY <3>2 DEF Join
    <3>3. CASE TakeTurn(c)       BY <3>3 DEF TakeTurn
    <3>4. CASE PlaceCheck(c)     BY <3>4 DEF PlaceCheck
    <3>5. CASE WritePlacement(c) BY <3>5, ConstantsAssumption DEF WritePlacement
    <3>6. CASE PostPlacement(c)  BY <3>6 DEF PostPlacement
    <3>7. CASE WaitAction(c)     BY <3>7 DEF WaitAction
    <3>8. CASE TurnCheck(c)      BY <3>8 DEF TurnCheck
    <3>9. CASE Input(c)          BY <3>9 DEF Input
    <3>10. CASE WriteGuess(c)    BY <3>10, ConstantsAssumption DEF WriteGuess
    <3>11. CASE WriteGiveUp(c)   BY <3>11 DEF WriteGiveUp
    <3>12. CASE PostAction(c)    BY <3>12 DEF PostAction
    <3>13. CASE AnswerCheck(c)   BY <3>13 DEF AnswerCheck
    <3>14. CASE ReadAnswer(c)    BY <3>14 DEF ReadAnswer
    <3>15. CASE EndTurn(c)       BY <3>15 DEF EndTurn
    <3>16. CASE Leaving(c)       BY <3>16 DEF Leaving
    <3>. QED
      BY <2>16, <3>1, <3>2, <3>3, <3>4, <3>5, <3>6, <3>7, <3>8, <3>9, <3>10,
         <3>11, <3>12, <3>13, <3>14, <3>15, <3>16 DEF ClientNext
  <2>17. ASSUME NEW c \in Clients, Kill(c) PROVE TypeOK'
    BY <2>17 DEF Kill
  <2>18. CASE UNCHANGED vars
    BY <2>18 DEF vars
  <2>. QED
    BY <2>1, <2>2, <2>3, <2>4, <2>5, <2>6, <2>7, <2>8, <2>9, <2>10, <2>11,
       <2>12, <2>13, <2>14, <2>15, <2>16, <2>17, <2>18 DEF Next, ServerNext
<1>. QED
  BY <1>1, <1>2, PTL DEF Spec

(***************************************************************************)
(* There is one turn.  Each action either leaves the turn where it is or   *)
(* moves it between the server, s2, s3 and one client; the announcement    *)
(* of the server's end closes the door behind the client that has it.      *)
(***************************************************************************)
LEMMA OneTurnStep ==
  ASSUME TypeOK, OneTurn, [Next]_vars
  PROVE  OneTurn'
<1>. USE DEF TypeOK, OneTurn, InTurn, Admitted, ServerStep, Step, sems, action,
         shm, placed, locals, server, client
<1>1. CASE WaitJoin      BY <1>1 DEF WaitJoin
<1>2. CASE UnlinkJoin    BY <1>2 DEF UnlinkJoin
<1>3. CASE OpenPlacing   BY <1>3 DEF OpenPlacing
<1>4. CASE WaitPlacement BY <1>4 DEF WaitPlacement
<1>5. CASE Place         BY <1>5 DEF Place, PlacePlayer
<1>6. CASE WaitGuess     BY <1>6 DEF WaitGuess
<1>7. CASE Answer        BY <1>7 DEF Answer
<1>8. CASE PostAnswer    BY <1>8 DEF PostAnswer
<1>9. CASE Walkover      BY <1>9 DEF Walkover
<1>10. CASE NoWalkover   BY <1>10 DEF NoWalkover
<1>11. CASE WaitAck      BY <1>11 DEF WaitAck
<1>12. CASE Verdict      BY <1>12 DEF Verdict
<1>13. CASE PassTurn     BY <1>13 DEF PassTurn
<1>14. CASE WakeClients  BY <1>14 DEF WakeClients
<1>15. CASE Interrupt    BY <1>15 DEF Interrupt
<1>16. ASSUME NEW c \in Clients, ClientNext(c) PROVE OneTurn'
  <2>1. CASE Allocate(c)       BY <2>1 DEF Allocate
  <2>2. CASE Join(c)           BY <2>2 DEF Join
  <2>3. CASE TakeTurn(c)       BY <2>3 DEF TakeTurn
  <2>4. CASE PlaceCheck(c)     BY <2>4 DEF PlaceCheck
  <2>5. CASE WritePlacement(c) BY <2>5 DEF WritePlacement
  <2>6. CASE PostPlacement(c)  BY <2>6 DEF PostPlacement
  <2>7. CASE WaitAction(c)     BY <2>7 DEF WaitAction
  <2>8. CASE TurnCheck(c)      BY <2>8 DEF TurnCheck
  <2>9. CASE Input(c)          BY <2>9 DEF Input
  <2>10. CASE WriteGuess(c)    BY <2>10 DEF WriteGuess
  <2>11. CASE WriteGiveUp(c)   BY <2>11 DEF WriteGiveUp
  <2>12. CASE PostAction(c)    BY <2>12 DEF PostAction
  <2>13. CASE AnswerCheck(c)   BY <2>13 DEF AnswerCheck
  <2>14. CASE ReadAnswer(c)    BY <2>14 DEF ReadAnswer
  <2>15. CASE EndTurn(c)       BY <2>15 DEF EndTurn
  <2>16. CASE Leaving(c)       BY <2>16 DEF Leaving
  <2>. QED
    BY <1>16, <2>1, <2>2, <2>3, <2>4, <2>5, <2>6, <2>7, <2>8, <2>9, <2>10,
       <2>11, <2>12, <2>13, <2>14, <2>15, <2>16 DEF ClientNext
<1>17. ASSUME NEW c \in Clients, Kill(c) PROVE OneTurn'
  BY <1>17 DEF Kill
<1>18. CASE UNCHANGED vars
  BY <1>18 DEF vars
<1>. QED
  BY <1>1, <1>2, <1>3, <1>4, <1>5, <1>6, <1>7, <1>8, <1>9, <1>10, <1>11,
     <1>12, <1>13, <1>14, <1>15, <1>16, <1>17, <1>18 DEF Next, ServerNext

\* At most one turn exists, whoever the semaphores wake and kill.
THEOREM OneTurnAlways == Spec => []OneTurn
<1>1. Init => OneTurn
  BY DEF Init, OneTurn, InTurn, Admitted
<1>2. TypeOK /\ OneTurn /\ [Next]_vars => OneTurn'
  BY OneTurnStep
<1>. QED
  BY <1>1, <1>2, TypeCorrect, PTL DEF Spec

(***************************************************************************)
(* No two clients are ever in the regions marked CRITICAL SECTION, and the *)
(* server never reads a placement while it is being written.               *)
(***************************************************************************)
THEOREM Exclusion == Spec => []CriticalSections
<1>1. TypeOK /\ OneTurn => CriticalSections
  BY DEF TypeOK, OneTurn, InTurn, Admitted, CriticalSections, Critical
<1>. QED
  BY <1>1, TypeCorrect, OneTurnAlways, PTL

(***************************************************************************)
(* Every action moves the token of game_action_data to the next phase, and *)
(* a client that is killed takes the turn with it.                         *)
(***************************************************************************)
LEMMA HandshakeStep ==
  ASSUME TypeOK, OneTurn, Handshake, [Next]_vars
  PROVE  Handshake'
<1>. USE DEF TypeOK, OneTurn, InTurn, Admitted, ServerStep, Step, sems, action,
         shm, placed, locals, server, client, Handshake, Alive, InGame, TurnIn,
         PlaceLabels, TurnUsed, Registering, Shooting, Evaluating, Reading,
         Concluding, GivenUp, FirstPlacement, Undecided
<1>1. CASE WaitJoin          BY <1>1 DEF WaitJoin
<1>2. CASE UnlinkJoin        BY <1>2 DEF UnlinkJoin
<1>3. CASE OpenPlacing       BY <1>3 DEF OpenPlacing
<1>4. CASE WaitPlacement     BY <1>4 DEF WaitPlacement
<1>5. CASE Place             BY <1>5 DEF Place, PlacePlayer
<1>6. CASE WaitGuess         BY <1>6 DEF WaitGuess
<1>7. CASE Answer            BY <1>7 DEF Answer, Current, Target
<1>8. CASE PostAnswer        BY <1>8 DEF PostAnswer
<1>9. CASE Walkover          BY <1>9 DEF Walkover
<1>10. CASE NoWalkover       BY <1>10 DEF NoWalkover
<1>11. CASE WaitAck          BY <1>11 DEF WaitAck
<1>12. CASE Verdict          BY <1>12 DEF Verdict
<1>13. CASE PassTurn         BY <1>13 DEF PassTurn
<1>14. CASE WakeClients      BY <1>14 DEF WakeClients
<1>15. CASE Interrupt        BY <1>15 DEF Interrupt
<1>16. ASSUME NEW c \in Clients, ClientNext(c) PROVE Handshake'
  <2>1. CASE Allocate(c)       BY <2>1 DEF Allocate
  <2>2. CASE Join(c)           BY <2>2 DEF Join
  <2>3. CASE TakeTurn(c)       BY <2>3 DEF TakeTurn
  <2>4. CASE PlaceCheck(c)     BY <2>4 DEF PlaceCheck
  <2>5. CASE WritePlacement(c) BY <2>5 DEF WritePlacement
  <2>6. CASE PostPlacement(c)  BY <2>6 DEF PostPlacement
  <2>7. CASE WaitAction(c)     BY <2>7 DEF WaitAction
  <2>8. CASE TurnCheck(c)      BY <2>8 DEF TurnCheck
  <2>9. CASE Input(c)          BY <2>9 DEF Input
  <2>10. CASE WriteGuess(c)    BY <2>10 DEF WriteGuess
  <2>11. CASE WriteGiveUp(c)   BY <2>11 DEF WriteGiveUp, ServerLabels
  <2>12. CASE PostAction(c)    BY <2>12 DEF PostAction
  <2>13. CASE AnswerCheck(c)   BY <2>13 DEF AnswerCheck
  <2>14. CASE ReadAnswer(c)    BY <2>14 DEF ReadAnswer
  <2>15. CASE EndTurn(c)       BY <2>15 DEF EndTurn
  <2>16. CASE Leaving(c)       BY <2>16 DEF Leaving
  <2>. QED
    BY <1>16, <2>1, <2>2, <2>3, <2>4, <2>5, <2>6, <2>7, <2>8, <2>9, <2>10,
       <2>11, <2>12, <2>13, <2>14, <2>15, <2>16 DEF ClientNext
<1>17. ASSUME NEW c \in Clients, Kill(c) PROVE Handshake' BY <1>17 DEF Kill
<1>18. CASE UNCHANGED vars BY <1>18 DEF vars
<1>. QED
  BY <1>1, <1>2, <1>3, <1>4, <1>5, <1>6, <1>7, <1>8, <1>9, <1>10, <1>11,
     <1>12, <1>13, <1>14, <1>15, <1>16, <1>17, <1>18 DEF Next, ServerNext

\* The handshake through s4 and s5 is in step with the server.
THEOREM HandshakeAlways == Spec => []Handshake
<1>1. Init => Handshake
  BY DEF Init, Handshake, Alive, InGame, InTurn, Admitted, TurnIn, Registering,
         Shooting, Evaluating, Reading, Concluding, GivenUp, FirstPlacement,
         Undecided
<1>2. TypeOK /\ OneTurn /\ Handshake /\ [Next]_vars => Handshake'
  BY HandshakeStep
<1>. QED
  BY <1>1, <1>2, TypeCorrect, OneTurnAlways, PTL DEF Spec

(***************************************************************************)
(* The server never evaluates a guess or overwrites the response while a   *)
(* client is using game_action_data.                                       *)
(***************************************************************************)
THEOREM ServerExclusion == Spec => []ActionExclusive
<1>1. TypeOK /\ OneTurn /\ Handshake => ActionExclusive
  <2> SUFFICES ASSUME TypeOK, OneTurn, Handshake, ServerUsesAction,
                      NEW c \in Clients, UsesAction(c)
               PROVE  FALSE
    BY DEF ActionExclusive
  <2>1. Alive
    BY DEF Alive, ServerUsesAction, OneTurn, TypeOK
  <2>2. InTurn(c)
    BY DEF UsesAction, InTurn, Admitted
  <2>. QED
    BY <2>1, <2>2 DEF TypeOK, Handshake, ServerUsesAction, UsesAction, TurnIn,
       PlaceLabels, Evaluating, Reading, Concluding, GivenUp
<1>. QED
  BY <1>1, TypeCorrect, OneTurnAlways, HandshakeAlways, PTL

-----------------------------------------------------------------------------
\* A client that has read that it won, and one that has left as the winner.
Crowned(c) == pc[c] \in {"won_post", "won_pass", "won"}

\* The response that goes with the end of the game.
Announced ==
  /\ response = "WON" => playing = 0
  /\ Alive /\ playing = 0 /\ spc # "next" =>
       \/ spc \in {"answer_post", "answered", "ack", "verdict"}
            /\ \E i \in Players : hits[i] = ShipLength
       \/ spc = "verdict" /\ response = "WALKOVER"
  /\ Alive /\ spc = "next" /\ playing = 0 => response \in {"LOST", "WALKOVER"}
  /\ Alive /\ response = "WALKOVER" => give_up_flag = 1

\* While the server plays, nobody has won by default, and whoever has read
\* that it won is waited for or has handed back the turn.
WonInPlay ==
  Alive => \A c \in Clients :
    /\ pc[c] # "walkover"
    /\ Crowned(c) => /\ spc \in {"answered", "ack", "verdict", "next"}
                     /\ playing = 0 /\ give_up_flag = 0

\* No winner has been told after the announcement.
NoneTold ==
  server_terminated_flag = 1 =>
    \A c \in Clients : pc[c] # "answer_cs" /\ ~Crowned(c) /\ pc[c] # "walkover"

\* After a server that died without it nobody gets a turn.
NoTurnAfterDeath ==
  spc = "dead" /\ server_terminated_flag = 0 =>
    /\ \A c \in Clients : pc[c] \notin {"walkover", "wait_action", "turn_check"}
    /\ s3 > 0 => \A c \in Clients : pc[c] # "wait_turn"

\* When the server has left play(), one client is told how it ended.
OneTold ==
  spc = "over" =>
    /\ response \in {"LOST", "WALKOVER"}
    /\ TurnIn(PlaceLabels \cup {"wait_action", "turn_check"})
    /\ \A c \in Clients :
         IF response = "LOST" THEN pc[c] # "walkover" ELSE pc[c] # "won"

\* The winner has handed the turn back, or has kept it.
TurnHandedBack ==
  \A c \in Clients :
    (pc[c] = "won" /\ spc # "over") \/ pc[c] = "walkover" =>
       s3 = 0 /\ \A d \in Clients : ~InTurn(d)

Coronation ==
  /\ Announced /\ WonInPlay /\ NoneTold /\ NoTurnAfterDeath /\ OneTold
  /\ TurnHandedBack /\ OneWinner

(***************************************************************************)
(* A game has one winner because the turn of the winner is the last one    *)
(* or goes to the one that is told the opposite.                           *)
(***************************************************************************)
LEMMA CoronationStep ==
  ASSUME TypeOK, OneTurn, Handshake, Coronation, [Next]_vars
  PROVE  Coronation'
<1>. USE DEF TypeOK, OneTurn, InTurn, Admitted, ServerStep, Step, sems, action,
         shm, placed, locals, server, client, Handshake, Alive, InGame, TurnIn,
         PlaceLabels, TurnUsed, Registering, Shooting, Evaluating, Reading,
         Concluding, GivenUp, FirstPlacement, Undecided, Coronation, Announced,
         WonInPlay, NoneTold, NoTurnAfterDeath, OneTold, TurnHandedBack,
         OneWinner, Crowned, ServerLabels
<1>1. CASE WaitJoin BY <1>1 DEF WaitJoin
<1>2. CASE UnlinkJoin BY <1>2 DEF UnlinkJoin
<1>3. CASE OpenPlacing BY <1>3 DEF OpenPlacing
<1>4. CASE WaitPlacement BY <1>4 DEF WaitPlacement
<1>5. CASE Place BY <1>5 DEF Place, PlacePlayer
<1>6. CASE WaitGuess BY <1>6 DEF WaitGuess
<1>7. CASE Answer BY <1>7 DEF Answer, Current, Target
<1>8. CASE PostAnswer BY <1>8 DEF PostAnswer
<1>9. CASE Walkover BY <1>9 DEF Walkover
<1>10. CASE NoWalkover BY <1>10 DEF NoWalkover
<1>11. CASE WaitAck BY <1>11 DEF WaitAck
<1>12. CASE Verdict BY <1>12 DEF Verdict
<1>13. CASE PassTurn BY <1>13 DEF PassTurn
<1>14. CASE WakeClients BY <1>14 DEF WakeClients
<1>15. CASE Interrupt BY <1>15 DEF Interrupt
<1>16. ASSUME NEW c \in Clients, ClientNext(c) PROVE Coronation'
  <2>1. CASE Allocate(c) BY <2>1 DEF Allocate
  <2>2. CASE Join(c) BY <2>2 DEF Join
  <2>3. CASE TakeTurn(c) BY <2>3 DEF TakeTurn
  <2>4. CASE PlaceCheck(c) BY <2>4 DEF PlaceCheck
  <2>5. CASE WritePlacement(c) BY <2>5 DEF WritePlacement
  <2>6. CASE PostPlacement(c) BY <2>6 DEF PostPlacement
  <2>7. CASE WaitAction(c) BY <2>7 DEF WaitAction
  <2>8. CASE TurnCheck(c) BY <2>8 DEF TurnCheck
  <2>9. CASE Input(c) BY <2>9 DEF Input
  <2>10. CASE WriteGuess(c) BY <2>10 DEF WriteGuess
  <2>11. CASE WriteGiveUp(c) BY <2>11 DEF WriteGiveUp
  <2>12. CASE PostAction(c) BY <2>12 DEF PostAction
  <2>13. CASE AnswerCheck(c) BY <2>13 DEF AnswerCheck
  <2>14. CASE ReadAnswer(c) BY <2>14 DEF ReadAnswer
  <2>15. CASE EndTurn(c) BY <2>15 DEF EndTurn
  <2>16. CASE Leaving(c) BY <2>16 DEF Leaving
  <2>. QED
    BY <1>16, <2>1, <2>2, <2>3, <2>4, <2>5, <2>6, <2>7, <2>8, <2>9, <2>10,
       <2>11, <2>12, <2>13, <2>14, <2>15, <2>16 DEF ClientNext
<1>17. ASSUME NEW c \in Clients, Kill(c) PROVE Coronation'
  BY <1>17 DEF Kill
<1>18. CASE UNCHANGED vars
  BY <1>18 DEF vars
<1>. QED
  BY <1>1, <1>2, <1>3, <1>4, <1>5, <1>6, <1>7, <1>8, <1>9, <1>10, <1>11, <1>12,
     <1>13, <1>14, <1>15, <1>16, <1>17, <1>18 DEF Next, ServerNext

\* From the first step to the last.
LEMMA CoronationAlways == Spec => []Coronation
<1>1. Init => Coronation
  BY DEF Init, Coronation, Announced, WonInPlay, NoneTold, NoTurnAfterDeath,
     OneTold,
         TurnHandedBack, OneWinner, Crowned, Alive, TurnIn
<1>2. TypeOK /\ OneTurn /\ Handshake /\ Coronation /\ [Next]_vars => Coronation'
  BY CoronationStep
<1>. QED
  BY <1>1, <1>2, TypeCorrect, OneTurnAlways, HandshakeAlways, PTL DEF Spec

(***************************************************************************)
(* Two clients never both leave the game as its winner: one that reads WON *)
(* (battleships-client.c line 319) and one that reads WALKOVER (line 260)  *)
(* exclude each other, whoever is killed and when the signal comes.        *)
(***************************************************************************)
THEOREM OneWinnerAlways == Spec => []OneWinner
<1>1. Coronation => OneWinner
  BY DEF Coronation
<1>. QED
  BY <1>1, CoronationAlways, PTL

=============================================================================
