-------------------------- MODULE BattleshipsBoard --------------------------
(***************************************************************************)
(* The boards of the battleships server: a board is the set of its BUSY    *)
(* cells (every other cell of the DIMENSION x DIMENSION array is FREE),    *)
(* and a ship is placed from a centre cell and a positioning mode.         *)
(***************************************************************************)
EXTENDS Integers

Dimension == 4

Coord == 0 .. Dimension - 1

Cells == Coord \X Coord

(***************************************************************************)
(* Positioning modes.  The client stores position_data[4] - '0' without    *)
(* checking it, so any other number can reach the server as well.          *)
(***************************************************************************)
HORIZONTAL == 0
VERTICAL   == 1
DIAGONAL1  == 2
DIAGONAL2  == 3

Positioning == {HORIZONTAL, VERTICAL, DIAGONAL1, DIAGONAL2}

Placement == [x : Int, y : Int, positioning : Int]

\* The step from the centre of a ship to one of its two ends.
Direction(positioning) ==
  CASE positioning = HORIZONTAL -> <<1, 0>>
    [] positioning = VERTICAL   -> <<0, 1>>
    [] positioning = DIAGONAL1  -> <<1, -1>>
    [] positioning = DIAGONAL2  -> <<1, 1>>

\* The three cells a placement asks for, on the board or not.
ShipCells(p) ==
  LET d == Direction(p.positioning)
  IN  {<<p.x + k * d[1], p.y + k * d[2]>> : k \in {-1, 0, 1}}

\* Mutant: the bounds of the cells next to the centre are not checked.
PlaceShipUnbounded(board, p) ==
  IF p.positioning \in Positioning THEN board \cup ShipCells(p) ELSE board

\* Mutant: the last row and column are taken to be off the board.
PlaceShipTight(board, p) ==
  IF p.positioning \in Positioning
     /\ ShipCells(p) \subseteq {c \in Cells : c[1] < 3 /\ c[2] < 3}
  THEN board \cup ShipCells(p)
  ELSE board

\* A placement that does not fit, or whose mode is unknown, is ignored.
PlaceShip(board, p) ==
  IF p.positioning \in Positioning /\ ShipCells(p) \subseteq Cells
  THEN board \cup ShipCells(p)
  ELSE board

=============================================================================
