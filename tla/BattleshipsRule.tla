--------------------------- MODULE BattleshipsRule ---------------------------
(***************************************************************************)
(* What placing a ship promises, for a sample: three cells of the board.   *)
(***************************************************************************)
EXTENDS BattleshipsBoard, FiniteSets, Samples

Trios == {t \in SUBSET Cells : Cardinality(t) = 3}

Asked == [x : -1 .. Dimension, y : -1 .. Dimension, positioning : -1 .. 4]

\* Three cells in a straight line, without a gap: one is the middle of the
\* two others and touches them.
InLine(t) ==
  \E a, b, c \in t :
    /\ a # c
    /\ a[1] + c[1] = 2 * b[1] /\ a[2] + c[2] = 2 * b[2]
    /\ {a[1] - b[1], a[2] - b[2]} \subseteq {-1, 0, 1}

(***************************************************************************)
(* Three cells can be made a ship by exactly one placement if they are in  *)
(* line, and by none otherwise; a placement marks a ship or nothing, and   *)
(* clears no cell that is marked already (place_ship_on_board).            *)
(***************************************************************************)
ShipsAreLines ==
  Of("board") =>
    LET trio == sample.trio
        ways == {p \in Asked : PlaceShip({}, p) = trio}
    IN  /\ Cardinality(ways) = IF InLine(trio) THEN 1 ELSE 0
        /\ \A p \in Asked :
             /\ PlaceShip({}, p) \in Trios \cup {{}}
             /\ PlaceShip(trio, p) = trio \cup PlaceShip({}, p)

=============================================================================
