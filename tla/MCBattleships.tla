---------------------------- MODULE MCBattleships ----------------------------
(***************************************************************************)
(* Finite instances of Battleships: two ships that share a cell and one    *)
(* placement the server ignores; shots at the cells of one ship and a miss.*)
(***************************************************************************)
EXTENDS BattleshipsRefinement, TLC

Row     == [x |-> 1, y |-> 0, positioning |-> HORIZONTAL]
Column  == [x |-> 0, y |-> 1, positioning |-> VERTICAL]
OffEdge == [x |-> 0, y |-> 0, positioning |-> HORIZONTAL]

MCOneShip    == {Row}
MCPlacements == {Row, OffEdge}

MCGuesses == ShipCells(Row) \cup {<<3, 3>>}
MCShipGuesses == ShipCells(Row)

\* The state without the histories that only the properties of an orderly game
\* look at.
WithoutHistory == <<sems, shm, server, pc, found>>

ClientSymmetry == Permutations(Clients)

=============================================================================
