--------------------------- MODULE BattleshipsGame ---------------------------
(***************************************************************************)
(* What one game of battleships promises its players, without semaphores   *)
(* and shared memory: two clients take their seats and place a ship, fire  *)
(* at each other in turn, until one has sunk the ship of the other or one  *)
(* gives up; and everyone is told an outcome that is true.                 *)
(***************************************************************************)
EXTENDS BattleshipsBoard

CONSTANTS Clients, None, Placements

VARIABLES
  seat,     \* the client in each seat, in the order of placing
  afloat,   \* cells of the ship of each seat that have not been hit
  mover,    \* the seat that fires next
  aim,      \* the shot under way: <<>> or <<client, cell>>
  winner,   \* the client that sank the ship of the other one
  quitter,  \* the client that gave up
  told      \* how each client left the game, "in" if it has not

vars == <<seat, afloat, mover, aim, winner, quitter, told>>

Seats == {1, 2}

Opponent(i) == 3 - i

NoShot == <<>>

Decided == winner # None \/ quitter # None

InPlay == ~Decided /\ \A i \in Seats : seat[i] # None

Init ==
  /\ seat = [i \in Seats |-> None]
  /\ afloat = [i \in Seats |-> {}]
  /\ mover = 1
  /\ aim = NoShot
  /\ winner = None /\ quitter = None
  /\ told = [c \in Clients |-> "in"]

\* The first client that places a ship gets seat 1, another one seat 2.
TakeSeat(i, c) ==
  /\ seat[i] = None
  /\ i = 2 => seat[1] \notin {None, c}
  /\ seat' = [seat EXCEPT ![i] = c]
  /\ \E p \in Placements : afloat' = [afloat EXCEPT ![i] = PlaceShip({}, p)]
  /\ UNCHANGED <<mover, aim, winner, quitter, told>>

Aim(c, cell) ==
  /\ InPlay /\ aim = NoShot
  /\ c = seat[mover]
  /\ aim' = <<c, cell>>
  /\ UNCHANGED <<seat, afloat, mover, winner, quitter, told>>

\* The shot hits the opponent, who fires next unless its ship is sunk.
Resolve ==
  /\ InPlay /\ aim # NoShot
  /\ afloat' = [afloat EXCEPT ![Opponent(mover)] = @ \ {aim[2]}]
  /\ winner' = IF afloat[Opponent(mover)] = {aim[2]} THEN aim[1] ELSE None
  /\ mover' = Opponent(mover)
  /\ aim' = NoShot
  /\ UNCHANGED <<seat, quitter, told>>

\* The boards do not matter any more.
GiveUp(c) ==
  /\ InPlay /\ aim = NoShot
  /\ c = seat[mover]
  /\ quitter' = c
  /\ afloat' = [i \in Seats |-> {}]
  /\ mover' = 1
  /\ UNCHANGED <<seat, aim, winner, told>>

(***************************************************************************)
(* The truths a client can leave with.  The opponent of a client that gave *)
(* up may also hear that it lost: see LostMeansSunk of Battleships.        *)
(***************************************************************************)
Outcomes(c) ==
  CASE c = winner                   -> {"won"}
    [] c = quitter                  -> {"gaveup"}
    [] winner \notin {None, c}      -> {"lost"}
    [] quitter \notin {None, c}     -> {"walkover", "lost"}
    [] OTHER                        -> {}

Leave(c) ==
  /\ \E i \in Seats : seat[i] = c
  /\ told[c] = "in"
  /\ \E outcome \in Outcomes(c) : told' = [told EXCEPT ![c] = outcome]
  /\ UNCHANGED <<seat, afloat, mover, aim, winner, quitter>>

Next ==
  \/ Resolve
  \/ \E c \in Clients :
       \/ \E i \in Seats : TakeSeat(i, c)
       \/ \E cell \in Cells : Aim(c, cell)
       \/ GiveUp(c) \/ Leave(c)

Spec == Init /\ [][Next]_vars

=============================================================================
