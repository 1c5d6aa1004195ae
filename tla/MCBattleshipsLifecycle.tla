----------------------- MODULE MCBattleshipsLifecycle -----------------------
(***************************************************************************)
(* Three servers, one after the other, and two clients: enough for a game, *)
(* a client between two games, and a server that is killed, a start that   *)
(* fails for that reason and the next start, which succeeds.               *)
(***************************************************************************)
EXTENDS BattleshipsLifecycle, TLC

Symmetry == Permutations(Servers) \cup Permutations(Clients)

=============================================================================
