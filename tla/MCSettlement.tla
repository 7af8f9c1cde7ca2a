---------------------------- MODULE MCSettlement ----------------------------
(***************************************************************************)
(* Small instances of Settlement for TLC: ann meets bob in both lobbies,   *)
(* once as host and once as opponent, so that the two settlements lock     *)
(* their rows in opposite orders.                                          *)
(***************************************************************************)
EXTENDS Settlement, TLC

CONSTANTS ann, bob, l1, l2

MCHost == l1 :> ann @@ l2 :> bob
MCOpponent == l1 :> bob @@ l2 :> ann

\* One lobby is enough where bets are what matters.
MCHost1 == l1 :> ann
MCOpponent1 == l1 :> bob

\* Bet slots are interchangeable.
BetSymmetry == Permutations(Bet)
=============================================================================
