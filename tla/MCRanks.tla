------------------------------- MODULE MCRanks -------------------------------
(***************************************************************************)
(* Instance of Ranks: ann and bob, both near the floor or near the rating  *)
(* where the K factor changes, race in one lobby, once or, where it was    *)
(* reopened, again; bob races zoe, who has yet to register, in another.    *)
(***************************************************************************)
EXTENDS Ranks, TLC

CONSTANTS ann, bob, zoe, l1, l2

MCHost == l1 :> ann @@ l2 :> bob
MCOpponent == l1 :> bob @@ l2 :> zoe
MCOutcome == l1 :> {ann, bob} @@ l2 :> {zoe, NoUser}
MCRaces == l1 :> 1 @@ l2 :> 1
MCRacesAgain == l1 :> 2 @@ l2 :> 1
MCFirstRatings ==
    {ann :> strong @@ bob :> (strong - 9) @@ zoe :> 0 : strong \in {1999, 114}}

\* 1 / (1 + 10^(d / 400)), read off at steps of a hundred points.
Ahead(d) ==
    CASE d < 50 -> 500 [] d < 150 -> 360 [] d < 250 -> 240 [] d < 350 -> 151
      [] d < 500 -> 91 [] d < 700 -> 31 [] d < 1000 -> 10
      [] d < 1320 -> 1 [] OTHER -> 0
MCExpected == [d \in -Gap..Gap |-> IF d >= 0 THEN Ahead(d) ELSE 1000 - Ahead(-d)]
=============================================================================
