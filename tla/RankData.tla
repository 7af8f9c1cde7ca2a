------------------------------ MODULE RankData ------------------------------
(***************************************************************************)
(* Elo ratings (RatingService) and the ranks that a window query makes of  *)
(* them (LeaderboardRankProcessor).                                        *)
(***************************************************************************)
EXTENDS Integers, FiniteSetsExt

CONSTANTS
    User, NoUser,   \* NoUser: a draw
    Gap, Expected   \* Expected[d]: in thousandths, what a player who is d points behind
                    \* scores; a gap beyond Gap makes no difference of a thousandth

ASSUME RankDataAssumption ==
    /\ NoUser \notin User
    /\ IsFiniteSet(User)
    /\ Gap \in Nat
    /\ Expected \in [-Gap..Gap -> 0..1000]

Unrated == 0        \* in the place of the rating of a name nobody has registered
NewRating == 1200
Unranked == 0       \* NULL

-----------------------------------------------------------------------------
(* calculateEloPair                                                        *)

K(r) == IF r > 2000 THEN 16 ELSE 32

\* 1 / (1 + 10^(d / 400))
ExpectedScore(d) == Expected[IF d > Gap THEN Gap ELSE IF d < -Gap THEN -Gap ELSE d]

\* Math.round, of thousandths: halves go up.
Rounded(thousandths) == (thousandths + 500) \div 1000

\* What u scores against v when w wins.
Score(u, v, w) == IF w = u THEN 1000 ELSE IF w = v THEN 0 ELSE 500

Floor(r) == IF r < 100 THEN 100 ELSE r

\* Mutant: the opponent gets what the host gets.
NewRatingsOneSided(h, o, rh, ro, w) ==
    LET expected == ExpectedScore(ro - rh) IN
    [host |-> Floor(rh + Rounded(K(rh) * (Score(h, o, w) - expected))),
     opponent |-> Floor(ro + Rounded(K(ro) * (Score(h, o, w) - expected)))]

\* The ratings rh and ro of host h and opponent o become these when w wins.
NewRatings(h, o, rh, ro, w) ==
    LET expected == ExpectedScore(ro - rh) IN
    [host |-> Floor(rh + Rounded(K(rh) * (Score(h, o, w) - expected))),
     opponent |-> Floor(ro + Rounded(K(ro) * (Score(o, h, w) - (1000 - expected))))]

-----------------------------------------------------------------------------
(* RANK() OVER (ORDER BY "rating" DESC)                                    *)

Registered(rating) == {u \in User : rating[u] # Unrated}

RanksOf(rating) ==
    [u \in User |->
        IF u \notin Registered(rating) THEN Unranked
        ELSE 1 + Cardinality({v \in Registered(rating) : rating[v] > rating[u]})]
=============================================================================
