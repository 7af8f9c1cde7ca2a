SPECIFICATION FairSpec
CONSTANTS
    ann = ann
    bob = bob
    zoe = zoe
    l1 = l1
    l2 = l2
    User = {ann, bob, zoe}
    NoUser = NoUser
    Gap = 1400
    Expected <- MCExpected
    Lobby = {l1, l2}
    Host <- MCHost
    Opponent <- MCOpponent
    Outcome <- MCOutcome
    Races <- MCRaces
    Bet = {b1}
    Bettors = {bob}
    Signup = {s1, s2}
    NewUser = zoe
    FirstRatings <- MCFirstRatings
    MaxAttempts = 2
    MayFail = TRUE
INVARIANTS
    TypeOK
    RecomputeOwed
    EloFair
PROPERTIES
    RatingsTraced
    RanksFollow
CHECK_DEADLOCK FALSE
