SPECIFICATION Spec
CONSTANTS
    ann = ann
    bob = bob
    zoe = zoe
    l1 = l1
    l2 = l2
    User = {ann, bob, zoe}
    NoUser = NoUser
    Gap = 1400
    Expected <- MCExpected
    Lobby = {l1, l2}
    Host <- MCHost
    Opponent <- MCOpponent
    Outcome <- MCOutcome
    Races <- MCRacesAgain
    Bet = {}
    Bettors = {bob}
    Signup = {}
    NewUser = zoe
    FirstRatings <- MCFirstRatings
    MaxAttempts = 2
    MayFail = FALSE
INVARIANT
    DuplicatesRedundant
CHECK_DEADLOCK FALSE
