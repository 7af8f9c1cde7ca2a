SPECIFICATION Spec
CONSTANTS
    ann = ann
    bob = bob
    l1 = l1
    l2 = l2
    User = {ann, bob, eve}
    NoUser = NoUser
    Lobby = {l1}
    Host <- MCHost1
    Opponent <- MCOpponent1
    Bet = {b1, b2}
    NoBet = NoBet
    Stake = {2}
    InitialBalance = 3
    MaxRaces = 2
    MayFail = TRUE
SYMMETRY BetSymmetry
INVARIANTS
    TypeOK
    BalanceWithin
    InTimeBetsSettled
PROPERTY BetsFollowResult
CHECK_DEADLOCK FALSE
