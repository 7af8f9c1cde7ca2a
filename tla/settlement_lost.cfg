SPECIFICATION Spec
CONSTANTS
    ann = ann
    bob = bob
    l1 = l1
    l2 = l2
    User = {ann, bob}
    NoUser = NoUser
    Lobby = {l1, l2}
    Host <- MCHost
    Opponent <- MCOpponent
    Bet = {b1}
    NoBet = NoBet
    Stake = {2}
    InitialBalance = 3
    MaxRaces = 1
    MayFail = FALSE
INVARIANT Ledger
CHECK_DEADLOCK FALSE
