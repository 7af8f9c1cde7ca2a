SPECIFICATION Spec
CONSTANTS
    Request = {r1, r2}
    User = {host, ann, bob}
    Host = host
    NoUser = NoUser
    MayDie = TRUE
    MayLoseAck = TRUE
SYMMETRY RequestAndGuestSymmetry
INVARIANTS
    TypeOK
    OneOpponent
    OneRacer
    SettledOnce
    RacedAsShown
PROPERTIES
    OpponentStays
    FinishedIsFinal
    KeepsPromise
CHECK_DEADLOCK FALSE
