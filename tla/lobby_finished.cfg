SPECIFICATION Spec
CONSTANTS
    Request = {r1, r2}
    User = {host, ann, bob}
    Host = host
    NoUser = NoUser
    MayDie = FALSE
    MayLoseAck = FALSE
SYMMETRY RequestAndGuestSymmetry
PROPERTY FinishedStaysFinished
CHECK_DEADLOCK FALSE
