SPECIFICATION FairSpec
CONSTANTS
    Request = {r1, r2}
    User = {host, ann}
    Host = host
    NoUser = NoUser
    MayDie = FALSE
    MayLoseAck = FALSE
PROPERTIES
    RaceStarts
    RaceEnds
CHECK_DEADLOCK FALSE
