SPECIFICATION FairSpec
CONSTANTS
    p1 = p1
    p2 = p2
    r1 = r1
    r2 = r2
    Process = {p1, p2}
    Request = {r1, r2}
    Home <- MCHome
    TTL = 2
    Flight = 1
    Nothing = Nothing
INVARIANTS
    TypeOK
    FreshEnough
    FailsOnlyWhenEmpty
PROPERTY AnswersCome
CHECK_DEADLOCK FALSE
