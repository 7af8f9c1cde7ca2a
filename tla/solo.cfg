SPECIFICATION Spec
CONSTANTS
    None = None
    s1 = s1
    r1 = r1
    r2 = r2
    r3 = r3
    f1 = f1
    n1 = n1
    c1 = c1
    Session = {s1}
    Name = {n1}
    Setup = {c1}
    Run <- MCRun
    Bodies <- MCBodies
    Totals <- MCTotals
    Posts <- MCPosts
    Refresh = {f1}
    LapTables <- MCLapTables
    Track = "monza"
    SimMedians <- MCSimMedians
SYMMETRY MCSymmetry
INVARIANTS
    TypeOK
    StoresAgree
    WrittenInOrder
    BaselineSound
    ReferencesTold
CHECK_DEADLOCK FALSE
