----------------------------- MODULE MCSoloRun -----------------------------
(***************************************************************************)
(* Instance of SoloRun: one session, three runs and a refresh.  OpenF1     *)
(* answers with one of two tables: racing laps beside all that is left     *)
(* out, in which a sector is slower, one faster and one as fast as in the  *)
(* simulation; or nothing of use.                                          *)
(***************************************************************************)
EXTENDS SoloRun

CONSTANTS s1, r1, r2, r3, f1, n1, c1

MCRun == {r1, r2, r3}
MCSymmetry == Permutations(MCRun)
MCLap(lap, pitOut, a, b, c) ==
    [lap |-> lap, pitOut |-> pitOut, time |-> a + b + c, sector |-> <<a, b, c>>]
MCLapTables ==
    {<<MCLap(1, FALSE, 410, 290, 290), MCLap(2, FALSE, 353, 221, 290),
       MCLap(3, FALSE, 350, 220, 281), MCLap(4, FALSE, 352, 225, 291),
       [lap |-> 5, pitOut |-> FALSE, time |-> Missing, sector |-> <<280, 290, 280>>],
       MCLap(6, TRUE, 520, 220, 281), MCLap(7, FALSE, 361, 223, 283)>>,
     <<MCLap(1, FALSE, 280, 290, 281)>>}
MCBody(setup, ids, all) == [setup |-> setup, ids |-> ids, all |-> all]
MCBodies ==
    {MCBody(None, <<"race_manage", "unknown", "race_manage">>, TRUE),
     MCBody(c1, <<"unknown">>, FALSE)}
MCTotals == [body \in MCBodies |-> IF body.all THEN {5310} ELSE {5430}]
MCSimMedians == [lap |-> 3400, sector |-> <<1128, 1130, 1144>>]
MCPosts == {946900}
=============================================================================
