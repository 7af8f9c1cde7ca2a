------------------------------- MODULE MCRace -------------------------------
(***************************************************************************)
(* Instance of Race: seven laps, and three pairs of entries in which each  *)
(* way to stop occurs: worn out, at the closing of the window, at its      *)
(* middle on worn tyres, and not at all.                                   *)
(***************************************************************************)
EXTENDS Race

MCRivalTimes == {215, 238, 262}
MCEntry(h, hostCompound, o, opponentCompound) ==
    [host |-> [window |-> h, compound |-> hostCompound],
     opponent |-> [window |-> o, compound |-> opponentCompound]]
MCEntries ==
    {MCEntry(<<1, 3>>, "SOFT", <<4, 2>>, "HARD"),
     MCEntry(<<9, 9>>, "MEDIUM", <<3, 4>>, "SOFT"),
     MCEntry(<<9, -1>>, "SOFT", <<2, 3>>, "MEDIUM")}
MCSectorTimes == [c \in Car |-> {30, 31}]
MCWearPerLap ==
    [c \in Car |-> [k \in Compound |->
        CASE k = "SOFT" -> IF c = "host" THEN {26} ELSE {28}
          [] k = "MEDIUM" -> {17}
          [] OTHER -> {10}]]
MCLockUpLaps == [c \in Car |-> IF c = "host" THEN {2} ELSE {}]
MCStreams == {{}, {9}}
=============================================================================
