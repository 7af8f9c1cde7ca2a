---------------------------- MODULE StrategyData ----------------------------
(***************************************************************************)
(* Setups and strategies that the service makes itself: those of the AI    *)
(* that fills in for a player (AIService), those proposed for a track      *)
(* (StrategyService), and that of the calibration's reference run.  What   *)
(* is drawn at random is a set.                                            *)
(***************************************************************************)
EXTENDS RaceData

\* TRACK_SEEDS; aeroSensitivity and tireDegradationMultiplier in hundredths.
Seed(laps, aero, degradation) == [laps |-> laps, aero |-> aero, degradation |-> degradation]
Tracks == {Seed(78, 95, 55), Seed(53, 20, 48), Seed(52, 75, 82), Seed(44, 70, 75),
           Seed(53, 80, 88), Seed(71, 65, 78), Seed(57, 60, 95), Seed(61, 90, 60)}

Weather == {"dry", "mixed", "wet"}
Personality == {"aggressive", "balanced", "conservative", "random"}

-----------------------------------------------------------------------------
(* CarSetupDto and generateSetup.  A set of setups is a set for each field. *)

Fields(frontWing, rearWing, stiffness, brakeBias, rideHeight, differential, fuelLoad) ==
    [frontWing |-> frontWing, rearWing |-> rearWing, suspensionStiffness |-> stiffness,
     brakeBias |-> brakeBias, rideHeight |-> rideHeight,
     differentialOnThrottle |-> differential, fuelLoad |-> fuelLoad]

\* What class-validator lets through.
SetupRange == Fields(1..11, 1..11, 1..10, 52..66, 1..10, 50..100, 0..5)

AiBase(wing, personality) ==
    CASE personality = "aggressive" ->
            LET more == {Min({11, wing + 1})} IN Fields(more, more, {7}, {63}, {2}, {85}, {0})
      [] personality = "balanced" -> Fields({wing}, {wing}, {5}, {58}, {5}, {70}, {2})
      [] personality = "conservative" ->
            LET less == {Max({1, wing - 1})} IN Fields(less, less, {3}, {55}, {8}, {60}, {4})
      [] personality = "random" -> Fields(1..11, 1..11, 1..10, 52..66, 1..10, 50..100, 0..5)

AiSetup(track, weather, personality) ==
    [AiBase((track.aero + 5) \div 10, personality) EXCEPT
        !.fuelLoad = IF weather = "wet" THEN {Min({5, f + 1}) : f \in @} ELSE @]

AiCompound(track, weather, personality) ==
    CASE weather = "wet" -> "WET"
      [] weather = "mixed" -> "INTER"
      [] weather = "dry" /\ personality = "aggressive" -> "SOFT"
      [] weather = "dry" /\ personality = "conservative" -> "HARD"
      [] OTHER -> IF track.degradation > 80 THEN "MEDIUM" ELSE "SOFT"

-----------------------------------------------------------------------------
(* getAdvice: the balanced setup, in the place of what is off by more than *)
(* one.  Its fields are fixed, sets of one.                                *)

Optimal(track, weather, field) ==
    CHOOSE v \in AiSetup(track, weather, "balanced")[field] : TRUE

\* What v becomes if its advice is taken.
Advised(track, weather, field, v) ==
    LET optimal == Optimal(track, weather, field) IN
    IF v \in optimal - 1..optimal + 1 THEN v ELSE optimal

\* assessRisk
Risk(track, rideHeight, brakeBias, fuelLoad) ==
    LET score == (IF rideHeight < 3 THEN 2 ELSE 0) + (IF brakeBias < 54 THEN 2 ELSE 0)
                    + (IF fuelLoad = 0 THEN 1 ELSE 0)
                    + (IF track.degradation > 95 /\ fuelLoad < 2 THEN 1 ELSE 0)
    IN  IF score >= 4 THEN "high" ELSE IF score >= 2 THEN "medium" ELSE "low"

-----------------------------------------------------------------------------
(* generateStrategy                                                        *)

\* degradationRate, in thousandths.
DegradationRate == [SOFT |-> 85, MEDIUM |-> 55, HARD |-> 32, INTER |-> 40, WET |-> 25]

LapsOnTire(track, compound) ==
    LET perLap == Max({4000, 5 * DegradationRate[compound] * track.degradation}) IN
    Max({8, Min({track.laps - 8, 3500000 \div perLap})})

\* randInt, also for bounds that cross.
RandInt(least, most) == IF least <= most THEN least..most ELSE most + 1..least

OptimalLap(track, compound) == Min({track.laps - 5, Max({10, LapsOnTire(track, compound)})})

\* Mutant: a random window closes by lap 45 however short the race.
AiWindowsOfLongRaces(track, compound, personality) ==
    LET optimal == OptimalLap(track, compound) IN
    CASE personality = "aggressive" -> {<<Max({5, optimal - 5}), optimal>>}
      [] personality = "balanced" ->
            {<<Max({5, optimal - 3}), Min({track.laps - 5, optimal + 3})>>}
      [] personality = "conservative" -> {<<optimal, Min({track.laps - 4, optimal + 5})>>}
      [] personality = "random" -> RandInt(10, 30) \X RandInt(31, 45)

AiWindows(track, compound, personality) ==
    LET optimal == OptimalLap(track, compound) IN
    CASE personality = "aggressive" -> {<<Max({5, optimal - 5}), optimal>>}
      [] personality = "balanced" ->
            {<<Max({5, optimal - 3}), Min({track.laps - 5, optimal + 3})>>}
      [] personality = "conservative" -> {<<optimal, Min({track.laps - 4, optimal + 5})>>}
      [] personality = "random" -> RandInt(10, 30) \X RandInt(31, Min({45, track.laps - 5}))

-----------------------------------------------------------------------------
(* RaceStrategy, as generateStrategiesForSlug and referenceStrategy make it *)

Stint(compound, first, last) == [compound |-> compound, first |-> first, last |-> last]
Window(earliest, latest, optimal) ==
    [earliest |-> earliest, latest |-> latest, optimal |-> optimal]
Strategy(stints, windows) == [stints |-> stints, windows |-> windows]

\* Aggressive, balanced and conservative.
Proposals(laps) ==
    LET pit1 == Max({12, (35 * laps) \div 100})
        pit2 == Max({pit1 + 8, (62 * laps) \div 100})
    IN  {Strategy(<<Stint("SOFT", 1, pit1), Stint("HARD", pit1 + 1, laps)>>,
                  <<Window(pit1 - 2, pit1 + 4, pit1)>>),
         Strategy(<<Stint("MEDIUM", 1, pit1), Stint("HARD", pit1 + 1, laps)>>,
                  <<Window(pit1 - 3, pit1 + 5, pit1 + 1)>>),
         Strategy(<<Stint("MEDIUM", 1, pit1), Stint("MEDIUM", pit1 + 1, pit2),
                    Stint("HARD", pit2 + 1, laps)>>,
                  <<Window(pit1 - 2, pit1 + 3, pit1), Window(pit2 - 2, pit2 + 4, pit2)>>)}

ReferenceStrategy(laps) ==
    LET pit == Max({10, (40 * laps) \div 100}) IN
    Strategy(<<Stint("MEDIUM", 1, pit), Stint("HARD", pit + 1, laps)>>,
             <<Window(pit - 2, pit + 4, pit)>>)
=============================================================================
