------------------------------ MODULE RaceData ------------------------------
(***************************************************************************)
(* What a battle of two cars is computed from and into: the plan made of a *)
(* player's pit window, the decision to pit, the grid, and the timeline    *)
(* and the heatmap of the stored result.  Times are whole numbers of the   *)
(* smallest difference told apart, those below are the code's where the    *)
(* difference is a second, and the code's epsilons are zero.               *)
(***************************************************************************)
EXTENDS Integers, SequencesExt

CONSTANTS
    Laps,           \* of the track
    RivalTimes,     \* totals of the AI rivals, drawn around the track's baseline
    Grain           \* what toFixed(3) leaves of a time is a multiple of it

ASSUME RaceDataAssumption ==
    /\ Laps \in Nat \ {0}
    /\ IsFiniteSet(RivalTimes) /\ RivalTimes \subseteq Nat
    /\ Grain \in Nat \ {0}

Car == {"host", "opponent"}
Other(c) == IF c = "host" THEN "opponent" ELSE "host"

Compound == {"SOFT", "MEDIUM", "HARD", "INTER", "WET"}

FreshWear == 2      \* percent, at the start
ChangedWear == 5    \* after a stop
PitLoss == 22
SafetyCarLoss == 45
LockUpLoss == 1     \* 0.15 to 0.4 in the code
OverheatLoss == 1   \* 0.08 in the code

\* toFixed(3): the multiple of Grain next to a time, the larger of two.
KeptOf(time) ==
    LET over == time % Grain IN IF 2 * over >= Grain THEN time - over + Grain ELSE time - over

\* The sign is kept apart.
Kept(time) == IF time < 0 THEN -KeptOf(-time) ELSE KeptOf(time)

\* tireWearToDelta, rounded up.
TyreLoss(worn) == IF worn < 50 THEN 0 ELSE IF worn < 85 THEN 1 ELSE 3

\* thermalSensitivity, in tenths.
Thermal == [SOFT |-> 9, MEDIUM |-> 6, HARD |-> 3, INTER |-> 2, WET |-> 1]

\* resolveOverheatRisk above 0.7.
Overheats(compound, temperature, worn) == Thermal[compound] * temperature * worn > 35000

\* The best lap and sector of a car that has driven none (1e9).
NoTime == 1000000000

-----------------------------------------------------------------------------
(* raceStrategyDtoToRaceStrategy and the engine's use of pitWindows[0]     *)

Plan == [earliest : Int, latest : Int, optimal : Int]

\* The window is a pair of integers as the player typed them, in any order.
PlanOf(window, laps) ==
    LET earliest == Max({1, Min({window[1], laps - 2})})
        latest == Max({earliest, Min({window[2], laps - 2})})
        middle == (earliest + latest) \div 2
    IN  [earliest |-> earliest, latest |-> latest,
         optimal |-> Min({laps - 5, Max({earliest, middle})})]

\* n: the lap just driven, worn: the wear it ended with.
ShouldPit(plan, stint, n, worn) ==
    \/ worn > 87
    \/ n >= plan.latest /\ stint = 0
    \/ n = plan.optimal /\ worn > 55

\* Mutant: the lap at which the window closes is too early to stop.
PitsAfterWindow(plan, stint, n, worn) ==
    /\ \/ worn > 87
       \/ n > plan.latest
       \/ n = plan.optimal /\ worn > 55
    /\ stint = 0
    /\ n < Laps - 2

Pits(plan, stint, n, worn) ==
    /\ ShouldPit(plan, stint, n, worn)
    /\ stint = 0
    /\ n < Laps - 2

-----------------------------------------------------------------------------
(* computeGridRaceResult                                                   *)

\* A rival with the player's time is ranked behind the player.  Every seeded track has
\* a baseline to draw the rivals around; a track without one is left out.
GridPosition(total) == 1 + Cardinality({t \in RivalTimes : t < total})

PointsForPosition(position) ==
    IF position \in 1..10 THEN <<25, 18, 15, 12, 10, 8, 6, 4, 2, 1>>[position] ELSE 0

-----------------------------------------------------------------------------
(* The stored result.  A row is the telemetry of a lap.                    *)

\* One sector stands for the three, which are treated alike; delta: what it
\* took more than the best sector so far; failure: projectedFailureLap.
Row == [sector : Nat, delta : Nat, time : Nat, best : BOOLEAN,
        compound : Compound, tireAge : Nat, wear : Nat, failure : Nat]

NoFailure == 0      \* null

ProjectedFailure(n, worn) ==
    IF worn > 90 THEN n + 3 ELSE IF worn > 87 THEN n + 8 ELSE NoFailure

Times(rows) == [n \in 1..Len(rows) |-> rows[n].time]

\* cumulativeRaceTimeByLap
Elapsed(rows) == [n \in 1..Len(rows) |-> SumFunctionOnSet(Times(rows), 1..n)]

\* Mutant: a host who is level with the opponent leads.
LeaderTieToHost(host, opponent) ==
    [n \in 1..Len(host) |->
        IF Elapsed(host)[n] <= Elapsed(opponent)[n] THEN "host" ELSE "opponent"]

\* Who leads after each lap; a car that is level with the leader does not lead.
Leader(host, opponent) ==
    LET h == Elapsed(host)
        o == Elapsed(opponent)
        leader[n \in 1..Len(host)] ==
            IF h[n] # o[n] THEN (IF h[n] < o[n] THEN "host" ELSE "opponent")
            ELSE IF n = 1 THEN "host" ELSE leader[n - 1]
    IN  leader

\* buildSimulatedLeadChangeEvents
LeadChanges(host, opponent) ==
    LET leader == Leader(host, opponent) IN
    {[lap |-> n, type |-> "LEAD_CHANGE", side |-> leader[n]] :
        n \in {m \in 2..Len(host) : leader[m] # leader[m - 1]}}

\* mergeTelemetryEventsToTimeline: an event gets the side it is of.
Merged(events) ==
    UNION {{[lap |-> e.lap, type |-> e.type, side |-> c] : e \in events[c]} : c \in Car}

\* buildCombinedMultiplayerTimeline; it is sorted by lap, type and side.
Timeline(rows, events) == Merged(events) \cup LeadChanges(rows["host"], rows["opponent"])

\* Mutant: a driver who ties the other is not the best of the lap.
HeatmapStrict(self, other) ==
    LET best == Min({self[n].sector : n \in 1..Len(self)}) IN
    [n \in 1..Len(self) |->
        IF self[n].sector = best THEN "pb"
        ELSE IF self[n].sector < other[n].sector THEN "sb"
        ELSE IF n > 1 /\ self[n].sector < self[n - 1].sector THEN "improved" ELSE "none"]

\* buildSectorHeatmap
Heatmap(self, other) ==
    LET best == Min({self[n].sector : n \in 1..Len(self)}) IN
    [n \in 1..Len(self) |->
        IF self[n].sector = best THEN "pb"
        ELSE IF self[n].sector <= other[n].sector THEN "sb"
        ELSE IF n > 1 /\ self[n].sector < self[n - 1].sector THEN "improved" ELSE "none"]
=============================================================================
