-------------------------------- MODULE Race --------------------------------
(***************************************************************************)
(* SimulationService.runMultiplayer: the engine drives the host's race and *)
(* then the opponent's, lap by lap, and the two are compared and stored.   *)
(* Both engines draw traffic and safety cars from a stream of their own    *)
(* with the same seed.                                                     *)
(***************************************************************************)
EXTENDS StrategyData, TelemetryData

CONSTANTS
    Entries,        \* what the players may submit: for each car a pit window and a compound
    SectorTimes,    \* SectorTimes[c]: with the setup, the fuel, the traffic and the noise
    WearPerLap,     \* WearPerLap[c][k]: what a lap of c may take of compound k, in percent
    LockUpLaps,     \* LockUpLaps[c]: laps in which a wheel may lock
    TrackTemp,      \* trackTemperatureC
    Streams         \* shared streams: the draws that are low enough for a safety car

Entry == [Car -> [window : Int \X Int, compound : Compound]]

ASSUME RaceAssumption ==
    /\ Entries \subseteq Entry
    /\ SectorTimes \in [Car -> SUBSET (1..NoTime - 50)]    \* no lap takes longer than NoTime
    /\ WearPerLap \in [Car -> [Compound -> SUBSET (1..100)]]
    /\ LockUpLaps \in [Car -> SUBSET Nat]
    /\ TrackTemp \in Nat
    /\ Streams \subseteq SUBSET Nat

VARIABLES
    stream,     \* what the shared stream holds, the same for both engines
    plan,       \* plan[c]: the pit window of the car's strategy
    drawn,      \* drawn[c]: draws the engine of car c has made of the shared stream
    tyres,      \* tyres[c]: what the car is on
    best,       \* best[c]: sessionBestLap and bestSector
    total,      \* total[c]: totalRace
    rows,       \* rows[c]: telemetry, one row per lap
    events,     \* events[c]: telemetry, what happened in which lap
    result      \* the stored result

vars == <<stream, plan, drawn, tyres, best, total, rows, events, result>>

Tyres == [compound : Compound, wear : 0..100, age : Nat, stint : {0, 1}]

\* What is left out is drawn of the car's own stream and costs nothing (WHEEL_SPIN,
\* DIRTY_AIR_LOSS, DRS_ACTIVATION) or never happens (OVERTAKE, DRS_TRAIN).
EventType == {"SAFETY_CAR", "LOCK_UP", "TIRE_OVERHEAT", "PIT_STOP", "FASTEST_LAP"}
Event == [lap : 1..Laps, type : EventType]

NoResult == [winner |-> "none", gap |-> 0, side |-> <<>>, timeline |-> {}]

Init ==
    /\ stream \in Streams
    /\ \E e \in Entries :
        /\ plan = [c \in Car |-> PlanOf(e[c].window, Laps)]
        /\ tyres = [c \in Car |-> [compound |-> e[c].compound, wear |-> FreshWear,
                                   age |-> 0, stint |-> 0]]
    /\ drawn = [c \in Car |-> 0]
    /\ best = [c \in Car |-> [lap |-> NoTime, sector |-> NoTime]]
    /\ total = [c \in Car |-> 0]
    /\ rows = [c \in Car |-> <<>>]
    /\ events = [c \in Car |-> {}]
    /\ result = NoResult

Finished(c) == Len(rows[c]) = Laps

\* Traffic takes two draws of the shared stream, then comes the roll for a safety car.
Roll(c) == drawn[c] + 3

\* Mutant: the draw for a wheel that locks is made of the shared stream.
DrawsWithLockUp(c, locked) == IF locked THEN Roll(c) + 1 ELSE Roll(c)

\* All that a lap draws of the shared stream; the rest is drawn of the car's own.
Draws(c, locked) == Roll(c)

SafetyCar(c) == Roll(c) \in stream

Overheated(c) == Overheats(tyres[c].compound, TrackTemp, tyres[c].wear)

LapTime(c, sector, locked) ==
    sector + TyreLoss(tyres[c].wear)
        + (IF SafetyCar(c) THEN SafetyCarLoss ELSE 0) + (IF locked THEN LockUpLoss ELSE 0)
        + (IF Overheated(c) THEN OverheatLoss ELSE 0)

\* Mutant: wear is not capped.
WornBeyond(c, loss) == tyres[c].wear + loss

\* The wear after a lap.
Worn(c, loss) == Min({100, tyres[c].wear + loss})

\* Mutant: the new tyres keep the age of the old.
TyresOfOldAge(c, worn, pits) ==
    IF pits
    THEN [compound |-> "HARD", wear |-> ChangedWear, age |-> tyres[c].age + 1, stint |-> 1]
    ELSE [tyres[c] EXCEPT !.wear = worn, !.age = @ + 1]

\* What the car is on in the next lap: a stop is for HARD, whatever the strategy's stint says.
TyresAfter(c, worn, pits) ==
    IF pits
    THEN [compound |-> "HARD", wear |-> ChangedWear, age |-> 0, stint |-> 1]
    ELSE [tyres[c] EXCEPT !.wear = worn, !.age = @ + 1]

\* Mutant: a stop adds nothing to the race.
TotalWithoutStop(c, time, pits) == total[c] + time

\* The race so far, once a lap is driven.
TotalAfter(c, time, pits) == total[c] + time + (IF pits THEN PitLoss ELSE 0)

LapEvents(c, time, locked, pits) ==
    LET happens == [SAFETY_CAR |-> SafetyCar(c), LOCK_UP |-> locked,
                    TIRE_OVERHEAT |-> Overheated(c), PIT_STOP |-> pits,
                    FASTEST_LAP |-> time <= best[c].lap]
    IN  {[lap |-> Len(rows[c]) + 1, type |-> t] : t \in {u \in DOMAIN happens : happens[u]}}

\* One pass of the loop.  The host's race is computed before the opponent's.
DriveLap(c) ==
    /\ ~Finished(c)
    /\ c = "opponent" => Finished("host")
    /\ \E sector \in SectorTimes[c], loss \in WearPerLap[c][tyres[c].compound],
          locked \in {FALSE} \cup {Len(rows[c]) + 1 \in LockUpLaps[c]} :
        LET lap == Len(rows[c]) + 1
            time == LapTime(c, sector, locked)
            worn == Worn(c, loss)
            pits == Pits(plan[c], tyres[c].stint, lap, worn)
        IN  /\ drawn' = [drawn EXCEPT ![c] = Draws(c, locked)]
            /\ best' = [best EXCEPT ![c].lap = Min({@, time}), ![c].sector = Min({@, sector})]
            /\ rows' = [rows EXCEPT ![c] = Append(@,
                          [sector |-> sector, delta |-> sector - best'[c].sector,
                           time |-> time, best |-> time = best'[c].lap,
                           compound |-> tyres[c].compound, tireAge |-> tyres[c].age,
                           wear |-> worn, failure |-> ProjectedFailure(lap, worn)])]
            /\ events' = [events EXCEPT ![c] = @ \cup LapEvents(c, time, locked, pits)]
            /\ tyres' = [tyres EXCEPT ![c] = TyresAfter(c, worn, pits)]
            /\ total' = [total EXCEPT ![c] = TotalAfter(c, time, pits)]
    /\ UNCHANGED <<stream, plan, result>>

\* What run returns of a race, without the telemetry.
Outcome(c) ==
    [total |-> total[c], best |-> best[c].lap, position |-> GridPosition(total[c]),
     points |-> PointsForPosition(GridPosition(total[c]))]

\* stripPlayerResultForStorage
Stripped(c) == [outcome |-> Outcome(c), heatmap |-> Heatmap(rows[c], rows[Other(c)])]

\* The two races are compared, and the result is built.
StoreResult ==
    /\ \A c \in Car : Finished(c)
    /\ result = NoResult
    /\ result' =
        [winner |-> IF total["host"] = total["opponent"] THEN "nobody"
                    ELSE CHOOSE c \in Car : total[c] < total[Other(c)],
         gap |-> Kept(Max({total["host"] - total["opponent"], total["opponent"] - total["host"]})),
         side |-> [c \in Car |-> Stripped(c)],
         timeline |-> Timeline(rows, events)]
    /\ UNCHANGED <<stream, plan, drawn, tyres, best, total, rows, events>>

Next == (\E c \in Car : DriveLap(c)) \/ StoreResult

Spec == Init /\ [][Next]_vars

-----------------------------------------------------------------------------
(* Properties                                                              *)

\* Every variable holds a value of its type, and no tyre is more than worn out.
TypeOK ==
    /\ stream \in Streams
    /\ plan \in [Car -> Plan]
    /\ drawn \in [Car -> Nat]
    /\ tyres \in [Car -> Tyres]
    /\ best \in [Car -> [lap : 1..NoTime, sector : 1..NoTime]]
    /\ total \in [Car -> Nat]
    /\ rows \in [Car -> Seq(Row)]
    /\ \A c \in Car : Len(rows[c]) <= Laps
    /\ events \in [Car -> SUBSET Event]

Told(c, type) == {e.lap : e \in {f \in events[c] : f.type = type}}

(* The safety car is out for both cars in the same laps, whatever each car     *)
(* draws for itself: SimulationEngine.sharedRng, "same for both cars".         *)
SafetyCarsShared ==
    \A n \in 1..Min({Len(rows["host"]), Len(rows["opponent"])}) :
        n \in Told("host", "SAFETY_CAR") <=> n \in Told("opponent", "SAFETY_CAR")

(* The race time is what the laps and the stops took, and FASTEST_LAP is told  *)
(* of the laps no earlier lap beats (totalRace and sessionBestLap of run).     *)
TimesAddUp ==
    \A c \in Car : LET ran == 1..Len(rows[c]) IN
        /\ total[c] = SumFunctionOnSet(Times(rows[c]), ran)
                        + PitLoss * Cardinality(Told(c, "PIT_STOP"))
        /\ Told(c, "FASTEST_LAP") =
              {n \in ran : \A m \in 1..n : rows[c][n].time <= rows[c][m].time}

(* The rows tell the same stints as the stops: in the lap after a stop the age *)
(* starts anew and the car is on HARD, in no other lap does the compound       *)
(* change or the age start anew, a tyre wears from lap to lap, and there are   *)
(* two stints at most.  (The event is described as a "compound change", and    *)
(* raceStrategyDtoToRaceStrategy plans MEDIUM for who starts on HARD: run does *)
(* not look at that stint, and he gets HARD again, which is no change.)        *)
StintsTold ==
    \A c \in Car :
        /\ Cardinality(Told(c, "PIT_STOP")) <= 1
        /\ \A n \in 2..Len(rows[c]) :
            LET row == rows[c][n]
                prev == rows[c][n - 1]
            IN  IF n - 1 \in Told(c, "PIT_STOP")
                THEN row.compound = "HARD" /\ row.tireAge = 0
                ELSE /\ row.compound = prev.compound
                     /\ row.tireAge = prev.tireAge + 1
                     /\ row.wear > prev.wear \/ prev.wear = 100

(* A car stops no later than its window closes and never in the last laps, and *)
(* it does not drive past the closing of a window that closes before them      *)
(* without having stopped (shouldPit and its condition in run).                *)
StopsInTime ==
    \A c \in Car :
        /\ \A n \in Told(c, "PIT_STOP") : n <= plan[c].latest /\ n < Laps - 2
        /\ plan[c].latest \in 1..Min({Len(rows[c]), Laps - 3}) => Told(c, "PIT_STOP") # {}

LeadTold(n) == {e \in result.timeline : e.type = "LEAD_CHANGE" /\ e.lap <= n}

(* The timeline names the lead: on lap times, the side of the latest           *)
(* LEAD_CHANGE, or before any who led after the first lap, is not behind; a    *)
(* change is told in the lap in which its side gets ahead, and the sides of    *)
(* the changes alternate (buildSimulatedLeadChangeEvents).  The race itself is *)
(* decided by totalRace, which has the time of the stops as well, so that who  *)
(* took the lead last may lose, and not be ahead in the race time that the     *)
(* comment there speaks of: but only if he stopped more often, and by no more  *)
(* than those stops took.                                                      *)
TimelineTellsLead ==
    result # NoResult =>
        LET time(c, n) == SumFunctionOnSet(Times(rows[c]), 1..n)
            stopped(c) == PitLoss * Cardinality(Told(c, "PIT_STOP"))
        IN
        /\ \A n \in 1..Laps : LeadTold(n) = {} =>
            LET first == IF time("host", 1) <= time("opponent", 1) THEN "host" ELSE "opponent"
            IN  time(first, n) <= time(Other(first), n)
        /\ \A n \in 1..Laps : LeadTold(n) # {} =>
            \E e \in LeadTold(n) :
                /\ \A f \in LeadTold(n) : f.lap <= e.lap
                /\ time(e.side, n) <= time(Other(e.side), n)
                /\ time(e.side, e.lap) < time(Other(e.side), e.lap)
                /\ n = Laps => total[e.side] - stopped(e.side)
                                <= total[Other(e.side)] - stopped(Other(e.side))
        /\ \A e \in LeadTold(Laps) :
            /\ e.lap > 1 /\ time(e.side, e.lap - 1) >= time(Other(e.side), e.lap - 1)
            /\ \A f \in LeadTold(e.lap - 1) :
                f.side = e.side => \E g \in LeadTold(e.lap - 1) :
                                        g.side # e.side /\ g.lap > f.lap

Best == {"pb", "sb"}

(* The two heatmaps agree: in every lap a driver who was not slower than the   *)
(* other in the sector is marked, a driver who was slower is marked only for a *)
(* personal best, and each driver has one (buildSectorHeatmap).                *)
HeatmapsAgree ==
    result # NoResult =>
        \A c \in Car :
            /\ \E n \in 1..Laps : result.side[c].heatmap[n] = "pb"
            /\ \A n \in 1..Laps :
                LET own == rows[c][n].sector
                    mark == result.side[c].heatmap[n]
                IN  IF own <= rows[Other(c)][n].sector THEN mark \in Best
                    ELSE mark # "sb" /\ (mark = "pb" => \A m \in 1..Laps : own <= rows[c][m].sector)

(* What GET telemetry shows of a battle is what was stored of it.  The laps    *)
(* where the delta chart touches zero were told as fastest, the last of them   *)
(* and no later one; the heatmap marks the sectors that the summary calls best *)
(* and that no earlier one beat; a tyre past 87 percent was changed, unless    *)
(* there was a stop before or none is allowed any more.  The comparison of the *)
(* laps adds up, with the stops, to the gap and the winner, whom the other     *)
(* car's grid does not rank behind it; that of the tyres shows less wear only  *)
(* after a stop; and in each lap the car that it shows to have the better      *)
(* sector is marked (TelemetryService, computeGridRaceResult against           *)
(* runMultiplayer).  The comparison and the gap are rounded one by one: they   *)
(* are off by no more than half a Grain for each lap and for the gap, and tell *)
(* the winner and the order when the comparison is further from zero.          *)
ChartsAgree ==
    result # NoResult =>
        /\ \A c \in Car : LET shown == Charts(rows[c]) IN
            /\ Max(Told(c, "FASTEST_LAP")) =
                  Max({n \in 1..Laps : shown.lapDelta[n].delta = 0})
            /\ \A n \in 1..Laps :
                /\ result.side[c].heatmap[n] = "pb" <=> rows[c][n].sector = shown.sectors.best
                /\ result.side[c].heatmap[n] = "pb" => rows[c][n].delta = 0
                /\ shown.degradation[n].wear > 87 =>
                      n >= Laps - 2 \/ \E m \in 1..n : m \in Told(c, "PIT_STOP")
                /\ rows[c][n].failure # NoFailure => shown.degradation[n].cliff
        /\ LET shown == Comparison(rows["host"], rows["opponent"])
               stops(c) == Cardinality(Told(c, "PIT_STOP"))
               position(c) == result.side[c].outcome.position
               ahead == SumFunction([n \in 1..Laps |-> shown.laps[n].delta])
                          + PitLoss * (stops("opponent") - stops("host"))
               rounded == Laps * Grain
           IN  /\ 2 * (result.gap - Max({ahead, -ahead})) \in -(rounded + Grain)..rounded + Grain
               /\ 2 * ahead > rounded => result.winner = "host"
               /\ 2 * ahead < -rounded => result.winner = "opponent"
               /\ 2 * ahead >= rounded => position("host") <= position("opponent")
               /\ 2 * ahead <= -rounded => position("opponent") <= position("host")
               /\ \A c \in Car, n \in 2..Laps :
                    shown.tyres[n][c] < shown.tyres[n - 1][c] => n - 1 \in Told(c, "PIT_STOP")
               /\ \A n \in 1..Laps : \E c \in Car :
                    /\ shown.sectors[n][c] <= shown.sectors[n][Other(c)]
                    /\ result.side[c].heatmap[n] \in {"pb", "sb"}

Holds(w) == w.earliest <= w.optimal /\ w.optimal <= w.latest

\* Each lap is in one stint, and the stints change in the windows, one after the other.
Joined(stints, windows) ==
    /\ stints[1].first = 1 /\ Len(windows) = Len(stints) - 1
    /\ \A i \in 1..Len(windows) :
        /\ stints[i + 1].first = stints[i].last + 1
        /\ stints[i].last \in windows[i].earliest..windows[i].latest
    /\ \A i \in 2..Len(windows) : windows[i].earliest > windows[i - 1].latest

SetupsFit(track) ==
    \A weather \in Weather, personality \in Personality :
        LET setup == AiSetup(track, weather, personality)
            compound == AiCompound(track, weather, personality)
        IN  /\ \A field \in DOMAIN SetupRange : setup[field] \subseteq SetupRange[field]
            /\ \A window \in AiWindows(track, compound, personality) :
                LET made == PlanOf(window, track.laps) IN
                /\ <<made.earliest, made.latest>> = window
                /\ Holds(made) /\ made.latest < track.laps - 2

AdviceFits(track) ==
    \A weather \in Weather :
        LET advised(field) == {Advised(track, weather, field, v) : v \in SetupRange[field]}
        IN  /\ \A field \in DOMAIN SetupRange : advised(field) \subseteq SetupRange[field]
            /\ \A ride \in advised("rideHeight"), bias \in advised("brakeBias"),
                   fuel \in advised("fuelLoad") : Risk(track, ride, bias, fuel) = "low"

ProposalsFit(track) ==
    \A strategy \in Proposals(track.laps) \cup {ReferenceStrategy(track.laps)} :
        /\ Joined(strategy.stints, strategy.windows)
        /\ Last(strategy.stints).last = track.laps
        /\ \A w \in ToSet(strategy.windows) : Holds(w) /\ w.latest < track.laps - 2

TrackFits(track) == SetupsFit(track) /\ AdviceFits(track) /\ ProposalsFit(track)

SeededTracksFit == \A track \in Tracks : TrackFits(track)

(* A window that a player typed is brought within the race, and those that     *)
(* nobody typed are sound on every seeded track.  Whatever the AI draws, its   *)
(* setup passes the validation that a player's does; its window goes through   *)
(* raceStrategyDtoToRaceStrategy unchanged, holds the optimal lap and closes   *)
(* while a stop is still made.  The proposed strategies and the calibration's  *)
(* plan race each lap once, and change stints inside the window of the stint.  *)
(* Who takes the advice he is given has a setup that is valid and of low risk  *)
(* (generateSetup, getAdvice, assessRisk, generateStrategy,                    *)
(* generateStrategiesForSlug, referenceStrategy).                              *)
StrategiesFit ==
    /\ \A c \in Car : 1 <= plan[c].earliest /\ plan[c].earliest <= plan[c].latest
                        /\ plan[c].latest <= Laps - 2
    /\ SeededTracksFit
=============================================================================
