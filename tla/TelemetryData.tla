---------------------------- MODULE TelemetryData ----------------------------
(***************************************************************************)
(* What TelemetryService shows of stored rows, one per lap: the charts of  *)
(* a session and the comparison of the two cars of a battle.               *)
(***************************************************************************)
EXTENDS RaceData

DegradationCurve(rows) ==
    [n \in 1..Len(rows) |->
        [wear |-> rows[n].wear, compound |-> rows[n].compound, cliff |-> rows[n].wear > 85]]

LapDeltaChart(rows) ==
    LET bestLap == Min({rows[n].time : n \in 1..Len(rows)}) IN
    [n \in 1..Len(rows) |-> [delta |-> rows[n].time - bestLap, compound |-> rows[n].compound]]

\* The average is total over the number of laps.
SectorPerformance(rows) ==
    LET taken == {rows[n].sector : n \in 1..Len(rows)} IN
    [best |-> Min(taken), worst |-> Max(taken),
     total |-> SumFunction([n \in 1..Len(rows) |-> rows[n].sector])]

Charts(rows) ==
    [degradation |-> DegradationCurve(rows), lapDelta |-> LapDeltaChart(rows),
     sectors |-> SectorPerformance(rows)]

\* Mutant: a positive delta for the lap in which the host is slower.
LapComparisonReversed(host, opponent) ==
    [n \in 1..Len(host) |->
        [host |-> host[n].time, opponent |-> opponent[n].time,
         delta |-> Kept(host[n].time - opponent[n].time)]]

\* A positive delta: the host is faster.  Both drive as many laps.
LapComparison(host, opponent) ==
    [n \in 1..Len(host) |->
        [host |-> host[n].time, opponent |-> opponent[n].time,
         delta |-> Kept(opponent[n].time - host[n].time)]]

TireComparison(host, opponent) ==
    [n \in 1..Len(host) |-> [host |-> host[n].wear, opponent |-> opponent[n].wear]]

SectorComparison(host, opponent) ==
    [n \in 1..Len(host) |-> [host |-> host[n].sector, opponent |-> opponent[n].sector]]

\* getMultiplayerTelemetry
Comparison(host, opponent) ==
    [laps |-> LapComparison(host, opponent), tyres |-> TireComparison(host, opponent),
     sectors |-> SectorComparison(host, opponent)]
=============================================================================
