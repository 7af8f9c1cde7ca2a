-------------------------- MODULE CalibrationData --------------------------
(***************************************************************************)
(* From the laps of a Grand Prix to the scales of a track's sectors:       *)
(* openf1-laps.aggregate.ts and calibration-scale.ts.  OpenF1's times are  *)
(* tenths of a second, percentiles quarters of a tenth, so that they are   *)
(* exact, and a scale is a pair <<p, q>> that stands for p / q.            *)
(***************************************************************************)
EXTENDS Integers, SequencesExt

Missing == -1       \* a field of a row that is null or not a number
Mapped == {"monaco", "monza", "silverstone", "spa", "suzuka", "interlagos", "bahrain",
           "singapore"}     \* TRACK_OPENF1_SOURCES: tracks whose Grand Prix is known

LapRow == [lap : Int, pitOut : BOOLEAN, time : Int, sector : [1..3 -> Int]]

Distance(a, b) == IF a < b THEN b - a ELSE a - b

\* What parseOpenF1LapRows keeps of the rows; a missing time is out of range.
IsSample(row) ==
    /\ row.lap >= 2 /\ ~row.pitOut
    /\ row.time \in 450..2400
    /\ \A i \in 1..3 : row.sector[i] \in 120..1200
    /\ Distance(row.sector[1] + row.sector[2] + row.sector[3], row.time) <= 25

Samples(rows) == {n \in DOMAIN rows : IsSample(rows[n])}

\* The k-th of the values in ascending order.
Kth(value, k) ==
    CHOOSE v \in Range(value) :
        /\ Cardinality({n \in DOMAIN value : value[n] < v}) < k
        /\ Cardinality({n \in DOMAIN value : value[n] <= v}) >= k

\* percentile: the k-th quartile, between two of the sorted values if it must be.
Quartile(value, k) ==
    LET index == (Cardinality(DOMAIN value) - 1) * k
        lo == Kth(value, index \div 4 + 1)
        hi == IF index % 4 = 0 THEN lo ELSE Kth(value, index \div 4 + 2)
    IN  4 * lo + (hi - lo) * (index % 4)

\* statsFromValues
Stats(value) ==
    [count |-> Cardinality(DOMAIN value), sum |-> SumFunction(value),
     min |-> Quartile(value, 0), q1 |-> Quartile(value, 1), median |-> Quartile(value, 2),
     q3 |-> Quartile(value, 3), max |-> Quartile(value, 4)]

\* buildAggregatesFromSamples, of the rows that are samples: there must be some.
Aggregate(rows) ==
    LET samples == Samples(rows) IN
    [lap |-> Stats([n \in samples |-> rows[n].time]),
     sector |-> [i \in 1..3 |-> Stats([n \in samples |-> rows[n].sector[i]])],
     excluded |-> Len(rows) - Cardinality(samples)]

Unscaled == <<1, 1>>

\* Mutant: the sector is brought as close as it gets.
Unclamped(target, simulated) == <<target, simulated>>

\* clampSectorScale
Clamped(target, simulated) ==
    IF 100 * target < 88 * simulated THEN <<88, 100>>
    ELSE IF 100 * target > 112 * simulated THEN <<112, 100>>
    ELSE <<target, simulated>>

\* computeSectorScales.  simulated: the medians of the reference run, .lap and .sector.
SectorScales(aggregates, simulated) ==
    [i \in 1..3 |->
        IF simulated.lap <= 0 \/ aggregates.lap.median <= 0 THEN Unscaled
        ELSE IF simulated.sector[i] > 0 /\ aggregates.sector[i].median > 0
        THEN Clamped(aggregates.sector[i].median, simulated.sector[i])
        ELSE Clamped(aggregates.lap.median, simulated.lap)]
=============================================================================
