--------------------------- MODULE ReferenceData ---------------------------
(***************************************************************************)
(* How a run is compared with the references of its track:                 *)
(* track-reference-metrics.ts and its use by SimulationService.run.  Of a  *)
(* reference's numbers the race total decides which one is closest.        *)
(***************************************************************************)
EXTENDS Integers, SequencesExt

Ref(id, total) == [id |-> id, total |-> total]
Pair(quali, race) == <<Ref("quali_push", quali), Ref("race_manage", race)>>

\* TRACK_REFERENCE_METRICS
References ==
    [monaco |-> Pair(6500, 6680), monza |-> Pair(5300, 5420),
     silverstone |-> Pair(5600, 5750), spa |-> Pair(5450, 5580),
     suzuka |-> Pair(5500, 5640), interlagos |-> Pair(5400, 5520),
     bahrain |-> Pair(5550, 5680), singapore |-> Pair(6800, 6950)]

ReferencesOf(track) == IF track \in DOMAIN References THEN References[track] ELSE <<>>

\* listReferenceIdsForTrack
ReferenceIds(track) == [n \in 1..Len(ReferencesOf(track)) |-> ReferencesOf(track)[n].id]

\* A Set of JavaScript: each value once, in the order they came in.
Distinct(s) == FoldLeft(LAMBDA t, x : IF x \in ToSet(t) THEN t ELSE Append(t, x), <<>>, s)

\* refIds: those the body names and, if it asks for all, those of the track.
RefIds(track, ids, all) == Distinct(ids \o (IF all THEN ReferenceIds(track) ELSE <<>>))

\* The good ones of s, in their order: SelectSeq as a fold, of which more can be proved.
Kept(s, good) == FoldLeft(LAMBDA t, x : IF x \in good THEN Append(t, x) ELSE t, <<>>, s)

\* unmatchedReferenceIds
Unmatched(track, ids) == Kept(ids, ToSet(ids) \ ToSet(ReferenceIds(track)))

\* buildReferenceComparisons: a positive delta says that the player was slower.
Comparisons(track, total, ids) ==
    LET found == Kept(ids, ToSet(ReferenceIds(track)))
        ref(id) == CHOOSE f \in ToSet(ReferencesOf(track)) : f.id = id
    IN  [n \in 1..Len(found) |-> [id |-> found[n], delta |-> total - ref(found[n]).total]]

Abs(x) == IF x < 0 THEN -x ELSE x

NoMatch == "no match"

\* Mutant: the sign of the delta is forgotten.
LeastDelta(rows) ==
    IF rows = <<>> THEN NoMatch
    ELSE FoldLeft(LAMBDA best, row : IF row.delta < best.delta THEN row ELSE best,
                  Head(rows), rows).id

\* pickClosestReferenceMatch
Closest(rows) ==
    IF rows = <<>> THEN NoMatch
    ELSE FoldLeft(LAMBDA best, row : IF Abs(row.delta) < Abs(best.delta) THEN row ELSE best,
                  Head(rows), rows).id
=============================================================================
