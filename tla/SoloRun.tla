------------------------------ MODULE SoloRun ------------------------------
(***************************************************************************)
(* A player's session and SimulationService.run: the engine's result is    *)
(* written to four tables, one statement after the other and no            *)
(* transaction around them, while other runs of the session, its own       *)
(* endpoints, posted scores and refreshes of the calibration go on.        *)
(*                                                                         *)
(* A table refers to a result by the run that produced it.  The engine is  *)
(* that of Race.tla; here it takes one of the Totals.                      *)
(***************************************************************************)
EXTENDS CalibrationData, ReferenceData

CONSTANTS
    Session, Name, Setup,   \* names are trimmed, setups pass validation
    Run, Bodies,            \* simulate calls, and their bodies
    Totals,                 \* Totals[body]: what the engine may return for the race, in seconds
    Posts,                  \* scores posted to the leaderboard by hand
    Refresh, LapTables,     \* refresh calls, and what OpenF1 may answer
    Track, SimMedians,      \* the track of the runs; medians of its reference run
    None

\* A row of sessions.
Row == [name : Name \cup {None}, status : {"ALLOCATING", "SIMULATING", "COMPLETED"},
        setup : Setup \cup {None}, result : Run \cup {None}, score : Int]

Body == [setup : Setup \cup {None}, ids : Seq(STRING), all : BOOLEAN]

ASSUME SoloRunAssumption ==
    /\ None \notin Name \cup Setup \cup Run \cup Row
    /\ Run \cap Refresh = {}
    /\ Bodies \subseteq Body
    /\ Totals \in [Bodies -> SUBSET Nat] /\ Posts \subseteq Nat
    /\ LapTables \subseteq Seq(LapRow)
    /\ SimMedians \in [lap : Nat, sector : [1..3 -> Nat]]
    /\ Track \in Mapped \cap DOMAIN References

VARIABLES
    session,    \* rows of sessions; None: there is none
    snapshot,   \* snapshot[s]: the run in the row of telemetry_snapshots
    runs,       \* runs[s]: rows of simulation_runs, oldest first
    board,      \* board[s]: the row of leaderboard_entries
    baseline,   \* the row of track_lap_baselines for Track
    pc,         \* pc[c]: what run or refresh c does next
    read,       \* read[r]: its session, name and setup, and the snapshot it found
    out,        \* out[r]: what it has computed
    fetched,    \* fetched[f]: the laps that refresh f has
    alone,      \* history: alone[r]: no other run of the session was under way with r
    agreed      \* history: agreed[s]: the last to write of s was this run, alone

vars == <<session, snapshot, runs, board, baseline, pc, read, out, fetched, alone, agreed>>
tables == <<snapshot, runs, board>>
calls == <<pc, read, out, alone>>

NoRead == [session |-> None, name |-> None, setup |-> None, body |-> None, found |-> FALSE]

Init ==
    /\ session = [s \in Session |-> None]
    /\ snapshot = [s \in Session |-> None]
    /\ runs = [s \in Session |-> <<>>]
    /\ board = [s \in Session |-> None]
    /\ baseline = None
    /\ pc = [c \in Run \cup Refresh |-> "idle"]
    /\ read = [r \in Run |-> NoRead]
    /\ out = [r \in Run |-> None]
    /\ fetched = [f \in Refresh |-> <<>>]
    /\ alone = [r \in Run |-> FALSE]
    /\ agreed = [s \in Session |-> None]

-----------------------------------------------------------------------------
(* The session's own endpoints                                             *)

Create(s) ==
    /\ session[s] = None
    /\ \E name \in Name \cup {None} :
        session' = [session EXCEPT ![s] = [name |-> name, status |-> "ALLOCATING",
                                           setup |-> None, result |-> None, score |-> 0]]
    /\ UNCHANGED <<tables, baseline, calls, fetched, agreed>>

Patch(s) ==
    /\ session[s] # None
    /\ \E name \in Name \cup {None} : session' = [session EXCEPT ![s].name = name]
    /\ UNCHANGED <<tables, baseline, calls, fetched, agreed>>

\* SetupService.submit: a session that is completed is simulating again.
SubmitSetup(s) ==
    /\ session[s] # None
    /\ \E setup \in Setup :
        session' = [session EXCEPT ![s].setup = setup, ![s].status = "SIMULATING"]
    /\ UNCHANGED <<tables, baseline, calls, fetched, agreed>>

-----------------------------------------------------------------------------
(* SimulationService.run                                                   *)

Goto(r, step) == pc' = [pc EXCEPT ![r] = step]
Under(s) == {r \in Run : pc[r] \notin {"idle", "done"} /\ read[r].session = s}

SetupFor(s, body) == IF body.setup # None THEN body.setup ELSE session[s].setup

\* Mutant: nobody asks for the player's name.
ReadyUnnamed(s, body) == session[s] # None /\ SetupFor(s, body) # None

\* A run needs a session with a name, and a setup, in the body or of the session.
Ready(s, body) == session[s] # None /\ session[s].name # None /\ SetupFor(s, body) # None

Begin(r, s) ==
    /\ pc[r] = "idle"
    /\ \E body \in Bodies :
        /\ Ready(s, body)
        /\ read' = [read EXCEPT ![r] =
                [session |-> s, name |-> session[s].name, setup |-> SetupFor(s, body),
                 body |-> body, found |-> FALSE]]
    /\ Goto(r, "simulate")
    /\ alone' = [q \in Run |-> IF q = r THEN Under(s) = {} ELSE alone[q] /\ q \notin Under(s)]
    /\ agreed' = [agreed EXCEPT ![s] = None]
    /\ UNCHANGED <<session, tables, baseline, out, fetched>>

\* getSectorCalibrationForTrack, with the calibration enabled.
Scales == IF baseline = None THEN None ELSE baseline.scales

\* What a run reports of itself.
Outcome(body, total) ==
    LET ids == RefIds(Track, body.ids, body.all)
        rows == Comparisons(Track, total, ids)
    IN  [total |-> total, scales |-> Scales,
         compared |-> rows, unmatched |-> Unmatched(Track, ids), closest |-> Closest(rows)]

\* The calibration is read, and the engine runs.
Simulate(r) ==
    /\ pc[r] = "simulate"
    /\ \E total \in Totals[read[r].body] : out' = [out EXCEPT ![r] = Outcome(read[r].body, total)]
    /\ Goto(r, "find snapshot")
    /\ UNCHANGED <<session, tables, baseline, read, fetched, alone, agreed>>

\* Mutant: the session is completed before the run is stored.
ResultBeforeRun == [snapshot |-> "store result", result |-> "store run", run |-> "submit score"]

\* The order of the writes of run.
Then == [snapshot |-> "store run", run |-> "store result", result |-> "submit score"]

\* TelemetryService.persist, its SELECT ...
FindSnapshot(r) ==
    /\ pc[r] = "find snapshot"
    /\ read' = [read EXCEPT ![r].found = snapshot[read[r].session] # None]
    /\ Goto(r, "put snapshot")
    /\ UNCHANGED <<session, tables, baseline, out, fetched, alone, agreed>>

\* Mutant: only a session's first snapshot is kept.
InsertSnapshot(r) ==
    /\ pc[r] = "put snapshot"
    /\ snapshot' = [snapshot EXCEPT ![read[r].session] = IF read[r].found THEN @ ELSE r]
    /\ Goto(r, Then.snapshot)
    /\ UNCHANGED <<session, runs, board, baseline, read, out, fetched, alone, agreed>>

\* ... and its UPDATE or INSERT: sessionId is UNIQUE, and a row inserted since
\* the SELECT ends the run.
PutSnapshot(r) ==
    /\ pc[r] = "put snapshot"
    /\ LET s == read[r].session IN
        IF ~read[r].found /\ snapshot[s] # None
        THEN Goto(r, "done") /\ UNCHANGED snapshot
        ELSE Goto(r, Then.snapshot) /\ snapshot' = [snapshot EXCEPT ![s] = r]
    /\ UNCHANGED <<session, runs, board, baseline, read, out, fetched, alone, agreed>>

StoreRun(r) ==
    /\ pc[r] = "store run"
    /\ runs' = [runs EXCEPT ![read[r].session] = Append(@, r)]
    /\ Goto(r, Then.run)
    /\ UNCHANGED <<session, snapshot, board, baseline, read, out, fetched, alone, agreed>>

Score(total) == 1000000 - 10 * total

\* saveResult: one UPDATE, which also puts the setup back that the run was made with.
StoreResult(r) ==
    /\ pc[r] = "store result"
    /\ session' = [session EXCEPT ![read[r].session].result = r,
                                  ![read[r].session].score = Score(out[r].total),
                                  ![read[r].session].status = "COMPLETED",
                                  ![read[r].session].setup = read[r].setup]
    /\ Goto(r, Then.result)
    /\ UNCHANGED <<tables, baseline, read, out, fetched, alone, agreed>>

Entry(name, score, by) == [name |-> name, score |-> score, by |-> by]

\* LeaderboardService.submit: an upsert by session, under the name read at the start.
SubmitScore(r) ==
    /\ pc[r] = "submit score"
    /\ LET s == read[r].session IN
        /\ board' = [board EXCEPT ![s] = Entry(read[r].name, Score(out[r].total), r)]
        /\ agreed' = [agreed EXCEPT ![s] = IF alone[r] THEN r ELSE None]
    /\ Goto(r, "done")
    /\ UNCHANGED <<session, snapshot, runs, baseline, read, out, fetched, alone>>

\* A GET or a statement fails, or the process dies: what is written stays written.
Fail(c) ==
    /\ pc[c] \notin {"idle", "done"}
    /\ Goto(c, "done")
    /\ UNCHANGED <<session, tables, baseline, read, out, fetched, alone, agreed>>

\* POST /leaderboard: any score for any session id, without one or a run of it.
PostScore(s) ==
    /\ \E name \in Name, score \in Posts :
        board' = [board EXCEPT ![s] = Entry(name, score, None)]
    /\ agreed' = [agreed EXCEPT ![s] = None]
    /\ UNCHANGED <<session, snapshot, runs, baseline, calls, fetched>>

-----------------------------------------------------------------------------
(* CalibrationService.refreshBaselineForTrack                              *)

\* The meeting, its session and its laps are fetched; without a sample, it ends.
FetchLaps(f) ==
    /\ pc[f] = "idle"
    /\ \E table \in LapTables :
        /\ fetched' = [fetched EXCEPT ![f] = table]
        /\ Goto(f, IF Samples(table) = {} THEN "done" ELSE "upsert")
    /\ UNCHANGED <<session, tables, baseline, read, out, alone, agreed>>

\* Aggregates and scales replace the row: whichever refresh is last, not latest.
Upsert(f) ==
    /\ pc[f] = "upsert"
    /\ LET aggregates == Aggregate(fetched[f]) IN
        baseline' = [aggregates |-> aggregates,
                     scales |-> SectorScales(aggregates, SimMedians)]
    /\ Goto(f, "done")
    /\ UNCHANGED <<session, tables, read, out, fetched, alone, agreed>>

-----------------------------------------------------------------------------
Next ==
    \/ \E s \in Session : Create(s) \/ Patch(s) \/ SubmitSetup(s) \/ PostScore(s)
    \/ \E r \in Run, s \in Session : Begin(r, s)
    \/ \E r \in Run : \/ Simulate(r) \/ FindSnapshot(r) \/ PutSnapshot(r)
                      \/ StoreRun(r) \/ StoreResult(r) \/ SubmitScore(r)
    \/ \E f \in Refresh : FetchLaps(f) \/ Upsert(f)
    \/ \E c \in Run \cup Refresh : Fail(c)

Spec == Init /\ [][Next]_vars

-----------------------------------------------------------------------------
(* Properties                                                              *)

\* Every variable holds a value of its type; a session that was completed has a setup.
TypeOK ==
    /\ session \in [Session -> Row \cup {None}]
    /\ snapshot \in [Session -> Run \cup {None}]
    /\ runs \in [Session -> Seq(Run)]
    /\ \A s \in Session : session[s] # None /\ session[s].status # "ALLOCATING" =>
                            session[s].setup # None
    /\ \A s \in Session : board[s] # None => board[s].name \in Name
    /\ agreed \in [Session -> Run \cup {None}]

(* The four tables of a session agree once a run has gone through and no other *)
(* run of the session was under way with it, whatever overlapping and failed   *)
(* runs before it have left behind (the writes of SimulationService.run).      *)
StoresAgree ==
    \A s \in Session : agreed[s] # None =>
        LET r == agreed[s] IN
        /\ snapshot[s] = r
        /\ Last(runs[s]) = r
        /\ session[s].result = r
        /\ board[s] = Entry(read[r].name, session[s].score, r)

(* Whatever fails or overlaps, nothing is shown before what it rests on is     *)
(* stored: a session's result is one of its stored runs and carries that run's *)
(* score, a stored run has telemetry, and an entry that a run made has the     *)
(* score of a stored run of a session that shows a result.                     *)
WrittenInOrder ==
    \A s \in Session :
        /\ runs[s] # <<>> => snapshot[s] # None
        /\ session[s] # None /\ session[s].result # None =>
            /\ session[s].result \in ToSet(runs[s])
            /\ session[s].score = Score(out[session[s].result].total)
        /\ board[s] # None /\ board[s].by # None =>
            /\ board[s].by \in ToSet(runs[s]) /\ session[s].result # None
            /\ board[s].score = Score(out[board[s].by].total)

\* stats are those of the values: quartiles cut off what they should.
Describes(stats, value) ==
    LET below(x) == Cardinality({n \in DOMAIN value : 4 * value[n] < x})
        above(x) == Cardinality({n \in DOMAIN value : 4 * value[n] > x})
        count == Cardinality(DOMAIN value)
    IN  /\ stats.count = count /\ below(stats.min) = 0 /\ above(stats.max) = 0
        /\ stats.min <= stats.q1 /\ stats.q1 <= stats.median
        /\ stats.median <= stats.q3 /\ stats.q3 <= stats.max
        /\ 2 * below(stats.median) <= count /\ 2 * above(stats.median) <= count
        /\ 4 * below(stats.q1) <= count + 2 /\ 4 * above(stats.q1) <= 3 * count
        /\ 4 * below(stats.q3) <= 3 * count /\ 4 * above(stats.q3) <= count + 2

\* A lap at racing speed whose times are there, plausible and add up.
Raced(row) ==
    /\ row.lap > 1 /\ ~row.pitOut /\ row.time \in 450..2400
    /\ Range(row.sector) \subseteq 120..1200
    /\ row.sector[1] + row.sector[2] + row.sector[3] \in row.time - 25..row.time + 25

(* The stored baseline describes the racing laps of one of OpenF1's tables, of *)
(* which every row is counted or excluded; and each sector's scale is within   *)
(* 0.88 and 1.12 and never takes the simulated median away from the real one   *)
(* (aggregateOpenF1LapRows, "calibration cannot explode lap times").           *)
BaselineSound ==
    baseline # None =>
        /\ \E table \in LapTables :
            LET raced == {n \in DOMAIN table : Raced(table[n])} IN
            /\ baseline.aggregates.lap.count + baseline.aggregates.excluded = Len(table)
            /\ Describes(baseline.aggregates.lap, [n \in raced |-> table[n].time])
            /\ \A i \in 1..3 : Describes(baseline.aggregates.sector[i],
                                         [n \in raced |-> table[n].sector[i]])
        /\ \A i \in 1..3 :
            LET p == baseline.scales[i][1]
                q == baseline.scales[i][2]
                real == baseline.aggregates.sector[i].median
                simulated == SimMedians.sector[i]
            IN  /\ 88 * q <= 100 * p /\ 100 * p <= 112 * q
                /\ Distance(p * simulated, q * real) <= q * Distance(simulated, real)

(* A run is compared once with each reference that was asked for, by name or   *)
(* with all of the track's, and an id is reported unmatched or compared and    *)
(* not both; no compared reference is nearer to the run's total than the       *)
(* closest one (compareToReferenceIds, pickClosestReferenceMatch).             *)
ReferencesTold ==
    \A r \in Run : out[r] # None =>
        LET body == read[r].body
            compared == {row.id : row \in ToSet(out[r].compared)}
            unmatched == ToSet(out[r].unmatched)
            near(row) == \A other \in ToSet(out[r].compared) : Abs(row.delta) <= Abs(other.delta)
        IN  /\ compared \cup unmatched = ToSet(body.ids) \cup
                    (IF body.all THEN ToSet(ReferenceIds(Track)) ELSE {})
            /\ compared \cap unmatched = {} /\ compared \subseteq ToSet(ReferenceIds(Track))
            /\ Cardinality(compared) = Len(out[r].compared)
            /\ IF compared = {} THEN out[r].closest = NoMatch
               ELSE \E row \in ToSet(out[r].compared) : row.id = out[r].closest /\ near(row)
=============================================================================
