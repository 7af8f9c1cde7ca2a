# Verification of the F1 Gambit API

TLA+ models of the parts of the service in which several requests, transactions
or events touch the same state, the TLC runs that check them on small
instances, and TLAPS proofs about them for every instance. Paths below are
relative to the repository (`src/modules/...` is `src/src/modules/...` in
`PROJECT.json`).

## The system

A NestJS API over PostgreSQL (TypeORM), with a BullMQ queue on Redis, run as one
long-lived process or as a Lambda. Every handler is a chain of awaited
statements; other requests run between any two of them, in the same process or
in another. Nothing in memory protects a row: what does are conditional
UPDATEs, transactions, their row locks and UNIQUE constraints. Version columns are
meant to, but TypeORM's `save()` increments them without comparing them.

| component | state | operations | hard |
|---|---|---|---|
| lobby lifecycle (`lobby/lobby.service.ts`) | `lobbies` row: status, opponent, configurations, ready flags, result | create, join, submitConfig, poll with auto-start, startSimulation | read-modify-save of a whole entity, compare-and-swap, revert after failure, crashes |
| settlement (`lobby.service.ts: settleWithRetry`) | `users`, `bets`, `lobbies`, telemetry | one transaction, whose retry never comes | concurrent settlements of one user, deadlocks, partial failure |
| betting (`betting/betting.service.ts`) | `bets`, `users.balance` | placeBet, settleBetsInTransaction | check outside the transaction, concurrent balance changes |
| rating (`users/rating.service.ts`) | `users`: rating, counters | processResult | lost updates, rounding and the floor |
| rank queue (`users/leaderboard-rank.*`) | `users.rank`, BullMQ jobs | enqueue, process | refused duplicates, retries, saves of stale entities |
| notifications (`lobby.gateway.ts`, listeners) | rooms | join room, broadcast | events before the join are missed |
| solo pipeline (`simulation/simulation.service.ts`) | telemetry, runs, sessions, leaderboard | run | four writes without a transaction |
| simulation engine (`simulation/engine/*`) | one run: lap, wear, stint, random streams | run | boundaries of laps and pit windows, streams in step |
| F1 data cache (`f1-data/f1-data.service.ts`) | memory map, cache table | getCached | ages, stale fallback, duplicate loads |
| telemetry charts (`telemetry/telemetry.service.ts`) | none | functions of stored rows | agree with what the engine did |
| calibration (`calibration/*`) | baseline row | refresh, read | filters, quartiles, clamps |
| track references (`track/*`) | none | comparison of a run | unknown and repeated ids, ties |
| AI and strategies (`ai/ai.service.ts`, `simulation/strategy/*`) | none | setups, windows, advice, proposals | short races, bounds of validation |
| auth, invite codes | `users`, `lobbies` | register, generate code | check then insert behind a UNIQUE constraint |
| results, track catalogue, OpenF1 proxy, season domain | none | | read-only |

The lobby calls the simulation, then opens the settlement transaction, which
calls rating and betting; after the commit it emits `LOBBY_BATTLE_FINISHED`,
heard by the gateway (broadcast), the betting log and the rank listener
(enqueue). Betting reads the lobby's status. Rating, betting and the rank job
all write `users`.

What makes each correct:

- lobby: one opponent for good; and as long as no save is stale, one race at a time,
  one settlement, the result of what is shown; ready or late lobbies race, races end;
- settlement and betting: bets and lobby change together and once; nobody goes below
  zero; no stake and no payout counts twice; bets made in time are settled;
- rating and rank queue: every change of a rating has its cause; after the last
  settlement the ranks become those of the ratings;
- solo pipeline: a session's result, run, telemetry and leaderboard entry agree,
  and nothing is shown before what it rests on is stored;
- engine: one stop at most, legal laps, both cars see the same safety cars; what
  timeline, heatmap, charts and grid say of a race fits together;
- calibration, references, strategies: sound for every table, id and track;
- cache: what is served is no older than two TTLs and the time of storing it, and
  only an empty cache lets the API's failure through.

What the code or its documents promise beyond that and does not hold is listed under
Findings, the gravest with a run that TLC ends with a counterexample.

`PROJECT.json` lists every hazard at its line.

## Modules

| module | models | code |
|---|---|---|
| `LobbyData` | the row of a lobby, what `save()` writes, the entities submitConfig and the poll make | `lobby.entity.ts`, `lobby.service.ts` |
| `LobbyPromise` | the abstract lobby: seat, choices, result | |
| `Lobby` | the requests of one lobby, one action per awaited statement | `lobby.service.ts` 62-399 |
| `LobbyProofs` | theorems about `Lobby` | |
| `SettlementData` | rows of users, lobbies, bets; status and payout of a bet | entities, `betting.service.ts` 96-136 |
| `LedgerPromise` | the abstract ledger: bets and settlements that happen at one moment | |
| `Settlement` | placeBet and settleWithRetry as transactions with row locks, stale saves, deadlocks, lost acknowledgements | `betting.service.ts`, `rating.service.ts`, `lobby.service.ts` 285-399 |
| `SettlementProofs` | theorems about `Settlement`: types, bets and results | |
| `LedgerProofs` | theorems about `Settlement`: balances, refinement | |
| `FoldLemmas` | lemmas about minimal elements, sums and folds, for `LedgerProofs`, `RaceProofs` and `SoloRunProofs` | |
| `RaceData` | plan, decision to stop, grid, lead changes, heatmap | `race-strategy.mapper.ts`, `race-competition.lib.ts`, `multiplayer-timeline.util.ts`, `sector-heatmap.util.ts` |
| `Race` | the laps of a battle's two cars, its stored result, what the charts show of it | `simulation.engine.ts` 129-505, `simulation.service.ts` 270-334 |
| `RaceProofs` | theorems about `Race` | |
| `StrategyData` | setups, compounds, windows, advice and risk of the AI; proposed strategies; the calibration's | `ai.service.ts`, `strategy.service.ts`, `reference-sim.ts`, `track-seeds.ts` |
| `TelemetryData` | charts of stored laps, comparison of two cars | `telemetry.service.ts` |
| `RankData` | Elo, ranks | `rating.service.ts`, `leaderboard-rank.processor.ts` |
| `Ranks` | ratings and ranks among settlements, rank jobs, bets and registrations | `leaderboard-rank.*`, `rating.service.ts`, `betting.service.ts` 58-75, `auth.service.ts` |
| `RanksProofs` | theorems about `Ranks` | |
| `F1Cache` | both levels of the cache, fetch, fallback, restarts | `f1-data.service.ts`, `ergast-http.client.ts` |
| `F1CacheProofs` | theorems about `F1Cache` | |
| `CalibrationData` | laps that count, quartiles, scales of sectors | `openf1-laps.aggregate.ts`, `calibration-scale.ts` |
| `ReferenceData` | which references a run is compared with, and which is closest | `track-reference-metrics.ts` |
| `SoloRun` | sessions, `SimulationService.run` and its four writes, posted scores, calibration refreshes | `simulation.service.ts`, `sessions.service.ts`, `telemetry.service.ts`, `leaderboard.service.ts`, `setup.service.ts`, `calibration.service.ts` |
| `SoloRunProofs` | theorems about `SoloRun` | |
| `MCLobby`, `MCSettlement`, `MCRace`, `MCRanks`, `MCF1Cache`, `MCSoloRun` | small instances | |

### Lobby

State: `row` (the committed row), `late` (the deadline has passed), and for each
request slot `pc` (the statement it runs next), `user`, `op`, `seen` (the entity
it read) and `base` (what the SELECT of its `save()` found). A slot is used
again when its request returns, so `Request` bounds how many requests are
served at once, not how many there are. `joined`, `settlements` and
`disturbed` are history; no guard reads them.

`JoinPreview`, `JoinClaim`, `AnnounceJoin` are `join`; `SubmitRead` and `PollRead`
the reads of `submitConfig` and `checkAndAutoStartInternal`, `SaveSelect` and
`SaveUpdate` the two statements of their `save()`, `Reload` the read after it;
`CompareAndSwap`, `LoadFull`, `Settle`, `RaceFails`, `Revert`, `AnnounceFinish`
are `startSimulation`. `SettleUnacknowledged` is a COMMIT whose answer is lost,
`Die` a crash, a frozen Lambda, or an error outside the try block.

A configuration is known by who made it (player or AI), the result of a race by
the configurations that raced, the invite code, track and weather not at all.
The read-only calls are left out. `submitConfig` never looks at the deadline,
and neither does the model.

TypeORM's `save()` writes the columns in which the entity differs from the row
its own SELECT finds; so a save of a stale entity undoes what others did in
between. Much of what one would like to say of a lobby therefore holds only as
long as no save is stale; `disturbed` records the first stale save or lost
acknowledgement, and the properties of the second group say "while nothing
disturbed it". The seat of the opponent is proof against stale saves, because
whoever submits or polls has read it taken.

### Settlement

State: the committed `users`, `lobbies`, `bets`; per transaction `pc`, the
entities in memory (`entity`), what the SELECT of its `save()` found (`base`), the
UPDATEs still to run (`unsaved`), the rows it has `locked` and what it `wrote` in
them; per settlement its `outcome`, the bets `found` and `settled`; per bet slot its
`draft`. A lobby stands for its settlement and a bet slot for the call that
fills it. Reads see committed rows and the transaction's own writes; an UPDATE
waits for the lock and writes the columns in which the entity differs from
`base`; COMMIT publishes everything; a cycle of waiting transactions makes one of
them the victim. `races` stands for rating and all counters, which are written
together. `inTime` and `had`, the balances that a user has had, are history.

`save()` compares no version: TypeORM increments `@VersionColumn` and compares it in
`find` with an optimistic lock only. So nothing throws the error for which
`settleWithRetry` starts over, and the first attempt is the last; the model has one.
An error rolls back (`RollBack`) and goes to the catch block of `startSimulation`,
which puts the lobby back to configuring (`Revert`). `FinishUnacknowledged` is a COMMIT
that takes effect while its acknowledgement is lost: the same catch block then reverts a
lobby that is settled. `Reopen` is a stale save of the lobby (a submission of
`Lobby`), which does that to any lobby.

`Lobby` decides when a race starts; here a configuring lobby may start it at any time,
again after a revert, and has one settlement at a time. A stale save that reopens a
lobby while its race is running would let two settlements of it overlap; that is a hazard
of the list which no run covers.

`LedgerPromise` is what is left to promise: each bet and each settlement happens at one
moment to everybody it touches, on a balance that its user has had, if not on the present
one.

### Race

State, per car: `plan`, `tyres`, `drawn` (draws made of the shared stream), `best`,
`total`, and the telemetry `rows` and `events`; the shared `stream`, given as the
draws that are low enough for a safety car; the stored `result`. `DriveLap` is one
pass of the loop of `SimulationEngine.run`; the host's race is computed before the
opponent's, as `runMultiplayer` calls them. `StoreResult` is the rest of
`runMultiplayer` and `buildStoredMultiplayerSimulationResult`. The physics is a
choice: what a sector takes (with setup, fuel, traffic, overheating and noise) and
what a lap takes of the tyres. One sector stands for the three, which the code
treats alike; times are whole numbers of their smallest difference, and the epsilons of
comparisons zero. `Kept` is `toFixed(3)`, rounding to a multiple of `Grain`, in the
gap of the stored result and the laps of the comparison. Events
without effect on the race (wheel spin, dirty air, DRS) and the telemetry derived
from a lap are left out. `TelemetryData` and `StrategyData` keep no state: they are
checked against the rows and plans of `Race`. The rivals' times are given: they
depend on seed and track alone where the track has reference metrics or a baseline, as
every seeded track has. `randInt` with crossed bounds, as the AI's windows of short races
have them, gives what the code gives.

### Ranks

State: the columns `rating` and `rank`; per settlement, bet and registration its
`pc`, the users it has read (`entity`), the same users as the SELECT of its `save()`
found them (`base`) and its `subject`, the winner or the bettor; `raced` counts the
settlements of a lobby; per lobby the state of its `job` and its `attempts`;
`ranked`, what the UPDATE in progress has computed. `unqueued` is history: since the
last SELECT of a job a change was made that has no event (a stale save, a new user), or
its event or its job was lost. An event whose job is refused for its id is not among them.

`ReadPlayers`, `SelectForSave` and `CommitRatings` are `processResultInTransaction`,
`Enqueue` and `EventLost` the listener after the commit. `TakeJob`, `SelectRanks`,
`UpdateRanks`, `Complete` and `JobFails` are the worker: the UPDATE is two steps because
its subquery sees what is committed when it begins. `ReadBettor`, `SelectForSave` and
`SaveBettor` are the statements of `placeBet`, which put back the rating and the rank that
it has read where they differ from what the SELECT of `save()` finds; `CheckName`,
`InsertUser` and `NameTaken` are `register`. Ratings are integers as in the code; the
expected score is the constant `Expected`, in thousandths. There is one worker,
BullMQ's default, in one process. The transaction and its row locks are those of
`Settlement`; here a settlement reads and commits.

### F1Cache

State: the shared `row`, the `memory` of each process, and per request `pc`, how long
it has `waited`, the row it `found` and the age of what it has `loaded`; `up` says
whether the API answers. `served` and `known` are history: the age of what a request
was given as good, and who asked when the key was stored. Time is counted in ticks,
and everything with a time stamp is kept as its age, which stops growing where it
makes no difference any more.

`AskMemory` and `FindRow` are the two levels of `getCached`, `Load` the fetch,
`StoreRow` and `Remember` the writes, `LoadFails` and `StoreFails` the catch block with
its fallback to the old row. `FindFails` is the SELECT's own failure, which is outside
the try block and reaches the caller. A payload may have left the API at any time of the
fetch, and the row is stamped when the UPSERT is done. `Restart` empties a process, `Tick`
lets time pass while nobody awaits one answer longer than `Flight`: for a fetch that is
the timer (`timeoutMs`), for the statements of the database, which the code does not bound,
an assumption. The TTL is no shorter than `Flight`. One key is modelled, since keys share
nothing.

### SoloRun

State: one row of `session`, `snapshot` and `board` per session, its `runs`, the
calibration `baseline`; per run `pc`, what it has `read` and its result `out`; per
refresh the laps it `fetched`. `alone` and `agreed` are history: which runs no other
run of their session overlapped, and whether such a run was the last to write.

`Create`, `Patch`, `SubmitSetup` and `PostScore` are the endpoints. `Begin`,
`Simulate`, `FindSnapshot`, `PutSnapshot`, `StoreRun`, `StoreResult` and `SubmitScore`
are `SimulationService.run` with the statements of `telemetry.persist`, `saveResult` and
`LeaderboardService.submit`; `Fail` ends it anywhere and nothing is undone.
`FetchLaps` and `Upsert` are `refreshBaselineForTrack`. The engine's result is one of
the `Totals`, a table refers to a result by its run, and requests that are refused
change nothing and are left out. The optional F1 lookup stores nothing. Lap times of
OpenF1 are tenths of a second, quartiles quarters of that, scales fractions. The k-th of
the sorted values is defined by what is below and up to it (`Kth`), and a filter as a
fold (`Kept`), since the prover cannot expand the library's SortSeq and SelectSeq.

## Runs

| run | instance | shows |
|---|---|---|
| `lobby` | 2 requests, 3 users, stale saves, crashes, lost acknowledgements | `TypeOK`, `OneOpponent`, `OpponentStays`; until something disturbs the lobby `OneRacer`, `SettledOnce`, `RacedAsShown`, `FinishedIsFinal` and the refinement `KeepsPromise` |
| `lobby_live` | 2 requests, 2 users, fairness | `RaceStarts`, `RaceEnds` |
| `lobby_finished` | 2 requests, violation | a stale submission reopens a finished lobby |
| `settlement` | 2 lobbies of the same 2 players in opposite roles, 1 bet, fairness | `SettlementEnds`, refinement `KeepsLedgerPromise` |
| `settlement_bets` | 1 lobby, 3 users, 2 bets of stake 2, failures, lost acknowledgements, up to 2 races | `TypeOK` (no negative balance), `BalanceWithin`, `BetsFollowResult`, `InTimeBetsSettled` |
| `settlement_late` | violation | a bet committed after the race began |
| `settlement_lost` | violation | a stake or a payout overwritten |
| `race` | 7 laps, 3 pairs of entries, 2 sector times, a safety car, a lock-up; every seeded track, weather and personality | `TypeOK`, `SafetyCarsShared`, `TimesAddUp`, `StintsTold`, `StopsInTime`, `TimelineTellsLead`, `HeatmapsAgree`, `ChartsAgree`, `StrategiesFit` |
| `ranks` | 2 lobbies, each raced once, 1 bet, 2 registrations of one name, failures, fairness | `TypeOK`, `RecomputeOwed`, `EloFair`, `RatingsTraced`, `RanksFollow` |
| `ranks_duplicate` | one lobby raced twice, violation | the second job is refused and the ranks stay wrong |
| `cache` | 2 processes with a request each, an API that comes and goes, failing statements, restarts, fairness | `TypeOK`, `FreshEnough`, `FailsOnlyWhenEmpty`, `AnswersCome` |
| `solo` | 1 session, 3 runs, 1 refresh, failures | `TypeOK`, `StoresAgree`, `WrittenInOrder`, `BaselineSound`, `ReferencesTold` |

Bounds. Two requests are what every race between a read and a write needs; slots
are used again, so sequences are not bounded, and the safety proofs cover any number
of slots. Three users are the host, the opponent and one who
comes too late. Two settlements with the players in opposite order are the
shortest cycle of locks. Two bets and up to two races (`MaxRaces`) of one lobby are a
stake and a payout that overwrite each other, and a lobby that is settled, reverted or
reopened, and settled again. The initial balance (3) covers one bet of 2 but not two,
so that what a stale save gives back lets a second bet through.
`settlements` stops counting at 2, which stands for "more than one". Deadlock is
not checked: a lobby nobody calls any more rests.

Seven laps are the fewest in which the capped middle of a window (laps - 5) can
find worn tyres; wear per lap is scaled up as the race is scaled down. The pairs of
entries stop for each of the three reasons and not at all, with windows reversed
and off the race; two sector times make ties, leads that change and laps that are
level. `Grain` is 2, so that a time may be in the middle of two multiples.

In `ranks` each lobby is raced once, in `ranks_duplicate` one is raced twice, so that the
second job's id is that of one that waits, runs or has failed; the other lobby has the
player who registers. The
first ratings are near the floor (114 and 105) or on both sides of where K changes
(1999 and 1990, which a win takes past 2000). A job has two attempts (five in the
code): one that is retried and one that is the last. Expected scores are given for
gaps up to 1400 points, beyond which no rating changes by rounding. In `cache` a TTL
is two ticks and each fetch or statement takes at most one, so that an entry is new,
ageing or stale when a slow load or UPSERT overtakes it. The two requests, which meet in
the table, have a process each; that requests of one process overlap as well is left to
the proofs, which allow any number anywhere. In
`solo` three runs are two that overlap and one after them; a body names references
that exist, do not and repeat; OpenF1 answers with laps of which each filter removes
some, with sectors slower, faster and as fast as simulated, or with nothing of use.

Fairness. `WF(Continue(r))`: a request that has begun runs on as the event loop
and the database answer; nothing is assumed of requests that have not come.
`SF(PollRead)`: both clients poll every three seconds until the battle is over
(`docs/FE_MULTIPLAYER_PROMPT.md` 231), and a poll is served also when other
requests keep taking the slot, hence strong. `WF(DeadlinePasses)`: time passes.
`RaceFails` is not fair. In `Settlement`, `WF(Continue(t))` covers statements, the
catch block and the choice of a deadlock's victim. In `Ranks`, `SelectForSave`,
`CommitRatings`, `Enqueue` and the worker's steps are fair; failures and lost events are
not. In `F1Cache` each statement ends, with or without success: the fetch
because its timer aborts it, SELECT and UPSERT because the database answers or refuses.
The liveness runs of the lobby and of `settlement` leave out crashes, because a
lobby whose racer dies does stay simulating (hazard at `lobby.service.ts` 297).

## Findings

Each of these is a run that checks one sentence of the repository and finds it violated.

1. A stale submission reopens a finished lobby, which is then raced and settled
   again (`lobby_finished`).
2. A bet checked before the race may be inserted after it, and stays pending for
   good (`settlement_late`).
3. Balances rely on a comparison of versions that `save()` does not make
   (`settlement_lost`).
4. A rank job that BullMQ refuses as a duplicate is not redundant when the active one
   has read the ratings already; the ranks are wrong until the next battle ends
   (`ranks_duplicate`).

Code and documents disagree in these places too. They have no run of their own; a property
that holds says what is left of the promise.

- Of two submissions that overlap, the later save takes the other player's back, and an AI
  configuration may race for him, where `docs/FE_MULTIPLAYER_PROMPT.md` 223 and 232 expect
  it to be kept. It is the stale save of finding 1; `KeepsPromise` says that
  nothing else takes a submission back.
- A bet puts back the rating that its user had before a race, although
  `user.entity.ts` 46 says that `save()` rejects it: the cause is that of finding 3.
  `RatingsTraced` has it among the causes of a change.
- `simulation.engine.ts` 482 calls the stop a change of compound, and
  `race-strategy.mapper.ts` 20-23 plans MEDIUM after HARD; the engine puts on HARD
  whatever was planned, so a car that starts on HARD gets HARD again (487).
  `StintsTold` says what the rows tell: HARD and a new age.
- `multiplayer-timeline.util.ts` 53 takes the lead "from cumulative race time", but lap
  times leave out the 22 seconds of a stop: the driver whom the changes name last may lose.
  `TimelineTellsLead` says that he then lost by no more than his extra stops took.
- `docs/architecture/constructor-gambit-upgrade.md` 92 gives the memory over the cache table a short
  TTL; the code gives it the whole TTL of the table, from the moment it reads the row.
  `FreshEnough` is therefore about two TTLs, not one and a little.

Nothing in the repository says otherwise of the following, so no run is about them: a
run of a session puts the setup back that it started with; of two overlapping refreshes of
a calibration the last to write stays; a bet's call may fail although its COMMIT took
effect.

## Proofs

`LobbyProofs` proves for any sets of users and requests, with `MayDie` and
`MayLoseAck` free:

- `TypeCorrect`, `SeatTakenOnce`, `SeatKept` from `SeatInv`: the types; the row
  waits iff its seat is free; a request past a read of a configuring lobby holds
  entities whose opponent is that of the row, so that no save, stale or not,
  writes another one; only the claimant that found the seat free announces.
- `RacerAlone`, `SettlesOnce`, `ResultMatchesConfigs`, `FinishedForGood` from
  `QuietInv`, which adds what holds while `disturbed` is empty: the status is simulating
  iff a request is between swap and commit, that request is alone, what it has loaded
  is what the row shows, settlements count the finished state, accepted seats show the
  player's configuration. That these theorems speak of undisturbed lobbies only is
  their limit: finding 1 and the overlapping submissions after it are what happens otherwise.
- `LobbyKeepsPromise`: until something disturbs it, `Lobby` implements `LobbyPromise`. It
  has one step per action; a save is a `Submit` or a `FillEmptySeats`, every step that leaves
  the row alone a stutter.

None of these invariants is inductive alone: `OneRacer` needs to know that the swap
finds no racer because status and racer agree, and `SettledOnce` that a racer's
commit finds the lobby unsettled.

`SettlementProofs` proves for any sets of users, lobbies and bets, any stakes, failures,
lost acknowledgements and reopened lobbies:

- `TypeCorrect` from `ShapeInv`: whoever saves has something to save, whoever
  places a bet has a draft of its own, whoever is idle holds no lock, and what a
  settlement holds are pending bets of its lobby. All that ends a transaction
  without a commit is one case, `Abort`; a deadlock's victim holds a row that
  another waits for and so is not idle.
- `BetsMatchResult` (`BetsFollowResult`) and `BetsInTimeSettled` from `SettlementInv`. A
  lobby may leave the finished state with its bets settled; what is claimed is about
  the step in which a bet changes. `InTimeBetsSettled` is not inductive: it needs
  `Racing`, that a settlement runs in a simulating lobby, so that once it has looked for
  the pending bets no bet comes in time any more, and those it must settle are the ones
  it has found or settled.

`LedgerProofs` goes on from there, with `save()` as it is. Its invariant `LedgerInv`, which
TLC checked on the instances of both settlement runs before it was proved, says:

- `OneLock`, which is also `RowsLockedOnce`: an UPDATE waits for the row's lock, so that
  one transaction at most has written a row.
- `InOrder`: what a bet is to write is a balance that its user has had, which covered the
  stake, less the stake; what a settlement is to write, or has written, is a balance that
  the user has had plus some of what he is paid, none of it twice (`Fair`).
- `History`: every balance that a user has had is within today's stakes and payouts.
- that a bet is settled once and bets on a player of its lobby.

It gives

- `BalancesStayWithin` (`BalanceWithin`): a balance is never above the initial one plus
  every payout nor below the initial one less every stake. What is overwritten is lost
  (finding 3), but nothing counts twice.
- `LedgerPromiseKept`: `Settlement` implements `LedgerPromise`; `InsertBet` is its
  `PlaceBet`, `FinishLobby` and `FinishUnacknowledged` its `SettleBattle`, `Revert` and
  `Reopen` its `ReopenBattle`, the start of a race its `StartBattle`, and all else
  stutters.

Sums over any finite set of bets come from `FoldLemmas`: the fold of the community modules
is a CHOOSE of a recursive function, whose existence, and whose independence of the order
of the elements, are proved by a minimal counterexample, with the library's WFMin in the
place of induction.

`RaceProofs` proves for races of any length, any entries, sector times that
with all that can be added to a lap stay below `NoTime` (the code's Infinity), wear, lock-ups and shared streams:

- `TypeCorrect`: the types, and no tyre is more than worn out.
- `OneSafetyCar` from `StreamInv`: a car has made three draws per lap of the shared
  stream, whatever it drew for itself, and its safety-car laps are the laps n whose
  draw 3n is low; so two cars agree in every lap both have driven.
- `StopMade` from `StopInv`: a car that has not stopped still has a lap before its
  window closes, unless the window closes in the last laps.
- `RowsTellStints` from `StintInv`, which links the last row with the tyres the car is
  on and every stop with the row after it.
- `TotalsAddUp` from `TimesInv`: `totalRace` is the sum of the laps so far plus the
  stops, the best lap is the least of them, and a lap is told as fastest iff it was when
  it was driven.
- `HeatmapsMark`, `TimelineNamesLead` and `ChartsTell` from `RaceInv`, the conjunction of
  all these with what a stored result holds. They are about functions of two arrays of
  rows of any length: the leader is a recursive function, which is shown to exist and to
  be who was last ahead, again by a minimal counterexample; lead changes alternate
  because each is a change of it. By race time the last leader is behind by his
  extra stops at most, as `totalRace` is lap times and stops (`LapsTook`). What `toFixed(3)` leaves of a time is within half a
  `Grain` of it (`KeptNear`), so the rounded deltas of the laps sum to the difference of
  the sums within half a `Grain` per lap (`SumWithin`).
- `AnyTrackFits`: what the AI draws and what is proposed is sound on any track of 35
  laps or more whose aero sensitivity rounds to a wing, not only on the seeded ones that
  TLC evaluates. On shorter ones the bounds of the AI's `randInt` cross, and a window may
  close too late for a stop; no seeded track is shorter than 44 laps.
  `StrategiesSound` adds the windows that players typed, for races of three laps or more:
  a race of one or two has no lap in which `raceStrategyDtoToRaceStrategy` could put them.

`RanksProofs` proves for any users, lobbies, bets and registrations, any number of
races and attempts, any table of expected scores and any first ratings from the
floor up:

- `TypeCorrect`, with one job at the worker at most.
- `RatingsFair` from `Floored`: what was read is no rating below the floor, so that rounding and
  the floor move a winner up and a loser down, and by the same amount where the
  players' K agree and neither meets the floor.
- `EveryRatingTraced` (`RatingsTraced`): a step that changes a rating is a settlement of
  its owner, his registration, or a bet of his that puts back the one it has read; no
  INSERT passes a name that is taken. It needs the types alone.
- `NoRecomputeLost`, where each lobby is settled once at most, from `QueueInv`:
  `RecomputeOwed` is not inductive, since a job writes what it has computed some time
  before. The invariant adds that these are the ranks of the ratings, unless something is
  owed or unqueued (`RankedInv`), and that no job has the id of an event on its way
  (`FirstEvent`). Without the assumption `ranks_duplicate` has a counterexample.

`F1CacheProofs` proves for any processes and requests and any TTL no shorter than what a
fetch or a statement may take (`Flight`):

- `TypeCorrect`, with nobody waiting longer than that.
- `ServedFreshEnough` from `AgeInv`: the payload of a fresh row is older than the row
  by a fetch and an UPSERT at most, that of a fresh entry in memory older than the entry
  by one TTL more, whether it came from a row or from a load; an entry is fresh for less
  than one TTL. Together that is less than two TTLs and two `Flight`s.
- `StoredKeyAnswers` from `KnownInv`: rows are never deleted, so a request made when
  the key was stored has found a row by the time it loads, unless its own SELECT fails.

`SoloRunProofs` proves for any sessions, names, setups, bodies, engine results,
posted scores, runs, refreshes and answers of OpenF1:

- `TypeCorrect` from `TypeInv`.
- `ShownIsStored` from `OrderInv`: a run that is past a write finds what it wrote, or
  what a later run wrote, in the table (`HasStored`), and what is shown is stored
  (`InOrder`).
- `LastRunShown` from `AgreeInv`: a run that nobody overlapped finds in each table it
  has written its own result (`HasToItself`), and so do the four tables once it is
  done, until the next run begins or a score is posted (`AllAgree`).
  Every other step is calm: it changes no table of a run's session.
- `BaselineStands` (`BaselineSound`) from `BaselineInv`: a refresh that is about to store
  holds a table with samples, and a stored row was made from one. The rest is about any
  such table: `KthFound` (among finitely many values there is a k-th, by a minimal set of
  values up to one), `KthAscends`, `AtCuts` and `AtAscends` (what lies below and above a
  point between two of them) give the quartiles of `StatsDescribe`; samples are positive,
  so the medians are and `ScaleSound` follows from the cases of the clamp.
- `ComparedAsAsked` (`ReferencesTold`) from `ToldInv`: since its engine ran, a run holds
  what `Outcome` makes of the body it began with. `DistinctIs`, `KeptIs` and `ClosestIs`
  say what the three loops compute of any sequence: each is a fold of the community
  modules, which is unfolded place by place (`StepsExist`, `DistinctSteps`, ...) and
  followed by a set of good places that holds 0 and each successor (`UpwardSet`).

All assumptions are the named ones of the modules: that constants have the types
the code gives them, that `NoUser`, `None` and the like are none of the values they
stand beside, and that kinds of calls are disjoint.

Only model-checked: liveness (`RaceStarts`, `RaceEnds`, `SettlementEnds`,
`RanksFollow`, `AnswersCome`), since neither fairness nor ENABLED is in the prover's
reach. No module that is proved about uses RECURSIVE operators; where induction over a
length or a set is needed, the library's theorems cannot be applied (they take an
operator), and the proofs pick a minimal counterexample instead.

## Not modelled, and what could follow

- Physics of the engine (no reals in TLC): what a sector takes and wears is a choice,
  and the telemetry derived from it without feeding back is left out.
- What two processes with a worker each do to one rank UPDATE; settlements of
  `Ranks` under the locks of `Settlement`, whose composition multiplies the states
  and adds no writer of a rank.
- Notifications: broadcasts to whoever is in the room, no state of their own.
- Results, track catalogue, OpenF1 proxy: queries. `updateStatus` and
  `updateBudgetAllocation` of a session have no caller.
- The season and legacy race domain, of which the application imports a list of
  presets; HTTP wiring, login, schema, formatting of exports, the wording of advice.
- Two settlements of one lobby at the same time, which a stale save makes possible (see
  Settlement). `Settlement` would need a transaction for each settlement, not each lobby.
- The read-only calls of modelled services, and invite codes, where one UNIQUE
  constraint decides.

What could follow: settlements of one lobby that overlap; the sector and top-speed deltas of the reference comparison, and
the reads that map a lobby's row to a response.
