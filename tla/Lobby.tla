------------------------------- MODULE Lobby --------------------------------
(***************************************************************************)
(* LobbyService: join, submitConfig, getLobbyState with its auto-start,    *)
(* and startSimulation, on the row of one lobby in PostgreSQL (READ        *)
(* COMMITTED).  A request is a chain of awaited statements; other requests *)
(* run between any two of them.  Each action below is one statement and    *)
(* the code up to the next await.                                          *)
(*                                                                         *)
(* The settlement transaction is one action here: Settlement.tla opens it. *)
(***************************************************************************)
EXTENDS LobbyData, Naturals

CONSTANTS
    Request,    \* slots: requests served at the same time
    MayDie,     \* may a request die half way (crash, Lambda timeout)?
    MayLoseAck  \* may a COMMIT succeed and be reported as failed?

ASSUME SwitchAssumption == MayDie \in BOOLEAN /\ MayLoseAck \in BOOLEAN

VARIABLES
    row,        \* the lobby's row
    late,       \* the configuration deadline has passed
    pc,         \* pc[r]: the statement request r runs next
    user,       \* user[r]: who sent it
    op,         \* op[r]: "submit" or "poll" while it holds an entity
    seen,       \* seen[r]: the row as r read it
    base,       \* base[r]: the row as the SELECT of r's save() found it
    \* History, never read by an action:
    joined,     \* users announced by LOBBY_OPPONENT_JOINED
    settlements,\* committed settlements; 2 stands for more than one
    disturbed   \* what went wrong so far

vars == <<row, late, pc, user, op, seen, base, joined, settlements, disturbed>>
history == <<joined, settlements, disturbed>>

\* Where a request can be.  The last four lie between the compare-and-swap
\* of startSimulation and its return.
Owning == {"load", "race", "revert", "finish"}
Step == {"idle", "claim", "announce", "saveSelect", "saveUpdate", "reload", "cas"} \cup Owning

Goto(r, step) == pc' = [pc EXCEPT ![r] = step]

\* The request is over and its entities are garbage.
Return(r) ==
    /\ Goto(r, "idle")
    /\ user' = [user EXCEPT ![r] = NoUser]
    /\ op' = [op EXCEPT ![r] = "none"]
    /\ seen' = [seen EXCEPT ![r] = NewRow]
    /\ base' = [base EXCEPT ![r] = NewRow]

Init ==
    /\ row = NewRow
    /\ late = FALSE
    /\ pc = [r \in Request |-> "idle"]
    /\ user = [r \in Request |-> NoUser]
    /\ op = [r \in Request |-> "none"]
    /\ seen = [r \in Request |-> NewRow]
    /\ base = [r \in Request |-> NewRow]
    /\ joined = {}
    /\ settlements = 0
    /\ disturbed = {}

-----------------------------------------------------------------------------
(* join                                                                    *)

\* The preview: a lobby that waits, with a free seat, and not one's own.
JoinPreview(r, u) ==
    /\ pc[r] = "idle"
    /\ row.status = "waiting"
    /\ u # Host
    /\ row.opponent = NoUser
    /\ Goto(r, "claim")
    /\ user' = [user EXCEPT ![r] = u]
    /\ UNCHANGED <<row, late, op, seen, base, history>>

\* Mutant: the UPDATE of join without its conditions.
JoinClaimById(r) ==
    /\ pc[r] = "claim"
    /\ row' = [row EXCEPT !.status = "configuring", !.opponent = user[r]]
    /\ Goto(r, "announce")
    /\ UNCHANGED <<late, user, op, seen, base, history>>

\* UPDATE ... WHERE id AND status = WAITING AND opponentUserId IS NULL.
JoinClaim(r) ==
    /\ pc[r] = "claim"
    /\ \/ /\ row.status = "waiting"
          /\ row.opponent = NoUser
          /\ row' = [row EXCEPT !.status = "configuring", !.opponent = user[r]]
          /\ Goto(r, "announce")
          /\ UNCHANGED <<user, op, seen, base>>
       \/ /\ ~(row.status = "waiting" /\ row.opponent = NoUser)
          /\ Return(r)
          /\ UNCHANGED row
    /\ UNCHANGED <<late, history>>

AnnounceJoin(r) ==
    /\ pc[r] = "announce"
    /\ joined' = joined \cup {user[r]}
    /\ Return(r)
    /\ UNCHANGED <<row, late, settlements, disturbed>>

\* Time: configDeadline is set by the claim and passes at some point.
DeadlinePasses ==
    /\ row.status # "waiting"
    /\ ~late
    /\ late' = TRUE
    /\ UNCHANGED <<row, pc, user, op, seen, base, history>>

-----------------------------------------------------------------------------
(* submitConfig and getLobbyState: read, decide, save the entity           *)

Reads(r, what) ==
    /\ op' = [op EXCEPT ![r] = what]
    /\ seen' = [seen EXCEPT ![r] = row]

\* Mutant: submitConfig without assertStatus.
SubmitReadAnyStatus(r, u) ==
    /\ pc[r] = "idle"
    /\ IsMember(u, row)
    /\ Goto(r, "saveSelect")
    /\ Reads(r, "submit")
    /\ user' = [user EXCEPT ![r] = u]
    /\ UNCHANGED <<row, late, base, history>>

\* submitConfig: a member's submission to a lobby that is configuring.  The
\* deadline is not looked at.  Invalid setups end here and change nothing.
SubmitRead(r, u) ==
    /\ pc[r] = "idle"
    /\ IsMember(u, row)
    /\ row.status = "configuring"
    /\ Goto(r, "saveSelect")
    /\ Reads(r, "submit")
    /\ user' = [user EXCEPT ![r] = u]
    /\ UNCHANGED <<row, late, base, history>>

\* Mutant: the poll returns early whenever a player is not ready.
PollReadIfReady(r, u) ==
    /\ pc[r] = "idle"
    /\ IsMember(u, row)
    /\ row.status = "configuring"
    /\ BothReady(row)
    /\ Goto(r, IF AutoFillEntity(row) = row THEN "reload" ELSE "saveSelect")
    /\ Reads(r, "poll")
    /\ UNCHANGED <<row, late, user, base, history>>

\* checkAndAutoStartInternal goes on when both are ready or time is up; it
\* saves only if it changed the entity.
PollRead(r, u) ==
    /\ pc[r] = "idle"
    /\ IsMember(u, row)
    /\ row.status = "configuring"
    /\ row.opponent # NoUser
    /\ BothReady(row) \/ late
    /\ Goto(r, IF AutoFillEntity(row) = row THEN "reload" ELSE "saveSelect")
    /\ Reads(r, "poll")
    /\ UNCHANGED <<row, late, user, base, history>>

\* The entity that r saves: what it read, with its changes.
Entity(r) ==
    IF op[r] = "submit" THEN SubmitEntity(seen[r], user[r]) ELSE AutoFillEntity(seen[r])

SaveSelect(r) ==
    /\ pc[r] = "saveSelect"
    /\ base' = [base EXCEPT ![r] = row]
    /\ Goto(r, "saveUpdate")
    /\ UNCHANGED <<row, late, user, op, seen, history>>

\* The row changed between r's read and r's UPDATE.
SavesStale(r) == ~(seen[r] = base[r] /\ base[r] = row)

SaveUpdate(r) ==
    /\ pc[r] = "saveUpdate"
    /\ row' = SavedRow(row, base[r], Entity(r))
    /\ disturbed' = IF SavesStale(r) THEN disturbed \cup {"staleSave"} ELSE disturbed
    /\ Goto(r, "reload")
    /\ user' = [user EXCEPT ![r] = NoUser]
    /\ seen' = [seen EXCEPT ![r] = NewRow]
    /\ base' = [base EXCEPT ![r] = NewRow]
    /\ UNCHANGED <<late, op, joined, settlements>>

\* Both callers go by a fresh read; only the poll looks at the configurations.
StartsRace(what, lobby) ==
    /\ lobby.status = "configuring"
    /\ BothReady(lobby)
    /\ what = "poll" => BothConfigured(lobby)

Reload(r) ==
    /\ pc[r] = "reload"
    /\ \/ /\ StartsRace(op[r], row)
          /\ Goto(r, "cas")
          /\ op' = [op EXCEPT ![r] = "none"]
          /\ seen' = [seen EXCEPT ![r] = NewRow]
          /\ UNCHANGED <<user, base>>
       \/ /\ ~StartsRace(op[r], row)
          /\ Return(r)
    /\ UNCHANGED <<row, late, history>>

-----------------------------------------------------------------------------
(* startSimulation and settleWithRetry                                     *)

\* Mutant: the status is set without being compared.
SwapById(r) ==
    /\ pc[r] = "cas"
    /\ row' = [row EXCEPT !.status = "simulating"]
    /\ Goto(r, "load")
    /\ UNCHANGED <<late, user, op, seen, base, history>>

\* UPDATE ... SET status = SIMULATING WHERE id AND status = CONFIGURING.
CompareAndSwap(r) ==
    /\ pc[r] = "cas"
    /\ \/ /\ row.status = "configuring"
          /\ row' = [row EXCEPT !.status = "simulating"]
          /\ Goto(r, "load")
          /\ UNCHANGED <<user, op, seen, base>>
       \/ /\ row.status # "configuring"
          /\ Return(r)
          /\ UNCHANGED row
    /\ UNCHANGED <<late, history>>

\* Mutant: the configurations are not looked at again after the swap.
LoadFullUnchecked(r) ==
    /\ pc[r] = "load"
    /\ seen' = [seen EXCEPT ![r] = row]
    /\ Goto(r, "race")
    /\ UNCHANGED <<row, late, user, op, base, history>>

\* The configurations to race are those of this read.
LoadFull(r) ==
    /\ pc[r] = "load"
    /\ seen' = [seen EXCEPT ![r] = row]
    /\ Goto(r, IF BothConfigured(row) /\ row.opponent # NoUser THEN "race" ELSE "revert")
    /\ UNCHANGED <<row, late, user, op, base, history>>

\* runMultiplayer throws, or the settlement transaction rolls back for good.
RaceFails(r) ==
    /\ pc[r] = "race"
    /\ Goto(r, "revert")
    /\ UNCHANGED <<row, late, user, op, seen, base, history>>

\* Mutant: the catch block does not put the status back.
RevertNothing(r) ==
    /\ pc[r] = "revert"
    /\ Return(r)
    /\ UNCHANGED <<row, late, history>>

\* UPDATE ... SET status = CONFIGURING WHERE id: in the catch block, and when
\* a configuration is missing.
Revert(r) ==
    /\ pc[r] = "revert"
    /\ row' = [row EXCEPT !.status = "configuring"]
    /\ Return(r)
    /\ UNCHANGED <<late, history>>

SettledRow(r) == [row EXCEPT !.status = "finished", !.raced = seen[r].config]
OneMore(n) == IF n = 2 THEN 2 ELSE n + 1

\* The settlement transaction commits: the lobby is FINISHED with its result.
Settle(r) ==
    /\ pc[r] = "race"
    /\ row' = SettledRow(r)
    /\ settlements' = OneMore(settlements)
    /\ Goto(r, "finish")
    /\ UNCHANGED <<late, user, op, seen, base, joined, disturbed>>

\* The same, but the connection drops before the answer to COMMIT arrives:
\* the driver throws and the catch block runs.
SettleUnacknowledged(r) ==
    /\ MayLoseAck
    /\ pc[r] = "race"
    /\ row' = SettledRow(r)
    /\ settlements' = OneMore(settlements)
    /\ disturbed' = disturbed \cup {"lostAck"}
    /\ Goto(r, "revert")
    /\ UNCHANGED <<late, user, op, seen, base, joined>>

\* LOBBY_BATTLE_FINISHED is emitted and the lobby read once more.
AnnounceFinish(r) ==
    /\ pc[r] = "finish"
    /\ Return(r)
    /\ UNCHANGED <<row, late, history>>

-----------------------------------------------------------------------------
\* The process crashes, the Lambda is frozen, or a statement outside any try
\* block throws: the request ends where it is and nothing is undone.
Die(r) ==
    /\ MayDie
    /\ pc[r] # "idle"
    /\ Return(r)
    /\ UNCHANGED <<row, late, history>>

\* What a request does of itself, once it has begun.
Continue(r) ==
    \/ JoinClaim(r) \/ AnnounceJoin(r)
    \/ SaveSelect(r) \/ SaveUpdate(r) \/ Reload(r)
    \/ CompareAndSwap(r) \/ LoadFull(r) \/ Settle(r) \/ Revert(r) \/ AnnounceFinish(r)

Next ==
    \/ DeadlinePasses
    \/ \E r \in Request :
        \/ \E u \in User : JoinPreview(r, u) \/ SubmitRead(r, u) \/ PollRead(r, u)
        \/ Continue(r)
        \/ RaceFails(r) \/ SettleUnacknowledged(r) \/ Die(r)

Spec == Init /\ [][Next]_vars

\* A request that has begun goes on (the event loop and the database answer);
\* both clients poll until the battle is over, whatever else is served
\* (FE_MULTIPLAYER_PROMPT.md); time passes.
Fairness ==
    /\ WF_vars(DeadlinePasses)
    /\ \A r \in Request :
        /\ WF_vars(Continue(r))
        /\ SF_vars(\E u \in User : PollRead(r, u))

FairSpec == Spec /\ Fairness

-----------------------------------------------------------------------------
(* Properties                                                              *)

\* Types, and the stored result of a race is never half a result: it holds
\* the configurations of both seats (the check after the reload in
\* startSimulation), whatever stale saves have done to the row.
TypeOK ==
    /\ row \in Row
    /\ late \in BOOLEAN
    /\ pc \in [Request -> Step]
    /\ user \in [Request -> User \cup {NoUser}]
    /\ op \in [Request -> {"none", "submit", "poll"}]
    /\ seen \in [Request -> Row]
    /\ base \in [Request -> Row]
    /\ joined \in SUBSET User
    /\ settlements \in 0..2
    /\ disturbed \in SUBSET {"staleSave", "lostAck"}

\* However joins race, and whatever stale saves write back, the lobby has one
\* opponent, who is not the host; it waits exactly while it has none; and
\* nobody else was ever announced as having joined (join's conditional UPDATE).
OneOpponent ==
    /\ row.status = "waiting" <=> row.opponent = NoUser
    /\ row.opponent # Host
    /\ joined \subseteq {row.opponent}

\* The opponent's seat, once taken, never changes hands or becomes free.
OpponentStays == [][row.opponent # NoUser => row'.opponent = row.opponent]_vars

\* While every save was fresh, at most one request runs the race: the
\* compare-and-swap of startSimulation lets one of the submitters and pollers
\* through, also when an earlier race failed and is run again.
OneRacer ==
    disturbed = {} =>
        \A r \in Request : pc[r] \in Owning =>
            /\ row.status \in {"simulating", "finished"}
            /\ \A q \in Request : pc[q] \in Owning => q = r

\* While nothing disturbed it, a lobby is settled (ratings, bets, result) once
\* at most, and is finished exactly when it was.
SettledOnce ==
    disturbed = {} => /\ settlements < 2
                      /\ settlements = 1 <=> row.status = "finished"

\* While nothing disturbed it, the result of a finished lobby is that of the
\* configurations the lobby shows.
RacedAsShown ==
    disturbed = {} /\ row.status = "finished" => row.raced = row.config

\* While nothing disturbs it, a finished lobby stays finished and keeps its
\* result: what results/ and summary-export once returned they return again.
FinishedIsFinal ==
    [][row.status = "finished" /\ disturbed' = {} => row' = row]_vars

\* Until a stale save or a lost acknowledgement disturbs it, a lobby implements what
\* LobbyPromise states, step by step.  (A stale save may put a configuration or the
\* status back to what they were: submitConfig and the poll save whole entities.)
Promise == INSTANCE LobbyPromise WITH
    phase <- row.status, player <- row.opponent, choice <- row.config, result <- row.raced

KeepsPromise ==
    Promise!PromiseInit /\ [][disturbed' = {} => Promise!PromiseNext]_(Promise!promiseVars)

\* A lobby both of whose players are ready, or whose deadline has passed, gets
\* its race: some submitter or poller starts it (as long as saves are fresh).
RaceStarts ==
    (row.status = "configuring" /\ (BothReady(row) \/ late))
        ~> (row.status = "simulating" \/ disturbed # {})

\* A race that runs comes to an end, whatever stale saves do meanwhile.
RaceEnds == row.status = "simulating" ~> row.status # "simulating"

-----------------------------------------------------------------------------
(* What the documents say and the code does not do                         *)

\* FE_MULTIPLAYER_PROMPT.md: "`finished` - show results; stop polling."  A
\* finished lobby stays finished.
FinishedStaysFinished ==
    [][row.status = "finished" => row'.status = "finished"]_vars
=============================================================================
