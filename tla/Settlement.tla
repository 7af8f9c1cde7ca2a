----------------------------- MODULE Settlement -----------------------------
(***************************************************************************)
(* BettingService.placeBet and LobbyService.settleWithRetry: transactions  *)
(* of PostgreSQL (READ COMMITTED) that read users and save them.  Another  *)
(* transaction runs between any two statements; what a transaction wrote   *)
(* stays its own, and the rows it wrote locked, until it commits.          *)
(*                                                                         *)
(* save() compares no version (see Ledger below), so nothing ever throws   *)
(* the error for which settleWithRetry starts over: its first attempt is   *)
(* the last.                                                               *)
(*                                                                         *)
(* Lobby.tla decides when a lobby races; here a lobby that is configuring  *)
(* may start its race at any time, and has one settlement at a time.       *)
(***************************************************************************)
EXTENDS SettlementData, Sequences

CONSTANTS
    MaxRaces,       \* bound: who has raced that often starts no other race
    MayFail         \* may a statement fail, an acknowledgement be lost, the process die?

ASSUME SettlementAssumption ==
    /\ MaxRaces \in Nat
    /\ MayFail \in BOOLEAN
    /\ Lobby \cap Bet = {}

\* A lobby stands for its settlement too, a bet for the call that places it.
Tx == Lobby \cup Bet

VARIABLES
    users, lobbies, bets,   \* the committed rows
    pc,         \* pc[t]: the statement transaction t runs next
    draft,      \* draft[b]: the bet that the call in slot b is to insert
    outcome,    \* outcome[l]: winner of the race that is being settled
    entity,     \* entity[t][u]: user u as t has it in memory, with its changes
    base,       \* base[t][u]: user u as the SELECT of t's save() found it
    unsaved,    \* unsaved[t]: users whose UPDATE t has still to run, in order
    locked,     \* locked[t]: users whose rows t has written and holds
    wrote,      \* wrote[t][u]: row u as t wrote it
    found,      \* found[l]: pending bets the settlement has still to settle
    settled,    \* settled[l]: bets it has settled
    inTime,     \* history: bets committed while their lobby was configuring
    had         \* history, had[u]: the balances that u has had

rows == <<users, lobbies, bets, inTime, had>>
vars == <<users, lobbies, bets, pc, draft, outcome, entity, base, unsaved, locked, wrote,
          found, settled, inTime, had>>

\* What is not read, and what is garbage.
NoRows == [u \in User |-> NewUserRow]

Init ==
    /\ users = [u \in User |-> NewUserRow]
    /\ lobbies = [l \in Lobby |-> NewLobbyRow]
    /\ bets = [b \in Bet |-> NoBet]
    /\ pc = [t \in Tx |-> "idle"]
    /\ draft = [b \in Bet |-> NoBet]
    /\ outcome = [l \in Lobby |-> NoUser]
    /\ entity = [t \in Tx |-> NoRows]
    /\ base = [t \in Tx |-> NoRows]
    /\ unsaved = [t \in Tx |-> <<>>]
    /\ locked = [t \in Tx |-> {}]
    /\ wrote = [t \in Tx |-> NoRows]
    /\ found = [l \in Lobby |-> {}]
    /\ settled = [l \in Lobby |-> {}]
    /\ inTime = {}
    /\ had = [u \in User |-> {InitialBalance}]

Goto(t, step) == pc' = [pc EXCEPT ![t] = step]

\* A transaction sees its own writes, and of others what they committed.
Seen(t, u) == IF u \in locked[t] THEN wrote[t][u] ELSE users[u]

\* COMMIT or ROLLBACK: locks are released and entities dropped.
EndTransaction(t) ==
    /\ entity' = [entity EXCEPT ![t] = NoRows]
    /\ base' = [base EXCEPT ![t] = NoRows]
    /\ unsaved' = [unsaved EXCEPT ![t] = <<>>]
    /\ locked' = [locked EXCEPT ![t] = {}]
    /\ wrote' = [wrote EXCEPT ![t] = NoRows]
    /\ found' = IF t \in Lobby THEN [found EXCEPT ![t] = {}] ELSE found
    /\ settled' = IF t \in Lobby THEN [settled EXCEPT ![t] = {}] ELSE settled

\* The call returns or throws; what it had in memory is garbage.
Return(t) ==
    /\ Goto(t, "idle")
    /\ draft' = IF t \in Bet THEN [draft EXCEPT ![t] = NoBet] ELSE draft
    /\ outcome' = IF t \in Lobby THEN [outcome EXCEPT ![t] = NoUser] ELSE outcome

-----------------------------------------------------------------------------
(* save(user): a SELECT, then an UPDATE of the columns that differ         *)

\* Promise.all sends the SELECTs of both saves before either UPDATE.
SelectForSave(t) ==
    /\ pc[t] = "select"
    /\ base' = [base EXCEPT ![t] = [u \in User |-> Seen(t, u)]]
    /\ Goto(t, "update")
    /\ UNCHANGED <<rows, draft, outcome, entity, unsaved, locked, wrote, found, settled>>

Unlocked(t, u) == \A q \in Tx \ {t} : u \notin locked[q]

SavedColumn(current, selected, changed) == IF changed = selected THEN current ELSE changed

SavedUser(t, u) ==
    [balance |-> SavedColumn(Seen(t, u).balance, base[t][u].balance, entity[t][u].balance),
     races   |-> SavedColumn(Seen(t, u).races, base[t][u].races, entity[t][u].races)]

\* After its last UPDATE a bet is inserted; a settlement that has saved the
\* players looks for bets, and one that has saved a bettor takes the next bet.
AfterSave(t) ==
    IF Tail(unsaved[t]) # <<>> THEN "update"
    ELSE IF t \in Bet THEN "insert"
    ELSE IF settled[t] = {} THEN "find" ELSE "bets"

\* Mutant: the user is saved through the repository, outside the transaction.
UpdateUserAtOnce(t) ==
    LET u == Head(unsaved[t]) IN
    /\ pc[t] = "update"
    /\ Unlocked(t, u)
    /\ users' = [users EXCEPT ![u] = SavedUser(t, u)]
    /\ had' = [had EXCEPT ![u] = @ \cup {SavedUser(t, u).balance}]
    /\ unsaved' = [unsaved EXCEPT ![t] = Tail(@)]
    /\ Goto(t, AfterSave(t))
    /\ UNCHANGED <<lobbies, bets, inTime, draft, outcome, entity, base, locked, wrote,
                   found, settled>>

\* UPDATE users: it waits for the lock on the row.  Where no column differs
\* there is no UPDATE, and no lock.
UpdateUser(t) ==
    LET u == Head(unsaved[t]) IN
    /\ pc[t] = "update"
    /\ \/ /\ entity[t][u] # base[t][u]
          /\ Unlocked(t, u)
          /\ wrote' = [wrote EXCEPT ![t][u] = SavedUser(t, u)]
          /\ locked' = [locked EXCEPT ![t] = @ \cup {u}]
       \/ /\ entity[t][u] = base[t][u]
          /\ UNCHANGED <<wrote, locked>>
    /\ unsaved' = [unsaved EXCEPT ![t] = Tail(@)]
    /\ Goto(t, AfterSave(t))
    /\ UNCHANGED <<rows, draft, outcome, entity, base, found, settled>>

\* An error rolls back.  settleWithRetry throws it on, and a settlement goes
\* to the catch block of startSimulation.
RollBack(t) ==
    /\ \/ /\ t \in Lobby
          /\ Goto(t, "revert")
          /\ UNCHANGED <<draft, outcome>>
       \/ /\ t \in Bet
          /\ Return(t)
    /\ EndTransaction(t)
    /\ UNCHANGED rows

\* q waits for a row that p has locked.
Waits(q, p) ==
    LET u == Head(unsaved[q]) IN
    pc[q] = "update" /\ entity[q][u] # base[q][u] /\ p # q /\ u \in locked[p]

\* PostgreSQL aborts one transaction of a cycle of waiting ones.
DeadlockVictim(t) ==
    /\ \E S \in SUBSET Tx : t \in S /\ \A p \in S : \E q \in S : Waits(q, p)
    /\ RollBack(t)

StatementFails(t) ==
    /\ MayFail
    /\ pc[t] \notin {"idle", "revert"}
    /\ RollBack(t)

\* The process dies: its transaction rolls back and nobody reverts the lobby.
Die(t) ==
    /\ MayFail
    /\ pc[t] # "idle"
    /\ Return(t)
    /\ EndTransaction(t)
    /\ UNCHANGED rows

-----------------------------------------------------------------------------
(* placeBet                                                                *)

\* The lobby is read before the transaction begins; any user may bet, on
\* either player, more than once.
CheckLobby(b, l, u, w, s) ==
    /\ pc[b] = "idle"
    /\ bets[b] = NoBet
    /\ lobbies[l].status = "configuring"
    /\ w \in Players(l)
    /\ draft' = [draft EXCEPT ![b] = [lobby |-> l, bettor |-> u, on |-> w, stake |-> s,
                                      status |-> "pending", payout |-> 0]]
    /\ Goto(b, "bettor")
    /\ UNCHANGED <<rows, outcome, entity, base, unsaved, locked, wrote, found, settled>>

\* Mutant: the balance is not compared with the stake (SQL integers may be
\* negative; here a balance below zero leaves the type).
ReadBettorOnCredit(b) ==
    LET u == draft[b].bettor IN
    /\ pc[b] = "bettor"
    /\ entity' = [entity EXCEPT ![b][u] = [Seen(b, u) EXCEPT !.balance = @ - draft[b].stake]]
    /\ unsaved' = [unsaved EXCEPT ![b] = <<u>>]
    /\ Goto(b, "select")
    /\ UNCHANGED <<rows, draft, outcome, base, locked, wrote, found, settled>>

ReadBettor(b) ==
    LET u == draft[b].bettor IN
    /\ pc[b] = "bettor"
    /\ draft[b].stake <= Seen(b, u).balance
    /\ entity' = [entity EXCEPT ![b][u] = [Seen(b, u) EXCEPT !.balance = @ - draft[b].stake]]
    /\ unsaved' = [unsaved EXCEPT ![b] = <<u>>]
    /\ Goto(b, "select")
    /\ UNCHANGED <<rows, draft, outcome, base, locked, wrote, found, settled>>

\* 400, Insufficient balance.
RefuseBet(b) ==
    /\ pc[b] = "bettor"
    /\ draft[b].stake > Seen(b, draft[b].bettor).balance
    /\ Return(b)
    /\ EndTransaction(b)
    /\ UNCHANGED rows

\* COMMIT publishes the users that t has written.
CommitUsers(t) ==
    /\ users' = [u \in User |-> Seen(t, u)]
    /\ had' = [u \in User |-> had[u] \cup {Seen(t, u).balance}]

\* INSERT INTO bets, COMMIT.  (If its acknowledgement is lost the call throws
\* and the bet stands; what the client does then is another call.)
InsertBet(b) ==
    /\ pc[b] = "insert"
    /\ CommitUsers(b)
    /\ bets' = [bets EXCEPT ![b] = draft[b]]
    /\ inTime' = IF lobbies[draft[b].lobby].status = "configuring"
                 THEN inTime \cup {b} ELSE inTime
    /\ Return(b)
    /\ EndTransaction(b)
    /\ UNCHANGED lobbies

-----------------------------------------------------------------------------
(* startSimulation and settleWithRetry                                     *)

\* The compare-and-swap, and a simulation that w wins.
StartRace(l, w) ==
    /\ pc[l] = "idle"
    /\ lobbies[l].status = "configuring"
    /\ \A u \in Players(l) : users[u].races < MaxRaces
    /\ lobbies' = [lobbies EXCEPT ![l].status = "simulating"]
    /\ outcome' = [outcome EXCEPT ![l] = w]
    /\ Goto(l, "players")
    /\ UNCHANGED <<users, bets, inTime, had, draft, entity, base, unsaved, locked, wrote,
                   found, settled>>

\* processResultInTransaction reads both players and adds the race to each.
ReadPlayers(l) ==
    /\ pc[l] = "players"
    /\ entity' = [entity EXCEPT ![l] =
                    [u \in User |-> IF u \in Players(l)
                                    THEN [Seen(l, u) EXCEPT !.races = @ + 1]
                                    ELSE NewUserRow]]
    /\ unsaved' = [unsaved EXCEPT ![l] = <<Host[l], Opponent[l]>>]
    /\ Goto(l, "select")
    /\ UNCHANGED <<rows, draft, outcome, base, locked, wrote, found, settled>>

IsPendingOn(b, l) == bets[b] # NoBet /\ bets[b].lobby = l /\ bets[b].status = "pending"

\* Mutant: find takes the settled bets of the lobby too.
FindAnyStatus(l) ==
    /\ pc[l] = "find"
    /\ found' = [found EXCEPT ![l] = {b \in Bet : bets[b] # NoBet /\ bets[b].lobby = l}]
    /\ Goto(l, "bets")
    /\ UNCHANGED <<rows, draft, outcome, entity, base, unsaved, locked, wrote, settled>>

\* Mutant: findOne in place of find.
FindOnePending(l) ==
    /\ pc[l] = "find"
    /\ \E B \in SUBSET {b \in Bet : IsPendingOn(b, l)} :
        /\ \A b, c \in B : b = c
        /\ found' = [found EXCEPT ![l] = B]
    /\ Goto(l, "bets")
    /\ UNCHANGED <<rows, draft, outcome, entity, base, unsaved, locked, wrote, settled>>

\* settleBetsInTransaction looks for the pending bets once.
FindPending(l) ==
    /\ pc[l] = "find"
    /\ found' = [found EXCEPT ![l] = {b \in Bet : IsPendingOn(b, l)}]
    /\ Goto(l, "bets")
    /\ UNCHANGED <<rows, draft, outcome, entity, base, unsaved, locked, wrote, settled>>

\* One turn of its loop: the bet is saved (no other transaction writes it),
\* and if something is paid, the bettor is read.
SettleBet(l, b) ==
    LET u == bets[b].bettor
        payout == Payout(bets[b], outcome[l])
    IN  /\ pc[l] = "bets"
        /\ b \in found[l]
        /\ found' = [found EXCEPT ![l] = @ \ {b}]
        /\ settled' = [settled EXCEPT ![l] = @ \cup {b}]
        /\ \/ /\ payout = 0
              /\ UNCHANGED <<pc, entity, unsaved>>
           \/ /\ payout > 0
              /\ entity' = [entity EXCEPT ![l][u] = [Seen(l, u) EXCEPT !.balance = @ + payout]]
              /\ unsaved' = [unsaved EXCEPT ![l] = <<u>>]
              /\ Goto(l, "select")
        /\ UNCHANGED <<rows, draft, outcome, base, locked, wrote>>

\* UPDATE lobbies ... FINISHED, COMMIT.
CommitSettlement(l) ==
    /\ pc[l] = "bets"
    /\ found[l] = {}
    /\ CommitUsers(l)
    /\ bets' = [b \in Bet |->
                  IF b \in settled[l] THEN SettledBet(bets[b], outcome[l]) ELSE bets[b]]
    /\ lobbies' = [lobbies EXCEPT ![l] = [status |-> "finished", winner |-> outcome[l]]]
    /\ EndTransaction(l)
    /\ UNCHANGED inTime

FinishLobby(l) ==
    /\ CommitSettlement(l)
    /\ Return(l)

\* The COMMIT takes effect and its acknowledgement is lost: the catch block of
\* startSimulation will revert a lobby that is settled.
FinishUnacknowledged(l) ==
    /\ MayFail
    /\ CommitSettlement(l)
    /\ Goto(l, "revert")
    /\ UNCHANGED <<draft, outcome>>

\* Mutant: the catch block does not put the status back.
RevertNothing(l) ==
    /\ pc[l] = "revert"
    /\ Return(l)
    /\ UNCHANGED <<rows, entity, base, unsaved, locked, wrote, found, settled>>

\* The catch block of startSimulation.
Revert(l) ==
    /\ pc[l] = "revert"
    /\ lobbies' = [lobbies EXCEPT ![l].status = "configuring"]
    /\ Return(l)
    /\ UNCHANGED <<users, bets, inTime, had, entity, base, unsaved, locked, wrote, found, settled>>

\* A submission of Lobby.tla that was read before a race is saved after it
\* (FinishedStaysFinished there): the lobby is configuring again, with the
\* winner of no race or of an older one.
Reopen(l, w) ==
    /\ pc[l] = "idle"
    /\ lobbies[l].status # "configuring"
    /\ lobbies' = [lobbies EXCEPT ![l] = [status |-> "configuring", winner |-> w]]
    /\ UNCHANGED <<users, bets, inTime, had, pc, draft, outcome, entity, base, unsaved,
                   locked, wrote, found, settled>>

-----------------------------------------------------------------------------
\* What a transaction that has begun does of itself, or the database to it.
Continue(t) ==
    \/ SelectForSave(t) \/ UpdateUser(t) \/ DeadlockVictim(t)
    \/ t \in Bet /\ (ReadBettor(t) \/ RefuseBet(t) \/ InsertBet(t))
    \/ t \in Lobby /\ (\/ ReadPlayers(t) \/ FindPending(t) \/ FinishLobby(t) \/ Revert(t)
                       \/ \E b \in Bet : SettleBet(t, b))

Next ==
    \/ \E t \in Tx : Continue(t) \/ StatementFails(t) \/ Die(t)
    \/ \E l \in Lobby : FinishUnacknowledged(l)
    \/ \E l \in Lobby : \E w \in Result(l) : StartRace(l, w) \/ Reopen(l, w)
    \/ \E b \in Bet, l \in Lobby, u, w \in User, s \in Stake : CheckLobby(b, l, u, w, s)

Spec == Init /\ [][Next]_vars

\* A transaction that has begun goes on until it ends.
FairSpec == Spec /\ \A t \in Tx : WF_vars(Continue(t))

-----------------------------------------------------------------------------
(* Properties                                                              *)

\* Types; a balance is never negative, however bets and settlements of one
\* user interleave (the check of the balance in placeBet, and absolute values
\* in every UPDATE).
TypeOK ==
    /\ users \in [User -> UserRow]
    /\ lobbies \in [Lobby -> LobbyRow]
    /\ bets \in [Bet -> BetRow \cup {NoBet}]
    /\ pc \in [Tx -> {"idle", "bettor", "players", "select", "update", "insert", "find",
                      "bets", "revert"}]
    /\ draft \in [Bet -> BetRow \cup {NoBet}]
    /\ outcome \in [Lobby -> User \cup {NoUser}]
    /\ entity \in [Tx -> [User -> UserRow]]
    /\ base \in [Tx -> [User -> UserRow]]
    /\ unsaved \in [Tx -> Seq(User)]
    /\ locked \in [Tx -> SUBSET User]
    /\ wrote \in [Tx -> [User -> UserRow]]
    /\ found \in [Lobby -> SUBSET Bet]
    /\ settled \in [Lobby -> SUBSET Bet]
    /\ inTime \subseteq Bet
    /\ had \in [User -> SUBSET Nat]

BetsOf(u) == {b \in Bet : bets[b] # NoBet /\ bets[b].bettor = u}
StakesOf(u) == SumFunction([b \in BetsOf(u) |-> bets[b].stake])
PayoutsOf(u) == SumFunction([b \in BetsOf(u) |-> bets[b].payout])

\* What saves of stale users may do to a balance, at worst: a stake or a payout
\* is overwritten, but none counts twice.  No stake is charged and no payout
\* paid a second time by whatever commits, fails, deadlocks, loses its
\* acknowledgement or is settled again (settleBetsInTransaction, placeBet).
BalanceWithin ==
    \A u \in User :
        /\ users[u].balance <= InitialBalance + PayoutsOf(u)
        /\ InitialBalance <= users[u].balance + StakesOf(u)

BetSettled(b) ==
    LET l == bets[b].lobby
        w == lobbies'[l].winner
        new == bets'[b]
    IN  /\ bets[b].status = "pending"
        /\ lobbies[l].status = "simulating" /\ lobbies'[l].status = "finished"
        /\ new.status = BetOutcome(bets[b], w)
        /\ new.payout \in {0, bets[b].stake, 2 * bets[b].stake}
        /\ new.payout = 0 <=> new.status = "lost"
        /\ new.payout = bets[b].stake <=> w = NoUser

BetChange == \A b \in Bet : bets[b] # NoBet /\ bets'[b] # bets[b] => BetSettled(b)

\* Bets and lobby change in one transaction, and a bet once: where a bet
\* changes it was pending, its lobby turns from simulating to finished, and the
\* bet gets the status and the payout that the winner stored with it gives it.
\* A lobby that is settled and then reverted or reopened changes no bet.
BetsFollowResult == [][BetChange]_vars

\* A bet committed before its lobby's race began is settled with the lobby,
\* however many races fail, are reverted or are raced again.
InTimeBetsSettled ==
    \A b \in inTime :
        lobbies[bets[b].lobby].status = "finished" => bets[b].status # "pending"

\* Bets and settlements implement the ledger in which each happens at one
\* moment, on a balance that its user has had.
Promise == INSTANCE LedgerPromise WITH
    account <- [u \in User |-> users[u].balance],
    past <- had,
    battle <- lobbies,
    slip <- bets

KeepsLedgerPromise == Promise!LedgerSpec

\* A settlement comes to an end, though transactions wait for each other in
\* cycles: the victim's lobby is reverted.
SettlementEnds ==
    \A l \in Lobby : lobbies[l].status = "simulating" ~> lobbies[l].status # "simulating"

-----------------------------------------------------------------------------
(* What the code says of itself and does not do                            *)

\* lobby.service.ts, user.entity.ts: a save() of a user that has changed since it
\* was read is rejected, so that no update is lost: a user's balance is the
\* initial one, less every stake, plus every payout.
Ledger ==
    \A u \in User : users[u].balance + StakesOf(u) = InitialBalance + PayoutsOf(u)

\* betting.service.ts: "Betting is only open while the lobby is configuring".
BetsOnlyWhileConfiguring ==
    [][\A b \in Bet : bets[b] = NoBet /\ bets'[b] # NoBet =>
            lobbies[bets'[b].lobby].status = "configuring"]_vars
=============================================================================
