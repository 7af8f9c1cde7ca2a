------------------------------- MODULE Ranks --------------------------------
(***************************************************************************)
(* users.rank, and who writes it.  A settlement changes ratings and emits  *)
(* LOBBY_BATTLE_FINISHED; LeaderboardRankListener adds a job whose id is   *)
(* the lobby's; LeaderboardRankProcessor runs the job, one UPDATE of every *)
(* rank.  In between, whoever save()s a user he has read before writes the *)
(* old rank back, and the old rating with it (see RolledBack below),       *)
(* and a player who registers has no rank.                                 *)
(*                                                                         *)
(* One worker takes the jobs (BullMQ's default concurrency) and one process *)
(* runs it.  The settlement's transaction and its row locks are those of   *)
(* Settlement.tla; here it is a read and a commit.                         *)
(***************************************************************************)
EXTENDS RankData

CONSTANTS
    Lobby,
    Host, Opponent,     \* Host[l], Opponent[l]: the players of lobby l
    Outcome,            \* Outcome[l]: the winners that l's race may have
    Races,              \* Races[l]: how often l is settled (Lobby.tla: more than once is possible)
    Bet, Bettors,       \* placeBet calls that run at a time, and who makes them
    Signup, NewUser,    \* register calls, all with the name and the e-mail of NewUser
    FirstRatings,       \* the ratings that users may have at the start; NewUser is Unrated
    MaxAttempts,        \* of a job
    MayFail             \* may the queue or a job fail?

ASSUME RanksAssumption ==
    /\ Host \in [Lobby -> User]
    /\ Opponent \in [Lobby -> User]
    /\ \A l \in Lobby : Host[l] # Opponent[l] /\ Outcome[l] \subseteq {Host[l], Opponent[l], NoUser}
    /\ Races \in [Lobby -> Nat]
    /\ NewUser \in User
    /\ Bettors \subseteq User
    /\ FirstRatings \subseteq [User -> Nat]
    /\ \A first \in FirstRatings :
        first[NewUser] = Unrated /\ \A u \in User : first[u] \notin 1..99
    /\ MaxAttempts \in Nat \ {0}
    /\ MayFail \in BOOLEAN
    /\ Lobby \cap Bet = {} /\ Lobby \cap Signup = {} /\ Bet \cap Signup = {}

Call == Lobby \cup Bet \cup Signup

VARIABLES
    rating, rank,   \* columns of users
    pc,             \* pc[c]: what the settlement, bet or registration c does next
    entity,         \* entity[c]: users as c has read them: their ratings and ranks
    base,           \* base[c]: the same users as the SELECT of c's save() found them
    subject,        \* subject[c]: the winner of the race that c settles, or the bettor
    raced,          \* raced[l]: how often l has been settled
    job,            \* job[l]: the state of the job with id l
    attempts,       \* attempts[l]: how often it has failed
    ranked,         \* the ranks that the UPDATE in progress has computed
    unqueued        \* history: since the last SELECT a change was made that has no event,
                    \* or its event or its job was lost

vars == <<rating, rank, pc, entity, base, subject, raced, job, attempts, ranked, unqueued>>
users == <<rating, rank>>
memory == <<entity, base>>
calls == <<pc, entity, base, subject, raced>>
queue == <<job, attempts, ranked>>

NoEntity == [rating |-> [u \in User |-> Unrated], rank |-> [u \in User |-> Unranked]]
NoRanks == [u \in User |-> Unranked]

Init ==
    /\ rating \in FirstRatings
    /\ rank = RanksOf(rating)
    /\ pc = [c \in Call |-> "idle"]
    /\ entity = [c \in Call |-> NoEntity]
    /\ base = [c \in Call |-> NoEntity]
    /\ subject = [c \in Call |-> NoUser]
    /\ raced = [l \in Lobby |-> 0]
    /\ job = [l \in Lobby |-> "none"]
    /\ attempts = [l \in Lobby |-> 0]
    /\ ranked = NoRanks
    /\ unqueued = FALSE

Goto(c, step) == pc' = [pc EXCEPT ![c] = step]

\* Entities in memory: the rows of us, and garbage once c returns.
RowsOf(us) ==
    [rating |-> [u \in User |-> IF u \in us THEN rating[u] ELSE Unrated],
     rank |-> [u \in User |-> IF u \in us THEN rank[u] ELSE Unranked]]
Read(c, us) == entity' = [entity EXCEPT ![c] = RowsOf(us)] /\ UNCHANGED base
Drop(c) == entity' = [entity EXCEPT ![c] = NoEntity] /\ base' = [base EXCEPT ![c] = NoEntity]

-----------------------------------------------------------------------------
(* save(user): a SELECT, then an UPDATE of the columns that differ.  No    *)
(* version is compared.                                                    *)

Saves(c) == IF c \in Lobby THEN {Host[c], Opponent[c]} ELSE {subject[c]}

SelectForSave(c) ==
    /\ pc[c] = "select"
    /\ base' = [base EXCEPT ![c] = RowsOf(Saves(c))]
    /\ Goto(c, "update")
    /\ UNCHANGED <<users, entity, subject, raced, queue, unqueued>>

SavedColumn(us, current, selected, changed) ==
    [u \in User |-> IF u \in us /\ changed[u] # selected[u] THEN changed[u] ELSE current[u]]

-----------------------------------------------------------------------------
(* processResultInTransaction, and the event after the commit              *)

ReadPlayers(l) ==
    /\ pc[l] = "idle" /\ raced[l] < Races[l]
    /\ {Host[l], Opponent[l]} \subseteq Registered(rating)
    /\ Read(l, {Host[l], Opponent[l]})
    /\ \E w \in Outcome[l] : subject' = [subject EXCEPT ![l] = w]
    /\ Goto(l, "select")
    /\ UNCHANGED <<users, raced, queue, unqueued>>

Settled(l) == NewRatings(Host[l], Opponent[l], entity[l].rating[Host[l]],
                         entity[l].rating[Opponent[l]], subject[l])

\* The UPDATEs of both players and COMMIT.  The entities have their new ratings and
\* the ranks that were read.
CommitRatings(l) ==
    /\ pc[l] = "update"
    /\ rating' = SavedColumn(Saves(l), rating, base[l].rating,
                    [entity[l].rating EXCEPT ![Host[l]] = Settled(l).host,
                                             ![Opponent[l]] = Settled(l).opponent])
    /\ rank' = SavedColumn(Saves(l), rank, base[l].rank, entity[l].rank)
    /\ raced' = [raced EXCEPT ![l] = @ + 1]
    /\ Goto(l, "emit")
    /\ Drop(l)
    /\ subject' = [subject EXCEPT ![l] = NoUser]
    /\ UNCHANGED <<queue, unqueued>>

\* Mutant: another lobby's job is enough.
EnqueueUnlessBusy(l) ==
    /\ pc[l] = "emit"
    /\ job' = IF \A k \in Lobby : job[k] = "none" THEN [job EXCEPT ![l] = "waiting"] ELSE job
    /\ Goto(l, "idle")
    /\ UNCHANGED <<users, memory, subject, raced, attempts, ranked, unqueued>>

\* handleBattleFinished.  BullMQ refuses an id it has, be the job waiting, active, or
\* failed and kept.
Enqueue(l) ==
    /\ pc[l] = "emit"
    /\ job' = IF job[l] = "none" THEN [job EXCEPT ![l] = "waiting"] ELSE job
    /\ Goto(l, "idle")
    /\ UNCHANGED <<users, memory, subject, raced, attempts, ranked, unqueued>>

\* The process dies after the commit, or Redis refuses: the event is lost.
EventLost(l) ==
    /\ MayFail
    /\ pc[l] = "emit"
    /\ unqueued' = TRUE
    /\ Goto(l, "idle")
    /\ UNCHANGED <<users, memory, subject, raced, queue>>

-----------------------------------------------------------------------------
(* The worker                                                              *)

Working == {"active", "ranked", "written"}
WorkerFree == \A k \in Lobby : job[k] \notin Working

\* Mutant: a worker that runs two jobs.
TakeJobBeside(l) ==
    /\ job[l] = "waiting"
    /\ job' = [job EXCEPT ![l] = "active"]
    /\ UNCHANGED <<users, calls, attempts, ranked, unqueued>>

TakeJob(l) ==
    /\ job[l] = "waiting" /\ WorkerFree
    /\ job' = [job EXCEPT ![l] = "active"]
    /\ UNCHANGED <<users, calls, attempts, ranked, unqueued>>

\* The subquery of the UPDATE: what is committed when the statement begins.
SelectRanks(l) ==
    /\ job[l] = "active"
    /\ ranked' = RanksOf(rating)
    /\ job' = [job EXCEPT ![l] = "ranked"]
    /\ unqueued' = FALSE
    /\ UNCHANGED <<users, calls, attempts>>

\* Mutant: only those who have a rank get a new one.
UpdateRankedOnly(l) ==
    /\ job[l] = "ranked"
    /\ rank' = [u \in User |-> IF rank[u] # Unranked THEN ranked[u] ELSE rank[u]]
    /\ ranked' = NoRanks
    /\ job' = [job EXCEPT ![l] = "written"]
    /\ UNCHANGED <<rating, calls, attempts, unqueued>>

\* Its UPDATE: a user registered since then is not in the subquery, and stays unranked.
UpdateRanks(l) ==
    /\ job[l] = "ranked"
    /\ rank' = ranked
    /\ ranked' = NoRanks
    /\ job' = [job EXCEPT ![l] = "written"]
    /\ UNCHANGED <<rating, calls, attempts, unqueued>>

\* removeOnComplete
Complete(l) ==
    /\ job[l] = "written"
    /\ job' = [job EXCEPT ![l] = "none"]
    /\ attempts' = [attempts EXCEPT ![l] = 0]
    /\ UNCHANGED <<users, calls, ranked, unqueued>>

\* The statement fails, or the worker dies and the job stalls: the job waits for
\* its next attempt.  After the last it is kept as failed (removeOnFail: 100).
JobFails(l) ==
    /\ MayFail
    /\ job[l] \in Working
    /\ attempts' = [attempts EXCEPT ![l] = @ + 1]
    /\ LET last == attempts[l] + 1 = MaxAttempts IN
       /\ job' = [job EXCEPT ![l] = IF last THEN "failed" ELSE "waiting"]
       /\ unqueued' = (unqueued \/ (last /\ job[l] # "written"))
    /\ ranked' = NoRanks
    /\ UNCHANGED <<users, calls>>

-----------------------------------------------------------------------------
(* Others who write users                                                  *)

\* placeBet reads the bettor ...
ReadBettor(b) ==
    /\ pc[b] = "idle"
    /\ \E u \in Bettors \cap Registered(rating) :
        /\ subject' = [subject EXCEPT ![b] = u]
        /\ Read(b, {u})
    /\ Goto(b, "select")
    /\ UNCHANGED <<users, raced, queue, unqueued>>

\* ... and saves him with his new balance, and the rating and rank he had.  No job
\* follows.
SaveBettor(b) ==
    /\ pc[b] = "update"
    /\ rating' = SavedColumn(Saves(b), rating, base[b].rating, entity[b].rating)
    /\ rank' = SavedColumn(Saves(b), rank, base[b].rank, entity[b].rank)
    /\ unqueued' = (unqueued \/ users' # users)
    /\ subject' = [subject EXCEPT ![b] = NoUser]
    /\ Goto(b, "idle")
    /\ Drop(b)
    /\ UNCHANGED <<raced, queue>>

\* register: the name and the e-mail are free ...
CheckName(s) ==
    /\ pc[s] = "idle"
    /\ NewUser \notin Registered(rating)
    /\ Goto(s, "insert")
    /\ UNCHANGED <<users, memory, subject, raced, queue, unqueued>>

\* Mutant: no UNIQUE constraint; the second INSERT replaces the first.
InsertAnyway(s) ==
    /\ pc[s] = "insert"
    /\ rating' = [rating EXCEPT ![NewUser] = NewRating]
    /\ rank' = [rank EXCEPT ![NewUser] = Unranked]
    /\ unqueued' = TRUE
    /\ Goto(s, "idle")
    /\ UNCHANGED <<memory, subject, raced, queue>>

\* ... and the row is inserted without a rank, after the password is hashed.
InsertUser(s) ==
    /\ pc[s] = "insert"
    /\ NewUser \notin Registered(rating)
    /\ rating' = [rating EXCEPT ![NewUser] = NewRating]
    /\ unqueued' = TRUE
    /\ Goto(s, "idle")
    /\ UNCHANGED <<rank, memory, subject, raced, queue>>

\* UNIQUE refuses the second row; QueryFailedFilter answers 409.
NameTaken(s) ==
    /\ pc[s] = "insert"
    /\ NewUser \in Registered(rating)
    /\ Goto(s, "idle")
    /\ UNCHANGED <<users, memory, subject, raced, queue, unqueued>>

-----------------------------------------------------------------------------
Settle(l) ==
    ReadPlayers(l) \/ SelectForSave(l) \/ CommitRatings(l) \/ Enqueue(l) \/ EventLost(l)
Work(l) == TakeJob(l) \/ SelectRanks(l) \/ UpdateRanks(l) \/ Complete(l)
PlaceBet(b) == ReadBettor(b) \/ SelectForSave(b) \/ SaveBettor(b)
Register(s) == CheckName(s) \/ InsertUser(s) \/ NameTaken(s)

Next ==
    \/ \E l \in Lobby : Settle(l) \/ Work(l) \/ JobFails(l)
    \/ \E b \in Bet : PlaceBet(b)
    \/ \E s \in Signup : Register(s)

Spec == Init /\ [][Next]_vars

\* What has begun runs on, and the worker takes what waits.
FairSpec ==
    /\ Spec
    /\ \A l \in Lobby : /\ WF_vars(SelectForSave(l)) /\ WF_vars(CommitRatings(l))
                       /\ WF_vars(Enqueue(l)) /\ WF_vars(Work(l))

-----------------------------------------------------------------------------
(* Properties                                                              *)

Entity == [rating : [User -> Nat], rank : [User -> Nat]]

\* Columns, calls and jobs have the values the code gives them, and the worker has
\* one job at a time.
TypeOK ==
    /\ rating \in [User -> Nat]
    /\ rank \in [User -> Nat]
    /\ pc \in [Call -> {"idle", "select", "update", "emit", "insert"}]
    /\ entity \in [Call -> Entity]
    /\ base \in [Call -> Entity]
    /\ subject \in [Call -> User \cup {NoUser}]
    /\ raced \in [Lobby -> Nat]
    /\ job \in [Lobby -> {"none", "waiting", "failed"} \cup Working]
    /\ attempts \in [Lobby -> Nat]
    /\ ranked \in [User -> Nat]
    /\ unqueued \in BOOLEAN
    /\ \A k, l \in Lobby : job[k] \in Working /\ job[l] \in Working => k = l

RanksRight == rank = RanksOf(rating)

\* Some event has still to reach the queue, or some job to read the ratings.
Owed == \E l \in Lobby : pc[l] = "emit" \/ job[l] \in {"waiting", "active"}

\* When ranks are not those of the ratings, an event or a job is still on its way, or
\* a change was made without an event (a stale save, a new user) or lost its own (the
\* queue fails, the job fails for the last time).  A lobby that is settled once has
\* no other job that its event could be refused for.
RecomputeOwed == RanksRight \/ Owed \/ unqueued \/ \E l \in Lobby : job[l] = "ranked"

\* When the races are over the ranks become those of the ratings and stay so,
\* unless a change was made that has no event or lost it.
RanksFollow == <>[](RanksRight \/ unqueued)

\* rating.service.ts: nobody loses rating by winning or gains by losing, and two
\* players of one K factor exchange what they win and lose, short of the floor.
EloFair ==
    \A l \in Lobby : pc[l] \in {"select", "update"} =>
        LET h == entity[l].rating[Host[l]]
            o == entity[l].rating[Opponent[l]]
            new == Settled(l)
        IN  /\ subject[l] = Host[l] => new.host >= h /\ new.opponent <= o
            /\ subject[l] = Opponent[l] => new.host <= h /\ new.opponent >= o
            /\ K(h) = K(o) /\ new.host > 100 /\ new.opponent > 100
                    => new.host + new.opponent = h + o

Registers(u) == rating[u] = Unrated /\ rating'[u] = NewRating
HasRaced(u) == \E l \in Lobby : raced'[l] > raced[l] /\ u \in {Host[l], Opponent[l]}
RolledBack(u) ==
    \E b \in Bet : /\ subject[b] = u /\ pc[b] = "update" /\ pc'[b] = "idle"
                   /\ rating[u] # entity[b].rating[u] /\ rating'[u] = entity[b].rating[u]

\* A rating changes when a race is settled, for its two players, when a name that
\* nobody has is registered, or when a bet of its user's puts back the one it read
\* (which user.entity.ts says a save() is rejected for, and Settlement's Ledger shows
\* it is not); no registration resets one.
RatingsTraced ==
    [][\A u \in User : rating'[u] # rating[u] =>
        Registers(u) \/ HasRaced(u) \/ RolledBack(u)]_vars

-----------------------------------------------------------------------------
(* What the documents say and the code does not do                         *)

\* leaderboard-rank.listener.ts: a duplicate of a job "already waiting/active" is
\* redundant.  With nothing on its way and nothing lost, the ranks are those of the
\* ratings.
DuplicatesRedundant ==
    (\A l \in Lobby : pc[l] = "idle" /\ job[l] \in {"none", "failed"}) => RanksRight \/ unqueued
=============================================================================
