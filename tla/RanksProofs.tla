---------------------------- MODULE RanksProofs ----------------------------
(***************************************************************************)
(* Theorems about Ranks, for every set of users, lobbies, bets and         *)
(* registrations, any number of races and any function of expected scores. *)
(***************************************************************************)
EXTENDS Ranks, FiniteSetTheorems, TLAPS

-----------------------------------------------------------------------------
(* Elo ratings and ranks                                                   *)

LEMMA ExpectedScoreType ==
    ASSUME NEW d \in Int
    PROVE  ExpectedScore(d) \in 0..1000
<1>1. Gap \in Nat /\ Expected \in [-Gap..Gap -> 0..1000]
  BY RankDataAssumption
<1>2. \A x \in -Gap..Gap : Expected[x] \in 0..1000
  BY <1>1
<1>3. CASE d > Gap
  <2>1. Gap \in -Gap..Gap
    BY <1>1
  <2>2. QED
    BY <1>2, <1>3, <2>1 DEF ExpectedScore
<1>4. CASE ~(d > Gap) /\ d < -Gap
  <2>1. -Gap \in -Gap..Gap
    BY <1>1
  <2>2. QED
    BY <1>2, <1>4, <2>1 DEF ExpectedScore
<1>5. CASE ~(d > Gap) /\ ~(d < -Gap)
  <2>1. d \in -Gap..Gap
    BY <1>1, <1>5
  <2>2. QED
    BY <1>2, <1>5, <2>1 DEF ExpectedScore
<1>6. QED
  BY <1>3, <1>4, <1>5

\* Rounding turns no loss into a gain and no gain into a loss.
LEMMA RoundedSign ==
    ASSUME NEW t \in Int
    PROVE  /\ Rounded(t) \in Int
           /\ t >= 0 => Rounded(t) >= 0
           /\ t <= 0 => Rounded(t) <= 0
BY DEF Rounded

LEMMA RoundedBounds ==
    ASSUME NEW t \in Int
    PROVE  /\ Rounded(t) \in Int
           /\ 1000 * Rounded(t) <= t + 500
           /\ t + 500 < 1000 * Rounded(t) + 1000
BY DEF Rounded

\* What is rounded is a multiple of 16, which is never half a point: the change
\* that one player gets is exactly what the other loses.
LEMMA RoundedOdd ==
    ASSUME NEW k \in {16, 32}, NEW t \in Int
    PROVE  Rounded(k * t) + Rounded(k * (-t)) = 0
<1> DEFINE gain == Rounded(k * t)
           loss == Rounded(k * (-t))
<1>1. /\ gain \in Int /\ 1000 * gain <= k * t + 500 /\ k * t + 500 < 1000 * gain + 1000
      /\ loss \in Int /\ 1000 * loss <= k * (-t) + 500 /\ k * (-t) + 500 < 1000 * loss + 1000
  BY RoundedBounds
<1> HIDE DEF gain, loss
<1>2. ASSUME k = 16
      PROVE  gain + loss = 0
  <2>1. /\ 1000 * gain <= 16 * t + 500 /\ 16 * t + 500 < 1000 * gain + 1000
        /\ 1000 * loss <= 500 - 16 * t /\ 500 - 16 * t < 1000 * loss + 1000
    BY <1>1, <1>2
  <2>2. QED
    BY <1>1, <2>1
<1>3. ASSUME k = 32
      PROVE  gain + loss = 0
  <2>1. /\ 1000 * gain <= 32 * t + 500 /\ 32 * t + 500 < 1000 * gain + 1000
        /\ 1000 * loss <= 500 - 32 * t /\ 500 - 32 * t < 1000 * loss + 1000
    BY <1>1, <1>3
  <2>2. QED
    BY <1>1, <2>1
<1>4. QED
  BY <1>2, <1>3 DEF gain, loss

\* calculateEloPair and the floor under it, for any two ratings.
LEMMA NewRatingsFair ==
    ASSUME NEW h \in User, NEW o \in User, h # o,
           NEW rh \in Nat, NEW ro \in Nat, NEW w \in User \cup {NoUser}
    PROVE  \A new : new = NewRatings(h, o, rh, ro, w) =>
           /\ new.host \in Nat /\ new.host >= 100
           /\ new.opponent \in Nat /\ new.opponent >= 100
           /\ w = h => new.host >= rh /\ (ro >= 100 => new.opponent <= ro)
           /\ w = o => (rh >= 100 => new.host <= rh) /\ new.opponent >= ro
           /\ K(rh) = K(ro) /\ new.host > 100 /\ new.opponent > 100
                => new.host + new.opponent = rh + ro
<1> DEFINE e == ExpectedScore(ro - rh)
           s == Score(h, o, w)
           z == Score(o, h, w)
           gain == Rounded(K(rh) * (s - e))
           loss == Rounded(K(ro) * (z - (1000 - e)))
           new == NewRatings(h, o, rh, ro, w)
<1>1. e \in 0..1000
  BY ExpectedScoreType
<1>2. /\ s \in 0..1000 /\ z \in 0..1000 /\ z = 1000 - s
      /\ w = h => s = 1000
      /\ w = o => s = 0
  BY DEF Score
<1>3. K(rh) \in {16, 32} /\ K(ro) \in {16, 32}
  BY DEF K
<1> HIDE DEF e, s, z
<1>4. /\ K(rh) * (s - e) \in Int /\ K(ro) * (z - (1000 - e)) \in Int
      /\ s = 1000 => K(rh) * (s - e) >= 0 /\ K(ro) * (z - (1000 - e)) <= 0
      /\ s = 0 => K(rh) * (s - e) <= 0 /\ K(ro) * (z - (1000 - e)) >= 0
  BY <1>1, <1>2, <1>3
<1>5. /\ gain \in Int /\ loss \in Int
      /\ s = 1000 => gain >= 0 /\ loss <= 0
      /\ s = 0 => gain <= 0 /\ loss >= 0
  BY <1>4, RoundedSign
<1>6. K(rh) = K(ro) => gain + loss = 0
  <2>1. z - (1000 - e) = -(s - e) /\ s - e \in Int
    BY <1>1, <1>2
  <2>2. QED
    BY <1>3, <2>1, RoundedOdd
<1>7. new.host = Floor(rh + gain) /\ new.opponent = Floor(ro + loss)
  BY DEF NewRatings, e, s, z
<1> HIDE DEF gain, loss, new
<1>8. /\ new.host \in Nat /\ new.host >= 100
      /\ new.opponent \in Nat /\ new.opponent >= 100
  BY <1>5, <1>7 DEF Floor
<1>9. w = h => new.host >= rh /\ (ro >= 100 => new.opponent <= ro)
  BY <1>2, <1>5, <1>7 DEF Floor
<1>10. w = o => (rh >= 100 => new.host <= rh) /\ new.opponent >= ro
  BY <1>2, <1>5, <1>7 DEF Floor
<1>11. K(rh) = K(ro) /\ new.host > 100 /\ new.opponent > 100
          => new.host + new.opponent = rh + ro
  BY <1>5, <1>6, <1>7 DEF Floor
<1>12. QED
  BY <1>8, <1>9, <1>10, <1>11 DEF new

\* Everyone who is registered has a rank.
LEMMA RanksOfType ==
    ASSUME NEW r \in [User -> Nat]
    PROVE  RanksOf(r) \in [User -> Nat]
<1> SUFFICES ASSUME NEW u \in User, u \in Registered(r)
             PROVE  Cardinality({v \in Registered(r) : r[v] > r[u]}) \in Nat
  BY DEF RanksOf, Unranked
<1>1. {v \in Registered(r) : r[v] > r[u]} \subseteq User
  BY DEF Registered
<1>2. QED
  BY <1>1, RankDataAssumption, FS_Subset, FS_CardinalityType

-----------------------------------------------------------------------------
(* Types                                                                   *)

Step == {"idle", "select", "update", "emit", "insert"}
JobState == {"none", "waiting", "failed"} \cup Working

OneJob == \A k, l \in Lobby : job[k] \in Working /\ job[l] \in Working => k = l

LEMMA TypeInit == Init => TypeOK
<1> SUFFICES ASSUME Init
             PROVE  TypeOK
  OBVIOUS
<1>1. rating \in [User -> Nat] /\ rank \in [User -> Nat]
  BY RanksAssumption, RanksOfType DEF Init
<1>2. NoEntity \in Entity /\ NoRanks \in [User -> Nat]
  BY DEF NoEntity, NoRanks, Entity, Unrated, Unranked
<1>3. /\ pc \in [Call -> Step]
      /\ entity \in [Call -> Entity]
      /\ base \in [Call -> Entity]
      /\ subject \in [Call -> User \cup {NoUser}]
      /\ raced \in [Lobby -> Nat]
      /\ job \in [Lobby -> JobState]
      /\ attempts \in [Lobby -> Nat]
      /\ ranked \in [User -> Nat]
      /\ unqueued \in BOOLEAN
  BY <1>2 DEF Init, Step, JobState
<1>4. OneJob
  BY DEF Init, OneJob, Working
<1>5. QED
  BY <1>1, <1>3, <1>4 DEF TypeOK, Step, JobState, OneJob

LEMMA RowsType ==
    ASSUME TypeOK, NEW us
    PROVE  RowsOf(us) \in Entity
BY DEF TypeOK, RowsOf, Entity, Unrated, Unranked

LEMMA ReadType ==
    ASSUME TypeOK, NEW c \in Call, NEW us, Read(c, us)
    PROVE  entity' \in [Call -> Entity] /\ base' \in [Call -> Entity]
<1>1. RowsOf(us) \in Entity
  BY RowsType
<1>2. QED
  BY <1>1 DEF Read, TypeOK

LEMMA DropType ==
    ASSUME TypeOK, NEW c \in Call, Drop(c)
    PROVE  entity' \in [Call -> Entity] /\ base' \in [Call -> Entity]
<1>1. NoEntity \in Entity
  BY DEF NoEntity, Entity, Unrated, Unranked
<1>2. QED
  BY <1>1 DEF Drop, TypeOK

LEMMA SavedType ==
    ASSUME NEW us, NEW current \in [User -> Nat], NEW selected \in [User -> Nat],
           NEW changed \in [User -> Nat]
    PROVE  SavedColumn(us, current, selected, changed) \in [User -> Nat]
BY DEF SavedColumn

LEMMA GotoType ==
    ASSUME TypeOK, NEW c \in Call, NEW step \in Step, Goto(c, step)
    PROVE  pc' \in [Call -> Step]
BY DEF Goto, TypeOK, Step

\* What a settlement writes, whatever it has read.
LEMMA SettledType ==
    ASSUME TypeOK, NEW l \in Lobby
    PROVE  /\ Settled(l).host \in Nat /\ Settled(l).host >= 100
           /\ Settled(l).opponent \in Nat /\ Settled(l).opponent >= 100
<1>1. l \in Call
  BY DEF Call
<1>2. /\ entity[l].rating[Host[l]] \in Nat /\ entity[l].rating[Opponent[l]] \in Nat
      /\ subject[l] \in User \cup {NoUser}
  BY <1>1, RanksAssumption DEF TypeOK, Entity
<1>3. Host[l] \in User /\ Opponent[l] \in User /\ Host[l] # Opponent[l]
  BY RanksAssumption
<1> DEFINE new == Settled(l)
<1>4. new = NewRatings(Host[l], Opponent[l], entity[l].rating[Host[l]],
                       entity[l].rating[Opponent[l]], subject[l])
  BY DEF Settled
<1> HIDE DEF new
<1>5. /\ new.host \in Nat /\ new.host >= 100
      /\ new.opponent \in Nat /\ new.opponent >= 100
  BY <1>2, <1>3, <1>4, NewRatingsFair
<1>6. QED
  BY <1>5 DEF new

LEMMA TypeNext == TypeOK /\ [Next]_vars => TypeOK'
<1> SUFFICES ASSUME TypeOK, [Next]_vars
             PROVE  TypeOK'
  OBVIOUS
<1> USE DEF Step
<1>1. /\ rating \in [User -> Nat] /\ rank \in [User -> Nat]
      /\ pc \in [Call -> Step]
      /\ entity \in [Call -> Entity]
      /\ base \in [Call -> Entity]
      /\ subject \in [Call -> User \cup {NoUser}]
      /\ raced \in [Lobby -> Nat]
      /\ job \in [Lobby -> JobState]
      /\ attempts \in [Lobby -> Nat]
      /\ ranked \in [User -> Nat]
      /\ unqueued \in BOOLEAN
      /\ OneJob
  BY DEF TypeOK, JobState, OneJob
<1>2. Lobby \subseteq Call /\ Bet \subseteq Call /\ Signup \subseteq Call
  BY DEF Call
<1>3. \A l \in Lobby : /\ Host[l] \in User /\ Opponent[l] \in User
                       /\ Outcome[l] \subseteq User \cup {NoUser}
  BY RanksAssumption
<1>4. RanksOf(rating) \in [User -> Nat] /\ NoRanks \in [User -> Nat]
  BY <1>1, RanksOfType DEF NoRanks, Unranked
<1>a. ASSUME NEW c \in Call, SelectForSave(c)
      PROVE  TypeOK'
  <2>1. base' \in [Call -> Entity]
    <3>1. RowsOf(Saves(c)) \in Entity
      BY RowsType
    <3>2. QED
      BY <1>1, <1>a, <3>1 DEF SelectForSave
  <2>2. pc' \in [Call -> Step]
    BY <1>a, GotoType DEF SelectForSave
  <2>3. QED
    BY <1>1, <1>a, <2>1, <2>2 DEF SelectForSave, users, queue, TypeOK, JobState, OneJob
<1>5. ASSUME NEW l \in Lobby, ReadPlayers(l)
      PROVE  TypeOK'
  <2>1. entity' \in [Call -> Entity] /\ base' \in [Call -> Entity] /\ pc' \in [Call -> Step]
    BY <1>2, <1>5, ReadType, GotoType DEF ReadPlayers
  <2>2. subject' \in [Call -> User \cup {NoUser}]
    BY <1>1, <1>3, <1>5 DEF ReadPlayers
  <2>3. QED
    BY <1>1, <1>5, <2>1, <2>2 DEF ReadPlayers, users, queue, TypeOK, JobState, OneJob
<1>6. ASSUME NEW l \in Lobby, CommitRatings(l)
      PROVE  TypeOK'
  <2>1. entity' \in [Call -> Entity] /\ base' \in [Call -> Entity] /\ pc' \in [Call -> Step]
    BY <1>2, <1>6, DropType, GotoType DEF CommitRatings
  <2>a. \A c \in Call : /\ entity[c].rating \in [User -> Nat] /\ entity[c].rank \in [User -> Nat]
                       /\ base[c].rating \in [User -> Nat] /\ base[c].rank \in [User -> Nat]
    BY <1>1 DEF Entity
  <2>b. l \in Call
    BY <1>2
  <2>2. rating' \in [User -> Nat]
    <3>1. [entity[l].rating EXCEPT ![Host[l]] = Settled(l).host,
                                   ![Opponent[l]] = Settled(l).opponent] \in [User -> Nat]
      BY <1>3, <2>a, <2>b, SettledType
    <3>2. QED
      BY <1>1, <1>6, <2>a, <2>b, <3>1, SavedType DEF CommitRatings
  <2>3. rank' \in [User -> Nat]
    BY <1>1, <1>6, <2>a, <2>b, SavedType DEF CommitRatings
  <2>4. raced' \in [Lobby -> Nat]
    <3>1. raced' = [raced EXCEPT ![l] = raced[l] + 1]
      BY <1>6 DEF CommitRatings
    <3>2. QED
      BY <1>1, <3>1
  <2>5. subject' \in [Call -> User \cup {NoUser}]
    BY <1>1, <1>6 DEF CommitRatings
  <2>6. QED
    BY <1>1, <1>6, <2>1, <2>2, <2>3, <2>4, <2>5 DEF CommitRatings, queue, TypeOK, JobState, OneJob
<1>7. ASSUME NEW l \in Lobby, Enqueue(l)
      PROVE  TypeOK'
  <2>1. pc' \in [Call -> Step]
    BY <1>2, <1>7, GotoType DEF Enqueue
  <2>2. job' \in [Lobby -> JobState] /\ OneJob'
    BY <1>1, <1>7 DEF Enqueue, JobState, OneJob, Working
  <2>3. QED
    BY <1>1, <1>7, <2>1, <2>2 DEF Enqueue, users, memory, TypeOK, JobState, OneJob
<1>8. ASSUME NEW l \in Lobby, EventLost(l)
      PROVE  TypeOK'
  <2>1. pc' \in [Call -> Step]
    BY <1>2, <1>8, GotoType DEF EventLost
  <2>2. QED
    BY <1>1, <1>8, <2>1 DEF EventLost, users, memory, queue, TypeOK, JobState, OneJob
<1>9. ASSUME NEW l \in Lobby, TakeJob(l)
      PROVE  TypeOK'
  <2>1. job' \in [Lobby -> JobState] /\ OneJob'
    BY <1>1, <1>9 DEF TakeJob, WorkerFree, JobState, OneJob, Working
  <2>2. QED
    BY <1>1, <1>9, <2>1 DEF TakeJob, users, calls, TypeOK, JobState, OneJob
<1>10. ASSUME NEW l \in Lobby, SelectRanks(l)
       PROVE  TypeOK'
  <2>1. job' \in [Lobby -> JobState] /\ OneJob'
    BY <1>1, <1>10 DEF SelectRanks, JobState, OneJob, Working
  <2>2. QED
    BY <1>1, <1>4, <1>10, <2>1 DEF SelectRanks, users, calls, TypeOK, JobState, OneJob
<1>11. ASSUME NEW l \in Lobby, UpdateRanks(l)
       PROVE  TypeOK'
  <2>1. job' \in [Lobby -> JobState] /\ OneJob'
    BY <1>1, <1>11 DEF UpdateRanks, JobState, OneJob, Working
  <2>2. QED
    BY <1>1, <1>4, <1>11, <2>1 DEF UpdateRanks, calls, TypeOK, JobState, OneJob
<1>12. ASSUME NEW l \in Lobby, Complete(l)
       PROVE  TypeOK'
  <2>1. job' \in [Lobby -> JobState] /\ OneJob' /\ attempts' \in [Lobby -> Nat]
    BY <1>1, <1>12 DEF Complete, JobState, OneJob, Working
  <2>2. QED
    BY <1>1, <1>12, <2>1 DEF Complete, users, calls, TypeOK, JobState, OneJob
<1>13. ASSUME NEW l \in Lobby, JobFails(l)
       PROVE  TypeOK'
  <2>1. job' \in [Lobby -> JobState] /\ OneJob'
    BY <1>1, <1>13 DEF JobFails, JobState, OneJob, Working
  <2>2. attempts' \in [Lobby -> Nat] /\ unqueued' \in BOOLEAN
    BY <1>1, <1>13 DEF JobFails
  <2>3. QED
    BY <1>1, <1>4, <1>13, <2>1, <2>2 DEF JobFails, users, calls, TypeOK, JobState, OneJob
<1>14. ASSUME NEW b \in Bet, ReadBettor(b)
       PROVE  TypeOK'
  <2>1. PICK u \in User : subject' = [subject EXCEPT ![b] = u] /\ Read(b, {u})
    BY <1>14 DEF ReadBettor, Registered
  <2>2. /\ entity' \in [Call -> Entity] /\ base' \in [Call -> Entity] /\ pc' \in [Call -> Step]
        /\ subject' \in [Call -> User \cup {NoUser}]
    BY <1>1, <1>2, <1>14, <2>1, ReadType, GotoType DEF ReadBettor
  <2>3. QED
    BY <1>1, <1>14, <2>2 DEF ReadBettor, users, queue, TypeOK, JobState, OneJob
<1>15. ASSUME NEW b \in Bet, SaveBettor(b)
       PROVE  TypeOK'
  <2>1. entity' \in [Call -> Entity] /\ base' \in [Call -> Entity] /\ pc' \in [Call -> Step]
    BY <1>2, <1>15, DropType, GotoType DEF SaveBettor
  <2>2. rating' \in [User -> Nat] /\ rank' \in [User -> Nat]
    <3>1. /\ entity[b].rating \in [User -> Nat] /\ entity[b].rank \in [User -> Nat]
          /\ base[b].rating \in [User -> Nat] /\ base[b].rank \in [User -> Nat]
      BY <1>1, <1>2 DEF Entity
    <3>2. QED
      BY <1>1, <1>15, <3>1, SavedType DEF SaveBettor
  <2>3. subject' \in [Call -> User \cup {NoUser}] /\ unqueued' \in BOOLEAN
    BY <1>1, <1>15 DEF SaveBettor
  <2>4. QED
    BY <1>1, <1>15, <2>1, <2>2, <2>3 DEF SaveBettor, queue, TypeOK, JobState, OneJob
<1>16. ASSUME NEW s \in Signup, CheckName(s)
       PROVE  TypeOK'
  <2>1. pc' \in [Call -> Step]
    BY <1>2, <1>16, GotoType DEF CheckName
  <2>2. QED
    BY <1>1, <1>16, <2>1 DEF CheckName, users, memory, queue, TypeOK, JobState, OneJob
<1>17. ASSUME NEW s \in Signup, InsertUser(s)
       PROVE  TypeOK'
  <2>1. pc' \in [Call -> Step]
    BY <1>2, <1>17, GotoType DEF InsertUser
  <2>2. rating' \in [User -> Nat]
    <3>1. rating' = [rating EXCEPT ![NewUser] = NewRating] /\ NewRating \in Nat
      BY <1>17 DEF InsertUser, NewRating
    <3>2. QED
      BY <1>1, <3>1
  <2>3. QED
    BY <1>1, <1>17, <2>1, <2>2 DEF InsertUser, memory, queue, TypeOK, JobState, OneJob
<1>18. ASSUME NEW s \in Signup, NameTaken(s)
       PROVE  TypeOK'
  <2>1. pc' \in [Call -> Step]
    BY <1>2, <1>18, GotoType DEF NameTaken
  <2>2. QED
    BY <1>1, <1>18, <2>1 DEF NameTaken, users, memory, queue, TypeOK, JobState, OneJob
<1>19. CASE UNCHANGED vars
  BY <1>1, <1>19 DEF vars, TypeOK, JobState, OneJob
<1>20. QED
  BY <1>2, <1>a, <1>5, <1>6, <1>7, <1>8, <1>9, <1>10, <1>11, <1>12, <1>13, <1>14, <1>15,
     <1>16, <1>17, <1>18, <1>19 DEF Next, Settle, Work, PlaceBet, Register

\* Columns, calls and jobs keep their types, and the worker has one job at a time,
\* however settlements, bets, registrations and failing jobs interleave.
THEOREM TypeCorrect == Spec => []TypeOK
BY TypeInit, TypeNext, PTL DEF Spec

-----------------------------------------------------------------------------
(* Elo                                                                     *)

\* No rating is below the floor, in the table or in memory; otherwise the floor would
\* give a loser points.
Sound(r) == \A u \in User : r[u] = Unrated \/ r[u] >= 100
Floored ==
    /\ Sound(rating) /\ \A c \in Call : Sound(entity[c].rating)
    /\ \A l \in Lobby : pc[l] \in {"select", "update"} =>
            entity[l].rating[Host[l]] # Unrated /\ entity[l].rating[Opponent[l]] # Unrated

LEMMA FlooredInit == Init => Floored
<1> SUFFICES ASSUME Init
             PROVE  Floored
  OBVIOUS
<1>1. \A u \in User : rating[u] \in Nat /\ rating[u] \notin 1..99
  BY RanksAssumption DEF Init
<1>2. Sound(rating)
  BY <1>1 DEF Unrated, Sound
<1>3. \A c \in Call : pc[c] = "idle" /\ entity[c] = NoEntity
  BY DEF Init
<1>4. Sound(NoEntity.rating)
  BY DEF NoEntity, Sound
<1>5. QED
  BY <1>2, <1>3, <1>4 DEF Floored, Call

\* A step that reads and writes no ratings, or forgets what a call has read.
LEMMA OthersKeepFloored ==
    ASSUME Floored, rating' = rating,
           \A c \in Call : entity'[c] = entity[c] \/ entity'[c] = NoEntity,
           \A l \in Lobby : pc'[l] \in {"select", "update"} =>
                pc[l] \in {"select", "update"} /\ entity'[l] = entity[l]
    PROVE  Floored'
<1>1. Sound(NoEntity.rating)
  BY DEF NoEntity, Sound
<1>2. QED
  BY <1>1 DEF Floored, Sound

LEMMA FlooredNext == TypeOK /\ Floored /\ [Next]_vars => Floored'
<1> SUFFICES ASSUME TypeOK, Floored, [Next]_vars
             PROVE  Floored'
  OBVIOUS
<1>1. /\ rating \in [User -> Nat]
      /\ pc \in [Call -> Step]
      /\ entity \in [Call -> Entity]
  BY DEF TypeOK, Step
<1>2. /\ Lobby \subseteq Call /\ Bet \subseteq Call /\ Signup \subseteq Call
      /\ Lobby \cap Bet = {} /\ Lobby \cap Signup = {}
  BY RanksAssumption DEF Call
<1>3. \A l \in Lobby : Host[l] \in User /\ Opponent[l] \in User
  BY RanksAssumption
<1>r. ASSUME NEW us
      PROVE  Sound(RowsOf(us).rating)
  BY DEF Floored, RowsOf, Sound
<1>4. ASSUME NEW l \in Lobby, ReadPlayers(l)
      PROVE  Floored'
  <2>1. rating[Host[l]] # Unrated /\ rating[Opponent[l]] # Unrated
    BY <1>3, <1>4 DEF ReadPlayers, Registered
  <2>2. entity' = [entity EXCEPT ![l] = RowsOf({Host[l], Opponent[l]})]
    BY <1>4 DEF ReadPlayers, Read
  <2>3. entity'[l].rating[Host[l]] # Unrated /\ entity'[l].rating[Opponent[l]] # Unrated
    BY <1>1, <1>2, <1>3, <2>1, <2>2 DEF RowsOf
  <2>4. \A k \in Lobby \ {l} : pc'[k] = pc[k] /\ entity'[k] = entity[k]
    BY <1>1, <1>2, <1>4, <2>2 DEF ReadPlayers, Goto
  <2>5. \A c \in Call : entity'[c] = entity[c] \/ entity'[c] = RowsOf({Host[l], Opponent[l]})
    BY <1>1, <2>2
  <2>6. rating' = rating
    BY <1>4 DEF ReadPlayers, users
  <2>7. \A c \in Call : Sound(entity'[c].rating)
    BY <2>5, <1>r DEF Floored
  <2>8. QED
    BY <2>3, <2>4, <2>6, <2>7 DEF Floored, Sound
<1>a. ASSUME NEW c \in Call, SelectForSave(c)
      PROVE  Floored'
  <2>1. rating' = rating /\ entity' = entity
    BY <1>a DEF SelectForSave, users
  <2>2. \A k \in Lobby : pc'[k] \in {"select", "update"} => pc[k] \in {"select", "update"}
    BY <1>1, <1>2, <1>a DEF SelectForSave, Goto
  <2>3. QED
    BY <2>1, <2>2, OthersKeepFloored
<1>5. ASSUME NEW l \in Lobby, CommitRatings(l)
      PROVE  Floored'
  <2>1. DEFINE changed == [entity[l].rating EXCEPT ![Host[l]] = Settled(l).host,
                                                   ![Opponent[l]] = Settled(l).opponent]
  <2>2. \A u \in User : changed[u] = entity[l].rating[u] \/ changed[u] >= 100
    <3>1. entity[l].rating \in [User -> Nat]
      BY <1>1, <1>2 DEF Entity
    <3>2. QED
      BY <1>3, <3>1, SettledType
  <2>3. Sound(changed)
    <3>1. Sound(entity[l].rating)
      BY <1>2 DEF Floored
    <3> HIDE DEF changed
    <3>2. QED
      BY <2>2, <3>1 DEF Sound
  <2>4. rating' = SavedColumn(Saves(l), rating, base[l].rating, changed)
    BY <1>5 DEF CommitRatings
  <2>5. Sound(rating')
    <3> HIDE DEF changed
    <3>1. QED
      BY <2>3, <2>4 DEF Sound, SavedColumn, Floored
  <2>6. \A c \in Call : entity'[c] = entity[c] \/ entity'[c] = NoEntity
    BY <1>1, <1>2, <1>5 DEF CommitRatings, Drop
  <2>7. \A c \in Call : Sound(entity'[c].rating)
    <3>1. Sound(NoEntity.rating)
      BY DEF NoEntity, Sound
    <3>2. QED
      BY <2>6, <3>1 DEF Floored
  <2>8. \A k \in Lobby : pc'[k] \in {"select", "update"} =>
                pc[k] \in {"select", "update"} /\ entity'[k] = entity[k]
    BY <1>1, <1>2, <1>5 DEF CommitRatings, Goto, Drop
  <2>9. QED
    BY <2>5, <2>7, <2>8 DEF Floored, Sound
<1>6. ASSUME NEW l \in Lobby, Enqueue(l) \/ EventLost(l)
      PROVE  Floored'
  <2>1. \A k \in Lobby : pc'[k] \in {"select", "update"} => pc[k] \in {"select", "update"}
    BY <1>1, <1>2, <1>6 DEF Enqueue, EventLost, Goto
  <2>2. rating' = rating /\ entity' = entity
    BY <1>6 DEF Enqueue, EventLost, users, memory
  <2>3. QED
    BY <2>1, <2>2, OthersKeepFloored
<1>7. ASSUME NEW l \in Lobby, Work(l) \/ JobFails(l)
      PROVE  Floored'
  <2>1. rating' = rating /\ pc' = pc /\ entity' = entity
    BY <1>7 DEF Work, TakeJob, SelectRanks, UpdateRanks, Complete, JobFails, users, calls
  <2>2. QED
    BY <2>1, OthersKeepFloored
<1>8. ASSUME NEW b \in Bet, ReadBettor(b)
      PROVE  Floored'
  <2>1. \A k \in Lobby : pc'[k] = pc[k] /\ entity'[k] = entity[k]
    BY <1>1, <1>2, <1>8 DEF ReadBettor, Goto, Read
  <2>2. rating' = rating
    BY <1>8 DEF ReadBettor, users
  <2>3. PICK u : entity' = [entity EXCEPT ![b] = RowsOf({u})]
    BY <1>8 DEF ReadBettor, Read
  <2>4. \A c \in Call : entity'[c] = entity[c] \/ entity'[c] = RowsOf({u})
    BY <1>1, <2>3
  <2>5. \A c \in Call : Sound(entity'[c].rating)
    BY <2>4, <1>r DEF Floored
  <2>6. QED
    BY <2>1, <2>2, <2>5 DEF Floored, Sound
<1>b. ASSUME NEW b \in Bet, SaveBettor(b)
      PROVE  Floored'
  <2>1. rating' = SavedColumn(Saves(b), rating, base[b].rating, entity[b].rating)
    BY <1>b DEF SaveBettor
  <2>2. Sound(entity[b].rating)
    BY <1>2 DEF Floored
  <2>3. Sound(rating')
    BY <2>1, <2>2 DEF Sound, SavedColumn, Floored
  <2>4. \A c \in Call : entity'[c] = entity[c] \/ entity'[c] = NoEntity
    BY <1>1, <1>2, <1>b DEF SaveBettor, Drop
  <2>5. \A c \in Call : Sound(entity'[c].rating)
    <3>1. Sound(NoEntity.rating)
      BY DEF NoEntity, Sound
    <3>2. QED
      BY <2>4, <3>1 DEF Floored
  <2>6. \A k \in Lobby : pc'[k] = pc[k] /\ entity'[k] = entity[k]
    BY <1>1, <1>2, <1>b DEF SaveBettor, Goto, Drop
  <2>7. QED
    BY <2>3, <2>5, <2>6 DEF Floored, Sound
<1>9. ASSUME NEW s \in Signup, Register(s)
      PROVE  Floored'
  <2>1. (\A k \in Lobby : pc'[k] = pc[k]) /\ entity' = entity
    BY <1>1, <1>2, <1>9 DEF Register, CheckName, InsertUser, NameTaken, Goto, memory
  <2>2. \A u \in User : rating'[u] = rating[u] \/ rating'[u] = 1200
    BY <1>1, <1>9 DEF Register, CheckName, InsertUser, NameTaken, users, NewRating
  <2>3. QED
    BY <2>1, <2>2 DEF Floored, Sound
<1>10. CASE UNCHANGED vars
  BY <1>10, OthersKeepFloored DEF vars
<1>11. QED
  BY <1>2, <1>a, <1>b, <1>4, <1>5, <1>6, <1>7, <1>8, <1>9, <1>10 DEF Next, Settle, PlaceBet

LEMMA FlooredIsFair == TypeOK /\ Floored => EloFair
<1> SUFFICES ASSUME TypeOK, Floored, NEW l \in Lobby, pc[l] \in {"select", "update"}
             PROVE  LET h == entity[l].rating[Host[l]]
                        o == entity[l].rating[Opponent[l]]
                        new == Settled(l)
                    IN  /\ subject[l] = Host[l] => new.host >= h /\ new.opponent <= o
                        /\ subject[l] = Opponent[l] => new.host <= h /\ new.opponent >= o
                        /\ K(h) = K(o) /\ new.host > 100 /\ new.opponent > 100
                                => new.host + new.opponent = h + o
  BY DEF EloFair
<1> DEFINE h == entity[l].rating[Host[l]]
           o == entity[l].rating[Opponent[l]]
           new == Settled(l)
<1>1. h \in Nat /\ o \in Nat /\ subject[l] \in User \cup {NoUser}
  BY RanksAssumption DEF TypeOK, Entity, Call
<1>2. h >= 100 /\ o >= 100
  <2>1. Host[l] \in User /\ Opponent[l] \in User /\ l \in Call
    BY RanksAssumption DEF Call
  <2>2. QED
    BY <2>1 DEF Floored, Sound
<1>3. Host[l] \in User /\ Opponent[l] \in User /\ Host[l] # Opponent[l]
  BY RanksAssumption
<1>4. new = NewRatings(Host[l], Opponent[l], h, o, subject[l])
  BY DEF Settled
<1> HIDE DEF h, o, new
<1>5. /\ subject[l] = Host[l] => new.host >= h /\ new.opponent <= o
      /\ subject[l] = Opponent[l] => new.host <= h /\ new.opponent >= o
      /\ K(h) = K(o) /\ new.host > 100 /\ new.opponent > 100
              => new.host + new.opponent = h + o
  BY <1>1, <1>2, <1>3, <1>4, NewRatingsFair
<1>6. QED
  BY <1>5 DEF h, o, new

\* For every function of expected scores and all ratings that have ever been
\* reached, stale reads included: winning costs nothing, losing gains nothing, and
\* players of one K factor exchange what they win and lose, to the point.
THEOREM RatingsFair == Spec => []EloFair
<1>1. Init => TypeOK /\ Floored
  BY TypeInit, FlooredInit
<1>2. (TypeOK /\ Floored) /\ [Next]_vars => (TypeOK /\ Floored)'
  BY TypeNext, FlooredNext
<1>3. TypeOK /\ Floored => EloFair
  BY FlooredIsFair
<1>4. QED
  BY <1>1, <1>2, <1>3, PTL DEF Spec

LEMMA StepTracesRatings ==
    ASSUME TypeOK, [Next]_vars, NEW u \in User, rating'[u] # rating[u]
    PROVE  Registers(u) \/ HasRaced(u) \/ RolledBack(u)
<1>1. /\ rating \in [User -> Nat] /\ raced \in [Lobby -> Nat]
      /\ pc \in [Call -> Step]
  BY DEF TypeOK, Step
<1>2. CASE \E l \in Lobby : CommitRatings(l)
  <2>1. PICK l \in Lobby : CommitRatings(l)
    BY <1>2
  <2>2. raced'[l] = raced[l] + 1
    BY <1>1, <2>1 DEF CommitRatings
  <2>3. u \in {Host[l], Opponent[l]}
    <3>1. u \in Saves(l)
      BY <2>1 DEF CommitRatings, SavedColumn
    <3>2. QED
      BY <3>1 DEF Saves
  <2>4. QED
    BY <1>1, <2>2, <2>3 DEF HasRaced
<1>3. CASE \E s \in Signup : InsertUser(s)
  <2>1. PICK s \in Signup : InsertUser(s)
    BY <1>3
  <2>2. rating' = [rating EXCEPT ![NewUser] = NewRating] /\ NewUser \notin Registered(rating)
    BY <2>1 DEF InsertUser
  <2>3. QED
    BY <1>1, <2>2, RanksAssumption DEF Registered, Registers
<1>a. CASE \E b \in Bet : SaveBettor(b)
  <2>1. PICK b \in Bet : SaveBettor(b)
    BY <1>a
  <2>2. u \in Saves(b) /\ rating'[u] = entity[b].rating[u]
    BY <2>1 DEF SaveBettor, SavedColumn
  <2>3. u = subject[b]
    BY <2>2, RanksAssumption DEF Saves
  <2>4. pc[b] = "update" /\ pc'[b] = "idle"
    BY <1>1, <2>1 DEF SaveBettor, Goto, Call
  <2>5. QED
    BY <2>2, <2>3, <2>4 DEF RolledBack
<1>4. CASE /\ ~\E l \in Lobby : CommitRatings(l)
           /\ ~\E s \in Signup : InsertUser(s)
           /\ ~\E b \in Bet : SaveBettor(b)
  <2>1. rating' = rating
    BY <1>4 DEF Next, Settle, ReadPlayers, SelectForSave, Enqueue, EventLost, Work, TakeJob,
                SelectRanks, UpdateRanks, Complete, JobFails, PlaceBet, ReadBettor, Register,
                CheckName, NameTaken, users, vars
  <2>2. QED
    BY <2>1
<1>5. QED
  BY <1>2, <1>3, <1>a, <1>4

\* A rating changes only when its owner's race is settled, when his name is registered
\* for the first time, or when a bet of his puts back the rating it had read, whatever
\* stale entities are saved and however many register.
THEOREM EveryRatingTraced == Spec => RatingsTraced
<1>1. TypeOK /\ [Next]_vars =>
        [\A u \in User : rating'[u] # rating[u] =>
            Registers(u) \/ HasRaced(u) \/ RolledBack(u)]_vars
  BY StepTracesRatings
<1>2. QED
  BY <1>1, TypeCorrect, PTL DEF Spec, RatingsTraced

-----------------------------------------------------------------------------
(* Recomputes                                                              *)

\* While the UPDATE runs, the ranks it has computed are those of the ratings, or
\* the next recompute is on its way, or is known not to come.
RankedInv ==
    \A l \in Lobby : job[l] = "ranked" => ranked = RanksOf(rating) \/ Owed \/ unqueued

QueueInv == RecomputeOwed /\ RankedInv

\* With one settlement of each lobby, no job of its own is there when its event comes.
FirstEvent ==
    \A l \in Lobby :
        /\ pc[l] \in {"select", "update"} => raced[l] = 0
        /\ raced[l] = 0 => job[l] = "none"
        /\ pc[l] = "emit" => raced[l] # 0 /\ job[l] = "none"

LEMMA FirstEventNext ==
    ASSUME \A l \in Lobby : Races[l] <= 1, TypeOK, FirstEvent, [Next]_vars
    PROVE  FirstEvent'
<1>1. /\ pc \in [Call -> Step] /\ job \in [Lobby -> JobState] /\ raced \in [Lobby -> Nat]
  BY DEF TypeOK, Step, JobState
<1>2. /\ Lobby \subseteq Call /\ Bet \subseteq Call /\ Signup \subseteq Call
      /\ Lobby \cap Bet = {} /\ Lobby \cap Signup = {} /\ Races \in [Lobby -> Nat]
  BY RanksAssumption DEF Call
<1>3. ASSUME NEW l \in Lobby, ReadPlayers(l)
      PROVE  FirstEvent'
  <2>1. pc' = [pc EXCEPT ![l] = "select"] /\ raced' = raced /\ job' = job /\ raced[l] = 0
    BY <1>1, <1>2, <1>3 DEF ReadPlayers, Goto, queue
  <2>2. QED
    BY <1>1, <1>2, <2>1 DEF FirstEvent
<1>4. ASSUME NEW c \in Call, SelectForSave(c)
      PROVE  FirstEvent'
  <2>1. pc[c] = "select" /\ pc' = [pc EXCEPT ![c] = "update"] /\ raced' = raced /\ job' = job
    BY <1>4 DEF SelectForSave, Goto, queue
  <2>2. QED
    BY <1>1, <1>2, <2>1 DEF FirstEvent
<1>5. ASSUME NEW l \in Lobby, CommitRatings(l)
      PROVE  FirstEvent'
  <2>1. /\ pc[l] = "update" /\ pc' = [pc EXCEPT ![l] = "emit"]
        /\ raced' = [raced EXCEPT ![l] = @ + 1] /\ job' = job
    BY <1>5 DEF CommitRatings, Goto, queue
  <2>2. QED
    BY <1>1, <1>2, <2>1 DEF FirstEvent
<1>6. ASSUME NEW l \in Lobby, Enqueue(l)
      PROVE  FirstEvent'
  <2>1. /\ pc[l] = "emit" /\ pc' = [pc EXCEPT ![l] = "idle"] /\ raced' = raced
        /\ job' = job \/ job' = [job EXCEPT ![l] = "waiting"]
    BY <1>6 DEF Enqueue, Goto
  <2>2. QED
    BY <1>1, <1>2, <2>1 DEF FirstEvent
<1>7. ASSUME NEW l \in Lobby, EventLost(l)
      PROVE  FirstEvent'
  <2>1. pc' = [pc EXCEPT ![l] = "idle"] /\ raced' = raced /\ job' = job
    BY <1>7 DEF EventLost, Goto, queue
  <2>2. QED
    BY <1>1, <1>2, <2>1 DEF FirstEvent
<1>8. ASSUME NEW l \in Lobby, Work(l) \/ JobFails(l)
      PROVE  FirstEvent'
  <2>1. pc' = pc /\ raced' = raced /\ job[l] # "none" /\ \E j : job' = [job EXCEPT ![l] = j]
    BY <1>8 DEF Work, TakeJob, SelectRanks, UpdateRanks, Complete, JobFails, calls, Working
  <2>2. QED
    BY <1>1, <1>2, <2>1 DEF FirstEvent
<1>9. ASSUME NEW c \in Bet \cup Signup,
             ReadBettor(c) \/ SaveBettor(c) \/ Register(c)
      PROVE  FirstEvent'
  <2>1. (\A l \in Lobby : pc'[l] = pc[l]) /\ raced' = raced /\ job' = job
    BY <1>1, <1>2, <1>9 DEF ReadBettor, SaveBettor, Register, CheckName, InsertUser, NameTaken,
                           Goto, queue
  <2>2. QED
    BY <2>1 DEF FirstEvent
<1>10. CASE UNCHANGED vars
  BY <1>10 DEF vars, FirstEvent
<1>11. QED
  BY <1>2, <1>3, <1>4, <1>5, <1>6, <1>7, <1>8, <1>9, <1>10 DEF Next, Settle, PlaceBet

LEMMA QueueInit == Init => QueueInv
BY DEF Init, QueueInv, RecomputeOwed, RankedInv, RanksRight

\* A debt that is not paid stays.
LEMMA OwedStays ==
    ASSUME \A l \in Lobby : pc[l] = "emit" => pc'[l] = "emit",
           \A l \in Lobby : job[l] \in {"waiting", "active"} => job'[l] \in {"waiting", "active"}
    PROVE  Owed => Owed'
BY DEF Owed

\* Steps that write neither ratings nor ranks nor jobs, and emit nothing.
LEMMA OthersKeepQueue ==
    ASSUME QueueInv, UNCHANGED <<rating, rank, queue, unqueued>>,
           \A l \in Lobby : pc[l] = "emit" => pc'[l] = "emit"
    PROVE  QueueInv'
<1>1. /\ rating' = rating /\ rank' = rank /\ job' = job /\ ranked' = ranked
      /\ unqueued' = unqueued
  BY DEF queue
<1>2. Owed => Owed'
  BY <1>1, OwedStays
<1>3. RecomputeOwed'
  BY <1>1, <1>2 DEF QueueInv, RecomputeOwed, RanksRight
<1>4. RankedInv'
  BY <1>1, <1>2 DEF QueueInv, RankedInv
<1>5. QED
  BY <1>3, <1>4 DEF QueueInv

\* A change that a job will see, or that is known to be seen by none.
LEMMA DebtKeepsQueue ==
    ASSUME Owed' \/ unqueued'
    PROVE  QueueInv'
BY DEF QueueInv, RecomputeOwed, RankedInv

LEMMA QueueNext == TypeOK /\ FirstEvent /\ QueueInv /\ [Next]_vars => QueueInv'
<1> SUFFICES ASSUME TypeOK, FirstEvent, QueueInv, [Next]_vars
             PROVE  QueueInv'
  OBVIOUS
<1>1. /\ rank \in [User -> Nat]
      /\ pc \in [Call -> Step]
      /\ entity \in [Call -> Entity]
      /\ job \in [Lobby -> JobState]
      /\ unqueued \in BOOLEAN
      /\ OneJob
  BY DEF TypeOK, Step, JobState, OneJob
<1>2. /\ Lobby \subseteq Call /\ Bet \subseteq Call /\ Signup \subseteq Call
      /\ Lobby \cap Bet = {} /\ Lobby \cap Signup = {}
  BY RanksAssumption DEF Call
<1>3. ASSUME NEW l \in Lobby, ReadPlayers(l)
      PROVE  QueueInv'
  <2>1. \A k \in Lobby : pc[k] = "emit" => pc'[k] = "emit"
    BY <1>1, <1>2, <1>3 DEF ReadPlayers, Goto
  <2>2. QED
    BY <1>3, <2>1, OthersKeepQueue DEF ReadPlayers, users
<1>4. ASSUME NEW l \in Lobby, CommitRatings(l)
      PROVE  QueueInv'
  <2>1. pc'[l] = "emit"
    BY <1>1, <1>2, <1>4 DEF CommitRatings, Goto
  <2>2. QED
    BY <2>1, DebtKeepsQueue DEF Owed
<1>5. ASSUME NEW l \in Lobby, Enqueue(l)
      PROVE  QueueInv'
  <2>1. job'[l] = "waiting"
    BY <1>1, <1>5 DEF Enqueue, FirstEvent
  <2>2. QED
    BY <2>1, DebtKeepsQueue DEF Owed
<1>6. ASSUME NEW l \in Lobby, EventLost(l)
      PROVE  QueueInv'
  BY <1>6, DebtKeepsQueue DEF EventLost
<1>7. ASSUME NEW l \in Lobby, TakeJob(l)
      PROVE  QueueInv'
  <2>1. job'[l] = "active"
    BY <1>1, <1>7 DEF TakeJob
  <2>2. QED
    BY <2>1, DebtKeepsQueue DEF Owed
<1>8. ASSUME NEW l \in Lobby, SelectRanks(l)
      PROVE  QueueInv'
  <2>1. job'[l] = "ranked" /\ ranked' = RanksOf(rating')
    BY <1>1, <1>8 DEF SelectRanks, users
  <2>2. QED
    BY <2>1 DEF QueueInv, RecomputeOwed, RankedInv
<1>9. ASSUME NEW l \in Lobby, UpdateRanks(l)
      PROVE  QueueInv'
  <2>1. /\ job[l] = "ranked" /\ rank' = ranked /\ rating' = rating
        /\ job' = [job EXCEPT ![l] = "written"] /\ pc' = pc /\ unqueued' = unqueued
    BY <1>9 DEF UpdateRanks, calls
  <2>2. \A k \in Lobby : job'[k] # "ranked"
    BY <1>1, <2>1 DEF OneJob, Working
  <2>3. Owed => Owed'
    BY <1>1, <2>1, OwedStays
  <2>4. rank' = RanksOf(rating') \/ Owed' \/ unqueued'
    BY <2>1, <2>3 DEF QueueInv, RankedInv
  <2>5. QED
    BY <2>2, <2>4 DEF QueueInv, RecomputeOwed, RankedInv, RanksRight
<1>10. ASSUME NEW l \in Lobby, Complete(l)
       PROVE  QueueInv'
  <2>1. /\ job[l] = "written" /\ rank' = rank /\ rating' = rating /\ ranked' = ranked
        /\ job' = [job EXCEPT ![l] = "none"] /\ pc' = pc /\ unqueued' = unqueued
    BY <1>10 DEF Complete, users, calls
  <2>2. \A k \in Lobby : job'[k] = "ranked" <=> job[k] = "ranked"
    BY <1>1, <2>1
  <2>3. Owed => Owed'
    BY <1>1, <2>1, OwedStays
  <2>4. QED
    BY <2>1, <2>2, <2>3 DEF QueueInv, RecomputeOwed, RankedInv, RanksRight
<1>11. ASSUME NEW l \in Lobby, JobFails(l)
       PROVE  QueueInv'
  <2>1. /\ job[l] \in Working /\ rank' = rank /\ rating' = rating /\ pc' = pc
    BY <1>11 DEF JobFails, users, calls
  <2>2. CASE attempts[l] + 1 # MaxAttempts
    <3>1. job'[l] = "waiting"
      BY <1>1, <1>11, <2>2 DEF JobFails
    <3>2. QED
      BY <3>1, DebtKeepsQueue DEF Owed
  <2>3. CASE attempts[l] + 1 = MaxAttempts /\ job[l] # "written"
    BY <1>11, <2>3, DebtKeepsQueue DEF JobFails
  <2>4. CASE attempts[l] + 1 = MaxAttempts /\ job[l] = "written"
    <3>1. job' = [job EXCEPT ![l] = "failed"] /\ unqueued' = unqueued
      BY <1>1, <1>11, <2>4 DEF JobFails
    <3>2. \A k \in Lobby : job[k] # "ranked" /\ job'[k] # "ranked"
      BY <1>1, <2>4, <3>1 DEF OneJob, Working
    <3>3. Owed => Owed'
      BY <1>1, <2>1, <2>4, <3>1, OwedStays
    <3>4. QED
      BY <2>1, <3>1, <3>2, <3>3 DEF QueueInv, RecomputeOwed, RankedInv, RanksRight
  <2>5. QED
    BY <2>2, <2>3, <2>4
<1>12. ASSUME NEW b \in Bet, ReadBettor(b)
       PROVE  QueueInv'
  <2>1. \A k \in Lobby : pc'[k] = pc[k]
    BY <1>1, <1>2, <1>12 DEF ReadBettor, Goto
  <2>2. QED
    BY <1>12, <2>1, OthersKeepQueue DEF ReadBettor, users
<1>13. ASSUME NEW b \in Bet, SaveBettor(b)
       PROVE  QueueInv'
  <2>1. CASE users' # users
    BY <1>13, <2>1, DebtKeepsQueue DEF SaveBettor
  <2>2. CASE users' = users
    <3>1. rating' = rating /\ rank' = rank
      BY <2>2 DEF users
    <3>2. unqueued' = unqueued
      BY <1>1, <1>13, <2>2 DEF SaveBettor
    <3>3. \A k \in Lobby : pc'[k] = pc[k]
      BY <1>1, <1>2, <1>13 DEF SaveBettor, Goto
    <3>4. QED
      BY <1>13, <3>1, <3>2, <3>3, OthersKeepQueue DEF SaveBettor
  <2>3. QED
    BY <2>1, <2>2
<1>s. ASSUME NEW c \in Call, SelectForSave(c)
      PROVE  QueueInv'
  <2>1. \A k \in Lobby : pc[k] = "emit" => pc'[k] = "emit"
    BY <1>1, <1>2, <1>s DEF SelectForSave, Goto
  <2>2. QED
    BY <1>s, <2>1, OthersKeepQueue DEF SelectForSave, users
<1>14. ASSUME NEW s \in Signup, InsertUser(s)
       PROVE  QueueInv'
  BY <1>14, DebtKeepsQueue DEF InsertUser
<1>15. ASSUME NEW s \in Signup, CheckName(s) \/ NameTaken(s)
       PROVE  QueueInv'
  <2>1. \A k \in Lobby : pc'[k] = pc[k]
    BY <1>1, <1>2, <1>15 DEF CheckName, NameTaken, Goto
  <2>2. QED
    BY <1>15, <2>1, OthersKeepQueue DEF CheckName, NameTaken, users
<1>16. CASE UNCHANGED vars
  BY <1>16, OthersKeepQueue DEF vars, queue
<1>17. QED
  BY <1>2, <1>3, <1>4, <1>5, <1>6, <1>7, <1>8, <1>9, <1>10, <1>11, <1>12, <1>13, <1>s, <1>14,
     <1>15, <1>16 DEF Next, Settle, Work, PlaceBet, Register

\* When each lobby is settled once at most: ranks are those of the ratings, or an event
\* or a job is on its way, or a change was made that has no event (a stale save, a
\* registration) or lost its own.  When one is settled again this is false of the code
\* (DuplicatesRedundant).
THEOREM NoRecomputeLost ==
    ASSUME \A l \in Lobby : Races[l] <= 1
    PROVE  Spec => []RecomputeOwed
<1>1. Init => TypeOK /\ FirstEvent /\ QueueInv
  <2>1. Init => FirstEvent
    BY DEF Init, FirstEvent, Call
  <2>2. QED
    BY <2>1, TypeInit, QueueInit
<1>2. (TypeOK /\ FirstEvent /\ QueueInv) /\ [Next]_vars => (TypeOK /\ FirstEvent /\ QueueInv)'
  BY TypeNext, FirstEventNext, QueueNext
<1>3. QueueInv => RecomputeOwed
  BY DEF QueueInv
<1>4. QED
  BY <1>1, <1>2, <1>3, PTL DEF Spec
=============================================================================
