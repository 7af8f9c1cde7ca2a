---------------------------- MODULE LobbyProofs -----------------------------
(***************************************************************************)
(* Theorems about Lobby, for every set of users and of requests.           *)
(***************************************************************************)
EXTENDS Lobby, TLAPS

-----------------------------------------------------------------------------
(* Facts about rows                                                        *)

LEMMA NewRowType == NewRow \in Row
BY DEF NewRow, Row, Status, Seat, Config, NoConfig, Raced, NotRaced

\* save() writes a row whatever it finds.
LEMMA SavedRowType ==
    ASSUME NEW a \in Row, NEW b \in Row, NEW e \in Row
    PROVE  SavedRow(a, b, e) \in Row
<1>1. SavedColumn(a.status, b.status, e.status) \in Status
  BY DEF SavedColumn, Row
<1>2. SavedColumn(a.opponent, b.opponent, e.opponent) \in User \cup {NoUser}
  BY DEF SavedColumn, Row
<1>3. \A s \in Seat : SavedColumn(a.config[s], b.config[s], e.config[s]) \in Config
  BY DEF SavedColumn, Row
<1>4. \A s \in Seat : SavedColumn(a.ready[s], b.ready[s], e.ready[s]) \in BOOLEAN
  BY DEF SavedColumn, Row
<1>5. SavedColumn(a.raced, b.raced, e.raced) \in Raced
  BY DEF SavedColumn, Row
<1>6. QED
  BY <1>1, <1>2, <1>3, <1>4, <1>5 DEF SavedRow, Row

\* A save that finds the row as it is writes exactly the entity.
LEMMA FreshSaveWritesEntity ==
    ASSUME NEW a \in Row, NEW e \in Row
    PROVE  SavedRow(a, a, e) = e
BY DEF SavedRow, SavedColumn, Row

LEMMA SubmitEntityType ==
    ASSUME NEW a \in Row, NEW u \in User
    PROVE  SubmitEntity(a, u) \in Row
BY DEF SubmitEntity, Row, Config, Seat, SeatOf

LEMMA AutoFillEntityType ==
    ASSUME NEW a \in Row
    PROVE  AutoFillEntity(a) \in Row
BY DEF AutoFillEntity, Row, Config, Seat

\* Neither change of an entity touches the seat, the status or the result.
LEMMA EntitiesKeepTheRest ==
    ASSUME NEW a \in Row, NEW u
    PROVE  /\ SubmitEntity(a, u).status = a.status
           /\ SubmitEntity(a, u).opponent = a.opponent
           /\ SubmitEntity(a, u).raced = a.raced
           /\ AutoFillEntity(a).status = a.status
           /\ AutoFillEntity(a).opponent = a.opponent
           /\ AutoFillEntity(a).raced = a.raced
BY DEF SubmitEntity, AutoFillEntity, Row

-----------------------------------------------------------------------------
(* Types and the opponent's seat                                           *)

\* What a request may rely on between its statements.  An entity that is
\* about to be saved names the opponent the row names: the seat was taken
\* before the entity was read, so even a stale save cannot change it.
RequestInv(r) ==
    /\ pc[r] = "claim" => user[r] \in User \ {Host}
    /\ pc[r] = "announce" => user[r] = row.opponent
    /\ pc[r] \notin {"idle", "claim"} => row.status # "waiting"
    /\ pc[r] \in {"saveSelect", "saveUpdate"} =>
          /\ seen[r].status = "configuring"
          /\ seen[r].opponent = row.opponent
          /\ op[r] = "submit" => user[r] \in User
    /\ pc[r] = "saveUpdate" =>
          /\ base[r].status # "waiting"
          /\ base[r].opponent = row.opponent
    /\ pc[r] = "race" => BothConfigured(seen[r])

SeatInv ==
    /\ TypeOK
    /\ OneOpponent
    /\ \A r \in Request : RequestInv(r)

LEMMA SeatInvInit == Init => SeatInv
<1> SUFFICES ASSUME Init
             PROVE  SeatInv
  OBVIOUS
<1>1. TypeOK
  <2>1. row \in Row /\ seen \in [Request -> Row] /\ base \in [Request -> Row]
    BY NewRowType DEF Init
  <2>2. /\ pc \in [Request -> Step]
        /\ user \in [Request -> User \cup {NoUser}]
        /\ op \in [Request -> {"none", "submit", "poll"}]
    BY DEF Init, Step
  <2>3. /\ joined \in SUBSET User
        /\ settlements \in 0..2
        /\ disturbed \in SUBSET {"staleSave", "lostAck"}
    BY DEF Init
  <2>4. late \in BOOLEAN
    BY DEF Init
  <2>5. QED
    BY <2>1, <2>2, <2>3, <2>4 DEF TypeOK
<1>2. OneOpponent
  BY UserAssumption DEF Init, OneOpponent, NewRow
<1>3. \A r \in Request : RequestInv(r)
  BY DEF Init, RequestInv
<1>4. QED
  BY <1>1, <1>2, <1>3 DEF SeatInv

\* Return puts a request's variables back, so it keeps whatever held of it.
LEMMA ReturnKeepsTypes ==
    ASSUME NEW r \in Request, TypeOK, Return(r)
    PROVE  /\ pc' \in [Request -> Step]
           /\ user' \in [Request -> User \cup {NoUser}]
           /\ op' \in [Request -> {"none", "submit", "poll"}]
           /\ seen' \in [Request -> Row]
           /\ base' \in [Request -> Row]
           /\ pc'[r] = "idle"
           /\ \A q \in Request \ {r} :
                /\ pc'[q] = pc[q]
                /\ user'[q] = user[q]
                /\ op'[q] = op[q]
                /\ seen'[q] = seen[q]
                /\ base'[q] = base[q]
<1>1. /\ pc' = [pc EXCEPT ![r] = "idle"]
      /\ user' = [user EXCEPT ![r] = NoUser]
      /\ op' = [op EXCEPT ![r] = "none"]
      /\ seen' = [seen EXCEPT ![r] = NewRow]
      /\ base' = [base EXCEPT ![r] = NewRow]
  BY DEF Return, Goto
<1>2. /\ pc \in [Request -> Step]
      /\ user \in [Request -> User \cup {NoUser}]
      /\ op \in [Request -> {"none", "submit", "poll"}]
      /\ seen \in [Request -> Row]
      /\ base \in [Request -> Row]
  BY DEF TypeOK
<1>3. "idle" \in Step
  BY DEF Step
<1>4. QED
  BY <1>1, <1>2, <1>3, NewRowType

\* A request that ends leaves the others what they rely on.
LEMMA ReturnKeepsRequestInv ==
    ASSUME NEW r \in Request, SeatInv, Return(r),
           row'.opponent = row.opponent,
           row.status # "waiting" => row'.status # "waiting"
    PROVE  \A q \in Request : RequestInv(q)'
<1> SUFFICES ASSUME NEW q \in Request
             PROVE  RequestInv(q)'
  OBVIOUS
<1>1. CASE q = r
  BY <1>1, ReturnKeepsTypes DEF RequestInv, SeatInv
<1>2. CASE q # r
  BY <1>2, ReturnKeepsTypes DEF RequestInv, SeatInv
<1>3. QED
  BY <1>1, <1>2

\* What an UPDATE of the status, and perhaps of more, leaves of a row.
LEMMA StatusUpdateType ==
    ASSUME NEW a \in Row, NEW status \in Status
    PROVE  /\ [a EXCEPT !.status = status] \in Row
           /\ [a EXCEPT !.status = status].status = status
           /\ [a EXCEPT !.status = status].opponent = a.opponent
           /\ [a EXCEPT !.status = status].config = a.config
           /\ [a EXCEPT !.status = status].ready = a.ready
           /\ [a EXCEPT !.status = status].raced = a.raced
BY DEF Row

LEMMA ClaimType ==
    ASSUME NEW a \in Row, NEW u \in User
    PROVE  /\ [a EXCEPT !.status = "configuring", !.opponent = u] \in Row
           /\ [a EXCEPT !.status = "configuring", !.opponent = u].status = "configuring"
           /\ [a EXCEPT !.status = "configuring", !.opponent = u].opponent = u
           /\ [a EXCEPT !.status = "configuring", !.opponent = u].config = a.config
           /\ [a EXCEPT !.status = "configuring", !.opponent = u].ready = a.ready
           /\ [a EXCEPT !.status = "configuring", !.opponent = u].raced = a.raced
BY DEF Row, Status

LEMMA SettledRowType ==
    ASSUME NEW r \in Request, TypeOK, BothConfigured(seen[r])
    PROVE  /\ SettledRow(r) \in Row
           /\ SettledRow(r).status = "finished"
           /\ SettledRow(r).opponent = row.opponent
           /\ SettledRow(r).config = row.config
           /\ SettledRow(r).ready = row.ready
           /\ SettledRow(r).raced = seen[r].config
<1>1. row \in Row /\ seen[r] \in Row
  BY DEF TypeOK
<1>2. seen[r].config \in Raced
  BY <1>1 DEF Row, Raced, BothConfigured
<1>3. QED
  BY <1>1, <1>2 DEF SettledRow, Row, Status

LEMMA SeatInvNext == SeatInv /\ [Next]_vars => SeatInv'
<1> SUFFICES ASSUME SeatInv, [Next]_vars
             PROVE  SeatInv'
  OBVIOUS
<1> USE DEF SeatInv
<1>1. CASE DeadlinePasses
  BY <1>1 DEF DeadlinePasses, TypeOK, OneOpponent, RequestInv, history
<1>2. ASSUME NEW r \in Request, NEW u \in User, JoinPreview(r, u)
      PROVE  SeatInv'
  BY <1>2 DEF JoinPreview, Goto, TypeOK, Step, OneOpponent, RequestInv, history
<1>3. ASSUME NEW r \in Request, NEW u \in User, SubmitRead(r, u)
      PROVE  SeatInv'
  BY <1>3, UserAssumption
     DEF SubmitRead, Reads, Goto, TypeOK, Step, OneOpponent, RequestInv, history
<1>4. ASSUME NEW r \in Request, NEW u \in User, PollRead(r, u)
      PROVE  SeatInv'
  BY <1>4 DEF PollRead, Reads, Goto, TypeOK, Step, OneOpponent, RequestInv, history
<1>5. ASSUME NEW r \in Request, JoinClaim(r)
      PROVE  SeatInv'
  <2>1. CASE /\ row.status = "waiting"
             /\ row.opponent = NoUser
             /\ row' = [row EXCEPT !.status = "configuring", !.opponent = user[r]]
             /\ Goto(r, "announce")
             /\ UNCHANGED <<user, op, seen, base>>
    <3>1. user[r] \in User \ {Host}
      BY <1>5 DEF JoinClaim, RequestInv
    <3>2. row' \in Row /\ row'.status = "configuring" /\ row'.opponent = user[r]
      <4>1. row \in Row /\ user[r] \in User
        BY <3>1 DEF TypeOK
      <4>2. QED
        BY <2>1, <4>1, ClaimType
    <3>3. TypeOK'
      BY <1>5, <2>1, <3>2 DEF JoinClaim, TypeOK, Goto, Step, history
    <3>4. OneOpponent'
      BY <1>5, <2>1, <3>1, <3>2, UserAssumption
         DEF JoinClaim, OneOpponent, TypeOK, history
    <3>5. ASSUME NEW q \in Request
          PROVE  RequestInv(q)'
      <4>1. q # r => pc[q] \in {"idle", "claim"}
        BY <2>1 DEF RequestInv, TypeOK
      <4>2. QED
        BY <2>1, <3>1, <3>2, <4>1 DEF RequestInv, Goto, TypeOK
    <3>6. QED
      BY <3>3, <3>4, <3>5
  <2>2. CASE Return(r) /\ UNCHANGED row
    <3>1. TypeOK' /\ OneOpponent'
      BY <1>5, <2>2, ReturnKeepsTypes DEF JoinClaim, TypeOK, OneOpponent, history
    <3>2. QED
      BY <2>2, <3>1, ReturnKeepsRequestInv
  <2>3. QED
    BY <1>5, <2>1, <2>2 DEF JoinClaim
<1>6. ASSUME NEW r \in Request, AnnounceJoin(r)
      PROVE  SeatInv'
  <2>1. user[r] = row.opponent /\ row.status # "waiting"
    BY <1>6 DEF AnnounceJoin, RequestInv
  <2>2. row.opponent \in User
    BY <2>1 DEF TypeOK, Row, OneOpponent
  <2>3. TypeOK' /\ OneOpponent'
    BY <1>6, <2>1, <2>2, ReturnKeepsTypes DEF AnnounceJoin, TypeOK, OneOpponent
  <2>4. QED
    BY <1>6, <2>3, ReturnKeepsRequestInv DEF AnnounceJoin
<1>7. ASSUME NEW r \in Request, SaveSelect(r)
      PROVE  SeatInv'
  BY <1>7 DEF SaveSelect, Goto, TypeOK, Step, OneOpponent, RequestInv, history
<1>8. ASSUME NEW r \in Request, SaveUpdate(r)
      PROVE  SeatInv'
  <2>1. /\ Entity(r) \in Row
        /\ Entity(r).status = "configuring"
        /\ Entity(r).opponent = row.opponent
    <3>1. seen[r] \in Row
      BY DEF TypeOK
    <3>2. seen[r].status = "configuring" /\ seen[r].opponent = row.opponent
      BY <1>8 DEF SaveUpdate, RequestInv
    <3>3. op[r] = "submit" => user[r] \in User
      BY <1>8 DEF SaveUpdate, RequestInv
    <3>4. QED
      BY <3>1, <3>2, <3>3, SubmitEntityType, AutoFillEntityType, EntitiesKeepTheRest
         DEF Entity
  <2>2. row' \in Row /\ row'.opponent = row.opponent
    <3>1. row \in Row /\ base[r] \in Row
      BY DEF TypeOK
    <3>2. row' = SavedRow(row, base[r], Entity(r))
      BY <1>8 DEF SaveUpdate
    <3>3. row' \in Row
      BY <2>1, <3>1, <3>2, SavedRowType
    <3>4. row'.opponent = row.opponent
      BY <2>1, <3>2 DEF SavedRow, SavedColumn
    <3>5. QED
      BY <3>3, <3>4
  <2>3. row'.status # "waiting" /\ row.status # "waiting"
    <3>1. row'.status = SavedColumn(row.status, base[r].status, Entity(r).status)
      BY <1>8 DEF SaveUpdate, SavedRow
    <3>2. row.status # "waiting"
      BY <1>8 DEF SaveUpdate, RequestInv
    <3>3. QED
      BY <2>1, <3>1, <3>2 DEF SavedColumn
  <2>4. TypeOK'
    <3>1. SeatOf(user[r]) \in Seat
      BY DEF SeatOf, Seat
    <3>2. QED
      BY <1>8, <2>2, <3>1, NewRowType DEF SaveUpdate, TypeOK, Goto, Step
  <2>5. OneOpponent'
    BY <1>8, <2>2, <2>3 DEF SaveUpdate, OneOpponent
  <2>6. ASSUME NEW q \in Request
        PROVE  RequestInv(q)'
    BY <1>8, <2>2, <2>3 DEF SaveUpdate, Goto, TypeOK, RequestInv
  <2>7. QED
    BY <2>4, <2>5, <2>6
<1>9. ASSUME NEW r \in Request, Reload(r)
      PROVE  SeatInv'
  BY <1>9, ReturnKeepsTypes, NewRowType
     DEF Reload, Goto, TypeOK, Step, Owning, OneOpponent, RequestInv, history
<1>10. ASSUME NEW r \in Request, CompareAndSwap(r)
       PROVE  SeatInv'
  <2>1. CASE /\ row.status = "configuring"
             /\ row' = [row EXCEPT !.status = "simulating"]
             /\ Goto(r, "load")
             /\ UNCHANGED <<user, op, seen, base>>
    <3>1. /\ row' \in Row
          /\ row'.status = "simulating"
          /\ row'.opponent = row.opponent
      BY <2>1, StatusUpdateType DEF TypeOK, Status
    <3>2. TypeOK' /\ OneOpponent'
      BY <1>10, <2>1, <3>1
         DEF CompareAndSwap, TypeOK, Goto, Step, Owning, OneOpponent, history
    <3>3. \A q \in Request : RequestInv(q)'
      BY <2>1, <3>1 DEF RequestInv, Goto, TypeOK
    <3>4. QED
      BY <3>2, <3>3
  <2>2. CASE Return(r) /\ UNCHANGED row
    <3>1. TypeOK' /\ OneOpponent'
      BY <1>10, <2>2, ReturnKeepsTypes
         DEF CompareAndSwap, TypeOK, OneOpponent, history
    <3>2. QED
      BY <2>2, <3>1, ReturnKeepsRequestInv
  <2>3. QED
    BY <1>10, <2>1, <2>2 DEF CompareAndSwap
<1>11. ASSUME NEW r \in Request, LoadFull(r)
       PROVE  SeatInv'
  BY <1>11
     DEF LoadFull, Goto, TypeOK, Step, Owning, OneOpponent, RequestInv, history
<1>12. ASSUME NEW r \in Request, Settle(r)
       PROVE  SeatInv'
  <2>1. /\ row' \in Row
        /\ row'.status = "finished"
        /\ row'.opponent = row.opponent
    BY <1>12, SettledRowType DEF Settle, RequestInv
  <2>2. row.status # "waiting"
    BY <1>12 DEF Settle, RequestInv
  <2>3. TypeOK' /\ OneOpponent'
    BY <1>12, <2>1, <2>2
       DEF Settle, OneMore, TypeOK, Goto, Step, Owning, OneOpponent
  <2>4. \A q \in Request : RequestInv(q)'
    BY <1>12, <2>1 DEF Settle, RequestInv, Goto, TypeOK
  <2>5. QED
    BY <2>3, <2>4
<1>13. ASSUME NEW r \in Request, SettleUnacknowledged(r)
       PROVE  SeatInv'
  <2>1. /\ row' \in Row
        /\ row'.status = "finished"
        /\ row'.opponent = row.opponent
    BY <1>13, SettledRowType DEF SettleUnacknowledged, RequestInv
  <2>2. row.status # "waiting"
    BY <1>13 DEF SettleUnacknowledged, RequestInv
  <2>3. TypeOK' /\ OneOpponent'
    BY <1>13, <2>1, <2>2
       DEF SettleUnacknowledged, OneMore, TypeOK, Goto, Step, Owning, OneOpponent
  <2>4. \A q \in Request : RequestInv(q)'
    BY <1>13, <2>1 DEF SettleUnacknowledged, RequestInv, Goto, TypeOK
  <2>5. QED
    BY <2>3, <2>4
<1>14. ASSUME NEW r \in Request, RaceFails(r)
       PROVE  SeatInv'
  BY <1>14 DEF RaceFails, Goto, TypeOK, Step, Owning, OneOpponent, RequestInv, history
<1>15. ASSUME NEW r \in Request, Revert(r)
       PROVE  SeatInv'
  <2>1. /\ row' \in Row
        /\ row'.status = "configuring"
        /\ row'.opponent = row.opponent
    BY <1>15, StatusUpdateType DEF Revert, TypeOK, Status
  <2>2. row.status # "waiting"
    BY <1>15 DEF Revert, RequestInv
  <2>3. TypeOK' /\ OneOpponent'
    BY <1>15, <2>1, <2>2, ReturnKeepsTypes DEF Revert, TypeOK, OneOpponent, history
  <2>4. QED
    BY <1>15, <2>1, <2>3, ReturnKeepsRequestInv DEF Revert
<1>16. ASSUME NEW r \in Request, AnnounceFinish(r) \/ Die(r)
       PROVE  SeatInv'
  <2>1. Return(r) /\ UNCHANGED <<row, late, history>>
    BY <1>16 DEF AnnounceFinish, Die
  <2>2. TypeOK' /\ OneOpponent'
    BY <2>1, ReturnKeepsTypes DEF TypeOK, OneOpponent, history
  <2>3. QED
    BY <2>1, <2>2, ReturnKeepsRequestInv
<1>17. CASE UNCHANGED vars
  BY <1>17 DEF vars, TypeOK, OneOpponent, RequestInv
<1>18. QED
  BY <1>1, <1>2, <1>3, <1>4, <1>5, <1>6, <1>7, <1>8, <1>9, <1>10, <1>11, <1>12,
     <1>13, <1>14, <1>15, <1>16, <1>17 DEF Next, Continue

THEOREM SeatInvariant == Spec => []SeatInv
BY SeatInvInit, SeatInvNext, PTL DEF Spec

\* However requests interleave, die or save stale rows, the variables keep
\* their types and a stored result is complete (startSimulation, lines 297-305).
THEOREM TypeCorrect == Spec => []TypeOK
<1>1. SeatInv => TypeOK
  BY DEF SeatInv
<1>2. QED
  BY <1>1, SeatInvariant, PTL

\* Exactly one of the users who race for the seat gets it, and only that one is
\* announced (the conditional UPDATE of join).
THEOREM SeatTakenOnce == Spec => []OneOpponent
<1>1. SeatInv => OneOpponent
  BY DEF SeatInv
<1>2. QED
  BY <1>1, SeatInvariant, PTL

\* Once taken, the seat does not change hands: a stale entity that is written
\* back names the same opponent.
THEOREM SeatKept == Spec => OpponentStays
<1>1. ASSUME SeatInv, Next, row.opponent # NoUser
      PROVE  row'.opponent = row.opponent
  <2>1. CASE row' = row
    BY <2>1
  <2>2. ASSUME NEW r \in Request, JoinClaim(r)
        PROVE  row'.opponent = row.opponent
    BY <1>1, <2>2 DEF JoinClaim
  <2>3. ASSUME NEW r \in Request, SaveUpdate(r)
        PROVE  row'.opponent = row.opponent
    <3>1. /\ row' = SavedRow(row, base[r], Entity(r))
          /\ seen[r].opponent = row.opponent
          /\ seen[r] \in Row
      BY <1>1, <2>3 DEF SaveUpdate, SeatInv, RequestInv, TypeOK
    <3>2. Entity(r).opponent = row.opponent
      BY <3>1, EntitiesKeepTheRest DEF Entity
    <3>3. QED
      BY <3>1, <3>2 DEF SavedRow, SavedColumn
  <2>4. ASSUME NEW r \in Request,
               CompareAndSwap(r) \/ Settle(r) \/ SettleUnacknowledged(r) \/ Revert(r)
        PROVE  row'.opponent = row.opponent
    BY <1>1, <2>4
       DEF CompareAndSwap, Settle, SettleUnacknowledged, Revert, SettledRow,
           SeatInv, TypeOK, Row
  <2>5. QED
    BY <1>1, <2>1, <2>2, <2>3, <2>4
       DEF Next, Continue, DeadlinePasses, JoinPreview, SubmitRead, PollRead,
           AnnounceJoin, SaveSelect, Reload, LoadFull, RaceFails, AnnounceFinish, Die
<1>2. SeatInv /\ [Next]_vars => [row.opponent # NoUser => row'.opponent = row.opponent]_vars
  BY <1>1
<1>3. QED
  BY <1>2, SeatInvariant, PTL DEF Spec, OpponentStays

-----------------------------------------------------------------------------
(* The quiet lobby: what holds as long as no save was stale                *)

\* The racer is alone and found the row as it is; whoever is about to swap saw
\* both players ready, and they still are.
RacerInv(r) ==
    /\ pc[r] \in {"load", "race", "revert"} => row.status = "simulating"
    /\ pc[r] = "finish" => row.status = "finished"
    /\ pc[r] \in Owning => \A q \in Request : pc[q] \in Owning => q = r
    /\ pc[r] = "race" => seen[r].config = row.config
    /\ pc[r] = "cas" => BothReady(row)

QuietCore ==
    /\ \A r \in Request : RacerInv(r)
    /\ \A s \in Seat : row.ready[s] => row.config[s] # NoConfig
    /\ row.status = "finished" => row.raced = row.config
    /\ settlements < 2
    /\ settlements = 1 <=> row.status = "finished"

QuietInv == SeatInv /\ (disturbed = {} => QuietCore)

\* A fresh save writes the entity made of the row as it is.
LEMMA FreshSave ==
    ASSUME NEW r \in Request, SeatInv, SaveUpdate(r), disturbed' = {}
    PROVE  /\ disturbed = {}
           /\ row.status = "configuring"
           /\ op[r] = "submit" => user[r] \in User /\ row' = SubmitEntity(row, user[r])
           /\ op[r] # "submit" => row' = AutoFillEntity(row)
<1>1. disturbed = {} /\ seen[r] = row /\ base[r] = row
  BY DEF SaveUpdate, SavesStale
<1>2. row \in Row
  BY DEF SeatInv, TypeOK
<1>3. row.status = "configuring" /\ (op[r] = "submit" => user[r] \in User)
  BY <1>1 DEF SeatInv, RequestInv, SaveUpdate
<1>4. Entity(r) \in Row
  BY <1>1, <1>2, <1>3, SubmitEntityType, AutoFillEntityType DEF Entity
<1>5. row' = Entity(r)
  BY <1>1, <1>2, <1>4, FreshSaveWritesEntity DEF SaveUpdate
<1>6. QED
  BY <1>1, <1>3, <1>5 DEF Entity

\* What the two entities do to the columns a quiet lobby depends on.
LEMMA SubmitColumns ==
    ASSUME NEW a \in Row, NEW u \in User
    PROVE  /\ SubmitEntity(a, u).config = [a.config EXCEPT ![SeatOf(u)] = "player"]
           /\ SubmitEntity(a, u).ready = [a.ready EXCEPT ![SeatOf(u)] = TRUE]
           /\ SeatOf(u) \in Seat
BY DEF SubmitEntity, Row, SeatOf, Seat

LEMMA AutoFillColumns ==
    ASSUME NEW a \in Row
    PROVE  /\ AutoFillEntity(a).config =
                 [s \in Seat |-> IF a.config[s] = NoConfig THEN "ai" ELSE a.config[s]]
           /\ AutoFillEntity(a).ready = [s \in Seat |-> TRUE]
BY DEF AutoFillEntity, Row

\* A request that returns and leaves the row and the history alone leaves a
\* quiet lobby quiet.
LEMMA ReturnKeepsQuiet ==
    ASSUME NEW r \in Request, SeatInv, QuietCore, Return(r),
           UNCHANGED <<row, settlements>>
    PROVE  QuietCore'
<1>1. \A q \in Request : RacerInv(q)'
  BY ReturnKeepsTypes DEF SeatInv, QuietCore, RacerInv, Owning
<1>2. QED
  BY <1>1 DEF QuietCore

LEMMA QuietSave ==
    ASSUME NEW r \in Request, SeatInv, QuietCore, SaveUpdate(r), disturbed' = {}
    PROVE  QuietCore'
<1>1. row \in Row /\ row.status = "configuring"
  BY FreshSave DEF SeatInv, TypeOK
<1>2. \A q \in Request : pc[q] \notin Owning
  BY <1>1 DEF QuietCore, RacerInv, Owning
<1>3. /\ row'.status = "configuring"
      /\ \A s \in Seat : row'.ready[s] => row'.config[s] # NoConfig
      /\ \A s \in Seat : row.ready[s] => row'.ready[s]
  <2>1. CASE op[r] = "submit"
    <3>1. user[r] \in User /\ row' = SubmitEntity(row, user[r])
      BY <2>1, FreshSave
    <3>2. /\ row'.config = [row.config EXCEPT ![SeatOf(user[r])] = "player"]
          /\ row'.ready = [row.ready EXCEPT ![SeatOf(user[r])] = TRUE]
          /\ row'.status = "configuring"
          /\ SeatOf(user[r]) \in Seat
      BY <1>1, <3>1, SubmitColumns, EntitiesKeepTheRest
    <3>3. row.config \in [Seat -> Config] /\ row.ready \in [Seat -> BOOLEAN]
      BY <1>1 DEF Row
    <3>4. QED
      BY <1>1, <3>2, <3>3 DEF QuietCore, NoConfig
  <2>2. CASE op[r] # "submit"
    <3>1. row' = AutoFillEntity(row)
      BY <2>2, FreshSave
    <3>2. /\ \A s \in Seat : row'.config[s] =
                 IF row.config[s] = NoConfig THEN "ai" ELSE row.config[s]
          /\ \A s \in Seat : row'.ready[s]
          /\ row'.status = "configuring"
      <4>1. /\ row'.config =
                 [s \in Seat |-> IF row.config[s] = NoConfig THEN "ai" ELSE row.config[s]]
            /\ row'.ready = [s \in Seat |-> TRUE]
        BY <1>1, <3>1, AutoFillColumns
      <4>2. row'.status = "configuring"
        BY <1>1, <3>1, EntitiesKeepTheRest
      <4>3. QED
        BY <4>1, <4>2
    <3>3. QED
      BY <1>1, <3>1, <3>2 DEF QuietCore, NoConfig
  <2>3. QED
    BY <2>1, <2>2
<1>4. \A q \in Request : RacerInv(q)'
  BY <1>2, <1>3 DEF SaveUpdate, Goto, SeatInv, TypeOK, QuietCore, RacerInv, Owning, BothReady
<1>5. settlements' = settlements
  BY DEF SaveUpdate
<1>6. QED
  BY <1>1, <1>3, <1>4, <1>5 DEF QuietCore

LEMMA QuietInvInit == Init => QuietInv
<1> SUFFICES ASSUME Init
             PROVE  QuietCore
  BY SeatInvInit DEF QuietInv
<1>1. /\ row.status = "waiting"
      /\ \A s \in Seat : ~row.ready[s]
      /\ settlements = 0
      /\ \A r \in Request : pc[r] = "idle"
  BY DEF Init, NewRow
<1>2. QED
  BY <1>1 DEF QuietCore, RacerInv, Owning

LEMMA QuietInvNext == QuietInv /\ [Next]_vars => QuietInv'
<1> SUFFICES ASSUME QuietInv, [Next]_vars, disturbed' = {}
             PROVE  QuietCore'
  BY SeatInvNext DEF QuietInv
<1>1. SeatInv /\ SeatInv'
  BY SeatInvNext DEF QuietInv
<1>2. disturbed = {}
  BY DEF Next, Continue, DeadlinePasses, JoinPreview, SubmitRead, PollRead, JoinClaim,
         AnnounceJoin, SaveSelect, SaveUpdate, Reload, CompareAndSwap, LoadFull, Settle,
         SettleUnacknowledged, RaceFails, Revert, AnnounceFinish, Die, history, vars
<1>3. QuietCore
  BY <1>2 DEF QuietInv
<1>4. /\ pc \in [Request -> Step] /\ row \in Row
      /\ seen \in [Request -> Row]
  BY <1>1 DEF SeatInv, TypeOK
<1>5. ASSUME NEW r \in Request, JoinClaim(r)
      PROVE  QuietCore'
  <2>1. CASE /\ row.status = "waiting"
             /\ row' = [row EXCEPT !.status = "configuring", !.opponent = user[r]]
             /\ Goto(r, "announce")
    <3>1. user[r] \in User
      BY <1>1, <1>5 DEF SeatInv, RequestInv, JoinClaim
    <3>2. /\ row'.status = "configuring"
          /\ row'.config = row.config
          /\ row'.ready = row.ready
      BY <1>4, <2>1, <3>1, ClaimType
    <3>3. \A q \in Request : pc[q] \notin Owning /\ pc[q] # "cas"
      BY <1>1, <2>1 DEF SeatInv, RequestInv, Owning
    <3>4. QED
      BY <1>3, <1>4, <1>5, <2>1, <3>2, <3>3
         DEF JoinClaim, Goto, QuietCore, RacerInv, Owning, history
  <2>2. CASE Return(r) /\ UNCHANGED row
    BY <1>1, <1>3, <1>5, <2>2, ReturnKeepsQuiet DEF JoinClaim, history
  <2>3. QED
    BY <1>5, <2>1, <2>2 DEF JoinClaim
<1>6. ASSUME NEW r \in Request, Reload(r)
      PROVE  QuietCore'
  <2>1. CASE StartsRace(op[r], row) /\ Goto(r, "cas") /\ seen' = [seen EXCEPT ![r] = NewRow]
    BY <1>3, <1>4, <1>6, <2>1
       DEF Reload, StartsRace, Goto, QuietCore, RacerInv, Owning, BothReady, history
  <2>2. CASE Return(r)
    BY <1>1, <1>3, <1>6, <2>2, ReturnKeepsQuiet DEF Reload, history
  <2>3. QED
    BY <1>6, <2>1, <2>2 DEF Reload
<1>7. ASSUME NEW r \in Request, CompareAndSwap(r)
      PROVE  QuietCore'
  <2>1. CASE /\ row.status = "configuring"
             /\ row' = [row EXCEPT !.status = "simulating"]
             /\ Goto(r, "load")
             /\ UNCHANGED <<user, op, seen, base>>
    <3>1. /\ row'.status = "simulating"
          /\ row'.config = row.config
          /\ row'.ready = row.ready
      BY <1>4, <2>1, StatusUpdateType DEF Status
    <3>2. \A q \in Request : pc[q] \notin Owning
      BY <1>3, <2>1 DEF QuietCore, RacerInv, Owning
    <3>3. QED
      BY <1>3, <1>4, <1>7, <2>1, <3>1, <3>2
         DEF CompareAndSwap, Goto, QuietCore, RacerInv, Owning, BothReady, history
  <2>2. CASE Return(r) /\ UNCHANGED row
    BY <1>1, <1>3, <1>7, <2>2, ReturnKeepsQuiet DEF CompareAndSwap, history
  <2>3. QED
    BY <1>7, <2>1, <2>2 DEF CompareAndSwap
<1>8. ASSUME NEW r \in Request, LoadFull(r)
      PROVE  QuietCore'
  BY <1>3, <1>4, <1>8 DEF LoadFull, Goto, QuietCore, RacerInv, Owning, history
<1>9. ASSUME NEW r \in Request, Settle(r)
      PROVE  QuietCore'
  <2>1. /\ row.status = "simulating"
        /\ seen[r].config = row.config
        /\ \A q \in Request : pc[q] \in Owning => q = r
    BY <1>3, <1>9 DEF Settle, QuietCore, RacerInv, Owning
  <2>2. /\ row'.status = "finished"
        /\ row'.config = row.config
        /\ row'.ready = row.ready
        /\ row'.raced = row.config
    <3>1. BothConfigured(seen[r])
      BY <1>1, <1>9 DEF Settle, SeatInv, RequestInv
    <3>2. QED
      BY <1>1, <1>9, <2>1, <3>1, SettledRowType DEF Settle, SeatInv
  <2>3. settlements = 0 /\ settlements' = 1
    BY <1>1, <1>3, <1>9, <2>1 DEF Settle, OneMore, QuietCore, SeatInv, TypeOK
  <2>4. \A q \in Request : RacerInv(q)'
    BY <1>3, <1>4, <1>9, <2>1, <2>2 DEF Settle, Goto, QuietCore, RacerInv, Owning, BothReady
  <2>5. QED
    BY <1>3, <1>9, <2>2, <2>3, <2>4 DEF Settle, QuietCore
<1>10. ASSUME NEW r \in Request, Revert(r)
       PROVE  QuietCore'
  <2>1. /\ row.status = "simulating"
        /\ \A q \in Request : pc[q] \in Owning => q = r
    BY <1>3, <1>10 DEF Revert, QuietCore, RacerInv, Owning
  <2>2. /\ row'.status = "configuring"
        /\ row'.config = row.config
        /\ row'.ready = row.ready
    BY <1>4, <1>10, StatusUpdateType DEF Revert, Status
  <2>3. \A q \in Request : RacerInv(q)'
    BY <1>1, <1>3, <1>10, <2>1, <2>2, ReturnKeepsTypes
       DEF Revert, QuietCore, RacerInv, Owning, BothReady, SeatInv
  <2>4. QED
    BY <1>3, <1>10, <2>1, <2>2, <2>3 DEF Revert, QuietCore, history
<1>11. ASSUME NEW r \in Request, RaceFails(r)
       PROVE  QuietCore'
  BY <1>3, <1>4, <1>11 DEF RaceFails, Goto, QuietCore, RacerInv, Owning, history
<1>12. ASSUME NEW r \in Request, SaveUpdate(r)
       PROVE  QuietCore'
  BY <1>1, <1>3, <1>12, QuietSave
<1>13. ASSUME NEW r \in Request, SaveSelect(r)
       PROVE  QuietCore'
  BY <1>3, <1>4, <1>13 DEF SaveSelect, Goto, QuietCore, RacerInv, Owning, history
<1>14. ASSUME NEW r \in Request, NEW u \in User,
              JoinPreview(r, u) \/ SubmitRead(r, u) \/ PollRead(r, u)
       PROVE  QuietCore'
  BY <1>3, <1>4, <1>14
     DEF JoinPreview, SubmitRead, PollRead, Reads, Goto, QuietCore, RacerInv, Owning, history
<1>15. ASSUME NEW r \in Request, AnnounceJoin(r) \/ AnnounceFinish(r) \/ Die(r)
       PROVE  QuietCore'
  BY <1>1, <1>3, <1>15, ReturnKeepsQuiet DEF AnnounceJoin, AnnounceFinish, Die, history
<1>16. CASE DeadlinePasses \/ UNCHANGED vars
  BY <1>3, <1>16 DEF DeadlinePasses, QuietCore, RacerInv, history, vars
<1>17. ASSUME NEW r \in Request
       PROVE  ~SettleUnacknowledged(r)
  BY DEF SettleUnacknowledged
<1>18. QED
  BY <1>5, <1>6, <1>7, <1>8, <1>9, <1>10, <1>11, <1>12, <1>13, <1>14, <1>15, <1>16, <1>17
     DEF Next, Continue

THEOREM QuietInvariant == Spec => []QuietInv
BY QuietInvInit, QuietInvNext, PTL DEF Spec

\* The compare-and-swap lets one request at a time run a race, for any number
\* of submitters and pollers, as long as every save was fresh.
THEOREM RacerAlone == Spec => []OneRacer
<1>1. QuietInv => OneRacer
  BY DEF QuietInv, QuietCore, RacerInv, OneRacer, Owning
<1>2. QED
  BY <1>1, QuietInvariant, PTL

\* A lobby that nothing disturbed settles ratings and bets once at most.
THEOREM SettlesOnce == Spec => []SettledOnce
<1>1. QuietInv => SettledOnce
  BY DEF QuietInv, QuietCore, SettledOnce
<1>2. QED
  BY <1>1, QuietInvariant, PTL

\* The stored result is that of the stored configurations.
THEOREM ResultMatchesConfigs == Spec => []RacedAsShown
<1>1. QuietInv => RacedAsShown
  BY DEF QuietInv, QuietCore, RacedAsShown
<1>2. QED
  BY <1>1, QuietInvariant, PTL

-----------------------------------------------------------------------------
(* The quiet lobby keeps LobbyPromise                                      *)

LEMMA PromiseInitially == Init => Promise!PromiseInit
BY DEF Init, Promise!PromiseInit, NewRow, Promise!NotRaced, NotRaced, Promise!Seat, Seat,
       Promise!NoConfig, NoConfig

LEMMA PromiseStep ==
    QuietInv /\ [Next]_vars =>
        [disturbed' = {} => Promise!PromiseNext]_<<row.status, row.opponent, row.config, row.raced>>
<1> DEFINE mapped == <<row.status, row.opponent, row.config, row.raced>>
<1> SUFFICES ASSUME QuietInv, [Next]_vars
             PROVE  [disturbed' = {} => Promise!PromiseNext]_mapped
  OBVIOUS
<1>1. SeatInv /\ row \in Row
  BY DEF QuietInv, SeatInv, TypeOK
<1>2. row' = row => UNCHANGED mapped
  OBVIOUS
<1>3. disturbed' = {} /\ Next => QuietCore
  BY DEF QuietInv, Next, Continue, DeadlinePasses, JoinPreview, SubmitRead, PollRead,
         JoinClaim, AnnounceJoin, SaveSelect, SaveUpdate, Reload, CompareAndSwap, LoadFull,
         Settle, SettleUnacknowledged, RaceFails, Revert, AnnounceFinish, Die, history
<1>4. ASSUME NEW r \in Request, JoinClaim(r)
      PROVE  [Promise!PromiseNext]_mapped
  <2>1. CASE /\ row.status = "waiting"
             /\ row.opponent = NoUser
             /\ row' = [row EXCEPT !.status = "configuring", !.opponent = user[r]]
    <3>1. user[r] \in User /\ user[r] # Host
      BY <1>1, <1>4 DEF JoinClaim, SeatInv, RequestInv
    <3>2. /\ row'.status = "configuring"
          /\ row'.opponent = user[r]
          /\ row'.config = row.config
          /\ row'.raced = row.raced
      BY <1>1, <2>1, <3>1, ClaimType
    <3>3. Promise!TakeSeat(user[r])
      BY <2>1, <3>1, <3>2 DEF Promise!TakeSeat
    <3>4. QED
      BY <3>1, <3>3 DEF Promise!PromiseNext
  <2>2. QED
    BY <1>2, <1>4, <2>1 DEF JoinClaim
<1>5. ASSUME NEW r \in Request, SaveUpdate(r), disturbed' = {}
      PROVE  [Promise!PromiseNext]_mapped
  <2>1. row.status = "configuring"
    BY <1>1, <1>5, FreshSave
  <2>2. CASE op[r] = "submit"
    <3>1. user[r] \in User /\ row' = SubmitEntity(row, user[r])
      BY <1>1, <1>5, <2>2, FreshSave
    <3>2. /\ row'.config = [row.config EXCEPT ![SeatOf(user[r])] = "player"]
          /\ SeatOf(user[r]) \in Seat
      BY <1>1, <3>1, SubmitColumns
    <3>3. row'.status = row.status /\ row'.opponent = row.opponent /\ row'.raced = row.raced
      BY <1>1, <3>1, EntitiesKeepTheRest
    <3>4. Promise!Submit(SeatOf(user[r]))
      BY <2>1, <3>2, <3>3 DEF Promise!Submit
    <3>5. QED
      BY <3>2, <3>4 DEF Promise!PromiseNext, Promise!Seat, Seat
  <2>3. CASE op[r] # "submit"
    <3>1. row' = AutoFillEntity(row)
      BY <1>1, <1>5, <2>3, FreshSave
    <3>2. row'.config =
            [s \in Seat |-> IF row.config[s] = NoConfig THEN "ai" ELSE row.config[s]]
      BY <1>1, <3>1, AutoFillColumns
    <3>3. row'.status = row.status /\ row'.opponent = row.opponent /\ row'.raced = row.raced
      BY <1>1, <3>1, EntitiesKeepTheRest
    <3>4. Promise!FillEmptySeats
      BY <2>1, <3>2, <3>3 DEF Promise!FillEmptySeats, Promise!Seat, Seat,
         Promise!NoConfig, NoConfig
    <3>5. QED
      BY <3>4 DEF Promise!PromiseNext
  <2>4. QED
    BY <2>2, <2>3
<1>6. ASSUME NEW r \in Request, CompareAndSwap(r), QuietCore
      PROVE  [Promise!PromiseNext]_mapped
  <2>1. CASE row.status = "configuring" /\ row' = [row EXCEPT !.status = "simulating"]
    <3>1. /\ row'.status = "simulating"
          /\ row'.opponent = row.opponent
          /\ row'.config = row.config
          /\ row'.raced = row.raced
      BY <1>1, <2>1, StatusUpdateType DEF Status
    <3>2. \A s \in Seat : row.config[s] # NoConfig
      BY <1>6 DEF CompareAndSwap, QuietCore, RacerInv, BothReady
    <3>3. Promise!Race
      BY <2>1, <3>1, <3>2 DEF Promise!Race, Promise!Seat, Seat, Promise!NoConfig, NoConfig
    <3>4. QED
      BY <3>3 DEF Promise!PromiseNext
  <2>2. QED
    BY <1>2, <1>6, <2>1 DEF CompareAndSwap
<1>7. ASSUME NEW r \in Request, Settle(r), QuietCore
      PROVE  [Promise!PromiseNext]_mapped
  <2>1. row.status = "simulating" /\ seen[r].config = row.config
    BY <1>7 DEF Settle, QuietCore, RacerInv
  <2>2. BothConfigured(seen[r])
    BY <1>1, <1>7 DEF Settle, SeatInv, RequestInv
  <2>3. /\ row'.status = "finished"
        /\ row'.opponent = row.opponent
        /\ row'.config = row.config
        /\ row'.raced = row.config
    BY <1>1, <1>7, <2>1, <2>2, SettledRowType DEF Settle, SeatInv
  <2>4. Promise!Finish
    BY <2>1, <2>3 DEF Promise!Finish
  <2>5. QED
    BY <2>4 DEF Promise!PromiseNext
<1>8. ASSUME NEW r \in Request, Revert(r), QuietCore
      PROVE  [Promise!PromiseNext]_mapped
  <2>1. row.status = "simulating"
    BY <1>8 DEF Revert, QuietCore, RacerInv
  <2>2. /\ row'.status = "configuring"
        /\ row'.opponent = row.opponent
        /\ row'.config = row.config
        /\ row'.raced = row.raced
    BY <1>1, <1>8, StatusUpdateType DEF Revert, Status
  <2>3. Promise!GiveUpRace
    BY <2>1, <2>2 DEF Promise!GiveUpRace
  <2>4. QED
    BY <2>3 DEF Promise!PromiseNext
<1>9. ASSUME NEW r \in Request, SettleUnacknowledged(r)
      PROVE  disturbed' # {}
  BY <1>9 DEF SettleUnacknowledged
<1>10. CASE UNCHANGED vars
  BY <1>2, <1>10 DEF vars
<1>11. CASE Next /\ disturbed' = {}
  <2>1. QuietCore
    BY <1>3, <1>11
  <2>2. CASE row' = row
    BY <1>2, <2>2
  <2>3. CASE row' # row
    BY <1>4, <1>5, <1>6, <1>7, <1>8, <1>9, <1>11, <2>1, <2>3
       DEF Next, Continue, DeadlinePasses, JoinPreview, SubmitRead, PollRead, AnnounceJoin,
           SaveSelect, Reload, LoadFull, RaceFails, AnnounceFinish, Die
  <2>4. QED
    BY <2>2, <2>3
<1>12. QED
  BY <1>10, <1>11

\* Until a stale save or a lost acknowledgement disturbs it, what requests do to a
\* lobby is what the abstract lobby does, or nothing.
THEOREM LobbyKeepsPromise == Spec => KeepsPromise
BY PromiseInitially, PromiseStep, QuietInvariant, PTL
   DEF Spec, KeepsPromise, Promise!promiseVars

\* A finished lobby that nothing disturbs keeps its row for good.
THEOREM FinishedForGood == Spec => FinishedIsFinal
<1>1. ASSUME QuietInv, Next, row.status = "finished", disturbed' = {}
      PROVE  row' = row
  <2>1. QuietCore
    BY <1>1 DEF QuietInv, Next, Continue, DeadlinePasses, JoinPreview, SubmitRead, PollRead,
         JoinClaim, AnnounceJoin, SaveSelect, SaveUpdate, Reload, CompareAndSwap, LoadFull,
         Settle, SettleUnacknowledged, RaceFails, Revert, AnnounceFinish, Die, history
  <2>2. ASSUME NEW r \in Request
        PROVE  ~SaveUpdate(r) /\ ~Settle(r) /\ ~Revert(r) /\ ~SettleUnacknowledged(r)
    BY <1>1, <2>1, FreshSave
       DEF QuietInv, Settle, Revert, SettleUnacknowledged, QuietCore, RacerInv
  <2>3. ASSUME NEW r \in Request, JoinClaim(r) \/ CompareAndSwap(r)
        PROVE  row' = row
    BY <1>1, <2>3 DEF JoinClaim, CompareAndSwap
  <2>4. QED
    BY <1>1, <2>2, <2>3
       DEF Next, Continue, DeadlinePasses, JoinPreview, SubmitRead, PollRead, AnnounceJoin,
           SaveSelect, Reload, LoadFull, RaceFails, AnnounceFinish, Die
<1>2. QuietInv /\ [Next]_vars => [row.status = "finished" /\ disturbed' = {} => row' = row]_vars
  BY <1>1
<1>3. QED
  BY <1>2, QuietInvariant, PTL DEF Spec, FinishedIsFinal
=============================================================================
