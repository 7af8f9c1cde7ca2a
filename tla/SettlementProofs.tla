-------------------------- MODULE SettlementProofs --------------------------
(***************************************************************************)
(* Theorems about Settlement, for any sets of users, lobbies and bets, any *)
(* stakes, and any number of races, failures and lost acknowledgements.    *)
(***************************************************************************)
EXTENDS Settlement, SequenceTheorems, TLAPS

-----------------------------------------------------------------------------
(* Rows                                                                    *)

LEMMA NewRowTypes ==
    /\ NewUserRow \in UserRow
    /\ NewLobbyRow \in LobbyRow
    /\ NoRows \in [User -> UserRow]
BY SettlementDataAssumption DEF NewUserRow, UserRow, NewLobbyRow, LobbyRow, NoRows

LEMMA SeenType ==
    ASSUME TypeOK, NEW t \in Tx, NEW u \in User
    PROVE  Seen(t, u) \in UserRow
<1>1. users[u] \in UserRow /\ wrote[t][u] \in UserRow
  BY DEF TypeOK
<1>2. QED
  BY <1>1 DEF Seen

LEMMA SavedUserType ==
    ASSUME TypeOK, NEW t \in Tx, NEW u \in User
    PROVE  SavedUser(t, u) \in UserRow
<1>1. Seen(t, u) \in UserRow
  BY SeenType
<1>2. base[t][u] \in UserRow /\ entity[t][u] \in UserRow
  BY DEF TypeOK
<1>3. /\ base[t][u].balance \in Nat /\ base[t][u].races \in Nat
      /\ entity[t][u].balance \in Nat /\ entity[t][u].races \in Nat
  BY <1>2 DEF UserRow
<1>4. QED
  BY <1>1, <1>3 DEF SavedUser, SavedColumn, UserRow

LEMMA StakeType ==
    ASSUME NEW s \in Stake
    PROVE  s \in Nat /\ s > 0
<1>1. s \in Nat \ {0}
  BY SettlementDataAssumption
<1>2. QED
  BY <1>1

LEMMA BetTypes ==
    ASSUME NEW bet \in BetRow, NEW w
    PROVE  /\ Payout(bet, w) \in Nat
           /\ SettledBet(bet, w) \in BetRow
           /\ bet # NoBet
           /\ bet.lobby \in Lobby /\ bet.bettor \in User
           /\ bet.stake \in Nat /\ bet.stake > 0
<1>1. bet.stake \in Nat /\ bet.stake > 0
  <2>1. bet.stake \in Stake
    BY DEF BetRow
  <2>2. QED
    BY <2>1, StakeType
<1>2. BetOutcome(bet, w) \in {"refunded", "won", "lost"}
  BY DEF BetOutcome
<1>3. Payout(bet, w) \in Nat
  <2>1. CASE BetOutcome(bet, w) = "refunded"
    <3>1. Payout(bet, w) = bet.stake
      BY <2>1 DEF Payout
    <3>2. QED
      BY <1>1, <3>1
  <2>2. CASE BetOutcome(bet, w) = "won"
    <3>1. Payout(bet, w) = 2 * bet.stake
      BY <2>2 DEF Payout
    <3>2. QED
      BY <1>1, <3>1
  <2>3. CASE BetOutcome(bet, w) = "lost"
    <3>1. Payout(bet, w) = 0
      BY <2>3 DEF Payout
    <3>2. QED
      BY <3>1
  <2>4. QED
    BY <1>2, <2>1, <2>2, <2>3
<1>4. SettledBet(bet, w) \in BetRow
  BY <1>2, <1>3 DEF SettledBet, BetRow, BetStatus
<1>5. QED
  BY <1>1, <1>3, <1>4, NoBetAssumption DEF BetRow

-----------------------------------------------------------------------------
(* Types                                                                   *)

\* A bet that is being placed, and is in no slot yet.
Drafted(b) ==
    /\ draft[b] \in BetRow
    /\ draft[b].status = "pending"
    /\ draft[b].payout = 0
    /\ bets[b] = NoBet

\* What types rest on: who saves has something to save, who places a bet has a
\* draft, who has saved nothing holds no lock, and a settlement holds pending
\* bets of its own lobby.
Shape ==
    /\ \A t \in Tx : pc[t] \in {"select", "update"} => unsaved[t] # <<>>
    /\ \A t \in Tx : pc[t] \in {"idle", "revert", "bettor", "players"} => locked[t] = {}
    /\ \A b \in Bet : pc[b] # "idle" => Drafted(b)
    /\ \A l \in Lobby : \A b \in found[l] \cup settled[l] : IsPendingOn(b, l)

ShapeInv == TypeOK /\ Shape

LEMMA ShapeInitially == Init => ShapeInv
<1> SUFFICES ASSUME Init PROVE ShapeInv
  OBVIOUS
<1>1. <<>> \in Seq(User) /\ InitialBalance \in Nat
  BY SettlementDataAssumption
<1>2. TypeOK
  BY <1>1, NewRowTypes DEF Init, TypeOK
<1>3. Shape
  BY DEF Init, Shape, Tx
<1>4. QED
  BY <1>2, <1>3 DEF ShapeInv

\* What a transaction that ends leaves behind.
LEMMA EndType ==
    ASSUME TypeOK, NEW t \in Tx, EndTransaction(t)
    PROVE  /\ entity' \in [Tx -> [User -> UserRow]]
           /\ base' \in [Tx -> [User -> UserRow]]
           /\ unsaved' \in [Tx -> Seq(User)]
           /\ locked' \in [Tx -> SUBSET User]
           /\ wrote' \in [Tx -> [User -> UserRow]]
           /\ found' \in [Lobby -> SUBSET Bet]
           /\ settled' \in [Lobby -> SUBSET Bet]
           /\ \A q \in Tx \ {t} : unsaved'[q] = unsaved[q] /\ locked'[q] = locked[q]
           /\ locked'[t] = {}
           /\ \A l \in Lobby : found'[l] \subseteq found[l] /\ settled'[l] \subseteq settled[l]
           /\ t \in Lobby => found'[t] = {} /\ settled'[t] = {}
           /\ \A l \in Lobby \ {t} : found'[l] = found[l] /\ settled'[l] = settled[l]
<1>1. NoRows \in [User -> UserRow] /\ <<>> \in Seq(User)
  BY NewRowTypes
<1>2. QED
  BY <1>1 DEF EndTransaction, TypeOK

LEMMA ReturnType ==
    ASSUME TypeOK, NEW t \in Tx, Return(t)
    PROVE  /\ pc' = [pc EXCEPT ![t] = "idle"]
           /\ draft' \in [Bet -> BetRow \cup {NoBet}]
           /\ outcome' \in [Lobby -> User \cup {NoUser}]
           /\ \A b \in Bet \ {t} : draft'[b] = draft[b]
           /\ \A l \in Lobby \ {t} : outcome'[l] = outcome[l]
BY DEF Return, Goto, TypeOK

\* How a transaction ends: the call returns, or a lobby is to be reverted.
Ends(t) ==
    /\ EndTransaction(t)
    /\ \/ Return(t)
       \/ /\ t \in Lobby
          /\ Goto(t, "revert")
          /\ UNCHANGED <<draft, outcome>>

LEMMA EndsType ==
    ASSUME TypeOK, NEW t \in Tx, Ends(t)
    PROVE  /\ draft' \in [Bet -> BetRow \cup {NoBet}]
           /\ outcome' \in [Lobby -> User \cup {NoUser}]
           /\ pc' \in [Tx -> {"idle", "bettor", "players", "select", "update", "insert",
                              "find", "bets", "revert"}]
           /\ pc'[t] = "idle" \/ (t \in Lobby /\ pc'[t] = "revert")
           /\ \A q \in Tx \ {t} : pc'[q] = pc[q]
           /\ \A b \in Bet \ {t} : draft'[b] = draft[b]
           /\ \A l \in Lobby \ {t} : outcome'[l] = outcome[l]
BY ReturnType DEF Ends, Goto, TypeOK

\* All that ends a transaction without a commit does this.
Abort(t) ==
    /\ pc[t] # "idle"
    /\ Ends(t)
    /\ UNCHANGED rows

LEMMA AbortCases ==
    ASSUME ShapeInv, NEW t \in Tx,
           DeadlockVictim(t) \/ StatementFails(t) \/ Die(t) \/ RefuseBet(t)
    PROVE  Abort(t)
<1>1. ASSUME RollBack(t), pc[t] # "idle"
      PROVE  Abort(t)
  BY <1>1 DEF RollBack, Abort, Ends
<1>2. CASE DeadlockVictim(t)
  <2>1. PICK q \in Tx : Waits(q, t)
    BY <1>2 DEF DeadlockVictim
  <2>2. locked[t] # {}
    BY <2>1 DEF Waits
  <2>3. pc[t] # "idle"
    BY <2>2 DEF ShapeInv, Shape
  <2>4. QED
    BY <1>1, <1>2, <2>3 DEF DeadlockVictim
<1>3. CASE StatementFails(t)
  BY <1>1, <1>3 DEF StatementFails
<1>4. CASE Die(t)
  BY <1>4 DEF Die, Abort, Ends
<1>5. CASE RefuseBet(t)
  BY <1>5 DEF RefuseBet, Abort, Ends
<1>6. QED
  BY <1>2, <1>3, <1>4, <1>5

LEMMA AbortKeepsShape ==
    ASSUME ShapeInv, NEW t \in Tx, Abort(t)
    PROVE  ShapeInv'
<1>1. TypeOK /\ Shape
  BY DEF ShapeInv
<1>2. EndTransaction(t) /\ Ends(t) /\ UNCHANGED rows
  BY DEF Abort, Ends
<1>3. /\ draft' \in [Bet -> BetRow \cup {NoBet}]
      /\ outcome' \in [Lobby -> User \cup {NoUser}]
      /\ \A b \in Bet \ {t} : draft'[b] = draft[b]
      /\ pc' \in [Tx -> {"idle", "bettor", "players", "select", "update", "insert", "find",
                         "bets", "revert"}]
      /\ pc'[t] = "idle" \/ (t \in Lobby /\ pc'[t] = "revert")
      /\ \A q \in Tx \ {t} : pc'[q] = pc[q]
  BY <1>1, <1>2, EndsType
<1>4. TypeOK'
  BY <1>1, <1>2, <1>3, EndType DEF TypeOK, rows
<1>5. \A q \in Tx : (pc[q] \in {"select", "update"} => unsaved[q] # <<>>)'
  <2>1. \A q \in Tx \ {t} : pc'[q] = pc[q] /\ unsaved'[q] = unsaved[q]
    BY <1>1, <1>2, <1>3, EndType
  <2>2. pc'[t] \notin {"select", "update"}
    BY <1>3
  <2>3. QED
    BY <1>1, <2>1, <2>2 DEF Shape
<1>6. \A q \in Tx : (pc[q] \in {"idle", "revert", "bettor", "players"} => locked[q] = {})'
  <2>1. \A q \in Tx \ {t} : pc'[q] = pc[q] /\ locked'[q] = locked[q]
    BY <1>1, <1>2, <1>3, EndType
  <2>2. locked'[t] = {}
    BY <1>1, <1>2, EndType
  <2>3. QED
    BY <1>1, <2>1, <2>2 DEF Shape
<1>7. \A b \in Bet : (pc[b] # "idle" => Drafted(b))'
  <2>1. SUFFICES ASSUME NEW b \in Bet, pc'[b] # "idle"
                 PROVE  Drafted(b)'
    OBVIOUS
  <2>2. b # t /\ b \in Tx
    BY <1>3, <2>1, SettlementAssumption DEF Tx
  <2>3. Drafted(b)
    BY <1>1, <1>3, <2>1, <2>2 DEF Shape
  <2>4. QED
    BY <1>2, <1>3, <2>2, <2>3 DEF Drafted, rows
<1>8. \A l \in Lobby : (\A b \in found[l] \cup settled[l] : IsPendingOn(b, l))'
  BY <1>1, <1>2, EndType DEF Shape, IsPendingOn, rows
<1>9. QED
  BY <1>4, <1>5, <1>6, <1>7, <1>8 DEF ShapeInv, Shape

\* The statements of save().
LEMMA SelectKeepsShape ==
    ASSUME ShapeInv, NEW t \in Tx, SelectForSave(t)
    PROVE  ShapeInv'
<1>1. TypeOK /\ Shape
  BY DEF ShapeInv
<1>2. [u \in User |-> Seen(t, u)] \in [User -> UserRow]
  BY <1>1, SeenType
<1>3. TypeOK'
  BY <1>1, <1>2 DEF SelectForSave, Goto, TypeOK, rows
<1>4. Shape'
  BY <1>1 DEF SelectForSave, Goto, TypeOK, rows, Shape, Drafted, IsPendingOn, Tx
<1>5. QED
  BY <1>3, <1>4 DEF ShapeInv

LEMMA UpdateKeepsShape ==
    ASSUME ShapeInv, NEW t \in Tx, UpdateUser(t)
    PROVE  ShapeInv'
<1> DEFINE u == Head(unsaved[t])
<1>1. TypeOK /\ Shape
  BY DEF ShapeInv
<1>2. unsaved[t] \in Seq(User) /\ unsaved[t] # <<>>
  BY <1>1 DEF UpdateUser, TypeOK, Shape
<1>3. u \in User /\ Tail(unsaved[t]) \in Seq(User)
  BY <1>2, HeadTailProperties
<1>4. AfterSave(t) = "update" => Tail(unsaved[t]) # <<>>
  BY DEF AfterSave
<1>5. AfterSave(t) \in {"update", "insert", "find", "bets"}
  BY DEF AfterSave
<1>6. SavedUser(t, u) \in UserRow
  BY <1>1, <1>3, SavedUserType
<1>7. /\ \/ /\ wrote' = [wrote EXCEPT ![t][u] = SavedUser(t, u)]
            /\ locked' = [locked EXCEPT ![t] = @ \cup {u}]
         \/ UNCHANGED <<wrote, locked>>
      /\ unsaved' = [unsaved EXCEPT ![t] = Tail(unsaved[t])]
      /\ pc' = [pc EXCEPT ![t] = AfterSave(t)]
      /\ pc[t] = "update"
      /\ UNCHANGED <<users, lobbies, bets, inTime, had, draft, outcome, entity, base,
                    found, settled>>
  BY DEF UpdateUser, Goto, rows
<1> HIDE DEF u
<1>8. TypeOK'
  <2>1. wrote' \in [Tx -> [User -> UserRow]] /\ locked' \in [Tx -> SUBSET User]
    <3>1. CASE UNCHANGED <<wrote, locked>>
      BY <1>1, <3>1 DEF TypeOK
    <3>2. CASE /\ wrote' = [wrote EXCEPT ![t][u] = SavedUser(t, u)]
               /\ locked' = [locked EXCEPT ![t] = @ \cup {u}]
      <4>1. wrote' \in [Tx -> [User -> UserRow]]
        BY <1>1, <1>3, <1>6, <3>2 DEF TypeOK
      <4>2. locked' \in [Tx -> SUBSET User]
        BY <1>1, <1>3, <3>2 DEF TypeOK
      <4>3. QED
        BY <4>1, <4>2
    <3>3. QED
      BY <1>7, <3>1, <3>2
  <2>2. QED
    BY <1>1, <1>3, <1>5, <1>7, <2>1 DEF TypeOK
<1>9. \A q \in Tx : (pc[q] \in {"select", "update"} => unsaved[q] # <<>>)'
  BY <1>1, <1>4, <1>5, <1>7 DEF Shape, TypeOK
<1>10. \A q \in Tx : (pc[q] \in {"idle", "revert", "bettor", "players"} => locked[q] = {})'
  <2>1. \A q \in Tx \ {t} : pc'[q] = pc[q] /\ locked'[q] = locked[q]
    BY <1>1, <1>7 DEF TypeOK
  <2>2. pc'[t] \notin {"idle", "revert", "bettor", "players"}
    BY <1>1, <1>5, <1>7 DEF TypeOK
  <2>3. QED
    BY <1>1, <2>1, <2>2 DEF Shape
<1>11. \A b \in Bet : (pc[b] # "idle" => Drafted(b))'
  BY <1>1, <1>7 DEF Shape, Drafted, Tx, TypeOK
<1>12. \A l \in Lobby : (\A b \in found[l] \cup settled[l] : IsPendingOn(b, l))'
  BY <1>1, <1>7 DEF Shape, IsPendingOn
<1>13. QED
  BY <1>8, <1>9, <1>10, <1>11, <1>12 DEF ShapeInv, Shape

\* The statements of placeBet.
LEMMA CheckKeepsShape ==
    ASSUME ShapeInv, NEW b \in Bet, NEW l \in Lobby, NEW u \in User, NEW w \in User,
           NEW s \in Stake, CheckLobby(b, l, u, w, s)
    PROVE  ShapeInv'
<1> DEFINE new == [lobby |-> l, bettor |-> u, on |-> w, stake |-> s,
                   status |-> "pending", payout |-> 0]
<1>1. TypeOK /\ Shape
  BY DEF ShapeInv
<1>2. new \in BetRow /\ new.status = "pending" /\ new.payout = 0
  BY DEF BetRow, BetStatus
<1>3. /\ draft' = [draft EXCEPT ![b] = new]
      /\ pc' = [pc EXCEPT ![b] = "bettor"]
      /\ pc[b] = "idle" /\ bets[b] = NoBet
      /\ UNCHANGED <<users, lobbies, bets, inTime, had, outcome, entity, base, unsaved,
                    locked, wrote, found, settled>>
  BY DEF CheckLobby, Goto, rows
<1> HIDE DEF new
<1>4. b \in Tx
  BY DEF Tx
<1>5. TypeOK'
  BY <1>1, <1>2, <1>3, <1>4 DEF TypeOK
<1>6. Shape'
  BY <1>1, <1>2, <1>3, <1>4 DEF Shape, Drafted, IsPendingOn, TypeOK, Tx
<1>7. QED
  BY <1>5, <1>6 DEF ShapeInv

LEMMA ReadBettorKeepsShape ==
    ASSUME ShapeInv, NEW b \in Bet, ReadBettor(b)
    PROVE  ShapeInv'
<1> DEFINE u == draft[b].bettor
           row == [Seen(b, u) EXCEPT !.balance = @ - draft[b].stake]
<1>1. TypeOK /\ Shape /\ b \in Tx
  BY DEF ShapeInv, Tx
<1>2. Drafted(b)
  BY <1>1 DEF Shape, ReadBettor
<1>3. u \in User /\ draft[b].stake \in Nat
  BY <1>2, BetTypes DEF Drafted
<1>4. Seen(b, u) \in UserRow /\ draft[b].stake <= Seen(b, u).balance
  BY <1>1, <1>3, SeenType DEF ReadBettor
<1>5. row \in UserRow
  BY <1>3, <1>4 DEF UserRow
<1>6. <<u>> \in Seq(User) /\ <<u>> # <<>>
  BY <1>3
<1>7. /\ entity' = [entity EXCEPT ![b][u] = row]
      /\ unsaved' = [unsaved EXCEPT ![b] = <<u>>]
      /\ pc' = [pc EXCEPT ![b] = "select"]
      /\ UNCHANGED <<users, lobbies, bets, inTime, had, draft, outcome, base, locked, wrote,
                    found, settled>>
  BY DEF ReadBettor, Goto, rows
<1> HIDE DEF u, row
<1>8. TypeOK'
  BY <1>1, <1>3, <1>5, <1>6, <1>7 DEF TypeOK
<1>9. Shape'
  BY <1>1, <1>2, <1>6, <1>7 DEF Shape, Drafted, IsPendingOn, TypeOK, Tx
<1>10. QED
  BY <1>8, <1>9 DEF ShapeInv

\* COMMIT of transaction t.
LEMMA CommitType ==
    ASSUME TypeOK, NEW t \in Tx, CommitUsers(t)
    PROVE  users' \in [User -> UserRow] /\ had' \in [User -> SUBSET Nat]
<1>1. \A u \in User : Seen(t, u) \in UserRow /\ Seen(t, u).balance \in Nat
  BY SeenType DEF UserRow
<1>2. QED
  BY <1>1 DEF CommitUsers, TypeOK

LEMMA InsertKeepsShape ==
    ASSUME ShapeInv, NEW b \in Bet, InsertBet(b)
    PROVE  ShapeInv'
<1>1. TypeOK /\ Shape /\ b \in Tx
  BY DEF ShapeInv, Tx
<1>2. Drafted(b)
  BY <1>1 DEF Shape, InsertBet
<1>3. /\ CommitUsers(b)
      /\ bets' = [bets EXCEPT ![b] = draft[b]]
      /\ inTime' \subseteq inTime \cup {b}
      /\ UNCHANGED lobbies
      /\ Return(b)
      /\ EndTransaction(b)
  BY DEF InsertBet
<1>4. /\ pc' = [pc EXCEPT ![b] = "idle"]
      /\ draft' \in [Bet -> BetRow \cup {NoBet}]
      /\ outcome' \in [Lobby -> User \cup {NoUser}]
      /\ \A c \in Bet \ {b} : draft'[c] = draft[c]
  BY <1>1, <1>3, ReturnType
<1>5. TypeOK'
  <2>1. users' \in [User -> UserRow] /\ bets' \in [Bet -> BetRow \cup {NoBet}]
    BY <1>1, <1>2, <1>3, CommitType DEF Drafted, TypeOK
  <2>2. lobbies' \in [Lobby -> LobbyRow] /\ inTime' \subseteq Bet
    BY <1>1, <1>3 DEF TypeOK
  <2>3. had' \in [User -> SUBSET Nat]
    BY <1>1, <1>3, CommitType
  <2>4. QED
    BY <1>1, <1>3, <1>4, <2>1, <2>2, <2>3, EndType DEF TypeOK
<1>6. \A q \in Tx : (pc[q] \in {"select", "update"} => unsaved[q] # <<>>)'
  <2>1. \A q \in Tx \ {b} : pc'[q] = pc[q] /\ unsaved'[q] = unsaved[q]
    BY <1>1, <1>3, <1>4, EndType DEF TypeOK
  <2>2. pc'[b] = "idle"
    BY <1>1, <1>4 DEF TypeOK
  <2>3. QED
    BY <1>1, <2>1, <2>2 DEF Shape
<1>7. \A q \in Tx : (pc[q] \in {"idle", "revert", "bettor", "players"} => locked[q] = {})'
  <2>1. \A q \in Tx \ {b} : pc'[q] = pc[q] /\ locked'[q] = locked[q]
    BY <1>1, <1>3, <1>4, EndType DEF TypeOK
  <2>2. locked'[b] = {}
    BY <1>1, <1>3, EndType
  <2>3. QED
    BY <1>1, <2>1, <2>2 DEF Shape
<1>8. \A c \in Bet : (pc[c] # "idle" => Drafted(c))'
  BY <1>1, <1>3, <1>4 DEF Shape, Drafted, TypeOK, Tx
<1>9. \A l \in Lobby : (\A c \in found[l] \cup settled[l] : IsPendingOn(c, l))'
  <2>1. SUFFICES ASSUME NEW l \in Lobby, NEW c \in found'[l] \cup settled'[l]
                 PROVE  IsPendingOn(c, l)'
    OBVIOUS
  <2>2. c \in found[l] \cup settled[l]
    BY <1>1, <1>3, <2>1, EndType
  <2>3. IsPendingOn(c, l) /\ c \in Bet
    BY <1>1, <2>2 DEF Shape, TypeOK
  <2>4. c # b
    BY <1>2, <2>3 DEF Drafted, IsPendingOn
  <2>5. QED
    BY <1>1, <1>3, <2>3, <2>4 DEF IsPendingOn, TypeOK
<1>10. QED
  BY <1>5, <1>6, <1>7, <1>8, <1>9 DEF ShapeInv, Shape

\* The statements of a settlement.
LEMMA StartKeepsShape ==
    ASSUME ShapeInv, NEW l \in Lobby, NEW w \in Result(l), StartRace(l, w)
    PROVE  ShapeInv'
<1>1. TypeOK /\ Shape /\ l \in Tx
  BY DEF ShapeInv, Tx
<1>2. w \in User \cup {NoUser}
  BY SettlementDataAssumption DEF Result, Players
<1>3. TypeOK'
  BY <1>1, <1>2 DEF StartRace, Goto, TypeOK, LobbyRow
<1>4. Shape'
  BY <1>1, SettlementAssumption
  DEF StartRace, Goto, Shape, Drafted, IsPendingOn, TypeOK, Tx
<1>5. QED
  BY <1>3, <1>4 DEF ShapeInv

LEMMA ReadPlayersKeepsShape ==
    ASSUME ShapeInv, NEW l \in Lobby, ReadPlayers(l)
    PROVE  ShapeInv'
<1> DEFINE players == [u \in User |-> IF u \in Players(l)
                                      THEN [Seen(l, u) EXCEPT !.races = @ + 1] ELSE NewUserRow]
<1>1. TypeOK /\ Shape /\ l \in Tx
  BY DEF ShapeInv, Tx
<1>2. players \in [User -> UserRow]
  <2>1. \A u \in User : [Seen(l, u) EXCEPT !.races = @ + 1] \in UserRow
    BY <1>1, SeenType DEF UserRow
  <2>2. QED
    BY <2>1, NewRowTypes
<1>3. <<Host[l], Opponent[l]>> \in Seq(User) /\ <<Host[l], Opponent[l]>> # <<>>
  BY SettlementDataAssumption
<1>4. /\ entity' = [entity EXCEPT ![l] = players]
      /\ unsaved' = [unsaved EXCEPT ![l] = <<Host[l], Opponent[l]>>]
      /\ pc' = [pc EXCEPT ![l] = "select"]
      /\ UNCHANGED <<users, lobbies, bets, inTime, had, draft, outcome, base, locked, wrote,
                    found, settled>>
  BY DEF ReadPlayers, Goto, rows
<1> HIDE DEF players
<1>5. TypeOK'
  BY <1>1, <1>2, <1>3, <1>4 DEF TypeOK
<1>6. Shape'
  BY <1>1, <1>3, <1>4, SettlementAssumption DEF Shape, Drafted, IsPendingOn, TypeOK, Tx
<1>7. QED
  BY <1>5, <1>6 DEF ShapeInv

LEMMA FindKeepsShape ==
    ASSUME ShapeInv, NEW l \in Lobby, FindPending(l)
    PROVE  ShapeInv'
<1>1. TypeOK /\ Shape /\ l \in Tx
  BY DEF ShapeInv, Tx
<1>2. TypeOK'
  BY <1>1 DEF FindPending, Goto, TypeOK, rows
<1>3. Shape'
  BY <1>1, SettlementAssumption
  DEF FindPending, Goto, Shape, Drafted, IsPendingOn, TypeOK, Tx, rows
<1>4. QED
  BY <1>2, <1>3 DEF ShapeInv

LEMMA SettleBetKeepsShape ==
    ASSUME ShapeInv, NEW l \in Lobby, NEW b \in Bet, SettleBet(l, b)
    PROVE  ShapeInv'
<1> DEFINE u == bets[b].bettor
           payout == Payout(bets[b], outcome[l])
           row == [Seen(l, u) EXCEPT !.balance = @ + payout]
<1>1. TypeOK /\ Shape /\ l \in Tx
  BY DEF ShapeInv, Tx
<1>2. b \in found[l] /\ IsPendingOn(b, l)
  BY <1>1 DEF Shape, SettleBet
<1>3. bets[b] \in BetRow
  BY <1>1, <1>2 DEF TypeOK, IsPendingOn
<1>4. u \in User /\ payout \in Nat
  BY <1>3, BetTypes
<1>5. row \in UserRow
  <2>1. Seen(l, u) \in UserRow
    BY <1>1, <1>4, SeenType
  <2>2. QED
    BY <1>4, <2>1 DEF UserRow
<1>6. <<u>> \in Seq(User) /\ <<u>> # <<>>
  BY <1>4
<1>7. /\ found' = [found EXCEPT ![l] = @ \ {b}]
      /\ settled' = [settled EXCEPT ![l] = @ \cup {b}]
      /\ UNCHANGED <<users, lobbies, bets, inTime, had, draft, outcome, base, locked, wrote>>
  BY DEF SettleBet, rows
<1>8. \/ UNCHANGED <<pc, entity, unsaved>>
      \/ /\ entity' = [entity EXCEPT ![l][u] = row]
         /\ unsaved' = [unsaved EXCEPT ![l] = <<u>>]
         /\ pc' = [pc EXCEPT ![l] = "select"]
  BY DEF SettleBet, Goto
<1>9. pc[l] = "bets"
  BY DEF SettleBet
<1> HIDE DEF u, payout, row
<1>10. TypeOK'
  <2>1. /\ entity' \in [Tx -> [User -> UserRow]]
        /\ unsaved' \in [Tx -> Seq(User)]
        /\ pc' \in [Tx -> {"idle", "bettor", "players", "select", "update", "insert", "find",
                           "bets", "revert"}]
    <3>1. CASE UNCHANGED <<pc, entity, unsaved>>
      BY <1>1, <3>1 DEF TypeOK
    <3>2. CASE /\ entity' = [entity EXCEPT ![l][u] = row]
               /\ unsaved' = [unsaved EXCEPT ![l] = <<u>>]
               /\ pc' = [pc EXCEPT ![l] = "select"]
      <4>1. entity' \in [Tx -> [User -> UserRow]]
        BY <1>1, <1>4, <1>5, <3>2 DEF TypeOK
      <4>2. unsaved' \in [Tx -> Seq(User)]
        BY <1>1, <1>6, <3>2 DEF TypeOK
      <4>3. pc' \in [Tx -> {"idle", "bettor", "players", "select", "update", "insert", "find",
                           "bets", "revert"}]
        BY <1>1, <3>2 DEF TypeOK
      <4>4. QED
        BY <4>1, <4>2, <4>3
    <3>3. QED
      BY <1>8, <3>1, <3>2
  <2>2. found' \in [Lobby -> SUBSET Bet] /\ settled' \in [Lobby -> SUBSET Bet]
    BY <1>1, <1>7 DEF TypeOK
  <2>3. QED
    BY <1>1, <1>7, <2>1, <2>2 DEF TypeOK
<1>11. \A q \in Tx : (pc[q] \in {"select", "update"} => unsaved[q] # <<>>)'
  BY <1>1, <1>6, <1>8 DEF Shape, TypeOK
<1>12. \A q \in Tx : (pc[q] \in {"idle", "revert", "bettor", "players"} => locked[q] = {})'
  <2>1. \A q \in Tx : pc'[q] \in {"idle", "revert", "bettor", "players"} => pc'[q] = pc[q]
    BY <1>1, <1>8 DEF TypeOK
  <2>2. QED
    BY <1>1, <1>7, <2>1 DEF Shape
<1>13. \A c \in Bet : (pc[c] # "idle" => Drafted(c))'
  <2>1. \A c \in Bet : pc'[c] = pc[c]
    BY <1>1, <1>8, SettlementAssumption DEF TypeOK, Tx
  <2>2. QED
    BY <1>1, <1>7, <2>1 DEF Shape, Drafted
<1>14. \A k \in Lobby : (\A c \in found[k] \cup settled[k] : IsPendingOn(c, k))'
  BY <1>1, <1>2, <1>7 DEF Shape, IsPendingOn, TypeOK
<1>15. QED
  BY <1>10, <1>11, <1>12, <1>13, <1>14 DEF ShapeInv, Shape

\* The COMMIT of a settlement, acknowledged or not.
Commits(l) == CommitSettlement(l) /\ Ends(l)

\* What it does to the bets.
LEMMA FinishBets ==
    ASSUME ShapeInv, NEW l \in Lobby, Commits(l)
    PROVE  /\ settled[l] \subseteq Bet
           /\ \A b \in settled[l] : /\ bets[b] \in BetRow
                                   /\ IsPendingOn(b, l)
                                   /\ bets'[b] = SettledBet(bets[b], outcome[l])
           /\ \A b \in Bet \ settled[l] : bets'[b] = bets[b]
           /\ bets' \in [Bet -> BetRow \cup {NoBet}]
<1>1. TypeOK /\ Shape
  BY DEF ShapeInv
<1>2. settled[l] \subseteq Bet /\ \A b \in settled[l] : bets[b] \in BetRow /\ IsPendingOn(b, l)
  BY <1>1 DEF TypeOK, Shape, IsPendingOn
<1>3. \A b \in settled[l] : SettledBet(bets[b], outcome[l]) \in BetRow
  BY <1>2, BetTypes
<1>4. bets' = [b \in Bet |->
                 IF b \in settled[l] THEN SettledBet(bets[b], outcome[l]) ELSE bets[b]]
  BY DEF Commits, CommitSettlement
<1>5. bets \in [Bet -> BetRow \cup {NoBet}]
  BY <1>1 DEF TypeOK
<1>6. QED
  BY <1>2, <1>3, <1>4, <1>5

LEMMA FinishKeepsShape ==
    ASSUME ShapeInv, NEW l \in Lobby, Commits(l)
    PROVE  ShapeInv'
<1>1. TypeOK /\ Shape /\ l \in Tx
  BY DEF ShapeInv, Tx
<1>2. /\ CommitUsers(l)
      /\ lobbies' = [lobbies EXCEPT ![l] = [status |-> "finished", winner |-> outcome[l]]]
      /\ UNCHANGED inTime
      /\ Ends(l) /\ EndTransaction(l)
  BY DEF Commits, CommitSettlement
<1>3. /\ pc' \in [Tx -> {"idle", "bettor", "players", "select", "update", "insert", "find",
                         "bets", "revert"}]
      /\ pc'[l] \in {"idle", "revert"}
      /\ \A q \in Tx \ {l} : pc'[q] = pc[q]
      /\ draft' \in [Bet -> BetRow \cup {NoBet}]
      /\ outcome' \in [Lobby -> User \cup {NoUser}]
      /\ \A c \in Bet : draft'[c] = draft[c]
  <2>1. l \notin Bet
    BY SettlementAssumption
  <2>2. QED
    BY <1>1, <1>2, <2>1, EndsType
<1>4. TypeOK'
  <2>1. users' \in [User -> UserRow] /\ bets' \in [Bet -> BetRow \cup {NoBet}]
    BY <1>1, <1>2, CommitType, FinishBets
  <2>2. lobbies' \in [Lobby -> LobbyRow] /\ inTime' \subseteq Bet
    BY <1>1, <1>2 DEF TypeOK, LobbyRow
  <2>3. had' \in [User -> SUBSET Nat]
    BY <1>1, <1>2, CommitType
  <2>4. QED
    BY <1>1, <1>2, <1>3, <2>1, <2>2, <2>3, EndType DEF TypeOK
<1>5. \A q \in Tx : (pc[q] \in {"select", "update"} => unsaved[q] # <<>>)'
  <2>1. \A q \in Tx \ {l} : pc'[q] = pc[q] /\ unsaved'[q] = unsaved[q]
    BY <1>1, <1>2, <1>3, EndType DEF TypeOK
  <2>2. pc'[l] \notin {"select", "update"}
    BY <1>3
  <2>3. QED
    BY <1>1, <2>1, <2>2 DEF Shape
<1>6. \A q \in Tx : (pc[q] \in {"idle", "revert", "bettor", "players"} => locked[q] = {})'
  <2>1. \A q \in Tx \ {l} : pc'[q] = pc[q] /\ locked'[q] = locked[q]
    BY <1>1, <1>2, <1>3, EndType DEF TypeOK
  <2>2. locked'[l] = {}
    BY <1>1, <1>2, EndType
  <2>3. QED
    BY <1>1, <2>1, <2>2 DEF Shape
<1>7. \A c \in Bet : (pc[c] # "idle" => Drafted(c))'
  <2>1. SUFFICES ASSUME NEW c \in Bet, pc'[c] # "idle"
                 PROVE  Drafted(c)'
    OBVIOUS
  <2>2. Drafted(c)
    BY <1>1, <1>3, <2>1, SettlementAssumption DEF Shape, TypeOK, Tx
  <2>3. bets'[c] = bets[c]
    BY <2>2, FinishBets DEF Drafted, IsPendingOn
  <2>4. QED
    BY <1>3, <2>2, <2>3 DEF Drafted
<1>8. \A k \in Lobby : (\A c \in found[k] \cup settled[k] : IsPendingOn(c, k))'
  <2>1. SUFFICES ASSUME NEW k \in Lobby, NEW c \in found'[k] \cup settled'[k]
                 PROVE  IsPendingOn(c, k)'
    OBVIOUS
  <2>2. k # l /\ c \in found[k] \cup settled[k]
    BY <1>1, <1>2, <2>1, EndType
  <2>3. IsPendingOn(c, k) /\ c \in Bet
    BY <1>1, <2>2 DEF Shape, TypeOK
  <2>4. bets'[c] = bets[c]
    BY <2>2, <2>3, FinishBets DEF IsPendingOn
  <2>5. QED
    BY <2>3, <2>4 DEF IsPendingOn
<1>9. QED
  BY <1>4, <1>5, <1>6, <1>7, <1>8 DEF ShapeInv, Shape

LEMMA RevertKeepsShape ==
    ASSUME ShapeInv, NEW l \in Lobby, Revert(l)
    PROVE  ShapeInv'
<1>1. TypeOK /\ Shape /\ l \in Tx
  BY DEF ShapeInv, Tx
<1>2. /\ pc[l] = "revert"
      /\ lobbies' = [lobbies EXCEPT ![l].status = "configuring"]
      /\ Return(l)
      /\ UNCHANGED <<users, bets, inTime, had, entity, base, unsaved, locked, wrote, found, settled>>
  BY DEF Revert
<1>3. /\ pc' = [pc EXCEPT ![l] = "idle"]
      /\ draft' \in [Bet -> BetRow \cup {NoBet}]
      /\ outcome' \in [Lobby -> User \cup {NoUser}]
      /\ \A c \in Bet : draft'[c] = draft[c]
  <2>1. l \notin Bet
    BY SettlementAssumption
  <2>2. QED
    BY <1>1, <1>2, <2>1, ReturnType
<1>4. TypeOK'
  BY <1>1, <1>2, <1>3 DEF TypeOK, LobbyRow
<1>5. Shape'
  BY <1>1, <1>2, <1>3 DEF Shape, Drafted, IsPendingOn, TypeOK, Tx
<1>6. QED
  BY <1>4, <1>5 DEF ShapeInv

LEMMA ReopenKeepsShape ==
    ASSUME ShapeInv, NEW l \in Lobby, NEW w \in Result(l), Reopen(l, w)
    PROVE  ShapeInv'
<1>1. TypeOK /\ Shape /\ w \in User \cup {NoUser}
  BY SettlementDataAssumption DEF ShapeInv, Result, Players
<1>2. TypeOK' /\ Shape'
  BY <1>1 DEF Reopen, TypeOK, LobbyRow, Shape, Drafted, IsPendingOn
<1>3. QED
  BY <1>2 DEF ShapeInv

\* The ways a step can go.
LEMMA StepCases ==
    ASSUME ShapeInv, [Next]_vars
    PROVE  \/ UNCHANGED vars
           \/ \E t \in Tx : Abort(t) \/ SelectForSave(t) \/ UpdateUser(t)
           \/ \E b \in Bet : ReadBettor(b) \/ InsertBet(b)
           \/ \E b \in Bet, l \in Lobby, u \in User, w \in User, s \in Stake :
                CheckLobby(b, l, u, w, s)
           \/ \E l \in Lobby : ReadPlayers(l) \/ FindPending(l) \/ Commits(l) \/ Revert(l)
           \/ \E l \in Lobby, b \in Bet : SettleBet(l, b)
           \/ \E l \in Lobby : \E w \in Result(l) : StartRace(l, w) \/ Reopen(l, w)
<1>1. CASE \E t \in Tx : Continue(t) \/ StatementFails(t) \/ Die(t)
  <2>1. PICK t \in Tx : Continue(t) \/ StatementFails(t) \/ Die(t)
    BY <1>1
  <2>2. CASE t \in Bet /\ RefuseBet(t)
    BY <2>2, AbortCases
  <2>3. CASE DeadlockVictim(t) \/ StatementFails(t) \/ Die(t)
    BY <2>3, AbortCases
  <2>4. CASE SelectForSave(t) \/ UpdateUser(t)
    BY <2>4
  <2>5. CASE t \in Bet /\ (ReadBettor(t) \/ InsertBet(t))
    BY <2>5
  <2>6. CASE t \in Lobby /\ (ReadPlayers(t) \/ FindPending(t) \/ Revert(t))
    BY <2>6
  <2>7. CASE t \in Lobby /\ FinishLobby(t)
    BY <2>7 DEF FinishLobby, Commits, CommitSettlement, Ends
  <2>8. CASE t \in Lobby /\ \E b \in Bet : SettleBet(t, b)
    BY <2>8
  <2>9. QED
    BY <2>1, <2>2, <2>3, <2>4, <2>5, <2>6, <2>7, <2>8 DEF Continue
<1>2. CASE \E l \in Lobby : FinishUnacknowledged(l)
  BY <1>2 DEF FinishUnacknowledged, Commits, CommitSettlement, Ends
<1>3. CASE \E l \in Lobby : \E w \in Result(l) : StartRace(l, w) \/ Reopen(l, w)
  BY <1>3
<1>4. CASE \E b \in Bet, l \in Lobby, u \in User, w \in User, s \in Stake :
             CheckLobby(b, l, u, w, s)
  BY <1>4
<1>5. QED
  BY <1>1, <1>2, <1>3, <1>4 DEF Next

LEMMA ShapeStep == ShapeInv /\ [Next]_vars => ShapeInv'
<1> SUFFICES ASSUME ShapeInv, [Next]_vars
             PROVE  ShapeInv'
  OBVIOUS
<1>1. CASE UNCHANGED vars
  BY <1>1 DEF vars, ShapeInv, TypeOK, Shape, Drafted, IsPendingOn
<1>2. CASE \E t \in Tx : Abort(t) \/ SelectForSave(t) \/ UpdateUser(t)
  BY <1>2, AbortKeepsShape, SelectKeepsShape, UpdateKeepsShape
<1>3. CASE \E b \in Bet : ReadBettor(b) \/ InsertBet(b)
  BY <1>3, ReadBettorKeepsShape, InsertKeepsShape
<1>4. CASE \E b \in Bet, l \in Lobby, u \in User, w \in User, s \in Stake :
             CheckLobby(b, l, u, w, s)
  BY <1>4, CheckKeepsShape
<1>5. CASE \E l \in Lobby : ReadPlayers(l) \/ FindPending(l) \/ Commits(l) \/ Revert(l)
  BY <1>5, ReadPlayersKeepsShape, FindKeepsShape, FinishKeepsShape, RevertKeepsShape
<1>6. CASE \E l \in Lobby, b \in Bet : SettleBet(l, b)
  BY <1>6, SettleBetKeepsShape
<1>7. CASE \E l \in Lobby : \E w \in Result(l) : StartRace(l, w) \/ Reopen(l, w)
  BY <1>7, StartKeepsShape, ReopenKeepsShape
<1>8. QED
  BY <1>1, <1>2, <1>3, <1>4, <1>5, <1>6, <1>7, StepCases

THEOREM ShapeInvariant == Spec => []ShapeInv
BY ShapeInitially, ShapeStep, PTL DEF Spec

\* Every variable keeps its type; in particular no balance is ever negative,
\* whatever bets and settlements of one user interleave, fail or repeat.
THEOREM TypeCorrect == Spec => []TypeOK
<1>1. ShapeInv => TypeOK
  BY DEF ShapeInv
<1>2. QED
  BY <1>1, ShapeInvariant, PTL

-----------------------------------------------------------------------------
(* Bets and results                                                        *)

\* The settlement has looked for the pending bets.
PastFind(l) == pc[l] = "bets" \/ settled[l] # {}

\* A settlement runs in a lobby that is simulating, and reverts one that is not
\* configuring, so that once it has looked
\* for the pending bets no bet is added in time: those it must settle are the
\* ones it holds.
Racing(l) ==
    /\ pc[l] \notin {"idle", "revert"} => lobbies[l].status = "simulating"
    /\ pc[l] = "revert" => lobbies[l].status # "configuring"
    /\ pc[l] \in {"idle", "players", "find", "revert"} => settled[l] = {}
    /\ PastFind(l) => \A b \in inTime : IsPendingOn(b, l) => b \in found[l] \cup settled[l]

BetInv ==
    /\ \A b \in Bet : bets[b] # NoBet /\ bets[b].status = "pending" => bets[b].payout = 0
    /\ \A b \in inTime : bets[b] # NoBet
    /\ InTimeBetsSettled

SettlementInv ==
    /\ ShapeInv
    /\ \A l \in Lobby : Racing(l)
    /\ BetInv

LEMMA SettlementInitially == Init => SettlementInv
<1> SUFFICES ASSUME Init PROVE SettlementInv
  OBVIOUS
<1>1. \A l \in Lobby : Racing(l)
  BY DEF Init, Racing, PastFind, Tx
<1>2. BetInv
  BY DEF Init, BetInv, InTimeBetsSettled
<1>3. QED
  BY <1>1, <1>2, ShapeInitially DEF SettlementInv

\* As long as no row changes, the bets are as they should be.
LEMMA RowsKept ==
    ASSUME BetInv, UNCHANGED rows
    PROVE  BetInv'
<1>1. UNCHANGED <<lobbies, bets, inTime>>
  BY DEF rows
<1>2. QED
  BY <1>1 DEF BetInv, InTimeBetsSettled

\* Steps of other lobbies, or of bets, leave what a settlement knows.
LEMMA OtherLobby ==
    ASSUME NEW l \in Lobby, Racing(l), UNCHANGED <<lobbies, bets, inTime>>,
           pc'[l] = pc[l], found'[l] = found[l], settled'[l] = settled[l]
    PROVE  Racing(l)'
BY DEF Racing, PastFind, IsPendingOn

LEMMA AbortRacing ==
    ASSUME SettlementInv, NEW t \in Tx, Abort(t), NEW l \in Lobby
    PROVE  Racing(l)'
<1>1. TypeOK /\ Racing(l) /\ l \in Tx
  BY DEF SettlementInv, ShapeInv, Tx
<1>2. /\ Ends(t) /\ EndTransaction(t)
      /\ UNCHANGED <<users, lobbies, bets, inTime>> /\ pc[t] # "idle"
  BY DEF Abort, Ends, rows
<1>3. CASE l = t
  <2>1. pc'[l] \in {"idle", "revert"}
    BY <1>1, <1>2, <1>3, EndsType
  <2>2. settled'[l] = {}
    BY <1>1, <1>2, <1>3, EndType
  <2>3. lobbies'[l].status # "configuring"
    BY <1>1, <1>2, <1>3 DEF Racing
  <2>4. QED
    BY <2>1, <2>2, <2>3 DEF Racing, PastFind
<1>4. CASE l # t
  <2>1. pc'[l] = pc[l]
    BY <1>1, <1>2, <1>4, EndsType
  <2>2. found'[l] = found[l] /\ settled'[l] = settled[l]
    BY <1>1, <1>2, <1>4, EndType
  <2>3. QED
    BY <1>1, <1>2, <2>1, <2>2, OtherLobby
<1>5. QED
  BY <1>3, <1>4

LEMMA SaveRacing ==
    ASSUME SettlementInv, NEW t \in Tx, SelectForSave(t) \/ UpdateUser(t), NEW l \in Lobby
    PROVE  Racing(l)'
<1>1. TypeOK /\ Racing(l) /\ l \in Tx /\ l \notin Bet
  BY SettlementAssumption DEF SettlementInv, ShapeInv, Tx
<1>2. UNCHANGED <<users, lobbies, bets, inTime, found, settled>>
  BY DEF SelectForSave, UpdateUser, rows
<1>3. CASE l = t
  <2>1. pc[l] \in {"select", "update"}
    BY <1>3 DEF SelectForSave, UpdateUser
  <2>2. \/ pc'[l] = "update"
        \/ pc'[l] = "find" /\ settled[l] = {}
        \/ pc'[l] = "bets" /\ settled[l] # {}
    BY <1>1, <1>3 DEF SelectForSave, UpdateUser, Goto, AfterSave, TypeOK
  <2>3. QED
    BY <1>1, <1>2, <2>1, <2>2 DEF Racing, PastFind, IsPendingOn
<1>4. CASE l # t
  <2>1. pc'[l] = pc[l]
    BY <1>1, <1>4 DEF SelectForSave, UpdateUser, Goto, TypeOK
  <2>2. QED
    BY <1>1, <1>2, <2>1, OtherLobby
<1>5. QED
  BY <1>3, <1>4

LEMMA PlaceRacing ==
    ASSUME SettlementInv, NEW b \in Bet, NEW l \in Lobby,
           \/ ReadBettor(b)
           \/ \E k \in Lobby, u \in User, w \in User, s \in Stake : CheckLobby(b, k, u, w, s)
    PROVE  Racing(l)'
<1>1. TypeOK /\ Racing(l) /\ l \in Tx /\ l # b
  BY SettlementAssumption DEF SettlementInv, ShapeInv, Tx
<1>2. /\ UNCHANGED <<users, lobbies, bets, inTime, found, settled>>
      /\ Goto(b, "select") \/ Goto(b, "bettor")
  BY DEF ReadBettor, CheckLobby, rows
<1>3. pc'[l] = pc[l]
  BY <1>1, <1>2 DEF Goto, TypeOK
<1>4. QED
  BY <1>1, <1>2, <1>3, OtherLobby

\* The bet that is inserted: pending, and in time only if its lobby is still
\* configuring, so no settlement has looked for bets there.
LEMMA InsertKeepsInv ==
    ASSUME SettlementInv, NEW b \in Bet, InsertBet(b)
    PROVE  (\A l \in Lobby : Racing(l)') /\ BetInv'
<1>1. TypeOK /\ Shape /\ b \in Tx /\ BetInv
  BY DEF SettlementInv, ShapeInv, Tx
<1>2. Drafted(b)
  BY <1>1 DEF Shape, InsertBet
<1>3. /\ bets' = [bets EXCEPT ![b] = draft[b]]
      /\ inTime' = IF lobbies[draft[b].lobby].status = "configuring"
                   THEN inTime \cup {b} ELSE inTime
      /\ UNCHANGED lobbies
      /\ Return(b)
      /\ EndTransaction(b)
  BY DEF InsertBet
<1>4. bets'[b] = draft[b] /\ \A c \in Bet \ {b} : bets'[c] = bets[c]
  BY <1>1, <1>3 DEF TypeOK
<1>5. b \notin inTime /\ inTime \subseteq Bet
  BY <1>1, <1>2 DEF BetInv, Drafted, TypeOK
<1>6. draft[b] # NoBet /\ draft[b].lobby \in Lobby
  BY <1>2, BetTypes DEF Drafted
<1>7. ASSUME NEW l \in Lobby
      PROVE  Racing(l)'
  <2>1. Racing(l) /\ l # b /\ l \in Tx
    BY SettlementAssumption DEF SettlementInv, Tx
  <2>2. pc'[l] = pc[l] /\ found'[l] = found[l] /\ settled'[l] = settled[l]
    BY <1>1, <1>3, <2>1, ReturnType, EndType DEF TypeOK
  <2>3. PastFind(l) => lobbies[l].status # "configuring"
    BY <2>1 DEF Racing, PastFind
  <2>4. ASSUME PastFind(l), NEW c \in inTime', IsPendingOn(c, l)'
        PROVE  c \in found[l] \cup settled[l]
    <3>1. CASE c = b
      BY <1>3, <1>4, <1>5, <2>3, <2>4, <3>1 DEF IsPendingOn
    <3>2. CASE c # b
      <4>1. c \in inTime /\ c \in Bet
        BY <1>3, <1>5, <2>4, <3>2
      <4>2. IsPendingOn(c, l)
        BY <1>4, <2>4, <3>2, <4>1 DEF IsPendingOn
      <4>3. QED
        BY <2>1, <2>4, <4>1, <4>2 DEF Racing
    <3>3. QED
      BY <3>1, <3>2
  <2>5. QED
    BY <1>3, <2>1, <2>2, <2>4 DEF Racing, PastFind
<1>8. \A c \in Bet : (bets[c] # NoBet /\ bets[c].status = "pending" => bets[c].payout = 0)'
  BY <1>1, <1>2, <1>4 DEF BetInv, Drafted
<1>9. \A c \in inTime' : bets'[c] # NoBet
  BY <1>1, <1>3, <1>4, <1>5, <1>6 DEF BetInv
<1>10. InTimeBetsSettled'
  <2>1. SUFFICES ASSUME NEW c \in inTime', lobbies[bets'[c].lobby].status = "finished"
                 PROVE  bets'[c].status # "pending"
    BY <1>3 DEF InTimeBetsSettled
  <2>2. CASE c = b
    BY <1>3, <1>4, <1>5, <2>1, <2>2
  <2>3. CASE c # b
    <3>1. c \in inTime /\ bets'[c] = bets[c]
      BY <1>3, <1>4, <1>5, <2>1, <2>3
    <3>2. QED
      BY <1>1, <2>1, <3>1 DEF BetInv, InTimeBetsSettled
  <2>4. QED
    BY <2>2, <2>3
<1>11. QED
  BY <1>7, <1>8, <1>9, <1>10 DEF BetInv

LEMMA ReadOrFindRacing ==
    ASSUME SettlementInv, NEW k \in Lobby, ReadPlayers(k) \/ FindPending(k), NEW l \in Lobby
    PROVE  Racing(l)'
<1>1. TypeOK /\ Racing(l) /\ l \in Tx
  BY DEF SettlementInv, ShapeInv, Tx
<1>2. UNCHANGED <<users, lobbies, bets, inTime, settled>>
  BY DEF ReadPlayers, FindPending, rows
<1>3. CASE l # k
  <2>1. pc'[l] = pc[l] /\ found'[l] = found[l]
    BY <1>1, <1>3 DEF ReadPlayers, FindPending, Goto, TypeOK
  <2>2. QED
    BY <1>1, <1>2, <2>1, OtherLobby
<1>4. CASE l = k /\ ReadPlayers(k)
  <2>1. pc[l] = "players" /\ pc'[l] = "select"
    BY <1>1, <1>4 DEF ReadPlayers, Goto, TypeOK
  <2>2. QED
    BY <1>1, <1>2, <2>1 DEF Racing, PastFind
<1>5. CASE l = k /\ FindPending(k)
  <2>1. pc[l] = "find" /\ pc'[l] = "bets" /\ found'[l] = {b \in Bet : IsPendingOn(b, l)}
    BY <1>1, <1>5 DEF FindPending, Goto, TypeOK
  <2>2. inTime \subseteq Bet
    BY <1>1 DEF TypeOK
  <2>3. QED
    BY <1>1, <1>2, <2>1, <2>2 DEF Racing, PastFind, IsPendingOn
<1>6. QED
  BY <1>3, <1>4, <1>5

LEMMA SettleBetRacing ==
    ASSUME SettlementInv, NEW k \in Lobby, NEW b \in Bet, SettleBet(k, b), NEW l \in Lobby
    PROVE  Racing(l)'
<1>1. TypeOK /\ Racing(l) /\ l \in Tx
  BY DEF SettlementInv, ShapeInv, Tx
<1>2. /\ pc[k] = "bets"
      /\ UNCHANGED <<users, lobbies, bets, inTime>>
      /\ found' = [found EXCEPT ![k] = @ \ {b}]
      /\ settled' = [settled EXCEPT ![k] = @ \cup {b}]
      /\ UNCHANGED pc \/ Goto(k, "select")
  BY DEF SettleBet, rows
<1>3. CASE l # k
  <2>1. pc'[l] = pc[l] /\ found'[l] = found[l] /\ settled'[l] = settled[l]
    BY <1>1, <1>2, <1>3 DEF Goto, TypeOK
  <2>2. QED
    BY <1>1, <1>2, <2>1, OtherLobby
<1>4. CASE l = k
  <2>1. pc'[l] \in {"bets", "select"}
    BY <1>1, <1>2, <1>4 DEF Goto, TypeOK
  <2>2. found'[l] \cup settled'[l] = found[l] \cup settled[l] \cup {b}
    BY <1>1, <1>2, <1>4 DEF TypeOK
  <2>3. QED
    BY <1>1, <1>2, <1>4, <2>1, <2>2 DEF Racing, PastFind, IsPendingOn
<1>5. QED
  BY <1>3, <1>4

\* A race that starts, a lobby that is reverted or reopened: none is finished
\* afterwards, and no bet is concerned.
LEMMA StatusKeepsInv ==
    ASSUME SettlementInv, NEW k \in Lobby,
           Revert(k) \/ \E w \in Result(k) : StartRace(k, w) \/ Reopen(k, w)
    PROVE  (\A l \in Lobby : Racing(l)') /\ BetInv'
<1>1. TypeOK /\ Shape /\ BetInv /\ k \in Tx /\ \A l \in Lobby : Racing(l) /\ l \in Tx
  BY DEF SettlementInv, ShapeInv, Tx
<1>2. /\ UNCHANGED <<bets, inTime, found, settled>>
      /\ pc[k] \in {"idle", "revert"}
      /\ \/ pc'[k] = "idle" /\ lobbies'[k].status = "configuring"
         \/ pc'[k] = "players" /\ lobbies'[k].status = "simulating"
      /\ \A l \in Lobby \ {k} : pc'[l] = pc[l] /\ lobbies'[l] = lobbies[l]
  BY <1>1 DEF Revert, StartRace, Reopen, Return, Goto, TypeOK, LobbyRow
<1>3. ASSUME NEW l \in Lobby
      PROVE  Racing(l)'
  <2>1. CASE l = k
    BY <1>1, <1>2, <2>1 DEF Racing, PastFind
  <2>2. CASE l # k
    BY <1>1, <1>2, <2>2 DEF Racing, PastFind, IsPendingOn
  <2>3. QED
    BY <2>1, <2>2
<1>4. InTimeBetsSettled'
  <2>1. SUFFICES ASSUME NEW b \in inTime, lobbies'[bets[b].lobby].status = "finished"
                 PROVE  bets[b].status # "pending"
    BY <1>2 DEF InTimeBetsSettled
  <2>2. bets[b].lobby \in Lobby
    BY <1>1, <2>1, BetTypes DEF BetInv, TypeOK
  <2>3. bets[b].lobby # k
    BY <1>2, <2>1
  <2>4. QED
    BY <1>1, <1>2, <2>1, <2>2, <2>3 DEF BetInv, InTimeBetsSettled
<1>5. QED
  BY <1>1, <1>2, <1>3, <1>4 DEF BetInv

\* A settled bet has the status and the payout that the winner gives it.
LEMMA SettledBetFollows ==
    ASSUME NEW bet \in BetRow, NEW w
    PROVE  LET new == SettledBet(bet, w) IN
           /\ new.lobby = bet.lobby
           /\ new.status # "pending"
           /\ new.status = BetOutcome(bet, w)
           /\ new.payout \in {0, bet.stake, 2 * bet.stake}
           /\ new.payout = 0 <=> new.status = "lost"
           /\ new.payout = bet.stake <=> w = NoUser
<1> DEFINE new == SettledBet(bet, w)
<1>1. bet.stake \in Nat /\ bet.stake > 0
  BY BetTypes
<1>2. /\ new.lobby = bet.lobby
      /\ new.status = BetOutcome(bet, w) /\ new.payout = Payout(bet, w)
  BY DEF SettledBet, BetRow
<1>3. CASE w = NoUser
  <2>1. BetOutcome(bet, w) = "refunded"
    BY <1>3 DEF BetOutcome
  <2>2. Payout(bet, w) = bet.stake
    BY <2>1 DEF Payout
  <2>3. QED
    BY <1>1, <1>2, <1>3, <2>1, <2>2
<1>4. CASE w # NoUser /\ bet.on = w
  <2>1. BetOutcome(bet, w) = "won"
    BY <1>4 DEF BetOutcome
  <2>2. Payout(bet, w) = 2 * bet.stake
    BY <2>1 DEF Payout
  <2>3. 2 * bet.stake # bet.stake /\ 2 * bet.stake # 0
    BY <1>1
  <2>4. QED
    BY <1>2, <1>4, <2>1, <2>2, <2>3
<1>5. CASE w # NoUser /\ bet.on # w
  <2>1. BetOutcome(bet, w) = "lost"
    BY <1>5 DEF BetOutcome
  <2>2. Payout(bet, w) = 0
    BY <2>1 DEF Payout
  <2>3. QED
    BY <1>1, <1>2, <1>5, <2>1, <2>2
<1>6. QED
  BY <1>3, <1>4, <1>5

\* The settlement commits: it holds every bet that came in time.
LEMMA FinishKeepsInv ==
    ASSUME SettlementInv, NEW k \in Lobby, Commits(k)
    PROVE  (\A l \in Lobby : Racing(l)') /\ BetInv'
<1>1. /\ TypeOK /\ Shape /\ ShapeInv /\ BetInv /\ k \in Tx
      /\ \A l \in Lobby : Racing(l) /\ l \in Tx
  BY DEF SettlementInv, ShapeInv, Tx
<1>2. /\ pc[k] = "bets" /\ found[k] = {}
      /\ lobbies' = [lobbies EXCEPT ![k] = [status |-> "finished", winner |-> outcome[k]]]
      /\ UNCHANGED inTime
      /\ Ends(k) /\ EndTransaction(k)
  BY DEF Commits, CommitSettlement
<1>3. /\ pc'[k] \in {"idle", "revert"} /\ settled'[k] = {}
      /\ \A l \in Lobby \ {k} : /\ pc'[l] = pc[l]
                              /\ found'[l] = found[l] /\ settled'[l] = settled[l]
  <2>1. pc'[k] \in {"idle", "revert"} /\ \A l \in Lobby \ {k} : pc'[l] = pc[l]
    BY <1>1, <1>2, EndsType
  <2>2. QED
    BY <1>1, <1>2, <2>1, EndType
<1>4. /\ lobbies'[k] = [status |-> "finished", winner |-> outcome[k]]
      /\ \A l \in Lobby \ {k} : lobbies'[l] = lobbies[l]
  BY <1>1, <1>2 DEF TypeOK
<1>5. ASSUME NEW b \in Bet, b \in settled[k]
      PROVE  /\ bets[b] \in BetRow /\ bets[b].lobby = k
             /\ bets'[b] = SettledBet(bets[b], outcome[k])
  BY <1>1, <1>5, FinishBets DEF IsPendingOn
<1>6. \A b \in Bet \ settled[k] : bets'[b] = bets[b]
  BY <1>1, FinishBets
<1>7. \A b \in Bet : bets[b] # NoBet => bets[b] \in BetRow /\ bets[b].lobby \in Lobby
  BY <1>1, BetTypes DEF TypeOK
<1>8. ASSUME NEW l \in Lobby
      PROVE  Racing(l)'
  <2>1. CASE l = k
    BY <1>3, <1>4, <2>1 DEF Racing, PastFind
  <2>2. CASE l # k
    <3>1. ASSUME NEW b \in inTime, IsPendingOn(b, l)'
          PROVE  IsPendingOn(b, l)
      <4>1. b \in Bet
        BY <1>1 DEF TypeOK
      <4>2. CASE b \in settled[k]
        BY <1>5, <2>2, <3>1, <4>1, <4>2, SettledBetFollows DEF IsPendingOn
      <4>3. CASE b \notin settled[k]
        BY <1>6, <3>1, <4>1, <4>3 DEF IsPendingOn
      <4>4. QED
        BY <4>2, <4>3
    <3>2. QED
      BY <1>1, <1>2, <1>3, <1>4, <2>2, <3>1 DEF Racing, PastFind
  <2>3. QED
    BY <2>1, <2>2
<1>9. \A b \in Bet : (bets[b] # NoBet /\ bets[b].status = "pending" => bets[b].payout = 0)'
  <2>1. \A b \in Bet : b \in settled[k] => bets'[b].status # "pending"
    BY <1>5, SettledBetFollows
  <2>2. QED
    BY <1>1, <1>6, <2>1 DEF BetInv
<1>10. \A b \in inTime' : bets'[b] # NoBet
  <2>1. \A b \in inTime : b \in Bet /\ bets[b] # NoBet
    BY <1>1 DEF BetInv, TypeOK
  <2>2. \A b \in Bet : b \in settled[k] => bets'[b] # NoBet
    BY <1>5, BetTypes
  <2>3. QED
    BY <1>2, <1>6, <2>1, <2>2
<1>11. InTimeBetsSettled'
  <2>1. SUFFICES ASSUME NEW b \in inTime, lobbies'[bets'[b].lobby].status = "finished"
                 PROVE  bets'[b].status # "pending"
    BY <1>2 DEF InTimeBetsSettled
  <2>2. b \in Bet /\ bets[b] # NoBet
    BY <1>1 DEF BetInv, TypeOK
  <2>3. CASE b \in settled[k]
    BY <1>5, <2>2, <2>3, SettledBetFollows
  <2>4. CASE b \notin settled[k] /\ bets[b].lobby = k
    <3>1. ~IsPendingOn(b, k)
      BY <1>1, <1>2, <2>4 DEF Racing, PastFind
    <3>2. QED
      BY <1>6, <2>2, <2>4, <3>1 DEF IsPendingOn
  <2>5. CASE b \notin settled[k] /\ bets[b].lobby # k
    BY <1>1, <1>4, <1>6, <1>7, <2>1, <2>2, <2>5 DEF BetInv, InTimeBetsSettled
  <2>6. QED
    BY <2>3, <2>4, <2>5
<1>12. QED
  BY <1>8, <1>9, <1>10, <1>11 DEF BetInv

LEMMA SettlementStep == SettlementInv /\ [Next]_vars => SettlementInv'
<1> SUFFICES ASSUME SettlementInv, [Next]_vars
             PROVE  SettlementInv'
  OBVIOUS
<1>1. ShapeInv /\ BetInv
  BY DEF SettlementInv
<1>2. ShapeInv'
  BY <1>1, ShapeStep
<1> SUFFICES (\A l \in Lobby : Racing(l)') /\ BetInv'
  BY <1>2 DEF SettlementInv
<1>3. CASE UNCHANGED vars
  <2>1. BetInv'
    BY <1>1, <1>3, RowsKept DEF vars, rows
  <2>2. \A l \in Lobby : Racing(l)'
    BY <1>3 DEF vars, SettlementInv, Racing, PastFind, IsPendingOn
  <2>3. QED
    BY <2>1, <2>2
<1>4. CASE \E t \in Tx : Abort(t) \/ SelectForSave(t) \/ UpdateUser(t)
  <2>1. UNCHANGED rows
    BY <1>4 DEF Abort, SelectForSave, UpdateUser
  <2>2. QED
    BY <1>1, <1>4, <2>1, AbortRacing, SaveRacing, RowsKept
<1>5. CASE \E b \in Bet : InsertBet(b)
  BY <1>5, InsertKeepsInv
<1>6. CASE \/ \E b \in Bet : ReadBettor(b)
           \/ \E b \in Bet, l \in Lobby, u \in User, w \in User, s \in Stake :
                CheckLobby(b, l, u, w, s)
  <2>1. PICK b \in Bet : \/ ReadBettor(b)
                        \/ \E l \in Lobby, u \in User, w \in User, s \in Stake :
                             CheckLobby(b, l, u, w, s)
    BY <1>6
  <2>2. UNCHANGED rows
    BY <2>1 DEF ReadBettor, CheckLobby
  <2>3. QED
    BY <1>1, <2>1, <2>2, PlaceRacing, RowsKept
<1>7. CASE \E l \in Lobby : ReadPlayers(l) \/ FindPending(l)
  <2>1. UNCHANGED rows
    BY <1>7 DEF ReadPlayers, FindPending
  <2>2. QED
    BY <1>1, <1>7, <2>1, ReadOrFindRacing, RowsKept
<1>8. CASE \E l \in Lobby, b \in Bet : SettleBet(l, b)
  <2>1. UNCHANGED rows
    BY <1>8 DEF SettleBet
  <2>2. QED
    BY <1>1, <1>8, <2>1, SettleBetRacing, RowsKept
<1>9. CASE \E l \in Lobby : Commits(l)
  BY <1>9, FinishKeepsInv
<1>10. CASE \E l \in Lobby : Revert(l) \/ \E w \in Result(l) : StartRace(l, w) \/ Reopen(l, w)
  BY <1>10, StatusKeepsInv
<1>11. QED
  BY <1>1, <1>3, <1>4, <1>5, <1>6, <1>7, <1>8, <1>9, <1>10, StepCases

THEOREM SettlementInvariant == Spec => []SettlementInv
BY SettlementInitially, SettlementStep, PTL DEF Spec

LEMMA BetsStep == SettlementInv /\ [Next]_vars => [BetChange]_vars
<1> SUFFICES ASSUME SettlementInv, [Next]_vars, NEW b \in Bet,
                    bets[b] # NoBet, bets'[b] # bets[b]
             PROVE  BetSettled(b)
  BY DEF BetChange
<1>1. /\ TypeOK /\ Shape /\ ShapeInv /\ BetInv
      /\ \A l \in Lobby : Racing(l)
  BY DEF SettlementInv, ShapeInv
<1>2. CASE \E l \in Lobby : Commits(l)
  <2>1. PICK l \in Lobby : Commits(l)
    BY <1>2
  <2>2. /\ pc[l] = "bets"
        /\ lobbies' = [lobbies EXCEPT ![l] = [status |-> "finished", winner |-> outcome[l]]]
    BY <2>1 DEF Commits, CommitSettlement
  <2>3. lobbies[l].status = "simulating"
    BY <1>1, <2>2 DEF Racing
  <2>4. /\ bets[b] \in BetRow /\ IsPendingOn(b, l)
        /\ bets'[b] = SettledBet(bets[b], outcome[l])
    BY <1>1, <2>1, FinishBets
  <2>5. lobbies'[l] = [status |-> "finished", winner |-> outcome[l]]
    BY <1>1, <2>2 DEF TypeOK
  <2>6. QED
    BY <2>3, <2>4, <2>5, SettledBetFollows DEF BetSettled, IsPendingOn
<1>3. CASE \E c \in Bet : InsertBet(c)
  <2>1. PICK c \in Bet : InsertBet(c)
    BY <1>3
  <2>2. bets[c] = NoBet
    BY <1>1, <2>1 DEF InsertBet, Shape, Drafted
  <2>3. bets'[b] = bets[b]
    BY <1>1, <2>1, <2>2 DEF InsertBet, TypeOK
  <2>4. QED
    BY <2>3
<1>4. CASE UNCHANGED bets
  BY <1>4
<1>5. CASE \/ UNCHANGED vars
           \/ \E t \in Tx : Abort(t) \/ SelectForSave(t) \/ UpdateUser(t)
           \/ \E c \in Bet : ReadBettor(c)
           \/ \E c \in Bet, l \in Lobby, u \in User, w \in User, s \in Stake :
                CheckLobby(c, l, u, w, s)
           \/ \E l \in Lobby : ReadPlayers(l) \/ FindPending(l) \/ Revert(l)
           \/ \E l \in Lobby, c \in Bet : SettleBet(l, c)
           \/ \E l \in Lobby : \E w \in Result(l) : StartRace(l, w) \/ Reopen(l, w)
  BY <1>4, <1>5
  DEF vars, rows, Abort, SelectForSave, UpdateUser, ReadBettor, CheckLobby, ReadPlayers,
      FindPending, Revert, SettleBet, StartRace, Reopen
<1>6. QED
  BY <1>1, <1>2, <1>3, <1>5, StepCases

\* A bet changes once, from pending, in the commit that turns its lobby from
\* simulating to finished, and gets the status and the payout that the winner
\* stored with it gives it, be the commit acknowledged or not, and whatever
\* reverts, reopens or races the lobby again.
THEOREM BetsMatchResult == Spec => BetsFollowResult
BY SettlementInvariant, BetsStep, PTL DEF Spec, BetsFollowResult, BetChange, BetSettled

\* A bet that is committed before its lobby's race begins is settled with the
\* lobby, however many races fail, transactions deadlock or processes die.
THEOREM BetsInTimeSettled == Spec => []InTimeBetsSettled
<1>1. SettlementInv => InTimeBetsSettled
  BY DEF SettlementInv, BetInv
<1>2. QED
  BY <1>1, SettlementInvariant, PTL
=============================================================================
