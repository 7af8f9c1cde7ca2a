---------------------------- MODULE LedgerProofs ----------------------------
(***************************************************************************)
(* What saves of stale users can do to a balance, for any sets of users,   *)
(* lobbies and bets: Settlement implements LedgerPromise, and no stake and *)
(* no payout ever counts twice.                                            *)
(***************************************************************************)
EXTENDS SettlementProofs, FoldLemmas

-----------------------------------------------------------------------------
(* The inductive invariant                                                 *)

\* Two transactions never hold a row together.
OneLock == \A t, q \in Tx : t # q => locked[t] \cap locked[q] = {}

\* t has read users it changes, and is still at saving them or past it.
Saving(t) == pc[t] \in {"select", "update", "insert", "find", "bets"}

ToSave(t) == {unsaved[t][i] : i \in DOMAIN unsaved[t]}

\* A bet saves its bettor with a balance that the bettor has had, less the
\* stake; where it has written the row it has left the balance, or charged it.
BetInOrder(b) ==
    LET u == draft[b].bettor IN
    Saving(b) =>
        /\ ToSave(b) \cup locked[b] \subseteq {u}
        /\ \E p \in had[u] : draft[b].stake <= p /\ entity[b][u].balance = p - draft[b].stake
        /\ u \in locked[b] => wrote[b][u].balance \in {users[u].balance, entity[b][u].balance}

\* What the bets that settlement l has settled pay u so far.
BetsPaid(l, u) == {b \in settled[l] : bets[b].bettor = u}
Paid(l, u) == SumFunction([b \in BetsPaid(l, u) |-> Payout(bets[b], outcome[l])])

\* A balance that u has had, and of what u is paid no more than once.
Fair(l, u, balance) == \E p \in had[u] : p <= balance /\ balance <= p + Paid(l, u)

Concerned(l) == Players(l) \cup {bets[b].bettor : b \in settled[l]}

RaceInOrder(l) ==
    Saving(l) =>
        /\ ToSave(l) \cup locked[l] \subseteq Concerned(l)
        /\ \A u \in ToSave(l) : Fair(l, u, entity[l][u].balance)
        /\ \A u \in locked[l] : Fair(l, u, wrote[l][u].balance)

InOrder(t) == (t \in Bet => BetInOrder(t)) /\ (t \in Lobby => RaceInOrder(t))

\* A bet is on a player of its lobby, a race is won by one, or by nobody.
OnPlayers ==
    /\ \A b \in Bet : pc[b] # "idle" => draft[b].on \in Players(draft[b].lobby)
    /\ \A l \in Lobby : pc[l] # "idle" => outcome[l] \in Result(l)

\* A bet is settled once.
FoundNotSettled == \A l \in Lobby : found[l] \cap settled[l] = {}

Placed == {b \in Bet : bets[b] # NoBet}

\* Every balance that a user has had is within today's stakes and payouts.
Within(u, balance) ==
    /\ balance <= InitialBalance + PayoutsOf(u)
    /\ InitialBalance <= balance + StakesOf(u)

History ==
    /\ IsFiniteSet(Placed)
    /\ \A u \in User : users[u].balance \in had[u] /\ \A p \in had[u] : Within(u, p)

LedgerInv ==
    /\ SettlementInv
    /\ OneLock
    /\ \A t \in Tx : InOrder(t)
    /\ FoundNotSettled
    /\ OnPlayers
    /\ History

-----------------------------------------------------------------------------
(* Sequences of users to save                                              *)

LEMMA ToSaveTail ==
    ASSUME NEW s \in Seq(User), s # <<>>
    PROVE  /\ Head(s) \in {s[i] : i \in DOMAIN s}
           /\ {Tail(s)[i] : i \in DOMAIN Tail(s)} \subseteq {s[i] : i \in DOMAIN s}
<1>1. Len(s) \in Nat /\ Len(s) >= 1 /\ DOMAIN s = 1..Len(s)
  BY EmptySeq, LenProperties
<1>2. Head(s) = s[1] /\ 1 \in DOMAIN s
  BY <1>1
<1>3. /\ DOMAIN Tail(s) = 1..(Len(s) - 1)
      /\ \A i \in 1..(Len(s) - 1) : Tail(s)[i] = s[i + 1] /\ i + 1 \in DOMAIN s
  BY <1>1, HeadTailProperties
<1>4. QED
  BY <1>2, <1>3

-----------------------------------------------------------------------------
(* What is paid                                                            *)

LEMMA PaidType ==
    ASSUME ShapeInv, IsFiniteSet(Placed), NEW l \in Lobby, NEW u \in User
    PROVE  /\ BetsPaid(l, u) \subseteq Placed
           /\ IsFiniteSet(BetsPaid(l, u))
           /\ [b \in BetsPaid(l, u) |-> Payout(bets[b], outcome[l])]
                \in [BetsPaid(l, u) -> Nat]
           /\ Paid(l, u) \in Nat
<1> DEFINE f == [b \in BetsPaid(l, u) |-> Payout(bets[b], outcome[l])]
<1>1. \A b \in BetsPaid(l, u) : b \in Bet /\ bets[b] # NoBet /\ bets[b] \in BetRow
  BY DEF BetsPaid, ShapeInv, Shape, TypeOK, IsPendingOn
<1>2. BetsPaid(l, u) \subseteq Placed
  BY <1>1 DEF Placed
<1>3. IsFiniteSet(BetsPaid(l, u))
  BY <1>2, FS_Subset
<1>4. f \in [BetsPaid(l, u) -> Nat]
  BY <1>1, BetTypes
<1>5. Paid(l, u) = SumFunctionOnSet(f, BetsPaid(l, u))
  BY DEF Paid, SumFunction
<1>6. SumFunctionOnSet(f, BetsPaid(l, u)) \in Nat
  <2> HIDE DEF f
  <2>1. QED
    BY <1>3, <1>4, SumNat
<1>7. QED
  BY <1>2, <1>3, <1>4, <1>5, <1>6

\* A bet more is among the settled ones, and what it pays in the sum.
LEMMA PaysOneMore ==
    ASSUME ShapeInv, IsFiniteSet(Placed), NEW l \in Lobby, NEW b \in Bet,
           b \notin settled[l], bets[b] \in BetRow, settled'[l] = settled[l] \cup {b},
           UNCHANGED <<bets, outcome>>, NEW u \in User
    PROVE  Paid(l, u)' = IF u = bets[b].bettor
                         THEN Paid(l, u) + Payout(bets[b], outcome[l]) ELSE Paid(l, u)
<1>1. CASE u # bets[b].bettor
  <2>1. BetsPaid(l, u)' = BetsPaid(l, u)
    BY <1>1 DEF BetsPaid
  <2>2. QED
    BY <1>1, <2>1 DEF Paid
<1>2. CASE u = bets[b].bettor
  <2> DEFINE S == BetsPaid(l, u)
             f == [c \in S |-> Payout(bets[c], outcome[l])]
             g == [c \in S \cup {b} |-> Payout(bets[c], outcome[l])]
  <2>1. BetsPaid(l, u)' = S \cup {b} /\ b \notin S
    BY <1>2 DEF BetsPaid
  <2>2. f \in [S -> Nat] /\ IsFiniteSet(S) /\ SumFunctionOnSet(f, S) = Paid(l, u)
    BY PaidType DEF Paid, SumFunction
  <2>3. Payout(bets[b], outcome[l]) \in Nat
    BY BetTypes
  <2>4. Paid(l, u)' = SumFunctionOnSet(g, S \cup {b})
    BY <2>1 DEF Paid, SumFunction
  <2>5. /\ \A c \in S : g[c] = f[c] /\ f[c] \in Nat
        /\ g[b] = Payout(bets[b], outcome[l])
    BY <2>2
  <2>6. f \in [S -> Int] /\ g \in [S \cup {b} -> Int]
    BY <2>3, <2>5
  <2> HIDE DEF f, g, S
  <2>7. SumFunctionOnSet(g, S \cup {b}) = g[b] + SumFunctionOnSet(f, S)
    BY <2>1, <2>2, <2>5, <2>6, SumExtend
  <2>8. SumFunctionOnSet(f, S) \in Nat
    BY <2>2, SumNat
  <2>9. QED
    BY <1>2, <2>2, <2>3, <2>4, <2>5, <2>7, <2>8
<1>3. QED
  BY <1>1, <1>2

\* A balance that its user has had is fair, whatever is paid.
LEMMA HadIsFair ==
    ASSUME ShapeInv, IsFiniteSet(Placed), NEW l \in Lobby, NEW u \in User,
           NEW p \in had[u]
    PROVE  Fair(l, u, p)
<1>1. p \in Nat
  BY DEF ShapeInv, TypeOK
<1>2. Paid(l, u) \in Nat
  BY PaidType
<1>3. p <= p /\ p <= p + Paid(l, u)
  BY <1>1, <1>2
<1>4. QED
  BY <1>3 DEF Fair

-----------------------------------------------------------------------------
(* Locks                                                                   *)

LEMMA UpdateLocks ==
    ASSUME ShapeInv, OneLock, NEW t \in Tx, UpdateUser(t)
    PROVE  OneLock'
<1>1. CASE locked' = locked
  BY <1>1 DEF OneLock
<1>2. CASE locked' # locked
  <2>1. /\ \A q \in Tx \ {t} : Head(unsaved[t]) \notin locked[q]
        /\ locked' = [locked EXCEPT ![t] = @ \cup {Head(unsaved[t])}]
    BY <1>2 DEF UpdateUser, Unlocked
  <2>2. locked \in [Tx -> SUBSET User]
    BY DEF ShapeInv, TypeOK
  <2>3. /\ locked'[t] = locked[t] \cup {Head(unsaved[t])}
        /\ \A q \in Tx \ {t} : locked'[q] = locked[q]
    BY <2>1, <2>2
  <2>4. QED
    BY <2>1, <2>3 DEF OneLock
<1>3. QED
  BY <1>1, <1>2

LEMMA EndLocks ==
    ASSUME ShapeInv, OneLock, NEW t \in Tx, EndTransaction(t)
    PROVE  OneLock'
<1>1. locked'[t] = {} /\ \A q \in Tx \ {t} : locked'[q] = locked[q]
  BY EndType DEF ShapeInv
<1>2. QED
  BY <1>1 DEF OneLock

LEMMA LocksStep == ShapeInv /\ OneLock /\ [Next]_vars => OneLock'
<1> SUFFICES ASSUME ShapeInv, OneLock, [Next]_vars
             PROVE  OneLock'
  OBVIOUS
<1>1. CASE \E t \in Tx : Abort(t) \/ UpdateUser(t)
  BY <1>1, EndLocks, UpdateLocks DEF Abort, Ends
<1>2. CASE (\E b \in Bet : InsertBet(b)) \/ (\E l \in Lobby : Commits(l))
  BY <1>2, EndLocks DEF InsertBet, Commits, Ends, Tx
<1>3. CASE UNCHANGED locked
  BY <1>3 DEF OneLock
<1>4. CASE \/ UNCHANGED vars
           \/ \E t \in Tx : SelectForSave(t)
           \/ \E b \in Bet : ReadBettor(b)
           \/ \E b \in Bet, l \in Lobby, u \in User, w \in User, s \in Stake :
                CheckLobby(b, l, u, w, s)
           \/ \E l \in Lobby : ReadPlayers(l) \/ FindPending(l) \/ Revert(l)
           \/ \E l \in Lobby, b \in Bet : SettleBet(l, b)
           \/ \E l \in Lobby : \E w \in Result(l) : StartRace(l, w) \/ Reopen(l, w)
  BY <1>3, <1>4
  DEF vars, SelectForSave, ReadBettor, CheckLobby, ReadPlayers, FindPending, Revert,
      SettleBet, StartRace, Reopen
<1>5. QED
  BY <1>1, <1>2, <1>4, StepCases

\* No two transactions ever hold one user's row: an UPDATE waits for the row's
\* lock, and every lock is released by the COMMIT or the ROLLBACK.
THEOREM RowsLockedOnce == Spec => []OneLock
<1>1. Init => OneLock
  BY DEF Init, OneLock
<1>2. QED
  BY <1>1, LocksStep, ShapeInvariant, PTL DEF Spec

-----------------------------------------------------------------------------
(* A transaction while another one runs                                    *)

\* Nothing of t changes but that another transaction commits users that t has
\* not locked.
Undisturbed(t) ==
    /\ pc'[t] = pc[t] /\ entity'[t] = entity[t]
    /\ unsaved'[t] = unsaved[t] /\ locked'[t] = locked[t] /\ wrote'[t] = wrote[t]
    /\ t \in Bet => draft'[t] = draft[t]
    /\ t \in Lobby => /\ outcome'[t] = outcome[t] /\ settled'[t] = settled[t]
                      /\ \A b \in settled[t] : bets'[b] = bets[b]
    /\ \A u \in locked[t] : users'[u] = users[u]

LEMMA StaysInOrder ==
    ASSUME ShapeInv, NEW t \in Tx, Undisturbed(t), InOrder(t),
           \A u \in User : had[u] \subseteq had'[u]
    PROVE  InOrder(t)'
<1>1. ToSave(t)' = ToSave(t) /\ (Saving(t)' <=> Saving(t))
  BY DEF Undisturbed, ToSave, Saving
<1>2. t \in Bet => BetInOrder(t)'
  <2>1. SUFFICES ASSUME t \in Bet, Saving(t)
                 PROVE  BetInOrder(t)'
    BY <1>1 DEF BetInOrder
  <2>2. draft[t].bettor \in User
    BY <2>1, BetTypes DEF Saving, ShapeInv, Shape, Drafted
  <2>3. QED
    BY <1>1, <2>1, <2>2 DEF InOrder, BetInOrder, Undisturbed
<1>3. t \in Lobby => RaceInOrder(t)'
  <2>1. SUFFICES ASSUME t \in Lobby, Saving(t)
                 PROVE  RaceInOrder(t)'
    BY <1>1 DEF RaceInOrder
  <2>2. settled'[t] = settled[t] /\ outcome'[t] = outcome[t]
        /\ \A b \in settled[t] : bets'[b] = bets[b]
    BY <2>1 DEF Undisturbed
  <2>3. Concerned(t)' = Concerned(t)
    BY <2>2 DEF Concerned
  <2>4. ASSUME NEW u \in User, NEW n, Fair(t, u, n)
        PROVE  \E p \in had'[u] : p <= n /\ n <= p + Paid(t, u)'
    <3>1. BetsPaid(t, u)' = BetsPaid(t, u)
      BY <2>2 DEF BetsPaid
    <3>2. [b \in BetsPaid(t, u) |-> Payout(bets[b], outcome[t])]'
            = [b \in BetsPaid(t, u) |-> Payout(bets[b], outcome[t])]
      <4>1. \A b \in BetsPaid(t, u) : bets'[b] = bets[b]
        BY <2>2 DEF BetsPaid
      <4>2. QED
        BY <2>2, <3>1, <4>1
    <3>3. Paid(t, u)' = Paid(t, u)
      BY <3>2 DEF Paid
    <3>4. QED
      BY <2>4, <3>3 DEF Fair
  <2>5. ToSave(t) \subseteq User /\ locked[t] \subseteq User
    BY DEF ToSave, ShapeInv, TypeOK
  <2>6. RaceInOrder(t)
    BY <2>1 DEF InOrder
  <2>7. /\ \A u \in ToSave(t) : \E p \in had'[u] :
             p <= entity[t][u].balance /\ entity[t][u].balance <= p + Paid(t, u)'
        /\ \A u \in locked[t] : \E p \in had'[u] :
             p <= wrote[t][u].balance /\ wrote[t][u].balance <= p + Paid(t, u)'
    BY <2>1, <2>4, <2>5, <2>6 DEF RaceInOrder
  <2>8. ToSave(t) \cup locked[t] \subseteq Concerned(t)
    BY <2>1, <2>6 DEF RaceInOrder
  <2>9. entity'[t] = entity[t] /\ wrote'[t] = wrote[t] /\ locked'[t] = locked[t]
    BY DEF Undisturbed
  <2>10. QED
    BY <1>1, <2>3, <2>7, <2>8, <2>9 DEF RaceInOrder, Fair
<1>4. QED
  BY <1>2, <1>3 DEF InOrder

-----------------------------------------------------------------------------
(* A transaction and its own steps                                         *)

LEMMA AtRest ==
    ASSUME NEW t \in Tx, pc'[t] \in {"idle", "bettor", "players", "revert"}
    PROVE  InOrder(t)'
BY DEF InOrder, BetInOrder, RaceInOrder, Saving

\* Steps that change nothing that is to be saved.
LEMMA StepInOrder ==
    ASSUME NEW t \in Tx, InOrder(t), SelectForSave(t) \/ (t \in Lobby /\ FindPending(t)),
           ShapeInv
    PROVE  InOrder(t)'
<1>1. Saving(t)
  BY DEF SelectForSave, FindPending, Saving
<1>2. UNCHANGED <<users, bets, had, draft, outcome, entity, unsaved, locked, wrote, settled>>
  BY DEF SelectForSave, FindPending, rows
<1>3. ToSave(t)' = ToSave(t) /\ (t \in Lobby => Concerned(t)' = Concerned(t))
      /\ \A u : Paid(t, u)' = Paid(t, u)
  BY <1>2 DEF ToSave, Concerned, Paid, BetsPaid
<1>4. t \in Bet => BetInOrder(t)'
  BY <1>1, <1>2, <1>3 DEF InOrder, BetInOrder
<1>5. t \in Lobby => RaceInOrder(t)'
  BY <1>1, <1>2, <1>3 DEF InOrder, RaceInOrder, Fair
<1>6. QED
  BY <1>4, <1>5 DEF InOrder

\* The UPDATE leaves the balance that t sees, or writes the one of the entity.
LEMMA UpdateInOrder ==
    ASSUME ShapeInv, History, NEW t \in Tx, InOrder(t), UpdateUser(t)
    PROVE  InOrder(t)'
<1>1. TypeOK /\ pc[t] = "update" /\ unsaved[t] # <<>> /\ unsaved[t] \in Seq(User)
  BY DEF ShapeInv, Shape, TypeOK, UpdateUser
<1>2. PICK u \in User : u = Head(unsaved[t])
  BY <1>1, HeadTailProperties
<1>3. u \in ToSave(t) /\ Saving(t)
  BY <1>1, <1>2, ToSaveTail DEF ToSave, Saving
<1>4. /\ unsaved'[t] = Tail(unsaved[t])
      /\ UNCHANGED <<users, bets, had, draft, outcome, entity, settled>>
      /\ \/ wrote'[t] = wrote[t] /\ locked'[t] = locked[t]
         \/ /\ wrote'[t] = [wrote[t] EXCEPT ![u] = SavedUser(t, u)]
            /\ locked'[t] = locked[t] \cup {u}
  BY <1>1, <1>2 DEF UpdateUser, rows, TypeOK
<1>5. ToSave(t)' \subseteq ToSave(t)
  BY <1>1, <1>4, ToSaveTail DEF ToSave
<1>6. SavedUser(t, u).balance \in {Seen(t, u).balance, entity[t][u].balance}
  BY DEF SavedUser, SavedColumn
<1>7. locked'[t] \subseteq locked[t] \cup ToSave(t)
  BY <1>3, <1>4
<1>8. ASSUME NEW v \in locked'[t]
      PROVE  \/ v \in locked[t] /\ wrote'[t][v] = wrote[t][v]
             \/ /\ v = u
                /\ \/ wrote'[t][u].balance = entity[t][u].balance
                   \/ u \in locked[t] /\ wrote'[t][u].balance = wrote[t][u].balance
                   \/ wrote'[t][u].balance = users[u].balance
  <2>1. wrote[t] \in [User -> UserRow] /\ locked[t] \subseteq User
    BY <1>1 DEF TypeOK
  <2>2. Seen(t, u) = (IF u \in locked[t] THEN wrote[t][u] ELSE users[u])
    BY DEF Seen
  <2>3. QED
    BY <1>4, <1>6, <1>8, <2>1, <2>2
<1>9. t \in Bet => BetInOrder(t)'
  <2>1. SUFFICES ASSUME t \in Bet
                 PROVE  BetInOrder(t)'
    OBVIOUS
  <2>2. PICK v : v = draft[t].bettor
    OBVIOUS
  <2>3. /\ ToSave(t) \cup locked[t] \subseteq {v}
        /\ \E p \in had[v] : draft[t].stake <= p /\ entity[t][v].balance = p - draft[t].stake
        /\ v \in locked[t] => wrote[t][v].balance \in {users[v].balance, entity[t][v].balance}
    BY <1>3, <2>1, <2>2 DEF InOrder, BetInOrder
  <2>4. u = v
    BY <1>3, <2>3
  <2>5. v \in locked'[t] => wrote'[t][v].balance \in {users[v].balance, entity[t][v].balance}
    BY <1>8, <2>3, <2>4
  <2>6. ToSave(t)' \cup locked'[t] \subseteq {v}
    BY <1>5, <1>7, <2>3
  <2>7. QED
    BY <1>4, <2>2, <2>3, <2>5, <2>6 DEF BetInOrder
<1>10. t \in Lobby => RaceInOrder(t)'
  <2>1. SUFFICES ASSUME t \in Lobby
                 PROVE  RaceInOrder(t)'
    OBVIOUS
  <2>2. /\ ToSave(t) \cup locked[t] \subseteq Concerned(t)
        /\ \A v \in ToSave(t) : Fair(t, v, entity[t][v].balance)
        /\ \A v \in locked[t] : Fair(t, v, wrote[t][v].balance)
    BY <1>3, <2>1 DEF InOrder, RaceInOrder
  <2>3. Fair(t, u, users[u].balance)
    BY <2>1, HadIsFair DEF History
  <2>4. \A v \in locked'[t] : Fair(t, v, wrote'[t][v].balance)
    BY <1>3, <1>8, <2>2, <2>3
  <2>5. /\ Concerned(t)' = Concerned(t)
        /\ \A v : Paid(t, v)' = Paid(t, v)
    BY <1>4 DEF Concerned, Paid, BetsPaid
  <2>6. /\ \A v \in ToSave(t)' : Fair(t, v, entity[t][v].balance)
        /\ ToSave(t)' \cup locked'[t] \subseteq Concerned(t)
    BY <1>5, <1>7, <2>2
  <2>7. QED
    BY <1>4, <2>4, <2>5, <2>6 DEF RaceInOrder, Fair
<1>11. QED
  BY <1>9, <1>10 DEF InOrder

LEMMA ReadBettorInOrder ==
    ASSUME ShapeInv, History, NEW b \in Bet, ReadBettor(b)
    PROVE  InOrder(b)'
<1>1. TypeOK /\ b \in Tx /\ b \notin Lobby
  BY SettlementAssumption DEF ShapeInv, Tx
<1>2. pc[b] = "bettor" /\ locked[b] = {}
  BY <1>1 DEF ReadBettor, ShapeInv, Shape
<1>3. draft[b] \in BetRow
  BY <1>1, <1>2 DEF ShapeInv, Shape, Drafted
<1>4. PICK u \in User, s \in Nat : u = draft[b].bettor /\ s = draft[b].stake
  BY <1>3, BetTypes
<1>5. Seen(b, u) = users[u] /\ users[u] \in UserRow
  BY <1>1, <1>2 DEF Seen, TypeOK
<1>6. /\ entity'[b][u] = [users[u] EXCEPT !.balance = @ - s]
      /\ s <= users[u].balance
      /\ unsaved'[b] = <<u>>
      /\ UNCHANGED <<users, had, draft, wrote, locked>>
  BY <1>1, <1>4, <1>5 DEF ReadBettor, rows, TypeOK
<1>7. entity'[b][u].balance = users[u].balance - s /\ users[u].balance \in had[u]
  BY <1>5, <1>6 DEF UserRow, History
<1>8. ToSave(b)' = {u}
  BY <1>6 DEF ToSave
<1>9. BetInOrder(b)'
  BY <1>2, <1>4, <1>6, <1>7, <1>8 DEF BetInOrder
<1>10. QED
  BY <1>1, <1>9 DEF InOrder

LEMMA ReadPlayersInOrder ==
    ASSUME ShapeInv, History, NEW l \in Lobby, ReadPlayers(l)
    PROVE  InOrder(l)'
<1>1. TypeOK /\ l \in Tx /\ l \notin Bet
  BY SettlementAssumption DEF ShapeInv, Tx
<1>2. pc[l] = "players" /\ locked[l] = {}
  BY <1>1 DEF ReadPlayers, ShapeInv, Shape
<1>3. \A u \in User : Seen(l, u) = users[u] /\ users[u] \in UserRow
  BY <1>1, <1>2 DEF Seen, TypeOK
<1>4. /\ \A u \in Players(l) : u \in User
                              /\ entity'[l][u] = [users[u] EXCEPT !.races = @ + 1]
      /\ unsaved'[l] = <<Host[l], Opponent[l]>>
      /\ UNCHANGED <<users, bets, had, outcome, wrote, locked, settled>>
  BY <1>1, <1>3, SettlementDataAssumption DEF ReadPlayers, rows, TypeOK, Players
<1>5. ToSave(l)' = Players(l)
  BY <1>4 DEF ToSave, Players
<1>6. \A u \in Players(l) : Fair(l, u, entity'[l][u].balance)
  <2>1. ASSUME NEW u \in Players(l)
        PROVE  Fair(l, u, entity'[l][u].balance)
    <3>1. entity'[l][u].balance = users[u].balance /\ u \in User
      BY <1>3, <1>4 DEF UserRow
    <3>2. users[u].balance \in had[u] /\ IsFiniteSet(Placed)
      BY <3>1 DEF History
    <3>3. Fair(l, u, users[u].balance)
      BY <3>1, <3>2, HadIsFair
    <3>4. QED
      BY <3>1, <3>3
  <2>2. QED
    BY <2>1
<1>7. \A u : Paid(l, u)' = Paid(l, u)
  BY <1>4 DEF Paid, BetsPaid
<1>8. Players(l) \subseteq Concerned(l)'
  BY DEF Concerned
<1>9. RaceInOrder(l)'
  BY <1>2, <1>4, <1>5, <1>6, <1>7, <1>8 DEF RaceInOrder, Fair
<1>10. QED
  BY <1>1, <1>9 DEF InOrder

LEMMA SettleBetInOrder ==
    ASSUME ShapeInv, History, NEW l \in Lobby, InOrder(l),
           found[l] \cap settled[l] = {}, NEW b \in Bet, SettleBet(l, b)
    PROVE  InOrder(l)'
<1>1. TypeOK /\ l \in Tx /\ l \notin Bet /\ IsFiniteSet(Placed)
  BY SettlementAssumption DEF ShapeInv, Tx, History
<1>2. /\ pc[l] = "bets" /\ b \in found[l]
      /\ settled'[l] = settled[l] \cup {b}
      /\ UNCHANGED <<users, bets, had, outcome, wrote, locked>>
  BY <1>1 DEF SettleBet, rows, TypeOK
<1>3. bets[b] \in BetRow /\ b \notin settled[l]
  BY <1>1, <1>2 DEF ShapeInv, Shape, IsPendingOn, TypeOK
<1>4. PICK u \in User, n \in Nat : u = bets[b].bettor /\ n = Payout(bets[b], outcome[l])
  BY <1>3, BetTypes
<1>5. \A x \in User : Paid(l, x)' = IF x = u THEN Paid(l, x) + n ELSE Paid(l, x)
  BY <1>1, <1>2, <1>3, <1>4, PaysOneMore
<1>6. \A x \in User : Paid(l, x) \in Nat
  BY <1>1, PaidType
<1>7. Concerned(l)' = Concerned(l) \cup {u}
  BY <1>2, <1>4 DEF Concerned
<1>8. ASSUME NEW x \in User, NEW m \in Nat, Fair(l, x, m)
      PROVE  /\ \E p \in had[x] : p <= m /\ m <= p + Paid(l, x)'
             /\ x = u => \E p \in had[x] : p <= m + n /\ m + n <= p + Paid(l, x)'
  <2>1. PICK p \in had[x] : p <= m /\ m <= p + Paid(l, x)
    BY <1>8 DEF Fair
  <2>2. p \in Nat /\ Paid(l, x) \in Nat
    BY <1>1, <1>6 DEF TypeOK
  <2>3. p <= m /\ m <= p + Paid(l, x)'
    BY <1>5, <2>1, <2>2
  <2>4. x = u => p <= m + n /\ m + n <= p + Paid(l, x)'
    BY <1>5, <2>1, <2>2
  <2>5. QED
    BY <2>3, <2>4
<1>9. /\ ToSave(l) \cup locked[l] \subseteq Concerned(l)
      /\ \A x \in ToSave(l) : Fair(l, x, entity[l][x].balance)
      /\ \A x \in locked[l] : Fair(l, x, wrote[l][x].balance)
  BY <1>2 DEF InOrder, RaceInOrder, Saving
<1>10. ToSave(l) \subseteq User /\ locked[l] \subseteq User
  BY <1>1 DEF ToSave, TypeOK
<1>11. \A x \in User : /\ entity[l][x].balance \in Nat /\ wrote[l][x].balance \in Nat
                       /\ Seen(l, x) \in UserRow /\ Seen(l, x).balance \in Nat
  <2>1. \A x \in User : entity[l][x] \in UserRow /\ wrote[l][x] \in UserRow
    BY <1>1 DEF TypeOK
  <2>2. \A x \in User : Seen(l, x) \in UserRow
    BY <1>1, SeenType
  <2>3. QED
    BY <2>1, <2>2 DEF UserRow
<1>12. \A x \in locked[l] : \E p \in had[x] :
         p <= wrote[l][x].balance /\ wrote[l][x].balance <= p + Paid(l, x)'
  BY <1>8, <1>9, <1>10, <1>11
<1>13. CASE UNCHANGED <<pc, entity, unsaved>>
  <2>1. \A x \in ToSave(l) : \E p \in had[x] :
          p <= entity[l][x].balance /\ entity[l][x].balance <= p + Paid(l, x)'
    BY <1>8, <1>9, <1>10, <1>11
  <2>2. ToSave(l)' = ToSave(l)
    BY <1>13 DEF ToSave
  <2>3. RaceInOrder(l)'
    BY <1>2, <1>7, <1>9, <1>12, <1>13, <2>1, <2>2 DEF RaceInOrder, Fair
  <2>4. QED
    BY <1>1, <2>3 DEF InOrder
<1>14. CASE /\ entity'[l][u] = [Seen(l, u) EXCEPT !.balance = @ + n]
            /\ unsaved'[l] = <<u>>
  <2>1. ToSave(l)' = {u}
    BY <1>14 DEF ToSave
  <2>2. entity'[l][u].balance = Seen(l, u).balance + n
    BY <1>11, <1>14 DEF UserRow
  <2>3. Fair(l, u, Seen(l, u).balance)
    <3>1. CASE u \in locked[l]
      BY <1>9, <3>1 DEF Seen
    <3>2. CASE u \notin locked[l]
      <4>1. users[u].balance \in had[u]
        BY DEF History
      <4>2. Fair(l, u, users[u].balance)
        BY <1>1, <4>1, HadIsFair
      <4>3. QED
        BY <3>2, <4>2 DEF Seen
    <3>3. QED
      BY <3>1, <3>2
  <2>4. \E p \in had[u] : p <= entity'[l][u].balance
                          /\ entity'[l][u].balance <= p + Paid(l, u)'
    BY <1>8, <1>11, <2>2, <2>3
  <2>5. RaceInOrder(l)'
    BY <1>2, <1>7, <1>9, <1>12, <2>1, <2>4 DEF RaceInOrder, Fair
  <2>6. QED
    BY <1>1, <2>5 DEF InOrder
<1>15. QED
  BY <1>1, <1>4, <1>13, <1>14 DEF SettleBet, TypeOK

-----------------------------------------------------------------------------
(* The others                                                              *)

LEMMA SaveUndisturbed ==
    ASSUME ShapeInv, NEW t \in Tx, Abort(t) \/ SelectForSave(t) \/ UpdateUser(t),
           NEW q \in Tx, q # t
    PROVE  Undisturbed(q)
<1>1. TypeOK
  BY DEF ShapeInv
<1>2. CASE Abort(t)
  <2>1. Ends(t) /\ EndTransaction(t) /\ UNCHANGED <<users, bets>>
    BY <1>2 DEF Abort, Ends, rows
  <2>2. pc'[q] = pc[q] /\ (q \in Bet => draft'[q] = draft[q])
        /\ (q \in Lobby => outcome'[q] = outcome[q])
    BY <1>1, <2>1, EndsType
  <2>3. /\ entity'[q] = entity[q]
        /\ unsaved'[q] = unsaved[q] /\ locked'[q] = locked[q] /\ wrote'[q] = wrote[q]
        /\ q \in Lobby => settled'[q] = settled[q]
    BY <1>1, <2>1 DEF EndTransaction, TypeOK
  <2>4. QED
    BY <2>1, <2>2, <2>3 DEF Undisturbed
<1>3. CASE SelectForSave(t)
  BY <1>1, <1>3 DEF SelectForSave, Goto, rows, Undisturbed, TypeOK
<1>4. CASE UpdateUser(t)
  BY <1>1, <1>4 DEF UpdateUser, Goto, rows, Undisturbed, TypeOK
<1>5. QED
  BY <1>2, <1>3, <1>4

LEMMA PlaceUndisturbed ==
    ASSUME ShapeInv, NEW b \in Bet,
           \/ ReadBettor(b)
           \/ \E l \in Lobby, u \in User, w \in User, s \in Stake : CheckLobby(b, l, u, w, s),
           NEW q \in Tx, q # b
    PROVE  Undisturbed(q)
<1>1. TypeOK /\ b \in Tx
  BY DEF ShapeInv, Tx
<1>2. CASE ReadBettor(b)
  BY <1>1, <1>2 DEF ReadBettor, Goto, rows, Undisturbed, TypeOK
<1>3. ASSUME NEW l \in Lobby, NEW u \in User, NEW w \in User, NEW s \in Stake,
             CheckLobby(b, l, u, w, s)
      PROVE  Undisturbed(q)
  BY <1>1, <1>3 DEF CheckLobby, Goto, rows, Undisturbed, TypeOK
<1>4. QED
  BY <1>2, <1>3

LEMMA RaceUndisturbed ==
    ASSUME ShapeInv, NEW l \in Lobby,
           \/ ReadPlayers(l) \/ FindPending(l) \/ Revert(l)
           \/ \E b \in Bet : SettleBet(l, b)
           \/ \E w \in Result(l) : StartRace(l, w) \/ Reopen(l, w),
           NEW q \in Tx, q # l
    PROVE  Undisturbed(q)
<1>1. TypeOK /\ l \in Tx /\ l \notin Bet
  BY SettlementAssumption DEF ShapeInv, Tx
<1>2. CASE ReadPlayers(l)
  BY <1>1, <1>2 DEF ReadPlayers, Goto, rows, Undisturbed, TypeOK
<1>3. CASE FindPending(l)
  BY <1>1, <1>3 DEF FindPending, Goto, rows, Undisturbed, TypeOK
<1>4. CASE Revert(l)
  BY <1>1, <1>4 DEF Revert, Return, Goto, Undisturbed, TypeOK
<1>5. ASSUME NEW b \in Bet, SettleBet(l, b)
      PROVE  Undisturbed(q)
  <2>1. /\ UNCHANGED <<users, bets, draft, outcome, locked, wrote>>
        /\ settled' = [settled EXCEPT ![l] = @ \cup {b}]
        /\ \/ UNCHANGED <<pc, entity, unsaved>>
           \/ /\ pc' = [pc EXCEPT ![l] = "select"]
              /\ unsaved' = [unsaved EXCEPT ![l] = <<bets[b].bettor>>]
              /\ entity'[q] = entity[q]
    BY <1>1, <1>5 DEF SettleBet, Goto, rows, TypeOK
  <2>2. QED
    BY <1>1, <2>1 DEF Undisturbed, TypeOK
<1>6. ASSUME NEW w \in Result(l), StartRace(l, w) \/ Reopen(l, w)
      PROVE  Undisturbed(q)
  BY <1>1, <1>6 DEF StartRace, Reopen, Goto, Undisturbed, TypeOK
<1>7. QED
  BY <1>2, <1>3, <1>4, <1>5, <1>6

\* A commit writes rows that nobody else has locked.
LEMMA CommitUndisturbed ==
    ASSUME ShapeInv, OneLock, NEW t \in Tx,
           \/ t \in Bet /\ InsertBet(t)
           \/ t \in Lobby /\ Commits(t),
           NEW q \in Tx, q # t
    PROVE  Undisturbed(q)
<1>1. TypeOK /\ Shape
  BY DEF ShapeInv
<1>2. CommitUsers(t) /\ Ends(t) /\ EndTransaction(t)
  BY DEF InsertBet, Commits, CommitSettlement, Ends
<1>3. pc'[q] = pc[q] /\ (q \in Bet => draft'[q] = draft[q])
      /\ (q \in Lobby => outcome'[q] = outcome[q])
  BY <1>1, <1>2, EndsType
<1>4. /\ entity'[q] = entity[q]
      /\ unsaved'[q] = unsaved[q] /\ locked'[q] = locked[q] /\ wrote'[q] = wrote[q]
      /\ q \in Lobby => settled'[q] = settled[q]
  BY <1>1, <1>2 DEF EndTransaction, TypeOK
<1>5. \A u \in locked[q] : users'[u] = users[u]
  <2>1. ASSUME NEW u \in locked[q]
        PROVE  users'[u] = users[u]
    <3>1. u \in User /\ u \notin locked[t]
      BY <1>1 DEF OneLock, TypeOK
    <3>2. QED
      BY <1>2, <3>1 DEF CommitUsers, Seen
  <2>2. QED
    BY <2>1
<1>6. ASSUME q \in Lobby, NEW b \in settled[q]
      PROVE  bets'[b] = bets[b]
  <2>1. b \in Bet /\ IsPendingOn(b, q)
    BY <1>1, <1>6 DEF Shape, TypeOK
  <2>2. CASE t \in Bet /\ InsertBet(t)
    <3>1. Drafted(t)
      BY <1>1, <2>2 DEF Shape, InsertBet
    <3>2. b # t
      BY <2>1, <3>1 DEF Drafted, IsPendingOn
    <3>3. QED
      BY <1>1, <2>1, <2>2, <3>2 DEF InsertBet, TypeOK
  <2>3. CASE t \in Lobby /\ Commits(t)
    <3>1. b \notin settled[t]
      BY <1>1, <2>1, <2>3 DEF Shape, IsPendingOn
    <3>2. QED
      BY <2>1, <2>3, <3>1, FinishBets
  <2>4. QED
    BY <2>2, <2>3
<1>7. QED
  BY <1>3, <1>4, <1>5, <1>6 DEF Undisturbed

-----------------------------------------------------------------------------
(* Stakes and payouts                                                      *)

LEMMA BetsOfType ==
    ASSUME ShapeInv, IsFiniteSet(Placed), NEW u \in User
    PROVE  /\ IsFiniteSet(BetsOf(u))
           /\ [b \in BetsOf(u) |-> bets[b].stake] \in [BetsOf(u) -> Nat]
           /\ [b \in BetsOf(u) |-> bets[b].payout] \in [BetsOf(u) -> Nat]
           /\ StakesOf(u) \in Nat /\ PayoutsOf(u) \in Nat
<1> DEFINE f == [b \in BetsOf(u) |-> bets[b].stake]
           g == [b \in BetsOf(u) |-> bets[b].payout]
<1>1. BetsOf(u) \subseteq Placed
  BY DEF BetsOf, Placed
<1>2. IsFiniteSet(BetsOf(u))
  BY <1>1, FS_Subset
<1>3. \A b \in BetsOf(u) : bets[b] \in BetRow
  BY DEF BetsOf, ShapeInv, TypeOK
<1>4. \A b \in BetsOf(u) : bets[b].stake \in Nat
  BY <1>3, BetTypes
<1>5. \A b \in BetsOf(u) : bets[b].payout \in Nat
  BY <1>3 DEF BetRow
<1>6. f \in [BetsOf(u) -> Nat] /\ g \in [BetsOf(u) -> Nat]
  BY <1>4, <1>5
<1>7. StakesOf(u) = SumFunctionOnSet(f, BetsOf(u))
      /\ PayoutsOf(u) = SumFunctionOnSet(g, BetsOf(u))
  BY DEF StakesOf, PayoutsOf, SumFunction
<1> HIDE DEF f, g
<1>8. SumFunctionOnSet(f, BetsOf(u)) \in Nat /\ SumFunctionOnSet(g, BetsOf(u)) \in Nat
  BY <1>2, <1>6, SumNat
<1>9. QED
  BY <1>2, <1>6, <1>7, <1>8 DEF f, g

\* A bet adds its stake to its bettor's stakes, and pays nothing yet.
LEMMA InsertSums ==
    ASSUME ShapeInv, IsFiniteSet(Placed), NEW b \in Bet, InsertBet(b)
    PROVE  /\ IsFiniteSet(Placed)'
           /\ \A u \in User :
                /\ StakesOf(u)' = StakesOf(u)
                                  + (IF u = draft[b].bettor THEN draft[b].stake ELSE 0)
                /\ PayoutsOf(u)' = PayoutsOf(u)
<1>1. TypeOK /\ b \in Tx
  BY DEF ShapeInv, Tx
<1>2. pc[b] = "insert" /\ bets' = [bets EXCEPT ![b] = draft[b]]
  BY DEF InsertBet
<1>3. Drafted(b)
  BY <1>1, <1>2 DEF ShapeInv, Shape
<1>4. /\ bets[b] = NoBet /\ bets'[b] = draft[b] /\ draft[b] # NoBet
      /\ \A c \in Bet \ {b} : bets'[c] = bets[c]
  BY <1>1, <1>2, <1>3, BetTypes DEF Drafted, TypeOK
<1>5. IsFiniteSet(Placed)'
  <2>1. Placed' = Placed \cup {b}
    BY <1>4 DEF Placed
  <2>2. IsFiniteSet({b})
    BY FS_Singleton
  <2>3. IsFiniteSet(Placed \cup {b})
    BY <2>2, FS_Union
  <2>4. QED
    BY <2>1, <2>3
<1>6. ASSUME NEW u \in User
      PROVE  /\ StakesOf(u)' = StakesOf(u)
                               + (IF u = draft[b].bettor THEN draft[b].stake ELSE 0)
             /\ PayoutsOf(u)' = PayoutsOf(u)
  <2>1. StakesOf(u) \in Nat /\ PayoutsOf(u) \in Nat
    BY BetsOfType
  <2>2. CASE u # draft[b].bettor
    <3>1. BetsOf(u)' = BetsOf(u) /\ \A c \in BetsOf(u) : bets'[c] = bets[c]
      BY <1>4, <2>2 DEF BetsOf
    <3>2. StakesOf(u)' = StakesOf(u) /\ PayoutsOf(u)' = PayoutsOf(u)
      BY <3>1 DEF StakesOf, PayoutsOf
    <3>3. QED
      BY <2>1, <2>2, <3>2
  <2>3. CASE u = draft[b].bettor
    <3> DEFINE S == BetsOf(u)
               f == [c \in S |-> bets[c].stake]
               g == [c \in S \cup {b} |-> bets'[c].stake]
               h == [c \in S |-> bets[c].payout]
               i == [c \in S \cup {b} |-> bets'[c].payout]
    <3>1. BetsOf(u)' = S \cup {b} /\ b \notin S /\ \A c \in S : bets'[c] = bets[c]
      BY <1>4, <2>3 DEF BetsOf
    <3>2. /\ IsFiniteSet(S) /\ f \in [S -> Nat] /\ h \in [S -> Nat]
          /\ StakesOf(u) = SumFunctionOnSet(f, S) /\ PayoutsOf(u) = SumFunctionOnSet(h, S)
      BY BetsOfType DEF StakesOf, PayoutsOf, SumFunction
    <3>3. /\ StakesOf(u)' = SumFunctionOnSet(g, S \cup {b})
          /\ PayoutsOf(u)' = SumFunctionOnSet(i, S \cup {b})
      BY <3>1 DEF StakesOf, PayoutsOf, SumFunction
    <3>4. /\ \A c \in S : /\ g[c] = f[c] /\ f[c] \in Nat
                          /\ i[c] = h[c] /\ h[c] \in Nat
          /\ g[b] = draft[b].stake /\ i[b] = 0
      BY <1>3, <1>4, <3>1, <3>2 DEF Drafted
    <3>5. draft[b].stake \in Nat
      BY <1>3, BetTypes DEF Drafted
    <3>6. /\ f \in [S -> Int] /\ g \in [S \cup {b} -> Int]
          /\ h \in [S -> Int] /\ i \in [S \cup {b} -> Int]
      BY <3>4, <3>5
    <3> HIDE DEF f, g, h, i, S
    <3>7. SumFunctionOnSet(g, S \cup {b}) = g[b] + SumFunctionOnSet(f, S)
      BY <3>1, <3>2, <3>4, <3>6, SumExtend
    <3>8. SumFunctionOnSet(i, S \cup {b}) = i[b] + SumFunctionOnSet(h, S)
      BY <3>1, <3>2, <3>4, <3>6, SumExtend
    <3>9. QED
      BY <2>1, <2>3, <3>2, <3>3, <3>4, <3>5, <3>7, <3>8
  <2>4. QED
    BY <2>2, <2>3
<1>7. QED
  BY <1>5, <1>6

\* A settlement adds what it pays to the payouts.
LEMMA FinishSums ==
    ASSUME SettlementInv, IsFiniteSet(Placed), NEW l \in Lobby, Commits(l)
    PROVE  /\ IsFiniteSet(Placed)'
           /\ \A u \in User : /\ StakesOf(u)' = StakesOf(u)
                              /\ PayoutsOf(u)' = PayoutsOf(u) + Paid(l, u)
<1>1. TypeOK /\ ShapeInv /\ BetInv /\ l \in Tx /\ l \notin Bet
  BY SettlementAssumption DEF SettlementInv, ShapeInv, Tx
<1>2. /\ settled[l] \subseteq Bet
      /\ \A b \in settled[l] : /\ bets[b] \in BetRow
                              /\ IsPendingOn(b, l)
                              /\ bets'[b] = SettledBet(bets[b], outcome[l])
      /\ \A b \in Bet \ settled[l] : bets'[b] = bets[b]
  BY <1>1, FinishBets
<1>3. ASSUME NEW b \in settled[l]
      PROVE  /\ bets[b].payout = 0 /\ bets'[b].payout = Payout(bets[b], outcome[l])
             /\ bets'[b].stake = bets[b].stake /\ bets'[b].bettor = bets[b].bettor
             /\ bets'[b] # NoBet /\ bets[b] # NoBet
  <2>1. bets[b].payout = 0
    BY <1>1, <1>2 DEF BetInv, IsPendingOn
  <2>2. /\ bets'[b].payout = Payout(bets[b], outcome[l])
        /\ bets'[b].stake = bets[b].stake /\ bets'[b].bettor = bets[b].bettor
    BY <1>2 DEF SettledBet, BetRow
  <2>3. bets'[b] # NoBet /\ bets[b] # NoBet
    BY <1>2, BetTypes DEF IsPendingOn
  <2>4. QED
    BY <2>1, <2>2, <2>3
<1>4. Placed' = Placed
  BY <1>2, <1>3 DEF Placed
<1>5. ASSUME NEW u \in User
      PROVE  /\ StakesOf(u)' = StakesOf(u)
             /\ PayoutsOf(u)' = PayoutsOf(u) + Paid(l, u)
  <2> DEFINE S == BetsOf(u)
             B == BetsPaid(l, u)
             f == [b \in S |-> bets[b].payout]
             g == [b \in B |-> Payout(bets[b], outcome[l])]
             h == [b \in S |-> bets'[b].payout]
  <2>1. BetsOf(u)' = S
    BY <1>2, <1>3 DEF BetsOf
  <2>2. StakesOf(u)' = StakesOf(u)
    <3>1. \A b \in S : bets'[b].stake = bets[b].stake
      BY <1>2, <1>3 DEF BetsOf
    <3>2. [b \in S |-> bets'[b].stake] = [b \in S |-> bets[b].stake]
      BY <3>1
    <3>3. QED
      BY <2>1, <3>2 DEF StakesOf
  <2>3. PayoutsOf(u)' = SumFunctionOnSet(h, S)
    BY <2>1 DEF PayoutsOf, SumFunction
  <2>4. /\ IsFiniteSet(S) /\ f \in [S -> Nat] /\ PayoutsOf(u) = SumFunctionOnSet(f, S)
    BY <1>1, BetsOfType DEF PayoutsOf, SumFunction
  <2>5. /\ g \in [B -> Nat] /\ Paid(l, u) = SumFunctionOnSet(g, B)
    BY <1>1, PaidType DEF Paid, SumFunction
  <2>6. B \in SUBSET S
    BY <1>2, <1>3 DEF BetsPaid, BetsOf
  <2>7. \A b \in S : bets'[b].payout = IF b \in B THEN f[b] + g[b] ELSE f[b]
    <3>1. ASSUME NEW b \in S
          PROVE  bets'[b].payout = IF b \in B THEN f[b] + g[b] ELSE f[b]
      <4>1. CASE b \in settled[l]
        <5>1. b \in B
          BY <4>1 DEF BetsPaid, BetsOf
        <5>2. f[b] = 0 /\ g[b] = bets'[b].payout /\ g[b] \in Nat
          BY <1>3, <2>5, <4>1, <5>1
        <5>3. QED
          BY <5>1, <5>2
      <4>2. CASE b \notin settled[l]
        BY <1>2, <4>2 DEF BetsPaid, BetsOf
      <4>3. QED
        BY <4>1, <4>2
    <3>2. QED
      BY <3>1
  <2>8. /\ \A b \in S : f[b] \in Nat
        /\ \A b \in B : g[b] \in Nat
        /\ \A b \in S : h[b] = IF b \in B THEN f[b] + g[b] ELSE f[b]
    BY <2>4, <2>5, <2>7
  <2>9. f \in [S -> Int] /\ g \in [B -> Int]
    BY <2>8
  <2> HIDE DEF S, B, f, g
  <2>10. h \in [S -> Int]
    BY <2>8
  <2> HIDE DEF h
  <2>11. SumFunctionOnSet(h, S) = SumFunctionOnSet(f, S) + SumFunctionOnSet(g, B)
    BY <2>4, <2>6, <2>8, <2>9, <2>10, SumPlus
  <2>12. QED
    BY <2>2, <2>3, <2>4, <2>5, <2>11
<1>6. QED
  BY <1>1, <1>4, <1>5

-----------------------------------------------------------------------------
(* Balances                                                                *)

\* COMMIT adds to the history what it publishes.
LEMMA CommitHad ==
    ASSUME TypeOK, NEW t \in Tx, CommitUsers(t), NEW u \in User
    PROVE  /\ had'[u] = had[u] \cup {users'[u].balance}
           /\ u \notin locked[t] => users'[u] = users[u]
           /\ u \in locked[t] => users'[u] = wrote[t][u]
           /\ users'[u].balance \in Nat /\ users[u].balance \in Nat
           /\ had[u] \subseteq Nat
<1>1. Seen(t, u) \in UserRow /\ users[u] \in UserRow
  BY SeenType DEF TypeOK
<1>2. users'[u] = Seen(t, u) /\ had'[u] = had[u] \cup {Seen(t, u).balance}
  BY DEF CommitUsers
<1>3. QED
  BY <1>1, <1>2 DEF Seen, TypeOK, UserRow

\* The balances that a bet leaves.
LEMMA InsertBalances ==
    ASSUME LedgerInv, NEW b \in Bet, InsertBet(b)
    PROVE  /\ draft[b] \in BetRow
           /\ \A v \in User : v # draft[b].bettor => users'[v] = users[v]
           /\ \E p \in had[draft[b].bettor] :
                /\ draft[b].stake <= p
                /\ users'[draft[b].bettor].balance
                     \in {users[draft[b].bettor].balance, p - draft[b].stake}
<1>1. TypeOK /\ b \in Tx /\ BetInOrder(b) /\ pc[b] = "insert" /\ CommitUsers(b)
  BY DEF LedgerInv, SettlementInv, ShapeInv, Tx, InOrder, InsertBet
<1>2. draft[b] \in BetRow
  BY <1>1 DEF LedgerInv, SettlementInv, ShapeInv, Shape, Drafted
<1>3. PICK u \in User : u = draft[b].bettor
  BY <1>2, BetTypes
<1>4. PICK p \in had[u] : draft[b].stake <= p /\ entity[b][u].balance = p - draft[b].stake
  BY <1>1, <1>3 DEF BetInOrder, Saving
<1>5. /\ locked[b] \subseteq {u}
      /\ u \in locked[b] => wrote[b][u].balance \in {users[u].balance, entity[b][u].balance}
  BY <1>1, <1>3 DEF BetInOrder, Saving
<1>6. users'[u].balance \in {users[u].balance, p - draft[b].stake}
  BY <1>1, <1>4, <1>5, CommitHad
<1>7. \A v \in User : v # u => users'[v] = users[v]
  BY <1>1, <1>5, CommitHad
<1>8. QED
  BY <1>2, <1>3, <1>4, <1>6, <1>7

\* The balances that a settlement leaves.
LEMMA FinishBalances ==
    ASSUME LedgerInv, NEW l \in Lobby, Commits(l), NEW u \in User
    PROVE  /\ Fair(l, u, users'[u].balance)
           /\ u \notin Concerned(l) => users'[u] = users[u]
<1>1. /\ TypeOK /\ ShapeInv /\ l \in Tx /\ RaceInOrder(l) /\ pc[l] = "bets"
      /\ CommitUsers(l) /\ IsFiniteSet(Placed) /\ users[u].balance \in had[u]
  BY DEF LedgerInv, SettlementInv, ShapeInv, Tx, InOrder, Commits, CommitSettlement, History
<1>2. locked[l] \subseteq Concerned(l) /\ \A v \in locked[l] : Fair(l, v, wrote[l][v].balance)
  BY <1>1 DEF RaceInOrder, Saving
<1>3. Fair(l, u, users[u].balance)
  BY <1>1, HadIsFair
<1>4. QED
  BY <1>1, <1>2, <1>3, CommitHad

LEMMA InsertHistory ==
    ASSUME LedgerInv, NEW b \in Bet, InsertBet(b)
    PROVE  History'
<1>1. /\ TypeOK /\ ShapeInv /\ b \in Tx /\ CommitUsers(b) /\ IsFiniteSet(Placed)
      /\ InitialBalance \in Nat
  BY SettlementDataAssumption
  DEF LedgerInv, SettlementInv, ShapeInv, Tx, InsertBet, History
<1>2. PICK u, s : u = draft[b].bettor /\ s = draft[b].stake
  OBVIOUS
<1>3. PICK p \in had[u] : s <= p /\ users'[u].balance \in {users[u].balance, p - s}
  BY <1>2, InsertBalances
<1>4. u \in User /\ s \in Nat
  BY <1>2, InsertBalances, BetTypes
<1>5. \A v \in User : v # u => users'[v] = users[v]
  BY <1>2, InsertBalances
<1>6. /\ IsFiniteSet(Placed)'
      /\ \A v \in User : /\ StakesOf(v)' = StakesOf(v) + (IF v = u THEN s ELSE 0)
                         /\ PayoutsOf(v)' = PayoutsOf(v)
  BY <1>1, <1>2, InsertSums
<1>7. ASSUME NEW v \in User
      PROVE  users'[v].balance \in had'[v] /\ \A q \in had'[v] : Within(v, q)'
  <2>1. /\ StakesOf(v) \in Nat /\ PayoutsOf(v) \in Nat
        /\ had'[v] = had[v] \cup {users'[v].balance} /\ had[v] \subseteq Nat
        /\ users[v].balance \in had[v] /\ \A q \in had[v] : Within(v, q)
    BY <1>1, BetsOfType, CommitHad DEF LedgerInv, History
  <2>2. \A q \in had[v] : q <= InitialBalance + PayoutsOf(v)'
                          /\ InitialBalance <= q + StakesOf(v)'
    <3>1. SUFFICES ASSUME NEW q \in had[v]
                   PROVE  q <= InitialBalance + PayoutsOf(v)'
                          /\ InitialBalance <= q + StakesOf(v)'
      OBVIOUS
    <3>2. q \in Nat /\ q <= InitialBalance + PayoutsOf(v) /\ InitialBalance <= q + StakesOf(v)
      BY <2>1 DEF Within
    <3>3. QED
      BY <1>1, <1>4, <1>6, <2>1, <3>2
  <2>3. /\ users'[v].balance <= InitialBalance + PayoutsOf(v)'
        /\ InitialBalance <= users'[v].balance + StakesOf(v)'
    <3>1. CASE users'[v].balance \in had[v]
      BY <2>2, <3>1
    <3>2. CASE users'[v].balance \notin had[v]
      <4>1. v = u /\ users'[v].balance = p - s /\ p \in had[v]
        BY <1>3, <1>5, <2>1, <3>2
      <4>2. p \in Nat /\ p <= InitialBalance + PayoutsOf(v) /\ InitialBalance <= p + StakesOf(v)
        BY <2>1, <4>1 DEF Within
      <4>3. StakesOf(v)' = StakesOf(v) + s /\ PayoutsOf(v)' = PayoutsOf(v)
        BY <1>6, <4>1
      <4>4. QED
        BY <1>1, <1>3, <1>4, <2>1, <4>1, <4>2, <4>3
    <3>3. QED
      BY <3>1, <3>2
  <2>4. QED
    BY <2>1, <2>2, <2>3 DEF Within
<1>8. QED
  BY <1>6, <1>7 DEF History

LEMMA FinishHistory ==
    ASSUME LedgerInv, NEW l \in Lobby, Commits(l)
    PROVE  History'
<1>1. /\ TypeOK /\ ShapeInv /\ SettlementInv /\ l \in Tx /\ CommitUsers(l)
      /\ IsFiniteSet(Placed) /\ InitialBalance \in Nat
  BY SettlementDataAssumption
  DEF LedgerInv, SettlementInv, ShapeInv, Tx, Commits, CommitSettlement, History
<1>2. /\ IsFiniteSet(Placed)'
      /\ \A v \in User : /\ StakesOf(v)' = StakesOf(v)
                         /\ PayoutsOf(v)' = PayoutsOf(v) + Paid(l, v)
  BY <1>1, FinishSums
<1>3. ASSUME NEW v \in User
      PROVE  users'[v].balance \in had'[v] /\ \A q \in had'[v] : Within(v, q)'
  <2>1. /\ StakesOf(v) \in Nat /\ PayoutsOf(v) \in Nat /\ Paid(l, v) \in Nat
        /\ had'[v] = had[v] \cup {users'[v].balance} /\ had[v] \subseteq Nat
        /\ users'[v].balance \in Nat
        /\ users[v].balance \in had[v] /\ \A q \in had[v] : Within(v, q)
    BY <1>1, BetsOfType, PaidType, CommitHad DEF LedgerInv, History
  <2>2. PICK p \in had[v] : p <= users'[v].balance /\ users'[v].balance <= p + Paid(l, v)
    BY FinishBalances DEF Fair
  <2>3. ASSUME NEW q \in Nat, Within(v, q), NEW n \in Nat, q <= n, n <= q + Paid(l, v)
        PROVE  n <= InitialBalance + PayoutsOf(v)' /\ InitialBalance <= n + StakesOf(v)'
    <3>1. q <= InitialBalance + PayoutsOf(v) /\ InitialBalance <= q + StakesOf(v)
      BY <2>3 DEF Within
    <3>2. StakesOf(v)' = StakesOf(v) /\ PayoutsOf(v)' = PayoutsOf(v) + Paid(l, v)
      BY <1>2
    <3>3. QED
      BY <1>1, <2>1, <2>3, <3>1, <3>2
  <2>4. \A q \in had'[v] : q <= InitialBalance + PayoutsOf(v)'
                           /\ InitialBalance <= q + StakesOf(v)'
    <3>1. SUFFICES ASSUME NEW q \in had'[v]
                   PROVE  q <= InitialBalance + PayoutsOf(v)'
                          /\ InitialBalance <= q + StakesOf(v)'
      OBVIOUS
    <3>2. CASE q \in had[v]
      <4>1. q \in Nat /\ Within(v, q) /\ q <= q /\ q <= q + Paid(l, v)
        BY <2>1, <3>2
      <4>2. QED
        BY <2>3, <4>1
    <3>3. CASE q = users'[v].balance
      BY <2>1, <2>2, <2>3, <3>3
    <3>4. QED
      BY <2>1, <3>2, <3>3
  <2>5. QED
    BY <2>1, <2>4 DEF Within
<1>4. QED
  BY <1>2, <1>3 DEF History

\* As long as no row changes, the history stays.
LEMMA HistoryKept ==
    ASSUME History, UNCHANGED <<users, bets, had>>
    PROVE  History'
BY DEF History, Within, Placed, StakesOf, PayoutsOf, BetsOf

-----------------------------------------------------------------------------
(* Steps                                                                   *)

LEMMA LedgerInitially == Init => LedgerInv
<1> SUFFICES ASSUME Init PROVE LedgerInv
  OBVIOUS
<1>1. SettlementInv
  BY SettlementInitially
<1>2. Placed = {} /\ \A u \in User : BetsOf(u) = {}
  BY DEF Init, Placed, BetsOf
<1>3. IsFiniteSet(Placed)
  BY <1>2, FS_EmptySet
<1>4. OneLock /\ FoundNotSettled /\ OnPlayers
  BY DEF Init, OneLock, FoundNotSettled, OnPlayers, Tx
<1>5. \A t \in Tx : InOrder(t)
  BY DEF Init, InOrder, BetInOrder, RaceInOrder, Saving
<1>6. ASSUME NEW u \in User
      PROVE  users[u].balance \in had[u] /\ \A p \in had[u] : Within(u, p)
  <2>1. StakesOf(u) = 0 /\ PayoutsOf(u) = 0
    BY <1>2, SumEmpty DEF StakesOf, PayoutsOf, SumFunction
  <2>2. users[u].balance = InitialBalance /\ had[u] = {InitialBalance} /\ InitialBalance \in Nat
    BY SettlementDataAssumption DEF Init, NewUserRow
  <2>3. QED
    BY <2>1, <2>2 DEF Within
<1>7. QED
  BY <1>1, <1>3, <1>4, <1>5, <1>6 DEF LedgerInv, History

\* What one transaction does leaves the others in order.
LEMMA AllInOrder ==
    ASSUME LedgerInv, NEW t \in Tx, \A q \in Tx \ {t} : Undisturbed(q), InOrder(t)',
           \A u \in User : had[u] \subseteq had'[u]
    PROVE  \A q \in Tx : InOrder(q)'
<1>1. ASSUME NEW q \in Tx, q # t
      PROVE  InOrder(q)'
  BY <1>1, StaysInOrder DEF LedgerInv, SettlementInv
<1>2. QED
  BY <1>1

LEMMA SaveKeepsLedger ==
    ASSUME LedgerInv, SettlementInv', OneLock', NEW t \in Tx,
           Abort(t) \/ SelectForSave(t) \/ UpdateUser(t)
    PROVE  LedgerInv'
<1>1. TypeOK /\ ShapeInv /\ InOrder(t) /\ History
  BY DEF LedgerInv, SettlementInv, ShapeInv
<1>2. UNCHANGED <<users, lobbies, bets, had>>
  BY DEF Abort, SelectForSave, UpdateUser, rows
<1>3. InOrder(t)'
  <2>1. CASE Abort(t)
    <3>1. pc'[t] \in {"idle", "revert"}
      BY <1>1, <2>1, EndsType DEF Abort
    <3>2. QED
      BY <3>1, AtRest
  <2>2. CASE SelectForSave(t)
    BY <1>1, <2>2, StepInOrder
  <2>3. CASE UpdateUser(t)
    BY <1>1, <2>3, UpdateInOrder
  <2>4. QED
    BY <2>1, <2>2, <2>3
<1>4. \A q \in Tx \ {t} : Undisturbed(q)
  BY <1>1, SaveUndisturbed
<1>5. \A q \in Tx : InOrder(q)'
  BY <1>2, <1>3, <1>4, AllInOrder
<1>6. FoundNotSettled'
  <2>1. CASE Abort(t)
    BY <1>1, <2>1, EndType DEF LedgerInv, FoundNotSettled, Abort, Ends
  <2>2. CASE UNCHANGED <<found, settled>>
    BY <2>2 DEF LedgerInv, FoundNotSettled
  <2>3. QED
    BY <2>1, <2>2 DEF SelectForSave, UpdateUser
<1>7. OnPlayers'
  <2>1. ASSUME NEW q \in Tx, pc'[q] # "idle"
        PROVE  /\ pc[q] # "idle"
               /\ q \in Bet => draft'[q] = draft[q]
               /\ q \in Lobby => outcome'[q] = outcome[q]
    <3>1. CASE q # t
      BY <1>4, <2>1, <3>1 DEF Undisturbed
    <3>2. CASE q = t
      <4>1. CASE Abort(t)
        BY <1>1, <2>1, <3>2, <4>1, ReturnType DEF Abort, Ends, Goto, TypeOK
      <4>2. CASE SelectForSave(t) \/ UpdateUser(t)
        BY <3>2, <4>2 DEF SelectForSave, UpdateUser
      <4>3. QED
        BY <4>1, <4>2
    <3>3. QED
      BY <3>1, <3>2
  <2>2. QED
    BY <2>1 DEF LedgerInv, OnPlayers, Tx
<1>8. QED
  BY <1>1, <1>2, <1>5, <1>6, <1>7, HistoryKept DEF LedgerInv

LEMMA PlaceKeepsLedger ==
    ASSUME LedgerInv, SettlementInv', OneLock', NEW b \in Bet,
           \/ ReadBettor(b)
           \/ \E l \in Lobby, u \in User, w \in User, s \in Stake : CheckLobby(b, l, u, w, s)
    PROVE  LedgerInv'
<1>1. TypeOK /\ ShapeInv /\ InOrder(b) /\ History /\ b \in Tx /\ b \notin Lobby
  BY SettlementAssumption DEF LedgerInv, SettlementInv, ShapeInv, Tx
<1>2. UNCHANGED <<users, bets, had, found, settled, outcome>>
  BY DEF ReadBettor, CheckLobby, rows
<1>3. InOrder(b)'
  <2>1. CASE ReadBettor(b)
    BY <1>1, <2>1, ReadBettorInOrder
  <2>2. ASSUME NEW l \in Lobby, NEW u \in User, NEW w \in User, NEW s \in Stake,
               CheckLobby(b, l, u, w, s)
        PROVE  InOrder(b)'
    <3>1. pc'[b] = "bettor"
      BY <1>1, <2>2 DEF CheckLobby, Goto, TypeOK
    <3>2. QED
      BY <1>1, <3>1, AtRest
  <2>3. QED
    BY <2>1, <2>2
<1>4. \A q \in Tx \ {b} : Undisturbed(q)
  BY <1>1, PlaceUndisturbed
<1>5. \A q \in Tx : InOrder(q)'
  BY <1>1, <1>2, <1>3, <1>4, AllInOrder
<1>6. OnPlayers'
  <2>1. draft'[b].on \in Players(draft'[b].lobby)
    <3>1. CASE ReadBettor(b)
      BY <3>1 DEF ReadBettor, LedgerInv, OnPlayers
    <3>2. ASSUME NEW l \in Lobby, NEW u \in User, NEW w \in User, NEW s \in Stake,
                 CheckLobby(b, l, u, w, s)
          PROVE  draft'[b].on \in Players(draft'[b].lobby)
      BY <1>1, <3>2 DEF CheckLobby, TypeOK
    <3>3. QED
      BY <3>1, <3>2
  <2>2. \A q \in Tx \ {b} : pc'[q] = pc[q] /\ (q \in Bet => draft'[q] = draft[q])
    BY <1>4 DEF Undisturbed
  <2>3. QED
    BY <1>1, <1>2, <2>1, <2>2 DEF LedgerInv, OnPlayers, Tx
<1>7. QED
  BY <1>1, <1>2, <1>5, <1>6, HistoryKept DEF LedgerInv, FoundNotSettled

LEMMA RaceKeepsLedger ==
    ASSUME LedgerInv, SettlementInv', OneLock', NEW l \in Lobby,
           \/ ReadPlayers(l) \/ FindPending(l) \/ Revert(l)
           \/ \E b \in Bet : SettleBet(l, b)
           \/ \E w \in Result(l) : StartRace(l, w) \/ Reopen(l, w)
    PROVE  LedgerInv'
<1>1. /\ TypeOK /\ ShapeInv /\ InOrder(l) /\ History
      /\ l \in Tx /\ l \notin Bet /\ Racing(l)
  BY SettlementAssumption DEF LedgerInv, SettlementInv, ShapeInv, Tx
<1>2. UNCHANGED <<users, bets, had>>
  BY DEF ReadPlayers, FindPending, Revert, SettleBet, StartRace, Reopen, rows
<1>3. InOrder(l)'
  <2>1. CASE ReadPlayers(l)
    BY <1>1, <2>1, ReadPlayersInOrder
  <2>2. CASE FindPending(l)
    BY <1>1, <2>2, StepInOrder
  <2>3. CASE Revert(l) \/ \E w \in Result(l) : StartRace(l, w) \/ Reopen(l, w)
    <3>1. pc'[l] \in {"idle", "players"}
      BY <1>1, <2>3 DEF Revert, StartRace, Reopen, Return, Goto, TypeOK
    <3>2. QED
      BY <1>1, <3>1, AtRest
  <2>4. CASE \E b \in Bet : SettleBet(l, b)
    <3>1. found[l] \cap settled[l] = {}
      BY DEF LedgerInv, FoundNotSettled
    <3>2. QED
      BY <1>1, <2>4, <3>1, SettleBetInOrder
  <2>5. QED
    BY <2>1, <2>2, <2>3, <2>4
<1>4. \A q \in Tx \ {l} : Undisturbed(q)
  BY <1>1, RaceUndisturbed
<1>5. \A q \in Tx : InOrder(q)'
  BY <1>1, <1>2, <1>3, <1>4, AllInOrder
<1>6. FoundNotSettled'
  <2>1. CASE UNCHANGED <<found, settled>>
    BY <2>1 DEF LedgerInv, FoundNotSettled
  <2>2. CASE FindPending(l)
    <3>1. /\ settled[l] = {} /\ settled' = settled
          /\ \A k \in Lobby \ {l} : found'[k] = found[k]
      BY <1>1, <2>2 DEF Racing, FindPending, TypeOK
    <3>2. QED
      BY <3>1 DEF LedgerInv, FoundNotSettled
  <2>3. CASE \E b \in Bet : SettleBet(l, b)
    BY <1>1, <2>3 DEF LedgerInv, FoundNotSettled, SettleBet, TypeOK
  <2>4. QED
    BY <2>1, <2>2, <2>3 DEF ReadPlayers, Revert, StartRace, Reopen
<1>7. OnPlayers'
  <2>1. \A b \in Bet : pc'[b] = pc[b] /\ draft'[b] = draft[b]
    BY <1>1, <1>4 DEF Undisturbed, Tx
  <2>2. \A k \in Lobby \ {l} : pc'[k] = pc[k] /\ outcome'[k] = outcome[k]
    BY <1>4 DEF Undisturbed, Tx
  <2>3. pc'[l] # "idle" => outcome'[l] \in Result(l)
    <3>1. CASE Revert(l)
      BY <1>1, <3>1 DEF Revert, Return, Goto, TypeOK
    <3>2. CASE \E w \in Result(l) : StartRace(l, w)
      BY <1>1, <3>2 DEF StartRace, TypeOK
    <3>3. CASE ReadPlayers(l) \/ FindPending(l) \/ \E b \in Bet : SettleBet(l, b)
      <4>1. pc[l] # "idle" /\ outcome' = outcome
        BY <3>3 DEF ReadPlayers, FindPending, SettleBet
      <4>2. QED
        BY <4>1 DEF LedgerInv, OnPlayers
    <3>4. CASE \E w \in Result(l) : Reopen(l, w)
      BY <3>4 DEF Reopen
    <3>5. QED
      BY <3>1, <3>2, <3>3, <3>4
  <2>4. QED
    BY <2>1, <2>2, <2>3 DEF LedgerInv, OnPlayers
<1>8. QED
  BY <1>1, <1>2, <1>5, <1>6, <1>7, HistoryKept DEF LedgerInv

LEMMA CommitKeepsLedger ==
    ASSUME LedgerInv, SettlementInv', OneLock', NEW t \in Tx,
           \/ t \in Bet /\ InsertBet(t)
           \/ t \in Lobby /\ Commits(t)
    PROVE  LedgerInv'
<1>1. TypeOK /\ ShapeInv /\ OneLock
  BY DEF LedgerInv, SettlementInv, ShapeInv
<1>2. CommitUsers(t) /\ Ends(t) /\ EndTransaction(t)
  BY DEF InsertBet, Commits, CommitSettlement, Ends
<1>3. pc'[t] = "idle" \/ (t \in Lobby /\ pc'[t] = "revert")
  BY <1>1, <1>2, EndsType
<1>4. InOrder(t)'
  BY <1>3, AtRest
<1>5. \A q \in Tx \ {t} : Undisturbed(q)
  BY <1>1, CommitUndisturbed
<1>6. \A u \in User : had[u] \subseteq had'[u]
  BY <1>2 DEF CommitUsers
<1>7. \A q \in Tx : InOrder(q)'
  BY <1>4, <1>5, <1>6, AllInOrder
<1>8. FoundNotSettled'
  BY <1>1, <1>2, EndType DEF LedgerInv, FoundNotSettled
<1>9. OnPlayers'
  <2>1. \A b \in Bet : pc'[b] # "idle" => b # t
    BY <1>3, SettlementAssumption
  <2>2. ASSUME NEW l \in Lobby, pc'[l] # "idle"
        PROVE  pc[l] # "idle" /\ outcome'[l] = outcome[l]
    <3>1. CASE l = t
      <4>1. pc[t] = "bets"
        BY <3>1, SettlementAssumption DEF Commits, CommitSettlement
      <4>2. outcome' = outcome
        BY <1>1, <1>2, <2>2, <3>1 DEF Ends, Return, Goto, TypeOK
      <4>3. QED
        BY <3>1, <4>1, <4>2
    <3>2. CASE l # t
      BY <1>5, <2>2, <3>2 DEF Undisturbed, Tx
    <3>3. QED
      BY <3>1, <3>2
  <2>3. QED
    BY <1>5, <2>1, <2>2 DEF LedgerInv, OnPlayers, Undisturbed, Tx
<1>10. History'
  BY InsertHistory, FinishHistory
<1>11. QED
  BY <1>7, <1>8, <1>9, <1>10 DEF LedgerInv

LEMMA LedgerStep == LedgerInv /\ [Next]_vars => LedgerInv'
<1> SUFFICES ASSUME LedgerInv, [Next]_vars
             PROVE  LedgerInv'
  OBVIOUS
<1>1. ShapeInv /\ SettlementInv /\ SettlementInv' /\ OneLock'
  BY SettlementStep, LocksStep DEF LedgerInv, SettlementInv
<1>2. CASE UNCHANGED vars
  <2>1. UNCHANGED <<users, bets, had, pc, draft, outcome, entity, unsaved, locked, wrote,
                    found, settled>>
    BY <1>2 DEF vars
  <2>2. \A t \in Tx : Undisturbed(t)
    BY <2>1 DEF Undisturbed
  <2>3. \A t \in Tx : InOrder(t)'
    BY <1>1, <2>1, <2>2, StaysInOrder DEF LedgerInv
  <2>4. QED
    BY <1>1, <2>1, <2>3, HistoryKept DEF LedgerInv, FoundNotSettled, OnPlayers
<1>3. CASE \E t \in Tx : Abort(t) \/ SelectForSave(t) \/ UpdateUser(t)
  BY <1>1, <1>3, SaveKeepsLedger
<1>4. CASE \/ \E b \in Bet : ReadBettor(b)
           \/ \E b \in Bet, l \in Lobby, u \in User, w \in User, s \in Stake :
                CheckLobby(b, l, u, w, s)
  BY <1>1, <1>4, PlaceKeepsLedger
<1>5. CASE \E l \in Lobby : \/ ReadPlayers(l) \/ FindPending(l) \/ Revert(l)
                            \/ \E b \in Bet : SettleBet(l, b)
                            \/ \E w \in Result(l) : StartRace(l, w) \/ Reopen(l, w)
  BY <1>1, <1>5, RaceKeepsLedger
<1>6. CASE (\E b \in Bet : InsertBet(b)) \/ (\E l \in Lobby : Commits(l))
  BY <1>1, <1>6, CommitKeepsLedger DEF Tx
<1>7. QED
  BY <1>1, <1>2, <1>3, <1>4, <1>5, <1>6, StepCases

\* The inductive invariant: what every open transaction has in memory and in
\* the rows it holds derives from balances that its users have had.
THEOREM LedgerInvariant == Spec => []LedgerInv
BY LedgerInitially, LedgerStep, PTL DEF Spec

\* Saves of stale users overwrite a stake or a payout, but no stake is charged
\* and no payout paid twice: a balance is at most the initial one and all the
\* payouts, at least the initial one less all the stakes, whatever deadlocks,
\* fails, loses its acknowledgement, is reverted or raced again.
THEOREM BalancesStayWithin == Spec => []BalanceWithin
<1>1. LedgerInv => BalanceWithin
  BY DEF LedgerInv, History, Within, BalanceWithin
<1>2. QED
  BY <1>1, LedgerInvariant, PTL

-----------------------------------------------------------------------------
(* Settlement implements LedgerPromise                                     *)

LEMMA SameSums ==
    ASSUME NEW f
    PROVE  Promise!SumFunction(f) = SumFunction(f)
BY DEF Promise!SumFunction, Promise!SumFunctionOnSet, Promise!FoldFunctionOnSet,
       Promise!MapThenFoldSet, SumFunction, SumFunctionOnSet, FoldFunctionOnSet, MapThenFoldSet

\* What a user has, as the promise sees it.
Account == [u \in User |-> users[u].balance]

LEMMA CommitRemembers ==
    ASSUME TypeOK, NEW t \in Tx, CommitUsers(t)
    PROVE  had' = [u \in User |-> had[u] \cup {Account'[u]}]
BY DEF CommitUsers, Account

LEMMA InsertPlaces ==
    ASSUME LedgerInv, NEW b \in Bet, InsertBet(b)
    PROVE  Promise!LedgerNext
<1>1. TypeOK /\ b \in Tx
  BY DEF LedgerInv, SettlementInv, ShapeInv, Tx
<1>2. /\ pc[b] = "insert" /\ CommitUsers(b) /\ lobbies' = lobbies
      /\ bets' = [bets EXCEPT ![b] = draft[b]]
  BY DEF InsertBet
<1>3. Drafted(b) /\ draft[b].on \in Players(draft[b].lobby)
  BY <1>1, <1>2 DEF LedgerInv, OnPlayers, SettlementInv, ShapeInv, Shape
<1>4. PICK l \in Lobby, u \in User, w \in User, s \in Stake :
        /\ w \in Players(l)
        /\ draft[b] = [lobby |-> l, bettor |-> u, on |-> w, stake |-> s,
                       status |-> "pending", payout |-> 0]
  BY <1>3 DEF Drafted, BetRow
<1>5. draft[b].bettor = u /\ draft[b].stake = s
  BY <1>4
<1>6. PICK p \in had[u] : s <= p /\ users'[u].balance \in {users[u].balance, p - s}
  BY <1>5, InsertBalances
<1>7. \A v \in User : v # u => users'[v] = users[v]
  BY <1>5, InsertBalances
<1>8. Account' = [Account EXCEPT ![u] = p - s] \/ Account' = Account
  BY <1>6, <1>7 DEF Account
<1>9. had' = [v \in User |-> had[v] \cup {Account'[v]}]
  BY <1>1, <1>2, CommitRemembers
<1>10. Promise!PlaceBet(b, l, u, w, s)
  BY <1>2, <1>3, <1>4, <1>6, <1>8, <1>9
  DEF Promise!PlaceBet, Promise!Remembered, Account, Drafted
<1>11. QED
  BY <1>4, <1>10 DEF Promise!LedgerNext, Promise!Players, Players

LEMMA FinishSettles ==
    ASSUME LedgerInv, NEW l \in Lobby, Commits(l)
    PROVE  Promise!LedgerNext
<1>1. /\ TypeOK /\ ShapeInv /\ Racing(l) /\ l \in Tx /\ pc[l] = "bets"
      /\ outcome[l] \in Result(l) /\ lobbies[l].status = "simulating"
  BY DEF LedgerInv, OnPlayers, SettlementInv, ShapeInv, Tx, Racing, Commits, CommitSettlement
<1>2. /\ CommitUsers(l)
      /\ bets' = [b \in Bet |->
                    IF b \in settled[l] THEN SettledBet(bets[b], outcome[l]) ELSE bets[b]]
      /\ lobbies' = [lobbies EXCEPT ![l] = [status |-> "finished", winner |-> outcome[l]]]
  BY DEF Commits, CommitSettlement
<1>3. settled[l] \in SUBSET Promise!PendingOn(l)
  BY <1>1 DEF ShapeInv, Shape, TypeOK, IsPendingOn, Promise!PendingOn
<1>4. outcome[l] \in Promise!Result(l)
  BY <1>1 DEF Promise!Result, Promise!Players, Result, Players
<1>5. PICK w \in Promise!Result(l), B \in SUBSET Promise!PendingOn(l) :
        w = outcome[l] /\ B = settled[l]
  BY <1>3, <1>4
<1>6. \A b \in Bet : /\ Promise!SettledBet(bets[b], w) = SettledBet(bets[b], w)
                    /\ Promise!Payout(bets[b], w) = Payout(bets[b], w)
  <2>1. ASSUME NEW b \in Bet
        PROVE  Promise!BetOutcome(bets[b], w) = BetOutcome(bets[b], w)
    BY DEF Promise!BetOutcome, BetOutcome
  <2>2. ASSUME NEW b \in Bet
        PROVE  Promise!Payout(bets[b], w) = Payout(bets[b], w)
    BY <2>1 DEF Promise!Payout, Payout
  <2>3. QED
    BY <2>1, <2>2 DEF Promise!SettledBet, SettledBet
<1> DEFINE PaidTo(u) == Promise!SumFunction([b \in {c \in B : bets[c].bettor = u} |->
                                               Promise!Payout(bets[b], w)])
           Touched == Promise!Players(l) \cup {bets[b].bettor : b \in B}
<1>7. \A u \in User : PaidTo(u) = Paid(l, u)
  <2>1. B \in SUBSET Bet
    BY <1>5 DEF Promise!PendingOn
  <2>2. ASSUME NEW u \in User
        PROVE  [b \in {c \in B : bets[c].bettor = u} |-> Promise!Payout(bets[b], w)]
               = [b \in BetsPaid(l, u) |-> Payout(bets[b], outcome[l])]
    BY <1>5, <1>6, <2>1 DEF BetsPaid
  <2>3. QED
    BY <2>2, SameSums DEF Paid
<1>8. Touched = Concerned(l)
  BY <1>5 DEF Concerned, Promise!Players, Players
<1>9. \A u \in User :
        IF u \in Touched
        THEN \E p \in had[u] : p <= Account'[u] /\ Account'[u] <= p + PaidTo(u)
        ELSE Account'[u] = Account[u]
  <2>1. ASSUME NEW u \in User
        PROVE  IF u \in Touched
               THEN \E p \in had[u] : p <= Account'[u] /\ Account'[u] <= p + PaidTo(u)
               ELSE Account'[u] = Account[u]
    <3>1. Fair(l, u, users'[u].balance) /\ (u \notin Concerned(l) => users'[u] = users[u])
      BY FinishBalances
    <3>2. Account'[u] = users'[u].balance /\ Account[u] = users[u].balance
      BY DEF Account
    <3>3. \E p \in had[u] : p <= Account'[u] /\ Account'[u] <= p + PaidTo(u)
      BY <1>7, <3>1, <3>2 DEF Fair
    <3>4. u \notin Touched => Account'[u] = Account[u]
      BY <1>8, <3>1, <3>2
    <3>5. QED
      BY <3>3, <3>4
  <2>2. QED
    BY <2>1
<1>10. had' = [u \in User |-> had[u] \cup {Account'[u]}]
  BY <1>1, <1>2, CommitRemembers
<1>11. /\ bets' = [b \in Bet |-> IF b \in B THEN Promise!SettledBet(bets[b], w) ELSE bets[b]]
       /\ lobbies' = [lobbies EXCEPT ![l] = [status |-> "finished", winner |-> w]]
  BY <1>2, <1>5, <1>6
<1>12. Promise!SettleBattle(l, w, B)
  BY <1>1, <1>9, <1>10, <1>11, Zenon
  DEF Promise!SettleBattle, Promise!Remembered, Account
<1>13. QED
  BY <1>5, <1>12 DEF Promise!LedgerNext

LEMMA PromiseStep ==
    LedgerInv /\ [Next]_vars => [Promise!LedgerNext]_<<Account, had, lobbies, bets>>
<1> SUFFICES ASSUME LedgerInv, [Next]_vars
             PROVE  [Promise!LedgerNext]_<<Account, had, lobbies, bets>>
  OBVIOUS
<1>1. TypeOK /\ ShapeInv /\ \A l \in Lobby : Racing(l)
  BY DEF LedgerInv, SettlementInv, ShapeInv
<1>2. CASE UNCHANGED <<users, had, lobbies, bets>>
  BY <1>2 DEF Account
<1>3. CASE \E b \in Bet : InsertBet(b)
  BY <1>3, InsertPlaces
<1>4. CASE \E l \in Lobby : Commits(l)
  BY <1>4, FinishSettles
<1>5. ASSUME NEW l \in Lobby, NEW w \in User \cup {NoUser},
             lobbies[l].status # "configuring", UNCHANGED <<users, had, bets>>,
             lobbies' = [lobbies EXCEPT ![l] = [status |-> "configuring", winner |-> w]]
      PROVE  Promise!LedgerNext
  <2>1. Promise!ReopenBattle(l, w)
    BY <1>5 DEF Promise!ReopenBattle
  <2>2. QED
    BY <2>1 DEF Promise!LedgerNext
<1>6. ASSUME NEW l \in Lobby, Revert(l)
      PROVE  Promise!LedgerNext
  <2>1. /\ lobbies[l].status # "configuring" /\ UNCHANGED <<users, had, bets>>
        /\ lobbies' = [lobbies EXCEPT ![l].status = "configuring"]
    BY <1>1, <1>6 DEF Revert, Racing
  <2>2. lobbies[l] \in LobbyRow
    BY <1>1 DEF TypeOK
  <2>3. lobbies[l].winner \in User \cup {NoUser}
        /\ [lobbies[l] EXCEPT !.status = "configuring"]
             = [status |-> "configuring", winner |-> lobbies[l].winner]
    BY <2>2 DEF LobbyRow
  <2>4. lobbies' = [lobbies EXCEPT ![l] = [status |-> "configuring",
                                           winner |-> lobbies[l].winner]]
    BY <2>1, <2>3
  <2>5. QED
    BY <1>5, <2>1, <2>3, <2>4
<1>7. ASSUME NEW l \in Lobby, NEW w \in Result(l), Reopen(l, w)
      PROVE  Promise!LedgerNext
  <2>1. w \in User \cup {NoUser}
    BY SettlementDataAssumption DEF Result, Players
  <2>2. QED
    BY <1>5, <1>7, <2>1 DEF Reopen
<1>8. ASSUME NEW l \in Lobby, NEW w \in Result(l), StartRace(l, w)
      PROVE  Promise!LedgerNext
  <2>1. /\ lobbies[l].status = "configuring" /\ UNCHANGED <<users, had, bets>>
        /\ lobbies' = [lobbies EXCEPT ![l].status = "simulating"]
    BY <1>8 DEF StartRace
  <2>2. Promise!StartBattle(l)
    BY <2>1 DEF Promise!StartBattle
  <2>3. QED
    BY <2>2 DEF Promise!LedgerNext
<1>9. CASE \/ UNCHANGED vars
           \/ \E t \in Tx : Abort(t) \/ SelectForSave(t) \/ UpdateUser(t)
           \/ \E b \in Bet : ReadBettor(b)
           \/ \E b \in Bet, l \in Lobby, u \in User, w \in User, s \in Stake :
                CheckLobby(b, l, u, w, s)
           \/ \E l \in Lobby : ReadPlayers(l) \/ FindPending(l)
           \/ \E l \in Lobby, b \in Bet : SettleBet(l, b)
  <2>1. UNCHANGED <<users, had, lobbies, bets>>
    BY <1>9
    DEF vars, rows, Abort, SelectForSave, UpdateUser, ReadBettor, CheckLobby, ReadPlayers,
        FindPending, SettleBet
  <2>2. QED
    BY <1>2, <2>1
<1>10. QED
  BY <1>1, <1>3, <1>4, <1>6, <1>7, <1>8, <1>9, StepCases

\* Each bet and each settlement happens at one moment to everybody it touches:
\* the stake leaves a balance that the bettor has had and that covers it as the
\* bet appears, the lobby's result, the bets and what they pay change together,
\* or nothing does; a lobby that is reverted or reopened takes nothing back.
THEOREM LedgerPromiseKept == Spec => KeepsLedgerPromise
<1>1. Init => Promise!LedgerInit
  BY DEF Init, Promise!LedgerInit, NewUserRow, Promise!NewLobbyRow, NewLobbyRow
<1>2. LedgerInv /\ [Next]_vars => [Promise!LedgerNext]_Promise!ledgerVars
  <2>1. Promise!ledgerVars = <<Account, had, lobbies, bets>>
        /\ Promise!ledgerVars' = <<Account, had, lobbies, bets>>'
    BY DEF Promise!ledgerVars, Account
  <2>2. QED
    BY <2>1, PromiseStep
<1>3. QED
  BY <1>1, <1>2, LedgerInvariant, PTL DEF Spec, KeepsLedgerPromise, Promise!LedgerSpec
=============================================================================
