--------------------------- MODULE LedgerPromise ----------------------------
(***************************************************************************)
(* What betting and settlement promise, with no word of reads, saves and   *)
(* locks: each bet and each settlement happens at one moment, to everybody *)
(* it touches.  It acts on a balance that its user has had, and not always *)
(* on the present one: save() writes what was read before.                 *)
(***************************************************************************)
EXTENDS SettlementData

VARIABLES
    account,    \* account[u]: the balance of user u
    past,       \* past[u]: the balances that u has had
    battle,     \* battle[l]: status and winner of lobby l
    slip        \* slip[b]: the bet in slot b, or NoBet

ledgerVars == <<account, past, battle, slip>>

LedgerInit ==
    /\ account = [u \in User |-> InitialBalance]
    /\ past = [u \in User |-> {InitialBalance}]
    /\ battle = [l \in Lobby |-> NewLobbyRow]
    /\ slip = [b \in Bet |-> NoBet]

StartBattle(l) ==
    /\ battle[l].status = "configuring"
    /\ battle' = [battle EXCEPT ![l].status = "simulating"]
    /\ UNCHANGED <<account, past, slip>>

\* A race that fails, a settlement whose acknowledgement is lost, a stale save
\* of the lobby: no bet and no balance is undone.
ReopenBattle(l, w) ==
    /\ battle[l].status # "configuring"
    /\ battle' = [battle EXCEPT ![l] = [status |-> "configuring", winner |-> w]]
    /\ UNCHANGED <<account, past, slip>>

Remembered == past' = [u \in User |-> past[u] \cup {account'[u]}]

\* The stake leaves a balance that covers it, or nothing does, as the bet appears.
PlaceBet(b, l, u, w, s) ==
    /\ slip[b] = NoBet
    /\ \E p \in past[u] :
        /\ s <= p
        /\ \/ account' = [account EXCEPT ![u] = p - s]
           \/ UNCHANGED account
    /\ Remembered
    /\ slip' = [slip EXCEPT ![b] = [lobby |-> l, bettor |-> u, on |-> w, stake |-> s,
                                    status |-> "pending", payout |-> 0]]
    /\ UNCHANGED battle

PendingOn(l) == {b \in Bet : slip[b] # NoBet /\ slip[b].lobby = l /\ slip[b].status = "pending"}

\* The lobby gets its winner, and a set B of the pending bets is settled.
\* Whoever plays or bets has afterwards a balance that he has had before, and
\* of what his bets pay no more than once.
SettleBattle(l, w, B) ==
    LET Paid(u) == SumFunction([b \in {c \in B : slip[c].bettor = u} |-> Payout(slip[b], w)])
        Concerned == Players(l) \cup {slip[b].bettor : b \in B}
    IN  /\ battle[l].status = "simulating"
        /\ battle' = [battle EXCEPT ![l] = [status |-> "finished", winner |-> w]]
        /\ \A u \in User :
            IF u \in Concerned
            THEN \E p \in past[u] : p <= account'[u] /\ account'[u] <= p + Paid(u)
            ELSE account'[u] = account[u]
        /\ Remembered
        /\ slip' = [b \in Bet |-> IF b \in B THEN SettledBet(slip[b], w) ELSE slip[b]]

LedgerNext ==
    \/ \E l \in Lobby : StartBattle(l)
    \/ \E l \in Lobby, w \in User \cup {NoUser} : ReopenBattle(l, w)
    \/ \E b \in Bet, l \in Lobby, u \in User, s \in Stake :
        \E w \in Players(l) : PlaceBet(b, l, u, w, s)
    \/ \E l \in Lobby : \E w \in Result(l), B \in SUBSET PendingOn(l) : SettleBattle(l, w, B)

LedgerSpec == LedgerInit /\ [][LedgerNext]_ledgerVars
=============================================================================
