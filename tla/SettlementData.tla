--------------------------- MODULE SettlementData ---------------------------
(***************************************************************************)
(* The rows that a settlement and a bet read and write: users (balance and *)
(* race counters), lobbies (status and winner) and bets.                   *)
(***************************************************************************)
EXTENDS Naturals, FiniteSetsExt

CONSTANTS
    User, NoUser,       \* NoUser: a draw
    Lobby,
    Host, Opponent,     \* Host[l], Opponent[l]: the two players of lobby l
    Bet, NoBet,         \* bet slots: each holds one bet at most, NoBet before that
    Stake,              \* the stakes bettors try
    InitialBalance

ASSUME SettlementDataAssumption ==
    /\ NoUser \notin User
    /\ Host \in [Lobby -> User]
    /\ Opponent \in [Lobby -> User]
    /\ \A l \in Lobby : Host[l] # Opponent[l]
    /\ Stake \subseteq Nat \ {0}
    /\ InitialBalance \in Nat

Players(l) == {Host[l], Opponent[l]}
Result(l) == Players(l) \cup {NoUser}

\* races stands for rating, wins, losses, draws and racesCompleted, which
\* RatingService writes together.  The version column is left out: save()
\* increments it, and nothing ever compares it.
UserRow == [balance : Nat, races : Nat]
NewUserRow == [balance |-> InitialBalance, races |-> 0]

LobbyRow == [status : {"configuring", "simulating", "finished"}, winner : User \cup {NoUser}]
NewLobbyRow == [status |-> "configuring", winner |-> NoUser]

BetStatus == {"pending", "won", "lost", "refunded"}
BetRow == [lobby : Lobby, bettor : User, on : User, stake : Stake,
           status : BetStatus, payout : Nat]

ASSUME NoBetAssumption == NoBet \notin BetRow

-----------------------------------------------------------------------------
(* settleBetsInTransaction: what a bet becomes when w wins (NoUser: draw)  *)

BetOutcome(bet, w) ==
    IF w = NoUser THEN "refunded" ELSE IF bet.on = w THEN "won" ELSE "lost"

\* Mutant: a bet on the other player is refunded too.
PayoutOrRefund(bet, w) == IF w # NoUser /\ bet.on = w THEN 2 * bet.stake ELSE bet.stake

Payout(bet, w) ==
    CASE BetOutcome(bet, w) = "refunded" -> bet.stake
      [] BetOutcome(bet, w) = "won" -> 2 * bet.stake
      [] BetOutcome(bet, w) = "lost" -> 0

SettledBet(bet, w) ==
    [bet EXCEPT !.status = BetOutcome(bet, w), !.payout = Payout(bet, w)]
=============================================================================
