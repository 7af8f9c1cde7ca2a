----------------------------- MODULE LobbyData ------------------------------
(***************************************************************************)
(* The row of the lobbies table (lobby.entity.ts) as far as its lifecycle  *)
(* tells values apart, and what TypeORM's save() makes of it.              *)
(***************************************************************************)
CONSTANTS
    User,       \* the users of the service
    Host,       \* the user who created the lobby
    NoUser      \* SQL NULL in opponentUserId

ASSUME UserAssumption == Host \in User /\ NoUser \notin User

Seat == {"host", "opponent"}

\* LobbyStatus has READY and CANCELLED too; no code path sets either.
Status == {"waiting", "configuring", "simulating", "finished"}

\* A PlayerConfig, known by who made it: SQL NULL, the player, or AIService.
NoConfig == "none"
Config == {NoConfig, "player", "ai"}

NotRaced == [s \in Seat |-> NoConfig]
Raced == {NotRaced} \cup [Seat -> Config \ {NoConfig}]

\* config and ready stand for the columns hostConfig, opponentConfig,
\* hostReady and opponentReady; raced for simulationResult and winnerUserId,
\* known by the two configurations that were simulated.
Row == [status   : Status,
        opponent : User \cup {NoUser},
        config   : [Seat -> Config],
        ready    : [Seat -> BOOLEAN],
        raced    : Raced]

\* The row LobbyService.create inserts.
NewRow == [status   |-> "waiting",
           opponent |-> NoUser,
           config   |-> [s \in Seat |-> NoConfig],
           ready    |-> [s \in Seat |-> FALSE],
           raced    |-> NotRaced]

-----------------------------------------------------------------------------
(***************************************************************************)
(* repository.save(entity) (TypeORM, external) is two statements: a SELECT *)
(* of the row as it is now (selected), then an UPDATE of those columns in  *)
(* which the entity differs from it.  A column that does not differ is     *)
(* left as it is when the UPDATE runs (current).                           *)
(***************************************************************************)
SavedColumn(current, selected, entity) ==
    IF entity = selected THEN current ELSE entity

SavedRow(current, selected, entity) ==
    [status   |-> SavedColumn(current.status, selected.status, entity.status),
     opponent |-> SavedColumn(current.opponent, selected.opponent, entity.opponent),
     config   |-> [s \in Seat |->
                     SavedColumn(current.config[s], selected.config[s], entity.config[s])],
     ready    |-> [s \in Seat |->
                     SavedColumn(current.ready[s], selected.ready[s], entity.ready[s])],
     raced    |-> SavedColumn(current.raced, selected.raced, entity.raced)]

-----------------------------------------------------------------------------
BothReady(lobby) == \A s \in Seat : lobby.ready[s]
BothConfigured(lobby) == \A s \in Seat : lobby.config[s] # NoConfig

IsMember(u, lobby) == u = Host \/ u = lobby.opponent
SeatOf(u) == IF u = Host THEN "host" ELSE "opponent"

\* submitConfig writes the caller's two columns on the entity it read.
SubmitEntity(lobby, u) ==
    [lobby EXCEPT !.config[SeatOf(u)] = "player", !.ready[SeatOf(u)] = TRUE]

\* Mutant: the AI fills every seat.
AutoFillAllEntity(lobby) ==
    [lobby EXCEPT !.config = [s \in Seat |-> "ai"], !.ready = [s \in Seat |-> TRUE]]

\* checkAndAutoStartInternal fills the missing configurations.  It goes this
\* far only when both are ready or the deadline has passed, and in the second
\* case it sets both flags, so either way the entity has both.
AutoFillEntity(lobby) ==
    [lobby EXCEPT
        !.config = [s \in Seat |->
                      IF lobby.config[s] = NoConfig THEN "ai" ELSE lobby.config[s]],
        !.ready = [s \in Seat |-> TRUE]]
=============================================================================
