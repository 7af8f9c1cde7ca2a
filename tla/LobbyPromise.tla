---------------------------- MODULE LobbyPromise ----------------------------
(***************************************************************************)
(* What a lobby promises its two players, with no word of requests, rows   *)
(* or saves: the seat of the opponent is taken once and for good, what a   *)
(* player submits is what races, a race that fails may be run again, and a *)
(* finished lobby keeps its one result.                                    *)
(*                                                                         *)
(* Lobby.tla is the detailed specification; it implements this one until a *)
(* stale save or a lost acknowledgement disturbs it (KeepsPromise there).  *)
(***************************************************************************)
EXTENDS LobbyData

VARIABLES
    phase,      \* a LobbyStatus
    player,     \* who took the opponent's seat
    choice,     \* choice[s]: where the configuration of seat s comes from
    result      \* the configurations that raced, NotRaced before that

promiseVars == <<phase, player, choice, result>>

PromiseInit ==
    /\ phase = "waiting"
    /\ player = NoUser
    /\ choice = [s \in Seat |-> NoConfig]
    /\ result = NotRaced

\* Somebody other than the host takes the free seat.
TakeSeat(u) ==
    /\ phase = "waiting"
    /\ player = NoUser
    /\ u # Host
    /\ phase' = "configuring"
    /\ player' = u
    /\ UNCHANGED <<choice, result>>

\* A player's own configuration replaces whatever was there.
Submit(s) ==
    /\ phase = "configuring"
    /\ choice' = [choice EXCEPT ![s] = "player"]
    /\ UNCHANGED <<phase, player, result>>

\* The AI fills the seats that are still empty, and only those.
FillEmptySeats ==
    /\ phase = "configuring"
    /\ choice' = [s \in Seat |-> IF choice[s] = NoConfig THEN "ai" ELSE choice[s]]
    /\ UNCHANGED <<phase, player, result>>

Race ==
    /\ phase = "configuring"
    /\ \A s \in Seat : choice[s] # NoConfig
    /\ phase' = "simulating"
    /\ UNCHANGED <<player, choice, result>>

GiveUpRace ==
    /\ phase = "simulating"
    /\ phase' = "configuring"
    /\ UNCHANGED <<player, choice, result>>

Finish ==
    /\ phase = "simulating"
    /\ phase' = "finished"
    /\ result' = choice
    /\ UNCHANGED <<player, choice>>

PromiseNext ==
    \/ \E u \in User : TakeSeat(u)
    \/ \E s \in Seat : Submit(s)
    \/ FillEmptySeats
    \/ Race
    \/ GiveUpRace
    \/ Finish

PromiseSpec == PromiseInit /\ [][PromiseNext]_promiseVars
=============================================================================
