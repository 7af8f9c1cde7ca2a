------------------------------ MODULE MCLobby -------------------------------
(***************************************************************************)
(* Small instances of Lobby for TLC.                                       *)
(***************************************************************************)
EXTENDS Lobby, TLC

Guests == User \ {Host}

\* Requests are interchangeable, and so are the users who may join.
RequestAndGuestSymmetry == Permutations(Request) \cup Permutations(Guests)
=============================================================================
