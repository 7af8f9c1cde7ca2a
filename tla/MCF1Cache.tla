------------------------------ MODULE MCF1Cache ------------------------------
(***************************************************************************)
(* Small instance of F1Cache: two processes, each serving a request.       *)
(***************************************************************************)
EXTENDS F1Cache, TLC

CONSTANTS p1, p2, r1, r2

MCHome == r1 :> p1 @@ r2 :> p2
=============================================================================
