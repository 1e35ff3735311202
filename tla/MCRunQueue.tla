----------------------------- MODULE MCRunQueue -----------------------------
(* RunQueueLoop with four runs in three workspaces and two profiles. *)
EXTENDS RunQueueLoop, TLC

CONSTANTS r1, r2, r3, r4, w1, w2, w3, p1, p2

MCWorkspaceOf == r1 :> w1 @@ r2 :> w1 @@ r3 :> w2 @@ r4 :> w3
MCProfileOf == r1 :> p1 @@ r2 :> p1 @@ r3 :> p2 @@ r4 :> p2
MCProfileConcurrency == p1 :> 2 @@ p2 :> 1
=============================================================================
