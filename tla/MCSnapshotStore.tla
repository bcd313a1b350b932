-------------------------- MODULE MCSnapshotStore --------------------------
(* The server, whose writes overlap, and one worker; two trials of which   *)
(* one is pinned, in a history of one.                                     *)
EXTENDS SnapshotStore, TLC

CONSTANTS server, worker

MCOverlap == [b \in Backends |->
  IF b = "dual" THEN (server :> 2) @@ (worker :> 0) ELSE (server :> 1) @@ (worker :> 1)]
MCEvents == [b \in Backends |-> IF b = "dual" THEN 2 ELSE 3]
=============================================================================
