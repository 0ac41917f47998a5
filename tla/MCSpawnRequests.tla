-------------------------- MODULE MCSpawnRequests --------------------------
(* Model-checking instance of SpawnRequests.                               *)
EXTENDS SpawnRequests
=============================================================================
