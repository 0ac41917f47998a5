---------------------------- MODULE MCChunkStore ----------------------------
(* Model-checking instance of ChunkStore.                                  *)
EXTENDS ChunkStore, TLC

Symmetry == Permutations(Sockets)

-----------------------------------------------------------------------------
(* The reconnections of a CLI on a good day: no statement fails, nobody    *)
(* unsubscribes or deletes, the process goes on, and no output comes while *)
(* initSessionSeq is between its queries.                                  *)

ReconnectNext ==
  \/ \E s \in Sessions : InitReadMax(s) \/ InitReadSnapshot(s)
  \/ \E k \in Sockets, s \in Sessions :
       \/ Subscribe(k, s)
       \/ init[s].stage = "idle" /\ Chunk(k, s)
  \/ \E k \in Sockets : Close(k)
  \/ FlushTimer
  \/ \E b \in bulk : BulkOk(b)
  \/ \E f \in flushes : FlushOk(f)

ReconnectSpec == Init /\ [][ReconnectNext]_vars
=============================================================================
