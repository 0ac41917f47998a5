---------------------------- MODULE TerminalLog ----------------------------
(***************************************************************************)
(* What the relay promises of the output of one session, whatever its      *)
(* queue, its batches, its retries and its counters do: a log to which     *)
(* output is appended, whose entries become readable in any order, and a   *)
(* snapshot that stands for a prefix of it.                                *)
(*                                                                         *)
(* The promise ends with the session (its row is deleted), or when the     *)
(* session meets one of the windows that ChunkStore lists under "calm".    *)
(***************************************************************************)
EXTENDS Naturals

VARIABLES
  phase,     \* "open", or "over": nothing is promised any more
  accepted,  \* number of chunks appended
  stored,    \* the chunks in terminal_chunks
  cover      \* the stored snapshot stands for chunks 1..cover

logVars == <<phase, accepted, stored, cover>>

LogInit == phase = "open" /\ accepted = 0 /\ stored = {} /\ cover = 0

\* The relay accepts one more chunk; it is not readable yet.
Accept ==
  /\ phase = "open"
  /\ accepted' = accepted + 1
  /\ UNCHANGED <<phase, stored, cover>>

\* Accepted chunks become readable: some, in any order, and perhaps again.
Store ==
  /\ phase = "open"
  /\ \E S \in SUBSET (1..accepted) : stored' = stored \cup S
  /\ UNCHANGED <<phase, accepted, cover>>

\* A snapshot replaces a longer prefix: no chunk after it is touched.
Cover ==
  /\ phase = "open"
  /\ \E q \in cover..accepted : cover' = q /\ stored' = stored \ (1..q)
  /\ UNCHANGED <<phase, accepted>>

\* The session is deleted, or disturbed.
Over ==
  /\ phase' = "over"
  /\ accepted' = 0 /\ stored' = {} /\ cover' = 0

LogNext == Accept \/ Store \/ Cover \/ Over

LogSpec == LogInit /\ [][LogNext]_logVars

=============================================================================
