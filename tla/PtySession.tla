----------------------------- MODULE PtySession -----------------------------
(***************************************************************************)
(* `anyterm run`: packages/cli/src/commands/run.ts with the output pipeline *)
(* of packages/cli/src/shared/pty-session.ts.                              *)
(*                                                                         *)
(* Output of the program is batched, encrypted and sent as chunks; a       *)
(* headless terminal follows it, and its screen is sent now and then as a  *)
(* snapshot.  Encryption is synchronous although it is awaited, so a flush *)
(* or a snapshot is over before any other timer, socket or PTY callback    *)
(* runs.  The headless terminal is not: write() queues, and the text is    *)
(* parsed in a later task.                                                 *)
(***************************************************************************)
EXTENDS Integers, Sequences

CONSTANTS
  MaxOutput,          \* bound: pieces of output the program prints
  SnapshotThreshold,  \* SNAPSHOT_CHUNK_THRESHOLD
  Headless            \* whether the headless terminal could be loaded

ASSUME PtyAssumption ==
  /\ MaxOutput \in Nat
  /\ SnapshotThreshold \in Nat \ {0}
  /\ Headless \in BOOLEAN

VARIABLES
  printed,   \* pieces of output so far; those after `batched` are ptyBuffer
  batched,   \* pieces taken from ptyBuffer and written to the headless terminal
  parsed,    \* pieces the headless terminal has parsed
  cleared,   \* hasClearInBatch
  batch,     \* ptyBatchTimer is armed
  since,     \* chunksSinceSnapshot
  debounce,  \* snapshotTimer is armed
  periodic,  \* periodicSnapshotTimer is armed
  socket,    \* readyState of ws; "greeted": open, and HANDSHAKE_OK received
  life,      \* the process: "running", "exiting" (wsClosing), "gone"
  zeroed,    \* sessionKey.fill(0)
  wire,      \* frames on their way to the relay
  torn       \* history: pieces a snapshot was taken without, though sent before it

timers == <<batch, debounce, periodic>>
output == <<printed, batched, parsed, cleared, since, torn>>
process == <<life, zeroed>>
ptyVars == <<output, timers, socket, process, wire>>

-----------------------------------------------------------------------------
Pieces == 1..MaxOutput

\* encryptChunk: what is sent opens with the session key (decryptChunk) only if that
\* was still in place.
Readable == ~zeroed

ChunkFrame(P, ok) == [kind |-> "chunk", pieces |-> P, ok |-> ok]
SnapshotFrame(P, ok) == [kind |-> "snapshot", pieces |-> P, ok |-> ok]
SubscribeFrame == [kind |-> "subscribe", pieces |-> {}, ok |-> TRUE]
CloseFrame == [kind |-> "close", pieces |-> {}, ok |-> TRUE]

Frames == [kind : {"chunk", "snapshot", "subscribe", "close"},
           pieces : SUBSET Pieces, ok : BOOLEAN]

\* ws.readyState === WebSocket.OPEN
IsOpen == socket \in {"open", "greeted"}

PtyInit ==
  /\ printed = 0 /\ batched = 0 /\ parsed = 0
  /\ cleared = FALSE
  /\ batch = FALSE /\ debounce = FALSE /\ periodic = FALSE
  /\ since = 0
  /\ socket = "connecting"
  /\ life = "running" /\ zeroed = FALSE
  /\ wire = <<>>
  /\ torn = {}

-----------------------------------------------------------------------------
(* Flushes and snapshots.                                                  *)

\* Whether createAndSendSnapshot sends.
CanSnapshot == Headless /\ IsOpen

\* The screen as it is parsed so far, whatever was written to it.
ScreenFrames == IF CanSnapshot THEN <<SnapshotFrame(1..parsed, Readable)>> ELSE <<>>

\* Pieces up to n were sent before a snapshot that shows only the parsed ones.
Tear(n) == IF CanSnapshot THEN torn \cup ((parsed + 1)..n) ELSE torn

\* createAndSendSnapshot from a timer.
Snapshot ==
  /\ wire' = wire \o ScreenFrames
  /\ since' = IF CanSnapshot THEN 0 ELSE since
  /\ torn' = Tear(batched)

\* Mutant: each piece replaces the buffer instead of extending it.
ChunksLast(n) == IF IsOpen THEN <<ChunkFrame({n}, Readable)>> ELSE <<>>

Chunks(n) == IF IsOpen THEN <<ChunkFrame((batched + 1)..n, Readable)>> ELSE <<>>

AtThreshold(clear) ==
  Headless /\ since + 1 >= SnapshotThreshold /\ ~(debounce \/ clear)

FlushedDebounce(clear) == debounce \/ (Headless /\ clear)

\* Mutant: only chunks that were sent are counted.
FlushedSinceSent(clear) ==
  IF ~IsOpen THEN since ELSE IF AtThreshold(clear) THEN 0 ELSE since + 1

FlushedSince(clear) == IF AtThreshold(clear) /\ IsOpen THEN 0 ELSE since + 1

\* flushPtyBuffer of a buffer that holds the pieces batched+1..n, where a clear
\* sequence is among them or not: the chunk is sent or dropped, a clear arms the
\* debounced snapshot, the threshold takes one at once.
Flush(n, clear) ==
  /\ batched' = n
  /\ cleared' = FALSE
  /\ batch' = FALSE
  /\ debounce' = FlushedDebounce(clear)
  /\ periodic' = (periodic \/ AtThreshold(clear))
  /\ since' = FlushedSince(clear)
  /\ wire' = wire \o Chunks(n) \o (IF AtThreshold(clear) THEN ScreenFrames ELSE <<>>)
  /\ torn' = IF AtThreshold(clear) THEN Tear(n) ELSE torn

-----------------------------------------------------------------------------
(* Output.                                                                 *)

\* ptyProcess.onData: the piece waits for the batch timer ...
Prints(clear) ==
  /\ life = "running"
  /\ printed < MaxOutput
  /\ printed' = printed + 1
  /\ cleared' = (cleared \/ clear)
  /\ batch' = TRUE
  /\ UNCHANGED <<batched, parsed, debounce, periodic, since, socket, process, wire, torn>>

\* ... unless it makes the buffer reach MAX_CHUNK_SIZE.
PrintsMuch(clear) ==
  /\ life = "running"
  /\ printed < MaxOutput
  /\ printed' = printed + 1
  /\ Flush(printed + 1, cleared \/ clear)
  /\ UNCHANGED <<parsed, socket, process>>

BatchTimer ==
  /\ batch
  /\ life = "running"
  /\ printed > batched
  /\ Flush(printed, cleared)
  /\ UNCHANGED <<printed, parsed, socket, process>>

\* The headless terminal parses what it was given (@xterm/headless).
Parse ==
  /\ parsed < batched
  /\ life # "gone"
  /\ Headless
  /\ parsed' = batched
  /\ UNCHANGED <<printed, batched, cleared, since, torn, timers, socket, process, wire>>

DebounceTimer ==
  /\ debounce
  /\ Snapshot
  /\ debounce' = FALSE
  /\ periodic' = TRUE
  /\ UNCHANGED <<printed, batched, parsed, cleared, batch, socket, process>>

PeriodicTimer ==
  /\ periodic
  /\ since > 0
  /\ Snapshot
  /\ UNCHANGED <<printed, batched, parsed, cleared, timers, socket, process>>

-----------------------------------------------------------------------------
(* The connection.                                                         *)

\* The socket opens; the JSON handshake is sent before anything else.
Opens ==
  /\ socket = "connecting"
  /\ life # "gone"
  /\ socket' = "open"
  /\ UNCHANGED <<output, timers, process, wire>>

\* Mutant: the headless terminal is made anew on every connection.
GreetedAfresh ==
  /\ socket = "open"
  /\ life # "gone"
  /\ socket' = "greeted"
  /\ wire' = Append(wire, SubscribeFrame)
  /\ periodic' = Headless
  /\ parsed' = 0
  /\ UNCHANGED <<printed, batched, cleared, since, torn, batch, debounce, process>>

\* HANDSHAKE_OK.
Greeted ==
  /\ socket = "open"
  /\ life # "gone"
  /\ socket' = "greeted"
  /\ wire' = Append(wire, SubscribeFrame)
  /\ periodic' = Headless
  /\ UNCHANGED <<output, batch, debounce, process>>

\* The socket is closed; what was on its way is lost from some point on.
Cut == \E n \in 0..Len(wire) : wire' = Append(SubSeq(wire, 1, n), CloseFrame)

\* The close event.
Closes ==
  /\ socket \in {"connecting", "open", "greeted"}
  /\ life # "gone"
  /\ socket' = "closed"
  /\ Cut
  /\ UNCHANGED <<output, timers, process>>

\* Close codes 4001 and 4010: nothing reconnects.
ClosesForGood ==
  /\ socket = "open"
  /\ life = "running"
  /\ socket' = "refused"
  /\ wire' = <<CloseFrame>>
  /\ UNCHANGED <<output, timers, process>>

\* The reconnection timer.  Bound: the relay has noticed the close, for the
\* timer takes a second at least.
Reconnect ==
  /\ socket = "closed"
  /\ wire = <<>>
  /\ life = "running"
  /\ socket' = "connecting"
  /\ UNCHANGED <<output, timers, process, wire>>

-----------------------------------------------------------------------------
(* The end.  A program may exit at any time, so the requests to do so leave *)
(* no trace: ptyProcess.kill after a fatal close code, after SESSION_ENDED  *)
(* (the session was deleted), or after a signal.                           *)

\* SIGINT, SIGTERM or SIGHUP.  The key is zeroed in place, and shared with the
\* session state that the exit handler encrypts with.
Signal ==
  /\ life = "running"
  /\ periodic' = FALSE
  /\ zeroed' = TRUE
  /\ UNCHANGED <<output, batch, debounce, socket, life, wire>>

\* ptyProcess.onExit and cleanupPtySession up to its updateSession: the buffer is
\* flushed, the timers are cleared, and a last snapshot is sent.
Exit ==
  /\ life = "running"
  /\ life' = "exiting"
  /\ batched' = printed
  /\ cleared' = FALSE
  /\ batch' = FALSE /\ debounce' = FALSE /\ periodic' = FALSE
  /\ LET last == IF printed > batched THEN Chunks(printed) ELSE <<>>
         early == IF printed > batched /\ AtThreshold(cleared) THEN ScreenFrames ELSE <<>>
     IN wire' = wire \o last \o early \o ScreenFrames
  /\ torn' = Tear(printed)
  /\ since' = CASE CanSnapshot -> 0
                [] printed > batched /\ ~CanSnapshot -> since + 1
                [] OTHER -> since
  /\ UNCHANGED <<printed, parsed, socket, zeroed>>

\* The session is marked stopped, the socket is closed, the process exits.  What
\* was sent before the close frame is delivered, unless the close takes too long.
Finish ==
  /\ life = "exiting"
  /\ life' = "gone"
  /\ socket' = "closed"
  /\ IF IsOpen THEN Cut ELSE UNCHANGED wire
  /\ UNCHANGED <<output, timers, zeroed>>

-----------------------------------------------------------------------------
PtyNext ==
  \/ \E clear \in BOOLEAN : Prints(clear) \/ PrintsMuch(clear)
  \/ BatchTimer \/ Parse \/ DebounceTimer \/ PeriodicTimer
  \/ Opens \/ Greeted \/ Closes \/ ClosesForGood \/ Reconnect
  \/ Signal \/ Exit \/ Finish

=============================================================================
