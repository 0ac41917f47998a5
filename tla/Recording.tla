------------------------------ MODULE Recording ------------------------------
(***************************************************************************)
(* From the program to the database: a CLI (PtySession), its socket at the *)
(* relay (the frame handling of apps/server/src/ws.ts), and the log of its *)
(* session (TerminalLog, which ChunkStore implements).                     *)
(***************************************************************************)
EXTENDS PtySession, TerminalLog, Functions

CONSTANT FrameLimit  \* RATE_LIMIT_MAX_MESSAGES: frames a socket may send in a second

ASSUME RecordingAssumption == FrameLimit \in Nat \ {0}

VARIABLES
  joined,    \* the relay's socket: "no", "asked" (ownership is being checked), "yes"
  window,    \* messageTimestamps: frames of the last second
  content,   \* what each accepted chunk holds
  screen,    \* what the stored snapshot shows
  shot,      \* the snapshot being stored, or NoShot
  unsaved,   \* history: pieces whose chunk was dropped on the way
  unshot     \* history: a snapshot was dropped on the way, or not stored

relay == <<joined, window, shot>>
recordVars == <<ptyVars, logVars, relay, content, screen, unsaved, unshot>>

-----------------------------------------------------------------------------
NoShot == [seq |-> 0, pieces |-> {}, ok |-> TRUE, busy |-> FALSE]

Chunk(P, ok) == [pieces |-> P, ok |-> ok]

NoScreen == Chunk({}, TRUE)

RecordInit ==
  /\ PtyInit
  /\ LogInit
  /\ joined = "no"
  /\ window = 0
  /\ content = <<>>
  /\ screen = NoScreen
  /\ shot = NoShot
  /\ unsaved = {}
  /\ unshot = FALSE

\* Pieces of the chunks among some frames.
ChunksOf(W) == UNION {f.pieces : f \in {g \in Range(W) : g.kind = "chunk"}}

Shots(W) == {i \in DOMAIN W : W[i].kind = "snapshot"}

-----------------------------------------------------------------------------
(* The CLI.  A chunk is lost when it is produced while the socket is not    *)
(* open, or when the socket closes before it is delivered.                 *)

CutOff == socket' \in {"closed", "refused"}

CliLosses ==
  /\ unsaved' = unsaved \cup (IF IsOpen THEN {} ELSE (batched + 1)..batched')
                        \cup (IF CutOff THEN ChunksOf(wire) \ ChunksOf(wire') ELSE {})
  /\ unshot' = (unshot \/ (CutOff /\ ~(Shots(wire) \subseteq Shots(wire'))))
  /\ UNCHANGED <<logVars, relay, content, screen>>

Cli == PtyNext /\ CliLosses

-----------------------------------------------------------------------------
(* The frames at the relay.                                                *)

Frame == Head(wire)

Consume ==
  /\ wire # <<>>
  /\ wire' = Tail(wire)
  /\ UNCHANGED <<output, timers, socket, process>>

\* A frame that is let through counts.
Admitted == window < FrameLimit /\ window' = window + 1

\* A frame over the limit, or of a socket that has not joined, is dropped.
Dropped ==
  /\ unsaved' = unsaved \cup ChunksOf(<<Frame>>)
  /\ unshot' = (unshot \/ Frame.kind = "snapshot")
  /\ UNCHANGED <<logVars, joined, shot, content, screen>>

DropLimited ==
  /\ Consume
  /\ Frame.kind # "close"
  /\ window >= FrameLimit
  /\ UNCHANGED window
  /\ Dropped

DropUnjoined ==
  /\ Consume
  /\ Frame.kind \in {"chunk", "snapshot"}
  /\ joined # "yes"
  /\ Admitted
  /\ Dropped

\* SUBSCRIBE awaits the ownership check; later frames do not wait for it.
TakeSubscribe ==
  /\ Consume
  /\ Frame.kind = "subscribe"
  /\ Admitted
  /\ joined' = "asked"
  /\ UNCHANGED <<logVars, shot, content, screen, unsaved, unshot>>

\* The check succeeds; or the database fails and the SUBSCRIBE is ignored.
Answered ==
  /\ joined = "asked"
  /\ joined' \in {"yes", "no"}
  /\ UNCHANGED <<ptyVars, logVars, window, shot, content, screen, unsaved, unshot>>

TakeChunk ==
  /\ Consume
  /\ Frame.kind = "chunk"
  /\ joined = "yes"
  /\ Admitted
  /\ Accept
  /\ content' = Append(content, Chunk(Frame.pieces, Frame.ok))
  /\ UNCHANGED <<joined, shot, screen, unsaved, unshot>>

\* storeSnapshot; the snapshot covers what was accepted before it.
TakeSnapshot ==
  /\ Consume
  /\ Frame.kind = "snapshot"
  /\ joined = "yes"
  /\ ~shot.busy
  /\ Admitted
  /\ shot' = [busy |-> TRUE, seq |-> accepted, pieces |-> Frame.pieces, ok |-> Frame.ok]
  /\ UNCHANGED <<logVars, joined, content, screen, unsaved, unshot>>

\* onClose.
TakeClose ==
  /\ Consume
  /\ Frame.kind = "close"
  /\ joined' = "no"
  /\ window' = 0
  /\ UNCHANGED <<logVars, shot, content, screen, unsaved, unshot>>

\* The frames of the last second become fewer, or the socket sends others (PONG,
\* RESIZE, HTTP_RESPONSE, frames of other sessions).
Slide ==
  /\ window > 0
  /\ window' \in 0..(window - 1)
  /\ UNCHANGED <<ptyVars, logVars, joined, shot, content, screen, unsaved, unshot>>

OtherFrame ==
  /\ socket = "greeted"
  /\ Admitted
  /\ UNCHANGED <<ptyVars, logVars, joined, shot, content, screen, unsaved, unshot>>

-----------------------------------------------------------------------------
(* The transaction of storeSnapshot.  When chunks become readable (Store)   *)
(* matters to viewers only: see Viewing.                                   *)

ShotCommits ==
  /\ shot.busy
  /\ Cover
  /\ cover' = shot.seq
  /\ screen' = Chunk(shot.pieces, shot.ok)
  /\ shot' = NoShot
  /\ UNCHANGED <<ptyVars, joined, window, content, unsaved, unshot>>

ShotFails ==
  /\ shot.busy
  /\ shot' = NoShot
  /\ unshot' = TRUE
  /\ UNCHANGED <<ptyVars, logVars, joined, window, content, screen, unsaved>>

-----------------------------------------------------------------------------
Relay ==
  \/ DropLimited \/ DropUnjoined
  \/ TakeSubscribe \/ TakeChunk \/ TakeSnapshot \/ TakeClose

RecordNext ==
  \/ Cli \/ Relay \/ Answered \/ Slide \/ OtherFrame
  \/ ShotCommits \/ ShotFails

RecordSpec == RecordInit /\ [][RecordNext]_recordVars

-----------------------------------------------------------------------------
(* Properties.                                                             *)

RecordTypeOK ==
  /\ printed \in 0..MaxOutput /\ batched \in 0..printed /\ parsed \in 0..batched
  /\ cleared \in BOOLEAN /\ since \in Nat
  /\ batch \in BOOLEAN /\ debounce \in BOOLEAN /\ periodic \in BOOLEAN
  /\ socket \in {"connecting", "open", "greeted", "closed", "refused"}
  /\ life \in {"running", "exiting", "gone"}
  /\ zeroed \in BOOLEAN
  /\ wire \in Seq(Frames)
  /\ joined \in {"no", "asked", "yes"} /\ window \in 0..FrameLimit
  /\ content \in Seq([pieces : SUBSET Pieces, ok : BOOLEAN])
  /\ cover \in 0..accepted

\* What the relay holds of the output: the snapshot, and the chunks after it.
Recorded == screen.pieces \cup UNION {content[i].pieces : i \in {j \in DOMAIN content : j > cover}}

\* Every piece of output is in the buffer, with a timer that will send it, on its
\* way, or recorded; or its chunk was dropped for want of a socket that had joined;
\* or a snapshot was taken before the headless terminal had parsed it.  Nothing else
\* loses output: no batch, no snapshot, no reconnection, no exit.
OutputAccounted ==
  \A p \in 1..printed :
    \/ p > batched /\ (life = "running" => batch)
    \/ p \in ChunksOf(wire) \cup Recorded \cup unsaved \cup torn

\* A snapshot never shows less than the one it replaces, whatever was lost, cut or
\* reconnected in between.
ScreenGrows == [][screen.pieces \subseteq screen'.pieces]_recordVars

\* A dropped chunk comes back with a snapshot, even if no more output follows: as
\* long as no snapshot is lost, either one that shows it is on its way, or chunks
\* are counted and the timer is armed that will take one.
DroppedIsDue ==
  Headless /\ life = "running" /\ ~zeroed /\ ~unshot =>
    /\ \A p \in (unsaved \ torn) \ screen.pieces :
         \/ since > 0
         \/ p \in shot.pieces
         \/ \E f \in Range(wire) : f.kind = "snapshot" /\ p \in f.pieces
    /\ socket = "greeted" => periodic

\* What of the output somebody with the key of the session can read in the recording.
Legible ==
  (IF screen.ok THEN screen.pieces ELSE {})
  \cup UNION {content[i].pieces : i \in {j \in DOMAIN content : j > cover /\ content[j].ok}}

\* packages/cli/README.md:162, "Every terminal session is saved encrypted. Replay
\* for audits, compliance, or debugging": of a program that has ended, what can be read
\* in the recording can be read ever after, but for what the headless terminal had not
\* parsed when a snapshot was taken.
RecordingReadable ==
  [][life # "running" => Legible \ torn \subseteq Legible']_recordVars

=============================================================================
