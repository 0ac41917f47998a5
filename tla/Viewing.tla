------------------------------ MODULE Viewing ------------------------------
(***************************************************************************)
(* From the database to the screen: a browser page with a terminal         *)
(* (apps/web/src/components/terminal/x-terminal.tsx and terminal-view.tsx) *)
(* that watches a session while its log grows (TerminalLog).               *)
(*                                                                         *)
(* The page loads the session with its snapshot, connects, and at the same *)
(* time replays the stored chunks after the snapshot, page by page.  Live  *)
(* chunks that arrive meanwhile are buffered.  Decryption is synchronous   *)
(* although it is awaited: a page of chunks, or the buffer, is written     *)
(* before any other event of the browser is handled.                       *)
(***************************************************************************)
EXTENDS TerminalLog, Integers, Sequences, FiniteSets, Functions

CONSTANTS
  MaxLog,   \* bound: chunks the session ever has
  PageSize  \* limit of the chunks query (500)

ASSUME ViewingAssumption == MaxLog \in Nat /\ PageSize \in Nat \ {0}

VARIABLES
  published,  \* chunks published to Redis and not yet delivered
  stage,      \* the page: "away", "loaded", "replaying", "live"
  meta,       \* snapshotSeq of the session that was loaded, 0 when there is none
  shownTo,    \* the snapshot that was written stands for chunks 1..shownTo
  after,      \* seq after which the next page of chunks starts
  line,       \* its socket: "off", "asking" (token, handshake, SUBSCRIBE), "joined", "closed"
  buffer,     \* wsChunkBufferRef
  view,       \* chunks written to the terminal, in order
  replayed,   \* history: how many of them the replay wrote
  failed,     \* history: a page of the replay could not be read
  missed,     \* history: chunks delivered while the page had not joined
  firm        \* history: chunks stored since the replay began, and not pruned

page == <<stage, meta, shownTo, after, buffer, view, replayed, failed, firm>>
viewVars == <<logVars, published, page, line, missed>>

-----------------------------------------------------------------------------
ViewInit ==
  /\ LogInit
  /\ published = <<>>
  /\ stage = "away" /\ line = "off"
  /\ meta = 0 /\ shownTo = 0 /\ after = 0
  /\ buffer = <<>> /\ view = <<>>
  /\ replayed = 0 /\ failed = FALSE
  /\ missed = {} /\ firm = {}

-----------------------------------------------------------------------------
(* The log grows.                                                          *)

\* ENCRYPTED_CHUNK at the relay: published, then queued.
Output ==
  /\ accepted < MaxLog
  /\ Accept
  /\ published' = Append(published, accepted')
  /\ UNCHANGED <<page, line, missed>>

StoreOutput == Store /\ UNCHANGED <<published, page, line, missed>>

CoverOutput ==
  /\ Cover
  /\ firm' = firm \ (1..cover')
  /\ UNCHANGED <<published, stage, meta, shownTo, after, buffer, view, replayed,
                 failed, line, missed>>

-----------------------------------------------------------------------------
(* The page.                                                               *)

\* The query of the session; then its key has to be unlocked.
Load ==
  /\ stage = "away"
  /\ stage' = "loaded"
  /\ meta' = cover
  /\ missed' = {i \in 1..accepted : i \notin Range(published)}
  /\ UNCHANGED <<logVars, published, shownTo, after, buffer, view, replayed, failed, firm, line>>

\* The effect of XTerminal: connect if the session is live, write the snapshot (one
\* that cannot be decrypted is skipped), and replay.
Start(isLive) ==
  /\ stage = "loaded"
  /\ stage' = "replaying"
  /\ line' = IF isLive THEN "asking" ELSE "off"
  /\ \E n \in {0, meta} : shownTo' = n /\ after' = n /\ firm' = stored \ (1..n)
  /\ buffer' = <<>> /\ view' = <<>> /\ replayed' = 0 /\ failed' = FALSE
  /\ UNCHANGED <<logVars, published, meta, missed>>

\* Mutant: the buffer is dropped instead of drained.
GoLiveDrops(written) ==
  /\ stage' = "live"
  /\ view' = view \o written
  /\ buffer' = <<>>
  /\ replayed' = Len(view) + Len(written)

\* The last page was written: switch to live mode, then drain the buffer.
GoLive(written) ==
  /\ stage' = "live"
  /\ view' = view \o written \o buffer
  /\ buffer' = <<>>
  /\ replayed' = Len(view) + Len(written)

Increasing(s) == \A i, j \in DOMAIN s : i < j => s[i] < s[j]

InOrder(S) == CHOOSE s \in [1..Cardinality(S) -> S] : Increasing(s)

\* Mutant: the rows of a page come in any order (no ORDER BY).
RowsUnordered == CHOOSE s \in [1..Cardinality({i \in stored : i > after}) -> {i \in stored : i > after}] :
                   \A i, j \in DOMAIN s : i < j => s[i] > s[j]

\* The chunks query of a session of the organisation: rows with seq > after, in order
\* of seq.
Rows == InOrder({i \in stored : i > after})

PageOf(rows) == SubSeq(rows, 1, IF Len(rows) < PageSize THEN Len(rows) ELSE PageSize)

ReadPage ==
  /\ stage = "replaying"
  /\ LET written == PageOf(Rows) IN
       /\ after' = IF written = <<>> THEN after ELSE written[Len(written)]
       /\ IF Len(written) < PageSize
          THEN GoLive(written)
          ELSE view' = view \o written /\ UNCHANGED <<stage, buffer, replayed>>
  /\ UNCHANGED <<logVars, published, meta, shownTo, failed, firm, line, missed>>

\* A page that fails, or is refused as the session was deleted, ends the replay.
ReadFails ==
  /\ stage = "replaying"
  /\ GoLive(<<>>)
  /\ failed' = TRUE
  /\ UNCHANGED <<logVars, published, meta, shownTo, after, firm, line, missed>>

\* The page is left: its socket is closed.
Leave ==
  /\ stage # "away"
  /\ stage' = "away"
  /\ line' = "off"
  /\ UNCHANGED <<logVars, published, meta, shownTo, after, buffer, view, replayed,
                 failed, firm, missed>>

-----------------------------------------------------------------------------
(* The socket of the page.                                                 *)

Joins ==
  /\ line = "asking"
  /\ line' = "joined"
  /\ UNCHANGED <<logVars, published, page, missed>>

\* No token, or close code 4001 or 4010: there is no other attempt.
GivesUp ==
  /\ line = "asking"
  /\ line' = "off"
  /\ UNCHANGED <<logVars, published, page, missed>>

Breaks ==
  /\ line \in {"asking", "joined"}
  /\ line' = "closed"
  /\ UNCHANGED <<logVars, published, page, missed>>

\* Two seconds later.  Nothing is replayed.
ConnectsAgain ==
  /\ line = "closed"
  /\ line' = "asking"
  /\ UNCHANGED <<logVars, published, page, missed>>

\* A chunk comes from Redis, and over the socket if the page has joined.
Deliver ==
  /\ published # <<>>
  /\ published' = Tail(published)
  /\ CASE line # "joined" ->
            missed' = missed \cup {Head(published)} /\ UNCHANGED <<view, buffer>>
       [] line = "joined" /\ stage = "live" ->
            view' = Append(view, Head(published)) /\ UNCHANGED <<buffer, missed>>
       [] OTHER ->
            buffer' = Append(buffer, Head(published)) /\ UNCHANGED <<view, missed>>
  /\ UNCHANGED <<logVars, stage, meta, shownTo, after, replayed, failed, firm, line>>

-----------------------------------------------------------------------------
ViewNext ==
  \/ Output \/ StoreOutput \/ CoverOutput
  \/ Load \/ ReadPage \/ ReadFails \/ Leave
  \/ \E isLive \in BOOLEAN : Start(isLive)
  \/ Joins \/ GivesUp \/ Breaks \/ ConnectsAgain \/ Deliver

ViewSpec == ViewInit /\ [][ViewNext]_viewVars

-----------------------------------------------------------------------------
(* Properties.                                                             *)

ViewTypeOK ==
  /\ published \in Seq(1..accepted)
  /\ stage \in {"away", "loaded", "replaying", "live"}
  /\ line \in {"off", "asking", "joined", "closed"}
  /\ meta \in 0..accepted /\ shownTo \in 0..accepted /\ after \in 0..accepted
  /\ buffer \in Seq(1..accepted) /\ view \in Seq(1..accepted)
  /\ replayed \in 0..Len(view) /\ failed \in BOOLEAN
  /\ missed \subseteq 1..accepted /\ firm \subseteq stored

\* x-terminal.tsx:272-273, "so nothing can slip between flag and drain": once the
\* page is live it shows every chunk, except those still on their way and those
\* that were delivered while it had not joined.  Of these, the replay shows all that
\* were readable when it began, however many pages it took and whatever was stored
\* meanwhile, unless they were pruned.
ShownUnlessMissed ==
  stage = "live" =>
    /\ (shownTo + 1)..accepted \subseteq Range(view) \cup Range(published) \cup missed
    /\ ~failed => firm \subseteq Range(view)

\* x-terminal.tsx:254, "eliminates the race where live WS chunks interleave with
\* historical replay": what is written is first history, in order and none of what
\* the snapshot shows, then live output, in order.
NotInterleaved ==
  /\ Increasing(SubSeq(view, 1, replayed))
  /\ Increasing(SubSeq(view, replayed + 1, Len(view)))
  /\ stage \in {"replaying", "live"} => \A i \in 1..replayed : view[i] > shownTo

=============================================================================
