# anyterm: a verification project

anyterm streams a local terminal, end-to-end encrypted, to browsers. This
directory models the parts of it that are hard to test: the relay server between
the CLIs and the browsers, the way of a program's output through it from the CLI to
a viewer's page, and the keys, limits and configuration around it. It holds

- TLA+ modules translated from the source, one per component;
- an abstract log that the detailed chunk store is shown to implement;
- TLC configurations that check them on small instances;
- theorems about them for every value of the constants, proved with TLAPS.

Paths are relative to the repository. `ws.ts`, `persistence.ts`, `daemon-api.ts`
and `http-tunnel.ts` are in `apps/server/src`, `daemon.ts` in
`packages/cli/src/commands`.

## 1. The system

| Component | Code | State | Operations |
|---|---|---|---|
| Relay: chunk persistence | `persistence.ts`, called by `ws.ts` | sequence counters, queue of pending chunks, flush flag, initialisations under way (memory); sessions, chunks and snapshots (PostgreSQL) | number and queue a chunk, flush all / flush one session, requeue, store a snapshot and prune, forget a session |
| Relay: session presence | `ws.ts` | subscribers and CLI clients per session, grace timers (memory); the session's status (PostgreSQL); Redis channels | subscribe, unsubscribe, close, presence frames, status writes, timer |
| Relay: connection registry | `ws.ts` | pending handshakes, client states, connections per user, daemon per machine | open, handshake, token check, refuse, register, heartbeat, close |
| Relay: spawn API | `daemon-api.ts`, `ws.ts` | pending spawn requests, count per user | spawn, answer, timeout |
| Relay: HTTP tunnel | `http-tunnel.ts`, `ws.ts` | pending HTTP requests | request, answer, rejection at close, timeout |
| Relay: authentication | `auth-ws.ts`, `preview-*.ts` | ownership cache (30 s), preview cookies (5 min, in the browser) | check a token, check ownership, give and check a preview token |
| Relay and web: rate limits | `rate-limit.ts`, `ws.ts` | timestamps per socket, counters in Redis | admit or drop |
| CLI: PTY session | `packages/cli/src/shared/pty-session.ts` | output buffer, headless terminal, snapshot timers and flag | batch, encrypt and send output, snapshot, clean up |
| CLI: run, daemon | `packages/cli/src/commands` | socket, reconnection delay, sessions of the daemon | connect, reconnect, spawn, exit |
| CLI: configuration | `config.ts`, `secure-store.ts`, `migrate.ts` | configuration file, key ring | read, write, migrate |
| Web: GraphQL resolvers | `apps/web/src/graphql/resolvers` | PostgreSQL | create, update, delete a session; read chunks; set and grant keys |
| Web: plans, clean-up job | `apps/web/src/lib/plan.ts`, `api/cron/cleanup` | plan cache (5 min) | resolve limits, delete old sessions |
| Web: terminal viewer | `components/terminal/x-terminal.tsx` | buffer of live chunks, replay flag | replay, buffer, drain, live write |
| Web: dashboard, preview pane | `dashboard/page.tsx`, `web-preview.tsx` | open tabs and their sockets; probe cycle, frame, cookie timer | poll, open, shut, rebuild; probe, retry, show, renew |
| Web: account pages | `encryption-gate.tsx`, `password-section.tsx` | master key of each browser tab (`sessionStorage`) | unlock, change the password, set up keys |
| Codec, cryptography | `packages/utils/src` | none | encode, decode, encrypt, decrypt |

**How they interact.** A CLI (or a daemon, for several sessions) opens a
WebSocket to the relay, passes the handshake, and subscribes to its session. It
sends encrypted chunks and, now and then, a snapshot of the screen. The relay
publishes chunks to Redis, from where they come back to every relay socket
subscribed to the session, and queues them for PostgreSQL. A browser subscribes
over its own WebSocket, asks the web server for the snapshot and the chunks after
it, and then shows live output. Deleting a session publishes an event to Redis
and deletes the rows. Spawn and tunnel requests arrive over HTTP, are published
to Redis, delivered to the daemon or CLI, and answered over its WebSocket.

**What is hard.** The relay is one Node.js process: the code between two awaits
is not interrupted, but handlers of several sockets, timers, Redis deliveries and
database answers interleave at every await. State read before an await is used
after it. Inserts are started and not awaited, retried, and may have been
committed although they failed. Sockets close while their own handler waits.
Timers live in memory. CLIs reconnect by design.

**What makes each component correct.**

- *Persistence*: no accepted output is lost, none is stored twice, a viewer
  replays it in the order it was sent, nothing a viewer could see disappears,
  and the queue drains.
- *Presence*: the Redis channels are held exactly while somebody is subscribed;
  browsers know whether a CLI is there; the recorded status follows; a session
  whose CLI stays away ends; one that is served is never ended by an old timer.
- *Registry*: the count is the number of clients, no client state outlives its
  socket, one daemon per machine, which is reachable, and vanished peers are
  noticed.
- *Spawn, tunnel*: every call ends, with the answer to its own request; counts
  and maps hold exactly the calls under way.
- *PTY session and viewer*: what is shown is what was printed, once and in order.
- *Dashboard and preview pane*: sockets, probes and cookies follow what the page
  shows, whatever arrives late.
- *Keys, limits, migration*: check-then-act on shared rows keeps its promise, and a
  change in two halves does not lose what it changes.
- *Codec*: what was sent is what is read, or it is refused.

The line where each hazard bites is in `PROJECT.json`, under `hazards`.

## 2. Plan

Done, in this order; the sections below describe them:

1. The relay: `ChunkStore` (what becomes of the output it accepts), `SessionPresence`
   (who serves and watches a session, and its status), `ConnectionRegistry` (sockets
   of a user, daemons of a machine), `SpawnRequests` (a request relayed to a daemon and
   its answer), each with a proof module.
2. The way of the output: `TerminalLog` (the abstract log), `PtySession` (the CLI's
   pipeline), `Recording` (CLI, socket and log composed), `Viewing` (log and page
   composed); `ChunkStore` implements `TerminalLog` by a refinement mapping.
3. The tunnel: `HttpTunnel`, and `WebPreview`, the pane above it.
4. Around the terminal: `SessionLimits`, `RateLimits`, `UserKeys`, `OrgKeys`,
   `CliConfig`, `Dashboard`, `PreviewAuth`, `FrameCodec`.
5. Proofs about these: `ChunkStoreLogProofs`, `TunnelProofs`, `TerminalProofs`,
   `AccountsProofs`.

Next:

- remote SESSION_ENDED at the daemon, and several sessions of a daemon on one socket in
  `PtySession`.


## 3. The modules and the code

Common conventions. An action is the code from one await (or the arrival of an
event) to the next. A database statement is started by one action and executed,
or failed, by a later one, in any order: the relay uses a pool of connections.
Payloads are opaque, so a chunk is just the number of its acceptance. Operators
with a comment `Mutant` are the same operation with a plausible mistake in it; no
specification uses them, they show that the properties would notice it. History
variables record which window of the code a behaviour has met; no action reads them.

### ChunkStore

| Variable | Code |
|---|---|
| `counter` | `sessionSeqCounters` (`NoCounter`: no entry) |
| `queue` | `pendingChunks`, as one sequence per session |
| `flushing` | `flushInProgress` |
| `bulk`, `flushes`, `txns` | awaited statements of `flushAllChunks`, `flushSessionChunks`, `storeSnapshot`; `next` is what the caller of a session flush does afterwards |
| `init` | how far `initSessionSeq` got (`pendingInits`) |
| `subscribed` | `subscribedSessions` of each CLI socket |
| `ended` | SESSION_ENDED published to Redis and not delivered |
| `live`, `rows`, `snap` | the tables `terminal_sessions` and `terminal_chunks` |
| `sent`, `calm` | history, see below |

The array `pendingChunks` interleaves sessions; only the order within a session
and the total length matter to the code, except for the drop cap, where the
model lets the dropped tenth be of any sessions. The graceful shutdown is
`FlushTimer` (its final flush) followed by `Exit`; a crash is `Exit` alone. A
batch that fails is queued again by `BulkError` whether or not the database had
committed it. The branch of `flushAllChunks` for a foreign key error whose text
names no session is left out: PostgreSQL always names it.
`Subscribe` is the part of SUBSCRIBE after the ownership check; several CLI
sockets may subscribe to one session, as a reconnecting CLI does while its old
socket is still open. The 2 s timer only calls `flushAllChunks`, so the model
lets it fire at any time.

**Calm sessions.** Some of the code's windows do lose or reorder output; they are
findings and hazards, not assumptions. To say what holds everywhere else, the
history variable `calm` becomes FALSE when a session meets one of the windows
listed in the module, each at the action where the code goes wrong: a counter
that is read through `?? 0`, `initSessionSeq` reading `max(seq)` while chunks are
on their way to the database, a chunk that arrives while `storeSnapshot` awaits
its flush, two overlapping snapshots, the drop cap, and the death of the process
with chunks pending. `calm` is never read by an action. A property of calm
sessions says: *nothing but these windows* can break the log.

### SessionPresence

One session, for sessions share none of this state. `open`, `joined`, `subs` and
`cli` are the sockets past the handshake, `subscribedSessions`,
`sessionSubscribers` and `sessionCliClients`; `task` is where the SUBSCRIBE
handler of each socket waits (ownership query, `initSessionSeq`), and `stale` the
handlers whose subscriber set was deleted while they waited. `armed` counts the
grace timers that will fire, `mapped` says that `stoppedTimers` holds one: the
code can lose track of a timer by overwriting or deleting its entry. `writes`
holds the status updates in flight. A handler that waits goes on after its socket
closed, as in the code. The per-client limit of 50 subscriptions is left out: it
refuses a SUBSCRIBE before anything is touched. A Redis delivery that is lost,
because nobody listens, is `Ended` with `channel` FALSE.

`calm` plays the same role as above (status writes that overlap or fail, a CLI
that returns to a session already stopped, a CLI that leaves while a handler
waits, an event that cancels the timer of a session that still exists, a
restart). `orderly` is narrower: it becomes FALSE only when a CLI leaves while
its own SUBSCRIBE is under way, whereupon the code counts it for ever. A restart
sets it again, since the maps are empty.

### ConnectionRegistry

One user, for users share no entry. `ready` is the `readyState` of each socket,
`stage` says whether its handshake is pending or its token being checked;
`clients`, `alive`, `count`, `entry` and `channel` are `clients`, `isAlive`,
`userConnectionCount`, `userDaemonClients` and the subscribed machine channels.
`gone` marks peers that vanished. `late` marks the sockets that closed during
their token check: the code registers them all the same. A restart of the process
is `Init`.

### SpawnRequests

| Variable | Code |
|---|---|
| `call` | how far the handler of `POST /api/daemon/spawn` is |
| `count`, `pending` | `userPendingSpawnCount`, `pendingSpawnRequests` |
| `wire`, `down`, `up` | requests in Redis, on the socket to the daemon; frames on their way to the relay |
| `entry`, `joined` | the daemon's socket at the relay and its `subscribedSessions` |
| `ws`, `greeted` | the daemon's socket is open, `handshakeCompleted` |
| `stage` | what the daemon made of each request; running and exiting sessions are `activeSessions` |
| `own` | spawns whose captured `socket` is the one that is open now |

One user, one machine and one daemon process at a time. A session has the name of
the call that asked for it, and names are used again (`Forget`) once nothing is left
of a call, so the instance never runs dry. Each end of the socket closes on its own,
and what is under way to it is lost then; the handshake is one step, `Connect`,
for `ConnectionRegistry` has its parts. A SUBSCRIBE waits at the relay for the
ownership check while later frames are handled, so the frames under way are a set
and not a queue. Requests refused before anything is counted (no daemon, limit, bad
input) change no state and are left out, as are SESSION_ENDED, tunnel requests and
the limit of 50 subscriptions. `Exit` is a shutdown, a crash, or a fatal close code.

History variables name the windows in which the code loses track: `leaked`
publications that failed, `overlapped` spawns, `dropped` and `strayed` SUBSCRIBEs,
and `stuck` subscriptions of sessions that are over. Actions do not read them.

### TerminalLog, Recording, Viewing, PtySession

`TerminalLog` is what the relay promises of one session: `accepted` chunks, of which
some are `stored`, and a snapshot that stands for the first `cover` of them. `Accept`
appends, `Store` makes some accepted chunks readable, in any order and perhaps again,
`Cover` replaces a longer prefix by a snapshot; `Over` ends the promise. `ChunkStore`
implements it (`ImplementsLog`): `accepted` is `sent`, `stored` the chunks in `rows`
behind the snapshot, `cover` the number in `snap`, and `phase` is "over" once the session
is deleted or no longer calm. Where `ChunkStore` says that a snapshot "shows" the chunks
up to its number, it means those the frame stands for; what the CLI put into the frame
is another question, which `Recording` answers.

`PtySession` is `anyterm run`. `printed`, `batched` and `parsed` count pieces of
output: what the program wrote, what `flushPtyBuffer` took, what the headless terminal
has parsed. `batch`, `debounce`, `periodic` are the three timers, `since` is
`chunksSinceSnapshot`, `socket` the `readyState` with the handshake, `zeroed` says that the
signal handler has overwritten the key, and `wire` holds the frames under way. Encryption
is synchronous although it is awaited, so a flush or a snapshot is one step; the
headless terminal's `write` is not, so `Parse` is a step of its own. A socket that closes
loses any suffix of what is under way.

`Recording` adds the relay's end: `joined` (SUBSCRIBE and its ownership check),
`window` (frames counted against the limit of a second), the transaction of a snapshot
(`shot`), and with `TerminalLog` the log. `content` and `screen` tell which pieces each
chunk and the snapshot really hold. History: `unsaved` pieces whose chunk was dropped,
`torn` pieces a snapshot was taken without, `unshot` if a snapshot was lost.

`Viewing` is the page: `stage` ("away", "loaded", "replaying", "live"), the snapshot it
was given (`meta`, `shownTo`), the last number it read (`after`), `buffer` and `view` as
sequences of chunk numbers, `line` (its socket), and `published`, the chunks Redis still
has to deliver. Every `connectWS` of the page is the same, so `line` is one value.
History: `replayed`, `failed`, `missed`, `firm`.

`MCTerminal` composes the two on one log. They meet nowhere else, and `Viewing` allows
any log, so a behaviour follows one side (`side`); this keeps the product small and loses
nothing.

### HttpTunnel, WebPreview

`stage` is how far the handler of `/tunnel/...` is (`"waiting"`: its entry is in
`pendingHttpRequests`), `rows` and `cached` the sessions in the database and in the
ownership cache, `joined` who is subscribed, `channel` the published requests, `work`
what each CLI does with each request (attempt 1 or 2, answer ready). Timers of the relay
and of the attempts may fire in any order. `late` and `ran` are history. The choice of
headers and bodies is data. A CLI in `Clis` is a socket of `anyterm run` or of a daemon;
`Serves` says which sessions it runs.

`WebPreview` extends it with the pane: `auth`, `active` port, the probe `cycle` and
`attempt`, the timer `due`, which request is the probe of which cycle (`fetching`), and
`ready`, `waiting`, `error` as in the component's state. A probe is a request of the
tunnel below. `MCTunnel` runs either the tunnel with two sessions and two CLIs, or the pane.

### SessionLimits

`row` and `age` are the session's row (status, days since `endedAt`), `making` how far
`createSession` is, `counted` and `planOf` what it has read; `tier`, `planCache` and
`fresh` are the subscription and its cached copy. The advisory lock of a user is a step
(`Free`, `TakesLock`), so requests of two members overlap and those of one member do not.
`CleansUp` is a run of the job for the organisation. `resumed` marks sessions that
`updateSession` has set running, which no limit guards.

### RateLimits

One key: `clock` in ticks, `zset` the members of the sorted set. `Call` runs the script
with the time of now, `LateCall` with an older one (the caller reads its clock first).
`Draws` has one element, for Redis seeds `math.random` alike for each script.

### UserKeys, OrgKeys

`UserKeys`: `account` is the password better-auth knows, `lock` the one the keys are
encrypted with, `pair` and `orgPair` the public keys of the user and of the personal
organisation, and per browser tab `tab` (what it does) and `master` (the master key it
keeps). Passwords are numbers in the order of their invention. `behind`, `lost`,
`overlapped` are history: they name a tab with an unverified or overtaken key, a lost
reply, and two changes at once or a reset by mail. `gone` has the tabs whose page was left
while a call was on its way: the call goes on, and its reply reaches nobody. A terminal page
that is opened (`Opens`), or gets a password (`Answers`), tries to unlock its session
(`Tries`): it asks for the password whenever that fails, be it that the master key does not
open the keys, that a query failed, or that the key of an organisation is not granted yet.
So nothing is claimed of who is asked (`asks`); the property is about what is stored: keys,
password, organisation and the master keys of the tabs.

`OrgKeys`: `orgKey`, `held` and `pending` are columns; `setting`, `marking`, `poll`,
`granting` are handlers and polls between two statements; `choosing` and `sealed` follow
the sessions that are sealed for the organisation. `broken` is history.

### CliConfig

`file` is the configuration file (flat v1 keys, plain-text secrets, servers, active
server, version), `chain` the keychain, `up` whether it can be used, `proc` the command
that runs, with its position and the copy of the configuration it took at its start.
Every write is a step, and a command may be killed before each. Logins are numbered, so
that a mixture of two is seen. `disturbed` names a login that was cut short or came
before the migration, and a keychain that comes or goes.

### Dashboard

`recorded` and `served` are the truth, `polled` and `news` (presence frames, per socket)
what is under way to the page, `shown` the status of the tab. Each run of the effect that
builds a terminal has a number: `sock` is the socket of each, `wsRef` the one the ref
holds, `disposed` the flag they share.

### PreviewAuth, FrameCodec

`PreviewAuth` counts time in ticks: `login` is the row in `sessions`, `cookie` the
browser's, `preview` the last good tick of the preview cookie, `run` the runs of
`setPreviewCookie`, which may overtake one another. `shared` chooses whether the browser
sends the cookie of the login to the preview's origin as well. `FrameCodec` has a frame
as it was `sent`, the bytes on the `wire`, and what became of them (`change`); bytes have
`Base` values, so that multi-byte lengths are exercised with short payloads. `TextDecoder`
drops a byte-order mark in front of an id (`Text`), before the id is looked at: decodeFrame
takes such an id for the rest of it, and a mark alone for no id. `FramesSurvive` says so, and
that no id of a session is changed.

## 4. The runs

| Run | Instance | Checks |
|---|---|---|
| `store_overlap` | 1 session, 2 sockets, 2 chunks, 2 statements in flight, early flush at 2, cap 2 | `LogComplete`, `ReplayInOrder`, `RetryIsIdempotent`, `ImplementsLog`, `StoredNeverOverwritten`, `ShownForever` |
| `store_drains` | 2 sessions, one deletable, 1 socket, 1 chunk each, fair | `QueueDrains` |
| `store_reconnects` | 1 socket, no cap, `ReconnectSpec` | finding 1 |
| `presence` | 2 CLIs, 1 browser, 2 writes in flight, fair | `ListensWhileWatched`, `BrowsersKnow`, `ServedIsRunning`, `TimersFollow`, `Escalates` |
| `presence_restores` | 1 CLI | finding 2 |
| `registry` | 3 sockets, 1 machine, limit 2, fair | `CountedOnce`, `NoGhostClient`, `OneDaemonPerMachine`, `DaemonReachable`, `GoneIsNoticed` |
| `spawn` | 2 calls, limit 2, 1 active session, fair | `SlotsHeld`, `ServedHasRun`, `JoinedIsActive`, `LimitKept`, `EveryCallEnds` |
| `spawn_reconnects` | the same | finding 3 |
| `terminal` | 2 pieces of output, threshold 2, frame limit 1; 3 chunks viewed in pages of 2 | `OutputAccounted`, `DroppedIsDue`, `ScreenGrows`, `ShownUnlessMissed`, `NotInterleaved` |
| `terminal_signal` | 2 pieces of output, frame limit 4 | finding 4 |
| `tunnel` | 2 requests, 2 CLIs, 2 sessions, 2 ports; pane with 2 probes, 2 cycles | `AskedIsOwn`, `DeletedNotForwarded`, `OneReply`, `PaneFollowsProbes` |
| `accounts` | 8 parts, see `MCAccounts` | `LimitsKept`, `KeptForRetention`, `WindowKept`, `KeysFollowPassword`, `GrantedKeysAgree`, `OneLogin`, `SocketsFollowTab`, `AccessFollowsLogin`, `FramesSurvive` |

What each property says is in the comment above it. Type invariants are not among the
runs' properties where a theorem proves them.

**Several parts in one run.** `MCAccounts` extends eight modules that share no state. A
variable `part` is chosen initially and only that part moves: the states are the sum of
the parts' states and not their product, and a property of one part is checked in all its
behaviours. `MCTerminal` and `MCTunnel` use the same device (`side`).

**Bounds.** Every bound is a constant, named in the module. Chunks per session
(`MaxChunks`) bound the sequence numbers, and two chunks are enough for one to be
overtaken, overwritten, pruned or lost. Two statements in flight (`MaxInFlight`) are enough
for two to be executed in the wrong order, and two sockets for one to take away the counter
of the other. The thresholds of the code (5 000 and 50 000) become 1 or 2, so that an early
flush and the drop cap happen; with `DropCount` the cap still drops a tenth, rounded up.
`Frames` and `Deletable` choose which frames are sent and which sessions may be deleted. In
`SessionPresence`, writes and timers are few: with more they only overlap in more ways after
`calm` is FALSE. Three sockets for two connections make the limit bite while a third waits.
Two calls with one active session are enough for spawns to overlap and to exceed the
daemon's limit; names are used again, so any number of calls and connections follow each
other. Two pieces of output suffice for one to be in a batch, on the wire or in a snapshot
while the next is printed, and a frame limit of 1 drops every second frame; the viewer
needs a third chunk for a second page. Two requests are enough for one to be taken for
the other. Three creations by two members reach both limits. A window of three ticks with
a limit of two, over seven ticks, slides past its first members. Two tabs and three
passwords give a change, a change that overtakes it, and a reset. Two administrators and a
member: one who sets keys, one who grants, one who asks. Two servers and two logins show a
mixture. Four builds let an outlived socket outlive another. A renewal every tick of a
token good for two, over four ticks, leaves room for two renewals to overtake. Base 4
makes lengths of two digits, with ids at, below and above the
longest, and ids that begin with, contain or are a byte-order mark.

**Fairness.** Weak fairness for what the runtime does by itself: the interval timers fire,
one-shot timers fire, an awaited query answers. Strong fairness for "an insert succeeds or
is refused by the foreign key", which says only that the database does not fail for ever,
for the code retries without end. Nothing is assumed of users, CLIs, browsers or deletions.
In the registry the library destroys a socket whose closing handshake is not answered,
hence weak fairness of `Close` for closing sockets. Of a spawn only its own handler is fair:
ioredis resolves or rejects a publication, and the timer fires. The daemon need not answer.
The other runs check safety and state no fairness.

**Deadlock** is checked where the model has no end. `terminal`, `tunnel` and `accounts` do
not check it: a process that has exited, requests that are all answered, and a clock at its
bound are ends.

## 5. Findings

1. `store_reconnects`: **output is lost on a quick reconnect.** `onClose` starts the flush of the
   session's chunks and forgets its counter without waiting (`ws.ts:434-437`); the returning
   CLI's `initSessionSeq` reads `max(seq)` before that insert is executed
   (`persistence.ts:49-63`); the next chunk gets a number that is in use, and whichever of
   the two is inserted second is dropped.
   `packages/cli/README.md:162` promises that every session is saved. `ReconnectSpec` leaves
   out failures, deletions, and output before `initSessionSeq` is over, so that nothing else
   can lose the chunk.
2. `presence_restores`: **a CLI that returns after the grace period stays "stopped"**
   (`ws.ts:560-565`): the timer that marked the session removed the entry the handler looks
   for, so the case its comment names cannot happen.
3. `spawn_reconnects`: **a session spawned across a reconnection is never subscribed**
   (`daemon.ts:232`): HANDSHAKE_OK subscribes the sessions there are, the spawn that was
   waiting for `createSession` then subscribes on the socket it captured, which is closed.
   The program runs and its output is rejected until the next reconnection.
4. `terminal_signal`: **a signal makes the recording unreadable** (`run.ts:369`): the handler
   zeroes the key in place before the exit handler encrypts the last snapshot with it; the
   relay stores that snapshot and prunes the readable chunks it stands for.
   `RecordingReadable` is about just that: nothing that was readable is lost once the program
   does not run any more.

Known without a run of their own, because the models name them as windows and the
properties hold outside of them: a chunk that is handled between the queries of
`initSessionSeq` takes a number from the counter it finds, or number 1, and the counter is
then set, whatever it is by now (`persistence.ts:63`), so that the next chunk gets a number
in use, also on a first connection; SESSION_ENDED may precede the data (`ws.ts:789`); a restart
of the relay leaves sessions "disconnected" (`ws.ts:110`); a failed publication holds a spawn
slot until the relay restarts (`daemon-api.ts:118`, `leaked` in `SlotsHeld`); a snapshot
misses what the headless terminal has not parsed (`torn`); a page that reconnects misses
what was delivered meanwhile (`missed`); a change of the password whose reply is lost, or two
at once, leave keys and password apart (`lost`, `overlapped`); two administrators who set keys
at once leave a key nobody holds (`broken`); a login cut short mixes two logins, and the
migration's last write drops the `servers` block it stored (`migrate.ts:93`), so that an
upgraded user has to log in again.

The properties that name such a window exclude it, so they say that nothing else goes wrong,
not that the window is harmless; the notes of the hazards in `PROJECT.json` say which.

## 6. The proofs

The theorems hold for any sets of sessions, sockets, machines, requests and tabs, any
thresholds and any bounds, from the assumptions on the constants, which TLC evaluates
in the runs, and from nothing else: `StoreAssumption`, `PresenceAssumption`,
`RegistryAssumption`, `SpawnAssumption`, `TunnelAssumption`, `PreviewAssumption`,
`PtyAssumption`, `RecordingAssumption`, `ViewingAssumption`, `LimitsAssumption`,
`KeysAssumption`, `OrgAssumption`, `DashboardAssumption`, `PreviewAuthAssumption`,
`RateAssumption`, `ConfigAssumption` and `FrameAssumption`. The last says that ids and
payloads are shorter than four bytes can count, 4 GB in the code, where the relay drops frames beyond
2 MB and 512 bytes (`ws.ts:359`) and a batch of output is cut at 64 KB.

**`ChunkStoreProofs`.** `TypeCorrect` needs `Bounded` beside `TypeOK`: `max(seq)` is
only a number if the numbers stored have a bound, and they have one, for no
sequence number, id or snapshot runs ahead of the chunks accepted
(`NumbersBounded`). `LogComplete` and `ReplayInOrder` are far from inductive:
whether a chunk that waits will be seen depends on its number being new when it is
inserted, and on no snapshot covering it that does not show it. The strengthening,
`CalmInv`, says of every calm session:

- `Numbering`: the counter, if there is one, is the number of chunks accepted, and
  every chunk, queued, in flight or stored, has its own number as sequence number.
  So two entries never meet on a number, in whatever order inserts are executed;
- `SnapshotsAgree`: a snapshot, stored or being stored, shows exactly the chunks up
  to its sequence number; at most one is on its way; and it is not behind the one
  that is stored, so pruning and replacement go forward only;
- `InitFinds`: `initSessionSeq` runs only while there is no counter, and what it has
  read by its second query determines the last number;
- `Kept`: every accepted chunk is covered, stored or waiting.

The proof shows each action to keep this, or to end the calm. `CompleteLog` and
`OrderedReplay` follow from the invariant alone.

**`SessionPresenceProofs`.** `Listens` and `BrowsersAreTold` rest on `Placed`: only
handlers that wait hold a stale set, and in orderly times a handler that waits in
`initSessionSeq` has its socket in the subscriber set of the map, and holds that
set. The three theorems on status and timers rest on an invariant of calm
sessions: at most one write is in flight (`OneWrite`); timers and map agree, and
there are none while a CLI serves or waits to (`TimerKept`); the status is, or will
be, running as soon as a CLI has joined, and if it is, or will be, "disconnected",
the map holds a timer and nobody attends (`StatusKept`). `TimersAreRight`
joins the two on timers.

**`ConnectionRegistryProofs`.** The properties become inductive with two facts that
tie the stages of a socket to the tables: a handshake under way has no client
state yet (`Registered`), so that registering adds one, and a socket closes during
its handshake only by leaving the pending ones or by being late (`Prompt`). `OneDaemonPerMachine` follows from reachability: two open
daemons of a machine would both be its entry.

**`SpawnRequestsProofs`.** `SlotsHeld` becomes inductive with `PendingWait` (only a
call that waits is ended by an answer or a timer, so it lowers the count once) and the
finiteness of the calls under way. `ServedHasRun` needs `Unseen` (a request on its way
has no stage yet, so no old answer belongs to it) and `Told` (an answer with a session
is only under way once its program started). The two properties about subscriptions
need `Gone` (nothing survives the relay's socket), `Told` (an UNSUBSCRIBE is only under
way when the session is over) and `Kept`, which extends `OnlyActiveAreJoined` to
SUBSCRIBEs under way. `SessionsAgree` joins the two. `LimitKept` holds because `Limited` also counts the spawn that
is being created.

**`ChunkStoreLogProofs`.** `ImplementsLog` says that each session, while it is calm, is a
`TerminalLog`. Seen from one session every action of `ChunkStore` is one of four
(`StepOf`): a chunk is accepted, a batch of waiting chunks is inserted, a snapshot
transaction is committed, or the row is deleted. `CalmInv` then gives what the
corresponding step of the log asks: the inserted numbers are new, a snapshot covers
what it prunes. `ShownForever` follows from the same four cases. The two properties
that do not need calm rest on `OneNumberEach` (all copies of a chunk, queued, in flight
and stored, have one sequence number, which is what makes a retry harmless) and
`UniqueIndex`.

**`TerminalProofs`.** `RecordingUsesLog` and `ViewingUsesLog` show that the composed
modules see the database as the log that `ChunkStore` implements. For the rest every
step of the CLI either `Sends`, which leaves what was on its way and adds frames of
this step, or `Cuts`, which loses an end of it (`CliShape`), and the relay takes from
the head. `RecordInv` holds, beside the types and `OutputAccounted` itself:

- `Nest`: the screens stored, being stored and on their way show more and more;
- `Covered`: a screen shows every chunk that went before it, but for those whose
  parsing a snapshot did not wait for (`torn`): so pruning loses nothing else;
- `Due`: when no chunk is counted since the last snapshot, a screen that shows all
  that was sent is stored or on its way;
- `Armed`: a program with a greeted socket has its periodic timer.

Of the page, `ViewInv` says where every chunk is that was accepted: shown, buffered, on
its way or counted as missed (`Accounted`). What is on its way is in order and above
what is buffered or was shown live (`Held`). While the history is replayed, what is
written lies between the snapshot and `after`, the cursor of the pages, and no chunk
that was readable from the start is left behind the cursor (`Replay`); so none is when
the page goes live (`Firm`), and what is above the cursor comes out of the buffer in
order (`Parted`). The database's order is the one thing here that is defined by a choice:
`InOrderIs` shows that a finite set of numbers has an increasing enumeration, by the
least size of a set that had none, and that any such enumeration leaves nothing out.
`PageIs` is what a query promises because of it: the first rows after the cursor, and
all of them if there are fewer than a page.

**`TunnelProofs`.** `AskedIsOwn` is not inductive: that the CLI which asks is one of the
session depends on who was sent the frame and on nothing being under way for a request
that is still to come (`Tracked`). `Stopped` follows a request that came too late until
it is refused. `OneReply` needs the types only. For the pane, `Probing` says
that a waiting pane has exactly one probe of its cycle under way, or one is due, and
`PortKept` that the probes of the cycle ask for the port that is shown.
`PreviewUsesTunnel` proves that the pane uses the tunnel as the tunnel allows.

**`AccountsProofs`.** One invariant for each part.

- An organisation's keys: one key is set up at a time and is the only one held, polled
  or chosen (`OneKey`), and a grant under way belongs to one poll (`Polling`).
- A tab of the dashboard: `Built`, a terminal that is shown was built and not disposed
  of since.
- A preview's cookie: it never outlasts what the login was last known to be good for
  (`Lasting`), and the renewals that ended in time keep a shown pane valid (`Renewed`).
- The limits of sessions: the lock lets one request of a user at a time count and insert
  (`OneOfUser`); from its count to its insert no session of that user starts to run
  (`CountHolds`); and the active sessions with the requests that have counted too few
  are at most the highest limit of the organisation and one for each member but one
  (`RoomKept`), which needs finitely many members and plans. Retention follows from the
  types: the tier the job acts on is the organisation's, or the cache still holds
  another.
- The rate limit: the calls of the present window that were let through are in the set
  (`Remembered`), though the set is cut down by every call, and the wait is rounded up
  from the oldest member (`ToldRight`).
- The configuration of the CLI: as long as nothing disturbed it, each secret is in one
  place (`OnePlace`), so that what getSecret returns is a function of the state
  (`Held`); the entry of a server is of its last login and has the master key if it has
  the token, but that of a login under way (`EntriesWhole`, `LoginGrows`, `TokenFirst`);
  there was no login or logout since the flat fields as long as they are there
  (`FlatFirst`); and what the migration will write back is what is there, or nothing
  (`Copied`).
- A user's keys: as long as two changes did not overlap, one tab is at it (`OneAtIt`);
  what it has read and written is still there (`Phase`); the keys are never behind the
  password (`NotBehind`); and unless the reply to a change was lost, keys, password,
  personal organisation and the master keys of tabs agree but for that tab (`Settled`).
- The frames: what setUint32 writes, getUint32 reads, for any base, because a number
  below the fourth power of the base is its four digits (`NumberOfUInt32`); what arrives
  agrees with what was sent as far as both go, whole, cut or padded (`WireOK`); so
  decodeFrame finds the two lengths where encodeFrame put them, if they arrived, and a
  frame of which a byte is missing is shorter than they say (`Reads`). The id is decoded
  to its text, which is the id itself if it has letters only (`TextIs`).

**Only model-checked.** The liveness properties `QueueDrains`, `Escalates`, `GoneIsNoticed`
and `EveryCallEnds`: liveness under fairness is out of the prover's reach, and so is
ENABLED. Every other property of a passing run is stated by a theorem. No module has a
recursive operator, and no proof needs induction over data: where a fact about all
numbers is needed, it is proved for a least counterexample.

## 7. Not modelled

- User interface (layout, zoom, keyboard), authentication library, e-mail, SSO, the activity
  log, schema migrations: wording, display, or single statements of a library.
- The ciphers: what is encrypted with one key opens with that key only.
- Changes of an organisation's membership: in `OrgKeys` and `SessionLimits` nobody joins,
  leaves or is removed.
- `list` and `org` of the CLI, `/api/daemon/status`: they read and print.
- `storeChunks` and `getUserPlan` (GraphQL, `lib/plan.ts`) and `purgeSessionChunks`: no caller
  in the repository.
- Redis reconnection: ioredis subscribes again by itself; deliveries lost meanwhile are
  not retried by anything.
- Liveness of the parts in `terminal`, `tunnel` and `accounts`: what has to happen there
  hangs on users, networks and remote programs, which owe nothing.

## 8. Running it

```
tlc -config StoreOverlap.cfg MCChunkStore
tlc -config Accounts.cfg MCAccounts
tlapm ChunkStoreProofs.tla
```

Each `MC` module extends its components' modules for TLC; `PROJECT.json` lists the
runs, the properties of each with the mutant that breaks it, and the lines every
definition is translated from.
