--------------------------- MODULE SpawnRequests ---------------------------
(***************************************************************************)
(* Spawning a terminal from the web: apps/server/src/daemon-api.ts, the    *)
(* parts of apps/server/src/ws.ts that carry a request to the daemon and   *)
(* the answer back, and packages/cli/src/commands/daemon.ts.               *)
(*                                                                         *)
(* A call of POST /api/daemon/spawn publishes the request to Redis, which  *)
(* brings it back to the relay, which sends it to the daemon's socket.     *)
(* The daemon checks it, creates a session, starts a program in a pseudo-  *)
(* terminal, subscribes to the session and answers; the call waits for the *)
(* answer or for 15 seconds.  Meanwhile either end of the socket may close *)
(* and the daemon connect again.                                           *)
(*                                                                         *)
(* One user with one machine.  A session bears the name of the call that   *)
(* asked for it.  ConnectionRegistry tells how a socket gets registered.   *)
(***************************************************************************)
EXTENDS Integers, FiniteSets

CONSTANTS
  Calls,       \* names of calls; a name is used again once nothing is left of it
  MaxSpawns,   \* MAX_CONCURRENT_SPAWNS_PER_USER
  MaxActive    \* MAX_ACTIVE_SESSIONS

ASSUME SpawnAssumption == MaxSpawns \in Nat \ {0} /\ MaxActive \in Nat \ {0}

VARIABLES
  call,        \* how far each call is
  count,       \* userPendingSpawnCount
  pending,     \* pendingSpawnRequests
  wire,        \* requests that Redis has to deliver
  down,        \* requests under way on the socket to the daemon
  up,          \* frames under way to the relay, or waiting for its database
  entry,       \* the relay has an open socket of the daemon
  joined,      \* subscribedSessions of that socket
  ws,          \* the daemon's socket is open
  greeted,     \* handshakeCompleted
  stage,       \* what the daemon has made of each request
  own,         \* spawns under way whose socket is the one that is open
  leaked,      \* history: calls that failed while they published
  overlapped,  \* history: a spawn was admitted while another was under way
  dropped,     \* history: sessions whose SUBSCRIBE the relay dropped
  strayed,     \* history: sessions whose SUBSCRIBE went to a closed socket
  stuck        \* history: sessions the relay keeps for no reason, see below

calls == <<call, count, pending, leaked>>
daemon == <<stage, own, overlapped>>
link == <<entry, ws, greeted>>
history == <<dropped, strayed, stuck>>
vars == <<calls, wire, down, up, link, joined, daemon, history>>

Over == {"served", "refused", "timedOut", "failed"}
UnderWay == {c \in Calls : call[c] \in {"publishing", "waiting"}}
Active == {c \in Calls : stage[c] \in {"running", "exiting"}}
Creating == {c \in Calls : stage[c] = "creating"}

Frame(type, c) == [type |-> type, of |-> c]
Frames == [type : {"subscribe", "unsubscribe", "spawned", "error"}, of : Calls]

Init ==
  /\ call = [c \in Calls |-> "idle"]
  /\ count = 0 /\ leaked = 0
  /\ pending = {} /\ wire = {} /\ down = {} /\ up = {}
  /\ entry = FALSE /\ joined = {}
  /\ ws = FALSE /\ greeted = FALSE
  /\ stage = [c \in Calls |-> "none"]
  /\ own = {} /\ dropped = {} /\ strayed = {} /\ stuck = {}
  /\ overlapped = FALSE

-----------------------------------------------------------------------------
(* The call.                                                               *)

\* The user may have one more and the daemon is online: the handler counts the
\* call and awaits the publication.
Spawn(c) ==
  /\ call[c] = "idle"
  /\ count < MaxSpawns /\ entry
  /\ call' = [call EXCEPT ![c] = "publishing"]
  /\ count' = count + 1
  /\ wire' = wire \cup {c}
  /\ UNCHANGED <<pending, leaked, down, up, link, joined, daemon, history>>

\* Redis has acknowledged; only now can an answer find the call.
Published(c) ==
  /\ call[c] = "publishing"
  /\ call' = [call EXCEPT ![c] = "waiting"]
  /\ pending' = pending \cup {c}
  /\ UNCHANGED <<count, leaked, wire, down, up, link, joined, daemon, history>>

\* The publication throws, which the handler does not catch; Redis may have got it.
PublishFails(c) ==
  /\ call[c] = "publishing"
  /\ call' = [call EXCEPT ![c] = "failed"]
  /\ leaked' = leaked + 1
  /\ wire' \in {wire, wire \ {c}}
  /\ UNCHANGED <<count, pending, down, up, link, joined, daemon, history>>

\* The end of a call that waited, with its finally block.
Ends(c, how) ==
  /\ call' = [call EXCEPT ![c] = how]
  /\ count' = IF count <= 1 THEN 0 ELSE count - 1
  /\ pending' = pending \ {c}
  /\ UNCHANGED leaked

\* Mutant: the timer takes the entry out and does not reject.
TimeoutHangs(c) ==
  /\ c \in pending
  /\ pending' = pending \ {c}
  /\ UNCHANGED <<call, count, leaked, wire, down, up, link, joined, daemon, history>>

\* SPAWN_TIMEOUT_MS passed.
Timeout(c) ==
  /\ c \in pending
  /\ Ends(c, "timedOut")
  /\ UNCHANGED <<wire, down, up, link, joined, daemon, history>>

\* Nothing is left of the call: its name stands for a new one.
Forget(c) ==
  /\ call[c] \in Over
  /\ stage[c] \in {"none", "gone", "refused"}
  /\ c \notin wire \cup down \cup joined
  /\ \A f \in up : f.of # c
  /\ call' = [call EXCEPT ![c] = "idle"]
  /\ stage' = [stage EXCEPT ![c] = "none"]
  /\ stuck' = stuck \ {c}
  /\ UNCHANGED <<count, pending, leaked, wire, down, up, link, joined, own, overlapped, dropped, strayed>>

-----------------------------------------------------------------------------
(* From Redis to the daemon.                                               *)

\* The subscriber's handler sends the request to the daemon of the machine if it
\* is there; else, or when the relay's subscription is late, it is lost.
Deliver(c) ==
  /\ c \in wire
  /\ wire' = wire \ {c}
  /\ \/ entry /\ ws /\ down' = down \cup {c}
     \/ UNCHANGED down
  /\ UNCHANGED <<calls, up, link, joined, daemon, history>>

\* What the daemon sends reaches a relay that has not closed the socket.
Send(F) == up' = IF entry THEN up \cup F ELSE up

\* Mutant: the sessions are not subscribed again.
GreetedOnly ==
  /\ ws /\ ~greeted
  /\ greeted' = TRUE
  /\ dropped' = dropped \ Active /\ strayed' = strayed \ Active
  /\ UNCHANGED <<calls, wire, down, up, entry, ws, joined, daemon, stuck>>

\* HANDSHAKE_OK: all active sessions are subscribed.
Greeted ==
  /\ ws /\ ~greeted
  /\ greeted' = TRUE
  /\ Send({Frame("subscribe", c) : c \in Active})
  /\ dropped' = dropped \ Active /\ strayed' = strayed \ Active
  /\ UNCHANGED <<calls, wire, down, entry, ws, joined, daemon, stuck>>

\* Mutant: the limit is off by one.
AdmitOneMore(c) ==
  /\ c \in down /\ greeted
  /\ Cardinality(Active) <= MaxActive
  /\ down' = down \ {c}
  /\ stage' = [stage EXCEPT ![c] = "creating"]
  /\ own' = own \cup {c}
  /\ overlapped' = (overlapped \/ Creating # {})
  /\ UNCHANGED <<calls, wire, up, link, joined, history>>

\* A request within the limit: the handler makes keys and awaits createSession.
\* It keeps the socket the request came on.
Admit(c) ==
  /\ c \in down /\ greeted
  /\ Cardinality(Active) < MaxActive
  /\ down' = down \ {c}
  /\ stage' = [stage EXCEPT ![c] = "creating"]
  /\ own' = own \cup {c}
  /\ overlapped' = (overlapped \/ Creating # {})
  /\ UNCHANGED <<calls, wire, up, link, joined, history>>

\* The limit is reached, or the command not allowed.
Reject(c) ==
  /\ c \in down /\ greeted
  /\ down' = down \ {c}
  /\ stage' = [stage EXCEPT ![c] = "refused"]
  /\ Send({Frame("error", c)})
  /\ UNCHANGED <<calls, wire, link, joined, own, overlapped, history>>

\* The request cannot be decrypted: the error is logged and nobody answers.
Unreadable(c) ==
  /\ c \in down /\ greeted
  /\ down' = down \ {c}
  /\ stage' = [stage EXCEPT ![c] = "refused"]
  /\ UNCHANGED <<calls, wire, up, link, joined, own, overlapped, history>>

-----------------------------------------------------------------------------
(* The spawn, from the answer of createSession.                            *)

\* What the handler sends goes to its own socket: nowhere, if that is closed.
SendBack(c, F) ==
  /\ own' = own \ {c}
  /\ IF c \in own THEN Send(F) ELSE UNCHANGED up

\* The session and its program run: the daemon subscribes, and answers.
Spawned(c) ==
  /\ stage[c] = "creating"
  /\ stage' = [stage EXCEPT ![c] = "running"]
  /\ SendBack(c, {Frame("subscribe", c), Frame("spawned", c)})
  /\ strayed' = IF c \in own THEN strayed ELSE strayed \cup {c}
  /\ UNCHANGED <<calls, wire, down, link, joined, overlapped, dropped, stuck>>

\* createSession throws.
CreateFails(c) ==
  /\ stage[c] = "creating"
  /\ stage' = [stage EXCEPT ![c] = "refused"]
  /\ SendBack(c, {Frame("error", c)})
  /\ UNCHANGED <<calls, wire, down, link, joined, overlapped, history>>

\* The session is created and subscribed, but its program cannot be started.
PtyFails(c) ==
  /\ stage[c] = "creating"
  /\ stage' = [stage EXCEPT ![c] = "refused"]
  /\ SendBack(c, {Frame("subscribe", c), Frame("error", c)})
  /\ stuck' = stuck \cup {c}
  /\ UNCHANGED <<calls, wire, down, link, joined, overlapped, dropped, strayed>>

\* The program ends, and the daemon cleans up: the last output, a snapshot, the
\* status of the session.
PtyExit(c) ==
  /\ stage[c] = "running"
  /\ stage' = [stage EXCEPT ![c] = "exiting"]
  /\ UNCHANGED <<calls, wire, down, up, link, joined, own, overlapped, history>>

Cleaned(c) ==
  /\ stage[c] = "exiting"
  /\ stage' = [stage EXCEPT ![c] = "gone"]
  /\ IF ws THEN Send({Frame("unsubscribe", c)}) ELSE UNCHANGED up
  /\ dropped' = dropped \ {c} /\ strayed' = strayed \ {c}
  /\ UNCHANGED <<calls, wire, down, link, joined, own, overlapped, stuck>>

-----------------------------------------------------------------------------
(* Frames of the daemon at the relay.  A SUBSCRIBE waits for the ownership *)
(* check, and later frames overtake it, so the frames are a set.           *)

Take(type, c) ==
  /\ Frame(type, c) \in up
  /\ up' = up \ {Frame(type, c)}

TakeSubscribe(c) ==
  /\ Take("subscribe", c)
  /\ joined' = joined \cup {c}
  /\ UNCHANGED <<calls, wire, down, link, daemon, history>>

\* An UNSUBSCRIBE that overtakes the SUBSCRIBE undoes nothing.
TakeUnsubscribe(c) ==
  /\ Take("unsubscribe", c)
  /\ joined' = joined \ {c}
  /\ stuck' = IF Frame("subscribe", c) \in up THEN stuck \cup {c} ELSE stuck
  /\ UNCHANGED <<calls, wire, down, link, daemon, dropped, strayed>>

\* Mutants: any call of the user takes the answer; the count is not lowered.
AnswerAny(type, c, how) ==
  /\ Take(type, c)
  /\ IF pending # {}
       THEN \E d \in pending : Ends(d, how)
       ELSE UNCHANGED calls
  /\ UNCHANGED <<wire, down, link, joined, daemon, history>>

AnswerUncounted(type, c, how) ==
  /\ Take(type, c)
  /\ IF c \in pending
       THEN /\ call' = [call EXCEPT ![c] = how]
            /\ pending' = pending \ {c}
            /\ UNCHANGED <<count, leaked>>
       ELSE UNCHANGED calls
  /\ UNCHANGED <<wire, down, link, joined, daemon, history>>

\* SPAWN_RESPONSE: the call that waits for it ends; an answer that comes before
\* the publication is acknowledged, or after the timeout, finds none.
Answer(type, c, how) ==
  /\ Take(type, c)
  /\ IF c \in pending THEN Ends(c, how) ELSE UNCHANGED calls
  /\ UNCHANGED <<wire, down, link, joined, daemon, history>>

\* A frame beyond the rate limit is dropped, as is a SUBSCRIBE whose ownership
\* check fails.
Dropped(type, c) ==
  /\ Take(type, c)
  /\ dropped' = IF type = "subscribe" /\ c \in Active THEN dropped \cup {c} ELSE dropped
  /\ stuck' = IF type = "unsubscribe" THEN stuck \cup {c} ELSE stuck
  /\ UNCHANGED <<calls, wire, down, link, joined, daemon, strayed>>

-----------------------------------------------------------------------------
(* The socket and the process.                                             *)

\* A daemon connects and is registered.  While the relay has the old socket it
\* closes the new one with code 4003, upon which the daemon exits.
Connect ==
  /\ ~ws /\ ~entry
  /\ ws' = TRUE /\ entry' = TRUE
  /\ greeted' = FALSE
  /\ UNCHANGED <<calls, wire, down, up, joined, daemon, history>>

\* The daemon's end closes.  A spawn under way keeps the closed socket.
DaemonClose ==
  /\ ws
  /\ ws' = FALSE
  /\ down' = {} /\ own' = {}
  /\ UNCHANGED <<calls, wire, up, entry, greeted, joined, stage, overlapped, history>>

\* The relay's end closes; what is under way to it is lost.
RelayClose ==
  /\ entry
  /\ entry' = FALSE
  /\ up' = {} /\ joined' = {}
  /\ UNCHANGED <<calls, wire, down, ws, greeted, daemon, history>>

\* The daemon's process ends, and its programs with it; it may be started again.
Exit ==
  /\ ws' = FALSE
  /\ down' = {} /\ own' = {} /\ dropped' = {} /\ strayed' = {}
  /\ stage' = [c \in Calls |-> CASE c \in Active -> "gone"
                                 [] c \in Creating -> "refused"
                                 [] OTHER -> stage[c]]
  /\ overlapped' = FALSE
  /\ UNCHANGED <<calls, wire, up, entry, greeted, joined, stuck>>

-----------------------------------------------------------------------------
Next ==
  \/ \E c \in Calls :
       \/ Spawn(c) \/ Published(c) \/ PublishFails(c) \/ Timeout(c) \/ Forget(c)
       \/ Deliver(c) \/ Admit(c) \/ Reject(c) \/ Unreadable(c)
       \/ Spawned(c) \/ CreateFails(c) \/ PtyFails(c) \/ PtyExit(c) \/ Cleaned(c)
       \/ TakeSubscribe(c) \/ TakeUnsubscribe(c)
       \/ Answer("spawned", c, "served") \/ Answer("error", c, "refused")
       \/ \E type \in {"subscribe", "unsubscribe", "spawned", "error"} : Dropped(type, c)
  \/ Greeted \/ Connect \/ DaemonClose \/ RelayClose \/ Exit

Spec == Init /\ [][Next]_vars

\* A publication succeeds or throws, and timers fire.
Fairness ==
  \A c \in Calls : WF_vars(Published(c) \/ PublishFails(c)) /\ WF_vars(Timeout(c))

FairSpec == Spec /\ Fairness

-----------------------------------------------------------------------------
(* Properties.                                                             *)

TypeOK ==
  /\ call \in [Calls -> {"idle", "publishing", "waiting"} \cup Over]
  /\ count \in 0..MaxSpawns /\ leaked \in 0..MaxSpawns
  /\ pending \in SUBSET Calls /\ wire \in SUBSET Calls /\ down \in SUBSET Calls
  /\ up \in SUBSET Frames
  /\ entry \in BOOLEAN /\ ws \in BOOLEAN /\ greeted \in BOOLEAN /\ overlapped \in BOOLEAN
  /\ joined \in SUBSET Calls
  /\ stage \in [Calls -> {"none", "creating", "running", "exiting", "gone", "refused"}]
  /\ own \in SUBSET Calls
  /\ dropped \in SUBSET Calls /\ strayed \in SUBSET Calls /\ stuck \in SUBSET Calls

\* The calls that can be answered or time out are those that wait, whatever answers
\* come early, late or twice.
PendingWait == pending = {c \in Calls : call[c] = "waiting"}

\* The user's count is that of the calls under way; nothing but a publication that
\* fails leaves it too high.
SlotsHeld == count = Cardinality(UnderWay) + leaked

\* Who is told that there is a session has one: the daemon started the program.
ServedHasRun ==
  \A c \in Calls : call[c] = "served" => stage[c] \in {"running", "exiting", "gone"}

\* Once a connection is settled the relay takes the output of every session of the
\* daemon, old or new; nothing but a lost SUBSCRIBE leaves one out: one that the
\* relay dropped, or one of a spawn that began on an earlier socket.
ActiveAreJoined ==
  ws /\ entry /\ greeted =>
    \A c \in Active \ (dropped \cup strayed) : c \in joined \/ Frame("subscribe", c) \in up

\* The same without the exception of a spawn that began on an earlier socket: what
\* the daemon runs is subscribed after a reconnection.
ReconnectionsAreTransparent ==
  ws /\ entry /\ greeted =>
    \A c \in Active \ dropped : c \in joined \/ Frame("subscribe", c) \in up

\* The relay shows no session as served that has no program, but for a program that
\* did not start, and an UNSUBSCRIBE that was dropped or overtook the SUBSCRIBE.
OnlyActiveAreJoined ==
  ws /\ entry =>
    \A c \in joined \ stuck : c \in Active \/ Frame("unsubscribe", c) \in up

\* The sessions of the daemon are those the relay serves, both ways.
JoinedIsActive == ActiveAreJoined /\ OnlyActiveAreJoined

\* The daemon runs no more sessions than it may, unless a spawn was admitted while
\* another was under way: the limit is read before the await.
LimitKept == ~overlapped => Cardinality(Active) <= MaxActive

\* Every call ends, with an answer, the timeout or an error.
EveryCallEnds == \A c \in Calls : c \in UnderWay ~> c \notin UnderWay

=============================================================================
