----------------------------- MODULE HttpTunnel -----------------------------
(***************************************************************************)
(* The HTTP tunnel: a request to /tunnel/<session>/<port>/... at the relay *)
(* (apps/server/src/http-tunnel.ts and the HTTP_RESPONSE and onClose parts *)
(* of ws.ts) becomes a frame that Redis carries to the CLIs of the session, *)
(* which perform it against the local server (packages/cli/src/shared/     *)
(* http-proxy.ts) and answer over the socket it came from.                 *)
(*                                                                         *)
(* A step runs up to the next await.  The relay's timer (30 s) and those   *)
(* of the local attempts (25 s each, two of them) may fire in any order.   *)
(***************************************************************************)
EXTENDS Integers, FiniteSets

CONSTANTS
  Requests,   \* requests that may be made (bound)
  Clis,       \* sockets of CLIs and daemons
  Sessions,
  Ports,
  Serves,     \* the sessions each of Clis runs
  Forwarded   \* the forwarded ports of each session: the same in its row and its CLI

ASSUME TunnelAssumption ==
  /\ Sessions # {} /\ Ports # {}
  /\ Serves \in [Clis -> SUBSET Sessions]
  /\ Forwarded \in [Sessions -> SUBSET Ports]

VARIABLES
  stage,      \* each request: "new", "owner", "port", "sending", "waiting" (it is in
              \* pendingHttpRequests), "done"
  target,     \* the session and port it names
  reply,      \* what its caller got
  rows,       \* sessions with a row in the database
  cached,     \* sessions in the ownership cache of the relay
  joined,     \* <<cli, session>>: subscribedSessions of the sockets
  channel,    \* requests published to Redis and not yet delivered
  work,       \* per CLI and request: how far it is
  late,       \* history: requests that arrived when their session had no row
  ran         \* history: <<cli, request>>: the local server was asked

caller == <<stage, target, reply, late>>
database == <<rows, cached>>
tunnelVars == <<caller, database, joined, channel, work, ran>>

-----------------------------------------------------------------------------
Hosts == {"localhost", "127.0.0.1"}

\* "refused" is a 4xx of the relay, "failed" its 500, "timeout" its 504 (also when
\* the CLI has left: "closed"); "answer" is one of the local server, "bad" a 502 or
\* 504 of the CLI.
Replies == {"none", "refused", "failed", "timeout", "closed", "answer", "bad"}

\* "sent": the frame is on its way; the attempts; then the answer on its way back.
\* Attempts that never end, and those whose socket has been closed, have no effect at
\* the relay any more: they are "none".
Work == {"none", "sent", "localhost", "127.0.0.1", "answer", "bad"}

SessionOf(r) == target[r].session
PortOf(r) == target[r].port

TunnelInit ==
  /\ stage = [r \in Requests |-> "new"]
  /\ target \in [Requests -> [session : {CHOOSE s \in Sessions : TRUE},
                              port : {CHOOSE p \in Ports : TRUE}]]
  /\ reply = [r \in Requests |-> "none"]
  /\ rows = Sessions /\ cached = {}
  /\ joined = {} /\ channel = {}
  /\ work = [c \in Clis |-> [r \in Requests |-> "none"]]
  /\ late = {} /\ ran = {}

Finish(r, result) ==
  /\ stage' = [stage EXCEPT ![r] = "done"]
  /\ reply' = [reply EXCEPT ![r] = result]

Goes(r, s) == stage' = [stage EXCEPT ![r] = s] /\ UNCHANGED reply

-----------------------------------------------------------------------------
(* The request at the relay.                                               *)

\* The rate limit, the authentication and the path decide.
Arrive(r, s, p) ==
  /\ stage[r] = "new"
  /\ target' = [target EXCEPT ![r] = [session |-> s, port |-> p]]
  /\ late' = IF s \in rows THEN late ELSE late \cup {r}
  /\ Finish(r, "refused") \/ Goes(r, "owner")
  /\ UNCHANGED <<database, joined, channel, work, ran>>

\* verifySessionOwnership: the row, unless it is cached, then the membership.
CheckOwner(r) ==
  /\ stage[r] = "owner"
  /\ \/ SessionOf(r) \in rows \cup cached
        /\ cached' = cached \cup {SessionOf(r)}
        /\ Goes(r, "port")
     \/ Finish(r, "refused") /\ cached' \in {cached, cached \cup ({SessionOf(r)} \cap rows)}
  /\ UNCHANGED <<target, late, rows, joined, channel, work, ran>>

\* Mutant: the port is not looked up in the row.
CheckPortCached(r) ==
  /\ stage[r] = "port"
  /\ \/ PortOf(r) \in Forwarded[SessionOf(r)]
        /\ Goes(r, "sending") /\ channel' = channel \cup {r}
     \/ Finish(r, "refused") /\ UNCHANGED channel
     \/ Finish(r, "failed") /\ UNCHANGED channel
  /\ UNCHANGED <<target, late, database, joined, work, ran>>

\* The port has to be in the row; the body is read, unless it is too large; the frame
\* is published.
CheckPort(r) ==
  /\ stage[r] = "port"
  /\ \/ SessionOf(r) \in rows /\ PortOf(r) \in Forwarded[SessionOf(r)]
        /\ Goes(r, "sending") /\ channel' = channel \cup {r}
     \/ Finish(r, "refused") /\ UNCHANGED channel
     \/ Finish(r, "failed") /\ UNCHANGED channel
  /\ UNCHANGED <<target, late, database, joined, work, ran>>

\* The await of publish is over: only now the request is in pendingHttpRequests.
Pend(r) ==
  /\ stage[r] = "sending"
  /\ Goes(r, "waiting") \/ Finish(r, "failed")
  /\ UNCHANGED <<target, late, database, joined, channel, work, ran>>

\* The timer of the pending request.
Timeout(r) ==
  /\ stage[r] = "waiting"
  /\ Finish(r, "timeout")
  /\ UNCHANGED <<target, late, database, joined, channel, work, ran>>

\* Mutant: to the sockets of all sessions.
DeliverAll(r) ==
  /\ r \in channel
  /\ channel' = channel \ {r}
  /\ work' = [c \in Clis |-> IF \E s \in Sessions : <<c, s>> \in joined
                             THEN [work[c] EXCEPT ![r] = "sent"] ELSE work[c]]
  /\ UNCHANGED <<caller, database, joined, ran>>

\* Redis delivers to every socket that has joined; or the relay has lost Redis.
Deliver(r) ==
  /\ r \in channel
  /\ channel' = channel \ {r}
  /\ \/ work' = [c \in Clis |-> IF <<c, SessionOf(r)>> \in joined
                                THEN [work[c] EXCEPT ![r] = "sent"] ELSE work[c]]
     \/ UNCHANGED work
  /\ UNCHANGED <<caller, database, joined, ran>>

\* Mutant: the entry is not looked up.
TakeAnswerAgain(c, r) ==
  /\ work[c][r] \in {"answer", "bad"}
  /\ work' = [work EXCEPT ![c][r] = "none"]
  /\ Finish(r, work[c][r])
  /\ UNCHANGED <<target, late, database, joined, channel, ran>>

\* HTTP_RESPONSE: it counts if the request is still pending; or the frame was over
\* the rate limit of the socket.
TakeAnswer(c, r) ==
  /\ work[c][r] \in {"answer", "bad"}
  /\ work' = [work EXCEPT ![c][r] = "none"]
  /\ \/ stage[r] = "waiting" /\ <<c, SessionOf(r)>> \in joined /\ Finish(r, work[c][r])
     \/ UNCHANGED <<stage, reply>>
  /\ UNCHANGED <<target, late, database, joined, channel, ran>>

-----------------------------------------------------------------------------
(* The CLI.                                                                *)

Take(c, r) ==
  /\ work[c][r] = "sent"
  /\ IF PortOf(r) \in Forwarded[SessionOf(r)]
     THEN work' = [work EXCEPT ![c][r] = "localhost"] /\ ran' = ran \cup {<<c, r>>}
     ELSE work' = [work EXCEPT ![c][r] = "none"] /\ UNCHANGED ran
  /\ UNCHANGED <<caller, database, joined, channel>>

\* The attempt ends with an answer of the local server.
Answers(c, r) ==
  /\ work[c][r] \in Hosts
  /\ work' = [work EXCEPT ![c][r] = "answer"]
  /\ UNCHANGED <<caller, database, joined, channel, ran>>

\* It fails: refused, reset after the request was sent, or timed out.  The first
\* failure leads to a second attempt, whatever the first has done.
Fails(c, r) ==
  /\ work[c][r] \in Hosts
  /\ work' = [work EXCEPT ![c][r] = IF @ = "localhost" THEN "127.0.0.1" ELSE "bad"]
  /\ UNCHANGED <<caller, database, joined, channel, ran>>

\* The local server breaks off in the middle of the body: neither "end" nor "error".
Hangs(c, r) ==
  /\ work[c][r] \in Hosts
  /\ work' = [work EXCEPT ![c][r] = "none"]
  /\ UNCHANGED <<caller, database, joined, channel, ran>>

-----------------------------------------------------------------------------
(* Sockets and sessions.                                                   *)

Join(c, s) ==
  /\ s \in Serves[c] \cap (rows \cup cached)
  /\ <<c, s>> \notin joined
  /\ joined' = joined \cup {<<c, s>>}
  /\ UNCHANGED <<caller, database, channel, work, ran>>

\* The pending requests of the sessions of a socket.
Rejected(c) == {r \in Requests : stage[r] = "waiting" /\ <<c, SessionOf(r)>> \in joined}

\* onClose of a CLI or daemon.
Close(c) ==
  /\ \E s \in Sessions : <<c, s>> \in joined
  /\ joined' = {j \in joined : j[1] # c}
  /\ stage' = [r \in Requests |-> IF r \in Rejected(c) THEN "done" ELSE stage[r]]
  /\ reply' = [r \in Requests |-> IF r \in Rejected(c) THEN "closed" ELSE reply[r]]
  /\ work' = [work EXCEPT ![c] = [r \in Requests |-> "none"]]
  /\ UNCHANGED <<target, late, database, channel, ran>>

\* The session is deleted; an entry of the ownership cache expires or is evicted.
DeleteSession(s) ==
  /\ s \in rows
  /\ rows' = rows \ {s}
  /\ UNCHANGED <<caller, cached, joined, channel, work, ran>>

Expire(s) ==
  /\ s \in cached
  /\ cached' = cached \ {s}
  /\ UNCHANGED <<caller, rows, joined, channel, work, ran>>

-----------------------------------------------------------------------------
\* All but the arrivals.
TunnelStep ==
  \/ \E r \in Requests : CheckOwner(r) \/ CheckPort(r) \/ Pend(r) \/ Timeout(r) \/ Deliver(r)
  \/ \E c \in Clis, r \in Requests :
       Take(c, r) \/ Answers(c, r) \/ Fails(c, r) \/ Hangs(c, r) \/ TakeAnswer(c, r)
  \/ \E c \in Clis : Close(c)
  \/ \E c \in Clis, s \in Sessions : Join(c, s)
  \/ \E s \in Sessions : DeleteSession(s) \/ Expire(s)

TunnelNext ==
  \/ TunnelStep
  \/ \E r \in Requests, s \in Sessions, p \in Ports : Arrive(r, s, p)

TunnelSpec == TunnelInit /\ [][TunnelNext]_tunnelVars

-----------------------------------------------------------------------------
(* Properties.                                                             *)

TunnelTypeOK ==
  /\ stage \in [Requests -> {"new", "owner", "port", "sending", "waiting", "done"}]
  /\ target \in [Requests -> [session : Sessions, port : Ports]]
  /\ reply \in [Requests -> Replies]
  /\ rows \subseteq Sessions /\ cached \subseteq Sessions
  /\ joined \subseteq Clis \X Sessions
  /\ channel \subseteq Requests
  /\ work \in [Clis -> [Requests -> Work]]
  /\ late \subseteq Requests
  /\ ran \subseteq Clis \X Requests

\* A caller gets one reply, however the timer, the answers of several CLIs, a second
\* attempt and the close of a socket race; and it is given up early only because a CLI
\* of its own session has gone.
OneReply ==
  [][\A r \in Requests :
       /\ stage[r] = "done" => stage'[r] = "done" /\ reply'[r] = reply[r]
       /\ reply[r] = "none" /\ reply'[r] = "closed" =>
            \E c \in Clis : <<c, SessionOf(r)>> \in joined \ joined']_tunnelVars

\* A local server is asked only by a CLI of the session that the request names, for a
\* port which that session forwards; and who gets an answer has had such a CLI ask.
AskedIsOwn ==
  /\ \A c \in Clis, r \in Requests : <<c, r>> \in ran =>
       SessionOf(r) \in Serves[c] /\ PortOf(r) \in Forwarded[SessionOf(r)]
  /\ \A r \in Requests : reply[r] \in {"answer", "bad"} =>
       \E c \in Clis : <<c, r>> \in ran

\* A request that arrives after its session was deleted never reaches a local server,
\* even while the relay still has the owner cached and the CLI is still connected.
DeletedNotForwarded == \A c \in Clis, r \in late : <<c, r>> \notin ran

=============================================================================
