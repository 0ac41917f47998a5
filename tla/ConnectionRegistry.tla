------------------------- MODULE ConnectionRegistry -------------------------
(***************************************************************************)
(* The sockets of one user at the relay: apps/server/src/ws.ts, from the   *)
(* upgrade to onClose, without the frames of sessions.                     *)
(*                                                                         *)
(* A socket has ten seconds for its first message, the handshake, which    *)
(* names the kind of client.  While the token is checked the handler waits *)
(* and the socket may close.  Then the relay refuses a second daemon of    *)
(* the same machine and a connection too many, or registers the client.    *)
(* A heartbeat closes clients that do not answer.                          *)
(*                                                                         *)
(* Users share no entry of any of the maps, so one user is modelled.       *)
(***************************************************************************)
EXTENDS Integers, FiniteSets

CONSTANTS
  Sockets,          \* names of sockets; a name is used again once it is forgotten
  Machines,         \* machine ids of the user's daemons
  MaxConnections,   \* MAX_CONNECTIONS_PER_USER
  NoMachine,        \* what a browser or a CLI has for a machine id
  NoSocket          \* an entry the machine map does not hold

ASSUME RegistryAssumption ==
  /\ MaxConnections \in Nat \ {0}
  /\ NoMachine \notin Machines
  /\ NoSocket \notin Sockets

VARIABLES
  ready,       \* readyState of each socket
  stage,       \* "pending": in pendingHandshakes; "auth": the handler awaits
  machine,     \* machine id the handshake gave, NoMachine unless a daemon
  clients,     \* clients: the sockets that have a ClientState
  alive,       \* those whose isAlive is set
  count,       \* userConnectionCount
  entry,       \* userDaemonClients: the socket of each machine
  channel,     \* machines whose Redis channel the relay is subscribed to
  gone,        \* sockets whose peer vanished: no frame, no close, no answer
  late         \* history: sockets that closed while their token was checked

vars == <<ready, stage, machine, clients, alive, count, entry, channel, gone, late>>
daemons == <<entry, channel>>
table == <<clients, alive, count, daemons>>

Init ==
  /\ ready = [k \in Sockets |-> "closed"]
  /\ stage = [k \in Sockets |-> "over"]
  /\ machine = [k \in Sockets |-> NoMachine]
  /\ clients = {} /\ alive = {}
  /\ count = 0
  /\ entry = [m \in Machines |-> NoSocket]
  /\ channel = {}
  /\ gone = {} /\ late = {}

-----------------------------------------------------------------------------
IsOpen(k) == ready[k] = "open"

\* The relay calls ws.close on the sockets of S: of those that are open, the
\* closing handshake starts.
CloseAll(S) ==
  ready' = [k \in Sockets |-> IF k \in S /\ IsOpen(k) THEN "closing" ELSE ready[k]]

\* The handshake of socket k is over.
Over(k) == stage' = [stage EXCEPT ![k] = "over"]

\* A daemon of machine m is registered and its socket open.
Online(m) == entry[m] # NoSocket /\ IsOpen(entry[m])

-----------------------------------------------------------------------------
(* From the upgrade to the client state.                                   *)

Open(k) ==
  /\ ready[k] = "closed" /\ stage[k] = "over"
  /\ k \notin clients
  /\ \A m \in Machines : entry[m] # k
  /\ ready' = [ready EXCEPT ![k] = "open"]
  /\ stage' = [stage EXCEPT ![k] = "pending"]
  /\ machine' = [machine EXCEPT ![k] = NoMachine]
  /\ gone' = gone \ {k} /\ late' = late \ {k}
  /\ UNCHANGED table

\* HANDSHAKE_TIMEOUT_MS passed, or the first message is no handshake: binary, not
\* JSON, of another version, without a token.
NoHandshake(k) ==
  /\ stage[k] = "pending"
  /\ Over(k)
  /\ CloseAll({k})
  /\ UNCHANGED <<machine, table, gone, late>>

\* A handshake with a token: the handler awaits authenticateWsToken.
Handshake(k, m) ==
  /\ stage[k] = "pending" /\ IsOpen(k) /\ k \notin gone
  /\ stage' = [stage EXCEPT ![k] = "auth"]
  /\ machine' = [machine EXCEPT ![k] = m]
  /\ UNCHANGED <<ready, table, gone, late>>

\* The token is refused, or a daemon named no machine.
AuthFail(k) ==
  /\ stage[k] = "auth"
  /\ Over(k)
  /\ CloseAll({k})
  /\ UNCHANGED <<machine, table, gone, late>>

Duplicate(k) == machine[k] # NoMachine /\ Online(machine[k])

\* The token is good, but the machine has a daemon, or the user enough sockets.
Refuse(k) ==
  /\ stage[k] = "auth"
  /\ Duplicate(k) \/ count >= MaxConnections
  /\ Over(k)
  /\ CloseAll({k})
  /\ UNCHANGED <<machine, table, gone, late>>

\* The client state, and the entry of a daemon.
Register(k) ==
  /\ clients' = clients \cup {k}
  /\ alive' = alive \cup {k}
  /\ count' = count + 1
  /\ entry' = [m \in Machines |-> IF m = machine[k] THEN k ELSE entry[m]]
  /\ channel' = channel \cup ({machine[k]} \ {NoMachine})

\* Mutant: the machine is checked before the await only.
AcceptUnchecked(k) ==
  /\ stage[k] = "auth"
  /\ count < MaxConnections
  /\ Over(k)
  /\ Register(k)
  /\ UNCHANGED <<ready, machine, gone, late>>

\* The user is let in, whether or not the socket is still there: the handler does
\* not ask.
Accept(k) ==
  /\ stage[k] = "auth"
  /\ ~Duplicate(k) /\ count < MaxConnections
  /\ Over(k)
  /\ Register(k)
  /\ UNCHANGED <<ready, machine, gone, late>>

-----------------------------------------------------------------------------
(* The heartbeat and the end.                                              *)

\* Mutant: isAlive is not reset.
HeartbeatTrusting ==
  /\ clients # {}
  /\ CloseAll(clients \ alive)
  /\ UNCHANGED <<stage, machine, table, gone, late>>

\* Every PING_INTERVAL_MS: who did not answer the last ping is closed.
Heartbeat ==
  /\ clients # {}
  /\ CloseAll(clients \ alive)
  /\ alive' = {}
  /\ UNCHANGED <<stage, machine, clients, count, daemons, gone, late>>

\* A pong that the rate limit lets through.
Pong(k) ==
  /\ k \in clients \ alive /\ IsOpen(k) /\ k \notin gone
  /\ alive' = alive \cup {k}
  /\ UNCHANGED <<ready, stage, machine, clients, count, daemons, gone, late>>

Vanish(k) ==
  /\ IsOpen(k)
  /\ gone' = gone \cup {k}
  /\ UNCHANGED <<ready, stage, machine, table, late>>

\* Mutants: the daemon's entry is deleted whoever holds it; the client state stays.
UnregisterAny(k) ==
  LET own == {m \in Machines : m = machine[k]} IN
  /\ clients' = clients \ {k}
  /\ alive' = alive \ {k}
  /\ count' = IF count <= 1 THEN 0 ELSE count - 1
  /\ entry' = [m \in Machines |-> IF m \in own THEN NoSocket ELSE entry[m]]
  /\ channel' = channel \ own

UnregisterKeepsClient(k) ==
  LET own == {m \in Machines : m = machine[k] /\ entry[m] = k} IN
  /\ count' = IF count <= 1 THEN 0 ELSE count - 1
  /\ entry' = [m \in Machines |-> IF m \in own THEN NoSocket ELSE entry[m]]
  /\ channel' = channel \ own
  /\ UNCHANGED <<clients, alive>>

\* onClose takes the client out of the maps; a daemon's entry only when it is its
\* own, for a new daemon may have taken the place of a socket that was closing.
Unregister(k) ==
  LET own == {m \in Machines : m = machine[k] /\ entry[m] = k} IN
  /\ clients' = clients \ {k}
  /\ alive' = alive \ {k}
  /\ count' = IF count <= 1 THEN 0 ELSE count - 1
  /\ entry' = [m \in Machines |-> IF m \in own THEN NoSocket ELSE entry[m]]
  /\ channel' = channel \ own

\* Mutant: onClose does not ask whether there is a client state.
CloseAlways(k) ==
  /\ ready[k] # "closed"
  /\ ready' = [ready EXCEPT ![k] = "closed"]
  /\ stage' = [stage EXCEPT ![k] = IF @ = "pending" THEN "over" ELSE @]
  /\ late' = IF stage[k] = "auth" THEN late \cup {k} ELSE late
  /\ Unregister(k)
  /\ UNCHANGED <<machine, gone>>

\* The socket is closed, by either side.
Close(k) ==
  /\ ready[k] # "closed"
  /\ ready' = [ready EXCEPT ![k] = "closed"]
  /\ stage' = [stage EXCEPT ![k] = IF @ = "pending" THEN "over" ELSE @]
  /\ late' = IF stage[k] = "auth" THEN late \cup {k} ELSE late
  /\ IF k \in clients THEN Unregister(k) ELSE UNCHANGED table
  /\ UNCHANGED <<machine, gone>>

-----------------------------------------------------------------------------
Next ==
  \/ \E k \in Sockets :
       \/ Open(k) \/ NoHandshake(k) \/ AuthFail(k) \/ Refuse(k) \/ Accept(k)
       \/ Pong(k) \/ Vanish(k) \/ Close(k)
       \/ \E m \in Machines \cup {NoMachine} : Handshake(k, m)
  \/ Heartbeat

Spec == Init /\ [][Next]_vars

\* Timers fire, the token check answers, and a socket that is being closed is
\* closed in the end: the WebSocket library destroys it after a while.
Fairness ==
  /\ WF_vars(Heartbeat)
  /\ \A k \in Sockets :
       /\ WF_vars(NoHandshake(k))
       /\ WF_vars(AuthFail(k) \/ Refuse(k) \/ Accept(k))
       /\ WF_vars(ready[k] = "closing" /\ Close(k))

FairSpec == Spec /\ Fairness

-----------------------------------------------------------------------------
(* Properties.                                                             *)

TypeOK ==
  /\ ready \in [Sockets -> {"open", "closing", "closed"}]
  /\ stage \in [Sockets -> {"pending", "auth", "over"}]
  /\ machine \in [Sockets -> Machines \cup {NoMachine}]
  /\ clients \in SUBSET Sockets /\ alive \in SUBSET clients
  /\ count \in 0..MaxConnections
  /\ entry \in [Machines -> Sockets \cup {NoSocket}]
  /\ channel \in SUBSET Machines
  /\ gone \in SUBSET Sockets /\ late \in SUBSET Sockets

\* The counter is the number of client states, so that a user who is below the
\* limit is let in and nobody gets past it: also when handshakes overlap, and
\* closes come in any order.
CountedOnce == count = Cardinality(clients)

\* A client state belongs to a socket that is not closed, unless the socket
\* closed while its token was checked.
NoGhostClient == \A k \in clients \ late : ready[k] # "closed"

\* Two handshakes for the same machine, overlapping at will, never both win.
OneDaemonPerMachine ==
  \A k, j \in clients :
    machine[k] # NoMachine /\ machine[k] = machine[j] /\ IsOpen(k) /\ IsOpen(j) => k = j

\* A connected daemon gets the spawn requests of its machine: it is the one in
\* the map, and the relay listens on the machine's channel, although the daemon
\* may have come while the socket of its predecessor was still closing.
DaemonReachable ==
  \A k \in clients :
    IsOpen(k) /\ machine[k] # NoMachine => entry[machine[k]] = k /\ machine[k] \in channel

\* A peer that vanished is noticed at every stage of the connection, by the
\* handshake timer or by the heartbeat.
GoneIsNoticed == \A k \in Sockets : k \in gone ~> k \notin gone \/ ready[k] = "closed"

=============================================================================
