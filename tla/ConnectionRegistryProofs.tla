---------------------- MODULE ConnectionRegistryProofs ----------------------
(***************************************************************************)
(* Proofs about ConnectionRegistry, for any set of sockets and machines    *)
(* and any limit.                                                          *)
(*                                                                         *)
(* The properties are not inductive by themselves.  Registered says in     *)
(* addition that a handshake under way has no client state yet, and        *)
(* Prompt that a socket whose handshake is under way is only closed when   *)
(* it is late.                                                             *)
(***************************************************************************)
EXTENDS ConnectionRegistry, FiniteSetTheorems, TLAPS

\* A socket gets its client state when its handshake is over.
Registered == \A k \in clients : stage[k] = "over"

\* A handshake timer runs for a socket that is not closed; a token is checked for
\* a socket that is not closed, or late.
Prompt ==
  \A k \in Sockets :
    /\ stage[k] = "pending" => ready[k] # "closed"
    /\ stage[k] = "auth" /\ ready[k] = "closed" => k \in late

Counted == IsFiniteSet(clients) /\ CountedOnce

IInv == TypeOK /\ Registered /\ Prompt /\ Counted /\ NoGhostClient /\ DaemonReachable

-----------------------------------------------------------------------------
LEMMA InitIInv == Init => IInv
<1> SUFFICES ASSUME Init PROVE IInv
  OBVIOUS
<1> USE RegistryAssumption DEF Init
<1>1. TypeOK
  BY DEF TypeOK
<1>2. Counted
  BY FS_EmptySet DEF Counted, CountedOnce
<1>3. Registered /\ Prompt /\ NoGhostClient /\ DaemonReachable
  BY DEF Registered, Prompt, NoGhostClient, DaemonReachable
<1> QED
  BY <1>1, <1>2, <1>3 DEF IInv

\* The type invariant is inductive by itself.
LEMMA TypeStep == TypeOK /\ [Next]_vars => TypeOK'
<1> SUFFICES ASSUME TypeOK, [Next]_vars PROVE TypeOK'
  OBVIOUS
<1> USE RegistryAssumption DEF TypeOK, table, daemons
<1>1. ASSUME NEW k \in Sockets, Open(k) PROVE TypeOK'
  BY <1>1 DEF Open
<1>2. ASSUME NEW k \in Sockets, NoHandshake(k) PROVE TypeOK'
  BY <1>2 DEF NoHandshake, Over, CloseAll, IsOpen
<1>3. ASSUME NEW k \in Sockets, AuthFail(k) PROVE TypeOK'
  BY <1>3 DEF AuthFail, Over, CloseAll, IsOpen
<1>4. ASSUME NEW k \in Sockets, Refuse(k) PROVE TypeOK'
  BY <1>4 DEF Refuse, Over, CloseAll, IsOpen
<1>5. ASSUME NEW k \in Sockets, Accept(k) PROVE TypeOK'
  <2>1. count' \in 0..MaxConnections
    BY <1>5 DEF Accept, Register
  <2>2. entry' \in [Machines -> Sockets \cup {NoSocket}]
    BY <1>5 DEF Accept, Register
  <2>3. channel' \in SUBSET Machines
    BY <1>5 DEF Accept, Register
  <2> QED
    BY <1>5, <2>1, <2>2, <2>3 DEF Accept, Register, Over
<1>6. ASSUME NEW k \in Sockets, Pong(k) PROVE TypeOK'
  BY <1>6 DEF Pong
<1>7. ASSUME NEW k \in Sockets, Vanish(k) PROVE TypeOK'
  BY <1>7 DEF Vanish
<1>8. ASSUME NEW k \in Sockets, Close(k) PROVE TypeOK'
  <2>1. /\ clients' \in SUBSET Sockets /\ alive' \in SUBSET clients'
        /\ count' \in 0..MaxConnections
        /\ entry' \in [Machines -> Sockets \cup {NoSocket}]
        /\ channel' \in SUBSET Machines
    BY <1>8 DEF Close, Unregister
  <2> QED
    BY <1>8, <2>1 DEF Close
<1>9. ASSUME NEW k \in Sockets, NEW m \in Machines \cup {NoMachine}, Handshake(k, m)
      PROVE TypeOK'
  BY <1>9 DEF Handshake
<1>10. ASSUME Heartbeat PROVE TypeOK'
  BY <1>10 DEF Heartbeat, CloseAll, IsOpen
<1>11. ASSUME UNCHANGED vars PROVE TypeOK'
  BY <1>11 DEF vars
<1> QED
  BY <1>1, <1>2, <1>3, <1>4, <1>5, <1>6, <1>7, <1>8, <1>9, <1>10, <1>11 DEF Next

\* Calls of ws.close open no socket and close none at once.
LEMMA CloseAllReady ==
  ASSUME TypeOK, NEW S, CloseAll(S), NEW k \in Sockets
  PROVE  /\ IsOpen(k)' => IsOpen(k)
         /\ ready'[k] = "closed" <=> ready[k] = "closed"
BY DEF TypeOK, CloseAll, IsOpen

\* The handshake bookkeeping of every step.
LEMMA StageStep ==
  TypeOK /\ Registered /\ Prompt /\ [Next]_vars => Registered' /\ Prompt'
<1> SUFFICES ASSUME TypeOK, Registered, Prompt, [Next]_vars PROVE Registered' /\ Prompt'
  OBVIOUS
<1> USE DEF table, daemons, Registered, Prompt
<1>1. ASSUME NEW k \in Sockets, Open(k) PROVE Registered' /\ Prompt'
  BY <1>1 DEF Open, TypeOK
<1>2. ASSUME NEW k \in Sockets, Over(k), CloseAll({k}), UNCHANGED <<clients, late>>
      PROVE  Registered' /\ Prompt'
  BY <1>2, CloseAllReady DEF Over, TypeOK
<1>3. ASSUME NEW k \in Sockets, NoHandshake(k) \/ AuthFail(k) \/ Refuse(k)
      PROVE  Registered' /\ Prompt'
  BY <1>2, <1>3 DEF NoHandshake, AuthFail, Refuse
<1>4. ASSUME NEW k \in Sockets, Accept(k) PROVE Registered' /\ Prompt'
  BY <1>4 DEF Accept, Register, Over, TypeOK
<1>5. ASSUME NEW k \in Sockets, Pong(k) \/ Vanish(k) PROVE Registered' /\ Prompt'
  BY <1>5 DEF Pong, Vanish
<1>6. ASSUME NEW k \in Sockets, Close(k) PROVE Registered' /\ Prompt'
  BY <1>6 DEF Close, Unregister, TypeOK
<1>7. ASSUME NEW k \in Sockets, NEW m \in Machines \cup {NoMachine}, Handshake(k, m)
      PROVE  Registered' /\ Prompt'
  BY <1>7 DEF Handshake, IsOpen, TypeOK
<1>8. ASSUME Heartbeat PROVE Registered' /\ Prompt'
  BY <1>8, CloseAllReady DEF Heartbeat, TypeOK
<1>9. ASSUME UNCHANGED vars PROVE Registered' /\ Prompt'
  BY <1>9 DEF vars
<1> QED
  BY <1>1, <1>3, <1>4, <1>5, <1>6, <1>7, <1>8, <1>9 DEF Next

\* Every increment of the counter goes with a new client, and every decrement
\* with one that leaves.
LEMMA CountStep == TypeOK /\ Registered /\ Counted /\ [Next]_vars => Counted'
<1> SUFFICES ASSUME TypeOK, Registered, Counted, [Next]_vars PROVE Counted'
  OBVIOUS
<1> USE DEF Counted, CountedOnce
<1>1. ASSUME NEW k \in Sockets, Accept(k) PROVE Counted'
  <2>1. k \notin clients
    BY <1>1 DEF Accept, Registered
  <2>2. IsFiniteSet(clients') /\ Cardinality(clients') = Cardinality(clients) + 1
    BY <1>1, <2>1, FS_AddElement DEF Accept, Register
  <2> QED
    BY <1>1, <2>2 DEF Accept, Register
<1>2. ASSUME NEW k \in Sockets, Close(k) PROVE Counted'
  <2>1. CASE k \in clients
    <3>1. IsFiniteSet(clients') /\ Cardinality(clients') = Cardinality(clients) - 1
      BY <1>2, <2>1, FS_RemoveElement DEF Close, Unregister
    <3>2. count \in Nat /\ count # 0
      BY <2>1, FS_EmptySet DEF TypeOK
    <3> QED
      BY <1>2, <2>1, <3>1, <3>2 DEF Close, Unregister
  <2>2. CASE k \notin clients
    BY <1>2, <2>2 DEF Close, table
  <2> QED
    BY <2>1, <2>2
<1>3. ASSUME UNCHANGED <<clients, count>> PROVE Counted'
  BY <1>3
<1> QED
  BY <1>1, <1>2, <1>3 DEF Next, vars, table, daemons, Open, NoHandshake, AuthFail, Refuse,
                          Pong, Vanish, Handshake, Heartbeat

\* What the relay holds about open daemons.
LEMMA DaemonStep ==
  TypeOK /\ Registered /\ DaemonReachable /\ [Next]_vars => DaemonReachable'
<1> SUFFICES ASSUME TypeOK, Registered, DaemonReachable, [Next]_vars,
                    NEW j \in clients', IsOpen(j)', machine'[j] # NoMachine
             PROVE  entry'[machine'[j]] = j /\ machine'[j] \in channel'
  BY DEF DaemonReachable
<1> DEFINE Goal == entry'[machine'[j]] = j /\ machine'[j] \in channel'
<1> USE DEF table, daemons
<1>0. j \in Sockets /\ TypeOK'
  BY TypeStep DEF TypeOK
<1>1. ASSUME j \in clients, IsOpen(j), machine'[j] = machine[j],
             UNCHANGED <<entry, channel>>
      PROVE  Goal
  BY <1>1 DEF DaemonReachable
<1>2. ASSUME NEW k \in Sockets, Open(k) PROVE Goal
  BY <1>0, <1>1, <1>2 DEF Open, IsOpen, TypeOK
<1>3. ASSUME NEW k \in Sockets, NoHandshake(k) \/ AuthFail(k) \/ Refuse(k) PROVE Goal
  BY <1>0, <1>1, <1>3, CloseAllReady DEF NoHandshake, AuthFail, Refuse
<1>4. ASSUME NEW k \in Sockets, Accept(k) PROVE Goal
  <2>1. UNCHANGED <<ready, machine>>
    BY <1>4 DEF Accept
  <2>2. machine[j] \in Machines
    BY <1>0, <2>1 DEF TypeOK
  <2>3. CASE j = k
    BY <1>4, <2>1, <2>2, <2>3 DEF Accept, Register
  <2>4. CASE j # k
    <3>1. j \in clients /\ IsOpen(j)
      BY <1>4, <2>1, <2>4 DEF Accept, Register, IsOpen
    <3>2. entry[machine[j]] = j /\ machine[j] \in channel
      BY <2>1, <3>1 DEF DaemonReachable
    <3>3. machine[j] # machine[k]
      <4>1. j # NoSocket
        BY <1>0, RegistryAssumption
      <4> QED
        BY <1>4, <2>1, <3>1, <3>2, <4>1 DEF Accept, Duplicate, Online
    <3> QED
      BY <1>4, <2>1, <2>2, <3>2, <3>3 DEF Accept, Register
  <2> QED
    BY <2>3, <2>4
<1>5. ASSUME NEW k \in Sockets, Pong(k) \/ Vanish(k) PROVE Goal
  BY <1>1, <1>5 DEF Pong, Vanish, IsOpen
<1>6. ASSUME NEW k \in Sockets, Close(k) PROVE Goal
  <2>1. j # k
    BY <1>0, <1>6 DEF Close, IsOpen, TypeOK
  <2>2. j \in clients /\ IsOpen(j) /\ machine'[j] = machine[j]
    BY <1>0, <1>6, <2>1 DEF Close, Unregister, IsOpen, TypeOK
  <2>3. entry[machine[j]] = j /\ machine[j] \in channel /\ machine[j] \in Machines
    BY <1>0, <2>2 DEF DaemonReachable, TypeOK
  <2> QED
    BY <1>6, <2>1, <2>2, <2>3 DEF Close, Unregister
<1>7. ASSUME NEW k \in Sockets, NEW m \in Machines \cup {NoMachine}, Handshake(k, m)
      PROVE  Goal
  <2>1. j \in clients /\ j # k
    BY <1>7 DEF Handshake, Registered
  <2> QED
    BY <1>0, <1>1, <1>7, <2>1 DEF Handshake, IsOpen, TypeOK
<1>8. ASSUME Heartbeat PROVE Goal
  BY <1>0, <1>1, <1>8, CloseAllReady DEF Heartbeat
<1>9. ASSUME UNCHANGED vars PROVE Goal
  BY <1>1, <1>9 DEF vars, IsOpen
<1> QED
  BY <1>2, <1>3, <1>4, <1>5, <1>6, <1>7, <1>8, <1>9 DEF Next

\* Who has a client state and is not late is not closed.
LEMMA GhostStep ==
  TypeOK /\ Registered /\ Prompt /\ NoGhostClient /\ [Next]_vars => NoGhostClient'
<1> SUFFICES ASSUME TypeOK, Registered, Prompt, NoGhostClient, [Next]_vars,
                    NEW j \in clients', j \notin late'
             PROVE  ready'[j] # "closed"
  BY DEF NoGhostClient
<1> DEFINE Goal == ready'[j] # "closed"
<1> USE DEF table, daemons
<1>0. j \in Sockets
  BY TypeStep DEF TypeOK
<1>1. ASSUME NEW k \in Sockets, Open(k) PROVE Goal
  BY <1>0, <1>1 DEF Open, TypeOK, NoGhostClient
<1>2. ASSUME NEW k \in Sockets, NoHandshake(k) \/ AuthFail(k) \/ Refuse(k) PROVE Goal
  BY <1>0, <1>2, CloseAllReady DEF NoHandshake, AuthFail, Refuse, NoGhostClient
<1>3. ASSUME NEW k \in Sockets, Accept(k) PROVE Goal
  BY <1>0, <1>3 DEF Accept, Register, Prompt, NoGhostClient
<1>4. ASSUME NEW k \in Sockets, Pong(k) \/ Vanish(k) PROVE Goal
  BY <1>4 DEF Pong, Vanish, NoGhostClient
<1>5. ASSUME NEW k \in Sockets, Close(k) PROVE Goal
  <2>1. j \in clients \ late
    BY <1>5 DEF Close, Unregister
  <2>2. j # k
    BY <1>5, <2>1 DEF Close, Unregister
  <2> QED
    BY <1>0, <1>5, <2>1, <2>2 DEF Close, TypeOK, NoGhostClient
<1>6. ASSUME NEW k \in Sockets, NEW m \in Machines \cup {NoMachine}, Handshake(k, m)
      PROVE  Goal
  BY <1>6 DEF Handshake, NoGhostClient
<1>7. ASSUME Heartbeat PROVE Goal
  BY <1>0, <1>7, CloseAllReady DEF Heartbeat, NoGhostClient
<1>8. ASSUME UNCHANGED vars PROVE Goal
  BY <1>8 DEF vars, NoGhostClient
<1> QED
  BY <1>1, <1>2, <1>3, <1>4, <1>5, <1>6, <1>7, <1>8 DEF Next

-----------------------------------------------------------------------------
LEMMA Invariance == Spec => []IInv
<1>1. IInv /\ [Next]_vars => IInv'
  BY TypeStep, StageStep, CountStep, DaemonStep, GhostStep DEF IInv
<1> QED
  BY InitIInv, <1>1, PTL DEF Spec

\* The registry keeps its types; in particular no user ever has more client
\* states counted than MAX_CONNECTIONS_PER_USER.
THEOREM RegistryTypes == Spec => []TypeOK
<1>1. IInv => TypeOK
  BY DEF IInv
<1> QED
  BY Invariance, <1>1, PTL

\* userConnectionCount is the number of client states of the user.
THEOREM ExactCount == Spec => []CountedOnce
<1>1. IInv => CountedOnce
  BY DEF IInv, Counted
<1> QED
  BY Invariance, <1>1, PTL

\* Only a socket that closed while its token was checked leaves a client behind.
THEOREM OnlyLateGhosts == Spec => []NoGhostClient
<1>1. IInv => NoGhostClient
  BY DEF IInv
<1> QED
  BY Invariance, <1>1, PTL

\* A connected daemon is in the map and its channel subscribed.
THEOREM ReachableDaemons == Spec => []DaemonReachable
<1>1. IInv => DaemonReachable
  BY DEF IInv
<1> QED
  BY Invariance, <1>1, PTL

\* No machine has two open daemons: they would both be the one in the map.
THEOREM SingleDaemon == Spec => []OneDaemonPerMachine
<1>1. DaemonReachable => OneDaemonPerMachine
  BY DEF DaemonReachable, OneDaemonPerMachine
<1> QED
  BY ReachableDaemons, <1>1, PTL

=============================================================================
