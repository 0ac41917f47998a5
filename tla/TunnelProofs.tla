---------------------------- MODULE TunnelProofs ----------------------------
(***************************************************************************)
(* Proofs about HttpTunnel and WebPreview, for every value of their        *)
(* constants: any number of requests, sockets, sessions and ports.         *)
(***************************************************************************)
EXTENDS WebPreview, FiniteSetTheorems, TLAPS

(***************************************************************************)
(* The tunnel.                                                             *)
(***************************************************************************)

\* Where a request and its copies can be.  AskedIsOwn is not inductive: that the
\* CLI which asks is one of the session depends on who was sent the frame, and
\* that the session named is still the one depends on nothing being under way
\* for a request that may still be made.
Tracked ==
  /\ \A j \in joined : j[2] \in Serves[j[1]]
  /\ \A r \in channel : stage[r] # "new"
  /\ \A c \in Clis, r \in Requests :
       /\ work[c][r] # "none" => stage[r] # "new" /\ SessionOf(r) \in Serves[c]
       /\ work[c][r] \notin {"none", "sent"} => <<c, r>> \in ran
       /\ <<c, r>> \in ran => stage[r] # "new"
  /\ \A r \in Requests : stage[r] = "new" => reply[r] = "none"

\* A request that came too late is stopped before it is published.
Stopped ==
  \A r \in late :
    /\ stage[r] \notin {"new", "sending", "waiting"}
    /\ SessionOf(r) \notin rows
    /\ r \notin channel
    /\ \A c \in Clis : work[c][r] = "none" /\ <<c, r>> \notin ran

TunnelInv == TunnelTypeOK /\ Tracked /\ AskedIsOwn /\ Stopped

LEMMA TunnelInitInv == TunnelInit => TunnelInv
<1> SUFFICES ASSUME TunnelInit
             PROVE  TunnelInv
  OBVIOUS
<1>1. /\ (CHOOSE s \in Sessions : TRUE) \in Sessions
      /\ (CHOOSE p \in Ports : TRUE) \in Ports
  BY TunnelAssumption
<1>2. TunnelTypeOK
  BY <1>1 DEF TunnelInit, TunnelTypeOK, Replies, Work
<1> QED
  BY <1>2 DEF TunnelInit, TunnelInv, Tracked, AskedIsOwn, Stopped

LEMMA TunnelTypeStep ==
  ASSUME TunnelTypeOK, [TunnelNext]_tunnelVars
  PROVE  TunnelTypeOK'
<1> USE DEF TunnelTypeOK, Replies, Work, Hosts, Finish, Goes, caller, database
<1>1. ASSUME NEW r \in Requests, NEW s \in Sessions, NEW p \in Ports, Arrive(r, s, p)
      PROVE  TunnelTypeOK'
  <2>1. [session |-> s, port |-> p] \in [session : Sessions, port : Ports]
    OBVIOUS
  <2> QED
    BY <1>1, <2>1 DEF Arrive
<1>2. ASSUME NEW r \in Requests, CheckOwner(r)
      PROVE  TunnelTypeOK'
  BY <1>2 DEF CheckOwner, SessionOf
<1>3. ASSUME NEW r \in Requests, CheckPort(r) \/ Pend(r) \/ Timeout(r)
      PROVE  TunnelTypeOK'
  BY <1>3 DEF CheckPort, Pend, Timeout
<1>4. ASSUME NEW r \in Requests, Deliver(r)
      PROVE  TunnelTypeOK'
  <2> DEFINE Sent(c) == [work[c] EXCEPT ![r] = "sent"]
  <2>1. \A c \in Clis : Sent(c) \in [Requests -> Work]
    OBVIOUS
  <2>3. \/ work' = [c \in Clis |-> IF <<c, SessionOf(r)>> \in joined THEN Sent(c) ELSE work[c]]
        \/ work' = work
    BY <1>4 DEF Deliver
  <2> DEFINE Row == [Requests -> Work]
  <2>4. work \in [Clis -> Row] /\ \A c \in Clis : Sent(c) \in Row
    BY <2>1
  <2> HIDE DEF Sent, Row
  <2>5. work' \in [Clis -> Row]
    BY <2>3, <2>4
  <2>2. work' \in [Clis -> [Requests -> Work]]
    BY <2>5 DEF Row
  <2> QED
    BY <1>4, <2>2 DEF Deliver
<1>5. ASSUME NEW c \in Clis, NEW r \in Requests,
             Take(c, r) \/ Answers(c, r) \/ Fails(c, r) \/ Hangs(c, r) \/ TakeAnswer(c, r)
      PROVE  TunnelTypeOK'
  <2>1. \E w \in Work : work' = [work EXCEPT ![c][r] = w]
    BY <1>5, Zenon DEF Take, Answers, Fails, Hangs, TakeAnswer
  <2>2. work' \in [Clis -> [Requests -> Work]]
    BY <2>1
  <2>3. ran' = ran \/ ran' = ran \cup {<<c, r>>}
    BY <1>5, Zenon DEF Take, Answers, Fails, Hangs, TakeAnswer
  <2>4. UNCHANGED <<target, late, rows, cached, joined, channel>>
    BY <1>5, Zenon DEF Take, Answers, Fails, Hangs, TakeAnswer
  <2>5. stage' \in [Requests -> {"new", "owner", "port", "sending", "waiting", "done"}]
        /\ reply' \in [Requests -> Replies]
    <3>1. CASE TakeAnswer(c, r)
      BY <3>1 DEF TakeAnswer
    <3>2. CASE ~TakeAnswer(c, r)
      BY <1>5, <3>2 DEF Take, Answers, Fails, Hangs
    <3> QED
      BY <3>1, <3>2
  <2> QED
    BY <2>2, <2>3, <2>4, <2>5
<1>6. ASSUME NEW c \in Clis, Close(c)
      PROVE  TunnelTypeOK'
  BY <1>6 DEF Close
<1>7. ASSUME NEW s \in Sessions, DeleteSession(s) \/ Expire(s)
      PROVE  TunnelTypeOK'
  BY <1>7 DEF DeleteSession, Expire
<1>8. ASSUME NEW c \in Clis, NEW s \in Sessions, Join(c, s)
      PROVE  TunnelTypeOK'
  BY <1>8 DEF Join
<1>9. CASE UNCHANGED tunnelVars
  BY <1>9 DEF tunnelVars
<1> QED
  BY <1>1, <1>2, <1>3, <1>4, <1>5, <1>6, <1>7, <1>8, <1>9 DEF TunnelNext, TunnelStep

LEMMA TunnelInvStep ==
  ASSUME TunnelInv, [TunnelNext]_tunnelVars
  PROVE  TunnelInv'
<1>0. TunnelTypeOK /\ TunnelTypeOK' /\ Tracked /\ AskedIsOwn /\ Stopped
  BY TunnelTypeStep DEF TunnelInv
<1> SUFFICES Tracked' /\ AskedIsOwn' /\ Stopped'
  BY <1>0 DEF TunnelInv
<1> USE <1>0
<1>1. ASSUME NEW r \in Requests, NEW s \in Sessions, NEW p \in Ports, Arrive(r, s, p)
      PROVE  Tracked' /\ AskedIsOwn' /\ Stopped'
  <2>1. /\ stage[r] = "new" /\ stage'[r] # "new"
        /\ stage'[r] \in {"done", "owner"} /\ reply'[r] \in {"none", "refused"}
        /\ SessionOf(r)' = s /\ PortOf(r)' = p
        /\ \A q \in Requests \ {r} : /\ stage'[q] = stage[q] /\ reply'[q] = reply[q]
                                     /\ SessionOf(q)' = SessionOf(q) /\ PortOf(q)' = PortOf(q)
    BY <1>1 DEF Arrive, Finish, Goes, SessionOf, PortOf, TunnelTypeOK, Tracked
  <2>2. UNCHANGED <<rows, cached, joined, channel, work, ran>>
    BY <1>1 DEF Arrive, database
  <2>3. r \notin channel /\ \A c \in Clis : work[c][r] = "none" /\ <<c, r>> \notin ran
    BY <2>1 DEF Tracked, TunnelTypeOK
  <2>4. late' = late \/ (late' = late \cup {r} /\ s \notin rows)
    <3>1. late' = IF s \in rows THEN late ELSE late \cup {r}
      BY <1>1, Zenon DEF Arrive
    <3> QED
      BY <3>1
  <2>5. r \notin late /\ late \subseteq Requests /\ channel \subseteq Requests
    BY <2>1 DEF Stopped, TunnelTypeOK
  <2>6. Tracked'
    BY <2>1, <2>2, <2>3, <2>5 DEF Tracked
  <2>7. AskedIsOwn'
    BY <2>1, <2>2, <2>3 DEF AskedIsOwn
  <2>8. Stopped'
    BY <2>1, <2>2, <2>3, <2>4, <2>5 DEF Stopped
  <2> QED
    BY <2>6, <2>7, <2>8
\* The steps of a request at the relay: what the CLIs do is as it was.
<1>2. ASSUME NEW r \in Requests, CheckOwner(r) \/ CheckPort(r) \/ Pend(r) \/ Timeout(r)
      PROVE  Tracked' /\ AskedIsOwn' /\ Stopped'
  <2>1. /\ stage[r] \notin {"new", "done"} /\ stage'[r] # "new"
        /\ reply'[r] \in {reply[r], "refused", "failed", "timeout"}
        /\ \A q \in Requests \ {r} : stage'[q] = stage[q] /\ reply'[q] = reply[q]
    BY <1>2 DEF CheckOwner, CheckPort, Pend, Timeout, Finish, Goes, TunnelTypeOK
  <2>2. UNCHANGED <<target, late, rows, joined, work, ran>>
    BY <1>2 DEF CheckOwner, CheckPort, Pend, Timeout, database
  <2>3. channel' = channel \/ channel' = channel \cup {r}
    BY <1>2 DEF CheckOwner, CheckPort, Pend, Timeout
  <2>4. r \in late => stage'[r] \in {"port", "done"} /\ channel' = channel
    BY <1>2 DEF CheckOwner, CheckPort, Pend, Timeout, Finish, Goes, TunnelTypeOK, Stopped
  <2>5. Tracked'
    BY <2>1, <2>2, <2>3 DEF Tracked, SessionOf, TunnelTypeOK
  <2>6. AskedIsOwn'
    BY <2>1, <2>2 DEF AskedIsOwn, SessionOf, PortOf
  <2>7. Stopped'
    BY <2>1, <2>2, <2>3, <2>4 DEF Stopped, SessionOf, TunnelTypeOK
  <2> QED
    BY <2>5, <2>6, <2>7
<1>3. ASSUME NEW r \in Requests, Deliver(r)
      PROVE  Tracked' /\ AskedIsOwn' /\ Stopped'
  <2>1. UNCHANGED <<stage, target, reply, late, rows, joined, ran>>
    BY <1>3 DEF Deliver, caller, database
  <2>2. channel' \subseteq channel /\ r \in channel /\ r \notin late
    BY <1>3 DEF Deliver, Stopped
  <2>3. \A c \in Clis, q \in Requests :
          \/ work'[c][q] = work[c][q]
          \/ q = r /\ work'[c][q] = "sent" /\ <<c, SessionOf(r)>> \in joined
    <3>1. work \in [Clis -> [Requests -> Work]]
      BY DEF TunnelTypeOK
    <3>2. \A c \in Clis :
            \/ work'[c] = work[c]
            \/ work'[c] = [work[c] EXCEPT ![r] = "sent"] /\ <<c, SessionOf(r)>> \in joined
      BY <1>3 DEF Deliver
    <3>3. ASSUME NEW c \in Clis, NEW q \in Requests
          PROVE  \/ work'[c][q] = work[c][q]
                 \/ q = r /\ work'[c][q] = "sent" /\ <<c, SessionOf(r)>> \in joined
      <4>1. work[c] \in [Requests -> Work]
        BY <3>1
      <4>2. CASE work'[c] = work[c]
        BY <4>2
      <4>3. CASE work'[c] = [work[c] EXCEPT ![r] = "sent"] /\ <<c, SessionOf(r)>> \in joined
        BY <4>1, <4>3
      <4> QED
        BY <3>2, <4>2, <4>3
    <3> QED
      BY <3>3
  <2>4. Tracked'
    BY <2>1, <2>2, <2>3 DEF Tracked, SessionOf
  <2>5. AskedIsOwn'
    BY <2>1 DEF AskedIsOwn, SessionOf, PortOf
  <2>6. Stopped'
    <3>1. late \subseteq Requests
      BY DEF TunnelTypeOK
    <3>2. \A c \in Clis, q \in late : work'[c][q] = work[c][q]
      BY <2>2, <2>3, <3>1
    <3> QED
      BY <2>1, <2>2, <3>2 DEF Stopped, SessionOf
  <2> QED
    BY <2>4, <2>5, <2>6
\* A CLI works on the request.
<1>4. ASSUME NEW c \in Clis, NEW r \in Requests,
             Take(c, r) \/ Answers(c, r) \/ Fails(c, r) \/ Hangs(c, r)
      PROVE  Tracked' /\ AskedIsOwn' /\ Stopped'
  <2>1. UNCHANGED <<stage, target, reply, late, rows, joined, channel>>
    BY <1>4 DEF Take, Answers, Fails, Hangs, caller, database
  <2>2. work[c][r] # "none" /\ r \notin late
    BY <1>4 DEF Take, Answers, Fails, Hangs, Hosts, Stopped
  <2>3. \A d \in Clis, q \in Requests : (d # c \/ q # r) => work'[d][q] = work[d][q]
    BY <1>4 DEF Take, Answers, Fails, Hangs, TunnelTypeOK
  <2>4. /\ ran \subseteq ran' /\ ran' \subseteq ran \cup {<<c, r>>}
        /\ <<c, r>> \in ran' \ ran => PortOf(r) \in Forwarded[SessionOf(r)]
        /\ work'[c][r] # "none" => <<c, r>> \in ran'
    BY <1>4 DEF Take, Answers, Fails, Hangs, Hosts, TunnelTypeOK, Tracked
  <2>5. Tracked'
    BY <2>1, <2>2, <2>3, <2>4 DEF Tracked, SessionOf
  <2>6. AskedIsOwn'
    <3>1. SessionOf(r) \in Serves[c]
      BY <2>2 DEF Tracked
    <3>2. \A d \in Clis, q \in Requests : <<d, q>> \in ran' =>
            <<d, q>> \in ran \/ (d = c /\ q = r)
      BY <2>4
    <3>3. \A d \in Clis, q \in Requests : <<d, q>> \in ran' =>
            SessionOf(q) \in Serves[d] /\ PortOf(q) \in Forwarded[SessionOf(q)]
      BY <2>4, <3>1, <3>2 DEF AskedIsOwn
    <3> QED
      BY <2>1, <2>4, <3>3 DEF AskedIsOwn, SessionOf, PortOf
  <2>7. Stopped'
    BY <2>1, <2>2, <2>3, <2>4 DEF Stopped, SessionOf, TunnelTypeOK
  <2> QED
    BY <2>5, <2>6, <2>7
<1>5. ASSUME NEW c \in Clis, NEW r \in Requests, TakeAnswer(c, r)
      PROVE  Tracked' /\ AskedIsOwn' /\ Stopped'
  <2>1. UNCHANGED <<target, late, rows, joined, channel, ran>>
    BY <1>5 DEF TakeAnswer, database
  <2>2. work[c][r] \in {"answer", "bad"} /\ <<c, r>> \in ran /\ r \notin late
    BY <1>5 DEF TakeAnswer, Tracked, Stopped
  <2>3. \A d \in Clis, q \in Requests : work'[d][q] \in {work[d][q], "none"}
    BY <1>5 DEF TakeAnswer, TunnelTypeOK
  <2>4. \A q \in Requests :
          \/ stage'[q] = stage[q] /\ reply'[q] = reply[q]
          \/ q = r /\ stage[q] # "new" /\ stage'[q] = "done"
    BY <1>5 DEF TakeAnswer, Finish, TunnelTypeOK
  <2>5. Tracked'
    BY <2>1, <2>3, <2>4 DEF Tracked, SessionOf, TunnelTypeOK
  <2>6. AskedIsOwn'
    BY <2>1, <2>2, <2>4 DEF AskedIsOwn, SessionOf, PortOf
  <2>7. Stopped'
    BY <2>1, <2>2, <2>3, <2>4 DEF Stopped, SessionOf, TunnelTypeOK
  <2> QED
    BY <2>5, <2>6, <2>7
<1>6. ASSUME NEW c \in Clis, Close(c)
      PROVE  Tracked' /\ AskedIsOwn' /\ Stopped'
  <2>1. UNCHANGED <<target, late, rows, channel, ran>> /\ joined' \subseteq joined
    BY <1>6 DEF Close, database
  <2>2. \A d \in Clis, q \in Requests : work'[d][q] \in {work[d][q], "none"}
    BY <1>6 DEF Close, TunnelTypeOK
  <2>3. \A q \in Requests :
          \/ stage'[q] = stage[q] /\ reply'[q] = reply[q]
          \/ stage[q] = "waiting" /\ stage'[q] = "done" /\ reply'[q] = "closed"
    BY <1>6 DEF Close, Rejected, TunnelTypeOK
  <2>4. Tracked'
    BY <2>1, <2>2, <2>3 DEF Tracked, SessionOf, TunnelTypeOK
  <2>5. AskedIsOwn'
    BY <2>1, <2>3 DEF AskedIsOwn, SessionOf, PortOf
  <2>6. Stopped'
    BY <2>1, <2>2, <2>3 DEF Stopped, SessionOf, TunnelTypeOK
  <2> QED
    BY <2>4, <2>5, <2>6
<1>7. ASSUME NEW c \in Clis, NEW s \in Sessions, Join(c, s)
      PROVE  Tracked' /\ AskedIsOwn' /\ Stopped'
  BY <1>7 DEF Join, caller, database, Tracked, AskedIsOwn, Stopped, SessionOf, PortOf
<1>8. ASSUME NEW s \in Sessions, DeleteSession(s) \/ Expire(s)
      PROVE  Tracked' /\ AskedIsOwn' /\ Stopped'
  BY <1>8 DEF DeleteSession, Expire, caller, Tracked, AskedIsOwn, Stopped, SessionOf, PortOf
<1>9. CASE UNCHANGED tunnelVars
  BY <1>9 DEF tunnelVars, caller, database, Tracked, AskedIsOwn, Stopped, SessionOf, PortOf
<1> QED
  BY <1>1, <1>2, <1>3, <1>4, <1>5, <1>6, <1>7, <1>8, <1>9 DEF TunnelNext, TunnelStep

\* Every variable of the tunnel always has its type.
THEOREM TunnelTypeCorrect == TunnelSpec => []TunnelTypeOK
<1>1. TunnelInv => TunnelTypeOK
  BY DEF TunnelInv
<1> QED
  BY <1>1, TunnelInitInv, TunnelInvStep, PTL DEF TunnelSpec

\* A local server is asked only by a CLI of the session that is named, for a port
\* which that session forwards; and who gets an answer has had such a CLI ask.
THEOREM OnlyOwnAsked == TunnelSpec => []AskedIsOwn
<1>1. TunnelInv => AskedIsOwn
  BY DEF TunnelInv
<1> QED
  BY <1>1, TunnelInitInv, TunnelInvStep, PTL DEF TunnelSpec

\* A request that arrives after its session was deleted reaches no local server.
THEOREM DeletedStaysDeleted == TunnelSpec => []DeletedNotForwarded
<1>1. TunnelInv => DeletedNotForwarded
  BY DEF TunnelInv, Stopped, DeletedNotForwarded
<1> QED
  BY <1>1, TunnelInitInv, TunnelInvStep, PTL DEF TunnelSpec

\* A caller gets one reply, and is given up early only when a CLI of its session
\* has gone, for any number of CLIs that answer.
THEOREM RepliedOnce == TunnelSpec => OneReply
<1> DEFINE Once == \A r \in Requests :
             /\ stage[r] = "done" => stage'[r] = "done" /\ reply'[r] = reply[r]
             /\ reply[r] = "none" /\ reply'[r] = "closed" =>
                  \E c \in Clis : <<c, SessionOf(r)>> \in joined \ joined'
<1>1. TunnelInv /\ [TunnelNext]_tunnelVars => Once
  <2> SUFFICES ASSUME TunnelTypeOK, [TunnelNext]_tunnelVars
               PROVE  Once
    BY DEF TunnelInv
  <2>1. ASSUME NEW r \in Requests, NEW s \in Sessions, NEW p \in Ports, Arrive(r, s, p)
        PROVE  Once
    BY <2>1 DEF Arrive, Finish, Goes, TunnelTypeOK
  <2>2. ASSUME NEW r \in Requests, CheckOwner(r) \/ CheckPort(r) \/ Pend(r) \/ Timeout(r)
        PROVE  Once
    BY <2>2 DEF CheckOwner, CheckPort, Pend, Timeout, Finish, Goes, TunnelTypeOK
  <2>3. ASSUME NEW c \in Clis, NEW r \in Requests, TakeAnswer(c, r)
        PROVE  Once
    BY <2>3 DEF TakeAnswer, Finish, TunnelTypeOK
  <2>4. ASSUME NEW c \in Clis, Close(c)
        PROVE  Once
    <3>1. \A r \in Requests :
            \/ stage'[r] = stage[r] /\ reply'[r] = reply[r]
            \/ stage[r] = "waiting" /\ <<c, SessionOf(r)>> \in joined
      BY <2>4 DEF Close, Rejected, TunnelTypeOK
    <3>2. \A r \in Requests : <<c, SessionOf(r)>> \notin joined'
      BY <2>4 DEF Close
    <3> QED
      BY <3>1, <3>2
  <2>5. UNCHANGED <<stage, reply>> => Once
    OBVIOUS
  <2> QED
    BY <2>1, <2>2, <2>3, <2>4, <2>5
    DEF TunnelNext, TunnelStep, Deliver, Take, Answers, Fails, Hangs, Join,
        DeleteSession, Expire, tunnelVars, caller
<1>2. TunnelInv /\ [TunnelNext]_tunnelVars => [Once]_tunnelVars
  BY <1>1
<1> QED
  BY <1>2, TunnelInitInv, TunnelInvStep, PTL DEF TunnelSpec, OneReply

(***************************************************************************)
(* The preview pane.                                                       *)
(***************************************************************************)

\* A pane that waits has one probe under way, or one is due; one that does not
\* wait has none of its cycle.  Before the first cycle nothing is under way.
Probing ==
  /\ due => waiting
  /\ waiting => attempt < MaxProbes
  /\ cycle = 0 => ~waiting /\ \A r \in Requests : fetching[r] = 0
  /\ waiting /\ due => \A r \in Requests : fetching[r] # cycle
  /\ waiting /\ ~due => \E r \in Requests : \A q \in Requests : fetching[q] = cycle <=> q = r
  /\ cycle # 0 /\ ~waiting => \A r \in Requests : fetching[r] # cycle
  /\ \A r \in Requests : fetching[r] <= cycle

\* The probes of the cycle ask for the port that is shown; until the cookie is
\* set there is no cycle.
PortKept ==
  /\ auth # "yes" => cycle = 0 /\ ~ready /\ ~error /\ readyBy = {}
  /\ \A r \in Requests : fetching[r] # 0 => stage[r] # "new"
  /\ \A r \in readyBy : stage[r] # "new" /\ PortOf(r) = active
  /\ cycle # 0 => \A r \in Requests : fetching[r] = cycle => PortOf(r) = active

PaneTypeOK == PreviewTypeOK /\ TunnelTypeOK

PaneInv == PaneTypeOK /\ Probing /\ PortKept

LEMMA PaneInitInv == PreviewInit => PaneInv
<1> SUFFICES ASSUME PreviewInit
             PROVE  PaneInv
  OBVIOUS
<1>1. TunnelTypeOK
  BY TunnelInitInv DEF PreviewInit, TunnelInv
<1>2. active \in Ports
  <2>1. active \in Forwarded[Watched]
    BY PreviewAssumption DEF PreviewInit
  <2> QED
    BY <2>1, TunnelAssumption, PreviewAssumption
<1>2a. /\ attempt = 0 /\ ready = FALSE /\ error = FALSE /\ readyBy = {}
       /\ fetching = [r \in Requests |-> 0]
       /\ MaxProbes \in Nat \ {0} /\ MaxCycles \in Nat \ {0}
  BY PreviewAssumption DEF PreviewInit
<1>3. CASE CrossOrigin = TRUE
  <2>1. auth = "asking" /\ cycle = 0 /\ due = FALSE /\ waiting = FALSE
    BY <1>3 DEF PreviewInit
  <2>2. due \in BOOLEAN /\ ready \in BOOLEAN /\ waiting \in BOOLEAN /\ error \in BOOLEAN
    BY <1>2a, <2>1, Zenon
  <2>3. PreviewTypeOK
    BY <1>2, <1>2a, <2>1, <2>2 DEF PreviewTypeOK
  <2>4. Probing
    BY <1>2a, <2>1 DEF Probing
  <2>5. PortKept
    BY <1>2a, <2>1 DEF PortKept
  <2> QED
    BY <1>1, <2>3, <2>4, <2>5 DEF PaneInv, PaneTypeOK
<1>4. CASE CrossOrigin = FALSE
  <2>1. auth = "yes" /\ cycle = 1 /\ due = TRUE /\ waiting = TRUE
    BY <1>4 DEF PreviewInit
  <2>2. due \in BOOLEAN /\ ready \in BOOLEAN /\ waiting \in BOOLEAN /\ error \in BOOLEAN
    BY <1>2a, <2>1, Zenon
  <2>3. PreviewTypeOK
    BY <1>2, <1>2a, <2>1, <2>2 DEF PreviewTypeOK
  <2>4. Probing
    BY <1>2a, <2>1 DEF Probing
  <2>5. PortKept
    BY <1>2a, <2>1 DEF PortKept
  <2> QED
    BY <1>1, <2>3, <2>4, <2>5 DEF PaneInv, PaneTypeOK
<1> QED
  BY <1>3, <1>4, PreviewAssumption

\* What the tunnel does besides arrivals leaves the requests that were made alone.
LEMMA TunnelStepTargets ==
  ASSUME TunnelTypeOK, TunnelStep
  PROVE  /\ target' = target
         /\ \A r \in Requests : stage[r] # "new" => stage'[r] # "new"
<1>1. ASSUME NEW r \in Requests, CheckOwner(r) \/ CheckPort(r) \/ Pend(r) \/ Timeout(r)
      PROVE  target' = target /\ \A q \in Requests : stage[q] # "new" => stage'[q] # "new"
  BY <1>1 DEF CheckOwner, CheckPort, Pend, Timeout, Finish, Goes, TunnelTypeOK
<1>2. ASSUME NEW c \in Clis, NEW r \in Requests, TakeAnswer(c, r)
      PROVE  target' = target /\ \A q \in Requests : stage[q] # "new" => stage'[q] # "new"
  BY <1>2 DEF TakeAnswer, Finish, TunnelTypeOK
<1>3. ASSUME NEW c \in Clis, Close(c)
      PROVE  target' = target /\ \A q \in Requests : stage[q] # "new" => stage'[q] # "new"
  BY <1>3 DEF Close, TunnelTypeOK
<1> QED
  BY <1>1, <1>2, <1>3
  DEF TunnelStep, Deliver, Take, Answers, Fails, Hangs, Join, DeleteSession, Expire, caller

LEMMA PaneTunnelStep ==
  ASSUME PaneTypeOK, [PreviewNext]_previewVars
  PROVE  [TunnelNext]_tunnelVars
<1>1. ASSUME NEW r \in Requests, Probe(r)
      PROVE  TunnelNext
  <2>1. Arrive(r, Watched, active) /\ Watched \in Sessions /\ active \in Ports
    BY <1>1, PreviewAssumption DEF Probe, PaneTypeOK, PreviewTypeOK
  <2> QED
    BY <2>1, Zenon DEF TunnelNext
<1> QED
  BY <1>1
  DEF PreviewNext, previewVars, TunnelNext, Authenticated, AuthenticationFails, ChangePort,
      Retry, LoadAnyway, Navigate, FrameFails, Replied, GivesUp

\* The effect runs again: the cycle is new, so nothing is under way for it.
LEMMA RestartKeeps ==
  ASSUME PaneInv, Restart, UNCHANGED <<tunnelVars, fetching>>, auth' = "yes", active' \in Ports
  PROVE  PaneInv'
<1> USE PreviewAssumption DEF PaneInv, PaneTypeOK, PreviewTypeOK
<1>1. TunnelTypeOK'
  BY DEF TunnelTypeOK, tunnelVars, caller, database
<1>2. /\ cycle \in Nat /\ cycle' = cycle + 1 /\ cycle' \in 0..MaxCycles
      /\ attempt' = 0 /\ due' = TRUE
      /\ ready' = FALSE /\ waiting' = TRUE /\ error' = FALSE /\ readyBy' = {}
      /\ fetching' = fetching
  BY DEF Restart
<1>3. \A r \in Requests : fetching[r] \in Nat /\ fetching[r] < cycle'
  BY <1>2 DEF Probing
<1>3a. due' \in BOOLEAN /\ ready' \in BOOLEAN /\ waiting' \in BOOLEAN /\ error' \in BOOLEAN
  BY <1>2, Zenon
<1>4. PreviewTypeOK'
  BY <1>2, <1>3a
<1>5. Probing'
  BY <1>2, <1>3 DEF Probing
<1>6. PortKept'
  BY <1>2, <1>3 DEF Probing, PortKept, tunnelVars, caller
<1> QED
  BY <1>1, <1>4, <1>5, <1>6

\* A probe of the cycle has failed: another one becomes due, or the pane gives up.
LEMMA ProbeAgainKeeps ==
  ASSUME PaneInv, NEW r \in Requests, fetching[r] # 0, Current(r), ProbeAgain,
         fetching' = [fetching EXCEPT ![r] = 0],
         UNCHANGED <<tunnelVars, auth, active, cycle>>
  PROVE  PaneInv'
<1> USE PreviewAssumption DEF PaneInv, PaneTypeOK, PreviewTypeOK
<1>1. TunnelTypeOK'
  BY DEF TunnelTypeOK, tunnelVars, caller, database
<1>2. cycle # 0 /\ fetching[r] = cycle /\ cycle \in Nat
  BY DEF Current
<1>3. waiting /\ ~due /\ attempt < MaxProbes /\ \A q \in Requests : fetching[q] = cycle => q = r
  BY <1>2 DEF Probing
<1>4. \A q \in Requests : /\ fetching'[q] = IF q = r THEN 0 ELSE fetching[q]
                          /\ fetching'[q] \in 0..MaxCycles
                          /\ fetching'[q] <= cycle
                          /\ fetching'[q] # cycle
  BY <1>2, <1>3 DEF Probing
<1>5. attempt' = attempt + 1 /\ attempt' \in 0..MaxProbes
  BY <1>3 DEF ProbeAgain
<1>6. /\ due' = (attempt' < MaxProbes)
      /\ waiting' = (attempt' < MaxProbes)
      /\ error' = (attempt' >= MaxProbes)
      /\ ready' = ready /\ readyBy' = readyBy
  BY DEF ProbeAgain
<1>7. due' \in BOOLEAN /\ waiting' \in BOOLEAN /\ error' \in BOOLEAN
  BY <1>6
<1>8. fetching' \in [Requests -> 0..MaxCycles]
  BY <1>4
<1>9. PreviewTypeOK'
  BY <1>5, <1>6, <1>7, <1>8
<1>10. /\ due' => waiting'
       /\ waiting' => due'
       /\ waiting' => attempt' < MaxProbes
  BY <1>6
<1>11. Probing'
  BY <1>2, <1>4, <1>10 DEF Probing
<1>12. PortKept'
  BY <1>2, <1>4, <1>6 DEF PortKept, PortOf, tunnelVars, caller
<1> QED
  BY <1>1, <1>9, <1>11, <1>12

\* A fetch of an earlier cycle ends.
LEMMA StaleKeeps ==
  ASSUME PaneInv, NEW r \in Requests, ~Current(r),
         fetching' = [fetching EXCEPT ![r] = 0],
         UNCHANGED <<tunnelVars, auth, active, cycle, attempt, due, ready, waiting, error, readyBy>>
  PROVE  PaneInv'
<1> USE PreviewAssumption DEF PaneInv, PaneTypeOK, PreviewTypeOK
<1>1. TunnelTypeOK'
  BY DEF TunnelTypeOK, tunnelVars, caller, database
<1>2. fetching[r] # cycle /\ cycle \in Nat
  BY DEF Current
<1>3. \A q \in Requests : fetching'[q] = IF q = r THEN 0 ELSE fetching[q]
  OBVIOUS
<1>4. PreviewTypeOK'
  BY <1>3
<1>5. Probing'
  BY <1>2, <1>3 DEF Probing
<1>6. PortKept'
  BY <1>2, <1>3 DEF PortKept, PortOf, tunnelVars, caller
<1> QED
  BY <1>1, <1>4, <1>5, <1>6

LEMMA RepliedKeeps ==
  ASSUME PaneInv, NEW r \in Requests, Replied(r)
  PROVE  PaneInv'
<1> USE PreviewAssumption DEF PaneInv, PaneTypeOK, PreviewTypeOK
<1>1. CASE ~Current(r)
  BY <1>1, StaleKeeps DEF Replied
<1>2. CASE Current(r) /\ ProbeAgain
  BY <1>2, ProbeAgainKeeps DEF Replied
<1>3. CASE Current(r) /\ ~ProbeAgain
  <2>1. /\ fetching[r] # 0 /\ stage[r] = "done"
        /\ fetching' = [fetching EXCEPT ![r] = 0]
        /\ ready' = TRUE /\ waiting' = FALSE /\ readyBy' = {r}
        /\ UNCHANGED <<tunnelVars, auth, active, cycle, attempt, due, error>>
    BY <1>3 DEF Replied
  <2>2. TunnelTypeOK'
    BY <2>1 DEF TunnelTypeOK, tunnelVars, caller, database
  <2>3. cycle # 0 /\ fetching[r] = cycle /\ cycle \in Nat
    BY <1>3, <2>1 DEF Current
  <2>4. waiting /\ ~due /\ \A q \in Requests : fetching[q] = cycle => q = r
    BY <2>3 DEF Probing
  <2>5. \A q \in Requests : fetching'[q] = IF q = r THEN 0 ELSE fetching[q]
    BY <2>1
  <2>5a. ready' \in BOOLEAN /\ waiting' \in BOOLEAN
    BY <2>1, Zenon
  <2>6. PreviewTypeOK'
    BY <2>1, <2>5, <2>5a
  <2>7. Probing'
    BY <2>1, <2>3, <2>4, <2>5 DEF Probing
  <2>8. PortKept'
    BY <2>1, <2>3, <2>5 DEF PortKept, PortOf, tunnelVars, caller
  <2> QED
    BY <2>2, <2>6, <2>7, <2>8
<1> QED
  BY <1>1, <1>2, <1>3

LEMMA ProbeKeeps ==
  ASSUME PaneInv, NEW r \in Requests, Probe(r)
  PROVE  PaneInv'
<1> USE PreviewAssumption DEF PaneInv, PaneTypeOK, PreviewTypeOK
<1>1. TunnelTypeOK'
  <2>1. PreviewNext
    BY DEF PreviewNext
  <2> QED
    BY <2>1, PaneTunnelStep, TunnelTypeStep
<1>2. /\ due /\ due' = FALSE
      /\ fetching' = [fetching EXCEPT ![r] = cycle]
      /\ UNCHANGED <<auth, active, cycle, attempt, ready, waiting, error, readyBy>>
  BY DEF Probe
<1>3. /\ stage[r] = "new" /\ stage'[r] # "new" /\ PortOf(r)' = active
      /\ \A q \in Requests \ {r} : stage'[q] = stage[q] /\ PortOf(q)' = PortOf(q)
  <2>1. Arrive(r, Watched, active)
    BY DEF Probe
  <2> QED
    BY <2>1 DEF Arrive, Finish, Goes, TunnelTypeOK, PortOf
<1>4. waiting /\ cycle # 0 /\ \A q \in Requests : fetching[q] # cycle
  BY <1>2 DEF Probing
<1>5. \A q \in Requests : fetching'[q] = IF q = r THEN cycle ELSE fetching[q]
  BY <1>2
<1>6. PreviewTypeOK'
  BY <1>2, <1>5
<1>7. Probing'
  <2>1. \A q \in Requests : fetching'[q] = cycle <=> q = r
    BY <1>4, <1>5
  <2> QED
    BY <1>2, <1>4, <1>5, <2>1 DEF Probing
<1>8. PortKept'
  <2>1. r \notin readyBy
    BY <1>3 DEF PortKept
  <2>2. \A q \in readyBy : stage'[q] # "new" /\ PortOf(q)' = active
    BY <1>3, <2>1 DEF PortKept
  <2>3. \A q \in Requests : /\ fetching'[q] # 0 => stage'[q] # "new"
                            /\ fetching'[q] = cycle => PortOf(q)' = active
    BY <1>3, <1>4, <1>5 DEF PortKept
  <2> QED
    BY <1>2, <1>4, <2>2, <2>3 DEF PortKept
<1> QED
  BY <1>1, <1>6, <1>7, <1>8

LEMMA PaneStep ==
  ASSUME PaneInv, [PreviewNext]_previewVars
  PROVE  PaneInv'
<1> USE PreviewAssumption DEF PaneInv, PaneTypeOK
<1>1. TunnelTypeOK'
  BY PaneTunnelStep, TunnelTypeStep
\* The steps that leave the probes alone.
<1>2. ASSUME target' = target,
             \A r \in Requests : stage[r] # "new" => stage'[r] # "new",
             UNCHANGED <<auth, active, cycle, attempt, due, fetching, waiting>>,
             PreviewTypeOK', readyBy' \subseteq readyBy,
             auth # "yes" => ~ready' /\ ~error'
      PROVE  PaneInv'
  <2>1. Probing'
    BY <1>2 DEF Probing
  <2>2. readyBy \subseteq Requests
    BY DEF PreviewTypeOK
  <2>3. PortKept'
    BY <1>2, <2>2 DEF PortKept, PortOf
  <2> QED
    BY <1>1, <1>2, <2>1, <2>3
<1>3. CASE TunnelStep /\ UNCHANGED paneVars
  <2>1. PreviewTypeOK'
    BY <1>3 DEF PreviewTypeOK, paneVars
  <2> QED
    BY <1>2, <1>3, <2>1, TunnelStepTargets DEF paneVars, PortKept
<1>4. CASE Authenticated \/ Retry
  <2>1. active \in Ports
    BY DEF PreviewTypeOK
  <2> QED
    BY <1>4, <2>1, RestartKeeps DEF Authenticated, Retry
<1>5. CASE AuthenticationFails
  <2>1. PreviewTypeOK'
    BY <1>5 DEF AuthenticationFails, PreviewTypeOK
  <2>2. Probing'
    BY <1>5 DEF AuthenticationFails, Probing
  <2>3. PortKept'
    BY <1>5 DEF AuthenticationFails, PortKept, PortOf, tunnelVars, caller
  <2> QED
    BY <1>1, <2>1, <2>2, <2>3
<1>6. ASSUME NEW p \in Ports, ChangePort(p)
      PROVE  PaneInv'
  <2>1. CASE auth = "yes"
    BY <1>6, <2>1, RestartKeeps DEF ChangePort
  <2>2. CASE auth # "yes"
    <3>1. /\ active' = p /\ error' = FALSE
          /\ UNCHANGED <<tunnelVars, auth, fetching, cycle, attempt, due, ready, waiting, readyBy>>
      BY <1>6, <2>2 DEF ChangePort
    <3>2. PreviewTypeOK'
      BY <3>1 DEF PreviewTypeOK
    <3>3. Probing'
      BY <3>1 DEF Probing
    <3>4. PortKept'
      BY <2>2, <3>1 DEF PortKept, tunnelVars, caller
    <3> QED
      BY <1>1, <3>2, <3>3, <3>4
  <2> QED
    BY <2>1, <2>2
<1>7. CASE LoadAnyway \/ Navigate \/ FrameFails
  <2>1. PreviewTypeOK'
    BY <1>7 DEF LoadAnyway, Navigate, FrameFails, PreviewTypeOK
  <2>2. /\ UNCHANGED <<stage, target, auth, active, cycle, attempt, due, fetching, waiting>>
        /\ readyBy' \subseteq readyBy
    BY <1>7 DEF LoadAnyway, Navigate, FrameFails, tunnelVars, caller
  <2>3. auth = "yes"
    BY <1>7 DEF LoadAnyway, Navigate, FrameFails, PortKept
  <2> QED
    BY <1>2, <2>1, <2>2, <2>3
<1>8. ASSUME NEW r \in Requests, GivesUp(r)
      PROVE  PaneInv'
  BY <1>8, ProbeAgainKeeps, StaleKeeps DEF GivesUp
<1>9. CASE UNCHANGED previewVars
  <2>1. PreviewTypeOK'
    BY <1>9 DEF PreviewTypeOK, previewVars, paneVars
  <2> QED
    BY <1>2, <1>9, <2>1 DEF previewVars, paneVars, tunnelVars, caller, PortKept
<1> QED
  BY <1>3, <1>4, <1>5, <1>6, <1>7, <1>8, <1>9, ProbeKeeps, RepliedKeeps DEF PreviewNext

\* The pane's variables, and the tunnel's under it, always have their types.
THEOREM PreviewTypeCorrect == PreviewSpec => []PreviewTypeOK
<1>1. PaneInv => PreviewTypeOK
  BY DEF PaneInv, PaneTypeOK
<1> QED
  BY <1>1, PaneInitInv, PaneStep, PTL DEF PreviewSpec

\* Whatever a pane does is something a user of the tunnel may do, so everything
\* proved of the tunnel holds under the pane.
THEOREM PreviewUsesTunnel == PreviewSpec => TunnelSpec
<1>1. PreviewInit => TunnelInit
  BY DEF PreviewInit
<1>2. PaneInv /\ [PreviewNext]_previewVars => [TunnelNext]_tunnelVars
  BY PaneTunnelStep DEF PaneInv
<1> QED
  BY <1>1, <1>2, PaneInitInv, PaneStep, PTL DEF PreviewSpec, TunnelSpec

\* A pane that waits will find out, its probes do not multiply, and only a probe
\* of the port it shows makes it ready.
THEOREM PaneFollows == PreviewSpec => []PaneFollowsProbes
<1>1. PaneInv => PaneFollowsProbes
  <2> SUFFICES ASSUME PaneInv
               PROVE  PaneFollowsProbes
    OBVIOUS
  <2>1. ASSUME waiting, due
        PROVE  cycle \notin {fetching[r] : r \in Requests}
    BY <2>1 DEF PaneInv, Probing
  <2>2. ASSUME waiting, ~due
        PROVE  Cardinality({r \in Requests : fetching[r] = cycle}) = 1
    <3>1. PICK r \in Requests : \A q \in Requests : fetching[q] = cycle <=> q = r
      BY <2>2 DEF PaneInv, Probing
    <3>2. {q \in Requests : fetching[q] = cycle} = {r}
      BY <3>1
    <3> QED
      BY <3>2, FS_Singleton
  <2>3. \A r \in readyBy : PortOf(r) = active
    BY DEF PaneInv, PortKept
  <2> QED
    BY <2>1, <2>2, <2>3 DEF PaneFollowsProbes, PaneInv, PaneTypeOK, PreviewTypeOK
<1> QED
  BY <1>1, PaneInitInv, PaneStep, PTL DEF PreviewSpec
=============================================================================
