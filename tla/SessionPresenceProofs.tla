------------------------ MODULE SessionPresenceProofs ------------------------
(***************************************************************************)
(* Proofs about SessionPresence, for any sockets and any bounds.           *)
(*                                                                         *)
(* What the browsers were told is kept by an invariant about the handlers  *)
(* that wait: Placed.  What a calm session's status and timer say is kept  *)
(* by three invariants that depend on each other: at most one write is in  *)
(* flight (OneWrite), the timer runs only while nobody attends the session *)
(* (TimerKept), and the status agrees with both (StatusKept).              *)
(***************************************************************************)
EXTENDS SessionPresence, TLAPS

\* A CLI serves the session, or is about to.
Attended == cli # {} \/ \E k \in Clis : task[k] = "init"

\* Only CLIs wait for initSessionSeq; in orderly times, those that do are among
\* the subscribers and hold the set that the map holds.
Placed ==
  /\ \A b \in Browsers : task[b] # "init"
  /\ \A k \in stale : task[k] = "init"
  /\ orderly => \A k \in Clis : task[k] = "init" => k \in subs /\ k \notin stale

OneWrite ==
  calm => \A w, v \in Written : writes[w] > 0 /\ writes[v] > 0 => w = v /\ writes[w] = 1

TimerKept ==
  /\ mapped => armed > 0
  /\ calm => armed = (IF mapped THEN 1 ELSE 0)
  /\ calm /\ Attended => armed = 0

StatusKept ==
  calm => /\ Attended /\ ~exited => Effective \in {"running", "deleted"}
          /\ Effective = "disconnected" => ~Attended /\ mapped

\* Effective as a function of the two variables it reads.
EffectiveAt(wr, st) ==
  IF (\E w \in Written : wr[w] > 0) /\ st # "deleted"
  THEN CHOOSE w \in Written : wr[w] > 0 ELSE st

TypeInv == TypeOK /\ (mapped => armed > 0)

SocketsInv == TypeInv /\ ListensWhileWatched /\ Placed /\ BrowsersKnow

CalmInv == TypeInv /\ OneWrite /\ TimerKept /\ StatusKept

-----------------------------------------------------------------------------
(* Types.                                                                  *)

LEMMA InitInv == Init => SocketsInv /\ CalmInv
<1> SUFFICES ASSUME Init PROVE SocketsInv /\ CalmInv
  OBVIOUS
<1> USE DEF Init, Sockets
<1>1. TypeInv
  BY DEF TypeInv, TypeOK, Written
<1>2. ListensWhileWatched /\ Placed /\ BrowsersKnow
  BY DEF ListensWhileWatched, Placed, BrowsersKnow
<1>3. OneWrite /\ TimerKept
  BY DEF OneWrite, TimerKept, Attended
<1>4. Effective = "running"
  BY DEF Effective, InFlight
<1> QED
  BY <1>1, <1>2, <1>3, <1>4 DEF SocketsInv, CalmInv, StatusKept

\* The pieces of the handlers keep the types of what they change.
LEMMA PieceTypes ==
  ASSUME TypeInv
  PROVE  /\ Cancel => armed' \in Nat /\ mapped' = FALSE
         /\ Arm => armed' \in Nat /\ armed' > 0 /\ mapped' = TRUE
         /\ \A w \in Written : Issue(w) => writes' \in [Written -> Nat]
         /\ \A S : Tell(S, "connected") \/ Tell(S, "disconnected") =>
                     view' \in [Browsers -> {"none", "connected", "disconnected"}]
         /\ \A k : LeaveSubs(k) => /\ subs' \in SUBSET Sockets
                                   /\ channel' \in BOOLEAN
                                   /\ stale' \in SUBSET Clis
<1> USE DEF TypeInv, TypeOK
<1>1. /\ Cancel => armed' \in Nat /\ mapped' = FALSE
      /\ Arm => armed' \in Nat /\ armed' > 0 /\ mapped' = TRUE
  BY DEF Cancel, Arm
<1>2. \A w \in Written : Issue(w) => writes' \in [Written -> Nat]
  BY DEF Issue
<1>3. \A S : Tell(S, "connected") \/ Tell(S, "disconnected") =>
               view' \in [Browsers -> {"none", "connected", "disconnected"}]
  BY DEF Tell
<1>4. \A k : LeaveSubs(k) => /\ subs' \in SUBSET Sockets
                             /\ channel' \in BOOLEAN
                             /\ stale' \in SUBSET Clis
  BY DEF LeaveSubs
<1> QED
  BY <1>1, <1>2, <1>3, <1>4

\* The two histories stay Boolean.
LEMMA HistoryTypes ==
  calm \in BOOLEAN /\ orderly \in BOOLEAN /\ [Next]_vars => calm' \in BOOLEAN /\ orderly' \in BOOLEAN
<1> SUFFICES ASSUME calm \in BOOLEAN, orderly \in BOOLEAN, [Next]_vars
             PROVE  calm' \in BOOLEAN /\ orderly' \in BOOLEAN
  OBVIOUS
<1>1. ASSUME UNCHANGED <<orderly, calm>> PROVE calm' \in BOOLEAN /\ orderly' \in BOOLEAN
  BY <1>1
<1>2. ASSUME NEW k \in Sockets, Connect(k) \/ Subscribe(k) \/ Refused(k)
      PROVE  UNCHANGED <<orderly, calm>>
  BY <1>2 DEF Connect, Subscribe, Refused
<1>3. ASSUME NEW b \in Browsers, CloseBrowser(b) \/ JoinBrowser(b) \/ UnsubscribeBrowser(b)
      PROVE  UNCHANGED <<orderly, calm>>
  BY <1>3 DEF CloseBrowser, JoinBrowser, UnsubscribeBrowser
<1>4. ASSUME NEW k \in Clis, CloseCli(k) PROVE calm' \in BOOLEAN /\ orderly' \in BOOLEAN
  BY <1>4, Zenon DEF CloseCli, Disturb, Leaves
<1>5. ASSUME NEW k \in Clis, CloseIdle(k) \/ UnsubscribeCli(k)
      PROVE  calm' \in BOOLEAN /\ orderly' \in BOOLEAN
  BY <1>5, Zenon DEF CloseIdle, UnsubscribeCli, Disturb, Leaves
<1>6. ASSUME NEW k \in Clis, JoinCli(k) PROVE calm' \in BOOLEAN /\ orderly' \in BOOLEAN
  BY <1>6, Zenon DEF JoinCli, Disturb
<1>7. ASSUME NEW k \in Clis, Counted(k) \/ SendEnded(k) PROVE UNCHANGED <<orderly, calm>>
  BY <1>7 DEF Counted, SendEnded
<1>8. ASSUME ReportExit \/ Ended \/ Fire PROVE calm' \in BOOLEAN /\ orderly' \in BOOLEAN
  BY <1>8, Zenon DEF ReportExit, Ended, Fire, Disturb
<1>9. ASSUME PublishDeleted \/ Delete \/ UNCHANGED vars PROVE UNCHANGED <<orderly, calm>>
  BY <1>9 DEF PublishDeleted, Delete, vars
<1>10. ASSUME Restart PROVE calm' \in BOOLEAN /\ orderly' \in BOOLEAN
  BY <1>10, Zenon DEF Restart, Disturb
<1>11. ASSUME NEW w \in Written, WriteDone(w) PROVE UNCHANGED <<orderly, calm>>
  BY <1>11 DEF WriteDone
<1>12. ASSUME NEW w \in Written, WriteFail(w) PROVE calm' \in BOOLEAN /\ orderly' \in BOOLEAN
  BY <1>12, Zenon DEF WriteFail, Disturb
<1> QED
  BY <1>1, <1>2, <1>3, <1>4, <1>5, <1>6, <1>7, <1>8, <1>9, <1>10, <1>11, <1>12 DEF Next

LEMMA TypeStep == TypeInv /\ [Next]_vars => TypeInv'
<1> SUFFICES ASSUME TypeInv, [Next]_vars PROVE TypeInv'
  OBVIOUS
<1> USE DEF TypeInv, TypeOK, sockets, record, Sockets
<1>0. calm' \in BOOLEAN /\ orderly' \in BOOLEAN
  BY HistoryTypes
<1>1. ASSUME NEW k \in Sockets, Connect(k) \/ Subscribe(k) \/ Refused(k) PROVE TypeInv'
  BY <1>0, <1>1 DEF Connect, Subscribe, Refused
<1>2. ASSUME NEW b \in Browsers, CloseBrowser(b) PROVE TypeInv'
  <2>1. subs' \in SUBSET Sockets /\ channel' \in BOOLEAN /\ stale' \in SUBSET Clis
    BY <1>2, PieceTypes DEF CloseBrowser
  <2> QED
    BY <1>0, <1>2, <2>1 DEF CloseBrowser
<1>3. ASSUME NEW b \in Browsers, UnsubscribeBrowser(b) PROVE TypeInv'
  <2>1. subs' \in SUBSET Sockets /\ channel' \in BOOLEAN /\ stale' \in SUBSET Clis
    BY <1>3, PieceTypes DEF UnsubscribeBrowser
  <2> QED
    BY <1>0, <1>3, <2>1 DEF UnsubscribeBrowser
<1>4. ASSUME NEW b \in Browsers, JoinBrowser(b) PROVE TypeInv'
  <2>1. view' \in [Browsers -> {"none", "connected", "disconnected"}]
    BY <1>4, PieceTypes DEF JoinBrowser
  <2> QED
    BY <1>0, <1>4, <2>1 DEF JoinBrowser, Join
<1>5. ASSUME NEW k \in Clis, CloseCli(k) PROVE TypeInv'
  <2>1. subs' \in SUBSET Sockets /\ channel' \in BOOLEAN /\ stale' \in SUBSET Clis
    BY <1>5, PieceTypes DEF CloseCli
  <2>2. /\ view' \in [Browsers -> {"none", "connected", "disconnected"}]
        /\ armed' \in Nat /\ mapped' \in BOOLEAN /\ (mapped' => armed' > 0)
        /\ writes' \in [Written -> Nat]
    <3>1. CASE /\ Tell(subs, "disconnected") /\ Issue("disconnected") /\ Arm
      <4>1. "disconnected" \in Written
        BY DEF Written
      <4> QED
        BY <3>1, <4>1, PieceTypes
    <3>2. CASE UNCHANGED <<view, writes, armed, mapped>>
      BY <3>2
    <3> QED
      BY <1>5, <3>1, <3>2 DEF CloseCli
  <2> QED
    BY <1>0, <1>5, <2>1, <2>2 DEF CloseCli
<1>6. ASSUME NEW k \in Clis, CloseIdle(k) \/ SendEnded(k) PROVE TypeInv'
  <2>1. CASE CloseIdle(k)
    BY <1>0, <2>1 DEF CloseIdle
  <2>2. CASE SendEnded(k)
    BY <1>0, <2>2 DEF SendEnded
  <2> QED
    BY <1>6, <2>1, <2>2
<1>7. ASSUME NEW k \in Clis, Counted(k) PROVE TypeInv'
  <2>1. view' \in [Browsers -> {"none", "connected", "disconnected"}]
    BY <1>7, PieceTypes DEF Counted
  <2> QED
    BY <1>0, <1>7, <2>1 DEF Counted
<1>8. ASSUME NEW k \in Clis, JoinCli(k) PROVE TypeInv'
  <2>1. /\ armed' \in Nat /\ mapped' = FALSE /\ writes' \in [Written -> Nat]
    BY <1>8, PieceTypes DEF JoinCli, Written
  <2> QED
    BY <1>0, <1>8, <2>1 DEF JoinCli, Join
<1>9. ASSUME NEW k \in Clis, UnsubscribeCli(k) PROVE TypeInv'
  <2>1. subs' \in SUBSET Sockets /\ channel' \in BOOLEAN /\ stale' \in SUBSET Clis
    BY <1>9, PieceTypes DEF UnsubscribeCli
  <2>2. /\ view' \in [Browsers -> {"none", "connected", "disconnected"}]
        /\ armed' \in Nat /\ mapped' \in BOOLEAN /\ (mapped' => armed' > 0)
    BY <1>9, PieceTypes DEF UnsubscribeCli
  <2> QED
    BY <1>0, <1>9, <2>1, <2>2 DEF UnsubscribeCli
<1>10. ASSUME ReportExit \/ PublishDeleted \/ Delete PROVE TypeInv'
  <2>1. CASE ReportExit
    BY <1>0, <2>1 DEF ReportExit, Written
  <2>2. CASE PublishDeleted
    BY <1>0, <2>2 DEF PublishDeleted
  <2>3. CASE Delete
    BY <1>0, <2>3 DEF Delete
  <2> QED
    BY <1>10, <2>1, <2>2, <2>3
<1>11. ASSUME Ended PROVE TypeInv'
  BY <1>0, <1>11, PieceTypes DEF Ended
<1>12. ASSUME Fire PROVE TypeInv'
  <2>1. writes' \in [Written -> Nat]
    BY <1>12, PieceTypes DEF Fire, Written
  <2>2. armed' \in Nat /\ mapped' = FALSE /\ status' = status
    BY <1>12 DEF Fire
  <2> QED
    BY <1>0, <1>12, <2>1, <2>2 DEF Fire
<1>13. ASSUME Restart PROVE TypeInv'
  BY <1>0, <1>13 DEF Restart
<1>14. ASSUME NEW w \in Written, WriteDone(w) PROVE TypeInv'
  <2>1. writes' \in [Written -> Nat]
    BY <1>14 DEF WriteDone
  <2> QED
    BY <1>0, <1>14, <2>1 DEF WriteDone
<1>15. ASSUME NEW w \in Written, WriteFail(w) PROVE TypeInv'
  <2>1. writes' \in [Written -> Nat]
    BY <1>15 DEF WriteFail
  <2> QED
    BY <1>0, <1>15, <2>1 DEF WriteFail
<1>16. ASSUME UNCHANGED vars PROVE TypeInv'
  BY <1>16 DEF vars
<1> QED
  BY <1>1, <1>2, <1>3, <1>4, <1>5, <1>6, <1>7, <1>8, <1>9, <1>10, <1>11, <1>12, <1>13, <1>14, <1>15, <1>16
  DEF Next

-----------------------------------------------------------------------------
(* Who is told what.                                                       *)

\* The channels are subscribed with the first subscriber and given up with the
\* last one.
LEMMA ChannelStep ==
  TypeInv /\ ListensWhileWatched /\ [Next]_vars => ListensWhileWatched'
<1> SUFFICES ASSUME TypeInv, ListensWhileWatched, [Next]_vars PROVE ListensWhileWatched'
  OBVIOUS
<1> USE DEF ListensWhileWatched, TypeInv, TypeOK, sockets, record
<1>1. ASSUME NEW k, LeaveSubs(k) PROVE ListensWhileWatched'
  BY <1>1 DEF LeaveSubs
<1>2. ASSUME NEW k, Join(k) PROVE ListensWhileWatched'
  BY <1>2 DEF Join
<1>3. ASSUME UNCHANGED <<subs, channel>> PROVE ListensWhileWatched'
  BY <1>3
<1>4. ASSUME NEW b \in Browsers, CloseBrowser(b) PROVE ListensWhileWatched'
  BY <1>1, <1>3, <1>4 DEF CloseBrowser
<1>5. ASSUME NEW b \in Browsers, UnsubscribeBrowser(b) \/ JoinBrowser(b)
      PROVE  ListensWhileWatched'
  BY <1>1, <1>2, <1>5 DEF UnsubscribeBrowser, JoinBrowser
<1>6. ASSUME NEW k \in Clis, CloseCli(k) \/ UnsubscribeCli(k) \/ JoinCli(k)
      PROVE  ListensWhileWatched'
  BY <1>1, <1>2, <1>6 DEF CloseCli, UnsubscribeCli, JoinCli
<1>7. ASSUME Restart PROVE ListensWhileWatched'
  BY <1>7 DEF Restart
<1> QED
  BY <1>3, <1>4, <1>5, <1>6, <1>7
  DEF Next, vars, Connect, Subscribe, Refused, CloseIdle, Counted, SendEnded, ReportExit,
      PublishDeleted, Delete, Ended, Fire, WriteDone, WriteFail

\* A subscriber that leaves does not take the set away from the handlers that
\* wait, unless it is one of them.
LEMMA PlacedStep == TypeInv /\ Placed /\ [Next]_vars => Placed'
<1> SUFFICES ASSUME TypeInv, Placed, [Next]_vars PROVE Placed'
  OBVIOUS
<1> USE PresenceAssumption DEF Placed, TypeInv, TypeOK, sockets, record, Sockets
<1>1. ASSUME NEW k \in Sockets, LeaveSubs(k), UNCHANGED task,
             orderly' => orderly /\ task[k] # "init"
      PROVE  Placed'
  BY <1>1 DEF LeaveSubs
<1>2. ASSUME NEW k \in Sockets, Connect(k) \/ Subscribe(k) \/ Refused(k) PROVE Placed'
  BY <1>2 DEF Connect, Subscribe, Refused
<1>3. ASSUME NEW b \in Browsers, CloseBrowser(b) PROVE Placed'
  <2>1. CASE b \in joined
    BY <1>1, <1>3, <2>1 DEF CloseBrowser
  <2>2. CASE b \notin joined
    BY <1>3, <2>2 DEF CloseBrowser
  <2> QED
    BY <2>1, <2>2
<1>4. ASSUME NEW b \in Browsers, UnsubscribeBrowser(b) PROVE Placed'
  BY <1>1, <1>4 DEF UnsubscribeBrowser
<1>5. ASSUME NEW b \in Browsers, JoinBrowser(b) PROVE Placed'
  BY <1>5 DEF JoinBrowser, Join
<1>6. ASSUME NEW k \in Clis, CloseCli(k) \/ UnsubscribeCli(k) PROVE Placed'
  <2>1. LeaveSubs(k) /\ UNCHANGED task /\ (orderly' => orderly /\ task[k] # "init")
    BY <1>6 DEF CloseCli, UnsubscribeCli, Leaves
  <2> QED
    BY <1>1, <2>1
<1>7. ASSUME NEW k \in Clis, JoinCli(k) PROVE Placed'
  <2>1. /\ task' = [task EXCEPT ![k] = "init"]
        /\ subs' = subs \cup {k} /\ UNCHANGED <<stale, orderly>>
    BY <1>7 DEF JoinCli, Join
  <2>2. k \notin stale
    BY <1>7 DEF JoinCli, Join
  <2> QED
    BY <2>1, <2>2
<1>8. ASSUME NEW k \in Clis, CloseIdle(k) \/ Counted(k) \/ SendEnded(k) PROVE Placed'
  BY <1>8 DEF CloseIdle, Counted, SendEnded, Leaves
<1>9. ASSUME Restart PROVE Placed'
  BY <1>9 DEF Restart
<1>10. ASSUME ReportExit \/ PublishDeleted \/ Delete \/ Ended \/ Fire
      PROVE  Placed'
  BY <1>10 DEF ReportExit, PublishDeleted, Delete, Ended, Fire
<1>11. ASSUME NEW w \in Written, WriteDone(w) \/ WriteFail(w) PROVE Placed'
  <2>1. UNCHANGED <<subs, task, stale, orderly>>
    BY <1>11 DEF WriteDone, WriteFail
  <2> QED
    BY <2>1
<1>12. ASSUME UNCHANGED vars PROVE Placed'
  BY <1>12 DEF vars
<1> QED
  BY <1>2, <1>3, <1>4, <1>5, <1>6, <1>7, <1>8, <1>9, <1>10, <1>11, <1>12 DEF Next

\* A frame reaches the open browsers of a set, and nobody else.
LEMMA Told ==
  ASSUME TypeInv, NEW S, NEW what, Tell(S, what), NEW b \in Browsers
  PROVE  view'[b] = IF b \in S /\ b \in open THEN what ELSE view[b]
BY DEF TypeInv, TypeOK, Tell

\* What the relay would tell a browser now.
Presence == IF cli # {} THEN "connected" ELSE "disconnected"

LEMMA KnownStep == TypeInv /\ Placed /\ BrowsersKnow /\ [Next]_vars => BrowsersKnow'
<1> SUFFICES ASSUME TypeInv, Placed, BrowsersKnow, [Next]_vars,
                    orderly', NEW b \in Browsers, b \in subs', b \in open'
             PROVE  view'[b] = Presence'
  BY DEF BrowsersKnow, Presence
<1> DEFINE Goal == view'[b] = Presence'
<1> USE PresenceAssumption DEF sockets, record, Sockets, Presence
<1>1. ASSUME orderly, b \in subs, b \in open, view'[b] = view[b], cli' = {} <=> cli = {}
      PROVE  Goal
  BY <1>1 DEF BrowsersKnow
<1>2. ASSUME NEW k \in Sockets, Connect(k) PROVE Goal
  BY <1>1, <1>2 DEF Connect, TypeInv, TypeOK
<1>3. ASSUME NEW k \in Sockets, Subscribe(k) \/ Refused(k) PROVE Goal
  BY <1>1, <1>3 DEF Subscribe, Refused
<1>4. ASSUME NEW j \in Browsers, CloseBrowser(j) \/ UnsubscribeBrowser(j) PROVE Goal
  BY <1>1, <1>4 DEF CloseBrowser, UnsubscribeBrowser, LeaveSubs
<1>5. ASSUME NEW j \in Browsers, JoinBrowser(j) PROVE Goal
  <2>1. UNCHANGED <<open, cli, orderly>> /\ subs' = subs \cup {j}
    BY <1>5 DEF JoinBrowser, Join
  <2>2. view'[b] = IF b \in {j} /\ b \in open THEN Presence ELSE view[b]
    BY <1>5, Told DEF JoinBrowser
  <2>3. CASE b = j
    BY <2>1, <2>2, <2>3
  <2>4. CASE b # j
    BY <1>1, <2>1, <2>2, <2>4
  <2> QED
    BY <2>3, <2>4
<1>6. ASSUME NEW k \in Clis, CloseCli(k) PROVE Goal
  <2>1. orderly /\ b \in subs /\ b \in open /\ cli' = cli \ {k}
    BY <1>6 DEF CloseCli, LeaveSubs, Leaves
  <2>2. CASE LastCli(k) /\ Tell(subs, "disconnected")
    BY <2>1, <2>2, Told DEF LastCli
  <2>3. CASE ~LastCli(k) /\ UNCHANGED view
    BY <1>1, <2>1, <2>3 DEF LastCli
  <2> QED
    BY <1>6, <2>2, <2>3 DEF CloseCli
<1>7. ASSUME NEW k \in Clis, UnsubscribeCli(k) PROVE Goal
  <2>1. orderly /\ b \in subs /\ b \in open /\ cli' = cli \ {k}
    BY <1>7 DEF UnsubscribeCli, LeaveSubs, Leaves
  <2>2. CASE LastCli(k) /\ Tell(subs, "disconnected")
    BY <2>1, <2>2, Told DEF LastCli
  <2>3. CASE ~LastCli(k) /\ UNCHANGED view
    BY <1>1, <2>1, <2>3 DEF LastCli
  <2> QED
    BY <1>7, <2>2, <2>3 DEF UnsubscribeCli
<1>8. ASSUME NEW k \in Clis, CloseIdle(k) PROVE Goal
  BY <1>1, <1>8 DEF CloseIdle, Leaves
<1>9. ASSUME NEW k \in Clis, SendEnded(k) PROVE Goal
  BY <1>1, <1>9 DEF SendEnded
<1>10. ASSUME NEW k \in Clis, JoinCli(k) PROVE Goal
  BY <1>1, <1>10 DEF JoinCli, Join
<1>11. ASSUME NEW k \in Clis, Counted(k) PROVE Goal
  <2>1. UNCHANGED <<open, subs, orderly>> /\ cli' = cli \cup {k}
    BY <1>11 DEF Counted
  <2>2. k \notin stale
    BY <1>11, <2>1 DEF Counted, Placed
  <2>3. Tell(subs, "connected")
    BY <1>11, <2>2 DEF Counted
  <2> QED
    BY <2>1, <2>3, Told
<1>12. ASSUME ReportExit \/ PublishDeleted \/ Delete \/ Ended \/ Fire PROVE Goal
  BY <1>1, <1>12 DEF ReportExit, PublishDeleted, Delete, Ended, Fire
<1>13. ASSUME Restart PROVE Goal
  BY <1>13 DEF Restart
<1>14. ASSUME NEW w \in Written, WriteDone(w) \/ WriteFail(w) PROVE Goal
  <2>1. UNCHANGED <<subs, open, view, cli, orderly>>
    BY <1>14 DEF WriteDone, WriteFail
  <2> QED
    BY <1>1, <2>1
<1>15. ASSUME UNCHANGED vars PROVE Goal
  BY <1>1, <1>15 DEF vars
<1> QED
  BY <1>2, <1>3, <1>4, <1>5, <1>6, <1>7, <1>8, <1>9, <1>10, <1>11, <1>12, <1>13, <1>14, <1>15
  DEF Next

-----------------------------------------------------------------------------
(* Calm sessions.                                                          *)

LEMMA EffectiveIs == Effective = EffectiveAt(writes, status)
BY DEF Effective, InFlight, EffectiveAt

LEMMA EffectiveNext == Effective' = EffectiveAt(writes', status')
BY DEF Effective, InFlight, EffectiveAt

\* The only write in flight decides.
LEMMA OneDecides ==
  ASSUME NEW wr \in [Written -> Nat], NEW st, NEW w \in Written, wr[w] > 0,
         \A v \in Written : wr[v] > 0 => v = w
  PROVE  EffectiveAt(wr, st) = IF st = "deleted" THEN st ELSE w
<1>1. (CHOOSE v \in Written : wr[v] > 0) = w
  OBVIOUS
<1> QED
  BY <1>1 DEF EffectiveAt

LEMMA NoneDecides ==
  ASSUME NEW wr, NEW st, \A w \in Written : ~(wr[w] > 0)
  PROVE  EffectiveAt(wr, st) = st
BY DEF EffectiveAt

\* A write issued while none is in flight decides from then on.
LEMMA IssueDecides ==
  ASSUME TypeInv, ~InFlight, NEW w \in Written, Issue(w), UNCHANGED status
  PROVE  /\ Effective' = IF status = "deleted" THEN status ELSE w
         /\ \A u, v \in Written : writes'[u] > 0 /\ writes'[v] > 0 => u = v /\ writes'[u] = 1
<1>1. \A v \in Written : writes[v] = 0
  BY DEF InFlight, TypeInv, TypeOK
<1>2. /\ writes' \in [Written -> Nat] /\ writes'[w] = 1
      /\ \A v \in Written : v # w => writes'[v] = 0
  BY <1>1 DEF Issue, TypeInv, TypeOK
<1>3. Effective' = IF status' = "deleted" THEN status' ELSE w
  BY <1>2, OneDecides, EffectiveNext
<1> QED
  BY <1>2, <1>3

\* A write that is executed is the one that decided.
LEMMA DoneDecides ==
  ASSUME TypeInv, calm, OneWrite, NEW w \in Written, WriteDone(w)
  PROVE  /\ Effective' = Effective
         /\ \A v \in Written : writes'[v] = 0
<1>1. \A v \in Written : writes[v] > 0 => v = w
  BY DEF OneWrite, WriteDone
<1>2. writes[w] = 1
  BY DEF OneWrite, WriteDone
<1>3. \A v \in Written : writes'[v] = 0
  BY <1>1, <1>2 DEF WriteDone, TypeInv, TypeOK
<1>4. Effective' = status'
  BY <1>3, NoneDecides, EffectiveNext
<1>5. Effective = IF status = "deleted" THEN status ELSE w
  BY <1>1, <1>2, OneDecides, EffectiveIs DEF TypeInv, TypeOK
<1> QED
  BY <1>3, <1>4, <1>5 DEF WriteDone

\* Steps that leave timer, status and writes alone and bring no CLI.
LEMMA QuietStep ==
  ASSUME OneWrite, TimerKept, StatusKept,
         UNCHANGED <<armed, mapped, writes, status, exited>>,
         calm' => calm, Attended' => Attended
  PROVE  OneWrite' /\ TimerKept' /\ StatusKept'
<1>1. Effective' = Effective
  BY DEF Effective, InFlight
<1> QED
  BY <1>1 DEF OneWrite, TimerKept, StatusKept

LEMMA QuietActions ==
  ASSUME TypeInv,
         \/ \E k \in Sockets : Connect(k) \/ Subscribe(k) \/ Refused(k)
         \/ \E b \in Browsers : CloseBrowser(b) \/ JoinBrowser(b) \/ UnsubscribeBrowser(b)
         \/ \E k \in Clis : CloseIdle(k) \/ Counted(k) \/ SendEnded(k)
         \/ PublishDeleted \/ UNCHANGED vars
  PROVE  /\ UNCHANGED <<armed, mapped, writes, status, exited>>
         /\ calm' => calm
         /\ Attended' => Attended
<1> USE DEF sockets, record, TypeInv, TypeOK, Attended, Sockets
<1>1. ASSUME NEW k \in Sockets, Connect(k) \/ Subscribe(k) \/ Refused(k)
      PROVE  /\ UNCHANGED <<armed, mapped, writes, status, exited>>
             /\ calm' => calm
             /\ Attended' => Attended
  BY <1>1 DEF Connect, Subscribe, Refused
<1>2. ASSUME NEW b \in Browsers, CloseBrowser(b) \/ JoinBrowser(b) \/ UnsubscribeBrowser(b)
      PROVE  /\ UNCHANGED <<armed, mapped, writes, status, exited>>
             /\ calm' => calm
             /\ Attended' => Attended
  <2>1. UNCHANGED <<armed, mapped, writes, status, exited, calm, cli>>
    BY <1>2 DEF CloseBrowser, JoinBrowser, UnsubscribeBrowser
  <2>2. \A k \in Clis : task'[k] = "init" => task[k] = "init"
    BY <1>2, PresenceAssumption DEF CloseBrowser, JoinBrowser, UnsubscribeBrowser, Join
  <2> QED
    BY <2>1, <2>2
<1>3. ASSUME NEW k \in Clis, CloseIdle(k) \/ Counted(k) \/ SendEnded(k)
      PROVE  /\ UNCHANGED <<armed, mapped, writes, status, exited>>
             /\ calm' => calm
             /\ Attended' => Attended
  BY <1>3 DEF CloseIdle, Counted, SendEnded
<1>4. ASSUME PublishDeleted \/ UNCHANGED vars
      PROVE  /\ UNCHANGED <<armed, mapped, writes, status, exited>>
             /\ calm' => calm
             /\ Attended' => Attended
  BY <1>4 DEF PublishDeleted, vars
<1> QED
  BY <1>1, <1>2, <1>3, <1>4

LEMMA CalmStep ==
  CalmInv /\ [Next]_vars => OneWrite' /\ TimerKept' /\ StatusKept'
<1> SUFFICES ASSUME CalmInv, [Next]_vars PROVE OneWrite' /\ TimerKept' /\ StatusKept'
  OBVIOUS
<1> DEFINE Goal == OneWrite' /\ TimerKept' /\ StatusKept'
<1> USE DEF CalmInv, sockets, record
<1>0. TypeInv'
  BY TypeStep
<1>1. ASSUME ~calm' PROVE Goal
  BY <1>0, <1>1 DEF OneWrite, TimerKept, StatusKept, TypeInv
<1>2. ASSUME \/ \E k \in Sockets : Connect(k) \/ Subscribe(k) \/ Refused(k)
             \/ \E b \in Browsers : CloseBrowser(b) \/ JoinBrowser(b) \/ UnsubscribeBrowser(b)
             \/ \E k \in Clis : CloseIdle(k) \/ Counted(k) \/ SendEnded(k)
             \/ PublishDeleted \/ UNCHANGED vars
      PROVE  Goal
  BY <1>2, QuietStep, QuietActions
<1>3. ASSUME NEW k \in Clis, CloseCli(k) PROVE Goal
  <2> SUFFICES ASSUME calm' PROVE Goal
    BY <1>1
  <2>1. /\ calm /\ UNCHANGED <<task, status, exited>> /\ cli' = cli \ {k}
        /\ \A j \in Clis : task[j] # "init"
    BY <1>3 DEF CloseCli, Disturb
  <2>2. CASE LastCli(k) /\ Issue("disconnected") /\ Arm /\ ~InFlight
    <3>1. "disconnected" \in Written
      BY DEF Written
    <3>2. /\ Effective' = IF status = "deleted" THEN status ELSE "disconnected"
          /\ OneWrite'
      BY <2>1, <2>2, <3>1, IssueDecides DEF OneWrite
    <3>3. armed = 0
      BY <2>1, <2>2 DEF TimerKept, Attended, LastCli
    <3>4. ~Attended' /\ mapped' /\ armed' = 1
      BY <2>1, <2>2, <3>3 DEF Attended, LastCli, Arm
    <3> QED
      BY <3>2, <3>4 DEF TimerKept, StatusKept
  <2>3. CASE UNCHANGED <<writes, armed, mapped>>
    BY <2>1, <2>3, QuietStep DEF Attended
  <2> QED
    BY <1>3, <2>2, <2>3, Zenon DEF CloseCli, Disturb
<1>4. ASSUME NEW k \in Clis, JoinCli(k) PROVE Goal
  <2> SUFFICES ASSUME calm' PROVE Goal
    BY <1>1
  <2>1. /\ UNCHANGED <<cli, status, exited>> /\ mapped' = FALSE /\ calm
        /\ armed' = (IF mapped THEN armed - 1 ELSE armed)
    BY <1>4 DEF JoinCli, Cancel, Disturb
  <2>2. armed' = 0
    BY <2>1 DEF TimerKept, TypeInv, TypeOK
  <2>3. CASE mapped
    <3>1. Issue("running") /\ ~InFlight /\ "running" \in Written
      BY <1>4, <2>3 DEF JoinCli, Disturb, Written
    <3>2. /\ Effective' = IF status = "deleted" THEN status ELSE "running"
          /\ OneWrite'
      BY <2>1, <3>1, IssueDecides DEF OneWrite
    <3> QED
      BY <2>1, <2>2, <3>2 DEF TimerKept, StatusKept
  <2>4. CASE ~mapped
    <3>1. UNCHANGED writes /\ (exited \/ Effective = "running")
      BY <1>4, <2>4 DEF JoinCli, Disturb
    <3>2. Effective' = Effective /\ OneWrite'
      BY <2>1, <3>1 DEF Effective, InFlight, OneWrite
    <3> QED
      BY <2>1, <2>2, <2>4, <3>1, <3>2 DEF TimerKept, StatusKept
  <2> QED
    BY <2>3, <2>4
<1>5. ASSUME NEW k \in Clis, UnsubscribeCli(k) PROVE Goal
  <2> SUFFICES ASSUME calm' PROVE Goal
    BY <1>1
  <2>1. /\ UNCHANGED <<task, writes, status, exited>> /\ cli' = cli \ {k} /\ calm
    BY <1>5 DEF UnsubscribeCli, Disturb
  <2>2. CASE LastCli(k) /\ Cancel
    <3>1. Attended
      BY <2>2 DEF LastCli, Attended
    <3>2. armed = 0 /\ ~mapped
      BY <2>1, <3>1 DEF TimerKept, TypeInv, TypeOK
    <3>3. UNCHANGED <<armed, mapped>>
      BY <2>2, <3>2 DEF Cancel, TypeInv, TypeOK
    <3> QED
      BY <2>1, <3>1, <3>3, QuietStep
  <2>3. CASE UNCHANGED <<armed, mapped>>
    BY <2>1, <2>3, QuietStep DEF Attended
  <2> QED
    BY <1>5, <2>2, <2>3 DEF UnsubscribeCli
<1>6. ASSUME ReportExit PROVE Goal
  <2> SUFFICES ASSUME calm' PROVE Goal
    BY <1>1
  <2>1. /\ UNCHANGED <<cli, task, armed, mapped, writes>> /\ exited' /\ calm /\ ~InFlight
        /\ status' \in {status, IF status = "deleted" THEN status ELSE "stopped"}
    BY <1>6 DEF ReportExit, Disturb
  <2>2. Effective' = status'
    BY <2>1, NoneDecides, EffectiveNext DEF InFlight
  <2>3. Effective = status
    BY <2>1 DEF Effective
  <2> QED
    BY <2>1, <2>2, <2>3 DEF OneWrite, TimerKept, StatusKept, Attended
<1>7. ASSUME Delete PROVE Goal
  <2>1. UNCHANGED <<cli, task, armed, mapped, writes, exited, calm>> /\ status' = "deleted"
    BY <1>7 DEF Delete
  <2>2. Effective' = "deleted"
    BY <2>1 DEF Effective
  <2> QED
    BY <2>1, <2>2 DEF OneWrite, TimerKept, StatusKept, Attended
<1>8. ASSUME Ended PROVE Goal
  <2> SUFFICES ASSUME calm' PROVE Goal
    BY <1>1
  <2>1. UNCHANGED <<cli, task, writes, status, exited>> /\ calm
    BY <1>8 DEF Ended, Disturb
  <2>2. CASE UNCHANGED <<armed, mapped>>
    BY <2>1, <2>2, QuietStep DEF Attended
  <2>3. CASE Cancel /\ mapped /\ status = "deleted"
    <3>1. Effective' = "deleted" /\ mapped' = FALSE /\ armed' = 0
      BY <2>1, <2>3 DEF Effective, Cancel, TimerKept, TypeInv, TypeOK
    <3> QED
      BY <2>1, <3>1 DEF OneWrite, TimerKept, StatusKept, Attended
  <2>4. channel /\ mapped => status = "deleted"
    BY <1>8 DEF Ended, Disturb
  <2>5. Cancel /\ ~mapped => UNCHANGED <<armed, mapped>>
    BY DEF Cancel, TypeInv, TypeOK
  <2> QED
    BY <1>8, <2>2, <2>3, <2>4, <2>5 DEF Ended
<1>9. ASSUME Fire PROVE Goal
  <2> SUFFICES ASSUME calm' PROVE Goal
    BY <1>1
  <2>1. /\ UNCHANGED <<cli, task, status, exited>> /\ calm /\ ~InFlight /\ mapped' = FALSE
        /\ Issue("stopped") /\ "stopped" \in Written /\ armed > 0 /\ armed' = armed - 1
    BY <1>9 DEF Fire, Disturb, Written
  <2>2. /\ Effective' = IF status = "deleted" THEN status ELSE "stopped"
        /\ OneWrite'
    BY <2>1, IssueDecides DEF OneWrite
  <2>3. armed = 1 /\ ~Attended
    BY <2>1 DEF TimerKept, TypeInv, TypeOK
  <2> QED
    BY <2>1, <2>2, <2>3 DEF TimerKept, StatusKept, Attended
<1>10. ASSUME NEW w \in Written, WriteDone(w) PROVE Goal
  <2> SUFFICES ASSUME calm' PROVE Goal
    BY <1>1
  <2>1. UNCHANGED <<cli, task, armed, mapped, exited, calm>>
    BY <1>10 DEF WriteDone
  <2>2. Effective' = Effective /\ \A v \in Written : writes'[v] = 0
    BY <1>10, <2>1, DoneDecides
  <2> QED
    BY <2>1, <2>2 DEF OneWrite, TimerKept, StatusKept, Attended
<1>11. ASSUME NEW w \in Written, WriteFail(w) PROVE Goal
  BY <1>1, <1>11 DEF WriteFail, Disturb
<1>12. ASSUME Restart PROVE Goal
  BY <1>1, <1>12 DEF Restart, Disturb
<1> QED
  BY <1>2, <1>3, <1>4, <1>5, <1>6, <1>7, <1>8, <1>9, <1>10, <1>11, <1>12 DEF Next

-----------------------------------------------------------------------------
LEMMA SocketsInvariance == Spec => []SocketsInv
<1>1. SocketsInv /\ [Next]_vars => SocketsInv'
  BY TypeStep, ChannelStep, PlacedStep, KnownStep DEF SocketsInv
<1> QED
  BY InitInv, <1>1, PTL DEF Spec

LEMMA CalmInvariance == Spec => []CalmInv
<1>1. CalmInv /\ [Next]_vars => CalmInv'
  BY TypeStep, CalmStep DEF CalmInv
<1> QED
  BY InitInv, <1>1, PTL DEF Spec

\* The relay keeps its types; a timer the map holds is one that will fire.
THEOREM PresenceTypes == Spec => []TypeOK
<1>1. SocketsInv => TypeOK
  BY DEF SocketsInv, TypeInv
<1> QED
  BY SocketsInvariance, <1>1, PTL

\* The relay listens on the session's channels exactly while it has subscribers.
THEOREM Listens == Spec => []ListensWhileWatched
<1>1. SocketsInv => ListensWhileWatched
  BY DEF SocketsInv
<1> QED
  BY SocketsInvariance, <1>1, PTL

\* Browsers know whether a CLI is there, as long as no CLI left with its own
\* SUBSCRIBE under way.
THEOREM BrowsersAreTold == Spec => []BrowsersKnow
<1>1. SocketsInv => BrowsersKnow
  BY DEF SocketsInv
<1> QED
  BY SocketsInvariance, <1>1, PTL

\* What serves a calm session is recorded as running.
THEOREM ServedSessionsRun == Spec => []ServedIsRunning
<1>1. CalmInv => ServedIsRunning
  BY DEF CalmInv, StatusKept, ServedIsRunning, Attended
<1> QED
  BY CalmInvariance, <1>1, PTL

\* A calm session that is disconnected has the timer that will stop it.
THEOREM DisconnectedSessionsEnd == Spec => []DisconnectedHasTimer
<1>1. CalmInv => DisconnectedHasTimer
  BY DEF CalmInv, StatusKept, DisconnectedHasTimer, Attended
<1> QED
  BY CalmInvariance, <1>1, PTL

\* No timer of a calm session is lost track of, or runs while a CLI serves it.
THEOREM TimersAreKept == Spec => []NoStrayTimer
<1>1. CalmInv => NoStrayTimer
  BY DEF CalmInv, TimerKept, NoStrayTimer, Attended
<1> QED
  BY CalmInvariance, <1>1, PTL

\* So a calm session has its timer exactly as long as it is needed.
THEOREM TimersAreRight == Spec => []TimersFollow
<1>1. DisconnectedHasTimer /\ NoStrayTimer => TimersFollow
  BY DEF TimersFollow
<1> QED
  BY DisconnectedSessionsEnd, TimersAreKept, <1>1, PTL

=============================================================================
