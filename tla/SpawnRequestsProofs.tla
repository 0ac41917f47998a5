------------------------ MODULE SpawnRequestsProofs ------------------------
(***************************************************************************)
(* Proofs about SpawnRequests, for any set of calls and any limits.        *)
(*                                                                         *)
(* The strengthening follows a request: as long as it is on its way the    *)
(* daemon knows nothing of it (Unseen), the frames under way tell what the *)
(* daemon made of it (Told), and what the relay has subscribed, or is      *)
(* about to, is active or will be unsubscribed (Kept).                     *)
(***************************************************************************)
EXTENDS SpawnRequests, FiniteSetTheorems, TLAPS

\* The calls under way can be counted, and the counter has.
Counted == IsFiniteSet(UnderWay) /\ SlotsHeld

\* A request that has not arrived has no stage, and is in one place.
Unseen ==
  /\ wire \cap down = {}
  /\ \A c \in wire \cup down : stage[c] = "none" /\ call[c] # "idle"
  /\ \A c \in Calls : call[c] = "idle" => stage[c] = "none"

\* An answer with a session, and an UNSUBSCRIBE, are sent at their stages.
Told ==
  \A c \in Calls :
    /\ Frame("spawned", c) \in up => stage[c] \in {"running", "exiting", "gone"}
    /\ Frame("unsubscribe", c) \in up => stage[c] = "gone"

\* What is on its way to the relay ends with the relay's socket.
Gone == ~entry => up = {} /\ joined = {}

Kept ==
  ws /\ entry =>
    \A c \in Calls \ stuck :
      c \in joined \/ Frame("subscribe", c) \in up =>
        c \in Active \/ Frame("unsubscribe", c) \in up

\* The sessions the daemon has or makes are few, unless spawns overlapped.
Limited ==
  /\ IsFiniteSet(Active \cup Creating)
  /\ ~overlapped => Cardinality(Active \cup Creating) <= MaxActive

Served == PendingWait /\ Unseen /\ Told /\ ServedHasRun
Linked == Gone /\ Told /\ ActiveAreJoined /\ Kept

IInv == TypeOK /\ Counted /\ Served /\ Linked /\ Limited

-----------------------------------------------------------------------------
(* Lemmas about the operators.                                             *)

\* Frames are told apart by their type and their call.
LEMMA FrameEq ==
  ASSUME NEW t, NEW u, NEW c, NEW d
  PROVE  Frame(t, c) = Frame(u, d) <=> t = u /\ c = d
<1>1. Frame(t, c).type = t /\ Frame(t, c).of = c /\ Frame(u, d).type = u /\ Frame(u, d).of = d
  BY DEF Frame
<1> QED
  BY <1>1 DEF Frame

LEMMA FrameType ==
  ASSUME NEW t \in {"subscribe", "unsubscribe", "spawned", "error"}, NEW c \in Calls
  PROVE  Frame(t, c) \in Frames
BY DEF Frame, Frames

\* What is sent is added, or lost with the socket.
LEMMA SendType ==
  ASSUME TypeOK, NEW F \in SUBSET Frames, Send(F)
  PROVE  up' \in SUBSET Frames
BY DEF TypeOK, Send

\* A call under way holds a slot that no failed call has.
LEMMA SlotOfCall ==
  ASSUME TypeOK, Counted, NEW c \in UnderWay
  PROVE  count >= leaked + 1
<1>1. Cardinality(UnderWay) \in Nat /\ Cardinality(UnderWay) # 0
  BY FS_CardinalityType, FS_EmptySet DEF Counted
<1> QED
  BY <1>1 DEF Counted, SlotsHeld, TypeOK

-----------------------------------------------------------------------------
(* Types.                                                                  *)

LEMMA TypeOfCalls ==
  ASSUME TypeOK, Counted, NEW c \in Calls,
         \/ Spawn(c) \/ Published(c) \/ PublishFails(c) \/ Timeout(c) \/ Forget(c)
  PROVE  TypeOK'
<1> USE SpawnAssumption DEF calls, daemon, link, history, Over
<1>1. CASE Spawn(c)
  BY <1>1 DEF Spawn, TypeOK
<1>2. CASE Published(c)
  BY <1>2 DEF Published, TypeOK
<1>3. CASE PublishFails(c)
  <2>1. count >= leaked + 1
    BY <1>3, SlotOfCall DEF PublishFails, UnderWay
  <2>2. leaked' \in 0..MaxSpawns
    BY <1>3, <2>1 DEF PublishFails, TypeOK
  <2>3. call' \in [Calls -> {"idle", "publishing", "waiting"} \cup Over] /\ wire' \in SUBSET Calls
    BY <1>3 DEF PublishFails, TypeOK
  <2> QED
    BY <1>3, <2>2, <2>3 DEF PublishFails, TypeOK
<1>4. CASE Timeout(c)
  BY <1>4 DEF Timeout, Ends, TypeOK
<1>5. CASE Forget(c)
  BY <1>5 DEF Forget, TypeOK
<1> QED
  BY <1>1, <1>2, <1>3, <1>4, <1>5

LEMMA TypeOfDaemon ==
  ASSUME TypeOK, NEW c \in Calls,
         \/ Deliver(c) \/ Admit(c) \/ Reject(c) \/ Unreadable(c) \/ Spawned(c)
         \/ CreateFails(c) \/ PtyFails(c) \/ PtyExit(c) \/ Cleaned(c)
  PROVE  TypeOK'
<1> USE FrameType, SendType DEF calls, daemon, link, history
<1>1. CASE Deliver(c) \/ Admit(c) \/ Unreadable(c) \/ PtyExit(c)
  BY <1>1 DEF Deliver, Admit, Unreadable, PtyExit, TypeOK
<1>2. CASE Reject(c)
  <2>1. up' \in SUBSET Frames
    BY <1>2 DEF Reject
  <2> QED
    BY <1>2, <2>1 DEF Reject, TypeOK
<1>3. CASE Spawned(c)
  <2>1. up' \in SUBSET Frames
    BY <1>3 DEF Spawned, SendBack, TypeOK
  <2> QED
    BY <1>3, <2>1 DEF Spawned, SendBack, TypeOK
<1>4. CASE CreateFails(c)
  <2>1. up' \in SUBSET Frames
    BY <1>4 DEF CreateFails, SendBack, TypeOK
  <2> QED
    BY <1>4, <2>1 DEF CreateFails, SendBack, TypeOK
<1>5. CASE PtyFails(c)
  <2>1. up' \in SUBSET Frames
    BY <1>5 DEF PtyFails, SendBack, TypeOK
  <2> QED
    BY <1>5, <2>1 DEF PtyFails, SendBack, TypeOK
<1>6. CASE Cleaned(c)
  <2>1. up' \in SUBSET Frames
    BY <1>6 DEF Cleaned, TypeOK
  <2> QED
    BY <1>6, <2>1 DEF Cleaned, TypeOK
<1> QED
  BY <1>1, <1>2, <1>3, <1>4, <1>5, <1>6

LEMMA TypeOfRelay ==
  ASSUME TypeOK, NEW c \in Calls, NEW t \in {"subscribe", "unsubscribe", "spawned", "error"},
         \/ TakeSubscribe(c) \/ TakeUnsubscribe(c) \/ Dropped(t, c)
         \/ Answer("spawned", c, "served") \/ Answer("error", c, "refused")
  PROVE  TypeOK'
<1> USE DEF calls, daemon, link, history, Take
<1>1. CASE TakeSubscribe(c) \/ TakeUnsubscribe(c)
  BY <1>1 DEF TakeSubscribe, TakeUnsubscribe, TypeOK
<1>2. CASE Dropped(t, c)
  BY <1>2 DEF Dropped, TypeOK
<1>3. ASSUME NEW u, NEW how \in Over, Answer(u, c, how) PROVE TypeOK'
  <2>1. CASE c \in pending
    <3>1. call' \in [Calls -> {"idle", "publishing", "waiting"} \cup Over]
      BY <1>3, <2>1 DEF Answer, Ends, TypeOK
    <3>2. count' \in 0..MaxSpawns
      BY <1>3, <2>1, SpawnAssumption DEF Answer, Ends, TypeOK
    <3> QED
      BY <1>3, <2>1, <3>1, <3>2 DEF Answer, Ends, TypeOK
  <2>2. CASE c \notin pending
    BY <1>3, <2>2 DEF Answer, TypeOK
  <2> QED
    BY <2>1, <2>2
<1>4. {"served", "refused"} \subseteq Over
  BY DEF Over
<1> QED
  BY <1>1, <1>2, <1>3, <1>4

LEMMA TypeOfLink ==
  ASSUME TypeOK, Greeted \/ Connect \/ DaemonClose \/ RelayClose \/ Exit
  PROVE  TypeOK'
<1> USE DEF calls, daemon, link, history
<1>1. CASE Greeted
  <2>1. {Frame("subscribe", c) : c \in Active} \in SUBSET Frames
    BY FrameType DEF Active
  <2>2. up' \in SUBSET Frames
    BY <1>1, <2>1, SendType DEF Greeted
  <2> QED
    BY <1>1, <2>2 DEF Greeted, TypeOK
<1>2. CASE Connect \/ DaemonClose \/ RelayClose
  BY <1>2 DEF Connect, DaemonClose, RelayClose, TypeOK
<1>3. CASE Exit
  BY <1>3 DEF Exit, TypeOK
<1> QED
  BY <1>1, <1>2, <1>3

LEMMA TypeStep == TypeOK /\ Counted /\ [Next]_vars => TypeOK'
<1> SUFFICES ASSUME TypeOK, Counted, [Next]_vars PROVE TypeOK'
  OBVIOUS
<1>1. CASE UNCHANGED vars
  BY <1>1 DEF vars, calls, daemon, link, history, TypeOK
<1> QED
  BY <1>1, TypeOfCalls, TypeOfDaemon, TypeOfRelay, TypeOfLink DEF Next

-----------------------------------------------------------------------------
(* The calls.                                                              *)

\* The steps that change the state of calls: all others leave it alone.
CallStep(c) ==
  \/ Spawn(c) \/ Published(c) \/ PublishFails(c) \/ Timeout(c) \/ Forget(c)
  \/ Answer("spawned", c, "served") \/ Answer("error", c, "refused")

LEMMA CallSteps ==
  ASSUME [Next]_vars
  PROVE  (\E c \in Calls : CallStep(c)) \/ UNCHANGED calls
BY DEF Next, CallStep, vars, calls, Deliver, Admit, Reject, Unreadable, Spawned,
       CreateFails, PtyFails, PtyExit, Cleaned, TakeSubscribe, TakeUnsubscribe, Dropped,
       Greeted, Connect, DaemonClose, RelayClose, Exit

LEMMA PendingStep ==
  ASSUME TypeOK, PendingWait, [Next]_vars
  PROVE  PendingWait'
<1> USE DEF PendingWait
<1>1. CASE UNCHANGED calls
  BY <1>1 DEF calls
<1>2. ASSUME NEW c \in Calls, NEW how \in Over, Ends(c, how) PROVE PendingWait'
  BY <1>2 DEF Ends, Over, TypeOK
<1>3. ASSUME NEW c \in Calls, CallStep(c) PROVE PendingWait'
  <2>1. CASE Spawn(c) \/ Published(c) \/ PublishFails(c)
    BY <2>1 DEF Spawn, Published, PublishFails, TypeOK
  <2>2. CASE Forget(c)
    BY <2>2 DEF Forget, Over, TypeOK
  <2>3. CASE Timeout(c) \/ Answer("spawned", c, "served") \/ Answer("error", c, "refused")
    BY <1>1, <1>2, <2>3 DEF Timeout, Answer, Over
  <2> QED
    BY <1>3, <2>1, <2>2, <2>3 DEF CallStep
<1> QED
  BY <1>1, <1>3, CallSteps

LEMMA CountStep ==
  ASSUME TypeOK, PendingWait, Counted, [Next]_vars
  PROVE  Counted'
<1>1. Cardinality(UnderWay) \in Nat
  BY FS_CardinalityType DEF Counted
<1>2. CASE UnderWay' = UnderWay /\ UNCHANGED <<count, leaked>>
  BY <1>2 DEF Counted, SlotsHeld
<1>3. ASSUME NEW c \in UnderWay, UnderWay' = UnderWay \ {c},
             count' - leaked' = count - leaked - 1, count' \in Nat, leaked' \in Nat
      PROVE  Counted'
  <2>1. IsFiniteSet(UnderWay') /\ Cardinality(UnderWay') = Cardinality(UnderWay) - 1
    BY <1>3, FS_RemoveElement DEF Counted
  <2>2. count \in Nat /\ leaked \in Nat /\ count = Cardinality(UnderWay) + leaked
    BY DEF Counted, SlotsHeld, TypeOK
  <2>3. count' = Cardinality(UnderWay') + leaked'
    BY <1>1, <1>3, <2>1, <2>2
  <2> QED
    BY <2>1, <2>3 DEF Counted, SlotsHeld
<1>4. ASSUME NEW c \in Calls, NEW how \in Over, c \in pending, Ends(c, how)
      PROVE  Counted'
  <2>1. c \in UnderWay /\ UnderWay' = UnderWay \ {c}
    BY <1>4 DEF Ends, Over, UnderWay, PendingWait, TypeOK
  <2>2. count >= 1 /\ count \in Nat /\ leaked \in Nat
    BY <2>1, SlotOfCall DEF TypeOK
  <2>3. count' = count - 1 /\ leaked' = leaked
    BY <1>4, <2>2 DEF Ends
  <2> QED
    BY <1>3, <2>1, <2>2, <2>3
<1>5. ASSUME NEW c \in Calls, CallStep(c) PROVE Counted'
  <2>1. CASE Spawn(c)
    <3>1. c \notin UnderWay /\ UnderWay' = UnderWay \cup {c}
      BY <2>1 DEF Spawn, UnderWay, TypeOK
    <3>2. count' = count + 1 /\ leaked' = leaked
      BY <2>1 DEF Spawn
    <3>3. IsFiniteSet(UnderWay') /\ Cardinality(UnderWay') = Cardinality(UnderWay) + 1
      BY <3>1, FS_AddElement DEF Counted
    <3> QED
      BY <1>1, <3>2, <3>3 DEF Counted, SlotsHeld, TypeOK
  <2>2. CASE Published(c) \/ Forget(c)
    <3>1. UnderWay' = UnderWay
      BY <2>2 DEF Published, Forget, Over, UnderWay, TypeOK
    <3> QED
      BY <1>2, <2>2, <3>1 DEF Published, Forget
  <2>3. CASE PublishFails(c)
    <3>1. c \in UnderWay /\ UnderWay' = UnderWay \ {c}
      BY <2>3 DEF PublishFails, UnderWay, TypeOK
    <3>2. leaked' = leaked + 1 /\ count' = count
      BY <2>3 DEF PublishFails
    <3>3. count \in Nat /\ leaked \in Nat
      BY DEF TypeOK
    <3> QED
      BY <1>3, <3>1, <3>2, <3>3
  <2>4. CASE Timeout(c)
    BY <1>4, <2>4 DEF Timeout, Over
  <2>5. ASSUME NEW type, NEW how \in Over, Answer(type, c, how) PROVE Counted'
    <3>1. CASE c \in pending
      BY <1>4, <2>5, <3>1 DEF Answer
    <3>2. CASE c \notin pending
      <4>1. UNCHANGED <<call, count, leaked>>
        BY <2>5, <3>2 DEF Answer, calls
      <4> QED
        BY <1>2, <4>1 DEF UnderWay
    <3> QED
      BY <3>1, <3>2
  <2>6. {"served", "refused"} \subseteq Over
    BY DEF Over
  <2> QED
    BY <1>5, <2>1, <2>2, <2>3, <2>4, <2>5, <2>6 DEF CallStep
<1>6. CASE UNCHANGED calls
  BY <1>2, <1>6 DEF calls, UnderWay
<1> QED
  BY <1>5, <1>6, CallSteps

-----------------------------------------------------------------------------
(* The request and its answer.                                             *)

LEMMA UnseenStep ==
  ASSUME TypeOK, Unseen, [Next]_vars
  PROVE  Unseen'
<1> USE DEF calls, daemon, link, history, Unseen, TypeOK
<1>1. ASSUME NEW c \in Calls, Spawn(c) PROVE Unseen'
  BY <1>1 DEF Spawn
<1>2. ASSUME NEW c \in Calls, Published(c) \/ PublishFails(c) PROVE Unseen'
  BY <1>2 DEF Published, PublishFails
<1>3. ASSUME NEW c \in Calls, Forget(c) PROVE Unseen'
  BY <1>3 DEF Forget
<1>4. ASSUME NEW c \in Calls, Deliver(c) PROVE Unseen'
  BY <1>4 DEF Deliver
<1>5. ASSUME NEW c \in Calls, Admit(c) \/ Reject(c) \/ Unreadable(c) PROVE Unseen'
  BY <1>5 DEF Admit, Reject, Unreadable
<1>6. ASSUME NEW c \in Calls, Spawned(c) \/ CreateFails(c) \/ PtyFails(c) PROVE Unseen'
  BY <1>6 DEF Spawned, CreateFails, PtyFails
<1>7. ASSUME NEW c \in Calls, PtyExit(c) \/ Cleaned(c) PROVE Unseen'
  BY <1>7 DEF PtyExit, Cleaned
<1>8. ASSUME NEW c \in Calls, NEW how \in Over, Ends(c, how), UNCHANGED <<wire, down, stage>>
      PROVE  Unseen'
  BY <1>8 DEF Ends, Over
<1>9. CASE UNCHANGED <<call, wire, down, stage>>
  BY <1>9
<1>10. ASSUME NEW c \in Calls,
              Timeout(c) \/ Answer("spawned", c, "served") \/ Answer("error", c, "refused")
       PROVE  Unseen'
  BY <1>8, <1>9, <1>10 DEF Timeout, Answer, Over
<1>11. CASE Exit
  BY <1>11 DEF Exit, Active, Creating
<1>12. CASE DaemonClose
  BY <1>12 DEF DaemonClose
<1> QED
  BY <1>1, <1>2, <1>3, <1>4, <1>5, <1>6, <1>7, <1>9, <1>10, <1>11, <1>12
  DEF Next, vars, TakeSubscribe, TakeUnsubscribe, Dropped, Greeted, Connect, RelayClose

\* What is under way after a step that sends.
LEMMA SendMore ==
  ASSUME NEW F, Send(F), NEW f
  PROVE  /\ f \in up' => f \in up \/ f \in F
         /\ f \in up => f \in up'
         /\ entry /\ f \in F => f \in up'
BY DEF Send

LEMMA SendBackMore ==
  ASSUME NEW c, NEW F, SendBack(c, F), NEW f
  PROVE  /\ f \in up' => f \in up \/ f \in F
         /\ f \in up => f \in up'
         /\ c \in own /\ entry /\ f \in F => f \in up'
BY SendMore DEF SendBack

LEMMA ToldStep ==
  ASSUME TypeOK, Unseen, Told, [Next]_vars
  PROVE  Told'
<1> USE DEF calls, daemon, link, history, Told
<1>1. CASE up' \subseteq up /\ UNCHANGED stage
  BY <1>1
<1>2. ASSUME NEW c \in Calls, Forget(c) PROVE Told'
  <2>1. Frame("spawned", c) \notin up /\ Frame("unsubscribe", c) \notin up
    BY <1>2 DEF Forget, Frame
  <2> QED
    BY <1>2, <2>1 DEF Forget, TypeOK
<1>3. ASSUME NEW c \in Calls, Admit(c) \/ Unreadable(c) PROVE Told'
  BY <1>3 DEF Admit, Unreadable, Unseen, TypeOK
<1>4. ASSUME NEW c \in Calls, Reject(c) PROVE Told'
  <2>1. stage[c] = "none"
    BY <1>4 DEF Reject, Unseen
  <2>2. ASSUME NEW d \in Calls, NEW t \in {"spawned", "unsubscribe"}, Frame(t, d) \in up'
        PROVE  Frame(t, d) \in up
    BY <1>4, <2>2, SendMore, FrameEq DEF Reject
  <2> QED
    BY <1>4, <2>1, <2>2 DEF Reject, TypeOK
<1>5. ASSUME NEW c \in Calls, Spawned(c) PROVE Told'
  <2>1. ASSUME NEW d \in Calls, Frame("unsubscribe", d) \in up'
        PROVE  Frame("unsubscribe", d) \in up
    BY <1>5, <2>1, SendBackMore, FrameEq DEF Spawned
  <2>2. ASSUME NEW d \in Calls, Frame("spawned", d) \in up'
        PROVE  Frame("spawned", d) \in up \/ c = d
    BY <1>5, <2>2, SendBackMore, FrameEq DEF Spawned
  <2> QED
    BY <1>5, <2>1, <2>2 DEF Spawned, TypeOK
<1>6. ASSUME NEW c \in Calls, CreateFails(c) \/ PtyFails(c) PROVE Told'
  <2>1. ASSUME NEW d \in Calls, NEW t \in {"spawned", "unsubscribe"}, Frame(t, d) \in up'
        PROVE  Frame(t, d) \in up
    BY <1>6, <2>1, SendBackMore, FrameEq DEF CreateFails, PtyFails
  <2> QED
    BY <1>6, <2>1 DEF CreateFails, PtyFails, TypeOK
<1>7. ASSUME NEW c \in Calls, PtyExit(c) PROVE Told'
  BY <1>7 DEF PtyExit, TypeOK
<1>8. ASSUME NEW c \in Calls, Cleaned(c) PROVE Told'
  <2>1. ASSUME NEW d \in Calls, Frame("spawned", d) \in up'
        PROVE  Frame("spawned", d) \in up
    BY <1>8, <2>1, SendMore, FrameEq DEF Cleaned
  <2>2. ASSUME NEW d \in Calls, Frame("unsubscribe", d) \in up'
        PROVE  Frame("unsubscribe", d) \in up \/ c = d
    BY <1>8, <2>2, SendMore, FrameEq DEF Cleaned
  <2> QED
    BY <1>8, <2>1, <2>2 DEF Cleaned, TypeOK
<1>9. CASE Greeted
  <2>1. ASSUME NEW d \in Calls, NEW t \in {"spawned", "unsubscribe"}, Frame(t, d) \in up'
        PROVE  Frame(t, d) \in up
    BY <1>9, <2>1, SendMore, FrameEq DEF Greeted
  <2> QED
    BY <1>9, <2>1 DEF Greeted
<1>10. CASE Exit
  BY <1>10 DEF Exit, Active, Creating, TypeOK
<1> QED
  BY <1>1, <1>2, <1>3, <1>4, <1>5, <1>6, <1>7, <1>8, <1>9, <1>10
  DEF Next, vars, Spawn, Published, PublishFails, Timeout, Deliver, Take, TakeSubscribe,
      TakeUnsubscribe, Answer, Dropped, Connect, DaemonClose, RelayClose

LEMMA ServedStep ==
  ASSUME TypeOK, Unseen, Told, ServedHasRun, [Next]_vars
  PROVE  ServedHasRun'
<1> USE DEF calls, daemon, link, history, ServedHasRun, TypeOK
<1>1. CASE UNCHANGED <<call, stage>>
  BY <1>1
<1>2. ASSUME NEW c \in Calls, NEW how \in Over, how # "served", Ends(c, how), UNCHANGED stage
      PROVE  ServedHasRun'
  BY <1>2 DEF Ends, Over
<1>3. ASSUME NEW c \in Calls, Answer("spawned", c, "served") PROVE ServedHasRun'
  BY <1>3 DEF Answer, Ends, Take, Told
<1>4. ASSUME NEW c \in Calls, Timeout(c) \/ Answer("error", c, "refused") PROVE ServedHasRun'
  BY <1>1, <1>2, <1>4 DEF Timeout, Answer, Over
<1>5. ASSUME NEW c \in Calls, Spawn(c) \/ Published(c) \/ PublishFails(c) \/ Forget(c)
      PROVE  ServedHasRun'
  BY <1>5 DEF Spawn, Published, PublishFails, Forget
<1>6. ASSUME NEW c \in Calls, Admit(c) \/ Reject(c) \/ Unreadable(c) PROVE ServedHasRun'
  BY <1>6 DEF Admit, Reject, Unreadable, Unseen
<1>7. ASSUME NEW c \in Calls,
             Spawned(c) \/ CreateFails(c) \/ PtyFails(c) \/ PtyExit(c) \/ Cleaned(c)
      PROVE  ServedHasRun'
  BY <1>7 DEF Spawned, CreateFails, PtyFails, PtyExit, Cleaned
<1>8. CASE Exit
  BY <1>8 DEF Exit, Active, Creating
<1> QED
  BY <1>1, <1>3, <1>4, <1>5, <1>6, <1>7, <1>8
  DEF Next, vars, Deliver, TakeSubscribe, TakeUnsubscribe, Dropped, Greeted, Connect,
      DaemonClose, RelayClose

-----------------------------------------------------------------------------
(* Subscriptions.                                                          *)

LEMMA GoneStep ==
  ASSUME TypeOK, Gone, [Next]_vars
  PROVE  Gone'
<1> USE DEF calls, daemon, link, history, Gone
<1>1. ASSUME NEW c \in Calls, NEW F, SendBack(c, F), UNCHANGED <<entry, joined>> PROVE Gone'
  BY <1>1 DEF SendBack, Send
<1>2. ASSUME NEW F, Send(F), UNCHANGED <<entry, joined>> PROVE Gone'
  BY <1>2 DEF Send
<1>3. CASE UNCHANGED <<entry, joined, up>>
  BY <1>3
<1>4. ASSUME NEW c \in Calls, NEW type, Take(type, c), UNCHANGED entry PROVE Gone'
  BY <1>4 DEF Take, TypeOK
<1>5. CASE Connect \/ RelayClose
  BY <1>5 DEF Connect, RelayClose
<1>6. ASSUME NEW c \in Calls, Reject(c) \/ Cleaned(c) \/ Greeted PROVE Gone'
  BY <1>2, <1>3, <1>6 DEF Reject, Cleaned, Greeted
<1>7. ASSUME NEW c \in Calls, Spawned(c) \/ CreateFails(c) \/ PtyFails(c) PROVE Gone'
  BY <1>1, <1>7 DEF Spawned, CreateFails, PtyFails
<1>8. ASSUME NEW c \in Calls, NEW type,
             \/ TakeSubscribe(c) \/ TakeUnsubscribe(c) \/ Dropped(type, c)
             \/ Answer("spawned", c, "served") \/ Answer("error", c, "refused")
      PROVE  Gone'
  BY <1>4, <1>8 DEF TakeSubscribe, TakeUnsubscribe, Dropped, Answer
<1>9. CASE Greeted
  BY <1>2, <1>9 DEF Greeted
<1> QED
  BY <1>3, <1>5, <1>6, <1>7, <1>8, <1>9
  DEF Next, vars, Spawn, Published, PublishFails, Timeout, Forget, Deliver, Admit,
      Unreadable, PtyExit, DaemonClose, Exit

LEMMA ActiveStep ==
  ASSUME TypeOK, Told, Unseen, ActiveAreJoined, [Next]_vars
  PROVE  ActiveAreJoined'
<1> USE DEF calls, daemon, link, history, ActiveAreJoined
<1>1. CASE UNCHANGED <<link, Active, dropped, strayed, joined>> /\ up \subseteq up'
  BY <1>1
<1>2. ASSUME NEW c \in Calls, Forget(c) \/ Admit(c) \/ Unreadable(c) \/ PtyExit(c)
      PROVE  ActiveAreJoined'
  <2>1. Active' = Active
    BY <1>2 DEF Forget, Admit, Unreadable, PtyExit, Active, Unseen, TypeOK
  <2> QED
    BY <1>1, <1>2, <2>1 DEF Forget, Admit, Unreadable, PtyExit
<1>3. ASSUME NEW c \in Calls, Reject(c) PROVE ActiveAreJoined'
  <2>1. Active' = Active
    BY <1>3 DEF Reject, Active, Unseen, TypeOK
  <2> QED
    BY <1>1, <1>3, <2>1 DEF Reject, Send
<1>4. ASSUME NEW c \in Calls, CreateFails(c) \/ PtyFails(c) PROVE ActiveAreJoined'
  <2>1. Active' = Active
    BY <1>4 DEF CreateFails, PtyFails, Active, TypeOK
  <2> QED
    BY <1>1, <1>4, <2>1 DEF CreateFails, PtyFails, SendBack, Send
<1>5. ASSUME NEW c \in Calls, Spawned(c) PROVE ActiveAreJoined'
  <2>1. Active' = Active \cup {c}
    BY <1>5 DEF Spawned, Active, TypeOK
  <2>2. up \subseteq up'
    BY <1>5, SendBackMore DEF Spawned
  <2>3. entry /\ c \in own => Frame("subscribe", c) \in up'
    BY <1>5, SendBackMore DEF Spawned
  <2>4. c \in own \/ c \in strayed'
    BY <1>5 DEF Spawned
  <2> QED
    BY <1>5, <2>1, <2>2, <2>3, <2>4 DEF Spawned
<1>6. ASSUME NEW c \in Calls, Cleaned(c) PROVE ActiveAreJoined'
  <2>1. Active' = Active \ {c}
    BY <1>6 DEF Cleaned, Active, TypeOK
  <2>2. up \subseteq up'
    BY <1>6, SendMore DEF Cleaned
  <2> QED
    BY <1>6, <2>1, <2>2 DEF Cleaned
<1>7. ASSUME NEW c \in Calls, TakeSubscribe(c) PROVE ActiveAreJoined'
  BY <1>7, FrameEq DEF TakeSubscribe, Take, Active
<1>8. ASSUME NEW c \in Calls, TakeUnsubscribe(c) PROVE ActiveAreJoined'
  <2>1. c \notin Active
    BY <1>8 DEF TakeUnsubscribe, Take, Told, Active
  <2> QED
    BY <1>8, <2>1, FrameEq DEF TakeUnsubscribe, Take, Active
<1>9. ASSUME NEW c \in Calls, NEW type, Dropped(type, c) PROVE ActiveAreJoined'
  <2>1. ASSUME NEW d \in Active, Frame("subscribe", d) \in up, Frame("subscribe", d) \notin up'
        PROVE  d \in dropped'
    BY <1>9, <2>1, FrameEq DEF Dropped, Take
  <2> QED
    BY <1>9, <2>1 DEF Dropped, Active
<1>10. ASSUME NEW c \in Calls, NEW how,
              Answer("spawned", c, how) \/ Answer("error", c, how)
       PROVE  ActiveAreJoined'
  <2>1. ASSUME NEW d \in Calls, Frame("subscribe", d) \in up PROVE Frame("subscribe", d) \in up'
    BY <1>10, <2>1, FrameEq DEF Answer, Take
  <2> QED
    BY <1>10, <2>1 DEF Answer, Active
<1>11. CASE Greeted
  BY <1>11, SendMore DEF Greeted, Active
<1>12. CASE Connect \/ DaemonClose \/ RelayClose \/ Exit
  BY <1>12 DEF Connect, DaemonClose, RelayClose, Exit
<1>13. ASSUME NEW c \in Calls,
              Spawn(c) \/ Published(c) \/ PublishFails(c) \/ Timeout(c) \/ Deliver(c)
       PROVE  ActiveAreJoined'
  BY <1>1, <1>13 DEF Spawn, Published, PublishFails, Timeout, Deliver, Active
<1>14. CASE UNCHANGED vars
  BY <1>1, <1>14 DEF vars, Active
<1> QED
  BY <1>2, <1>3, <1>4, <1>5, <1>6, <1>7, <1>8, <1>9, <1>10, <1>11, <1>12, <1>13, <1>14
  DEF Next

LEMMA KeptStep ==
  ASSUME TypeOK, Unseen, Gone, Kept, [Next]_vars
  PROVE  Kept'
<1> USE DEF calls, daemon, link, history, Kept
<1>1. ASSUME UNCHANGED <<ws, entry, Active, stuck, joined>>,
             \A c \in Calls : Frame("subscribe", c) \in up' =>
                               Frame("subscribe", c) \in up \/ c \in Active,
             \A c \in Calls : Frame("unsubscribe", c) \in up => Frame("unsubscribe", c) \in up'
      PROVE  Kept'
  BY <1>1
<1>2. ASSUME NEW c \in Calls, Admit(c) \/ Unreadable(c) \/ PtyExit(c) PROVE Kept'
  <2>1. Active' = Active
    BY <1>2 DEF Admit, Unreadable, PtyExit, Active, Unseen, TypeOK
  <2> QED
    BY <1>1, <1>2, <2>1 DEF Admit, Unreadable, PtyExit
<1>3. ASSUME NEW c \in Calls, Forget(c) PROVE Kept'
  <2>1. Active' = Active
    BY <1>3 DEF Forget, Active, TypeOK
  <2>2. c \notin joined /\ Frame("subscribe", c) \notin up
    BY <1>3 DEF Forget, Frame
  <2> QED
    BY <1>3, <2>1, <2>2 DEF Forget
<1>4. ASSUME NEW c \in Calls, Reject(c) PROVE Kept'
  <2>1. Active' = Active
    BY <1>4 DEF Reject, Active, Unseen, TypeOK
  <2> QED
    BY <1>1, <1>4, <2>1, SendMore, FrameEq DEF Reject
<1>5. ASSUME NEW c \in Calls, CreateFails(c) PROVE Kept'
  <2>1. Active' = Active
    BY <1>5 DEF CreateFails, Active, TypeOK
  <2> QED
    BY <1>1, <1>5, <2>1, SendBackMore, FrameEq DEF CreateFails
<1>6. ASSUME NEW c \in Calls, PtyFails(c) PROVE Kept'
  <2>1. Active' = Active
    BY <1>6 DEF PtyFails, Active, TypeOK
  <2>2. ASSUME NEW d \in Calls, Frame("subscribe", d) \in up'
        PROVE  Frame("subscribe", d) \in up \/ d \in stuck'
    BY <1>6, <2>2, SendBackMore, FrameEq DEF PtyFails
  <2>3. up \subseteq up'
    BY <1>6, SendBackMore DEF PtyFails
  <2> QED
    BY <1>6, <2>1, <2>2, <2>3 DEF PtyFails
<1>7. ASSUME NEW c \in Calls, Spawned(c) PROVE Kept'
  <2>1. Active' = Active \cup {c}
    BY <1>7 DEF Spawned, Active, TypeOK
  <2>2. ASSUME NEW d \in Calls, Frame("subscribe", d) \in up'
        PROVE  Frame("subscribe", d) \in up \/ d = c
    BY <1>7, <2>2, SendBackMore, FrameEq DEF Spawned
  <2>3. up \subseteq up'
    BY <1>7, SendBackMore DEF Spawned
  <2> QED
    BY <1>7, <2>1, <2>2, <2>3 DEF Spawned
<1>8. ASSUME NEW c \in Calls, Cleaned(c) PROVE Kept'
  <2>1. Active' = Active \ {c}
    BY <1>8 DEF Cleaned, Active, TypeOK
  <2>2. ws /\ entry => Frame("unsubscribe", c) \in up'
    BY <1>8, SendMore DEF Cleaned
  <2>3. ASSUME NEW d \in Calls, Frame("subscribe", d) \in up'
        PROVE  Frame("subscribe", d) \in up
    BY <1>8, <2>3, SendMore, FrameEq DEF Cleaned
  <2>4. up \subseteq up'
    BY <1>8, SendMore DEF Cleaned
  <2> QED
    BY <1>8, <2>1, <2>2, <2>3, <2>4 DEF Cleaned
<1>9. ASSUME NEW c \in Calls, TakeSubscribe(c) PROVE Kept'
  <2>1. ASSUME NEW d \in Calls, Frame("unsubscribe", d) \in up
        PROVE  Frame("unsubscribe", d) \in up'
    BY <1>9, <2>1, FrameEq DEF TakeSubscribe, Take
  <2> QED
    BY <1>9, <2>1 DEF TakeSubscribe, Take, Active
<1>10. ASSUME NEW c \in Calls, TakeUnsubscribe(c) PROVE Kept'
  <2>1. ASSUME NEW d \in Calls, d # c, Frame("unsubscribe", d) \in up
        PROVE  Frame("unsubscribe", d) \in up'
    BY <1>10, <2>1, FrameEq DEF TakeUnsubscribe, Take
  <2>2. c \notin joined' /\ (Frame("subscribe", c) \in up' => c \in stuck')
    BY <1>10 DEF TakeUnsubscribe, Take
  <2> QED
    BY <1>10, <2>1, <2>2 DEF TakeUnsubscribe, Take, Active
<1>11. ASSUME NEW c \in Calls, NEW type, Dropped(type, c) PROVE Kept'
  <2>1. ASSUME NEW d \in Calls, Frame("unsubscribe", d) \in up, Frame("unsubscribe", d) \notin up'
        PROVE  d \in stuck'
    BY <1>11, <2>1, FrameEq DEF Dropped, Take
  <2>2. stuck \subseteq stuck'
    BY <1>11 DEF Dropped
  <2> QED
    BY <1>11, <2>1, <2>2 DEF Dropped, Take, Active
<1>12. ASSUME NEW c \in Calls, NEW how,
              Answer("spawned", c, how) \/ Answer("error", c, how)
       PROVE  Kept'
  <2>1. ASSUME NEW d \in Calls, Frame("unsubscribe", d) \in up
        PROVE  Frame("unsubscribe", d) \in up'
    BY <1>12, <2>1, FrameEq DEF Answer, Take
  <2> QED
    BY <1>12, <2>1 DEF Answer, Take, Active
<1>13. CASE Greeted
  BY <1>1, <1>13, SendMore, FrameEq DEF Greeted, Active
<1>14. CASE Connect
  BY <1>14 DEF Connect, Gone
<1>15. CASE DaemonClose \/ RelayClose \/ Exit
  BY <1>15 DEF DaemonClose, RelayClose, Exit
<1>16. ASSUME NEW c \in Calls,
              Spawn(c) \/ Published(c) \/ PublishFails(c) \/ Timeout(c) \/ Deliver(c)
       PROVE  Kept'
  BY <1>1, <1>16 DEF Spawn, Published, PublishFails, Timeout, Deliver, Active
<1>17. CASE UNCHANGED vars
  BY <1>1, <1>17 DEF vars, Active
<1> QED
  BY <1>2, <1>3, <1>4, <1>5, <1>6, <1>7, <1>8, <1>9, <1>10, <1>11, <1>12, <1>13, <1>14,
     <1>15, <1>16, <1>17
  DEF Next

-----------------------------------------------------------------------------
(* The daemon's limit.                                                     *)

\* Whoever leaves makes room.
LEMMA LimitedLess ==
  ASSUME Limited, (Active \cup Creating)' \subseteq Active \cup Creating,
         ~overlapped' => ~overlapped
  PROVE  Limited'
<1>1. /\ IsFiniteSet((Active \cup Creating)')
      /\ Cardinality((Active \cup Creating)') <= Cardinality(Active \cup Creating)
  BY FS_Subset DEF Limited
<1>2. Cardinality((Active \cup Creating)') \in Nat /\ Cardinality(Active \cup Creating) \in Nat
  BY <1>1, FS_CardinalityType DEF Limited
<1>3. ~overlapped' => Cardinality((Active \cup Creating)') <= MaxActive
  BY <1>1, <1>2, SpawnAssumption DEF Limited
<1> QED
  BY <1>1, <1>3 DEF Limited

LEMMA LimitedStep ==
  ASSUME TypeOK, Unseen, Limited, [Next]_vars
  PROVE  Limited'
<1> USE DEF calls, daemon, link, history
<1>1. CASE UNCHANGED <<stage, overlapped>>
  BY <1>1, LimitedLess DEF Active, Creating
<1>2. ASSUME NEW c \in Calls, Admit(c) PROVE Limited'
  <2>1. (Active \cup Creating)' = (Active \cup Creating) \cup {c}
    BY <1>2 DEF Admit, Unseen, Active, Creating, TypeOK
  <2>2. IsFiniteSet((Active \cup Creating)')
    BY <2>1, FS_AddElement DEF Limited
  <2>3. CASE Creating # {}
    BY <1>2, <2>2, <2>3 DEF Admit, Limited
  <2>4. CASE Creating = {}
    <3>1. IsFiniteSet(Active) /\ (Active \cup Creating)' = Active \cup {c} /\ c \notin Active
      BY <1>2, <2>1, <2>4 DEF Admit, Unseen, Active, Limited
    <3>2. Cardinality((Active \cup Creating)') = Cardinality(Active) + 1
      BY <3>1, FS_AddElement
    <3>3. Cardinality(Active) \in Nat /\ Cardinality(Active) < MaxActive
      BY <1>2, <3>1, FS_CardinalityType DEF Admit
    <3>4. Cardinality((Active \cup Creating)') <= MaxActive
      BY <3>2, <3>3, SpawnAssumption
    <3> QED
      BY <2>2, <3>4 DEF Limited
  <2> QED
    BY <2>3, <2>4
<1>3. ASSUME NEW c \in Calls, Forget(c) \/ Reject(c) \/ Unreadable(c) PROVE Limited'
  <2>1. (Active \cup Creating)' = Active \cup Creating /\ overlapped' = overlapped
    BY <1>3 DEF Forget, Reject, Unreadable, Unseen, Active, Creating, TypeOK
  <2> QED
    BY <2>1, LimitedLess
<1>4. ASSUME NEW c \in Calls, Spawned(c) \/ CreateFails(c) \/ PtyFails(c) PROVE Limited'
  <2>1. (Active \cup Creating)' \subseteq Active \cup Creating /\ overlapped' = overlapped
    BY <1>4 DEF Spawned, CreateFails, PtyFails, Active, Creating, TypeOK
  <2> QED
    BY <2>1, LimitedLess
<1>5. ASSUME NEW c \in Calls, PtyExit(c) \/ Cleaned(c) PROVE Limited'
  <2>1. (Active \cup Creating)' \subseteq Active \cup Creating /\ overlapped' = overlapped
    BY <1>5 DEF PtyExit, Cleaned, Active, Creating, TypeOK
  <2> QED
    BY <2>1, LimitedLess
<1>6. CASE Exit
  <2>1. (Active \cup Creating)' = {}
    BY <1>6 DEF Exit, Active, Creating, TypeOK
  <2> QED
    BY <2>1, FS_EmptySet, SpawnAssumption DEF Limited
<1> QED
  BY <1>1, <1>2, <1>3, <1>4, <1>5, <1>6
  DEF Next, vars, Spawn, Published, PublishFails, Timeout, Deliver, TakeSubscribe,
      TakeUnsubscribe, Answer, Dropped, Greeted, Connect, DaemonClose, RelayClose

-----------------------------------------------------------------------------
(* The theorems.                                                           *)

LEMMA InitIInv == Init => IInv
<1> SUFFICES ASSUME Init PROVE IInv
  OBVIOUS
<1> USE SpawnAssumption DEF Init
<1>1. UnderWay = {} /\ Active = {} /\ Creating = {}
  BY DEF UnderWay, Active, Creating
<1>2. TypeOK
  <2>1. count \in 0..MaxSpawns /\ leaked \in 0..MaxSpawns
    OBVIOUS
  <2>2. entry \in BOOLEAN /\ ws \in BOOLEAN /\ greeted \in BOOLEAN /\ overlapped \in BOOLEAN
    OBVIOUS
  <2> QED
    BY <2>1, <2>2 DEF TypeOK
<1>3. Counted
  <2>1. IsFiniteSet(UnderWay) /\ Cardinality(UnderWay) = 0
    BY <1>1, FS_EmptySet
  <2>2. count = 0 /\ leaked = 0
    OBVIOUS
  <2> QED
    BY <2>1, <2>2 DEF Counted, SlotsHeld
<1>4. Served
  BY DEF Served, PendingWait, Unseen, Told, ServedHasRun
<1>5. Linked
  BY DEF Linked, Told, Gone, ActiveAreJoined, Kept
<1>6. Active \cup Creating = {}
  BY <1>1
<1>7. Limited
  BY <1>6, FS_EmptySet DEF Limited
<1> QED
  BY <1>2, <1>3, <1>4, <1>5, <1>7 DEF IInv

LEMMA StepIInv == IInv /\ [Next]_vars => IInv'
<1> SUFFICES ASSUME IInv, [Next]_vars PROVE IInv'
  OBVIOUS
<1>1. TypeOK' /\ Counted'
  BY TypeStep, CountStep DEF IInv, Served
<1>2. Served'
  BY PendingStep, UnseenStep, ToldStep, ServedStep DEF IInv, Served
<1>3. Linked'
  BY GoneStep, ToldStep, ActiveStep, KeptStep DEF IInv, Linked, Served
<1>4. Limited'
  BY LimitedStep DEF IInv, Served
<1> QED
  BY <1>1, <1>2, <1>3, <1>4 DEF IInv

LEMMA SpecIInv == Spec => []IInv
  BY InitIInv, StepIInv, PTL DEF Spec

\* The counters stay within their bounds, the maps and frames in their shapes.
THEOREM TypeCorrect == Spec => []TypeOK
<1>1. IInv => TypeOK
  BY DEF IInv
<1> QED
  BY <1>1, SpecIInv, PTL

\* The count of a user is that of the calls under way, but for failed publications:
\* whatever answers come early, late or not at all, and however the socket closes.
THEOREM SlotsAccounted == Spec => []SlotsHeld
<1>1. IInv => SlotsHeld
  BY DEF IInv, Counted
<1> QED
  BY <1>1, SpecIInv, PTL

\* The calls that can be answered are exactly those that wait.
THEOREM PendingAreWaiting == Spec => []PendingWait
<1>1. IInv => PendingWait
  BY DEF IInv, Served
<1> QED
  BY <1>1, SpecIInv, PTL

\* Who is told that there is a session has one.
THEOREM ServedAreRun == Spec => []ServedHasRun
<1>1. IInv => ServedHasRun
  BY DEF IInv, Served
<1> QED
  BY <1>1, SpecIInv, PTL

\* After a reconnection the relay takes the output of every active session whose
\* SUBSCRIBE was not lost in one of the two named ways.
THEOREM ActiveSubscribed == Spec => []ActiveAreJoined
<1>1. IInv => ActiveAreJoined
  BY DEF IInv, Linked
<1> QED
  BY <1>1, SpecIInv, PTL

\* The relay has no session as served that is over, but for the named exceptions.
THEOREM SubscribedActive == Spec => []OnlyActiveAreJoined
<1>1. IInv => OnlyActiveAreJoined
  BY DEF IInv, Linked, Kept, OnlyActiveAreJoined, TypeOK
<1> QED
  BY <1>1, SpecIInv, PTL

\* So the sessions of the daemon and those the relay serves agree, but for the named
\* exceptions.
THEOREM SessionsAgree == Spec => []JoinedIsActive
<1>1. ActiveAreJoined /\ OnlyActiveAreJoined => JoinedIsActive
  BY DEF JoinedIsActive
<1> QED
  BY ActiveSubscribed, SubscribedActive, <1>1, PTL

\* Spawns that do not overlap keep the daemon's limit.
THEOREM LimitHolds == Spec => []LimitKept
<1>1. ASSUME IInv PROVE LimitKept
  <2>1. IsFiniteSet(Active \cup Creating) /\ Active \subseteq Active \cup Creating
    BY <1>1 DEF IInv, Limited
  <2>2. Cardinality(Active) <= Cardinality(Active \cup Creating) /\ IsFiniteSet(Active)
    BY <2>1, FS_Subset
  <2>3. Cardinality(Active) \in Nat /\ Cardinality(Active \cup Creating) \in Nat
    BY <2>1, <2>2, FS_CardinalityType
  <2>4. ~overlapped => Cardinality(Active \cup Creating) <= MaxActive
    BY <1>1 DEF IInv, Limited
  <2> QED
    BY <2>2, <2>3, <2>4, SpawnAssumption DEF LimitKept
<1> QED
  BY <1>1, SpecIInv, PTL

=============================================================================
