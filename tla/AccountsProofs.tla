--------------------------- MODULE AccountsProofs ---------------------------
(***************************************************************************)
(* Proofs about the parts around the terminal, each by an invariant of its *)
(* own.                                                                    *)
(***************************************************************************)
EXTENDS SessionLimits, RateLimits, UserKeys, OrgKeys, CliConfig, Dashboard, PreviewAuth,
        FrameCodec, WellFoundedInduction, FiniteSetTheorems, SequenceTheorems, TLAPS

(***************************************************************************)
(* Finite sets.                                                            *)
(***************************************************************************)

\* A finite set, and what is in it but for one element.
LEMMA OneMore ==
  ASSUME NEW S, IsFiniteSet(S), NEW x, NEW T \in SUBSET (S \cup {x})
  PROVE  /\ Cardinality(S) \in Nat /\ IsFiniteSet(T) /\ Cardinality(T) \in Nat
         /\ Cardinality(T) <= Cardinality(S) + 1
<1>1. IsFiniteSet(S \cup {x}) /\ Cardinality(S) \in Nat
  BY FS_AddElement, FS_CardinalityType
<1>2. Cardinality(S \cup {x}) = IF x \in S THEN Cardinality(S) ELSE Cardinality(S) + 1
  BY FS_AddElement
<1>3. IsFiniteSet(T) /\ Cardinality(T) <= Cardinality(S \cup {x})
  BY <1>1, FS_Subset
<1>4. Cardinality(T) \in Nat
  BY <1>3, FS_CardinalityType
<1> QED
  BY <1>1, <1>2, <1>3, <1>4

\* A set of numbers has a least one.
LEMMA LeastNumber ==
  ASSUME NEW S \in SUBSET Nat, S # {}
  PROVE  \E n \in S : \A m \in S : n <= m
<1> DEFINE Upto == {0..n : n \in S}
<1>1. Upto \subseteq FiniteSubsetsOf(Nat) /\ Upto # {}
  <2>1. ASSUME NEW n \in S
        PROVE  0..n \in FiniteSubsetsOf(Nat)
    <3>1. IsFiniteSet(0..n)
      BY FS_Interval
    <3> QED
      BY <3>1 DEF FiniteSubsetsOf
  <2> QED
    BY <2>1
<1>2. PICK A \in Upto : \A B \in Upto : <<B, A>> \notin StrictSubsetOrdering(Nat)
  <2> HIDE DEF Upto
  <2> QED
    BY <1>1, FS_StrictSubsetOrderingWellFounded, WFMin
<1>3. PICK n \in S : A = 0..n
  OBVIOUS
<1>4. ASSUME NEW m \in S, ~(n <= m)
      PROVE  FALSE
  <2>1. 0..m \subseteq 0..n /\ n \in 0..n /\ n \notin 0..m
    BY <1>4
  <2>2. <<0..m, A>> \in StrictSubsetOrdering(Nat)
    BY <1>3, <2>1 DEF StrictSubsetOrdering
  <2> QED
    BY <1>2, <2>2
<1> QED
  BY <1>4

(***************************************************************************)
(* The keys of an organisation.                                            *)
(***************************************************************************)

\* A grant under way is in the poll it comes from, and is the only one of its
\* administrator; a poll has a key.
Polling ==
  /\ \A a \in Admins, m, n \in People :
       /\ <<a, m>> \in granting => m \in poll[a].todo
       /\ <<a, m>> \in granting /\ <<a, n>> \in granting => m = n
  /\ \A a \in Admins : poll[a].todo # {} => poll[a].key # NoKey

\* One key is set up at a time, and it is the only one that is held, polled or chosen.
OneKey ==
  /\ \A a, b \in Admins : setting[a] # "no" /\ setting[b] # "no" => a = b
  /\ \A a \in Admins : /\ setting[a] = "checked" => orgKey = NoKey
                       /\ setting[a] = "published" => orgKey = a
                       /\ poll[a].key \in {NoKey, orgKey}
  /\ \A m \in People : held[m] \in {NoKey, orgKey}
  /\ orgKey # NoKey => \E a \in Admins : held[a] = orgKey \/ setting[a] = "published"
  /\ choosing \subseteq {orgKey} \ {NoKey} /\ sealed \subseteq {orgKey} \ {NoKey}

OrgInv == OrgTypeOK /\ Polling /\ (~broken => OneKey)

LEMMA SetsUp ==
  ASSUME OrgInv, NEW a \in Admins, ChecksOrg(a) \/ Publishes(a) \/ KeepsOwn(a)
  PROVE  OrgInv'
<1>1. OrgTypeOK /\ Polling /\ Admins \subseteq People /\ NoKey \notin Admins
  BY OrgAssumption DEF OrgInv, NoKey
<1>2. OrgTypeOK'
  <2>1. broken' \in BOOLEAN
    BY <1>1, Zenon DEF ChecksOrg, Publishes, KeepsOwn, OrgTypeOK
  <2>2. CASE ChecksOrg(a)
    BY <1>1, <2>1, <2>2 DEF ChecksOrg, OrgTypeOK, sessions
  <2>3. CASE Publishes(a)
    BY <1>1, <2>1, <2>3 DEF Publishes, OrgTypeOK, sessions
  <2>4. CASE KeepsOwn(a)
    BY <1>1, <2>1, <2>4 DEF KeepsOwn, OrgTypeOK, sessions
  <2> QED
    BY <2>2, <2>3, <2>4
<1>3. Polling'
  BY <1>1 DEF ChecksOrg, Publishes, KeepsOwn, Polling, NoKey
<1>4. ASSUME ~broken'
      PROVE  OneKey'
  <2>a. ~broken
    BY <1>1, <1>4, Zenon DEF ChecksOrg, Publishes, KeepsOwn
  <2>1. OneKey
    BY <2>a DEF OrgInv
  <2>2. CASE ChecksOrg(a)
    <3>1. /\ setting' = [setting EXCEPT ![a] = "checked"] /\ orgKey = NoKey
          /\ \A b \in Admins : setting[b] = "no"
          /\ UNCHANGED <<orgKey, held, poll, choosing, sealed>>
      BY <1>4, <2>2 DEF ChecksOrg, sessions
    <3>2. \A b \in Admins : setting'[b] = IF b = a THEN "checked" ELSE "no"
      BY <1>1, <3>1 DEF OrgTypeOK
    <3> QED
      BY <2>1, <3>1, <3>2 DEF OneKey, NoKey
  <2>3. CASE Publishes(a)
    <3>1. /\ setting' = [setting EXCEPT ![a] = "published"] /\ orgKey' = a /\ setting[a] = "checked"
          /\ UNCHANGED <<held, poll, choosing, sealed>>
      BY <2>3 DEF Publishes, sessions
    <3>2. orgKey = NoKey /\ \A b \in Admins : b # a => setting[b] = "no"
      BY <2>1, <3>1 DEF OneKey
    <3>3. \A b \in Admins : setting'[b] = IF b = a THEN "published" ELSE "no"
      BY <1>1, <3>1, <3>2 DEF OrgTypeOK
    <3>4. choosing = {} /\ sealed = {} /\ (\A m \in People : held[m] = NoKey)
          /\ \A b \in Admins : poll[b].key = NoKey
      BY <2>1, <3>2 DEF OneKey
    <3> QED
      BY <3>1, <3>3, <3>4 DEF OneKey
  <2>4. CASE KeepsOwn(a)
    <3>1. /\ setting' = [setting EXCEPT ![a] = "no"] /\ setting[a] = "published"
          /\ held' = [held EXCEPT ![a] = a]
          /\ UNCHANGED <<orgKey, poll, choosing, sealed>>
      BY <1>4, <2>4 DEF KeepsOwn, sessions
    <3>2. orgKey = a /\ \A b \in Admins : b # a => setting[b] = "no"
      BY <2>1, <3>1 DEF OneKey
    <3>3. /\ \A b \in Admins : setting'[b] = "no"
          /\ \A m \in People : held'[m] = IF m = a THEN a ELSE held[m]
      BY <1>1, <3>1, <3>2 DEF OrgTypeOK
    <3> QED
      BY <1>1, <2>1, <3>1, <3>2, <3>3 DEF OneKey
  <2> QED
    BY <2>2, <2>3, <2>4
<1> QED
  BY <1>2, <1>3, <1>4 DEF OrgInv

LEMMA PollGrants ==
  ASSUME OrgInv, NEW a \in Admins, NEW m \in People, Polls(a) \/ ChecksPending(a, m) \/ Grants(a, m)
  PROVE  OrgInv'
<1>1. OrgTypeOK /\ Polling /\ Admins \subseteq People /\ NoKey \notin Admins
  BY OrgAssumption DEF OrgInv, NoKey
<1>2. /\ UNCHANGED <<orgKey, setting, marking, choosing, sealed, broken>>
      /\ pending' \subseteq pending
  BY DEF Polls, ChecksPending, Grants, sessions
<1>3. ASSUME Done(a, m)
      PROVE  /\ poll' \in [Admins -> [todo : SUBSET People, key : Admins \cup {NoKey}]]
             /\ \A b \in Admins : b # a => poll'[b] = poll[b]
             /\ poll'[a].todo = poll[a].todo \ {m}
             /\ poll'[a].key \in {NoKey, poll[a].key}
             /\ poll'[a].todo # {} => poll'[a].key = poll[a].key
  <2> DEFINE q == IF poll[a].todo = {m} THEN NoPoll
                  ELSE [todo |-> poll[a].todo \ {m}, key |-> poll[a].key]
  <2>1. poll[a] \in [todo : SUBSET People, key : Admins \cup {NoKey}]
    BY <1>1 DEF OrgTypeOK
  <2>2. /\ q \in [todo : SUBSET People, key : Admins \cup {NoKey}]
        /\ q.todo = poll[a].todo \ {m}
        /\ q.key \in {NoKey, poll[a].key}
        /\ q.todo # {} => q.key = poll[a].key
    <3>1. CASE poll[a].todo = {m}
      BY <3>1 DEF NoPoll
    <3>2. CASE poll[a].todo # {m}
      BY <2>1, <3>2
    <3> QED
      BY <3>1, <3>2
  <2>3. poll' = [poll EXCEPT ![a] = q]
    BY <1>3 DEF Done
  <2> HIDE DEF q
  <2> QED
    BY <1>1, <2>2, <2>3 DEF OrgTypeOK
<1>4. CASE Polls(a)
  <2>1. /\ poll' = [poll EXCEPT ![a] = [todo |-> pending, key |-> held[a]]]
        /\ poll[a] = NoPoll /\ held[a] # NoKey /\ UNCHANGED <<held, pending, granting>>
    BY <1>4 DEF Polls
  <2> DEFINE q == [todo |-> pending, key |-> held[a]]
  <2>2. q \in [todo : SUBSET People, key : Admins \cup {NoKey}] /\ q.key = held[a]
    BY <1>1 DEF OrgTypeOK
  <2>3. poll[a].todo = {}
    BY <2>1 DEF NoPoll
  <2>4. \A b \in Admins : poll'[b] = IF b = a THEN q ELSE poll[b]
    BY <1>1, <2>1 DEF OrgTypeOK
  <2>5. poll' \in [Admins -> [todo : SUBSET People, key : Admins \cup {NoKey}]]
    BY <1>1, <2>1, <2>2 DEF OrgTypeOK
  <2> HIDE DEF q
  <2>6. OrgTypeOK'
    BY <1>1, <1>2, <2>1, <2>5, Zenon DEF OrgTypeOK
  <2>7. Polling'
    BY <1>1, <2>1, <2>2, <2>3, <2>4 DEF Polling, NoKey
  <2>8. ~broken => OneKey'
    BY <1>1, <1>2, <2>1, <2>2, <2>4 DEF OrgInv, OneKey
  <2> QED
    BY <1>2, <2>6, <2>7, <2>8 DEF OrgInv
<1>5. CASE ChecksPending(a, m)
  <2>1. CASE granting' = granting \cup {<<a, m>>} /\ UNCHANGED <<poll, held, pending>>
    <3>1. m \in poll[a].todo /\ \A n \in People : <<a, n>> \notin granting
      BY <1>5 DEF ChecksPending
    <3>2. OrgTypeOK'
      BY <1>1, <1>2, <2>1 DEF OrgTypeOK
    <3>3. Polling'
      BY <1>1, <2>1, <3>1 DEF Polling, NoKey
    <3>4. ~broken => OneKey'
      BY <1>2, <2>1 DEF OrgInv, OneKey
    <3> QED
      BY <1>2, <3>2, <3>3, <3>4 DEF OrgInv
  <2>2. CASE Done(a, m) /\ UNCHANGED <<granting, held, pending>>
    <3>1. \A n \in People : <<a, n>> \notin granting
      BY <1>5 DEF ChecksPending
    <3>2. OrgTypeOK'
      BY <1>1, <1>2, <1>3, <2>2 DEF OrgTypeOK
    <3>3. Polling'
      BY <1>1, <1>3, <2>2, <3>1 DEF Polling, NoKey
    <3>4. ~broken => OneKey'
      BY <1>1, <1>2, <1>3, <2>2 DEF OrgInv, OneKey
    <3> QED
      BY <1>2, <3>2, <3>3, <3>4 DEF OrgInv
  <2> QED
    BY <1>5, <2>1, <2>2 DEF ChecksPending
<1>6. CASE Grants(a, m)
  <2>1. /\ <<a, m>> \in granting /\ granting' = granting \ {<<a, m>>}
        /\ held' = [held EXCEPT ![m] = poll[a].key] /\ Done(a, m)
    BY <1>6 DEF Grants
  <2>2. m \in poll[a].todo /\ poll[a].key # NoKey /\ poll[a].key \in Admins \cup {NoKey}
    BY <1>1, <2>1 DEF Polling, OrgTypeOK
  <2>3. \A n \in People : held'[n] = IF n = m THEN poll[a].key ELSE held[n]
    BY <1>1, <2>1 DEF OrgTypeOK
  <2>4. OrgTypeOK'
    BY <1>1, <1>2, <1>3, <2>1, <2>2 DEF OrgTypeOK
  <2>5. Polling'
    <3>1. \A n \in People : <<a, n>> \notin granting'
      BY <1>1, <2>1 DEF Polling
    <3> QED
      BY <1>1, <1>3, <2>1, <3>1 DEF Polling, NoKey
  <2>6. ASSUME ~broken
        PROVE  OneKey'
    <3>1. OneKey /\ poll[a].key = orgKey
      BY <2>2, <2>6 DEF OrgInv, OneKey
    <3>2. \A n \in People : held'[n] = held[n] \/ held'[n] = orgKey
      BY <2>3, <3>1
    <3>3. \A b \in Admins : poll'[b].key \in {NoKey, orgKey}
      BY <1>3, <2>1, <3>1 DEF OneKey
    <3> QED
      BY <1>1, <1>2, <3>1, <3>2, <3>3 DEF OneKey
  <2> QED
    BY <1>2, <2>4, <2>5, <2>6 DEF OrgInv
<1> QED
  BY <1>4, <1>5, <1>6

LEMMA OrgInductive == OrgSpec => []OrgInv
<1>1. OrgInit => OrgInv
  <2> SUFFICES ASSUME OrgInit
               PROVE  OrgInv
    OBVIOUS
  <2>1. OrgTypeOK
    BY DEF OrgInit, OrgTypeOK, NoPoll
  <2>2. Polling /\ OneKey
    BY DEF OrgInit, Polling, OneKey, NoPoll
  <2> QED
    BY <2>1, <2>2 DEF OrgInv
<1>2. OrgInv /\ [OrgNext]_orgVars => OrgInv'
  <2> SUFFICES ASSUME OrgInv, [OrgNext]_orgVars
               PROVE  OrgInv'
    OBVIOUS
  <2>1. ASSUME NEW m \in People, ReadsKeys(m) \/ Marks(m)
        PROVE  OrgInv'
    BY <2>1 DEF ReadsKeys, Marks, OrgInv, OrgTypeOK, Polling, OneKey, sessions
  <2>2. CASE Chooses
    <3>1. OrgTypeOK'
      BY <2>2 DEF Chooses, OrgInv, OrgTypeOK
    <3> QED
      BY <2>2, <3>1 DEF Chooses, OrgInv, Polling, OneKey
  <2>3. ASSUME NEW k \in Admins, Seals(k)
        PROVE  OrgInv'
    BY <2>3 DEF Seals, OrgInv, OrgTypeOK, Polling, OneKey
  <2>4. CASE UNCHANGED orgVars
    BY <2>4 DEF orgVars, sessions, OrgInv, OrgTypeOK, Polling, OneKey
  <2>5. ASSUME NEW a \in Admins, Polls(a)
        PROVE  OrgInv'
    <3>1. a \in People
      BY OrgAssumption
    <3> QED
      BY <2>5, <3>1, PollGrants
  <2> QED
    BY <2>1, <2>2, <2>3, <2>4, <2>5, SetsUp, PollGrants DEF OrgNext
<1> QED
  BY <1>1, <1>2, PTL DEF OrgSpec

\* The state of the organisation's keys, grants and polls has its type.
THEOREM OrgTypeCorrect == OrgSpec => []OrgTypeOK
<1>1. OrgInv => OrgTypeOK
  BY DEF OrgInv
<1> QED
  BY <1>1, OrgInductive, PTL

\* Whoever holds a key holds the organisation's, and opens whatever was sealed for it.
THEOREM KeysAgree == OrgSpec => []GrantedKeysAgree
<1>1. OrgInv => GrantedKeysAgree
  BY DEF OrgInv, OneKey, GrantedKeysAgree, CanOpen, OpensFor
<1> QED
  BY <1>1, OrgInductive, PTL

(***************************************************************************)
(* A tab of the dashboard.                                                 *)
(***************************************************************************)

\* The flag says whether the tab is shut; a tab that is live, and its sockets, were
\* built.
Built ==
  /\ shown # "shut" => ~disposed /\ builds > 0
  /\ shown = "shut" /\ builds > 0 => disposed

DashInv == DashTypeOK /\ Built /\ SocketsFollowTab

\* The effect runs again for a tab that is not shut.
LEMMA RebuildSafe ==
  ASSUME DashInv, NEW s \in TabStatuses, Rebuild(s), shown' = s,
         UNCHANGED <<recorded, served>>, news' \in [Builds -> Live \cup {"none"}],
         polled' \in TabStatuses \cup {"none"}
  PROVE  DashInv'
<1>1. DashTypeOK /\ MaxBuilds \in Nat
  BY DashboardAssumption DEF DashInv
<1>2. /\ builds' = builds + 1 /\ disposed' = FALSE
      /\ sock' = [CloseHeld EXCEPT ![builds'] = IF s \in Live THEN "token" ELSE "none"]
      /\ spilled' = (spilled \/ Spills) /\ UNCHANGED <<wsRef, givenUp>>
      /\ builds < MaxBuilds
  BY DEF Rebuild
<1>3. builds' \in Builds /\ builds' \in 0..MaxBuilds /\ builds' > 0
  BY <1>1, <1>2 DEF Builds, DashTypeOK
<1>4. CloseHeld \in [Builds -> SocketStates]
  BY <1>1 DEF CloseHeld, DashTypeOK, SocketStates
<1>5. sock' \in [Builds -> SocketStates] /\ (s \in Live => sock'[builds'] = "token")
  BY <1>2, <1>3, <1>4 DEF SocketStates
<1>6. spilled' \in BOOLEAN /\ disposed' \in BOOLEAN /\ ~disposed'
  BY <1>2, Zenon
<1>7. s # "shut" /\ s \in TabStatuses \cup {"shut"}
  BY DEF TabStatuses, Live
<1>8. DashTypeOK'
  BY <1>1, <1>2, <1>3, <1>5, <1>6, <1>7, Zenon DEF DashTypeOK
<1>9. Built' /\ SocketsFollowTab'
  BY <1>3, <1>5, <1>6, <1>7 DEF Built, SocketsFollowTab
<1> QED
  BY <1>8, <1>9 DEF DashInv

LEMMA SetStatusSafe ==
  ASSUME DashInv, NEW s \in TabStatuses, SetStatus(s),
         UNCHANGED <<recorded, served>>, news' \in [Builds -> Live \cup {"none"}],
         polled' \in TabStatuses \cup {"none"}
  PROVE  DashInv'
<1>1. DashTypeOK
  BY DEF DashInv
<1>2. CASE UNCHANGED <<builds, disposed, wsRef, sock, spilled, givenUp>> /\ (shown' \in Live <=> shown \in Live)
  <2>1. shown' \in TabStatuses \cup {"shut"} /\ (shown' = "shut" <=> shown = "shut")
    BY <1>1 DEF SetStatus, TabStatuses, Live, DashTypeOK
  <2>2. DashTypeOK'
    BY <1>1, <1>2, <2>1 DEF DashTypeOK
  <2> QED
    BY <1>2, <2>1, <2>2 DEF DashInv, Built, SocketsFollowTab
<1>3. CASE Rebuild(s) /\ ~(shown' \in Live <=> shown \in Live)
  <2>1. shown' = s
    BY <1>3 DEF SetStatus
  <2> QED
    BY <1>3, <2>1, RebuildSafe
<1> QED
  BY <1>2, <1>3 DEF SetStatus

LEMMA SocketsSafe ==
  ASSUME DashInv, NEW b \in Builds,
         Dials(b) \/ Enters(b) \/ TurnedAway(b) \/ CloseEvent(b) \/ RedialTimer(b)
  PROVE  DashInv'
<1>1. DashTypeOK /\ MaxBuilds \in Nat
  BY DashboardAssumption DEF DashInv
<1>2. UNCHANGED <<recorded, served, shown, builds, disposed, polled, spilled>>
  BY DEF Dials, Enters, TurnedAway, CloseEvent, RedialTimer
<1>3. /\ wsRef' \in 0..MaxBuilds /\ givenUp \subseteq givenUp' /\ givenUp' \subseteq Builds
      /\ news' \in [Builds -> Live \cup {"none"}]
  <2>1. news \in [Builds -> Live \cup {"none"}] /\ {"running", "disconnected", "none"} \subseteq Live \cup {"none"}
    BY <1>1 DEF DashTypeOK, Live
  <2>2. news' \in [Builds -> Live \cup {"none"}]
    BY <2>1 DEF Dials, Enters, TurnedAway, CloseEvent, RedialTimer
  <2>3. wsRef' \in {wsRef, b} /\ givenUp' \in {givenUp, givenUp \cup {b}}
    BY DEF Dials, Enters, TurnedAway, CloseEvent, RedialTimer
  <2> QED
    BY <1>1, <2>2, <2>3 DEF DashTypeOK, Builds
<1>4. PICK s \in SocketStates :
        /\ sock' = [sock EXCEPT ![b] = s]
        /\ s = "none" => b \in givenUp' \/ disposed
        /\ disposed => sock[b] = "token" \/ s \in {"none", "closing", "timer"}
                       \/ (sock[b] = "asking" /\ s = "joined")
  BY DEF Dials, Enters, TurnedAway, CloseEvent, RedialTimer, SocketStates
<1>5. \A c \in Builds : sock'[c] = IF c = b THEN s ELSE sock[c]
  BY <1>1, <1>4 DEF DashTypeOK
<1>6. DashTypeOK'
  <2>1. sock' \in [Builds -> SocketStates]
    BY <1>1, <1>4 DEF DashTypeOK
  <2> QED
    BY <1>1, <1>2, <1>3, <2>1 DEF DashTypeOK
<1>7. Built'
  BY <1>2 DEF DashInv, Built
<1>8. SocketsFollowTab'
  <2>1. ASSUME shown = "shut", builds = 1, ~spilled
        PROVE  sock'[1] \in {"none", "closing", "timer"}
    <3>1. sock[1] \in {"none", "closing", "timer"} /\ disposed /\ 1 \in Builds
      BY <1>1, <2>1 DEF DashInv, Built, SocketsFollowTab, DashTypeOK, Builds
    <3> QED
      BY <1>4, <1>5, <3>1
  <2>2. ASSUME shown \in Live
        PROVE  sock'[builds] # "none" \/ builds \in givenUp'
    <3>1. /\ sock[builds] # "none" \/ builds \in givenUp
          /\ ~disposed /\ builds \in Builds
      BY <1>1, <2>2 DEF DashInv, Built, SocketsFollowTab, DashTypeOK, Builds, Live
    <3> QED
      BY <1>3, <1>4, <1>5, <3>1
  <2> QED
    BY <1>2, <2>1, <2>2 DEF SocketsFollowTab
<1> QED
  BY <1>6, <1>7, <1>8 DEF DashInv

LEMMA ShutSafe ==
  ASSUME DashInv, Shut
  PROVE  DashInv'
<1>1. DashTypeOK /\ MaxBuilds \in Nat
  BY DashboardAssumption DEF DashInv
<1>2. /\ shown' = "shut" /\ disposed' = TRUE /\ sock' = CloseHeld
      /\ spilled' = (spilled \/ Spills)
      /\ UNCHANGED <<recorded, served, builds, wsRef, news, polled, givenUp>>
  BY DEF Shut
<1>3. disposed' /\ disposed' \in BOOLEAN /\ spilled' \in BOOLEAN /\ (~spilled' => ~Spills)
  BY <1>2, Zenon
<1>4. sock' \in [Builds -> SocketStates]
  BY <1>1, <1>2 DEF CloseHeld, DashTypeOK, SocketStates
<1>5. DashTypeOK'
  BY <1>1, <1>2, <1>3, <1>4 DEF DashTypeOK
<1>6. Built'
  BY <1>2, <1>3 DEF Built
<1>7. SocketsFollowTab'
  <2>1. ASSUME builds = 1, ~Spills
        PROVE  sock'[1] \in {"none", "closing", "timer"}
    <3>1. sock[1] \in SocketStates /\ 1 \in Builds
      BY <1>1, <2>1 DEF DashTypeOK, Builds
    <3>2. sock[1] # "token" /\ (sock[1] \in {"asking", "joined"} => wsRef = 1)
      BY <2>1 DEF Spills
    <3>3. CASE sock[1] \in {"asking", "joined"}
      BY <1>1, <1>2, <3>1, <3>2, <3>3 DEF CloseHeld, DashTypeOK
    <3>4. CASE sock[1] \notin {"asking", "joined"}
      BY <1>1, <1>2, <3>1, <3>2, <3>4 DEF CloseHeld, DashTypeOK, SocketStates
    <3> QED
      BY <3>3, <3>4
  <2>2. shown' \notin Live
    BY <1>2 DEF Live
  <2> QED
    BY <1>2, <1>3, <2>1, <2>2 DEF SocketsFollowTab
<1> QED
  BY <1>5, <1>6, <1>7 DEF DashInv

LEMMA DashInductive == DashSpec => []DashInv
<1>1. DashInit => DashInv
  <2> SUFFICES ASSUME DashInit
               PROVE  DashInv
    OBVIOUS
  <2>1. disposed \in BOOLEAN /\ spilled \in BOOLEAN
    BY Zenon DEF DashInit
  <2>2. DashTypeOK
    BY <2>1, DashboardAssumption DEF DashInit, DashTypeOK, SocketStates
  <2>3. Built /\ SocketsFollowTab
    BY DEF DashInit, Built, SocketsFollowTab, Live
  <2> QED
    BY <2>2, <2>3 DEF DashInv
<1>2. DashInv /\ [DashNext]_dashVars => DashInv'
  <2> SUFFICES ASSUME DashInv, [DashNext]_dashVars
               PROVE  DashInv'
    OBVIOUS
  <2>1. DashTypeOK
    BY DEF DashInv
  <2>2. CASE Open
    <3>1. recorded \in TabStatuses /\ news' \in [Builds -> Live \cup {"none"}]
          /\ polled' \in TabStatuses \cup {"none"} /\ shown' = recorded
      BY <2>1, <2>2 DEF Open, DashTypeOK
    <3> QED
      BY <2>2, <3>1, RebuildSafe DEF Open
  <2>3. CASE PollArrives
    <3>1. polled \in TabStatuses /\ news' \in [Builds -> Live \cup {"none"}]
          /\ polled' \in TabStatuses \cup {"none"}
      BY <2>1, <2>3 DEF PollArrives, DashTypeOK
    <3> QED
      BY <2>3, <3>1, SetStatusSafe DEF PollArrives
  <2>4. ASSUME NEW b \in Builds, Presence(b)
        PROVE  DashInv'
    <3>1. news[b] \in TabStatuses /\ news' \in [Builds -> Live \cup {"none"}]
          /\ polled' \in TabStatuses \cup {"none"}
      BY <2>1, <2>4 DEF Presence, DashTypeOK, TabStatuses
    <3>2. CASE SetStatus(news[b])
      BY <2>4, <3>1, <3>2, SetStatusSafe DEF Presence
    <3>3. CASE UNCHANGED tabVars
      <4>1. DashTypeOK'
        BY <2>1, <2>4, <3>1, <3>3 DEF Presence, tabVars, DashTypeOK
      <4> QED
        BY <3>3, <4>1 DEF tabVars, DashInv, Built, SocketsFollowTab
    <3> QED
      BY <2>4, <3>2, <3>3 DEF Presence
  <2>5. CASE PollReads \/ CliTurns \/ RecordTurns
    <3>1. UNCHANGED tabVars
      BY <2>5 DEF PollReads, CliTurns, RecordTurns
    <3>2. /\ recorded' \in TabStatuses /\ polled' \in TabStatuses \cup {"none"}
          /\ news' \in [Builds -> Live \cup {"none"}]
      BY <2>1, <2>5 DEF PollReads, CliTurns, RecordTurns, DashTypeOK, Live
    <3>3. served' \in BOOLEAN
      BY <2>1, <2>5, Zenon DEF PollReads, CliTurns, RecordTurns, DashTypeOK
    <3>4. DashTypeOK'
      BY <2>1, <3>1, <3>2, <3>3 DEF DashTypeOK, tabVars
    <3> QED
      BY <3>1, <3>4 DEF tabVars, DashInv, Built, SocketsFollowTab
  <2>6. CASE UNCHANGED dashVars
    <3>1. DashTypeOK'
      BY <2>1, <2>6 DEF dashVars, DashTypeOK
    <3> QED
      BY <2>6, <3>1 DEF dashVars, DashInv, Built, SocketsFollowTab
  <2> QED
    BY <2>2, <2>3, <2>4, <2>5, <2>6, SocketsSafe, ShutSafe DEF DashNext
<1> QED
  BY <1>1, <1>2, PTL DEF DashSpec

\* A tab that is shut keeps no socket, and the terminal of one that is live has a socket
\* or an attempt ahead, however often it is rebuilt.
THEOREM TabsHaveSockets == DashSpec => []SocketsFollowTab
<1>1. DashInv => SocketsFollowTab
  BY DEF DashInv
<1> QED
  BY <1>1, DashInductive, PTL

\* A tab, its terminal and its sockets stay in their sets.
THEOREM DashTypeCorrect == DashSpec => []DashTypeOK
<1>1. DashInv => DashTypeOK
  BY DEF DashInv
<1> QED
  BY <1>1, DashInductive, PTL

(***************************************************************************)
(* The cookie of a preview.                                                *)
(***************************************************************************)

\* The last tick at which the login was known to be good, this one included.
LastGood == IF Good(login.token) THEN now ELSE seen

\* What was given for a login is good for Ttl ticks after that tick at most.
Lasts(until) == until # Never => LastGood # Never /\ until <= LastGood + Ttl

Lasting ==
  /\ seen <= now /\ Lasts(preview)
  /\ \A c \in Runs : Lasts(run[c].until) /\ (run[c].stage = "checked" => LastGood = now)

\* A pane that is asking or shown, all of whose runs ended in time and with success.
Renewed ==
  /\ renewal <= now + Renewal
  /\ punctual /\ frame \in {"asking", "shown"} =>
       \A c \in Runs : run[c].stage = "made" => run[c].until = now + Ttl
  /\ punctual /\ frame = "shown" =>
       /\ now <= renewal /\ now <= preview
       /\ (\A c \in Runs : run[c] = NoRun) => renewal - Renewal + Ttl <= preview

AuthInv == PreviewAuthTypeOK /\ Lasting /\ Renewed

RunRecords == [stage : Stages, live : BOOLEAN, token : 0..MaxTokens, until : Never..(MaxTicks + Ttl)]

\* A step of one run, within a tick.
LEMMA RunStep ==
  ASSUME AuthInv, NEW c \in Runs, NEW r \in RunRecords, run' = [run EXCEPT ![c] = r],
         UNCHANGED <<now, shared, login, cookie, tokens, seen>>,
         Lasts(r.until), r.stage = "checked" => LastGood = now,
         preview' \in Never..(MaxTicks + Ttl), Lasts(preview'),
         frame' \in {"closed", "asking", "shown", "empty"},
         renewal' \in {renewal, now + Renewal}, punctual' \in BOOLEAN
  PROVE  /\ PreviewAuthTypeOK' /\ Lasting' /\ renewal' <= now + Renewal
         /\ \A d \in Runs : run'[d] = IF d = c THEN r ELSE run[d]
<1>1. PreviewAuthTypeOK /\ Lasting /\ Renewed
  BY DEF AuthInv
<1>2. \A d \in Runs : run'[d] = IF d = c THEN r ELSE run[d]
  BY <1>1 DEF PreviewAuthTypeOK
<1>3. run' \in [Runs -> RunRecords]
  BY <1>1 DEF PreviewAuthTypeOK, RunRecords
<1>4. now \in 0..MaxTicks /\ renewal \in 0..(MaxTicks + Renewal) /\ renewal <= now + Renewal
      /\ now \in Int /\ renewal \in Int /\ Renewal \in Nat /\ MaxTicks \in Nat
  BY <1>1, PreviewAuthAssumption DEF PreviewAuthTypeOK, Renewed
<1>5. renewal' \in 0..(MaxTicks + Renewal) /\ renewal' <= now + Renewal
  BY <1>4
<1>6. PreviewAuthTypeOK'
  BY <1>1, <1>3, <1>5, Zenon DEF PreviewAuthTypeOK, RunRecords
<1>7. LastGood' = LastGood
  BY DEF LastGood, Good
<1>8. Lasting'
  BY <1>1, <1>2, <1>7 DEF Lasting, Lasts
<1> QED
  BY <1>2, <1>5, <1>6, <1>8

\* Steps of the page and of the relay within a tick.
LEMMA RunsSafe ==
  ASSUME AuthInv, NEW c \in Runs,
         OpensPane(c) \/ Renews(c) \/ FetchesToken(c) \/ Fails(c)
           \/ Checks(c) \/ MakesToken(c) \/ Keeps(c)
  PROVE  AuthInv'
<1>1. PreviewAuthTypeOK /\ Lasting /\ Renewed
  BY DEF AuthInv
<1>2. /\ run[c] \in RunRecords /\ preview \in Never..(MaxTicks + Ttl)
      /\ frame \in {"closed", "asking", "shown", "empty"}
      /\ now \in 0..MaxTicks /\ cookie \in 0..MaxTokens /\ punctual \in BOOLEAN
      /\ renewal \in 0..(MaxTicks + Renewal)
      /\ Lasts(run[c].until) /\ Lasts(preview) /\ (run[c].stage = "checked" => LastGood = now)
  BY <1>1 DEF PreviewAuthTypeOK, RunRecords, Lasting
<1>3. Ttl \in Nat /\ Renewal \in Nat /\ Renewal < Ttl /\ MaxTicks \in Nat /\ MaxTokens \in Nat
  BY PreviewAuthAssumption
<1>4. UNCHANGED <<now, shared, login, cookie, tokens, seen>>
  BY DEF OpensPane, Renews, FetchesToken, Fails, Checks, MakesToken, Keeps
<1>5. NoRun \in RunRecords /\ Lasts(NoRun.until) /\ NoRun.stage = "none"
  BY <1>3 DEF NoRun, RunRecords, Stages, Never, Lasts
<1>6. ASSUME Gives(c), UNCHANGED <<preview, renewal>>
      PROVE  AuthInv'
  <2>1. run' = [run EXCEPT ![c] = NoRun] /\ frame' \in {"empty", frame} /\ punctual' = FALSE
    BY <1>6 DEF Gives
  <2>2. punctual' \in BOOLEAN /\ ~punctual'
    BY <2>1, Zenon
  <2>3. PreviewAuthTypeOK' /\ Lasting' /\ renewal' <= now + Renewal
    BY <1>2, <1>4, <1>5, <1>6, <2>1, <2>2, RunStep
  <2> QED
    BY <1>4, <2>2, <2>3 DEF AuthInv, Renewed
<1>7. ASSUME NEW r \in RunRecords, run' = [run EXCEPT ![c] = r], Lasts(r.until),
             r.stage = "checked" => LastGood = now,
             r.stage = "made" => r.until = now + Ttl, r # NoRun,
             UNCHANGED <<preview, renewal, frame, punctual>>
      PROVE  AuthInv'
  <2>1. /\ PreviewAuthTypeOK' /\ Lasting' /\ renewal' <= now + Renewal
        /\ \A d \in Runs : run'[d] = IF d = c THEN r ELSE run[d]
    BY <1>2, <1>4, <1>7, RunStep
  <2> QED
    BY <1>1, <1>4, <1>7, <2>1 DEF AuthInv, Renewed
<1>8. CASE FetchesToken(c)
  <2>1. CASE run' = [run EXCEPT ![c].stage = "posted", ![c].token = cookie] /\ UNCHANGED <<frame, punctual>>
    <3> DEFINE r == [run[c] EXCEPT !.stage = "posted", !.token = cookie]
    <3>1. r \in RunRecords /\ r.stage = "posted" /\ r.until = run[c].until
      BY <1>2 DEF RunRecords, Stages
    <3>2. r # NoRun
      BY <3>1, <1>5
    <3>3. run' = [run EXCEPT ![c] = r]
      BY <1>1, <2>1 DEF PreviewAuthTypeOK
    <3> HIDE DEF r
    <3> QED
      BY <1>2, <1>7, <1>8, <2>1, <3>1, <3>2, <3>3 DEF FetchesToken
  <2> QED
    BY <1>6, <1>8, <2>1 DEF FetchesToken
<1>9. CASE Fails(c)
  BY <1>6, <1>9 DEF Fails
<1>10. CASE Checks(c)
  <2>1. CASE Good(run[c].token) /\ run' = [run EXCEPT ![c].stage = "checked"] /\ UNCHANGED <<frame, punctual>>
    <3> DEFINE r == [run[c] EXCEPT !.stage = "checked"]
    <3>1. r \in RunRecords /\ r.stage = "checked" /\ r.until = run[c].until
      BY <1>2 DEF RunRecords, Stages
    <3>2. r # NoRun
      BY <3>1, <1>5
    <3>3. run' = [run EXCEPT ![c] = r]
      BY <1>1, <2>1 DEF PreviewAuthTypeOK
    <3>4. LastGood = now
      BY <2>1 DEF Good, LastGood
    <3> HIDE DEF r
    <3> QED
      BY <1>2, <1>7, <1>10, <2>1, <3>1, <3>2, <3>3, <3>4 DEF Checks
  <2> QED
    BY <1>6, <1>10, <2>1 DEF Checks
<1>11. CASE MakesToken(c)
  <2> DEFINE r == [run[c] EXCEPT !.stage = "made", !.until = now + Ttl]
  <2>1. now + Ttl \in Never..(MaxTicks + Ttl)
    BY <1>2, <1>3 DEF Never
  <2>2. r \in RunRecords /\ r.stage = "made" /\ r.until = now + Ttl
    BY <1>2, <2>1 DEF RunRecords, Stages
  <2>3. r # NoRun
    BY <2>2, <1>5
  <2>4. run' = [run EXCEPT ![c] = r]
    BY <1>1, <1>11 DEF MakesToken, PreviewAuthTypeOK
  <2>5. Lasts(now + Ttl)
    BY <1>2, <1>3, <1>11 DEF MakesToken, Lasts, Never
  <2> HIDE DEF r
  <2> QED
    BY <1>7, <1>11, <2>2, <2>3, <2>4, <2>5 DEF MakesToken
<1>12. CASE Keeps(c)
  <2>1. /\ run[c].stage = "made" /\ preview' = run[c].until
        /\ run' = [run EXCEPT ![c] = NoRun]
        /\ (frame = "asking" /\ frame' = "shown" /\ renewal' = now + Renewal) \/ UNCHANGED <<frame, renewal>>
        /\ UNCHANGED punctual
    BY <1>12 DEF Keeps
  <2>2. run[c].until \in Never..(MaxTicks + Ttl)
    BY <1>2 DEF RunRecords
  <2>3. /\ PreviewAuthTypeOK' /\ Lasting' /\ renewal' <= now + Renewal
        /\ \A d \in Runs : run'[d] = IF d = c THEN NoRun ELSE run[d]
    BY <1>2, <1>4, <1>5, <2>1, <2>2, RunStep
  <2>4. ASSUME punctual, frame' \in {"asking", "shown"}
        PROVE  /\ \A d \in Runs : run'[d].stage = "made" => run'[d].until = now + Ttl
               /\ run[c].until = now + Ttl
    BY <1>1, <1>5, <2>1, <2>3, <2>4 DEF Renewed
  <2>5. ASSUME punctual, frame' = "shown"
        PROVE  now <= renewal'
    BY <1>1, <1>2, <1>3, <2>1, <2>5 DEF Renewed
  <2>6. renewal' \in Int /\ now \in Int
    BY <1>2, <2>3 DEF PreviewAuthTypeOK
  <2> QED
    BY <1>3, <1>4, <2>1, <2>3, <2>4, <2>5, <2>6 DEF AuthInv, Renewed
<1>13. ASSUME Begins(c)
       PROVE  \E r \in RunRecords :
                /\ run' = [run EXCEPT ![c] = r] /\ r.stage = "begun" /\ r.until = Never
  <2> DEFINE r == [run[c] EXCEPT !.stage = "begun", !.live = TRUE]
  <2>1. run[c].until = Never
    BY <1>13 DEF Begins, NoRun
  <2>2. r \in RunRecords /\ r.stage = "begun" /\ r.until = run[c].until
    BY <1>2 DEF RunRecords, Stages
  <2>3. run' = [run EXCEPT ![c] = r]
    BY <1>1, <1>13 DEF Begins, PreviewAuthTypeOK
  <2> QED
    BY <2>1, <2>2, <2>3
<1>14. CASE OpensPane(c)
  <2>1. PICK r \in RunRecords :
          run' = [run EXCEPT ![c] = r] /\ r.stage = "begun" /\ r.until = Never
    BY <1>13, <1>14 DEF OpensPane
  <2>2. Lasts(r.until) /\ punctual' \in BOOLEAN
    BY <2>1, <1>14 DEF Lasts, OpensPane
  <2>3. /\ PreviewAuthTypeOK' /\ Lasting' /\ renewal' <= now + Renewal
        /\ \A d \in Runs : run'[d] = IF d = c THEN r ELSE run[d]
    BY <1>2, <1>4, <1>14, <2>1, <2>2, RunStep DEF OpensPane
  <2>4. punctual' => \A d \in Runs : run'[d].stage # "made"
    BY <1>5, <1>14, <2>1, <2>3 DEF OpensPane
  <2>5. frame' = "asking"
    BY <1>14 DEF OpensPane
  <2> QED
    BY <1>4, <2>3, <2>4, <2>5 DEF AuthInv, Renewed
<1>15. CASE Renews(c)
  <2>1. PICK r \in RunRecords :
          run' = [run EXCEPT ![c] = r] /\ r.stage = "begun" /\ r.until = Never
    BY <1>13, <1>15 DEF Renews
  <2>2. Lasts(r.until) /\ renewal' = now + Renewal /\ UNCHANGED <<preview, frame, punctual>>
    BY <2>1, <1>15 DEF Lasts, Renews
  <2>3. /\ PreviewAuthTypeOK' /\ Lasting' /\ renewal' <= now + Renewal
        /\ \A d \in Runs : run'[d] = IF d = c THEN r ELSE run[d]
    BY <1>2, <1>4, <2>1, <2>2, RunStep
  <2>4. r # NoRun /\ run'[c] = r
    BY <1>5, <2>1, <2>3
  <2>5. now <= renewal'
    BY <1>2, <1>3, <2>2
  <2> QED
    BY <1>1, <1>4, <2>1, <2>2, <2>3, <2>4, <2>5 DEF AuthInv, Renewed
<1> QED
  BY <1>8, <1>9, <1>10, <1>11, <1>12, <1>14, <1>15

\* Time, the login and the closing of the pane.
LEMMA LoginSafe ==
  ASSUME AuthInv, TickPasses \/ SignsIn \/ SignsOut \/ Forgets \/ ClosesPane
  PROVE  AuthInv'
<1>1. PreviewAuthTypeOK /\ Lasting /\ Renewed
  BY DEF AuthInv
<1>2. /\ now \in 0..MaxTicks /\ seen \in Never..MaxTicks /\ seen <= now
      /\ renewal \in 0..(MaxTicks + Renewal) /\ preview \in Never..(MaxTicks + Ttl)
      /\ login \in [token : 0..MaxTokens, until : Never..MaxTicks]
      /\ cookie \in 0..MaxTokens /\ tokens \in 0..MaxTokens /\ shared \in BOOLEAN
      /\ frame \in {"closed", "asking", "shown", "empty"} /\ punctual \in BOOLEAN
      /\ run \in [Runs -> RunRecords]
  BY <1>1 DEF PreviewAuthTypeOK, Lasting, RunRecords
<1>3. Ttl \in Nat /\ Renewal \in Nat /\ Renewal < Ttl /\ MaxTicks \in Nat /\ MaxTokens \in Nat
  BY PreviewAuthAssumption
<1>4. /\ LastGood \in Never..MaxTicks /\ seen <= LastGood /\ LastGood <= now
      /\ \A c \in Runs : run[c].until \in Never..(MaxTicks + Ttl)
  BY <1>2, <1>3 DEF LastGood, RunRecords, Never
<1>5. ASSUME LastGood' \in Int, LastGood <= LastGood', seen' <= now', UNCHANGED preview,
             \A c \in Runs : run'[c].until = run[c].until /\ run'[c].stage = run[c].stage,
             \A c \in Runs : run[c].stage = "checked" => LastGood' = now'
      PROVE  Lasting'
  <2>1. ASSUME NEW u \in Never..(MaxTicks + Ttl), Lasts(u)
        PROVE  u # Never => LastGood' # Never /\ u <= LastGood' + Ttl
    BY <1>3, <1>4, <1>5, <2>1 DEF Lasts, Never
  <2> QED
    BY <1>1, <1>2, <1>4, <1>5, <2>1 DEF Lasting, Lasts
<1>6. CASE TickPasses
  <2>1. /\ now < MaxTicks /\ now' = now + 1 /\ \A c \in Runs : run[c].stage # "checked"
        /\ seen' = (IF Good(login.token) THEN now ELSE seen)
        /\ punctual' = (punctual /\ (\A c \in Runs : run[c] = NoRun) /\ (frame = "shown" => now < renewal))
        /\ UNCHANGED <<shared, login, cookie, tokens, preview, frame, renewal, run>>
    BY <1>6 DEF TickPasses
  <2>10. seen' = LastGood
    BY <2>1 DEF LastGood
  <2>11. now' \in 0..MaxTicks /\ now' \in Int /\ LastGood <= now'
    BY <1>2, <1>3, <1>4, <2>1 DEF Never
  <2>2. now' \in 0..MaxTicks /\ seen' \in Never..MaxTicks /\ seen' <= now' /\ seen' = LastGood
        /\ now' \in Int
    BY <1>4, <2>10, <2>11
  <2>3. LastGood' \in Int /\ LastGood <= LastGood'
    BY <1>2, <1>4, <2>1, <2>2 DEF LastGood, Never
  <2>4. Lasting'
    BY <1>5, <2>1, <2>2, <2>3
  <2>5. punctual' \in BOOLEAN
    BY <2>1, Zenon
  <2>6. PreviewAuthTypeOK'
    BY <1>1, <2>1, <2>2, <2>5, Zenon DEF PreviewAuthTypeOK
  <2>7. punctual' => punctual /\ (\A c \in Runs : run[c] = NoRun) /\ (frame = "shown" => now < renewal)
    BY <2>1, Zenon
  <2>8. NoRun.stage # "made"
    BY DEF NoRun
  <2>9. Renewed'
    BY <1>1, <1>2, <1>3, <2>1, <2>2, <2>7, <2>8 DEF Renewed
  <2> QED
    BY <2>4, <2>6, <2>9 DEF AuthInv
<1>7. CASE SignsIn
  <2>1. /\ tokens < MaxTokens /\ tokens' = tokens + 1 /\ cookie' = tokens'
        /\ \E until \in now..MaxTicks : login' = [token |-> tokens', until |-> until]
        /\ seen' = now
        /\ UNCHANGED <<now, shared, preview, frame, renewal, run, punctual>>
    BY <1>7 DEF SignsIn
  <2>2. tokens' \in 0..MaxTokens /\ login' \in [token : 0..MaxTokens, until : Never..MaxTicks]
    BY <1>2, <1>3, <2>1 DEF Never
  <2>3. LastGood' = now
    BY <2>1 DEF LastGood
  <2>4. seen' \in Never..MaxTicks /\ seen' <= now'
    BY <1>2, <2>1 DEF Never
  <2>5. PreviewAuthTypeOK'
    BY <1>1, <2>1, <2>2, <2>4, Zenon DEF PreviewAuthTypeOK
  <2>6. Lasting'
    BY <1>2, <1>4, <1>5, <2>1, <2>3, <2>4
  <2> QED
    BY <1>1, <2>1, <2>5, <2>6 DEF AuthInv, Renewed
<1>8. CASE SignsOut
  <2>1. /\ login' = LoggedOut /\ seen' = (IF Good(login.token) THEN now ELSE seen)
        /\ cookie' \in {0, cookie}
        /\ UNCHANGED <<now, shared, tokens, preview, frame, renewal, run, punctual>>
    BY <1>8 DEF SignsOut
  <2>2. seen' \in Never..MaxTicks /\ seen' <= now' /\ seen' = LastGood
    BY <1>2, <1>4, <2>1 DEF LastGood, Never
  <2>3. login'.token = 0 /\ login' \in [token : 0..MaxTokens, until : Never..MaxTicks]
    BY <1>3, <2>1 DEF LoggedOut, Never
  <2>4. LastGood' = LastGood
    BY <2>1, <2>2, <2>3 DEF LastGood, Good
  <2>5. cookie' \in 0..MaxTokens
    BY <1>2, <1>3, <2>1
  <2>6. PreviewAuthTypeOK'
    BY <1>1, <2>1, <2>2, <2>3, <2>5, Zenon DEF PreviewAuthTypeOK
  <2>7. Lasting'
    BY <1>1, <1>4, <1>5, <2>1, <2>2, <2>4 DEF Lasting
  <2> QED
    BY <1>1, <2>1, <2>6, <2>7 DEF AuthInv, Renewed
<1>9. CASE Forgets
  <2>1. cookie' = 0 /\ UNCHANGED <<now, shared, login, tokens, preview, frame, renewal, run, seen, punctual>>
    BY <1>9 DEF Forgets
  <2>2. PreviewAuthTypeOK'
    BY <1>1, <1>3, <2>1 DEF PreviewAuthTypeOK
  <2> QED
    BY <1>1, <2>1, <2>2 DEF AuthInv, Renewed, Lasting, Lasts, LastGood, Good
<1>10. CASE ClosesPane
  <2>1. /\ frame' = "closed" /\ run' = [c \in Runs |-> [run[c] EXCEPT !.live = FALSE]]
        /\ UNCHANGED <<now, shared, login, cookie, tokens, preview, renewal, seen, punctual>>
    BY <1>10 DEF ClosesPane
  <2>2. /\ run' \in [Runs -> RunRecords]
        /\ \A c \in Runs : run'[c].until = run[c].until /\ run'[c].stage = run[c].stage
    BY <1>2, <2>1 DEF RunRecords
  <2>3. PreviewAuthTypeOK'
    BY <1>1, <2>1, <2>2, Zenon DEF PreviewAuthTypeOK, RunRecords
  <2>4. LastGood' = LastGood
    BY <2>1 DEF LastGood, Good
  <2>5. Lasting'
    BY <1>1, <1>4, <1>5, <2>1, <2>2, <2>4 DEF Lasting
  <2> QED
    BY <1>1, <2>1, <2>3, <2>5 DEF AuthInv, Renewed
<1> QED
  BY <1>6, <1>7, <1>8, <1>9, <1>10

LEMMA AuthInductive == PreviewAuthSpec => []AuthInv
<1>1. PreviewAuthInit => AuthInv
  <2> SUFFICES ASSUME PreviewAuthInit
               PROVE  AuthInv
    OBVIOUS
  <2>1. Ttl \in Nat /\ Renewal \in Nat /\ MaxTicks \in Nat /\ MaxTokens \in Nat
    BY PreviewAuthAssumption
  <2>2. punctual \in BOOLEAN /\ shared \in BOOLEAN
    BY Zenon DEF PreviewAuthInit
  <2>3. /\ now = 0 /\ seen = Never /\ login = LoggedOut /\ cookie = 0 /\ tokens = 0
        /\ preview = Never /\ frame = "closed" /\ renewal = 0 /\ run = [c \in Runs |-> NoRun]
    BY DEF PreviewAuthInit
  <2>4. NoRun \in RunRecords /\ NoRun.until = Never /\ NoRun.stage = "none"
    BY <2>1 DEF NoRun, RunRecords, Stages, Never
  <2>5. PreviewAuthTypeOK
    BY <2>1, <2>2, <2>3, <2>4 DEF PreviewAuthTypeOK, LoggedOut, Never, RunRecords
  <2>6. Lasting
    BY <2>3, <2>4 DEF Lasting, Lasts, Never
  <2>7. Renewed
    BY <2>1, <2>3 DEF Renewed
  <2> QED
    BY <2>5, <2>6, <2>7 DEF AuthInv
<1>2. AuthInv /\ [PreviewAuthNext]_previewAuthVars => AuthInv'
  <2> SUFFICES ASSUME AuthInv, [PreviewAuthNext]_previewAuthVars
               PROVE  AuthInv'
    OBVIOUS
  <2>1. CASE UNCHANGED previewAuthVars
    <3>1. PreviewAuthTypeOK'
      BY <2>1 DEF previewAuthVars, AuthInv, PreviewAuthTypeOK
    <3> QED
      BY <2>1, <3>1 DEF previewAuthVars, AuthInv, Renewed, Lasting, Lasts, LastGood, Good
  <2> QED
    BY <2>1, LoginSafe, RunsSafe DEF PreviewAuthNext
<1> QED
  BY <1>1, <1>2, PTL DEF PreviewAuthSpec

\* Access to a preview ends with the login, and lasts as long.
THEOREM AccessEnds == PreviewAuthSpec => []AccessFollowsLogin
<1>1. AuthInv => AccessFollowsLogin
  <2> SUFFICES ASSUME AuthInv
               PROVE  AccessFollowsLogin
    OBVIOUS
  <2>1. /\ now \in Nat /\ seen \in Int /\ preview \in Int /\ Ttl \in Nat /\ Never = -1
    BY PreviewAuthAssumption DEF AuthInv, PreviewAuthTypeOK, Never
  <2>2. ASSUME LetIn(Sent, preview)
        PROVE  Good(login.token) \/ (seen # Never /\ now - seen <= Ttl)
    <3>1. CASE Sent # 0
      BY <2>2, <3>1 DEF LetIn, Good
    <3>2. CASE Sent = 0
      <4>1. now <= preview /\ preview # Never
        BY <2>1, <2>2, <3>2 DEF LetIn, Valid
      <4>2. LastGood # Never /\ preview <= LastGood + Ttl
        BY <4>1 DEF AuthInv, Lasting, Lasts
      <4> QED
        BY <2>1, <4>1, <4>2 DEF LastGood
    <3> QED
      BY <3>1, <3>2
  <2>3. ASSUME frame = "shown", punctual, cookie # 0, Good(cookie)
        PROVE  LetIn(Sent, preview)
    BY <2>3 DEF AuthInv, Renewed, LetIn, Sent, Valid
  <2> QED
    BY <2>2, <2>3 DEF AccessFollowsLogin
<1> QED
  BY <1>1, AuthInductive, PTL

\* Login, cookies and the runs of a renewal stay in their sets.
THEOREM PreviewAuthTypeCorrect == PreviewAuthSpec => []PreviewAuthTypeOK
<1>1. AuthInv => PreviewAuthTypeOK
  BY DEF AuthInv
<1> QED
  BY <1>1, AuthInductive, PTL

(***************************************************************************)
(* The rate limit.                                                         *)
(***************************************************************************)

\* Calls of the present window that were let through are in the set.
Remembered == \A p \in passed : clock - Window < p => \E m \in zset : m[1] = p

\* The calls let through in the window that ends at t.
PassedIn(t) == {p \in passed : t - Window < p /\ p <= t}

WindowsKept == \A t \in 0..MaxTime : Cardinality(PassedIn(t)) <= Limit

ToldRight ==
  told.at # NoCall =>
    ~Full({m \in told.kept : m[1] > told.at + told.seconds * TicksPerSecond - Window})

RateInv ==
  /\ RateTypeOK
  /\ IsFiniteSet(zset) /\ Cardinality(zset) <= Limit
  /\ Remembered /\ WindowsKept /\ ToldRight

\* Rounding up.
LEMMA RoundsUp ==
  ASSUME NEW x \in Int, NEW n \in Nat \ {0}
  PROVE  /\ Later(1, (x + n - 1) \div n) \in Nat
         /\ Later(1, (x + n - 1) \div n) * n \in Nat
         /\ Later(1, (x + n - 1) \div n) * n >= x
<1> DEFINE y == x + n - 1
           q == y \div n
<1>1. y \in Int /\ q \in Int
  OBVIOUS
<1>2. y = n * q + (y % n) /\ y % n \in 0..(n - 1)
  BY <1>1
<1> HIDE DEF q
<1>3. n * q >= x
  BY <1>1, <1>2
<1>4. CASE q > 1
  BY <1>1, <1>3, <1>4 DEF Later, q
<1>5. CASE q <= 1
  <2>1. x <= n
    BY <1>1, <1>3, <1>5
  <2> QED
    BY <1>1, <1>5, <2>1 DEF Later, q
<1> QED
  BY <1>1, <1>4, <1>5

\* What is left of the set at a time that is not later than now.
LEMMA KeptIsEnough ==
  ASSUME RateInv, NEW n \in 0..clock
  PROVE  /\ IsFiniteSet(Kept(n)) /\ Cardinality(Kept(n)) \in Nat /\ Cardinality(Kept(n)) <= Limit
         /\ \A p \in passed : clock - Window < p => \E m \in Kept(n) : m[1] = p
<1>1. Kept(n) \in SUBSET zset
  BY DEF Kept
<1>2. IsFiniteSet(Kept(n)) /\ Cardinality(Kept(n)) <= Cardinality(zset) /\ IsFiniteSet(zset)
  BY <1>1, FS_Subset DEF RateInv
<1>3. Cardinality(Kept(n)) \in Nat /\ Cardinality(zset) \in Nat /\ Cardinality(zset) <= Limit
  BY <1>2, FS_CardinalityType DEF RateInv
<1>4. ASSUME NEW p \in passed, clock - Window < p
      PROVE  \E m \in Kept(n) : m[1] = p
  <2>1. PICK m \in zset : m[1] = p
    BY <1>4 DEF RateInv, Remembered
  <2>2. m[1] > n - Window
    BY <1>4, <2>1, RateAssumption DEF RateInv, RateTypeOK
  <2> QED
    BY <2>1, <2>2 DEF Kept
<1> QED
  BY <1>2, <1>3, <1>4, RateAssumption

LEMMA PassesSafe ==
  ASSUME RateInv, NEW n \in 0..clock, Passes(n), UNCHANGED clock, late' \in {NoCall} \cup 0..clock
  PROVE  RateInv'
<1>1. /\ RateTypeOK /\ Remembered /\ WindowsKept /\ ToldRight
      /\ ~Full(Kept(n)) /\ UNCHANGED told
  BY DEF RateInv, Passes
<1>2. PICK d \in Draws : zset' = Kept(n) \cup {<<n, d>>}
  BY DEF Passes
<1>3. /\ IsFiniteSet(Kept(n)) /\ Cardinality(Kept(n)) \in Nat
      /\ \A p \in passed : clock - Window < p => \E m \in Kept(n) : m[1] = p
  BY KeptIsEnough
<1>4. Cardinality(Kept(n)) + 1 <= Limit
  BY <1>1, <1>3, RateAssumption DEF Full
<1>5. IsFiniteSet(zset') /\ Cardinality(zset') <= Limit
  <2>1. zset' \in SUBSET (Kept(n) \cup {<<n, d>>})
    BY <1>2
  <2>2. IsFiniteSet(zset') /\ Cardinality(zset') \in Nat /\ Cardinality(zset') <= Cardinality(Kept(n)) + 1
    BY <1>3, <2>1, OneMore
  <2> QED
    BY <1>3, <1>4, <2>2, RateAssumption
<1>6. RateTypeOK'
  BY <1>1, <1>2 DEF RateTypeOK, Kept, Passes
<1>7. passed \subseteq passed' /\ passed' \subseteq passed \cup {clock} /\ (passed' = passed \/ n = clock)
  BY DEF Passes
<1>8. Remembered'
  <2>1. ASSUME NEW p \in passed', clock - Window < p
        PROVE  \E m \in zset' : m[1] = p
    <3>1. CASE p \in passed
      BY <1>2, <1>3, <2>1, <3>1
    <3>2. CASE p \notin passed
      <4>1. p = n /\ <<n, d>> \in zset'
        BY <1>2, <1>7, <2>1, <3>2
      <4> QED
        BY <4>1
    <3> QED
      BY <3>1, <3>2
  <2> QED
    BY <2>1 DEF Remembered
<1>9. WindowsKept'
  <2>1. CASE passed' = passed
    BY <1>1, <2>1 DEF WindowsKept, PassedIn
  <2>2. CASE n = clock
    <3> DEFINE lately == {p \in passed : clock - Window < p}
    <3>1. IsFiniteSet(lately) /\ Cardinality(lately) <= Cardinality(Kept(n))
      <4> DEFINE f == [p \in lately |-> CHOOSE m \in Kept(n) : m[1] = p]
      <4>1. \A p \in lately : f[p] \in Kept(n) /\ f[p][1] = p
        BY <1>3
      <4>2. f \in Injection(lately, Kept(n))
        BY <4>1 DEF Injection, IsInjective
      <4> QED
        BY <4>2, <1>3, FS_Injection
    <3> HIDE DEF lately
    <3>2. ASSUME NEW t \in 0..MaxTime
          PROVE  Cardinality(PassedIn(t)') <= Limit
      <4>1. CASE t < clock
        <5>1. PassedIn(t)' = PassedIn(t)
          <6>1. ASSUME NEW p \in passed', p <= t
                PROVE  p \in passed
            <7>1. clock \in Nat /\ t \in Nat
              BY <1>1 DEF RateTypeOK
            <7>2. p # clock
              BY <4>1, <6>1, <7>1
            <7> QED
              BY <1>7, <7>2
          <6> QED
            BY <1>7, <6>1 DEF PassedIn
        <5> QED
          BY <1>1, <5>1 DEF WindowsKept
      <4>2. CASE clock <= t
        <5>1. PassedIn(t)' \in SUBSET (lately \cup {clock})
          <6>1. ASSUME NEW p \in passed, t - Window < p
                PROVE  p \in lately
            <7>1. clock \in Nat /\ p \in Nat /\ Window \in Nat /\ t \in Nat
              BY <1>1, RateAssumption DEF RateTypeOK
            <7> QED
              BY <4>2, <6>1, <7>1 DEF lately
          <6> QED
            BY <1>7, <6>1 DEF PassedIn
        <5>2. /\ Cardinality(PassedIn(t)') <= Cardinality(lately) + 1
              /\ Cardinality(PassedIn(t)') \in Nat /\ Cardinality(lately) \in Nat
          BY <3>1, <5>1, OneMore
        <5> QED
          BY <1>3, <1>4, <3>1, <5>2, RateAssumption
      <4> QED
        BY <1>1, <4>1, <4>2 DEF RateTypeOK
    <3> QED
      BY <3>2 DEF WindowsKept
  <2> QED
    BY <1>7, <2>1, <2>2
<1>10. ToldRight'
  BY <1>1 DEF ToldRight
<1> QED
  BY <1>5, <1>6, <1>8, <1>9, <1>10 DEF RateInv

LEMMA RefusedSafe ==
  ASSUME RateInv, NEW n \in 0..clock, Refused(n), UNCHANGED clock, late' \in {NoCall} \cup 0..clock
  PROVE  RateInv'
<1> DEFINE K == Kept(n)
           s == RetryAfter(K, n)
           Left == {m \in K : m[1] > n + s * TicksPerSecond - Window}
<1>1. /\ RateTypeOK /\ WindowsKept /\ Full(K) /\ zset' = K /\ UNCHANGED passed
      /\ told' = [at |-> n, seconds |-> s, kept |-> K]
  BY DEF RateInv, Refused
<1>2. /\ IsFiniteSet(K) /\ Cardinality(K) \in Nat /\ Cardinality(K) <= Limit
      /\ \A p \in passed : clock - Window < p => \E m \in K : m[1] = p
  BY KeptIsEnough
<1>3. K \subseteq (0..clock) \X Draws /\ clock \in Nat /\ n \in Nat
  BY <1>1 DEF RateTypeOK, Kept
<1>4. K # {}
  <2>1. Cardinality(K) # 0
    BY <1>1, <1>2, RateAssumption DEF Full
  <2> QED
    BY <2>1, FS_EmptySet
<1> HIDE DEF K
<1>5. Oldest(K) \in {m[1] : m \in K} /\ \A m \in K : Oldest(K) <= m[1]
  <2>1. {m[1] : m \in K} \in SUBSET Nat /\ {m[1] : m \in K} # {}
    BY <1>3, <1>4
  <2>2. PICK t \in {m[1] : m \in K} : \A u \in {m[1] : m \in K} : t <= u
    BY <2>1, LeastNumber
  <2>3. \A m \in K : t <= m[1]
    BY <2>2
  <2> QED
    BY <2>3 DEF Oldest
<1>6. PICK o \in K : o[1] = Oldest(K)
  BY <1>5
<1>7. Oldest(K) \in Nat
  BY <1>3, <1>6
<1>8. s \in Nat /\ s * TicksPerSecond \in Nat /\ s * TicksPerSecond >= Oldest(K) + Window - n
  <2>1. Oldest(K) + Window - n \in Int
    BY <1>3, <1>7, RateAssumption
  <2> QED
    BY <2>1, RoundsUp, RateAssumption DEF RetryAfter
<1>9. o \notin Left
  BY <1>3, <1>6, <1>7, <1>8, RateAssumption
<1>10. Left \in SUBSET K /\ Left # K
  BY <1>6, <1>9
<1>11. ~Full(Left)
  <2> HIDE DEF Left
  <2>1. Cardinality(Left) <= Cardinality(K) /\ Cardinality(Left) # Cardinality(K) /\ IsFiniteSet(Left)
    BY <1>2, <1>10, FS_Subset
  <2>2. Cardinality(Left) \in Nat
    BY <2>1, FS_CardinalityType
  <2> QED
    BY <1>2, <2>1, <2>2, RateAssumption DEF Full
<1>12. ToldRight'
  BY <1>1, <1>11 DEF ToldRight
<1>13. RateTypeOK'
  BY <1>1, <1>3, <1>8 DEF RateTypeOK
<1>14. Remembered'
  BY <1>1, <1>2 DEF Remembered
<1>15. WindowsKept'
  BY <1>1 DEF WindowsKept, PassedIn
<1> QED
  BY <1>1, <1>2, <1>12, <1>13, <1>14, <1>15 DEF RateInv

LEMMA RateInductive == RateSpec => []RateInv
<1>1. RateInit => RateInv
  <2> SUFFICES ASSUME RateInit
               PROVE  RateInv
    OBVIOUS
  <2>1. zset = {} /\ passed = {} /\ told.at = NoCall /\ \A t \in 0..MaxTime : PassedIn(t) = {}
    BY DEF RateInit, PassedIn
  <2>2. RateTypeOK
    BY RateAssumption DEF RateInit, RateTypeOK
  <2> QED
    BY <2>1, <2>2, FS_EmptySet, RateAssumption DEF RateInv, Remembered, WindowsKept, ToldRight
<1>2. RateInv /\ [RateNext]_rateVars => RateInv'
  <2> SUFFICES ASSUME RateInv, [RateNext]_rateVars
               PROVE  RateInv'
    OBVIOUS
  <2>1. RateTypeOK /\ clock \in 0..clock /\ NoCall \notin 0..clock
    BY DEF RateInv, RateTypeOK, NoCall
  <2>2. ASSUME UNCHANGED <<zset, passed, told>>, clock <= clock', RateTypeOK'
        PROVE  RateInv'
    <3>1. ASSUME NEW p \in passed, clock' - Window < p
          PROVE  \E m \in zset : m[1] = p
      <4>1. clock \in Nat /\ clock' \in Nat /\ p \in Nat /\ Window \in Nat
        BY <2>1, <2>2, RateAssumption DEF RateTypeOK
      <4>2. clock - Window < p
        BY <2>2, <3>1, <4>1
      <4> QED
        BY <4>2 DEF RateInv, Remembered
    <3>2. WindowsKept' /\ ToldRight'
      BY <2>2 DEF RateInv, WindowsKept, PassedIn, ToldRight
    <3> QED
      BY <2>2, <3>1, <3>2 DEF RateInv, Remembered
  <2>3. CASE Tick \/ Delay \/ UNCHANGED rateVars
    <3>1. UNCHANGED <<zset, passed, told>> /\ clock <= clock'
      BY <2>1, <2>3 DEF Tick, Delay, rateVars, RateTypeOK
    <3>2. RateTypeOK'
      <4>1. clock' \in 0..MaxTime /\ 0..clock \subseteq 0..clock' /\ clock \in 0..clock'
        BY <2>1, <2>3, RateAssumption DEF Tick, Delay, rateVars, RateTypeOK
      <4>2. late' \in {NoCall} \cup 0..clock'
        BY <2>1, <2>3, <4>1 DEF Tick, Delay, rateVars, RateTypeOK
      <4>3. zset \subseteq (0..clock') \X Draws /\ passed \subseteq 0..clock'
        BY <2>1, <4>1 DEF RateTypeOK
      <4>4. told'.seconds \in Nat
        BY <2>1, <3>1 DEF RateTypeOK
      <4> QED
        BY <3>1, <4>1, <4>2, <4>3, <4>4 DEF RateTypeOK
    <3> QED
      BY <2>2, <3>1, <3>2
  <2>4. CASE Call
    BY <2>1, <2>4, PassesSafe, RefusedSafe DEF Call, RateTypeOK
  <2>5. CASE LateCall
    <3>1. late \in 0..clock /\ late' = NoCall /\ UNCHANGED clock
      BY <2>1, <2>5 DEF LateCall, RateTypeOK
    <3>2. CASE UNCHANGED <<zset, passed, told>>
      BY <2>1, <2>2, <3>1, <3>2 DEF RateTypeOK
    <3> QED
      BY <2>5, <3>1, <3>2, PassesSafe, RefusedSafe DEF LateCall
  <2> QED
    BY <2>3, <2>4, <2>5 DEF RateNext
<1> QED
  BY <1>1, <1>2, PTL DEF RateSpec

\* Every variable of the rate limit always has its type.
THEOREM RateTypeCorrect == RateSpec => []RateTypeOK
<1>1. RateInv => RateTypeOK
  BY DEF RateInv
<1> QED
  BY <1>1, RateInductive, PTL

\* No window lets more calls through than the limit, and who waits as told finds
\* one of the calls gone that were in the way.
THEOREM WindowsAreKept == RateSpec => []WindowKept
<1>1. RateInv => WindowKept
  BY DEF RateInv, WindowsKept, PassedIn, ToldRight, WindowKept
<1> QED
  BY <1>1, RateInductive, PTL

(***************************************************************************)
(* The limits of sessions.                                                 *)
(***************************************************************************)

\* Sessions that run, and were not set running by an update.
Active(S) == Running(S) \ resumed

\* Requests that have counted and find room in the organisation under tier t.
OpenFor(t) == {k \in Creators : making[k] = "insert" /\ counted[k].org < OrgCap(t)}

\* Tier t allows the organisation most.
Highest(t) == \A u \in Tiers : OrgCap(u) <= OrgCap(t)

\* The lock lets one request of a user at a time count and insert.
OneOfUser ==
  \A k, j \in Creators :
    UserOf[k] = UserOf[j] /\ {making[k], making[j]} \subseteq {"count", "insert"} => k = j

\* While a request of a user has the lock, no more sessions of the user start to run.
CountHolds ==
  \A k \in Creators : making[k] = "insert" => Cardinality(Active({UserOf[k]})) <= counted[k].user

\* A request is open only when it has counted too few, and each member has one at most.
RoomKept ==
  \A t \in Tiers : Highest(t) /\ Creators # {} =>
    Cardinality(Active(Members)) + Cardinality(OpenFor(t)) <= OrgCap(t) + Cardinality(Members) - 1

FiniteRunning == IsFiniteSet(Running(Members))

LimitsInv == LimitsTypeOK /\ FiniteRunning /\ OneOfUser /\ CountHolds /\ RoomKept

\* One of finitely many tiers is the highest.
LEMMA CapType == \A t \in Tiers : OrgCap(t) \in Nat
<1>1. IsFiniteSet(Members)
  BY LimitsAssumption
<1>2. Cardinality(Members) \in Nat
  BY <1>1, FS_CardinalityType
<1>3. PerSeat * Cardinality(Members) \in Nat
  BY <1>2, LimitsAssumption
<1> QED
  BY <1>3, LimitsAssumption DEF OrgCap

LEMMA SomeHighest == \E t \in Tiers : Highest(t)
<1> DEFINE Above(t) == {u \in Tiers : OrgCap(u) > OrgCap(t)}
           Aboves == {Above(t) : t \in Tiers}
<1>1. Aboves \subseteq FiniteSubsetsOf(Tiers) /\ Aboves # {}
  <2>1. ASSUME NEW t \in Tiers
        PROVE  Above(t) \in SUBSET Tiers /\ IsFiniteSet(Above(t))
    <3>1. Above(t) \in SUBSET Tiers
      OBVIOUS
    <3> QED
      BY <3>1, LimitsAssumption, FS_Subset
  <2> HIDE DEF Above
  <2>2. \A A \in Aboves : A \in FiniteSubsetsOf(Tiers)
    BY <2>1 DEF FiniteSubsetsOf
  <2>3. Above(Starter) \in Aboves
    BY LimitsAssumption
  <2> QED
    BY <2>2, <2>3
<1>2. PICK A \in Aboves : \A B \in Aboves : <<B, A>> \notin StrictSubsetOrdering(Tiers)
  BY <1>1, FS_StrictSubsetOrderingWellFounded, WFMin
<1>3. PICK t \in Tiers : A = Above(t)
  OBVIOUS
<1>4. ASSUME NEW u \in Tiers, ~(OrgCap(u) <= OrgCap(t))
      PROVE  FALSE
  <2>1. OrgCap(u) \in Nat /\ OrgCap(t) \in Nat /\ \A v \in Tiers : OrgCap(v) \in Nat
    BY CapType
  <2>2. u \in Above(t) /\ u \notin Above(u)
    BY <1>4, <2>1
  <2>3. Above(u) \subseteq Above(t)
    BY <1>4, <2>1
  <2>4. <<Above(u), A>> \in StrictSubsetOrdering(Tiers)
    BY <1>3, <2>2, <2>3 DEF StrictSubsetOrdering
  <2> QED
    BY <1>2, <2>4
<1> QED
  BY <1>4 DEF Highest

\* Sets of sessions have a size.
LEMMA ActiveFinite ==
  ASSUME FiniteRunning, LimitsTypeOK, NEW S \in SUBSET Members
  PROVE  /\ IsFiniteSet(Running(S)) /\ IsFiniteSet(Active(S))
         /\ Cardinality(Running(S)) \in Nat /\ Cardinality(Active(S)) \in Nat
         /\ Cardinality(Active(S)) <= Cardinality(Running(S))
<1>1. Running(S) \in SUBSET Running(Members) /\ Active(S) \in SUBSET Running(S)
  BY LimitsAssumption DEF Running, Active
<1>2. IsFiniteSet(Running(S))
  BY <1>1, FS_Subset DEF FiniteRunning
<1>3. IsFiniteSet(Active(S)) /\ Cardinality(Active(S)) <= Cardinality(Running(S))
  BY <1>1, <1>2, FS_Subset
<1> QED
  BY <1>2, <1>3, FS_CardinalityType

\* Each member has one request that is open at most.
LEMMA OpenFinite ==
  ASSUME OneOfUser, NEW t \in Tiers
  PROVE  /\ IsFiniteSet(OpenFor(t)) /\ Cardinality(OpenFor(t)) \in Nat
         /\ Cardinality(OpenFor(t)) <= Cardinality(Members)
<1> DEFINE f == [k \in OpenFor(t) |-> UserOf[k]]
<1>1. f \in [OpenFor(t) -> Members]
  BY LimitsAssumption DEF OpenFor
<1>2. \A k, j \in OpenFor(t) : f[k] = f[j] => k = j
  BY DEF OneOfUser, OpenFor
<1>3. f \in Injection(OpenFor(t), Members)
  BY <1>1, <1>2 DEF Injection, IsInjective
<1>4. IsFiniteSet(OpenFor(t)) /\ Cardinality(OpenFor(t)) <= Cardinality(Members)
  BY <1>3, FS_Injection, LimitsAssumption
<1> QED
  BY <1>4, FS_CardinalityType

\* The same, after a step.
LEMMA ActiveFiniteAfter ==
  ASSUME FiniteRunning', NEW S \in SUBSET Members
  PROVE  IsFiniteSet(Active(S)') /\ Cardinality(Active(S)') \in Nat
<1>1. IsFiniteSet(Running(Members)') /\ Active(S)' \in SUBSET Running(Members)'
  BY DEF Active, Running, FiniteRunning
<1>2. IsFiniteSet(Active(S)')
  BY <1>1, FS_Subset
<1> QED
  BY <1>2, FS_CardinalityType

LEMMA OpenFiniteAfter ==
  ASSUME OneOfUser', NEW t \in Tiers
  PROVE  /\ IsFiniteSet(OpenFor(t)') /\ Cardinality(OpenFor(t)') \in Nat
         /\ Cardinality(OpenFor(t)') <= Cardinality(Members)
<1> DEFINE f == [k \in OpenFor(t)' |-> UserOf[k]]
<1>1. f \in [OpenFor(t)' -> Members]
  BY LimitsAssumption DEF OpenFor
<1>2. \A k, j \in OpenFor(t)' : f[k] = f[j] => k = j
  BY DEF OneOfUser, OpenFor
<1>3. f \in Injection(OpenFor(t)', Members)
  BY <1>1, <1>2 DEF Injection, IsInjective
<1>4. IsFiniteSet(OpenFor(t)') /\ Cardinality(OpenFor(t)') <= Cardinality(Members)
  BY <1>3, FS_Injection, LimitsAssumption
<1> QED
  BY <1>4, FS_CardinalityType

(***************************************************************************)
(* The steps.                                                              *)
(***************************************************************************)

LEMMA LimitsTypeStep ==
  ASSUME LimitsTypeOK, FiniteRunning, [LimitsNext]_limitVars
  PROVE  LimitsTypeOK'
<1> USE DEF LimitsTypeOK
<1>1. ASSUME NEW t \in Tiers, Plan(t)
      PROVE  planCache' \in Tiers \cup {NoTier} /\ fresh' \in BOOLEAN /\ (fresh' => planCache' # NoTier)
  <2>1. UNCHANGED <<planCache, fresh>> \/ (planCache' \in Tiers /\ fresh' = TRUE)
    BY <1>1, Zenon DEF Plan
  <2>2. planCache' \in Tiers \cup {NoTier} /\ (fresh' => planCache' # NoTier)
    BY <2>1, LimitsAssumption DEF NoTier
  <2>3. fresh' \in BOOLEAN
    BY <2>1, Zenon
  <2> QED
    BY <2>2, <2>3
<1>2. ASSUME NEW k \in Creators, Asks(k) \/ TakesLock(k)
      PROVE  LimitsTypeOK'
  BY <1>2 DEF Asks, TakesLock, Step
<1>3. ASSUME NEW k \in Creators, ReadsPlan(k)
      PROVE  LimitsTypeOK'
  BY <1>1, <1>3 DEF ReadsPlan, Step
<1>4. ASSUME NEW k \in Creators, Counts(k)
      PROVE  LimitsTypeOK'
  <2>1. {UserOf[k]} \in SUBSET Members
    BY LimitsAssumption
  <2>2. Cardinality(Running({UserOf[k]})) \in Nat /\ Cardinality(Running(Members)) \in Nat
    BY <2>1, ActiveFinite
  <2> QED
    BY <1>4, <2>2 DEF Counts, Step
<1>5. ASSUME NEW k \in Creators, Inserts(k)
      PROVE  LimitsTypeOK'
  BY <1>5, LimitsAssumption DEF Inserts, Step, Nothing, Statuses
<1>6. ASSUME NEW k \in Creators, Deletes(k)
      PROVE  LimitsTypeOK'
  BY <1>6 DEF Deletes, NoDate
<1>7. ASSUME NEW k \in Creators, NEW s \in Statuses, NEW dated \in BOOLEAN, Updates(k, s, dated)
      PROVE  LimitsTypeOK'
  <2>1. 0 \in 0..MaxAge
    BY LimitsAssumption
  <2>2. resumed' \subseteq Creators
    BY <1>7 DEF Updates
  <2> QED
    BY <1>7, <2>1, <2>2 DEF Updates
<1>8. ASSUME NEW t \in Tiers, Subscribe(t)
      PROVE  LimitsTypeOK'
  BY <1>8 DEF Subscribe
<1>9. CASE PlanExpires
  BY <1>9 DEF PlanExpires
<1>10. CASE CleansUp
  BY <1>1, <1>10 DEF CleansUp, NoDate
<1>11. CASE Day
  BY <1>11, LimitsAssumption DEF Day, NoDate
<1>12. CASE UNCHANGED limitVars
  BY <1>12 DEF limitVars
<1> QED
  BY <1>2, <1>3, <1>4, <1>5, <1>6, <1>7, <1>8, <1>9, <1>10, <1>11, <1>12 DEF LimitsNext

\* Only a request that is inserted makes a session active.
NoneStarts == \A k \in Creators : row'[k] = "running" /\ k \notin resumed' =>
                row[k] = "running" /\ k \notin resumed

\* The requests stay where they are, or one of them goes on, before it counts.
NoneCounts == \A k \in Creators :
  /\ making'[k] = "insert" <=> making[k] = "insert"
  /\ making[k] = "insert" => counted'[k] = counted[k]

LEMMA QuietSteps ==
  ASSUME LimitsTypeOK, [LimitsNext]_limitVars,
         \A k \in Creators : ~Counts(k) /\ ~Inserts(k)
  PROVE  NoneStarts /\ NoneCounts
<1> USE DEF LimitsTypeOK, NoneStarts, NoneCounts
<1>1. ASSUME NEW k \in Creators, Asks(k) \/ TakesLock(k) \/ ReadsPlan(k)
      PROVE  NoneStarts /\ NoneCounts
  BY <1>1 DEF Asks, TakesLock, ReadsPlan, Step
<1>2. ASSUME NEW k \in Creators, Deletes(k)
      PROVE  NoneStarts /\ NoneCounts
  BY <1>2 DEF Deletes
<1>3. ASSUME NEW k \in Creators, NEW s \in Statuses, NEW dated \in BOOLEAN, Updates(k, s, dated)
      PROVE  NoneStarts /\ NoneCounts
  <2>1. ASSUME NEW j \in Creators, row'[j] = "running", j \notin resumed'
        PROVE  row[j] = "running" /\ j \notin resumed
    <3>1. CASE j # k
      BY <1>3, <2>1, <3>1 DEF Updates
    <3>2. CASE j = k
      <4>1. s = "running"
        BY <1>3, <2>1, <3>2 DEF Updates
      <4>2. row[k] = "running"
        BY <1>3, <2>1, <3>2, <4>1 DEF Updates
      <4> QED
        BY <1>3, <2>1, <3>2, <4>1, <4>2 DEF Updates
    <3> QED
      BY <3>1, <3>2
  <2> QED
    BY <1>3, <2>1 DEF Updates
<1>4. CASE CleansUp
  BY <1>4 DEF CleansUp
<1>5. CASE Day \/ PlanExpires \/ UNCHANGED limitVars \/ \E t \in Tiers : Subscribe(t)
  BY <1>5 DEF Day, PlanExpires, limitVars, Subscribe
<1> QED
  BY <1>1, <1>2, <1>3, <1>4, <1>5 DEF LimitsNext

LEMMA RunningStep ==
  ASSUME LimitsTypeOK, FiniteRunning, [LimitsNext]_limitVars
  PROVE  FiniteRunning'
<1>1. ASSUME NEW k, Running(Members)' \subseteq Running(Members) \cup {k}
      PROVE  FiniteRunning'
  <2>1. IsFiniteSet(Running(Members) \cup {k})
    BY FS_AddElement DEF FiniteRunning
  <2> QED
    BY <1>1, <2>1, FS_Subset DEF FiniteRunning
<1>2. ASSUME NEW k \in Creators, Inserts(k) \/ Deletes(k) \/ \E s \in Statuses, d \in BOOLEAN : Updates(k, s, d)
      PROVE  FiniteRunning'
  <2>1. \A j \in Creators : j # k => row'[j] = row[j]
    BY <1>2 DEF Inserts, Deletes, Updates, LimitsTypeOK
  <2>2. Running(Members)' \subseteq Running(Members) \cup {k}
    BY <2>1 DEF Running
  <2> QED
    BY <1>1, <2>2
<1>3. ASSUME \A k \in Creators : row'[k] = "running" => row[k] = "running"
      PROVE  FiniteRunning'
  <2>1. Running(Members)' \subseteq Running(Members) \cup {Starter}
    BY <1>3 DEF Running
  <2> QED
    BY <1>1, <2>1
<1>4. CASE CleansUp
  BY <1>3, <1>4 DEF CleansUp
<1>5. CASE UNCHANGED row
  BY <1>3, <1>5
<1> QED
  BY <1>2, <1>4, <1>5
  DEF LimitsNext, limitVars, Asks, ReadsPlan, TakesLock, Counts, Subscribe, PlanExpires, Day

LEMMA OneOfUserStep ==
  ASSUME LimitsTypeOK, OneOfUser, [LimitsNext]_limitVars
  PROVE  OneOfUser'
<1>1. CASE UNCHANGED making
  BY <1>1 DEF OneOfUser
<1>2. ASSUME NEW k \in Creators,
             Asks(k) \/ ReadsPlan(k) \/ Counts(k) \/ Inserts(k)
      PROVE  OneOfUser'
  <2>1. /\ \A j \in Creators : j # k => making'[j] = making[j]
        /\ making'[k] \in {"count", "insert"} => making[k] \in {"count", "insert"}
    BY <1>2 DEF Asks, ReadsPlan, Counts, Inserts, Step, LimitsTypeOK
  <2>2. \A j \in Creators : making'[j] \in {"count", "insert"} => making[j] \in {"count", "insert"}
    BY <2>1
  <2> QED
    BY <2>2 DEF OneOfUser
<1>3. ASSUME NEW k \in Creators, TakesLock(k)
      PROVE  OneOfUser'
  <2>1. \A j \in Creators : j # k => making'[j] = making[j]
    BY <1>3 DEF TakesLock, Step, LimitsTypeOK
  <2>2. \A j \in Creators : UserOf[j] = UserOf[k] => making[j] \notin {"count", "insert"}
    BY <1>3 DEF TakesLock, Free
  <2> QED
    BY <2>1, <2>2 DEF OneOfUser
<1> QED
  BY <1>1, <1>2, <1>3
  DEF LimitsNext, limitVars, Deletes, Updates, Subscribe, PlanExpires, CleansUp, Day

\* A step at which no session becomes active and no request counts.
LEMMA QuietKeeps ==
  ASSUME LimitsInv, LimitsTypeOK', FiniteRunning', OneOfUser', NoneStarts, NoneCounts
  PROVE  CountHolds' /\ RoomKept'
<1>1. ASSUME NEW S \in SUBSET Members
      PROVE  Cardinality(Active(S)') <= Cardinality(Active(S))
  <2>1. Active(S)' \in SUBSET Active(S)
    BY DEF Active, Running, NoneStarts
  <2> QED
    BY <2>1, ActiveFinite, FS_Subset DEF LimitsInv
<1>2. CountHolds'
  <2>1. ASSUME NEW k \in Creators, making'[k] = "insert"
        PROVE  Cardinality(Active({UserOf[k]})') <= counted'[k].user
    <3>1. making[k] = "insert" /\ counted'[k] = counted[k]
      BY <2>1 DEF NoneCounts
    <3>2. {UserOf[k]} \in SUBSET Members
      BY LimitsAssumption
    <3>3. Cardinality(Active({UserOf[k]})) \in Nat /\ Cardinality(Active({UserOf[k]})') \in Nat
      BY <3>2, ActiveFinite, ActiveFiniteAfter DEF LimitsInv
    <3>4. counted[k].user \in Nat /\ Cardinality(Active({UserOf[k]})) <= counted[k].user
      BY <3>1 DEF LimitsInv, LimitsTypeOK, CountHolds
    <3>5. Cardinality(Active({UserOf[k]})') <= Cardinality(Active({UserOf[k]}))
      BY <1>1, <3>2
    <3> QED
      BY <3>1, <3>3, <3>4, <3>5
  <2> QED
    BY <2>1 DEF CountHolds
<1>3. RoomKept'
  <2>1. ASSUME NEW t \in Tiers, Highest(t), Creators # {}
        PROVE  Cardinality(Active(Members)') + Cardinality(OpenFor(t)')
                 <= OrgCap(t) + Cardinality(Members) - 1
    <3>1. OpenFor(t)' = OpenFor(t)
      BY DEF OpenFor, NoneCounts, OrgCap
    <3>2. Cardinality(Active(Members)') <= Cardinality(Active(Members))
      BY <1>1
    <3>3. Cardinality(Active(Members)) \in Nat /\ Cardinality(Active(Members)') \in Nat
      BY ActiveFinite, ActiveFiniteAfter DEF LimitsInv
    <3>4. Cardinality(OpenFor(t)) \in Nat /\ OrgCap(t) \in Nat /\ Cardinality(Members) \in Nat
      BY OpenFinite, CapType, LimitsAssumption, FS_CardinalityType DEF LimitsInv
    <3>5. Cardinality(Active(Members)) + Cardinality(OpenFor(t)) <= OrgCap(t) + Cardinality(Members) - 1
      BY <2>1 DEF LimitsInv, RoomKept
    <3> QED
      BY <3>1, <3>2, <3>3, <3>4, <3>5
  <2> QED
    BY <2>1 DEF RoomKept, Highest, OrgCap
<1> QED
  BY <1>2, <1>3

LEMMA CountsKeeps ==
  ASSUME LimitsInv, LimitsTypeOK', FiniteRunning', OneOfUser', NEW k \in Creators, Counts(k)
  PROVE  CountHolds' /\ RoomKept'
<1>1. /\ LimitsTypeOK /\ FiniteRunning /\ OneOfUser /\ CountHolds /\ RoomKept
      /\ making[k] = "count" /\ UNCHANGED <<row, resumed>>
      /\ making' = [making EXCEPT ![k] = "insert"]
      /\ counted' = [counted EXCEPT ![k] = [user |-> Cardinality(Running({UserOf[k]})),
                                           org |-> Cardinality(Running(Members))]]
  BY DEF Counts, Step, LimitsInv
<1>2. /\ making'[k] = "insert" /\ counted'[k].user = Cardinality(Running({UserOf[k]}))
      /\ counted'[k].org = Cardinality(Running(Members))
      /\ \A j \in Creators : j # k => making'[j] = making[j] /\ counted'[j] = counted[j]
  BY <1>1 DEF LimitsTypeOK
<1>3. \A S : Active(S)' = Active(S)
  BY <1>1 DEF Active, Running
<1>4. {UserOf[k]} \in SUBSET Members
  BY LimitsAssumption
<1>5. CountHolds'
  <2>1. Cardinality(Active({UserOf[k]})) <= Cardinality(Running({UserOf[k]}))
    BY <1>1, <1>4, ActiveFinite
  <2>2. ASSUME NEW j \in Creators, making'[j] = "insert"
        PROVE  Cardinality(Active({UserOf[j]})') <= counted'[j].user
    <3>1. CASE j = k
      BY <1>2, <1>3, <2>1, <3>1
    <3>2. CASE j # k
      BY <1>1, <1>2, <1>3, <2>2, <3>2 DEF CountHolds
    <3> QED
      BY <3>1, <3>2
  <2> QED
    BY <2>2 DEF CountHolds
<1>6. ASSUME NEW t \in Tiers, Highest(t)
      PROVE  Cardinality(Active(Members)') + Cardinality(OpenFor(t)')
               <= OrgCap(t) + Cardinality(Members) - 1
  <2>1. /\ Cardinality(Active(Members)) \in Nat /\ Cardinality(Running(Members)) \in Nat
        /\ Cardinality(Active(Members)) <= Cardinality(Running(Members))
    BY <1>1, ActiveFinite
  <2>2. OrgCap(t) \in Nat /\ Cardinality(Members) \in Nat
    BY CapType, LimitsAssumption, FS_CardinalityType
  <2>3. Cardinality(OpenFor(t)') \in Nat /\ Cardinality(OpenFor(t)') <= Cardinality(Members)
    BY OpenFiniteAfter
  <2>4. CASE counted'[k].org < OrgCap(t)
    BY <1>2, <1>3, <2>1, <2>2, <2>3, <2>4
  <2>5. CASE ~(counted'[k].org < OrgCap(t))
    <3>1. OpenFor(t)' = OpenFor(t)
      BY <1>1, <1>2, <2>5 DEF OpenFor, OrgCap
    <3> QED
      BY <1>1, <1>3, <1>6, <3>1 DEF RoomKept
  <2> QED
    BY <2>4, <2>5
<1> QED
  BY <1>5, <1>6 DEF RoomKept, Highest, OrgCap

LEMMA InsertsKeeps ==
  ASSUME LimitsInv, LimitsTypeOK', FiniteRunning', OneOfUser', NEW k \in Creators, Inserts(k)
  PROVE  CountHolds' /\ RoomKept'
<1> DEFINE fits == counted[k].user < UserLimit[planOf[k]] /\ counted[k].org < OrgCap(planOf[k])
<1>1. /\ LimitsTypeOK /\ FiniteRunning /\ OneOfUser /\ CountHolds /\ RoomKept
      /\ making[k] = "insert" /\ UNCHANGED resumed
      /\ making' = [making EXCEPT ![k] = "idle"]
      /\ counted' = [counted EXCEPT ![k] = Nothing]
      /\ fits \/ UNCHANGED row
      /\ row' = [row EXCEPT ![k] = "running"] \/ UNCHANGED row
  BY DEF Inserts, Step, LimitsInv
<1>2. /\ making'[k] = "idle"
      /\ \A j \in Creators : j # k => /\ making'[j] = making[j] /\ counted'[j] = counted[j]
                                    /\ row'[j] = row[j]
  BY <1>1 DEF LimitsTypeOK
<1>3. CountHolds'
  <2>1. ASSUME NEW j \in Creators, making'[j] = "insert"
        PROVE  Cardinality(Active({UserOf[j]})') <= counted'[j].user
    <3>1. j # k /\ making[j] = "insert"
      BY <1>2, <2>1
    <3>2. UserOf[j] # UserOf[k]
      BY <1>1, <3>1 DEF OneOfUser
    <3>3. Active({UserOf[j]})' = Active({UserOf[j]})
      BY <1>1, <1>2, <3>2 DEF Active, Running
    <3> QED
      BY <1>1, <1>2, <3>1, <3>3 DEF CountHolds
  <2> QED
    BY <2>1 DEF CountHolds
<1>4. ASSUME NEW t \in Tiers, Highest(t)
      PROVE  Cardinality(Active(Members)') + Cardinality(OpenFor(t)')
               <= OrgCap(t) + Cardinality(Members) - 1
  <2>1. Cardinality(Active(Members)) + Cardinality(OpenFor(t)) <= OrgCap(t) + Cardinality(Members) - 1
    BY <1>1, <1>4 DEF RoomKept
  <2>2. /\ IsFiniteSet(Active(Members)) /\ Cardinality(Active(Members)) \in Nat
        /\ IsFiniteSet(OpenFor(t)) /\ Cardinality(OpenFor(t)) \in Nat
    BY <1>1, ActiveFinite, OpenFinite
  <2>3. OrgCap(t) \in Nat /\ Cardinality(Members) \in Nat
    BY CapType, LimitsAssumption, FS_CardinalityType
  <2>4. OpenFor(t)' = OpenFor(t) \ {k}
    BY <1>1, <1>2 DEF OpenFor, OrgCap
  <2>5. CASE UNCHANGED row
    <3>1. Active(Members)' = Active(Members)
      BY <1>1, <2>5 DEF Active, Running
    <3>2. Cardinality(OpenFor(t)') <= Cardinality(OpenFor(t)) /\ Cardinality(OpenFor(t)') \in Nat
      BY <2>2, <2>4, OpenFiniteAfter, FS_Subset
    <3> QED
      BY <2>1, <2>2, <2>3, <3>1, <3>2
  <2>6. CASE fits
    <3>1. counted[k].org < OrgCap(t)
      <4>1. planOf[k] \in Tiers /\ counted[k].org \in Nat
        BY <1>1 DEF LimitsTypeOK
      <4>2. OrgCap(planOf[k]) <= OrgCap(t) /\ OrgCap(planOf[k]) \in Nat
        BY <1>4, <4>1, CapType DEF Highest
      <4> HIDE DEF OrgCap
      <4> QED
        BY <2>3, <2>6, <4>1, <4>2
    <3>2. k \in OpenFor(t)
      BY <1>1, <3>1 DEF OpenFor
    <3>3. Cardinality(OpenFor(t)') = Cardinality(OpenFor(t)) - 1
      BY <2>2, <2>4, <3>2, FS_RemoveElement
    <3>4. Active(Members)' \in SUBSET (Active(Members) \cup {k})
      BY <1>1, <1>2 DEF Active, Running
    <3>5. /\ Cardinality(Active(Members)') <= Cardinality(Active(Members)) + 1
          /\ Cardinality(Active(Members)') \in Nat
      BY <2>2, <3>4, OneMore
    <3> QED
      BY <2>1, <2>2, <2>3, <3>3, <3>5
  <2> QED
    BY <1>1, <2>5, <2>6
<1> QED
  BY <1>3, <1>4 DEF RoomKept, Highest, OrgCap

LEMMA LimitsInductive == LimitsSpec => []LimitsInv
<1>1. LimitsInit => LimitsInv
  <2> SUFFICES ASSUME LimitsInit
               PROVE  LimitsInv
    OBVIOUS
  <2>1. LimitsTypeOK
    BY LimitsAssumption DEF LimitsInit, LimitsTypeOK, Statuses, NoDate, NoTier, Nothing
  <2>2. Running(Members) = {} /\ Active(Members) = {} /\ \A t \in Tiers : OpenFor(t) = {}
    BY DEF LimitsInit, Running, Active, OpenFor
  <2>3. FiniteRunning
    BY <2>2, FS_EmptySet DEF FiniteRunning
  <2>4. OneOfUser /\ CountHolds
    BY DEF LimitsInit, OneOfUser, CountHolds
  <2>5. ASSUME NEW t \in Tiers, Creators # {}
        PROVE  Cardinality(Active(Members)) + Cardinality(OpenFor(t)) <= OrgCap(t) + Cardinality(Members) - 1
    <3>1. Members # {} /\ IsFiniteSet(Members)
      BY <2>5, LimitsAssumption
    <3>2. Cardinality(Members) \in Nat \ {0}
      BY <3>1, FS_CardinalityType, FS_EmptySet
    <3>3. OrgCap(t) \in Nat
      BY CapType
    <3> QED
      BY <2>2, <3>2, <3>3, FS_EmptySet
  <2> QED
    BY <2>1, <2>3, <2>4, <2>5 DEF LimitsInv, RoomKept
<1>2. LimitsInv /\ [LimitsNext]_limitVars => LimitsInv'
  <2> SUFFICES ASSUME LimitsInv, [LimitsNext]_limitVars
               PROVE  LimitsInv'
    OBVIOUS
  <2>1. LimitsTypeOK' /\ FiniteRunning' /\ OneOfUser'
    BY LimitsTypeStep, RunningStep, OneOfUserStep DEF LimitsInv
  <2>2. CASE \A k \in Creators : ~Counts(k) /\ ~Inserts(k)
    BY <2>1, <2>2, QuietSteps, QuietKeeps DEF LimitsInv
  <2>3. ASSUME NEW k \in Creators, Counts(k) \/ Inserts(k)
        PROVE  LimitsInv'
    BY <2>1, <2>3, CountsKeeps, InsertsKeeps DEF LimitsInv
  <2> QED
    BY <2>2, <2>3
<1> QED
  BY <1>1, <1>2, PTL DEF LimitsSpec

\* Every variable of the session limits always has its type.
THEOREM LimitsTypeCorrect == LimitsSpec => []LimitsTypeOK
<1>1. LimitsInv => LimitsTypeOK
  BY DEF LimitsInv
<1> QED
  BY <1>1, LimitsInductive, PTL

\* A session that is created is within the limit of its user, and in excess of the
\* organisation's by the requests made at the same time at most.
THEOREM WithinLimits == LimitsSpec => LimitsKept
<1> DEFINE Within == \A k \in Creators : row[k] = "none" /\ row'[k] = "running" =>
             /\ Cardinality(Running({UserOf[k]})' \ resumed) <= UserLimit[planOf[k]]
             /\ \E t \in Tiers :
                  Cardinality(Running(Members)' \ resumed) <= OrgCap(t) + Cardinality(Members) - 1
<1>1. LimitsInv /\ LimitsInv' /\ [LimitsNext]_limitVars => Within
  <2> SUFFICES ASSUME LimitsInv, LimitsInv', [LimitsNext]_limitVars,
                      NEW k \in Creators, row[k] = "none", row'[k] = "running"
               PROVE  /\ Cardinality(Running({UserOf[k]})' \ resumed) <= UserLimit[planOf[k]]
                      /\ \E t \in Tiers :
                           Cardinality(Running(Members)' \ resumed) <= OrgCap(t) + Cardinality(Members) - 1
    OBVIOUS
  <2>1. Inserts(k)
    <3>1. \A j \in Creators : j # k => ~Inserts(j)
      BY DEF Inserts, LimitsInv, LimitsTypeOK
    <3> QED
      BY <3>1 DEF LimitsInv, LimitsTypeOK, Statuses, Ended, LimitsNext, limitVars, Asks, ReadsPlan,
                  TakesLock, Counts, Deletes, Updates, Subscribe, PlanExpires, CleansUp, Day
  <2>2. /\ making[k] = "insert" /\ UNCHANGED resumed
        /\ counted[k].user < UserLimit[planOf[k]]
        /\ row' = [row EXCEPT ![k] = "running"]
    BY <2>1 DEF Inserts
  <2> DEFINE u == {UserOf[k]}
  <2>3. u \in SUBSET Members
    BY LimitsAssumption
  <2>4. IsFiniteSet(Active(u)) /\ Cardinality(Active(u)) \in Nat
    BY <2>3, ActiveFinite DEF LimitsInv
  <2>5. Running(u)' \ resumed \in SUBSET (Active(u) \cup {k})
    BY <2>2 DEF Running, Active, LimitsInv, LimitsTypeOK
  <2>6. /\ Cardinality(Running(u)' \ resumed) <= Cardinality(Active(u)) + 1
        /\ Cardinality(Running(u)' \ resumed) \in Nat
    BY <2>4, <2>5, OneMore
  <2>8. /\ counted[k].user \in Nat /\ UserLimit[planOf[k]] \in Nat
        /\ Cardinality(Active(u)) <= counted[k].user
    BY <2>2, LimitsAssumption DEF LimitsInv, LimitsTypeOK, CountHolds
  <2>9. Cardinality(Running(u)' \ resumed) <= UserLimit[planOf[k]]
    <3> HIDE DEF u
    <3> QED
      BY <2>2, <2>4, <2>6, <2>8
  <2>10. PICK t \in Tiers : Highest(t)
    BY SomeHighest
  <2>11. Cardinality(Active(Members)') + Cardinality(OpenFor(t)') <= OrgCap(t) + Cardinality(Members) - 1
    BY <2>10 DEF LimitsInv, RoomKept, Highest, OrgCap
  <2>12. /\ Cardinality(Active(Members)') \in Nat /\ Cardinality(OpenFor(t)') \in Nat
         /\ OrgCap(t) \in Nat /\ Cardinality(Members) \in Nat
    BY ActiveFiniteAfter, OpenFiniteAfter, CapType, LimitsAssumption, FS_CardinalityType DEF LimitsInv
  <2>13. Active(Members)' = Running(Members)' \ resumed
    BY <2>2 DEF Active
  <2>14. Cardinality(Running(Members)' \ resumed) <= OrgCap(t) + Cardinality(Members) - 1
    BY <2>11, <2>12, <2>13
  <2> QED
    BY <2>9, <2>10, <2>14
<1>2. LimitsInv /\ LimitsInv' /\ [LimitsNext]_limitVars => [Within]_limitVars
  BY <1>1
<1> QED
  BY <1>2, LimitsInductive, PTL DEF LimitsSpec, LimitsKept

(***************************************************************************)
(* The clean-up of sessions.                                               *)
(***************************************************************************)

\* What a run of the job may delete.
ReapsInTime ==
  CleansUp => \A k \in Creators : row[k] # "gone" /\ row'[k] = "gone" =>
    /\ row[k] \in Ended
    /\ age[k] > Retention[tier] \/ planCache' # tier

\* The job takes ended sessions only, and those after the retention of the plan.
THEOREM KeptLongEnough == LimitsSpec => KeptForRetention
<1>1. LimitsInv => ReapsInTime
  <2> SUFFICES ASSUME LimitsInv, CleansUp,
                      NEW k \in Creators, row[k] # "gone", row'[k] = "gone"
               PROVE  row[k] \in Ended /\ (age[k] > Retention[tier] \/ planCache' # tier)
    BY DEF ReapsInTime
  <2>1. PICK t \in Tiers :
          Plan(t) /\ row' = [j \in Creators |-> IF j \in Expired(Retention[t]) THEN "gone" ELSE row[j]]
    BY DEF CleansUp
  <2>2. row[k] \in Ended /\ age[k] > Retention[t]
    BY <2>1 DEF Expired
  <2>3. t = tier \/ planCache' # tier
    BY <2>1, LimitsAssumption DEF Plan, NoTier, LimitsInv, LimitsTypeOK
  <2> QED
    BY <2>2, <2>3
<1>2. LimitsSpec => [][ReapsInTime]_limitVars
  BY <1>1, LimitsInductive, PTL DEF LimitsSpec
<1> QED
  BY <1>2 DEF KeptForRetention, ReapsInTime

(***************************************************************************)
(* The keys of a user.                                                     *)
(***************************************************************************)

\* No password is used before it is thought of.
Bounded ==
  /\ lock <= newest /\ account <= newest
  /\ \A t \in Tabs : tab[t].from <= newest /\ tab[t].to <= newest

\* A tab that works with a master key has one; it asks for a password only when it is in,
\* and its page is left behind only with a call to wait for.
Seated ==
  /\ \A t \in asks : tab[t].doing = "in"
  /\ \A t \in gone : tab[t].doing \in Changing
  /\ \A t \in Tabs :
       /\ tab[t].doing \notin {"out", "gate", "in"} => tab[t].to # NoPassword
       /\ tab[t].doing \notin {"out", "gate", "entering", "checked", "made"} =>
            t \in gone \/ master[t] # NoPassword

\* One tab at a time changes the password, or makes the first keys.
OneAtIt == \A t, u \in Tabs : tab[t].doing \in Changing /\ tab[u].doing \in Changing => t = u

\* What tab t has seen stored still is, and what it has written is there.
Phase(t) ==
  /\ tab[t].doing \in {"fetched", "verified", "stored", "revert", "reverify"} =>
       tab[t].from <= tab[t].to /\ tab[t].from # NoPassword
  /\ tab[t].doing \in {"fetched", "verified"} => lock = tab[t].from
  /\ tab[t].doing \in {"verified", "stored", "reverify"} => account = tab[t].from
  /\ tab[t].doing = "revert" => account \in {tab[t].from, tab[t].to}
  /\ tab[t].doing \in {"stored", "revert", "reverify", "made"} => lock = tab[t].to
  /\ tab[t].doing \in {"checked", "made"} => account = NoPassword
  /\ tab[t].doing = "checked" => lock = NoPassword
  /\ tab[t].doing = "made" => pair = t

\* The keys are never behind the password.
NotBehind == account # NoPassword => lock >= account

\* Without a key pair there is no private key.
Paired == pair = NoPair => lock = NoPassword

Phases == NotBehind /\ Paired /\ \A t \in Tabs : Phase(t)

\* Tab t has written the keys, and still has the master key before.
Old(t) == tab[t].doing \in {"stored", "revert", "reverify"}

\* The keys open with the password, but for a tab that is at it.
AccountSettled == account # NoPassword => lock = account \/ \E t \in Tabs : Old(t)

\* So for the personal organisation.
OrgSettled == orgPair = pair \/ \E t \in Tabs : tab[t].doing = "made"

\* A master key that was not overtaken opens the keys.
MastersCurrent ==
  \A t \in Tabs \ behind : master[t] \in {NoPassword, IF Old(t) THEN tab[t].from ELSE lock}

Settled == AccountSettled /\ OrgSettled /\ MastersCurrent

KeysInv == KeysTypeOK /\ Bounded /\ Seated /\ (~overlapped => OneAtIt /\ Phases /\ (~lost => Settled))

(***************************************************************************)
(* What the steps do to one tab.                                           *)
(***************************************************************************)

TabRecords == [doing : Doing, from : Passwords, to : Passwords]

\* Tab t goes on to s, with the passwords f and g; the others stay.
Moved(t, s, f, g) ==
  /\ tab' \in [Tabs -> TabRecords]
  /\ \A u \in Tabs : u # t => tab'[u] = tab[u]
  /\ tab'[t].doing = s /\ tab'[t].from = f /\ tab'[t].to = g

\* Tab t holds master key p; the others keep theirs.
Holds(t, p) ==
  /\ master' \in [Tabs -> Passwords]
  /\ \A u \in Tabs : master'[u] = IF u = t THEN p ELSE master[u]

LEMMA Moves ==
  ASSUME KeysTypeOK, NEW t \in Tabs, NEW s \in Doing, NEW f \in Passwords, NEW g \in Passwords,
         tab' = [tab EXCEPT ![t] = [doing |-> s, from |-> f, to |-> g]]
  PROVE  Moved(t, s, f, g)
BY DEF KeysTypeOK, Moved, TabRecords

LEMMA TabRests ==
  ASSUME KeysTypeOK, NEW t \in Tabs, Rests(t)
  PROVE  /\ gone' = gone \ {t}
         /\ t \notin gone => Moved(t, "in", NoPassword, NoPassword)
         /\ t \in gone => Moved(t, "out", NoPassword, NoPassword)
BY Moves DEF Rests, Inside, Outside, Doing, Passwords

LEMMA TabGoes ==
  ASSUME KeysTypeOK, NEW t \in Tabs, NEW s \in Doing, Goes(t, s)
  PROVE  Moved(t, s, tab[t].from, tab[t].to) /\ gone' = gone
<1>1. [tab[t] EXCEPT !.doing = s] \in TabRecords
  BY DEF KeysTypeOK, TabRecords
<1>2. tab' = [tab EXCEPT ![t] = [tab[t] EXCEPT !.doing = s]]
  BY DEF Goes, KeysTypeOK
<1>3. gone' = gone
  BY DEF Goes
<1> QED
  BY <1>1, <1>2, <1>3 DEF KeysTypeOK, TabRecords, Moved

LEMMA KeyKept ==
  ASSUME KeysTypeOK, NEW t \in Tabs, NEW p \in Passwords, NEW fresher, KeepsKey(t, p, fresher)
  PROVE  /\ Moved(t, "in", NoPassword, NoPassword) /\ Holds(t, p)
         /\ t \notin gone /\ gone' = gone
<1>1. Moved(t, "in", NoPassword, NoPassword) /\ t \notin gone /\ gone' = gone
  BY TabRests DEF KeepsKey
<1>2. Holds(t, p)
  BY DEF KeepsKey, Holds, KeysTypeOK
<1> QED
  BY <1>1, <1>2

(***************************************************************************)
(* Steps after which the tab changes nothing: it comes, goes, or gives up. *)
(***************************************************************************)

\* What is kept about the other tabs.
OthersKept(t) ==
  \A u \in Tabs \ {t} :
    master'[u] = master[u] /\ (u \in behind' <=> u \in behind) /\ (u \in asks' <=> u \in asks)

LEMMA Ends ==
  ASSUME KeysInv, NEW t \in Tabs, NEW s \in Doing \ Changing,
         NEW f \in Passwords, NEW g \in Passwords, f <= newest, g <= newest,
         Moved(t, s, f, g), gone' = gone \ {t}, OthersKept(t),
         UNCHANGED <<stored, newest, overlapped>>,
         lost' \in BOOLEAN, lost => lost',
         master' \in [Tabs -> Passwords], behind' \subseteq Tabs, asks' \subseteq Tabs,
         s = "in" => master'[t] # NoPassword,
         s = "entering" => g # NoPassword,
         t \in asks' => s = "in",
         ~overlapped /\ ~lost' =>
           /\ tab[t].doing # "made"
           /\ Old(t) => account = lock
           /\ t \in behind' \/ master'[t] \in {NoPassword, lock}
  PROVE  KeysInv'
<1>1. KeysTypeOK /\ Bounded /\ Seated
  BY DEF KeysInv
<1>2. /\ UNCHANGED <<account, lock, pair, orgPair, newest, overlapped>>
      /\ tab' \in [Tabs -> TabRecords] /\ \A u \in Tabs : u # t => tab'[u] = tab[u]
      /\ tab'[t].doing = s /\ tab'[t].from = f /\ tab'[t].to = g
      /\ s \in {"out", "gate", "entering", "in"} /\ gone' = gone \ {t}
  BY DEF stored, Moved, Changing, Doing
<1>3. KeysTypeOK'
  BY <1>1, <1>2, Zenon DEF KeysTypeOK, TabRecords
<1>4. Bounded'
  BY <1>1, <1>2 DEF Bounded
<1>5. Seated'
  BY <1>1, <1>2 DEF Seated, OthersKept, KeysTypeOK
<1>6. ASSUME ~overlapped PROVE OneAtIt' /\ Phases'
  <2>1. OneAtIt /\ Phases
    BY <1>6 DEF KeysInv
  <2>2. OneAtIt'
    BY <1>2, <2>1 DEF OneAtIt, Changing
  <2>3. Phases'
    BY <1>2, <2>1 DEF Phases, Phase, NotBehind, Paired
  <2> QED
    BY <2>2, <2>3
<1>7. ASSUME ~overlapped, ~lost' PROVE Settled'
  <2>1. OneAtIt /\ Phases /\ Settled
    BY <1>7 DEF KeysInv
  <2>2. \A u \in Tabs \ {t} : Old(u)' <=> Old(u)
    BY <1>2 DEF Old
  <2>3. ~Old(t)'
    BY <1>2 DEF Old
  <2>4. AccountSettled'
    BY <1>2, <1>7, <2>1, <2>2 DEF Settled, AccountSettled
  <2>5. OrgSettled'
    BY <1>2, <1>7, <2>1 DEF Settled, OrgSettled
  <2>6. MastersCurrent'
    BY <1>2, <1>7, <2>1, <2>2, <2>3 DEF Settled, MastersCurrent, OthersKept, Old
  <2> QED
    BY <2>4, <2>5, <2>6 DEF Settled
<1> QED
  BY <1>2, <1>3, <1>4, <1>5, <1>6, <1>7 DEF KeysInv

LEMMA TabKnown ==
  ASSUME KeysInv, NEW t \in Tabs
  PROVE  /\ KeysTypeOK /\ Bounded /\ Seated
         /\ tab[t].doing \in Doing /\ tab[t].from \in Passwords /\ tab[t].to \in Passwords
         /\ tab[t].from <= newest /\ tab[t].to <= newest
         /\ lock \in Passwords /\ account \in Passwords /\ NoPassword \in Passwords
         /\ newest \in Int /\ NoPassword <= newest /\ MaxPassword \in Nat
         /\ master[t] \in Passwords /\ lost \in BOOLEAN
         /\ master \in [Tabs -> Passwords] /\ behind \subseteq Tabs /\ asks \subseteq Tabs
         /\ t \in asks => tab[t].doing = "in"
         /\ gone \subseteq Tabs /\ (tab[t].doing \notin Changing => t \notin gone)
         /\ ~overlapped => OneAtIt /\ Phases
         /\ ~overlapped /\ ~lost => Settled
BY KeysAssumption DEF KeysInv, KeysTypeOK, Bounded, Seated, Passwords, NoPassword

\* Coming in: from the login form, past the gate, or by its password.
LEMMA ComingSafe ==
  ASSUME KeysInv, NEW t \in Tabs, LogsIn(t) \/ Comes(t) \/ OpensKeys(t) \/ Unlocks(t)
  PROVE  KeysInv'
<1>1. /\ KeysTypeOK /\ Bounded /\ Seated
      /\ tab[t].from \in Passwords /\ tab[t].to \in Passwords
      /\ tab[t].from <= newest /\ tab[t].to <= newest
      /\ lock \in Passwords /\ account \in Passwords /\ NoPassword \in Passwords
      /\ lock <= newest /\ account <= newest /\ NoPassword <= newest
      /\ master \in [Tabs -> Passwords] /\ behind \subseteq Tabs /\ asks \subseteq Tabs
      /\ lost \in BOOLEAN
      /\ t \in asks => tab[t].doing = "in"
      /\ tab[t].doing \notin Changing => t \notin gone
      /\ ~overlapped /\ ~lost => MastersCurrent
  BY TabKnown DEF Bounded, Settled
<1>2. /\ {"out", "gate", "entering", "in"} \subseteq Doing \ Changing
      /\ Outside.doing = "out"
  BY DEF Doing, Changing, Outside
<1>3. CASE LogsIn(t)
  <2>1. Moved(t, "entering", lock, account) /\ account # NoPassword
    BY <1>1, <1>2, <1>3, Moves DEF LogsIn
  <2>2. /\ tab[t].doing = "out" /\ UNCHANGED <<stored, gone, master, asks, behind, newest, lost, overlapped>>
    BY <1>2, <1>3 DEF LogsIn, keyHistory
  <2> QED
    BY <1>1, <1>2, <2>1, <2>2, Ends DEF OthersKept, Old, MastersCurrent
<1>4. CASE Comes(t)
  <2>1. /\ tab[t].doing = "out" /\ UNCHANGED <<stored, gone, master, asks, behind, newest, lost, overlapped>>
    BY <1>2, <1>4 DEF Comes, keyHistory
  <2>2. CASE master[t] # NoPassword
    <3>1. Moved(t, "in", NoPassword, NoPassword)
      BY <1>1, <1>2, <1>4, <2>2, Moves DEF Comes, Inside
    <3> QED
      BY <1>1, <1>2, <2>1, <2>2, <3>1, Ends DEF OthersKept, Old, MastersCurrent
  <2>3. CASE master[t] = NoPassword
    <3>1. Moved(t, "gate", lock, NoPassword)
      BY <1>1, <1>2, <1>4, <2>3, Moves DEF Comes
    <3> QED
      BY <1>1, <1>2, <2>1, <3>1, Ends DEF OthersKept, Old, MastersCurrent
  <2> QED
    BY <2>2, <2>3
<1>5. ASSUME NEW p \in Passwords, p # NoPassword, KeepsKey(t, p, lock = p),
             tab[t].doing \in {"gate", "entering"},
             UNCHANGED <<stored, asks, newest, lost, overlapped>>
      PROVE  KeysInv'
  <2>1. /\ Moved(t, "in", NoPassword, NoPassword) /\ Holds(t, p)
        /\ t \notin gone /\ gone' = gone
    BY <1>1, <1>5, KeyKept
  <2>2. behind' = IF lock = p THEN behind \ {t} ELSE behind \cup {t}
    BY <1>5 DEF KeepsKey
  <2>3. t \notin asks'
    BY <1>1, <1>5
  <2> QED
    BY <1>1, <1>2, <1>5, <2>1, <2>2, <2>3, Ends DEF OthersKept, Old, Holds
<1>6. CASE OpensKeys(t)
  <2>1. CASE tab[t].to = tab[t].from
    BY <1>1, <1>5, <1>6, <2>1 DEF OpensKeys, OpensWith, Seated
  <2>2. CASE tab[t].to # tab[t].from
    <3>1. /\ tab' = [tab EXCEPT ![t] = Outside] /\ tab[t].doing = "entering"
          /\ UNCHANGED <<stored, gone, master, asks, behind, newest, lost, overlapped>>
      BY <1>6, <2>2 DEF OpensKeys, OpensWith
    <3>2. Moved(t, "out", NoPassword, NoPassword)
      BY <1>1, <1>2, <3>1, Moves DEF Outside
    <3> QED
      BY <1>1, <1>2, <3>1, <3>2, Ends DEF OthersKept, Old, MastersCurrent
  <2> QED
    BY <2>1, <2>2
<1>7. CASE Unlocks(t)
  BY <1>1, <1>5, <1>7 DEF Unlocks
<1> QED
  BY <1>3, <1>4, <1>6, <1>7

\* A tab that stays, goes, or asks for the password.
LEMMA StayingSafe ==
  ASSUME KeysInv, NEW t \in Tabs, Leaves(t) \/ Opens(t) \/ Answers(t)
  PROVE  KeysInv'
<1>1. /\ KeysTypeOK /\ Bounded /\ Seated
      /\ tab[t].from \in Passwords /\ tab[t].to \in Passwords
      /\ tab[t].from <= newest /\ tab[t].to <= newest
      /\ lock \in Passwords /\ NoPassword \in Passwords /\ NoPassword <= newest
      /\ newest \in Int /\ newest <= MaxPassword
      /\ master \in [Tabs -> Passwords] /\ behind \subseteq Tabs /\ asks \subseteq Tabs
      /\ lost \in BOOLEAN /\ gone \subseteq Tabs
      /\ tab[t].doing \notin Changing => t \notin gone
      /\ ~overlapped /\ ~lost => MastersCurrent 
  BY TabKnown DEF Settled, KeysTypeOK, Passwords, NoPassword
<1>2. /\ {"out", "in"} \subseteq Doing \ Changing
      /\ \A s \in {"stored", "revert", "reverify", "made"} : s \in Changing \ {"fetched"}
  BY DEF Doing, Changing
<1>3. CASE Leaves(t)
  <2>1. /\ t \notin gone /\ asks' = asks \ {t} /\ UNCHANGED <<stored, newest, overlapped>>
        /\ \/ UNCHANGED <<master, behind>>
           \/ master' = [master EXCEPT ![t] = NoPassword] /\ behind' = behind \ {t}
    BY <1>3 DEF Leaves
  <2>2. /\ master' \in [Tabs -> Passwords] /\ behind' \subseteq Tabs /\ asks' \subseteq Tabs
        /\ OthersKept(t) /\ t \notin asks'
    BY <1>1, <2>1 DEF OthersKept
  \* what the page waited for is over
  <2>3. CASE /\ tab' = [tab EXCEPT ![t] = Outside] /\ UNCHANGED gone
             /\ lost' = (lost \/ tab[t].doing \in Changing \ {"fetched"})
    <3>1. Moved(t, "out", NoPassword, NoPassword) /\ gone' = gone \ {t}
      BY <1>1, <1>2, <2>1, <2>3, Moves DEF Outside
    <3>2. lost' \in BOOLEAN
      BY <2>3, Zenon
    <3>3. /\ lost => lost'
          /\ ~lost' => ~lost /\ tab[t].doing \notin {"stored", "revert", "reverify", "made"}
      BY <1>2, <2>3, Zenon
    <3>4. ~overlapped /\ ~lost' => ~Old(t) /\ (t \in behind' \/ master'[t] \in {NoPassword, lock})
      BY <1>1, <2>1, <3>3 DEF Old, MastersCurrent
    <3>5. UNCHANGED <<stored, newest, overlapped>>
      BY <2>1
    <3> HIDE <2>1, <2>3
    <3> QED
      BY <1>1, <1>2, <2>2, <3>1, <3>2, <3>3, <3>4, <3>5, Ends
  \* or goes on
  <2>4. CASE /\ tab[t].doing \in Changing /\ gone' = gone \cup {t} /\ UNCHANGED tab
             /\ lost' = TRUE
    <3>1. lost' \in BOOLEAN /\ lost'
      BY <2>4, Zenon
    <3>2. UNCHANGED <<account, lock, pair, orgPair, tab, newest, overlapped>>
      BY <2>1, <2>4 DEF stored
    <3>3. KeysTypeOK'
      BY <1>1, <2>2, <2>4, <3>1, <3>2 DEF KeysTypeOK
    <3>4. Bounded'
      BY <1>1, <3>2 DEF Bounded
    <3>5. Seated'
      BY <1>1, <2>1, <2>2, <2>4, <3>2 DEF Seated
    <3>6. ~overlapped' => OneAtIt' /\ Phases'
      <4>1. ~overlapped => OneAtIt /\ Phases
        BY DEF KeysInv
      <4> QED
        BY <3>2, <4>1 DEF OneAtIt, Phases, Phase, NotBehind, Paired
    <3> QED
      BY <3>1, <3>3, <3>4, <3>5, <3>6, Zenon DEF KeysInv
  <2> QED
    BY <1>3, <2>3, <2>4 DEF Leaves
<1>4. CASE Opens(t)
  <2>1. /\ tab[t].doing = "in" /\ UNCHANGED <<stored, tab, gone, master, behind, newest, lost, overlapped>>
        /\ asks' = asks \ {t} \/ asks' = asks \cup {t}
    BY <1>4 DEF Opens, Tries, keyHistory
  <2>2. Moved(t, "in", tab[t].from, tab[t].to)
    BY <1>1, <2>1 DEF Moved, KeysTypeOK, TabRecords
  <2>3. master[t] # NoPassword /\ t \notin gone
    BY <1>1, <1>2, <2>1 DEF Seated
  <2> QED
    BY <1>1, <1>2, <2>1, <2>2, <2>3, Ends DEF OthersKept, Old, MastersCurrent
<1>5. CASE Answers(t)
  <2>1. PICK p \in 0..newest :
          /\ KeepsKey(t, p, p = lock)
          /\ asks' = asks \ {t} \/ asks' = asks \cup {t}
    BY <1>5 DEF Answers, Tries
  <2>2. tab[t].doing = "in" /\ UNCHANGED <<stored, newest, lost, overlapped>>
    BY <1>5 DEF Answers
  <2>3. p \in Passwords /\ p # NoPassword
    BY <1>1, <2>1, KeysAssumption DEF Passwords, NoPassword
  <2>4. /\ Moved(t, "in", NoPassword, NoPassword) /\ Holds(t, p)
        /\ t \notin gone /\ gone' = gone
    BY <1>1, <2>1, <2>3, KeyKept
  <2>5. behind' = IF p = lock THEN behind \ {t} ELSE behind \cup {t}
    BY <2>1 DEF KeepsKey
  <2>6. /\ OthersKept(t) /\ behind' \subseteq Tabs /\ asks' \subseteq Tabs
        /\ master' \in [Tabs -> Passwords] /\ master'[t] # NoPassword
        /\ ~Old(t) /\ tab[t].doing # "made"
    BY <1>1, <2>1, <2>2, <2>3, <2>4, <2>5 DEF OthersKept, Holds, Old
  <2>7. t \in behind' \/ master'[t] = lock
    BY <1>1, <2>1, <2>4, <2>5 DEF Holds
  <2> QED
    BY <1>1, <1>2, <2>2, <2>4, <2>6, <2>7, Ends
<1> QED
  BY <1>3, <1>4, <1>5

(***************************************************************************)
(* Steps of a change of the password.                                      *)
(***************************************************************************)

\* A tab that begins, or goes on: nothing that is stored changes.
LEMMA GoesOn ==
  ASSUME KeysInv, NEW t \in Tabs, NEW s \in Changing \ {"made", "stored", "revert"},
         NEW f \in Passwords, NEW g \in Passwords,
         Moved(t, s, f, g), UNCHANGED <<stored, gone, master, asks, behind, lost>>,
         newest' \in 0..MaxPassword, newest <= newest', f <= newest', g <= newest',
         overlapped' \in BOOLEAN, overlapped => overlapped',
         g # NoPassword, s # "checked" => t \in gone \/ master[t] # NoPassword, t \notin asks,
         ~overlapped' =>
           /\ \A u \in Tabs \ {t} : tab[u].doing \notin Changing
           /\ s # "checked" => f <= g /\ f # NoPassword
           /\ s \in {"fetched", "verified"} => lock = f
           /\ s \in {"verified", "reverify"} => account = f
           /\ s = "reverify" => lock = g /\ Old(t) /\ f = tab[t].from
           /\ s = "checked" => account = NoPassword /\ lock = NoPassword
           /\ s # "reverify" => tab[t].doing \notin {"made", "stored", "revert", "reverify"}
  PROVE  KeysInv'
<1>1. KeysTypeOK /\ Bounded /\ Seated
  BY DEF KeysInv
<1>2. /\ UNCHANGED <<account, lock, pair, orgPair, gone, master, asks, behind, lost>>
      /\ tab' \in [Tabs -> TabRecords] /\ \A u \in Tabs : u # t => tab'[u] = tab[u]
      /\ tab'[t].doing = s /\ tab'[t].from = f /\ tab'[t].to = g
      /\ s \in {"fetched", "verified", "reverify", "checked"}
  BY DEF stored, Moved, Changing, Doing
<1>3. KeysTypeOK'
  BY <1>1, <1>2, Zenon DEF KeysTypeOK, TabRecords
<1>4. Bounded'
  <2>1. /\ \A u \in Tabs : tab[u].from \in Int /\ tab[u].to \in Int
        /\ lock \in Int /\ account \in Int /\ newest \in Int /\ newest' \in Int
    BY <1>1, KeysAssumption DEF KeysTypeOK, Passwords, NoPassword
  <2> QED
    BY <1>1, <1>2, <2>1 DEF Bounded
<1>5. Seated'
  BY <1>1, <1>2 DEF Seated, KeysTypeOK
<1>6. ASSUME ~overlapped' PROVE OneAtIt' /\ Phases'
  <2>1. OneAtIt /\ Phases
    BY <1>6 DEF KeysInv
  <2>2. OneAtIt'
    BY <1>2, <1>6 DEF OneAtIt, Changing
  <2>3. Phases'
    BY <1>2, <1>6, <2>1 DEF Phases, Phase, NotBehind, Paired
  <2> QED
    BY <2>2, <2>3
<1>7. ASSUME ~overlapped', ~lost' PROVE Settled'
  <2>1. Settled
    BY <1>2, <1>7 DEF KeysInv
  <2>2. \A u \in Tabs : Old(u)' <=> Old(u)
    BY <1>2, <1>7 DEF Old
  <2>3. AccountSettled'
    BY <1>2, <2>1, <2>2 DEF Settled, AccountSettled
  <2>4. OrgSettled'
    BY <1>2, <1>7, <2>1 DEF Settled, OrgSettled, Old
  <2>5. MastersCurrent'
    BY <1>2, <1>7, <2>1, <2>2 DEF Settled, MastersCurrent, Old
  <2> QED
    BY <1>2, <2>1, <2>3, <2>4, <2>5 DEF Settled
<1> QED
  BY <1>3, <1>4, <1>5, <1>6, <1>7 DEF KeysInv

\* A change begins, or the first keys are asked for: the only tab that is at it.
LEMMA BeginningSafe ==
  ASSUME KeysInv, NEW t \in Tabs, Fetches(t) \/ ChecksNoKeys(t)
  PROVE  KeysInv'
<1>1. /\ KeysTypeOK /\ Bounded /\ Seated
      /\ lock \in Passwords /\ account \in Passwords /\ NoPassword \in Passwords
      /\ newest \in 0..MaxPassword /\ MaxPassword \in Nat
      /\ lock <= newest /\ account <= newest
      /\ ~overlapped => Phases /\ OneAtIt
  BY TabKnown DEF Bounded, KeysTypeOK
<1>2. {"fetched", "checked"} \subseteq Doing /\ {"fetched", "checked"} \subseteq Changing
  BY DEF Doing, Changing
<1>3. newest < MaxPassword => newest + 1 \in 0..MaxPassword
  BY <1>1
<1>4. ASSUME overlapped' = (overlapped \/ ~Quiet)
      PROVE  /\ overlapped' \in BOOLEAN /\ (overlapped => overlapped')
             /\ ~overlapped' => ~overlapped /\ \A u \in Tabs : tab[u].doing \notin Changing
  <2>1. overlapped' \in BOOLEAN /\ (overlapped => overlapped') /\ (~overlapped' => ~overlapped /\ Quiet)
    BY <1>4, Zenon
  <2> QED
    BY <2>1 DEF Quiet
<1>5. CASE Fetches(t)
  <2>1. PICK n \in 0..MaxPassword :
          /\ n = newest + 1 /\ newest' = n
          /\ tab' = [tab EXCEPT ![t] = [doing |-> "fetched", from |-> lock, to |-> n]]
    BY <1>3, <1>5 DEF Fetches
  <2>2. /\ tab[t].doing = "in" /\ t \notin asks /\ lock # NoPassword
        /\ overlapped' = (overlapped \/ ~Quiet)
        /\ UNCHANGED <<stored, gone, master, asks, behind, lost>>
    BY <1>5 DEF Fetches
  <2>3. n \in Passwords /\ n # NoPassword /\ newest <= n /\ lock <= n
    BY <1>1, <2>1 DEF Passwords, NoPassword
  <2>4. Moved(t, "fetched", lock, n)
    BY <1>1, <1>2, <2>1, <2>3, Moves
  <2>5. t \in gone \/ master[t] # NoPassword
    BY <1>1, <2>2 DEF Seated
  <2>6. /\ overlapped' \in BOOLEAN /\ (overlapped => overlapped')
        /\ ~overlapped' => ~overlapped /\ \A u \in Tabs : tab[u].doing \notin Changing
    BY <1>4, <2>2
  <2> QED
    BY <1>1, <1>2, <2>1, <2>2, <2>3, <2>4, <2>5, <2>6, GoesOn
<1>6. CASE ChecksNoKeys(t)
  <2>1. PICK n \in 0..MaxPassword :
          /\ n = newest + 1 /\ newest' = n
          /\ tab' = [tab EXCEPT ![t] = [doing |-> "checked", from |-> NoPassword, to |-> n]]
    BY <1>3, <1>6 DEF ChecksNoKeys
  <2>2. /\ tab[t].doing = "gate" /\ lock = NoPassword
        /\ overlapped' = (overlapped \/ ~Quiet)
        /\ UNCHANGED <<stored, gone, master, asks, behind, lost>>
    BY <1>6 DEF ChecksNoKeys
  <2>3. n \in Passwords /\ n # NoPassword /\ newest <= n /\ NoPassword <= n
    BY <1>1, <2>1 DEF Passwords, NoPassword
  <2>4. Moved(t, "checked", NoPassword, n)
    BY <1>1, <1>2, <2>1, <2>3, Moves
  <2>5. t \notin asks
    BY <1>1, <2>2 DEF Seated
  <2>6. /\ overlapped' \in BOOLEAN /\ (overlapped => overlapped')
        /\ ~overlapped' => ~overlapped /\ \A u \in Tabs : tab[u].doing \notin Changing
    BY <1>4, <2>2
  <2>7. ~overlapped => account = NoPassword
    BY <1>1, <2>2 DEF Phases, Phase, NotBehind, Paired, Passwords, NoPassword
  <2> QED
    BY <1>1, <1>2, <2>1, <2>2, <2>3, <2>4, <2>5, <2>6, <2>7, GoesOn
<1> QED
  BY <1>5, <1>6

\* A tab asks for the current password to be verified, the first time or the second.
LEMMA VerifyingSafe ==
  ASSUME KeysInv, NEW t \in Tabs, Verifies(t) \/ VerifiesAgain(t)
  PROVE  KeysInv'
<1>1. /\ KeysTypeOK /\ Bounded /\ Seated
      /\ tab[t].from \in Passwords /\ tab[t].to \in Passwords /\ NoPassword \in Passwords
      /\ tab[t].from <= newest /\ tab[t].to <= newest /\ NoPassword <= newest
      /\ newest \in 0..MaxPassword /\ newest <= newest
      /\ master \in [Tabs -> Passwords] /\ behind \subseteq Tabs /\ asks \subseteq Tabs
      /\ lost \in BOOLEAN /\ overlapped \in BOOLEAN
      /\ t \in asks => tab[t].doing = "in"
      /\ ~overlapped => Phases /\ OneAtIt
      /\ ~overlapped /\ ~lost => MastersCurrent
  BY TabKnown DEF KeysTypeOK, Settled
<1>2. /\ {"in", "out"} \subseteq Doing \ Changing /\ {"verified", "reverify"} \subseteq Doing
      /\ {"verified", "reverify"} \subseteq Changing \ {"made", "stored", "revert"}
      /\ {"fetched", "revert"} \subseteq Changing
  BY DEF Doing, Changing
<1>3. ASSUME tab[t].doing \in Changing
      PROVE  /\ ~overlapped => \A u \in Tabs \ {t} : tab[u].doing \notin Changing
             /\ t \notin asks
  BY <1>1, <1>2, <1>3 DEF OneAtIt
<1>4. CASE Verifies(t)
  <2>1. tab[t].doing = "fetched" /\ UNCHANGED <<stored, master, asks, behind, newest, lost, overlapped>>
    BY <1>4 DEF Verifies, keyHistory
  <2>2. (t \in gone \/ master[t] # NoPassword) /\ tab[t].to # NoPassword /\ t \notin asks
    BY <1>1, <2>1 DEF Seated
  <2>3. CASE Verified(t)
    <3>1. Moved(t, "verified", tab[t].from, tab[t].to) /\ gone' = gone
      BY <1>1, <1>2, <1>4, <2>3, TabGoes DEF Verifies
    <3>2. account = tab[t].from
      BY <2>3 DEF Verified
    <3>3. ~overlapped => /\ \A u \in Tabs \ {t} : tab[u].doing \notin Changing
                         /\ tab[t].from <= tab[t].to /\ tab[t].from # NoPassword
                         /\ lock = tab[t].from
      BY <1>1, <1>2, <1>3, <2>1 DEF Phases, Phase, NotBehind, Paired
    <3> QED
      BY <1>1, <1>2, <2>1, <2>2, <3>1, <3>2, <3>3, GoesOn
  <2>4. CASE ~Verified(t)
    <3>1. PICK s \in {"in", "out"} :
            /\ Moved(t, s, NoPassword, NoPassword) /\ gone' = gone \ {t}
            /\ s = "in" => t \notin gone
      BY <1>1, <1>4, <2>4, TabRests DEF Verifies
    <3> QED
      BY <1>1, <1>2, <2>1, <2>2, <3>1, Ends DEF OthersKept, Old, MastersCurrent
  <2> QED
    BY <2>3, <2>4
<1>5. CASE VerifiesAgain(t)
  <2>1. tab[t].doing = "revert" /\ UNCHANGED <<stored, master, asks, newest, overlapped>>
    BY <1>5 DEF VerifiesAgain
  <2>2. (t \in gone \/ master[t] # NoPassword) /\ tab[t].to # NoPassword /\ t \notin asks
    BY <1>1, <2>1 DEF Seated
  <2>3. CASE Verified(t) /\ Goes(t, "reverify") /\ UNCHANGED <<lost, behind>>
    <3>1. Moved(t, "reverify", tab[t].from, tab[t].to) /\ gone' = gone
      BY <1>1, <1>2, <2>3, TabGoes
    <3>2. account = tab[t].from /\ Old(t)
      BY <2>1, <2>3 DEF Verified, Old
    <3>3. ~overlapped => /\ \A u \in Tabs \ {t} : tab[u].doing \notin Changing
                         /\ tab[t].from <= tab[t].to /\ tab[t].from # NoPassword
                         /\ lock = tab[t].to
      BY <1>1, <1>2, <1>3, <2>1 DEF Phases, Phase, NotBehind, Paired
    <3> QED
      BY <1>1, <1>2, <2>1, <2>2, <2>3, <3>1, <3>2, <3>3, GoesOn
  <2>4. CASE ~Verified(t) /\ Rests(t) /\ behind' = behind \cup {t} /\ UNCHANGED lost
    <3>1. PICK s \in {"in", "out"} :
            /\ Moved(t, s, NoPassword, NoPassword) /\ gone' = gone \ {t}
            /\ s = "in" => t \notin gone
      BY <1>1, <2>4, TabRests
    <3>2. ~overlapped => account = lock
      BY <1>1, <2>1, <2>4 DEF Phases, Phase, NotBehind, Paired, Verified
    <3> QED
      BY <1>1, <1>2, <2>1, <2>2, <2>4, <3>1, <3>2, Ends DEF OthersKept
  <2>5. CASE Rests(t) /\ lost' = TRUE /\ UNCHANGED behind
    <3>1. PICK s \in {"in", "out"} :
            /\ Moved(t, s, NoPassword, NoPassword) /\ gone' = gone \ {t}
            /\ s = "in" => t \notin gone
      BY <1>1, <2>5, TabRests
    <3> QED
      BY <1>1, <1>2, <2>1, <2>2, <2>5, <3>1, Ends DEF OthersKept
  <2> QED
    BY <1>5, <2>3, <2>4, <2>5 DEF VerifiesAgain
<1> QED
  BY <1>4, <1>5

\* A step of tab t, the only one that is at it, that writes what is stored.
LEMMA Writes ==
  ASSUME KeysInv, NEW t \in Tabs, NEW s \in Doing \ {"entering"},
         NEW f \in Passwords, NEW g \in Passwords, NEW n \in 0..MaxPassword,
         Moved(t, s, f, g), gone' = IF s \in Changing THEN gone ELSE gone \ {t}, newest' = n, newest <= n, f <= n, g <= n,
         account' \in Passwords, lock' \in Passwords, account' <= n, lock' <= n,
         pair' \in Tabs \cup {NoPair}, orgPair' \in Tabs \cup {NoPair},
         lost' \in BOOLEAN, lost => lost', UNCHANGED <<asks, overlapped>>, t \notin asks,
         master' \in [Tabs -> Passwords], \A u \in Tabs \ {t} : master'[u] = master[u],
         s \notin {"gate", "checked", "made", "out"} => t \in gone' \/ master'[t] # NoPassword,
         s \notin {"gate", "in", "out"} => g # NoPassword,
         behind' \subseteq Tabs, behind \ {t} \subseteq behind',
         ~overlapped =>
           /\ \A u \in Tabs \ {t} : tab[u].doing \notin Changing
           /\ NotBehind' /\ Paired' /\ Phase(t)',
         ~overlapped /\ ~lost' =>
           /\ AccountSettled' /\ OrgSettled'
           /\ t \in behind' \/ master'[t] \in {NoPassword, IF Old(t)' THEN tab'[t].from ELSE lock'}
           /\ \A u \in Tabs \ {t} : u \in behind' \/ master[u] = NoPassword \/ lock' = lock
  PROVE  KeysInv'
<1>1. KeysTypeOK /\ Bounded /\ Seated
  BY DEF KeysInv
<1>2. /\ UNCHANGED <<asks, overlapped>>
      /\ tab' \in [Tabs -> TabRecords] /\ \A u \in Tabs : u # t => tab'[u] = tab[u]
      /\ tab'[t].doing = s /\ tab'[t].from = f /\ tab'[t].to = g
      /\ gone' \subseteq gone /\ gone \ {t} \subseteq gone' /\ (s \notin Changing => t \notin gone')
  BY DEF Moved
<1>3. KeysTypeOK'
  BY <1>1, <1>2, Zenon DEF KeysTypeOK, TabRecords
<1>4. Bounded'
  <2>1. /\ \A u \in Tabs : tab[u].from \in Int /\ tab[u].to \in Int
        /\ newest \in Int /\ n \in Int
    BY <1>1, KeysAssumption DEF KeysTypeOK, Passwords, NoPassword
  <2> QED
    BY <1>1, <1>2, <2>1 DEF Bounded
<1>5. Seated'
  BY <1>1, <1>2 DEF Seated, KeysTypeOK
<1>6. ASSUME ~overlapped' PROVE OneAtIt' /\ Phases'
  <2>1. \A u \in Tabs \ {t} : tab'[u].doing \notin Changing
    BY <1>2, <1>6
  <2>2. OneAtIt'
    BY <2>1 DEF OneAtIt
  <2>3. ASSUME NEW u \in Tabs \ {t} PROVE Phase(u)'
    BY <2>1, <2>3 DEF Phase, Changing, Doing
  <2> QED
    BY <1>2, <1>6, <2>2, <2>3 DEF Phases
<1>7. ASSUME ~overlapped', ~lost' PROVE Settled'
  <2>1. Settled /\ \A u \in Tabs \ {t} : tab[u].doing \notin Changing
    BY <1>2, <1>7 DEF KeysInv
  <2>2. \A u \in Tabs \ {t} : ~Old(u) /\ ~Old(u)'
    BY <1>2, <2>1 DEF Old, Changing, Doing
  <2>3. ASSUME NEW u \in Tabs \ behind', u # t
        PROVE  master'[u] \in {NoPassword, lock'}
    <3>1. u \notin behind
      BY <2>3
    <3>2. master[u] \in {NoPassword, lock}
      BY <2>1, <2>2, <2>3, <3>1 DEF Settled, MastersCurrent
    <3> QED
      BY <1>2, <1>7, <2>3, <3>2
  <2>4. MastersCurrent'
    BY <1>2, <1>7, <2>2, <2>3 DEF MastersCurrent
  <2> QED
    BY <1>2, <1>7, <2>4 DEF Settled
<1> QED
  BY <1>3, <1>4, <1>5, <1>6, <1>7 DEF KeysInv

LEMMA Alone ==
  ASSUME KeysInv, NEW t \in Tabs, tab[t].doing \in Changing
  PROVE  /\ t \notin asks
         /\ ~overlapped => /\ \A u \in Tabs \ {t} : tab[u].doing \notin Changing
                           /\ NotBehind /\ Paired /\ Phase(t)
         /\ ~overlapped /\ ~lost =>
              /\ tab[t].doing # "made" => orgPair = pair
              /\ t \in behind \/ master[t] \in {NoPassword, IF Old(t) THEN tab[t].from ELSE lock}
<1>1. /\ t \in asks => tab[t].doing = "in"
      /\ ~overlapped => OneAtIt /\ Phases
      /\ ~overlapped /\ ~lost => Settled
  BY TabKnown
<1>2. "in" \notin Changing /\ "made" \in Changing
  BY DEF Changing, Doing
<1> QED
  BY <1>1, <1>2 DEF OneAtIt, Phases, Settled, OrgSettled, MastersCurrent

\* What the tab that is at it finds stored, and what it holds.
LEMMA AtIt ==
  ASSUME KeysInv, NEW t \in Tabs
  PROVE  /\ KeysTypeOK /\ Bounded /\ Seated
         /\ newest \in 0..MaxPassword /\ newest <= newest /\ NoPassword <= newest
         /\ tab[t].from \in Passwords /\ tab[t].to \in Passwords /\ NoPassword \in Passwords
         /\ tab[t].from <= newest /\ tab[t].to <= newest
         /\ lock \in Passwords /\ account \in Passwords /\ lock <= newest /\ account <= newest
         /\ pair \in Tabs \cup {NoPair} /\ orgPair \in Tabs \cup {NoPair}
         /\ master \in [Tabs -> Passwords] /\ behind \subseteq Tabs /\ asks \subseteq Tabs
         /\ lost \in BOOLEAN /\ overlapped \in BOOLEAN
         /\ tab[t].doing \notin Changing => t \notin gone
BY TabKnown DEF Bounded, Seated, KeysTypeOK

LEMMA StoresSafe ==
  ASSUME KeysInv, NEW t \in Tabs, Stores(t) \/ Reverts(t)
  PROVE  KeysInv'
<1>1. /\ {"verified", "reverify"} \subseteq Changing
      /\ "stored" \in Changing /\ {"stored", "in", "out"} \subseteq Doing \ {"entering"}
      /\ "in" \notin Changing /\ "out" \notin Changing
  BY DEF Changing, Doing
<1>2. ASSUME Overtakes(t), tab[t].doing \in {"verified", "reverify"}
      PROVE  /\ behind' \subseteq Tabs /\ behind \ {t} \subseteq behind'
             /\ t \in behind => t \in behind'
             /\ \A u \in Tabs \ {t} : u \in behind' \/ master[u] = NoPassword
             /\ (t \in gone \/ master[t] # NoPassword) /\ tab[t].to # NoPassword
  BY <1>2, AtIt DEF Overtakes, Seated
<1>3. CASE Stores(t)
  <2>1. /\ tab[t].doing = "verified" /\ lock' = tab[t].to /\ Overtakes(t)
        /\ UNCHANGED <<account, pair, orgPair, master, asks, newest, overlapped>>
    BY <1>3 DEF Stores
  <2>2. /\ t \notin asks
        /\ ~overlapped => /\ \A u \in Tabs \ {t} : tab[u].doing \notin Changing
                          /\ NotBehind' /\ Paired' /\ account = tab[t].from
                          /\ tab[t].from <= tab[t].to /\ tab[t].from # NoPassword
        /\ ~overlapped /\ ~lost => orgPair = pair /\ (t \in behind \/ master[t] \in {NoPassword, tab[t].from})
    BY <1>1, <2>1, Alone, AtIt DEF NotBehind, Paired, Phase, Old, Passwords, NoPassword
  <2>3. CASE Goes(t, "stored") /\ UNCHANGED lost
    <3>1. Moved(t, "stored", tab[t].from, tab[t].to) /\ gone' = gone
      BY <1>1, <2>3, TabGoes, AtIt
    <3>2. ~overlapped => Phase(t)'
      BY <2>1, <2>2, <3>1 DEF Phase, Moved
    <3>3. Old(t)' /\ (~overlapped /\ ~lost' => AccountSettled' /\ OrgSettled')
      BY <2>1, <2>2, <2>3, <3>1 DEF Old, Moved, AccountSettled, OrgSettled
    <3>4. tab'[t].from = tab[t].from
      BY <3>1 DEF Moved
    <3> QED
      BY <1>1, <1>2, <2>1, <2>2, <2>3, <3>1, <3>2, <3>3, <3>4, AtIt, Writes
  <2>4. CASE Rests(t) /\ lost' = TRUE
    <3>1. PICK s \in {"in", "out"} :
            /\ Moved(t, s, NoPassword, NoPassword) /\ gone' = gone \ {t}
            /\ s = "in" => t \notin gone
      BY <2>4, TabRests, AtIt
    <3>2. Phase(t)'
      BY <3>1 DEF Phase, Moved
    <3> QED
      BY <1>1, <1>2, <2>1, <2>2, <2>4, <3>1, <3>2, AtIt, Writes
  <2> QED
    BY <1>3, <2>3, <2>4 DEF Stores
<1>4. CASE Reverts(t)
  <2>1. /\ tab[t].doing = "reverify" /\ lock' = tab[t].from /\ Overtakes(t) /\ Rests(t)
        /\ UNCHANGED <<account, pair, orgPair, master, asks, newest, lost, overlapped>>
    BY <1>4 DEF Reverts
  <2>2. /\ t \notin asks
        /\ ~overlapped => /\ \A u \in Tabs \ {t} : tab[u].doing \notin Changing
                          /\ NotBehind' /\ Paired' /\ account = tab[t].from
        /\ ~overlapped /\ ~lost => orgPair = pair /\ (t \in behind \/ master[t] \in {NoPassword, tab[t].from})
    BY <1>1, <2>1, Alone, AtIt DEF NotBehind, Paired, Phase, Old, Passwords, NoPassword
  <2>3. PICK s \in {"in", "out"} :
          /\ Moved(t, s, NoPassword, NoPassword) /\ gone' = gone \ {t}
          /\ s = "in" => t \notin gone
    BY <2>1, TabRests, AtIt
  <2>4. Phase(t)' /\ ~Old(t)'
    BY <2>3 DEF Phase, Moved, Old
  <2>5. ~overlapped /\ ~lost' => AccountSettled' /\ OrgSettled'
    BY <2>1, <2>2 DEF AccountSettled, OrgSettled
  <2> QED
    BY <1>1, <1>2, <2>1, <2>2, <2>3, <2>4, <2>5, AtIt, Writes
<1> QED
  BY <1>3, <1>4

LEMMA ChangesPasswordSafe ==
  ASSUME KeysInv, NEW t \in Tabs, ChangesPassword(t)
  PROVE  KeysInv'
<1>1. /\ {"stored", "revert"} \subseteq Changing /\ {"in", "out", "revert"} \subseteq Doing \ {"entering"}
      /\ "in" \notin Changing /\ "out" \notin Changing
      /\ tab[t].doing = "stored"
      /\ UNCHANGED <<lock, pair, orgPair, asks, newest, overlapped>>
  BY DEF Changing, Doing, ChangesPassword
<1>2. /\ t \notin asks /\ (t \in gone \/ master[t] # NoPassword) /\ tab[t].to # NoPassword
      /\ ~overlapped => /\ \A u \in Tabs \ {t} : tab[u].doing \notin Changing
                        /\ NotBehind /\ Paired' /\ account = tab[t].from /\ lock = tab[t].to
                        /\ tab[t].from <= tab[t].to /\ tab[t].from # NoPassword
      /\ ~overlapped /\ ~lost =>
           orgPair = pair /\ (t \in behind \/ master[t] \in {NoPassword, tab[t].from})
  BY <1>1, Alone, AtIt DEF Paired, Phase, Old, Seated
<1>3. /\ tab[t].to \in Passwords /\ tab[t].to <= newest
      /\ tab[t].to <= tab[t].to
  BY AtIt DEF Passwords, NoPassword
<1>4. ASSUME Changes(t) \/ UNCHANGED account
      PROVE  /\ account' \in Passwords /\ account' <= newest
             /\ ~overlapped => NotBehind' /\ account' \in {tab[t].from, tab[t].to}
  BY <1>1, <1>2, <1>3, <1>4, AtIt DEF Changes, NotBehind
\* done, and the tab hears of it
<1>5. CASE Changes(t) /\ KeepsKey(t, tab[t].to, lock = tab[t].to) /\ UNCHANGED lost
  <2>1. /\ Moved(t, "in", NoPassword, NoPassword) /\ Holds(t, tab[t].to)
        /\ t \notin gone /\ gone' = gone
    BY <1>3, <1>5, KeyKept, AtIt
  <2>2. behind' = IF lock = tab[t].to THEN behind \ {t} ELSE behind \cup {t}
    BY <1>5 DEF KeepsKey
  <2>3. Phase(t)'
    BY <2>1 DEF Phase, Moved
  <2>4. ~overlapped /\ ~lost' => AccountSettled' /\ OrgSettled'
    BY <1>1, <1>2, <1>5 DEF Changes, AccountSettled, OrgSettled
  <2>5. ~Old(t)' /\ (~overlapped => master'[t] = lock')
    BY <1>1, <1>2, <2>1 DEF Old, Moved, Holds
  <2> QED
    BY <1>1, <1>2, <1>3, <1>4, <1>5, <2>1, <2>2, <2>3, <2>4, <2>5, AtIt, Writes DEF Holds
\* done or not, and the tab is told of an error
<1>6. CASE /\ Changes(t) \/ UNCHANGED account
           /\ t \notin gone /\ Goes(t, "revert") /\ UNCHANGED <<lost, master, behind>>
  <2>1. Moved(t, "revert", tab[t].from, tab[t].to) /\ gone' = gone
    BY <1>1, <1>6, TabGoes, AtIt
  <2>2. ~overlapped => Phase(t)'
    BY <1>1, <1>2, <1>4, <1>6, <2>1 DEF Phase, Moved
  <2>3. Old(t)' /\ (~overlapped /\ ~lost' => AccountSettled' /\ OrgSettled')
    BY <1>1, <1>2, <1>6, <2>1 DEF Old, Moved, AccountSettled, OrgSettled
  <2>4. tab'[t].from = tab[t].from
    BY <2>1 DEF Moved
  <2> QED
    BY <1>1, <1>2, <1>3, <1>4, <1>6, <2>1, <2>2, <2>3, <2>4, AtIt, Writes
\* done or not, and the tab gives up, or its page was left
<1>7. CASE /\ Changes(t) \/ UNCHANGED account
           /\ Rests(t) /\ lost' = TRUE /\ UNCHANGED <<master, behind>>
  <2>1. PICK s \in {"in", "out"} :
          /\ Moved(t, s, NoPassword, NoPassword) /\ gone' = gone \ {t}
          /\ s = "in" => t \notin gone
    BY <1>7, TabRests, AtIt
  <2>2. Phase(t)'
    BY <2>1 DEF Phase, Moved
  <2> QED
    BY <1>1, <1>2, <1>4, <1>7, <2>1, <2>2, AtIt, Writes
<1> QED
  BY <1>5, <1>6, <1>7 DEF ChangesPassword

\* The first keys.
LEMMA MakingSafe ==
  ASSUME KeysInv, NEW t \in Tabs, Makes(t) \/ MakesOrg(t)
  PROVE  KeysInv'
<1>1. /\ {"checked", "made"} \subseteq Changing /\ {"in", "made"} \subseteq Doing \ {"entering"}
      /\ {"gate", "out"} \subseteq Doing \ Changing /\ "in" \notin Changing
  BY DEF Changing, Doing
<1>2. CASE Makes(t)
  <2>1. /\ tab[t].doing = "checked" /\ lock' = tab[t].to /\ pair' = t
        /\ UNCHANGED <<account, orgPair, master, asks, newest, behind, lost, overlapped>>
    BY <1>2 DEF Makes, keyHistory
  <2>2. Moved(t, "made", tab[t].from, tab[t].to) /\ gone' = gone
    BY <1>1, <1>2, TabGoes, AtIt DEF Makes
  <2>3. /\ t \notin asks
        /\ ~overlapped => /\ \A u \in Tabs \ {t} : tab[u].doing \notin Changing
                          /\ account = NoPassword /\ lock = NoPassword
        /\ ~overlapped /\ ~lost =>
             /\ \A u \in Tabs : u \in behind \/ master[u] = NoPassword
    BY <1>1, <2>1, Alone, TabKnown DEF Phase, Settled, MastersCurrent, Old, Changing, Doing
  <2>4. ~overlapped => NotBehind' /\ Phase(t)'
    BY <2>1, <2>2, <2>3 DEF NotBehind, Phase, Moved
  <2>5. ~overlapped => AccountSettled' /\ OrgSettled'
    BY <2>1, <2>2, <2>3 DEF AccountSettled, OrgSettled, Moved
  <2>6. /\ tab[t].to # NoPassword
        /\ Paired'
    BY <2>1, AtIt, KeysAssumption DEF Seated, Paired, NoPair
  <2> QED
    BY <1>1, <2>1, <2>2, <2>3, <2>4, <2>5, <2>6, AtIt, Writes
<1>3. CASE MakesOrg(t)
  <2>1. tab[t].doing = "made" /\ UNCHANGED <<account, lock, pair, asks, newest, overlapped>>
    BY <1>3 DEF MakesOrg
  <2>2. /\ t \notin asks /\ tab[t].to # NoPassword /\ tab[t].to <= newest
        /\ tab[t].to \in Passwords
        /\ ~overlapped => /\ \A u \in Tabs \ {t} : tab[u].doing \notin Changing
                          /\ NotBehind' /\ Paired' /\ account = NoPassword /\ lock = tab[t].to
                          /\ pair = t
    BY <1>1, <2>1, Alone, AtIt DEF Phase, NotBehind, Paired, Seated
  <2>3. CASE orgPair' = t /\ KeepsKey(t, tab[t].to, lock = tab[t].to) /\ UNCHANGED lost
    <3>1. /\ Moved(t, "in", NoPassword, NoPassword) /\ Holds(t, tab[t].to)
          /\ t \notin gone /\ gone' = gone
      BY <2>2, <2>3, KeyKept, AtIt
    <3>2. behind' = IF lock = tab[t].to THEN behind \ {t} ELSE behind \cup {t}
      BY <2>3 DEF KeepsKey
    <3>3. Phase(t)' /\ ~Old(t)'
      BY <3>1 DEF Phase, Moved, Old
    <3>4. ~overlapped /\ ~lost' => AccountSettled' /\ OrgSettled'
      BY <2>1, <2>2, <2>3 DEF AccountSettled, OrgSettled
    <3>5. ~overlapped => master'[t] = lock'
      BY <2>1, <2>2, <3>1 DEF Holds
    <3> QED
      BY <1>1, <2>1, <2>2, <2>3, <3>1, <3>2, <3>3, <3>4, <3>5, AtIt, Writes DEF Holds
  <2>4. CASE /\ orgPair' \in {orgPair, t}
             /\ IF t \in gone THEN Rests(t) ELSE Goes(t, "gate")
             /\ lost' = TRUE /\ UNCHANGED <<master, behind>>
    <3>1. PICK s \in {"gate", "out"}, f \in Passwords, g \in Passwords :
            Moved(t, s, f, g) /\ gone' = gone \ {t} /\ f <= newest /\ g <= newest
      <4>1. CASE t \in gone
        BY <2>4, <4>1, TabRests, AtIt
      <4>2. CASE t \notin gone
        BY <1>1, <2>4, <4>2, TabGoes, AtIt
      <4> QED
        BY <4>1, <4>2
    <3>2. Phase(t)'
      BY <3>1 DEF Phase, Moved
    <3>3. lost' \in BOOLEAN /\ lost' /\ orgPair' \in Tabs \cup {NoPair}
      <4>1. lost' \in BOOLEAN /\ lost'
        BY <2>4, Zenon
      <4> QED
        BY <2>4, <4>1, AtIt
    <3> QED
      BY <1>1, <2>1, <2>2, <2>4, <3>1, <3>2, <3>3, AtIt, Writes
  <2> QED
    BY <1>3, <2>3, <2>4 DEF MakesOrg
<1> QED
  BY <1>2, <1>3

LEMMA RegistersSafe ==
  ASSUME KeysInv, NEW t \in Tabs, Registers(t)
  PROVE  KeysInv'
<1>1. /\ pair = NoPair /\ \A u \in Tabs : tab[u] = Outside
      /\ newest < MaxPassword /\ newest' = newest + 1
      /\ account' = newest' /\ lock' = newest' /\ pair' = t
      /\ MakesPersonalOrg(t) /\ KeepsKey(t, newest', TRUE)
      /\ UNCHANGED <<asks, overlapped>>
  BY DEF Registers
<1>2. PICK n \in 0..MaxPassword : n = newest + 1
  BY <1>1, AtIt, KeysAssumption
<1>3. /\ newest' = n /\ account' = n /\ lock' = n /\ pair' = t
      /\ n \in Passwords /\ n # NoPassword /\ newest <= n /\ NoPassword <= n /\ n <= n
  BY <1>1, <1>2, AtIt DEF Passwords, NoPassword
<1>4. KeepsKey(t, n, TRUE)
  BY <1>1, <1>3 DEF KeepsKey
<1>5. /\ Moved(t, "in", NoPassword, NoPassword) /\ Holds(t, n) /\ behind' = behind \ {t}
      /\ t \notin gone /\ gone' = gone
  BY <1>3, <1>4, KeyKept, AtIt DEF KeepsKey
<1>6. /\ \A u \in Tabs : tab[u].doing \notin Changing /\ tab[u].doing = "out"
      /\ t \notin asks /\ "in" \in Doing \ {"entering"} /\ "in" \notin Changing
  BY <1>1, TabKnown DEF Outside, Changing, Doing
<1>7. /\ lost' \in BOOLEAN /\ (lost => lost') /\ orgPair' \in Tabs \cup {NoPair}
      /\ ~lost' => ~lost /\ orgPair' = t
  <2>1. lost \in BOOLEAN /\ orgPair \in Tabs \cup {NoPair}
    BY AtIt
  <2>2. CASE orgPair' = t /\ UNCHANGED lost
    BY <2>1, <2>2
  <2>3. CASE lost' = TRUE /\ UNCHANGED orgPair
    <3>1. lost' \in BOOLEAN /\ lost'
      BY <2>3, Zenon
    <3> QED
      BY <2>1, <2>3, <3>1
  <2> QED
    BY <1>1, <2>2, <2>3 DEF MakesPersonalOrg
<1>8. ~overlapped => NotBehind' /\ Paired' /\ Phase(t)'
  BY <1>3, <1>5, KeysAssumption DEF NotBehind, Paired, Phase, Moved, NoPair, Passwords, NoPassword
<1>9. ~lost' => AccountSettled' /\ OrgSettled'
  BY <1>3, <1>7 DEF AccountSettled, OrgSettled
<1>10. ~overlapped /\ ~lost' => \A u \in Tabs \ {t} : u \in behind' \/ master[u] = NoPassword
  BY <1>1, <1>5, <1>6, <1>7, TabKnown DEF Settled, MastersCurrent, Phases, Paired, Old
<1>11. ~Old(t)' /\ master'[t] = lock'
  BY <1>3, <1>5 DEF Old, Moved, Holds
<1>12. /\ UNCHANGED <<asks, overlapped>>
       /\ pair' \in Tabs \cup {NoPair} /\ account' \in Passwords /\ lock' \in Passwords
       /\ master' \in [Tabs -> Passwords] /\ \A u \in Tabs \ {t} : master'[u] = master[u]
       /\ behind' \subseteq Tabs /\ behind \ {t} \subseteq behind' /\ master'[t] # NoPassword
       /\ NoPassword \in Passwords
  BY <1>1, <1>3, <1>5, AtIt DEF Holds
<1>13. gone' = IF "in" \in Changing THEN gone ELSE gone \ {t}
  BY <1>5
<1>14. Moved(t, "in", NoPassword, NoPassword)
  BY <1>5
<1> QED
  BY <1>3, <1>6, <1>7, <1>8, <1>9, <1>10, <1>11, <1>12, <1>13, <1>14, Writes

LEMMA ResetsSafe ==
  ASSUME KeysInv, Resets
  PROVE  KeysInv'
<1>1. /\ newest < MaxPassword /\ newest' = newest + 1 /\ account' = newest' /\ overlapped' = TRUE
      /\ UNCHANGED <<lock, pair, orgPair, tab, gone, master, asks, behind, lost>>
  BY DEF Resets
<1>2. KeysTypeOK /\ Bounded /\ Seated
  BY DEF KeysInv
<1>3. /\ newest \in Int /\ lock \in Int /\ account' \in Passwords /\ newest' \in 0..MaxPassword
      /\ \A u \in Tabs : tab[u].from \in Int /\ tab[u].to \in Int
  BY <1>1, <1>2, KeysAssumption DEF KeysTypeOK, Passwords, NoPassword
<1>4. KeysTypeOK'
  BY <1>1, <1>2, <1>3 DEF KeysTypeOK
<1>5. Bounded' /\ Seated'
  BY <1>1, <1>2, <1>3 DEF Bounded, Seated
<1> QED
  BY <1>1, <1>4, <1>5 DEF KeysInv

LEMMA KeysInductive == KeysSpec => []KeysInv
<1>1. KeysInit => KeysInv
  <2> SUFFICES ASSUME KeysInit
               PROVE  KeysInv
    OBVIOUS
  <2>1. /\ account = NoPassword /\ lock = NoPassword /\ pair = NoPair /\ orgPair = NoPair
        /\ tab = [t \in Tabs |-> Outside] /\ master = [t \in Tabs |-> NoPassword]
        /\ gone = {} /\ asks = {} /\ behind = {} /\ newest = 0 /\ lost = FALSE /\ overlapped = FALSE
    BY DEF KeysInit
  <2>2. Outside \in [doing : Doing, from : Passwords, to : Passwords] /\ Outside.doing = "out"
        /\ Outside.from = NoPassword /\ Outside.to = NoPassword
    BY DEF Outside, Doing, Passwords
  <2>3. lost \in BOOLEAN /\ overlapped \in BOOLEAN /\ ~lost /\ ~overlapped
    BY Zenon DEF KeysInit
  <2>7. KeysTypeOK
    BY <2>1, <2>2, <2>3, KeysAssumption DEF KeysTypeOK, Passwords
  <2>4. Bounded /\ Seated
    BY <2>1, <2>2 DEF Bounded, Seated, NoPassword
  <2>5. OneAtIt /\ Phases
    BY <2>1, <2>2 DEF OneAtIt, Changing, Doing, Phases, Phase, NotBehind, Paired
  <2>6. Settled
    BY <2>1, <2>2 DEF Settled, AccountSettled, OrgSettled, MastersCurrent
  <2> QED
    BY <2>4, <2>5, <2>6, <2>7 DEF KeysInv
<1>2. KeysInv /\ [KeysNext]_keyVars => KeysInv'
  <2> SUFFICES ASSUME KeysInv, [KeysNext]_keyVars
               PROVE  KeysInv'
    OBVIOUS
  <2>1. CASE UNCHANGED keyVars
    <3>1. KeysTypeOK' /\ Bounded' /\ Seated' /\ OneAtIt' = OneAtIt
      BY <2>1 DEF keyVars, stored, keyHistory, KeysInv, KeysTypeOK, Bounded, Seated, OneAtIt
    <3>2. Phases' = Phases /\ Settled' = Settled /\ overlapped' = overlapped /\ lost' = lost
      BY <2>1 DEF keyVars, stored, keyHistory, Phases, Phase, NotBehind, Paired, Settled,
                  AccountSettled, OrgSettled, MastersCurrent, Old
    <3> QED
      BY <3>1, <3>2 DEF KeysInv
  <2> QED
    BY <2>1, ComingSafe, StayingSafe, BeginningSafe, VerifyingSafe, StoresSafe,
       ChangesPasswordSafe, MakingSafe, RegistersSafe, ResetsSafe DEF KeysNext
<1> QED
  BY <1>1, <1>2, PTL DEF KeysSpec

\* The keys of a user open with the password, whatever becomes of a change of it.
THEOREM KeysOpen == KeysSpec => []KeysFollowPassword
<1>1. KeysInv => KeysFollowPassword
  <2> SUFFICES ASSUME KeysInv, ~overlapped
               PROVE  /\ account # NoPassword => lock >= account
                      /\ Quiet /\ ~lost =>
                           /\ account # NoPassword => lock = account
                           /\ orgPair = pair
                           /\ \A t \in Tabs \ behind : master[t] \in {NoPassword, lock}
    BY DEF KeysFollowPassword
  <2>1. account # NoPassword => lock >= account
    BY DEF KeysInv, Phases, NotBehind
  <2>2. ASSUME Quiet, ~lost
        PROVE  /\ account # NoPassword => lock = account
               /\ orgPair = pair
               /\ \A t \in Tabs \ behind : master[t] \in {NoPassword, lock}
    <3>1. \A t \in Tabs : ~Old(t) /\ tab[t].doing # "made"
      BY <2>2 DEF Quiet, Old, Changing, Doing
    <3> QED
      BY <2>2, <3>1 DEF KeysInv, Settled, AccountSettled, OrgSettled, MastersCurrent
  <2> QED
    BY <2>1, <2>2
<1> QED
  BY <1>1, KeysInductive, PTL

\* The keys of a user, what its tabs do and what they have read stay in their sets.
THEOREM KeysTypeCorrect == KeysSpec => []KeysTypeOK
<1>1. KeysInv => KeysTypeOK
  BY DEF KeysInv
<1> QED
  BY <1>1, KeysInductive, PTL

(***************************************************************************)
(* The configuration of the CLI.                                           *)
(***************************************************************************)

AnyLogin == {NoLogin} \cup Logins
SecretPairs == [Secrets -> AnyLogin]
Entries == [block : AnyLogin, plain : SecretPairs]
ConfigFiles ==
  [flat : AnyLogin, flatPlain : SecretPairs, stamped : BOOLEAN, active : Servers \cup {NoServer},
   hasServers : BOOLEAN, servers : [Servers -> Entries]]

Migrating == {"copy", "drop", "servers", "active", "stamp", "clean"}
Forgetting == {"forget", "unlist", "deactivate"}
Entering == {"keep", "enter", "activate"}

CommandStages == Migrating \cup Forgetting \cup Entering \cup {"none", "migrate", "body"}

Commands ==
  [cmd : {"none", "login", "logout", "run"}, at : CommandStages,
   k : Secrets, server : Servers \cup {NoServer}, store : ConfigFiles]

ConfigTypes ==
  /\ file \in ConfigFiles
  /\ chain \in [Servers \cup {"flat"} -> SecretPairs]
  /\ proc \in Commands
  /\ logins \in Logins
  /\ got \in [server : Servers \cup {NoServer}, block : AnyLogin, secrets : SecretPairs]
  /\ finished \in [Servers -> AnyLogin]

\* Where a command is.
Staged ==
  /\ proc.at \in Entering <=> proc.cmd = "login"
  /\ proc.at \in Entering \cup Forgetting => proc.server \in Servers
  /\ proc.cmd = "none" => proc = NoProc
  /\ proc.at = "none" => proc.cmd = "none"
  /\ proc.at \notin {"copy", "drop", "forget", "keep"} => proc.k = "authToken"

\* What getSecret returns, for a server and for the flat configuration.
Held == [s \in Servers |-> [k \in Secrets |-> Secret(k, s)]]
HeldFlat == [k \in Secrets |-> FlatSecret(k)]

\* What a command got is of one login.
GotWhole ==
  got # NoGot => /\ proc = NoProc /\ got.server \in Servers
                 /\ got.block = finished[got.server]
                 /\ \A k \in Secrets : got.secrets[k] = got.block

\* Where the secrets are: with a keychain nothing is kept in plain text, and without one
\* all is; and an entry makes the file have entries.
Blank(e) == e.block = NoLogin /\ \A k \in Secrets : e.plain[k] = NoLogin
PlainFile(f) ==
  up => \A k \in Secrets : f.flatPlain[k] = NoLogin /\ \A s \in Servers : f.servers[s].plain[k] = NoLogin
ListsNone(f) == ~f.hasServers => \A s \in Servers : Blank(f.servers[s])
OnePlace ==
  /\ PlainFile(file) /\ ListsNone(file)
  /\ ~up => \A s \in Servers \cup {"flat"}, k \in Secrets : chain[s][k] = NoLogin

\* The entry of a server is of the last login, and has the master key if it has the token,
\* but that of a login under way, which gets one after the other.
EntriesWhole ==
  \A s \in Servers : proc.at \notin Entering \/ s # proc.server =>
    /\ file.servers[s].block \in {NoLogin, finished[s]}
    /\ \A k \in Secrets : Held[s][k] \in {NoLogin, finished[s]}
    /\ file.servers[s].block # NoLogin /\ Held[s]["authToken"] # NoLogin => Held[s]["masterKey"] # NoLogin

LoginGrows ==
  /\ proc.at = "keep" /\ proc.k = "masterKey" => Held[proc.server]["authToken"] = logins
  /\ proc.at \in {"enter", "activate"} => \A k \in Secrets : Held[proc.server][k] = logins
  /\ proc.at = "activate" => file.servers[proc.server].block = logins

\* As long as the flat fields are there, there was no login since; once the entry is
\* there, their secrets are gone; and only after the stamp there can be a logout.
FlatFirst ==
  /\ proc.at \in Migrating => file.flat # NoLogin
  /\ proc.at \in Entering => file.flat = NoLogin
  /\ file.flat # NoLogin =>
       /\ file.flat = 0 /\ finished[Legacy] = 0
       /\ \A k \in Secrets : HeldFlat[k] \in {NoLogin, 0}
       /\ file.servers[Legacy].block # NoLogin => \A k \in Secrets : HeldFlat[k] = NoLogin
       /\ upgraded /\ (left => file.stamped)
  /\ proc.at \in Migrating \ {"clean"} => ~file.stamped
  /\ proc.at = "body" /\ file.flat # NoLogin => file.stamped
  /\ proc.at \in Forgetting /\ proc.server = Legacy => left

\* The migration: what it has copied, and what it will write back.
Copied ==
  /\ proc.at \in {"copy", "drop"} /\ proc.k = "masterKey" => HeldFlat["authToken"] = NoLogin
  /\ proc.at = "drop" /\ up => Held[Legacy][proc.k] # NoLogin
  /\ proc.at \in {"servers", "active", "stamp", "clean"} => \A k \in Secrets : HeldFlat[k] = NoLogin
  /\ proc.at \in Migrating =>
       /\ proc.store.flat = 0 /\ ListsNone(proc.store) /\ PlainFile(proc.store)
       /\ \A s \in Servers : s # Legacy \/ proc.at \in {"active", "stamp", "clean"} =>
            Blank(proc.store.servers[s]) \/ proc.store.servers[s] = file.servers[s]

\* A logout deletes the token before the master key.
TokenFirst == proc.at = "forget" /\ proc.k = "masterKey" => Held[proc.server]["authToken"] = NoLogin

\* A secret of the flat configuration is in one of its two places.
NoneLost ==
  upgraded /\ up /\ ~left => \A k \in Secrets : HeldFlat[k] # NoLogin \/ Held[Legacy][k] # NoLogin

Undisturbed == /\ GotWhole /\ OnePlace /\ EntriesWhole /\ LoginGrows /\ FlatFirst /\ Copied
               /\ TokenFirst /\ NoneLost

ConfigInv == ConfigTypes /\ Staged /\ (~disturbed => Undisturbed)

LEMMA HeldIs ==
  ASSUME OnePlace
  PROVE  /\ \A s \in Servers, k \in Secrets :
              Held[s][k] = IF up THEN chain[s][k] ELSE file.servers[s].plain[k]
         /\ \A k \in Secrets : HeldFlat[k] = IF up THEN chain["flat"][k] ELSE file.flatPlain[k]
BY DEF OnePlace, PlainFile, Secret, FlatSecret, Held, HeldFlat

LEMMA HeldIsAfter ==
  ASSUME OnePlace'
  PROVE  /\ \A s \in Servers, k \in Secrets :
              Held'[s][k] = IF up' THEN chain'[s][k] ELSE file'.servers[s].plain[k]
         /\ \A k \in Secrets : HeldFlat'[k] = IF up' THEN chain'["flat"][k] ELSE file'.flatPlain[k]
BY DEF OnePlace, PlainFile, Secret, FlatSecret, Held, HeldFlat

\* What the accesses to the secrets do.
Rest == file'.flat = file.flat /\ file'.stamped = file.stamped /\ file'.active = file.active

\* f with v in plain text for the secret k of s.
WithPlain(f, s, k, v) == [f.servers EXCEPT ![s].plain[k] = v]

LEMMA PlainIs ==
  ASSUME NEW f \in ConfigFiles, NEW s \in Servers, NEW k \in Secrets, NEW v \in AnyLogin
  PROVE  LET w == WithPlain(f, s, k, v) IN
         /\ w \in [Servers -> Entries]
         /\ \A t \in Servers : w[t].block = f.servers[t].block
         /\ \A t \in Servers, j \in Secrets : t # s \/ j # k => w[t].plain[j] = f.servers[t].plain[j]
         /\ \A t \in Servers : t # s => w[t] = f.servers[t]
         /\ w[s].plain[k] = v
<1> DEFINE p == [f.servers[s].plain EXCEPT ![k] = v]
           e == [f.servers[s] EXCEPT !.plain = p]
           w == WithPlain(f, s, k, v)
<1>1. f.servers \in [Servers -> Entries]
  BY DEF ConfigFiles
<1>2. f.servers[s] \in Entries /\ f.servers[s].plain \in SecretPairs
  BY <1>1 DEF Entries
<1>3. p \in SecretPairs /\ p[k] = v /\ \A j \in Secrets : j # k => p[j] = f.servers[s].plain[j]
  BY <1>2 DEF SecretPairs
<1>4. e \in Entries /\ e.plain = p /\ e.block = f.servers[s].block
  <2> HIDE DEF p
  <2> QED
    BY <1>2, <1>3 DEF Entries
<1>5. w = [f.servers EXCEPT ![s] = e]
  BY DEF WithPlain
<1> HIDE DEF p, e, w
<1>6. w \in [Servers -> Entries] /\ w[s] = e /\ \A t \in Servers : t # s => w[t] = f.servers[t]
  BY <1>1, <1>4, <1>5
<1> QED
  BY <1>3, <1>4, <1>6 DEF w

LEMMA SetsSecret ==
  ASSUME ConfigTypes, NEW s \in Servers, NEW k \in Secrets, NEW v \in AnyLogin, SetSecret(k, v, s)
  PROVE  /\ file' \in ConfigFiles /\ chain' \in [Servers \cup {"flat"} -> SecretPairs]
         /\ Rest /\ file'.flatPlain = file.flatPlain /\ chain'["flat"] = chain["flat"]
         /\ \A t \in Servers : file'.servers[t].block = file.servers[t].block
         /\ \A t \in Servers, j \in Secrets : t # s \/ j # k =>
              file'.servers[t].plain[j] = file.servers[t].plain[j] /\ chain'[t][j] = chain[t][j]
         /\ \A t \in Servers : t # s => file'.servers[t] = file.servers[t]
         /\ up => /\ chain'[s][k] = v /\ file'.servers[s].plain[k] = NoLogin
                  /\ file'.hasServers = file.hasServers
         /\ ~up => chain' = chain /\ file'.servers[s].plain[k] = v /\ file'.hasServers = TRUE
<1>1. NoLogin \in AnyLogin /\ "flat" \notin Servers
  BY ConfigAssumption DEF AnyLogin
<1>2. file \in ConfigFiles /\ chain \in [Servers \cup {"flat"} -> SecretPairs]
  BY DEF ConfigTypes
<1>3. CASE up
  <2> DEFINE w == WithPlain(file, s, k, NoLogin)
  <2>1. chain' = [chain EXCEPT ![s][k] = v] /\ file' = [file EXCEPT !.servers = w]
    BY <1>3 DEF SetSecret, WithPlain
  <2>2. /\ w \in [Servers -> Entries]
        /\ \A t \in Servers : w[t].block = file.servers[t].block
        /\ \A t \in Servers, j \in Secrets : t # s \/ j # k => w[t].plain[j] = file.servers[t].plain[j]
        /\ \A t \in Servers : t # s => w[t] = file.servers[t]
        /\ w[s].plain[k] = NoLogin
    BY <1>1, <1>2, PlainIs
  <2> HIDE DEF w
  <2>3. file' \in ConfigFiles /\ file'.servers = w /\ Rest /\ file'.flatPlain = file.flatPlain
        /\ file'.hasServers = file.hasServers
    BY <1>2, <2>1, <2>2 DEF ConfigFiles, Rest
  <2>4. /\ chain' \in [Servers \cup {"flat"} -> SecretPairs] /\ chain'["flat"] = chain["flat"]
        /\ chain'[s][k] = v
        /\ \A t \in Servers, j \in Secrets : t # s \/ j # k => chain'[t][j] = chain[t][j]
    BY <1>1, <1>2, <2>1 DEF SecretPairs
  <2> QED
    BY <1>3, <2>2, <2>3, <2>4
<1>4. CASE ~up
  <2> DEFINE w == WithPlain(file, s, k, v)
  <2>1. file' = [file EXCEPT !.hasServers = TRUE, !.servers = w]
    BY <1>4 DEF SetSecret, WithPlain
  <2>4. chain' = chain
    BY <1>4 DEF SetSecret
  <2>2. /\ w \in [Servers -> Entries]
        /\ \A t \in Servers : w[t].block = file.servers[t].block
        /\ \A t \in Servers, j \in Secrets : t # s \/ j # k => w[t].plain[j] = file.servers[t].plain[j]
        /\ \A t \in Servers : t # s => w[t] = file.servers[t]
        /\ w[s].plain[k] = v
    BY <1>2, PlainIs
  <2> HIDE DEF w
  <2>3. file' \in ConfigFiles /\ file'.servers = w /\ Rest /\ file'.flatPlain = file.flatPlain
        /\ file'.hasServers = TRUE
    BY <1>2, <2>1, <2>2 DEF ConfigFiles, Rest
  <2> QED
    BY <1>2, <1>4, <2>4, <2>2, <2>3
<1> QED
  BY <1>3, <1>4

LEMMA DeletesSecret ==
  ASSUME ConfigTypes, NEW s \in Servers, NEW k \in Secrets, DeleteSecret(k, s)
  PROVE  /\ file' \in ConfigFiles /\ chain' \in [Servers \cup {"flat"} -> SecretPairs]
         /\ Rest /\ file'.flatPlain = file.flatPlain /\ chain'["flat"] = chain["flat"]
         /\ file'.hasServers = file.hasServers
         /\ \A t \in Servers : file'.servers[t].block = file.servers[t].block
         /\ \A t \in Servers, j \in Secrets : t # s \/ j # k =>
              file'.servers[t].plain[j] = file.servers[t].plain[j] /\ chain'[t][j] = chain[t][j]
         /\ \A t \in Servers : t # s => file'.servers[t] = file.servers[t]
         /\ file'.servers[s].plain[k] = NoLogin
         /\ IF up THEN chain'[s][k] = NoLogin ELSE chain' = chain
<1>1. NoLogin \in AnyLogin /\ "flat" \notin Servers
  BY ConfigAssumption DEF AnyLogin
<1>2. file \in ConfigFiles /\ chain \in [Servers \cup {"flat"} -> SecretPairs]
  BY DEF ConfigTypes
<1> DEFINE w == WithPlain(file, s, k, NoLogin)
<1>3. /\ chain' = IF up THEN [chain EXCEPT ![s][k] = NoLogin] ELSE chain
      /\ file' = [file EXCEPT !.servers = w]
  BY DEF DeleteSecret, WithPlain
<1>4. /\ w \in [Servers -> Entries]
      /\ \A t \in Servers : w[t].block = file.servers[t].block
      /\ \A t \in Servers, j \in Secrets : t # s \/ j # k => w[t].plain[j] = file.servers[t].plain[j]
      /\ \A t \in Servers : t # s => w[t] = file.servers[t]
      /\ w[s].plain[k] = NoLogin
  BY <1>1, <1>2, PlainIs
<1> HIDE DEF w
<1>5. file' \in ConfigFiles /\ file'.servers = w /\ Rest /\ file'.flatPlain = file.flatPlain
      /\ file'.hasServers = file.hasServers
  BY <1>2, <1>3, <1>4 DEF ConfigFiles, Rest
<1>6. /\ chain' \in [Servers \cup {"flat"} -> SecretPairs] /\ chain'["flat"] = chain["flat"]
      /\ \A t \in Servers, j \in Secrets : t # s \/ j # k => chain'[t][j] = chain[t][j]
      /\ IF up THEN chain'[s][k] = NoLogin ELSE chain' = chain
  BY <1>1, <1>2, <1>3 DEF SecretPairs
<1> QED
  BY <1>4, <1>5, <1>6

LEMMA DeletesFlat ==
  ASSUME ConfigTypes, NEW k \in Secrets, DeleteFlat(k)
  PROVE  /\ file' \in ConfigFiles /\ chain' \in [Servers \cup {"flat"} -> SecretPairs]
         /\ Rest /\ file'.servers = file.servers /\ file'.hasServers = file.hasServers
         /\ \A t \in Servers : chain'[t] = chain[t]
         /\ \A j \in Secrets : j # k =>
              file'.flatPlain[j] = file.flatPlain[j] /\ chain'["flat"][j] = chain["flat"][j]
         /\ file'.flatPlain[k] = NoLogin
         /\ IF up THEN chain'["flat"][k] = NoLogin ELSE chain' = chain
<1>1. NoLogin \in AnyLogin /\ "flat" \notin Servers
  BY ConfigAssumption DEF AnyLogin
<1>2. file \in ConfigFiles /\ chain \in [Servers \cup {"flat"} -> SecretPairs]
  BY DEF ConfigTypes
<1>3. /\ chain' = IF up THEN [chain EXCEPT !["flat"][k] = NoLogin] ELSE chain
      /\ file' = [file EXCEPT !.flatPlain[k] = NoLogin]
  BY DEF DeleteFlat
<1> QED
  BY <1>1, <1>2, <1>3 DEF ConfigFiles, SecretPairs, Rest

LEMMA HeldKept ==
  ASSUME ConfigTypes, OnePlace, UNCHANGED <<chain, up>>, file'.servers = file.servers,
         file'.flatPlain = file.flatPlain, file'.hasServers = file.hasServers
  PROVE  Held' = Held /\ HeldFlat' = HeldFlat /\ OnePlace'
<1>1. OnePlace'
  BY DEF OnePlace, PlainFile, ListsNone, Blank
<1> QED
  BY <1>1 DEF Held, HeldFlat, Secret, FlatSecret

\* Where the command is after a step.
LEMMA ToIs ==
  ASSUME proc \in Commands, NEW a \in CommandStages, To(a)
  PROVE  /\ proc' \in Commands /\ proc'.at = a /\ proc'.cmd = proc.cmd /\ proc'.k = proc.k
         /\ proc'.server = proc.server /\ proc'.store = proc.store
BY DEF To, Commands

LEMMA NextIs ==
  ASSUME proc \in Commands, NEW a \in CommandStages, NEW b \in CommandStages, NextSecret(a, b)
  PROVE  /\ proc' \in Commands /\ proc'.cmd = proc.cmd
         /\ proc'.server = proc.server /\ proc'.store = proc.store
         /\ \/ proc.k = "authToken" /\ proc'.k = "masterKey" /\ proc'.at = a
            \/ proc.k = "masterKey" /\ proc'.k = "authToken" /\ proc'.at = b
BY DEF NextSecret, Commands, Secrets

LEMMA NoProcIs ==
  /\ NoProc \in Commands /\ NoProc.at = "none" /\ NoProc.cmd = "none" /\ NoProc.k = "authToken"
  /\ NoProc.server = NoServer /\ EmptyFile \in ConfigFiles
BY DEF NoProc, Commands, CommandStages, Secrets, EmptyFile, ConfigFiles, Entries, SecretPairs, NoEntry,
       NoSecrets, AnyLogin

\* What every command but none has: nothing is got yet.
LEMMA NothingGot ==
  ASSUME ConfigInv, ~disturbed, proc.at # "none"
  PROVE  got = NoGot
BY NoProcIs DEF ConfigInv, Undisturbed, GotWhole

LEMMA MigrateKeeps == ConfigInv /\ Migrate => ConfigInv'
<1> SUFFICES ASSUME ConfigInv, Migrate PROVE ConfigInv'
  OBVIOUS
<1>0. file \in ConfigFiles /\ proc \in Commands /\ proc.at = "migrate" /\ proc.k = "authToken"
  BY DEF ConfigInv, ConfigTypes, Staged, Migrate
<1>1. /\ proc' \in Commands /\ proc'.cmd = proc.cmd /\ proc'.k = proc.k /\ proc'.server = proc.server
      /\ file' \in ConfigFiles /\ file'.servers = file.servers /\ file'.flatPlain = file.flatPlain
      /\ file'.hasServers = file.hasServers /\ file'.flat = file.flat
      /\ \/ proc'.at = "body" /\ file'.stamped
         \/ /\ proc'.at = "copy" /\ file' = file /\ ~file.stamped /\ file.flat # NoLogin
            /\ proc'.store = file
  <2>1. CASE file.stamped \/ file.flat = NoLogin
    <3>1. To("body") /\ file' = [file EXCEPT !.stamped = TRUE]
      BY <2>1 DEF Migrate
    <3> QED
      BY <1>0, <3>1, ToIs DEF CommandStages, ConfigFiles
  <2>2. CASE ~(file.stamped \/ file.flat = NoLogin)
    <3>1. proc' = [proc EXCEPT !.at = "copy", !.store = file] /\ file' = file
      BY <2>2 DEF Migrate
    <3> QED
      BY <1>0, <2>2, <3>1 DEF CommandStages, Migrating, Commands
  <2> QED
    BY <2>1, <2>2
<1>2. UNCHANGED <<chain, up, logins, got, finished, upgraded, left, disturbed>>
  BY DEF Migrate, history
<1>3. ConfigTypes' /\ Staged'
  <2>1. ConfigTypes'
    BY <1>1, <1>2 DEF ConfigInv, ConfigTypes
  <2>2. Staged'
    BY <1>0, <1>1, NoProcIs DEF ConfigInv, Staged, Entering, Forgetting
  <2> QED
    BY <2>1, <2>2
<1>4. ASSUME ~disturbed PROVE Undisturbed'
  <2>1. /\ Held' = Held /\ HeldFlat' = HeldFlat /\ OnePlace'
    BY <1>1, <1>2, <1>4, HeldKept DEF ConfigInv, Undisturbed
  <2>2. GotWhole'
    BY <1>0, <1>2, <1>4, NothingGot DEF GotWhole
  <2>3. EntriesWhole' /\ LoginGrows' /\ TokenFirst' /\ NoneLost'
    BY <1>0, <1>1, <1>2, <1>4, <2>1
    DEF ConfigInv, Undisturbed, EntriesWhole, LoginGrows, TokenFirst, NoneLost, Entering
  <2>4. FlatFirst'
    BY <1>0, <1>1, <1>2, <1>4, <2>1
    DEF ConfigInv, Undisturbed, FlatFirst, Migrating, Entering, Forgetting
  <2>5. Copied'
    BY <1>0, <1>1, <1>2, <1>4, <2>1
    DEF ConfigInv, Undisturbed, Copied, FlatFirst, Migrating, OnePlace, ListsNone, PlainFile, Blank
  <2> QED
    BY <2>1, <2>2, <2>3, <2>4, <2>5 DEF Undisturbed
<1> QED
  BY <1>2, <1>3, <1>4 DEF ConfigInv

\* A command may stop anywhere, but for a login.
LEMMA StopKeeps ==
  ASSUME ConfigInv, Quits, proc.cmd # "login",
         UNCHANGED <<file, chain, up, logins, got, finished, upgraded, left>>,
         proc.at # "none", ~disturbed' => ~disturbed
  PROVE  ConfigInv'
<1>1. proc' = NoProc
  BY DEF Quits
<1>2. ConfigTypes'
  BY <1>1, NoProcIs DEF ConfigInv, ConfigTypes
<1>3. Staged'
  BY <1>1, NoProcIs DEF ConfigInv, Staged, Entering, Forgetting
<1>4. ASSUME ~disturbed' PROVE Undisturbed'
  <2>1. /\ Held' = Held /\ HeldFlat' = HeldFlat /\ OnePlace'
    BY <1>4, HeldKept DEF ConfigInv, Undisturbed, ConfigTypes
  <2>2. GotWhole'
    BY <1>4, NothingGot DEF GotWhole
  <2>3. EntriesWhole'
    BY <1>1, <1>4, <2>1, NoProcIs DEF ConfigInv, Undisturbed, EntriesWhole, Entering, Staged
  <2>4. LoginGrows' /\ TokenFirst' /\ NoneLost'
    BY <1>1, <1>4, <2>1, NoProcIs DEF ConfigInv, Undisturbed, LoginGrows, TokenFirst, NoneLost
  <2>5. FlatFirst'
    BY <1>1, <1>4, <2>1, NoProcIs DEF ConfigInv, Undisturbed, FlatFirst, Migrating, Entering, Forgetting
  <2>6. Copied'
    BY <1>1, NoProcIs DEF Copied, Migrating
  <2> QED
    BY <2>1, <2>2, <2>3, <2>4, <2>5, <2>6 DEF Undisturbed
<1> QED
  BY <1>2, <1>3, <1>4 DEF ConfigInv

LEMMA CopyKeeps == ConfigInv /\ Copy => ConfigInv'
<1> SUFFICES ASSUME ConfigInv, Copy PROVE ConfigInv'
  OBVIOUS
<1>0. /\ ConfigTypes /\ proc \in Commands /\ proc.at = "copy" /\ proc.k \in Secrets
      /\ proc.cmd \notin {"none", "login"} /\ proc.server \in Servers \cup {NoServer}
      /\ file \in ConfigFiles /\ NoLogin \in AnyLogin
      /\ Legacy \in Servers
  BY NoProcIs, ConfigAssumption
  DEF ConfigInv, ConfigTypes, Staged, Copy, Commands, Entering, AnyLogin
<1>1. UNCHANGED <<up, logins, got, finished, upgraded, left, disturbed>>
  BY DEF Copy, history
<1>2. CASE FlatSecret(proc.k) = NoLogin
  <2>1. NextSecret("copy", "servers") /\ UNCHANGED <<file, chain>>
    BY <1>2 DEF Copy
  <2>2. /\ proc' \in Commands /\ proc'.cmd = proc.cmd
        /\ proc'.server = proc.server /\ proc'.store = proc.store
        /\ \/ proc.k = "authToken" /\ proc'.k = "masterKey" /\ proc'.at = "copy"
           \/ proc.k = "masterKey" /\ proc'.k = "authToken" /\ proc'.at = "servers"
    BY <1>0, <2>1, NextIs DEF CommandStages, Migrating
  <2>3. ConfigTypes' /\ Staged'
    <3>1. ConfigTypes'
      BY <1>1, <2>1, <2>2 DEF ConfigInv, ConfigTypes
    <3>2. Staged'
      BY <1>0, <2>2, NoProcIs DEF ConfigInv, Staged, Entering, Forgetting
    <3> QED
      BY <3>1, <3>2
  <2>4. ASSUME ~disturbed PROVE Undisturbed'
    <3>1. /\ Held' = Held /\ HeldFlat' = HeldFlat /\ OnePlace'
      BY <1>1, <2>1, <2>4, HeldKept DEF ConfigInv, Undisturbed, ConfigTypes
    <3>2. HeldFlat[proc.k] = NoLogin
      BY <1>0, <1>2 DEF HeldFlat
    <3>3. GotWhole'
      BY <1>0, <1>1, <2>4, NothingGot DEF GotWhole
    <3>4. EntriesWhole' /\ LoginGrows' /\ TokenFirst' /\ NoneLost'
      BY <1>0, <1>1, <2>1, <2>2, <2>4, <3>1
      DEF ConfigInv, Undisturbed, EntriesWhole, LoginGrows, TokenFirst, NoneLost, Entering
    <3>5. FlatFirst'
      BY <1>0, <1>1, <2>1, <2>2, <2>4, <3>1
      DEF ConfigInv, Undisturbed, FlatFirst, Migrating, Entering, Forgetting
    <3>6. Copied'
      BY <1>0, <1>1, <2>1, <2>2, <2>4, <3>1, <3>2
      DEF ConfigInv, Undisturbed, Copied, Migrating, ListsNone, PlainFile, Secrets
    <3> QED
      BY <3>1, <3>3, <3>4, <3>5, <3>6 DEF Undisturbed
  <2> QED
    BY <1>1, <2>3, <2>4 DEF ConfigInv
<1>3. CASE FlatSecret(proc.k) # NoLogin /\ SetSecret(proc.k, FlatSecret(proc.k), Legacy) /\ To("drop")
  <2> DEFINE v == FlatSecret(proc.k)
  <2>1. /\ proc' \in Commands /\ proc'.at = "drop" /\ proc'.cmd = proc.cmd /\ proc'.k = proc.k
        /\ proc'.server = proc.server /\ proc'.store = proc.store
    BY <1>0, <1>3, ToIs DEF CommandStages, Migrating
  <2>2. v \in AnyLogin
    BY <1>0, ConfigAssumption DEF ConfigTypes, ConfigFiles, SecretPairs, FlatSecret
  <2>3. /\ file' \in ConfigFiles /\ chain' \in [Servers \cup {"flat"} -> SecretPairs]
        /\ Rest /\ file'.flatPlain = file.flatPlain /\ chain'["flat"] = chain["flat"]
        /\ \A t \in Servers : file'.servers[t].block = file.servers[t].block
        /\ \A t \in Servers, j \in Secrets : t # Legacy \/ j # proc.k =>
             file'.servers[t].plain[j] = file.servers[t].plain[j] /\ chain'[t][j] = chain[t][j]
        /\ \A t \in Servers : t # Legacy => file'.servers[t] = file.servers[t]
        /\ up => /\ chain'[Legacy][proc.k] = v /\ file'.servers[Legacy].plain[proc.k] = NoLogin
                 /\ file'.hasServers = file.hasServers
        /\ ~up => chain' = chain /\ file'.servers[Legacy].plain[proc.k] = v /\ file'.hasServers = TRUE
    <3> HIDE DEF v
    <3> QED
      BY <1>0, <1>3, <2>2, SetsSecret DEF v
  <2> HIDE DEF v
  <2>4. ConfigTypes' /\ Staged'
    <3>1. ConfigTypes'
      BY <1>1, <2>1, <2>3 DEF ConfigInv, ConfigTypes
    <3>2. Staged'
      BY <1>0, <2>1, NoProcIs DEF ConfigInv, Staged, Entering, Forgetting
    <3> QED
      BY <3>1, <3>2
  <2>5. ASSUME ~disturbed PROVE Undisturbed'
    <3>0. OnePlace
      BY <2>5 DEF ConfigInv, Undisturbed
    <3>1. OnePlace'
      BY <1>0, <1>1, <2>3, <3>0 DEF OnePlace, PlainFile, ListsNone, Blank, Rest
    <3>2. /\ HeldFlat'[proc.k] = v /\ v # NoLogin
          /\ Held'[Legacy][proc.k] = v
          /\ \A j \in Secrets : HeldFlat'[j] = HeldFlat[j]
          /\ \A t \in Servers, j \in Secrets : t # Legacy \/ j # proc.k => Held'[t][j] = Held[t][j]
      <4>1. v = HeldFlat[proc.k]
        BY <1>0 DEF v, HeldFlat
      <4> QED
        BY <1>0, <1>1, <1>3, <2>3, <3>0, <3>1, <4>1, HeldIs, HeldIsAfter DEF v
    <3>3. GotWhole'
      BY <1>0, <1>1, <2>5, NothingGot DEF GotWhole
    <3>4. /\ file.flat = 0 /\ finished[Legacy] = 0 /\ v = 0 /\ file.servers[Legacy].block = NoLogin
      BY <1>0, <2>5, <3>2 DEF ConfigInv, Undisturbed, FlatFirst, Migrating
    <3>5. EntriesWhole'
      BY <1>0, <1>1, <2>1, <2>3, <2>5, <3>2, <3>4
      DEF ConfigInv, Undisturbed, EntriesWhole, Entering, Secrets
    <3>6. LoginGrows' /\ TokenFirst' /\ NoneLost'
      BY <1>0, <1>1, <2>1, <2>3, <2>5, <3>2
      DEF ConfigInv, Undisturbed, LoginGrows, TokenFirst, NoneLost
    <3>7. FlatFirst'
      BY <1>0, <1>1, <2>1, <2>3, <2>5, <3>2, <3>4
      DEF ConfigInv, Undisturbed, FlatFirst, Migrating, Entering, Forgetting, Rest
    <3>8. Copied'
      BY <1>0, <1>1, <2>1, <2>3, <2>5, <3>2
      DEF ConfigInv, Undisturbed, Copied, Migrating, ListsNone, PlainFile, Secrets
    <3> QED
      BY <3>1, <3>3, <3>5, <3>6, <3>7, <3>8 DEF Undisturbed
  <2> QED
    BY <1>1, <2>4, <2>5 DEF ConfigInv
<1>4. CASE Quits /\ UNCHANGED <<file, chain>>
  BY <1>0, <1>1, <1>4, StopKeeps
<1> QED
  BY <1>2, <1>3, <1>4 DEF Copy

LEMMA DropKeeps == ConfigInv /\ Drop => ConfigInv'
<1> SUFFICES ASSUME ConfigInv, Drop PROVE ConfigInv'
  OBVIOUS
<1>0. /\ ConfigTypes /\ proc \in Commands /\ proc.at = "drop" /\ proc.k \in Secrets
      /\ proc.cmd \notin {"none", "login"}
  BY NoProcIs DEF ConfigInv, ConfigTypes, Staged, Drop, Commands, Entering
<1>1. UNCHANGED <<up, logins, got, finished, upgraded, left, disturbed>>
  BY DEF Drop, history
<1>2. /\ proc' \in Commands /\ proc'.cmd = proc.cmd
      /\ proc'.server = proc.server /\ proc'.store = proc.store
      /\ \/ proc.k = "authToken" /\ proc'.k = "masterKey" /\ proc'.at = "copy"
         \/ proc.k = "masterKey" /\ proc'.k = "authToken" /\ proc'.at = "servers"
  BY <1>0, NextIs DEF Drop, CommandStages, Migrating
<1>3. /\ file' \in ConfigFiles /\ chain' \in [Servers \cup {"flat"} -> SecretPairs]
      /\ Rest /\ file'.servers = file.servers /\ file'.hasServers = file.hasServers
      /\ \A t \in Servers : chain'[t] = chain[t]
      /\ \A j \in Secrets : j # proc.k =>
           file'.flatPlain[j] = file.flatPlain[j] /\ chain'["flat"][j] = chain["flat"][j]
      /\ file'.flatPlain[proc.k] = NoLogin
      /\ IF up THEN chain'["flat"][proc.k] = NoLogin ELSE chain' = chain
  BY <1>0, DeletesFlat DEF Drop
<1>4. ConfigTypes'
  BY <1>1, <1>2, <1>3 DEF ConfigInv, ConfigTypes
<1>5. Staged'
  BY <1>0, <1>2, NoProcIs DEF ConfigInv, Staged, Entering, Forgetting
<1>6. ASSUME ~disturbed PROVE Undisturbed'
  <2>0. OnePlace
    BY <1>6 DEF ConfigInv, Undisturbed
  <2>1. OnePlace'
    BY <1>0, <1>1, <1>3, <2>0 DEF OnePlace, PlainFile, ListsNone, Blank, Rest
  <2>2. /\ HeldFlat'[proc.k] = NoLogin
        /\ \A j \in Secrets : j # proc.k => HeldFlat'[j] = HeldFlat[j]
        /\ \A t \in Servers, j \in Secrets : Held'[t][j] = Held[t][j]
    BY <1>0, <1>1, <1>3, <2>0, <2>1, HeldIs, HeldIsAfter
  <2>3. GotWhole'
    BY <1>0, <1>1, <1>6, NothingGot DEF GotWhole
  <2>4. EntriesWhole'
    BY <1>0, <1>1, <1>2, <1>3, <1>6, <2>2 DEF ConfigInv, Undisturbed, EntriesWhole, Entering, Secrets
  <2>5. LoginGrows' /\ TokenFirst'
    BY <1>2 DEF LoginGrows, TokenFirst
  <2>6. NoneLost'
    BY <1>0, <1>1, <1>6, <2>2, ConfigAssumption DEF ConfigInv, Undisturbed, NoneLost, Copied
  <2>7. FlatFirst'
    BY <1>0, <1>1, <1>2, <1>3, <1>6, <2>2
    DEF ConfigInv, Undisturbed, FlatFirst, Migrating, Entering, Forgetting, Rest
  <2>8. Copied'
    BY <1>0, <1>1, <1>2, <1>3, <1>6, <2>2
    DEF ConfigInv, Undisturbed, Copied, Migrating, ListsNone, PlainFile, Secrets
  <2> QED
    BY <2>1, <2>3, <2>4, <2>5, <2>6, <2>7, <2>8 DEF Undisturbed
<1> QED
  BY <1>1, <1>4, <1>5, <1>6 DEF ConfigInv

LEMMA WriteActiveKeeps == ConfigInv /\ (WriteActive \/ Stamp) => ConfigInv'
<1> SUFFICES ASSUME ConfigInv, WriteActive \/ Stamp PROVE ConfigInv'
  OBVIOUS
<1>0. /\ ConfigTypes /\ proc \in Commands /\ file \in ConfigFiles /\ proc.k = "authToken"
      /\ proc.at \in {"active", "stamp"}
      /\ proc.cmd \notin {"none", "login"} /\ Legacy \in Servers
  BY NoProcIs, ConfigAssumption
  DEF ConfigInv, ConfigTypes, Staged, WriteActive, Stamp, Commands, Entering
<1>1. UNCHANGED <<chain, up, logins, got, finished, upgraded, left, disturbed>>
  BY DEF WriteActive, Stamp, history
<1>2. /\ proc' \in Commands /\ proc'.cmd = proc.cmd /\ proc'.k = proc.k
      /\ proc'.server = proc.server /\ proc'.store = proc.store
      /\ \/ proc.at = "active" /\ proc'.at = "stamp"
         \/ proc.at = "stamp" /\ proc'.at = "clean"
  <2>1. CASE WriteActive
    <3>1. To("stamp") /\ proc.at = "active"
      BY <2>1 DEF WriteActive
    <3> QED
      BY <1>0, <3>1, ToIs DEF CommandStages, Migrating
  <2>2. CASE Stamp
    <3>1. To("clean") /\ proc.at = "stamp"
      BY <2>2 DEF Stamp
    <3> QED
      BY <1>0, <3>1, ToIs DEF CommandStages, Migrating
  <2> QED
    BY <2>1, <2>2
<1>3. /\ file' \in ConfigFiles /\ file'.servers = file.servers /\ file'.flatPlain = file.flatPlain
      /\ file'.hasServers = file.hasServers /\ file'.flat = file.flat
      /\ proc.at = "active" => file'.stamped = file.stamped
      /\ file.stamped => file'.stamped
  BY <1>0 DEF WriteActive, Stamp, ConfigFiles
<1>4. ConfigTypes'
  BY <1>1, <1>2, <1>3 DEF ConfigInv, ConfigTypes
<1>5. Staged'
  BY <1>0, <1>2, NoProcIs DEF ConfigInv, Staged, Entering, Forgetting
<1>6. ASSUME ~disturbed PROVE Undisturbed'
  <2>1. /\ Held' = Held /\ HeldFlat' = HeldFlat /\ OnePlace'
    BY <1>1, <1>3, <1>6, HeldKept DEF ConfigInv, Undisturbed, ConfigTypes
  <2>2. GotWhole'
    BY <1>0, <1>1, <1>6, NothingGot DEF GotWhole
  <2>3. EntriesWhole' /\ LoginGrows' /\ TokenFirst' /\ NoneLost'
    BY <1>0, <1>1, <1>2, <1>3, <1>6, <2>1
    DEF ConfigInv, Undisturbed, EntriesWhole, LoginGrows, TokenFirst, NoneLost, Entering
  <2>4. FlatFirst'
    BY <1>0, <1>1, <1>2, <1>3, <1>6, <2>1
    DEF ConfigInv, Undisturbed, FlatFirst, Migrating, Entering, Forgetting
  <2>5. Copied'
    BY <1>0, <1>1, <1>2, <1>3, <1>6, <2>1
    DEF ConfigInv, Undisturbed, Copied, Migrating, ListsNone, PlainFile
  <2> QED
    BY <2>1, <2>2, <2>3, <2>4, <2>5 DEF Undisturbed
<1> QED
  BY <1>1, <1>4, <1>5, <1>6 DEF ConfigInv

LEMMA MigratedIs ==
  ASSUME proc \in Commands, Legacy \in Servers
  PROVE  /\ MigratedServers \in [Servers -> Entries]
         /\ MigratedServers[Legacy].block = proc.store.flat
         /\ \A k \in Secrets : MigratedServers[Legacy].plain[k] = NoLogin
         /\ \A s \in Servers : s # Legacy => MigratedServers[s] = proc.store.servers[s]
<1> DEFINE e == [NoEntry EXCEPT !.block = proc.store.flat]
<1>1. proc.store \in ConfigFiles
  BY DEF Commands
<1>2. proc.store.flat \in AnyLogin /\ proc.store.servers \in [Servers -> Entries]
  BY <1>1 DEF ConfigFiles
<1>3. /\ e \in Entries /\ e.block = proc.store.flat
      /\ \A k \in Secrets : e.plain[k] = NoLogin
  BY <1>2 DEF Entries, NoEntry, NoSecrets, SecretPairs, AnyLogin
<1>4. MigratedServers = [proc.store.servers EXCEPT ![Legacy] = e]
  BY DEF MigratedServers
<1> HIDE DEF e
<1> QED
  BY <1>2, <1>3, <1>4

LEMMA WriteServersKeeps == ConfigInv /\ WriteServers => ConfigInv'
<1> SUFFICES ASSUME ConfigInv, WriteServers PROVE ConfigInv'
  OBVIOUS
<1>0. /\ ConfigTypes /\ proc \in Commands /\ proc.at = "servers" /\ proc.k = "authToken"
      /\ proc.cmd \notin {"none", "login"} /\ Legacy \in Servers /\ file \in ConfigFiles
      /\ proc.store \in ConfigFiles
  BY NoProcIs, ConfigAssumption
  DEF ConfigInv, ConfigTypes, Staged, WriteServers, Commands, Entering
<1>1. UNCHANGED <<chain, up, logins, got, finished, upgraded, left, disturbed>>
  BY DEF WriteServers, history
<1> DEFINE m == MigratedServers
           w == IF proc.store.hasServers THEN m ELSE proc.store.servers
           st == [proc.store EXCEPT !.servers = w]
<1>2. /\ m \in [Servers -> Entries]
      /\ m[Legacy].block = proc.store.flat
      /\ \A k \in Secrets : m[Legacy].plain[k] = NoLogin
      /\ \A s \in Servers : s # Legacy => m[s] = proc.store.servers[s]
  BY <1>0, MigratedIs
<1>3. file' = [file EXCEPT !.servers = m, !.hasServers = TRUE]
  BY DEF WriteServers
<1>4. proc' = [proc EXCEPT !.at = "active", !.store = st]
  BY DEF WriteServers
<1>5. w \in [Servers -> Entries]
  BY <1>0, <1>2 DEF ConfigFiles
<1> HIDE DEF m, w
<1>6. /\ file' \in ConfigFiles /\ file'.servers = m /\ file'.flatPlain = file.flatPlain
      /\ file'.hasServers /\ file'.flat = file.flat /\ file'.stamped = file.stamped
  BY <1>0, <1>2, <1>3 DEF ConfigFiles
<1>7. /\ st \in ConfigFiles /\ st.servers = w /\ st.flatPlain = proc.store.flatPlain
      /\ st.hasServers = proc.store.hasServers /\ st.flat = proc.store.flat
  BY <1>0, <1>5 DEF ConfigFiles
<1> HIDE DEF st
<1>8. /\ proc' \in Commands /\ proc'.cmd = proc.cmd /\ proc'.k = proc.k /\ proc'.at = "active"
      /\ proc'.server = proc.server /\ proc'.store = st
  BY <1>0, <1>4, <1>7 DEF Commands, CommandStages, Migrating
<1>9. ConfigTypes'
  BY <1>1, <1>6, <1>8 DEF ConfigInv, ConfigTypes
<1>10. Staged'
  BY <1>0, <1>8, NoProcIs DEF ConfigInv, Staged, Entering, Forgetting
<1>11. ASSUME ~disturbed PROVE Undisturbed'
  <2>0. OnePlace
    BY <1>11 DEF ConfigInv, Undisturbed
  <2>1. /\ proc.store.flat = 0 /\ ListsNone(proc.store) /\ PlainFile(proc.store)
        /\ \A s \in Servers : s # Legacy =>
             Blank(proc.store.servers[s]) \/ proc.store.servers[s] = file.servers[s]
        /\ \A k \in Secrets : HeldFlat[k] = NoLogin
    BY <1>0, <1>11 DEF ConfigInv, Undisturbed, Copied, Migrating
  <2>2. /\ file.flat = 0 /\ finished[Legacy] = 0 /\ upgraded /\ ~left
    BY <1>0, <1>11 DEF ConfigInv, Undisturbed, FlatFirst, Migrating
  <2>3. OnePlace'
    BY <1>0, <1>1, <1>2, <1>6, <2>0, <2>1 DEF OnePlace, PlainFile, ListsNone
  <2>4. /\ \A j \in Secrets : HeldFlat'[j] = NoLogin
        /\ up => \A t \in Servers, j \in Secrets : Held'[t][j] = Held[t][j]
        /\ ~up => \A t \in Servers, j \in Secrets : Held'[t][j] = m[t].plain[j]
    BY <1>0, <1>1, <1>6, <2>0, <2>1, <2>3, HeldIs, HeldIsAfter
  <2>5. GotWhole'
    BY <1>0, <1>1, <1>11, NothingGot DEF GotWhole
  <2>6. EntriesWhole'
    <3>1. SUFFICES ASSUME NEW s \in Servers
          PROVE  /\ m[s].block \in {NoLogin, finished[s]}
                 /\ \A k \in Secrets : Held'[s][k] \in {NoLogin, finished[s]}
                 /\ m[s].block # NoLogin /\ Held'[s]["authToken"] # NoLogin => Held'[s]["masterKey"] # NoLogin
      BY <1>1, <1>6 DEF EntriesWhole
    <3>2. /\ file.servers[s].block \in {NoLogin, finished[s]}
          /\ \A k \in Secrets : Held[s][k] \in {NoLogin, finished[s]}
          /\ file.servers[s].block # NoLogin /\ Held[s]["authToken"] # NoLogin => Held[s]["masterKey"] # NoLogin
      BY <1>0, <1>11 DEF ConfigInv, Undisturbed, EntriesWhole, Entering
    <3>3. \A k \in Secrets : ~up => Held[s][k] = file.servers[s].plain[k]
      BY <2>0, HeldIs
    <3>4. CASE s = Legacy
      <4>1. up => \A k \in Secrets : Held[s][k] # NoLogin
        BY <2>1, <2>2, <1>11, <3>4 DEF ConfigInv, Undisturbed, NoneLost
      <4> QED
        BY <1>2, <2>1, <2>2, <2>4, <3>2, <3>4, <4>1 DEF Secrets
    <3>5. CASE s # Legacy
      <4>1. m[s] = file.servers[s] \/ Blank(m[s])
        BY <1>2, <2>1, <3>5
      <4> QED
        BY <2>4, <3>2, <3>3, <4>1 DEF Blank, Secrets
    <3> QED
      BY <3>4, <3>5
  <2>7. LoginGrows' /\ TokenFirst'
    BY <1>8 DEF LoginGrows, TokenFirst
  <2>8. NoneLost'
    BY <1>0, <1>1, <1>11, <2>1, <2>4 DEF ConfigInv, Undisturbed, NoneLost
  <2>9. FlatFirst'
    BY <1>0, <1>1, <1>6, <1>8, <1>11, <2>2, <2>4
    DEF ConfigInv, Undisturbed, FlatFirst, Migrating, Entering, Forgetting
  <2>10. Copied'
    <3>1. ListsNone(st) /\ PlainFile(st)
      BY <1>2, <1>7, <2>1 DEF ListsNone, PlainFile, w
    <3>2. \A s \in Servers : Blank(st.servers[s]) \/ st.servers[s] = m[s]
      BY <1>2, <1>7, <2>1 DEF ListsNone, w
    <3> QED
      BY <1>1, <1>6, <1>7, <1>8, <2>1, <2>4, <3>1, <3>2
      DEF Copied, Migrating, PlainFile, ListsNone, Blank
  <2> QED
    BY <2>3, <2>5, <2>6, <2>7, <2>8, <2>9, <2>10 DEF Undisturbed
<1> QED
  BY <1>1, <1>9, <1>10, <1>11 DEF ConfigInv

LEMMA CleanKeeps == ConfigInv /\ Clean => ConfigInv'
<1> SUFFICES ASSUME ConfigInv, Clean PROVE ConfigInv'
  OBVIOUS
<1>0. /\ ConfigTypes /\ proc \in Commands /\ proc.at = "clean" /\ proc.k = "authToken"
      /\ proc.cmd \notin {"none", "login"} /\ Legacy \in Servers /\ file \in ConfigFiles
      /\ proc.store \in ConfigFiles
  BY NoProcIs, ConfigAssumption
  DEF ConfigInv, ConfigTypes, Staged, Clean, Commands, Entering
<1>1. UNCHANGED <<chain, up, logins, got, finished, upgraded, left, disturbed>>
  BY DEF Clean, history
<1>2. /\ proc' \in Commands /\ proc'.cmd = proc.cmd /\ proc'.k = proc.k /\ proc'.at = "body"
      /\ proc'.server = proc.server /\ proc'.store = proc.store
  BY <1>0, ToIs DEF Clean, CommandStages
<1>3. file' = [proc.store EXCEPT !.flat = NoLogin, !.flatPlain = NoSecrets]
  BY DEF Clean
<1>4. NoLogin \in AnyLogin /\ NoSecrets \in SecretPairs /\ \A k \in Secrets : NoSecrets[k] = NoLogin
  BY DEF AnyLogin, NoSecrets, SecretPairs
<1>5. /\ file' \in ConfigFiles /\ file'.servers = proc.store.servers /\ file'.flatPlain = NoSecrets
      /\ file'.hasServers = proc.store.hasServers /\ file'.flat = NoLogin
  BY <1>0, <1>3, <1>4 DEF ConfigFiles
<1>6. ConfigTypes'
  BY <1>1, <1>2, <1>5 DEF ConfigInv, ConfigTypes
<1>7. Staged'
  BY <1>0, <1>2, NoProcIs DEF ConfigInv, Staged, Entering, Forgetting
<1>8. ASSUME ~disturbed PROVE Undisturbed'
  <2>0. OnePlace
    BY <1>8 DEF ConfigInv, Undisturbed
  <2>1. /\ ListsNone(proc.store) /\ PlainFile(proc.store)
        /\ \A s \in Servers :
             Blank(proc.store.servers[s]) \/ proc.store.servers[s] = file.servers[s]
        /\ \A k \in Secrets : HeldFlat[k] = NoLogin
    BY <1>0, <1>8 DEF ConfigInv, Undisturbed, Copied, Migrating
  <2>2. OnePlace'
    BY <1>1, <1>4, <1>5, <2>0, <2>1 DEF OnePlace, PlainFile, ListsNone, Blank
  <2>3. /\ \A j \in Secrets : HeldFlat'[j] = NoLogin
        /\ up => \A t \in Servers, j \in Secrets : Held'[t][j] = Held[t][j]
        /\ ~up => \A t \in Servers, j \in Secrets : Held'[t][j] = proc.store.servers[t].plain[j]
    BY <1>1, <1>4, <1>5, <2>0, <2>1, <2>2, HeldIs, HeldIsAfter
  <2>4. GotWhole'
    BY <1>0, <1>1, <1>8, NothingGot DEF GotWhole
  <2>5. EntriesWhole'
    <3>1. SUFFICES ASSUME NEW s \in Servers
          PROVE  /\ proc.store.servers[s].block \in {NoLogin, finished[s]}
                 /\ \A k \in Secrets : Held'[s][k] \in {NoLogin, finished[s]}
                 /\ proc.store.servers[s].block # NoLogin /\ Held'[s]["authToken"] # NoLogin =>
                      Held'[s]["masterKey"] # NoLogin
      BY <1>1, <1>5 DEF EntriesWhole
    <3>2. /\ file.servers[s].block \in {NoLogin, finished[s]}
          /\ \A k \in Secrets : Held[s][k] \in {NoLogin, finished[s]}
          /\ file.servers[s].block # NoLogin /\ Held[s]["authToken"] # NoLogin => Held[s]["masterKey"] # NoLogin
      BY <1>0, <1>8 DEF ConfigInv, Undisturbed, EntriesWhole, Entering
    <3>3. \A k \in Secrets : ~up => Held[s][k] = file.servers[s].plain[k]
      BY <2>0, HeldIs
    <3> QED
      BY <2>1, <2>3, <3>2, <3>3 DEF Blank, Secrets
  <2>6. LoginGrows' /\ TokenFirst' /\ Copied'
    BY <1>2, <2>3 DEF LoginGrows, TokenFirst, Copied, Migrating
  <2>7. NoneLost'
    BY <1>0, <1>1, <1>8, <2>1, <2>3, ConfigAssumption DEF ConfigInv, Undisturbed, NoneLost
  <2>8. FlatFirst'
    BY <1>0, <1>2, <1>5 DEF FlatFirst, Migrating, Entering, Forgetting
  <2> QED
    BY <2>2, <2>4, <2>5, <2>6, <2>7, <2>8 DEF Undisturbed
<1> QED
  BY <1>1, <1>6, <1>7, <1>8 DEF ConfigInv

LEMMA GetConfigKeeps == ConfigInv /\ GetConfig => ConfigInv'
<1> SUFFICES ASSUME ConfigInv, GetConfig PROVE ConfigInv'
  OBVIOUS
<1>0. /\ ConfigTypes /\ proc \in Commands /\ proc.at = "body" /\ proc.cmd = "run"
      /\ file \in ConfigFiles
  BY DEF ConfigInv, ConfigTypes, GetConfig
<1>1. UNCHANGED <<file, chain, up, logins, finished, upgraded, left, disturbed>>
  BY DEF GetConfig, history
<1>2. proc' = NoProc
  BY DEF GetConfig, Quits
<1> DEFINE a == file.active
           full == LoggedIn /\ Secret("authToken", a) # NoLogin
           all == [server |-> a, block |-> file.servers[a].block, secrets |-> [k \in Secrets |-> Secret(k, a)]]
<1>3. \/ got' = NoGot
      \/ full /\ got' = all
  BY DEF GetConfig
<1>4. a \in Servers \cup {NoServer} /\ (full => a \in Servers /\ file.servers[a].block # NoLogin)
  BY <1>0 DEF LoggedIn, ConfigFiles
<1>5. /\ Held \in [Servers -> SecretPairs]
      /\ full => /\ all.server = a /\ all.block = file.servers[a].block
                 /\ all.secrets = Held[a]
                 /\ Held[a]["authToken"] # NoLogin
  <2>1. \A s \in Servers, k \in Secrets : Secret(k, s) \in AnyLogin
    BY <1>0 DEF ConfigTypes, ConfigFiles, Entries, SecretPairs, Secret
  <2> QED
    BY <1>4, <2>1 DEF Held, SecretPairs, Secrets
<1>6. NoGot \in [server : Servers \cup {NoServer}, block : AnyLogin, secrets : SecretPairs]
  BY DEF NoGot, NoSecrets, AnyLogin, SecretPairs
<1>7. full => all \in [server : Servers \cup {NoServer}, block : AnyLogin, secrets : SecretPairs]
  BY <1>0, <1>4, <1>5 DEF ConfigFiles, Entries
<1> HIDE DEF all, full, a
<1>8. ConfigTypes'
  BY <1>0, <1>1, <1>2, <1>3, <1>6, <1>7, NoProcIs DEF ConfigTypes
<1>9. Staged'
  BY <1>2, NoProcIs DEF Staged, Entering, Forgetting
<1>10. ASSUME ~disturbed PROVE Undisturbed'
  <2>1. /\ Held' = Held /\ HeldFlat' = HeldFlat /\ OnePlace'
    BY <1>0, <1>1, <1>10, HeldKept DEF ConfigInv, Undisturbed
  <2>2. GotWhole'
    <3>1. CASE full /\ got' = all
      <4>1. /\ file.servers[a].block \in {NoLogin, finished[a]}
            /\ \A k \in Secrets : Held[a][k] \in {NoLogin, finished[a]}
            /\ file.servers[a].block # NoLogin /\ Held[a]["authToken"] # NoLogin => Held[a]["masterKey"] # NoLogin
        BY <1>0, <1>4, <1>10, <3>1 DEF ConfigInv, Undisturbed, EntriesWhole, Entering
      <4> QED
        BY <1>1, <1>2, <1>4, <1>5, <3>1, <4>1 DEF GotWhole, Secrets
    <3> QED
      BY <1>3, <3>1 DEF GotWhole
  <2>3. EntriesWhole' /\ LoginGrows' /\ TokenFirst' /\ NoneLost' /\ Copied'
    BY <1>0, <1>1, <1>2, <1>10, <2>1, NoProcIs
    DEF ConfigInv, Undisturbed, EntriesWhole, LoginGrows, TokenFirst, NoneLost, Copied, Entering, Migrating
  <2>4. FlatFirst'
    BY <1>0, <1>1, <1>2, <1>10, <2>1, NoProcIs
    DEF ConfigInv, Undisturbed, FlatFirst, Migrating, Entering, Forgetting
  <2> QED
    BY <2>1, <2>2, <2>3, <2>4 DEF Undisturbed
<1> QED
  BY <1>1, <1>8, <1>9, <1>10 DEF ConfigInv

LEMMA LogoutKeeps == ConfigInv /\ Logout => ConfigInv'
<1> SUFFICES ASSUME ConfigInv, Logout PROVE ConfigInv'
  OBVIOUS
<1>0. /\ ConfigTypes /\ proc \in Commands /\ proc.at = "body" /\ proc.k = "authToken"
      /\ proc.cmd = "logout" /\ file.active \in Servers \cup {NoServer}
  BY DEF ConfigInv, ConfigTypes, ConfigFiles, Staged, Logout
<1>1. /\ UNCHANGED <<file, chain, up, logins, got, finished, upgraded, disturbed>>
      /\ left' = (left \/ file.active = Legacy)
  BY DEF Logout
<1>2. \/ proc' = NoProc
      \/ /\ proc' \in Commands /\ proc'.at = "forget" /\ proc'.cmd = proc.cmd /\ proc'.k = proc.k
         /\ proc'.server = file.active /\ proc'.server \in Servers
  BY <1>0 DEF Logout, Commands, CommandStages, Forgetting
<1>3. ConfigTypes'
  BY <1>0, <1>1, <1>2, NoProcIs DEF ConfigTypes
<1>4. Staged'
  BY <1>0, <1>2, NoProcIs DEF Staged, Entering, Forgetting
<1>5. ASSUME ~disturbed PROVE Undisturbed'
  <2>1. /\ Held' = Held /\ HeldFlat' = HeldFlat /\ OnePlace'
    BY <1>0, <1>1, <1>5, HeldKept DEF ConfigInv, Undisturbed
  <2>2. GotWhole'
    BY <1>0, <1>1, <1>5, NothingGot DEF GotWhole
  <2>3. EntriesWhole' /\ LoginGrows' /\ TokenFirst' /\ NoneLost' /\ Copied'
    BY <1>0, <1>1, <1>2, <1>5, <2>1, NoProcIs
    DEF ConfigInv, Undisturbed, EntriesWhole, LoginGrows, TokenFirst, NoneLost, Copied, Entering, Migrating
  <2>4. FlatFirst'
    BY <1>0, <1>1, <1>2, <1>5, <2>1, NoProcIs
    DEF ConfigInv, Undisturbed, FlatFirst, Migrating, Entering, Forgetting
  <2> QED
    BY <2>1, <2>2, <2>3, <2>4 DEF Undisturbed
<1> QED
  BY <1>1, <1>3, <1>4, <1>5 DEF ConfigInv

LEMMA ForgetKeeps == ConfigInv /\ Forget => ConfigInv'
<1> SUFFICES ASSUME ConfigInv, Forget PROVE ConfigInv'
  OBVIOUS
<1> DEFINE s == proc.server
<1>0. /\ ConfigTypes /\ proc \in Commands /\ proc.at = "forget" /\ proc.k \in Secrets
      /\ proc.cmd \notin {"none", "login"} /\ s \in Servers
  BY NoProcIs DEF ConfigInv, ConfigTypes, Staged, Forget, Commands, Entering, Forgetting
<1>1. UNCHANGED <<up, logins, got, finished, upgraded, left, disturbed>>
  BY DEF Forget, history
<1>2. /\ proc' \in Commands /\ proc'.cmd = proc.cmd
      /\ proc'.server = s /\ proc'.store = proc.store
      /\ \/ proc.k = "authToken" /\ proc'.k = "masterKey" /\ proc'.at = "forget"
         \/ proc.k = "masterKey" /\ proc'.k = "authToken" /\ proc'.at = "unlist"
  BY <1>0, NextIs DEF Forget, CommandStages, Forgetting
<1>3. /\ file' \in ConfigFiles /\ chain' \in [Servers \cup {"flat"} -> SecretPairs]
      /\ Rest /\ file'.flatPlain = file.flatPlain /\ chain'["flat"] = chain["flat"]
      /\ file'.hasServers = file.hasServers
      /\ \A t \in Servers : file'.servers[t].block = file.servers[t].block
      /\ \A t \in Servers, j \in Secrets : t # s \/ j # proc.k =>
           file'.servers[t].plain[j] = file.servers[t].plain[j] /\ chain'[t][j] = chain[t][j]
      /\ \A t \in Servers : t # s => file'.servers[t] = file.servers[t]
      /\ file'.servers[s].plain[proc.k] = NoLogin
      /\ IF up THEN chain'[s][proc.k] = NoLogin ELSE chain' = chain
  BY <1>0, DeletesSecret DEF Forget
<1> HIDE DEF s
<1>4. ConfigTypes'
  BY <1>1, <1>2, <1>3 DEF ConfigInv, ConfigTypes
<1>5. Staged'
  BY <1>0, <1>2, NoProcIs DEF ConfigInv, Staged, Entering, Forgetting
<1>6. ASSUME ~disturbed PROVE Undisturbed'
  <2>0. OnePlace
    BY <1>6 DEF ConfigInv, Undisturbed
  <2>1. OnePlace'
    BY <1>0, <1>1, <1>3, <2>0 DEF OnePlace, PlainFile, ListsNone, Blank, Rest
  <2>2. /\ Held'[s][proc.k] = NoLogin
        /\ \A j \in Secrets : HeldFlat'[j] = HeldFlat[j]
        /\ \A t \in Servers, j \in Secrets : t # s \/ j # proc.k => Held'[t][j] = Held[t][j]
    BY <1>0, <1>1, <1>3, <2>0, <2>1, HeldIs, HeldIsAfter
  <2>3. GotWhole'
    BY <1>0, <1>1, <1>6, NothingGot DEF GotWhole
  <2>4. EntriesWhole'
    <3>1. proc.k = "masterKey" => Held[s]["authToken"] = NoLogin
      BY <1>0, <1>6 DEF ConfigInv, Undisturbed, TokenFirst, s
    <3> QED
      BY <1>0, <1>1, <1>2, <1>3, <1>6, <2>2, <3>1
      DEF ConfigInv, Undisturbed, EntriesWhole, Entering, Secrets
  <2>5. LoginGrows' /\ TokenFirst' /\ Copied'
    BY <1>0, <1>2, <2>2 DEF LoginGrows, TokenFirst, Copied, Migrating
  <2>6. s = Legacy => left
    BY <1>0, <1>6 DEF ConfigInv, Undisturbed, FlatFirst, Forgetting, s
  <2>7. NoneLost'
    BY <1>0, <1>1, <1>6, <2>2, <2>6, ConfigAssumption DEF ConfigInv, Undisturbed, NoneLost
  <2>8. FlatFirst'
    BY <1>0, <1>1, <1>2, <1>3, <1>6, <2>2, <2>6, ConfigAssumption
    DEF ConfigInv, Undisturbed, FlatFirst, Migrating, Entering, Forgetting, Rest
  <2> QED
    BY <2>1, <2>3, <2>4, <2>5, <2>7, <2>8 DEF Undisturbed
<1> QED
  BY <1>1, <1>4, <1>5, <1>6 DEF ConfigInv

LEMMA UnlistKeeps == ConfigInv /\ Unlist => ConfigInv'
<1> SUFFICES ASSUME ConfigInv, Unlist PROVE ConfigInv'
  OBVIOUS
<1> DEFINE s == proc.server
<1>0. /\ ConfigTypes /\ proc \in Commands /\ proc.at = "unlist" /\ proc.k = "authToken"
      /\ proc.cmd \notin {"none", "login"} /\ s \in Servers /\ file \in ConfigFiles
  BY NoProcIs DEF ConfigInv, ConfigTypes, Staged, Unlist, Commands, Entering, Forgetting
<1>1. UNCHANGED <<chain, up, logins, got, finished, upgraded, left, disturbed>>
  BY DEF Unlist, history
<1>2. /\ proc' \in Commands /\ proc'.cmd = proc.cmd /\ proc'.k = proc.k /\ proc'.at = "deactivate"
      /\ proc'.server = s /\ proc'.store = proc.store
  BY <1>0, ToIs DEF Unlist, CommandStages, Forgetting
<1>3. NoEntry \in Entries /\ NoEntry.block = NoLogin /\ \A k \in Secrets : NoEntry.plain[k] = NoLogin
  BY DEF NoEntry, Entries, NoSecrets, SecretPairs, AnyLogin
<1>4. /\ file' \in ConfigFiles /\ Rest /\ file'.flatPlain = file.flatPlain
      /\ file'.hasServers = file.hasServers
      /\ \A t \in Servers : file'.servers[t] = IF t = s THEN NoEntry ELSE file.servers[t]
  BY <1>0, <1>3 DEF Unlist, ConfigFiles, Rest
<1> HIDE DEF s
<1>5. ConfigTypes'
  BY <1>1, <1>2, <1>4 DEF ConfigInv, ConfigTypes
<1>6. Staged'
  BY <1>0, <1>2, NoProcIs DEF ConfigInv, Staged, Entering, Forgetting
<1>7. ASSUME ~disturbed PROVE Undisturbed'
  <2>0. OnePlace
    BY <1>7 DEF ConfigInv, Undisturbed
  <2>1. OnePlace'
    BY <1>0, <1>1, <1>3, <1>4, <2>0 DEF OnePlace, PlainFile, ListsNone, Blank, Rest
  <2>2. /\ \A j \in Secrets : HeldFlat'[j] = HeldFlat[j]
        /\ \A t \in Servers, j \in Secrets : t # s \/ up => Held'[t][j] = Held[t][j]
        /\ ~up => \A j \in Secrets : Held'[s][j] = NoLogin
    BY <1>0, <1>1, <1>3, <1>4, <2>0, <2>1, HeldIs, HeldIsAfter
  <2>3. GotWhole'
    BY <1>0, <1>1, <1>7, NothingGot DEF GotWhole
  <2>4. EntriesWhole'
    BY <1>0, <1>1, <1>2, <1>3, <1>4, <1>7, <2>2
    DEF ConfigInv, Undisturbed, EntriesWhole, Entering, Secrets
  <2>5. LoginGrows' /\ TokenFirst' /\ Copied'
    BY <1>0, <1>2, <2>2 DEF LoginGrows, TokenFirst, Copied, Migrating
  <2>6. s = Legacy => left
    BY <1>0, <1>7 DEF ConfigInv, Undisturbed, FlatFirst, Forgetting, s
  <2>7. NoneLost'
    BY <1>0, <1>1, <1>7, <2>2, <2>6, ConfigAssumption DEF ConfigInv, Undisturbed, NoneLost
  <2>8. FlatFirst'
    BY <1>0, <1>1, <1>2, <1>3, <1>4, <1>7, <2>2, <2>6, ConfigAssumption
    DEF ConfigInv, Undisturbed, FlatFirst, Migrating, Entering, Forgetting, Rest
  <2> QED
    BY <2>1, <2>3, <2>4, <2>5, <2>7, <2>8 DEF Undisturbed
<1> QED
  BY <1>1, <1>5, <1>6, <1>7 DEF ConfigInv

LEMMA DeactivateKeeps == ConfigInv /\ Deactivate => ConfigInv'
<1> SUFFICES ASSUME ConfigInv, Deactivate PROVE ConfigInv'
  OBVIOUS
<1>0. /\ ConfigTypes /\ proc.at = "deactivate" /\ proc.cmd # "login" /\ file \in ConfigFiles
  BY DEF ConfigInv, ConfigTypes, Staged, Deactivate, Entering
<1>1. UNCHANGED <<chain, up, logins, got, finished, upgraded, left, disturbed>> /\ proc' = NoProc
  BY DEF Deactivate, history, Quits
<1>2. /\ file' \in ConfigFiles /\ file'.servers = file.servers /\ file'.flatPlain = file.flatPlain
      /\ file'.hasServers = file.hasServers /\ file'.flat = file.flat /\ file'.stamped = file.stamped
  BY <1>0 DEF Deactivate, ConfigFiles
<1>3. ConfigTypes'
  BY <1>0, <1>1, <1>2, NoProcIs DEF ConfigTypes
<1>4. Staged'
  BY <1>1, NoProcIs DEF Staged, Entering, Forgetting
<1>5. ASSUME ~disturbed PROVE Undisturbed'
  <2>1. /\ Held' = Held /\ HeldFlat' = HeldFlat /\ OnePlace'
    BY <1>0, <1>1, <1>2, <1>5, HeldKept DEF ConfigInv, Undisturbed
  <2>2. GotWhole'
    BY <1>0, <1>1, <1>5, NothingGot DEF GotWhole
  <2>3. EntriesWhole' /\ LoginGrows' /\ TokenFirst' /\ NoneLost' /\ Copied'
    BY <1>0, <1>1, <1>2, <1>5, <2>1, NoProcIs
    DEF ConfigInv, Undisturbed, EntriesWhole, LoginGrows, TokenFirst, NoneLost, Copied, Entering, Migrating
  <2>4. FlatFirst'
    BY <1>0, <1>1, <1>2, <1>5, <2>1, NoProcIs
    DEF ConfigInv, Undisturbed, FlatFirst, Migrating, Entering, Forgetting
  <2> QED
    BY <2>1, <2>2, <2>3, <2>4 DEF Undisturbed
<1> QED
  BY <1>1, <1>3, <1>4, <1>5 DEF ConfigInv

LEMMA KeepSecretKeeps == ConfigInv /\ KeepSecret => ConfigInv'
<1> SUFFICES ASSUME ConfigInv, KeepSecret PROVE ConfigInv'
  OBVIOUS
<1> DEFINE s == proc.server
<1>0. /\ ConfigTypes /\ proc \in Commands /\ proc.at = "keep" /\ proc.k \in Secrets
      /\ proc.cmd = "login" /\ s \in Servers /\ logins \in AnyLogin /\ logins # NoLogin
  BY DEF ConfigInv, ConfigTypes, Staged, KeepSecret, Commands, Entering, AnyLogin, Logins, NoLogin
<1>1. UNCHANGED <<up, logins, got, finished, upgraded, left>>
  BY DEF KeepSecret
<1>2. CASE SetSecret(proc.k, logins, s) /\ NextSecret("keep", "enter") /\ UNCHANGED disturbed
  <2>1. /\ proc' \in Commands /\ proc'.cmd = proc.cmd
        /\ proc'.server = s /\ proc'.store = proc.store
        /\ \/ proc.k = "authToken" /\ proc'.k = "masterKey" /\ proc'.at = "keep"
           \/ proc.k = "masterKey" /\ proc'.k = "authToken" /\ proc'.at = "enter"
    BY <1>0, <1>2, NextIs DEF CommandStages, Entering
  <2>2. /\ file' \in ConfigFiles /\ chain' \in [Servers \cup {"flat"} -> SecretPairs]
        /\ Rest /\ file'.flatPlain = file.flatPlain /\ chain'["flat"] = chain["flat"]
        /\ \A t \in Servers : file'.servers[t].block = file.servers[t].block
        /\ \A t \in Servers, j \in Secrets : t # s \/ j # proc.k =>
             file'.servers[t].plain[j] = file.servers[t].plain[j] /\ chain'[t][j] = chain[t][j]
        /\ \A t \in Servers : t # s => file'.servers[t] = file.servers[t]
        /\ up => /\ chain'[s][proc.k] = logins /\ file'.servers[s].plain[proc.k] = NoLogin
                 /\ file'.hasServers = file.hasServers
        /\ ~up => chain' = chain /\ file'.servers[s].plain[proc.k] = logins /\ file'.hasServers = TRUE
    BY <1>0, <1>2, SetsSecret
  <2> HIDE DEF s
  <2>3. ConfigTypes'
    BY <1>0, <1>1, <2>1, <2>2 DEF ConfigTypes
  <2>4. Staged'
    BY <1>0, <2>1 DEF Staged, Entering, Forgetting
  <2>5. ASSUME ~disturbed PROVE Undisturbed'
    <3>0. OnePlace
      BY <2>5 DEF ConfigInv, Undisturbed
    <3>1. OnePlace'
      BY <1>0, <1>1, <2>2, <3>0 DEF OnePlace, PlainFile, ListsNone, Blank, Rest
    <3>2. /\ Held'[s][proc.k] = logins
          /\ \A j \in Secrets : HeldFlat'[j] = HeldFlat[j]
          /\ \A t \in Servers, j \in Secrets : t # s \/ j # proc.k => Held'[t][j] = Held[t][j]
      BY <1>0, <1>1, <2>2, <3>0, <3>1, HeldIs, HeldIsAfter
    <3>3. GotWhole'
      BY <1>0, <1>1, <2>5, NothingGot DEF GotWhole
    <3>4. EntriesWhole'
      BY <1>0, <1>1, <2>1, <2>2, <2>5, <3>2
      DEF ConfigInv, Undisturbed, EntriesWhole, Entering, Secrets, s
    <3>5. LoginGrows'
      BY <1>0, <1>1, <2>1, <2>5, <3>2 DEF ConfigInv, Undisturbed, LoginGrows, Secrets, s
    <3>6. NoneLost'
      BY <1>0, <1>1, <2>5, <3>2, ConfigAssumption DEF ConfigInv, Undisturbed, NoneLost
    <3>7. FlatFirst' /\ Copied' /\ TokenFirst'
      BY <1>0, <1>1, <2>1, <2>2, <2>5
      DEF ConfigInv, Undisturbed, FlatFirst, Copied, TokenFirst, Migrating, Entering, Forgetting, Rest
    <3> QED
      BY <3>1, <3>3, <3>4, <3>5, <3>6, <3>7 DEF Undisturbed
  <2> QED
    BY <1>2, <2>3, <2>4, <2>5 DEF ConfigInv
<1>3. CASE Quits /\ disturbed' = TRUE /\ UNCHANGED <<file, chain>>
  <2>1. ConfigTypes' /\ Staged'
    BY <1>0, <1>1, <1>3, NoProcIs DEF ConfigTypes, Staged, Entering, Forgetting, Quits
  <2> QED
    BY <1>3, <2>1 DEF ConfigInv
<1> QED
  BY <1>2, <1>3 DEF KeepSecret

LEMMA EnterKeeps == ConfigInv /\ Enter => ConfigInv'
<1> SUFFICES ASSUME ConfigInv, Enter PROVE ConfigInv'
  OBVIOUS
<1> DEFINE s == proc.server
           e == [file.servers[s] EXCEPT !.block = logins]
           w == [file.servers EXCEPT ![s] = e]
<1>0. /\ ConfigTypes /\ proc \in Commands /\ proc.at = "enter" /\ proc.k = "authToken"
      /\ proc.cmd = "login" /\ s \in Servers /\ logins \in AnyLogin /\ file \in ConfigFiles
  BY DEF ConfigInv, ConfigTypes, Staged, Enter, Commands, Entering, AnyLogin, Logins
<1>1. UNCHANGED <<chain, up, logins, got, finished, upgraded, left, disturbed>>
  BY DEF Enter, history
<1>2. /\ proc' \in Commands /\ proc'.cmd = proc.cmd /\ proc'.k = proc.k /\ proc'.at = "activate"
      /\ proc'.server = s /\ proc'.store = proc.store
  BY <1>0, ToIs DEF Enter, CommandStages, Entering
<1>3. file' = [file EXCEPT !.hasServers = TRUE, !.servers = w]
  BY DEF Enter
<1>4. file.servers \in [Servers -> Entries] /\ file.servers[s] \in Entries
  BY <1>0 DEF ConfigFiles
<1>5. e \in Entries /\ e.block = logins /\ e.plain = file.servers[s].plain
  BY <1>0, <1>4 DEF Entries
<1> HIDE DEF e
<1>6. w \in [Servers -> Entries] /\ w[s] = e /\ \A t \in Servers : t # s => w[t] = file.servers[t]
  BY <1>0, <1>4, <1>5
<1> HIDE DEF s, w
<1>7. /\ file' \in ConfigFiles /\ Rest /\ file'.flatPlain = file.flatPlain /\ file'.hasServers
      /\ file'.servers = w
  BY <1>0, <1>3, <1>6 DEF ConfigFiles, Rest
<1>8. /\ w[s].block = logins
      /\ \A t \in Servers : t # s => w[t].block = file.servers[t].block
      /\ \A t \in Servers, j \in Secrets : w[t].plain[j] = file.servers[t].plain[j]
  BY <1>5, <1>6
<1>9. ConfigTypes'
  BY <1>1, <1>2, <1>7 DEF ConfigInv, ConfigTypes
<1>10. Staged'
  BY <1>0, <1>2 DEF Staged, Entering, Forgetting
<1>11. ASSUME ~disturbed PROVE Undisturbed'
  <2>0. OnePlace
    BY <1>11 DEF ConfigInv, Undisturbed
  <2>1. OnePlace'
    BY <1>0, <1>1, <1>7, <1>8, <2>0 DEF OnePlace, PlainFile, ListsNone, Rest
  <2>2. /\ \A j \in Secrets : HeldFlat'[j] = HeldFlat[j]
        /\ \A t \in Servers, j \in Secrets : Held'[t][j] = Held[t][j]
    BY <1>0, <1>1, <1>7, <1>8, <2>0, <2>1, HeldIs, HeldIsAfter
  <2>3. GotWhole'
    BY <1>0, <1>1, <1>11, NothingGot DEF GotWhole
  <2>4. EntriesWhole'
    BY <1>0, <1>1, <1>2, <1>7, <1>8, <1>11, <2>2
    DEF ConfigInv, Undisturbed, EntriesWhole, Entering, Secrets, s
  <2>5. LoginGrows'
    BY <1>0, <1>1, <1>2, <1>7, <1>8, <1>11, <2>2 DEF ConfigInv, Undisturbed, LoginGrows, s
  <2>6. NoneLost'
    BY <1>0, <1>1, <1>11, <2>2, ConfigAssumption DEF ConfigInv, Undisturbed, NoneLost
  <2>7. FlatFirst' /\ Copied' /\ TokenFirst'
    BY <1>0, <1>1, <1>2, <1>7, <1>11
    DEF ConfigInv, Undisturbed, FlatFirst, Copied, TokenFirst, Migrating, Entering, Forgetting, Rest
  <2> QED
    BY <2>1, <2>3, <2>4, <2>5, <2>6, <2>7 DEF Undisturbed
<1> QED
  BY <1>1, <1>9, <1>10, <1>11 DEF ConfigInv

LEMMA ActivateKeeps == ConfigInv /\ Activate => ConfigInv'
<1> SUFFICES ASSUME ConfigInv, Activate PROVE ConfigInv'
  OBVIOUS
<1> DEFINE s == proc.server
<1>0. /\ ConfigTypes /\ proc.at = "activate" /\ proc.cmd = "login" /\ s \in Servers
      /\ logins \in AnyLogin /\ logins # NoLogin /\ file \in ConfigFiles
  BY DEF ConfigInv, ConfigTypes, Staged, Activate, Entering, AnyLogin, Logins, NoLogin
<1>1. /\ UNCHANGED <<chain, up, logins, got, upgraded, left, disturbed>> /\ proc' = NoProc
      /\ finished' = [finished EXCEPT ![s] = logins]
  BY DEF Activate, Quits
<1>2. /\ file' \in ConfigFiles /\ file'.servers = file.servers /\ file'.flatPlain = file.flatPlain
      /\ file'.hasServers = file.hasServers /\ file'.flat = file.flat /\ file'.stamped = file.stamped
  BY <1>0 DEF Activate, ConfigFiles
<1>3. ConfigTypes'
  BY <1>0, <1>1, <1>2, NoProcIs DEF ConfigTypes
<1>4. Staged'
  BY <1>1, NoProcIs DEF Staged, Entering, Forgetting
<1>5. ASSUME ~disturbed PROVE Undisturbed'
  <2>1. /\ Held' = Held /\ HeldFlat' = HeldFlat /\ OnePlace'
    BY <1>0, <1>1, <1>2, <1>5, HeldKept DEF ConfigInv, Undisturbed
  <2>2. GotWhole'
    BY <1>0, <1>1, <1>5, NothingGot DEF GotWhole
  <2>3. file.servers[s].block = logins /\ \A k \in Secrets : Held[s][k] = logins
    BY <1>0, <1>5 DEF ConfigInv, Undisturbed, LoginGrows
  <2>4. \A t \in Servers : finished'[t] = IF t = s THEN logins ELSE finished[t]
    BY <1>0, <1>1 DEF ConfigTypes
  <2>5. EntriesWhole'
    BY <1>0, <1>1, <1>2, <1>5, <2>1, <2>3, <2>4
    DEF ConfigInv, Undisturbed, EntriesWhole, Entering, Secrets
  <2>6. LoginGrows' /\ TokenFirst' /\ NoneLost' /\ Copied'
    BY <1>0, <1>1, <1>2, <1>5, <2>1, NoProcIs
    DEF ConfigInv, Undisturbed, LoginGrows, TokenFirst, NoneLost, Copied, Entering, Migrating
  <2>7. FlatFirst'
    BY <1>0, <1>1, <1>2, <1>5, <2>1, NoProcIs
    DEF ConfigInv, Undisturbed, FlatFirst, Migrating, Entering, Forgetting
  <2> QED
    BY <2>1, <2>2, <2>5, <2>6, <2>7 DEF Undisturbed
<1> QED
  BY <1>1, <1>3, <1>4, <1>5 DEF ConfigInv

LEMMA BeginKeeps ==
  ASSUME ConfigInv, NEW c \in {"login", "logout", "run"}, NEW s \in Servers, Begin(c, s)
  PROVE  ConfigInv'
<1>0. /\ ConfigTypes /\ proc = NoProc /\ got' = NoGot
      /\ UNCHANGED <<file, chain, up, finished, upgraded, left>>
  BY DEF ConfigInv, Begin
<1>1. NoGot \in [server : Servers \cup {NoServer}, block : AnyLogin, secrets : SecretPairs]
  BY DEF NoGot, NoSecrets, AnyLogin, SecretPairs
<1>2. /\ proc' \in Commands /\ proc'.k = "authToken" /\ proc'.cmd = c /\ logins' \in Logins
      /\ \/ c = "login" /\ proc'.at = "keep" /\ proc'.server = s
         \/ c # "login" /\ proc'.at = "migrate"
  <2>1. CASE c = "login"
    <3>1. proc' = [NoProc EXCEPT !.cmd = c, !.at = "keep", !.server = s] /\ logins < MaxLogins
          /\ logins' = logins + 1
      BY <2>1 DEF Begin
    <3>2. logins' \in Logins
      BY <1>0, <3>1, ConfigAssumption DEF ConfigTypes, Logins
    <3> QED
      BY <2>1, <3>1, <3>2, NoProcIs DEF Commands, CommandStages, Entering
  <2>2. CASE c # "login"
    <3>1. proc' = [NoProc EXCEPT !.cmd = c, !.at = "migrate"] /\ logins' = logins
      BY <2>2 DEF Begin
    <3> QED
      BY <1>0, <2>2, <3>1, NoProcIs DEF Commands, CommandStages, ConfigTypes
  <2> QED
    BY <2>1, <2>2
<1>3. ConfigTypes'
  BY <1>0, <1>1, <1>2 DEF ConfigTypes
<1>4. Staged'
  BY <1>2 DEF Staged, Entering, Forgetting
<1>5. ASSUME ~disturbed' PROVE Undisturbed'
  <2>0. ~disturbed /\ (c = "login" => file.flat = NoLogin)
    BY <1>5 DEF Begin
  <2>1. /\ Held' = Held /\ HeldFlat' = HeldFlat /\ OnePlace'
    BY <1>0, <2>0, HeldKept DEF ConfigInv, Undisturbed
  <2>2. GotWhole'
    BY <1>0 DEF GotWhole
  <2>3. EntriesWhole' /\ LoginGrows' /\ TokenFirst' /\ NoneLost' /\ Copied'
    BY <1>0, <1>2, <2>0, <2>1, NoProcIs
    DEF ConfigInv, Undisturbed, EntriesWhole, LoginGrows, TokenFirst, NoneLost, Copied, Entering, Migrating
  <2>4. FlatFirst'
    BY <1>0, <1>2, <2>0, <2>1, NoProcIs
    DEF ConfigInv, Undisturbed, FlatFirst, Migrating, Entering, Forgetting
  <2> QED
    BY <2>1, <2>2, <2>3, <2>4 DEF Undisturbed
<1> QED
  BY <1>3, <1>4, <1>5 DEF ConfigInv

LEMMA KilledKeeps == ConfigInv /\ (Killed \/ KeychainTurns) => ConfigInv'
<1> SUFFICES ASSUME ConfigInv, Killed \/ KeychainTurns PROVE ConfigInv'
  OBVIOUS
<1>1. CASE Killed /\ proc.cmd # "login"
  <2>1. proc.at # "none"
    BY <1>1 DEF Killed, ConfigInv, Staged
  <2>2. /\ UNCHANGED <<file, chain, up, logins, got, finished, upgraded, left>> /\ Quits
        /\ ~disturbed' => ~disturbed
    BY <1>1 DEF Killed
  <2> QED
    BY <1>1, <2>1, <2>2, StopKeeps
<1>2. CASE Killed /\ proc.cmd = "login"
  <2>1. ConfigTypes' /\ Staged'
    BY <1>2, NoProcIs DEF ConfigInv, ConfigTypes, Staged, Entering, Forgetting, Quits, Killed
  <2> QED
    BY <1>2, <2>1 DEF ConfigInv, Killed
<1>3. CASE KeychainTurns
  BY <1>3 DEF KeychainTurns, ConfigInv, ConfigTypes, Staged
<1> QED
  BY <1>1, <1>2, <1>3

LEMMA ConfigStarts == ConfigInit => ConfigInv
<1> SUFFICES ASSUME ConfigInit PROVE ConfigInv
  OBVIOUS
<1> DEFINE own == [k \in Secrets |-> 0]
<1>0. /\ proc = NoProc /\ logins = 0 /\ got = NoGot /\ ~left /\ ~disturbed
      /\ up \in BOOLEAN /\ upgraded \in BOOLEAN
      /\ finished = [s \in Servers |-> IF s = Legacy /\ upgraded THEN 0 ELSE NoLogin]
      /\ chain = [x \in Servers \cup {"flat"} |-> IF x = "flat" /\ upgraded /\ up THEN own ELSE NoSecrets]
      /\ file = IF upgraded
                THEN [EmptyFile EXCEPT !.flat = 0, !.flatPlain = IF up THEN NoSecrets ELSE own]
                ELSE EmptyFile
      /\ "flat" \notin Servers /\ Legacy \in Servers
  BY ConfigAssumption DEF ConfigInit
<1>1. own \in SecretPairs /\ NoSecrets \in SecretPairs /\ {0, NoLogin} \subseteq AnyLogin /\ 0 \in Logins
  BY ConfigAssumption DEF SecretPairs, AnyLogin, Logins, NoSecrets
<1>2. /\ EmptyFile \in ConfigFiles /\ EmptyFile.flat = NoLogin /\ EmptyFile.flatPlain = NoSecrets
      /\ EmptyFile.servers = [s \in Servers |-> NoEntry] /\ EmptyFile.hasServers = FALSE
      /\ EmptyFile.stamped = FALSE
  BY NoProcIs DEF EmptyFile
<1> HIDE DEF own
<1>3. /\ file \in ConfigFiles /\ file.servers = [s \in Servers |-> NoEntry]
      /\ ~file.hasServers /\ ~file.stamped
      /\ file.flat = IF upgraded THEN 0 ELSE NoLogin
      /\ file.flatPlain = IF upgraded /\ ~up THEN own ELSE NoSecrets
  BY <1>0, <1>1, <1>2 DEF ConfigFiles
<1>4. ConfigTypes
  <2>1. chain \in [Servers \cup {"flat"} -> SecretPairs] /\ finished \in [Servers -> AnyLogin]
    BY <1>0, <1>1
  <2>2. NoGot \in [server : Servers \cup {NoServer}, block : AnyLogin, secrets : SecretPairs]
    BY <1>1 DEF NoGot
  <2> QED
    BY <1>0, <1>1, <1>3, <2>1, <2>2, NoProcIs DEF ConfigTypes
<1>5. Staged
  BY <1>0, NoProcIs DEF Staged, Entering, Forgetting
<1>6. /\ \A k \in Secrets : own[k] = 0 /\ NoSecrets[k] = NoLogin
      /\ \A s \in Servers : file.servers[s].block = NoLogin
      /\ \A s \in Servers, k \in Secrets : file.servers[s].plain[k] = NoLogin /\ chain[s][k] = NoLogin
  BY <1>0, <1>3 DEF own, NoSecrets, NoEntry
<1>7. OnePlace
  BY <1>0, <1>3, <1>6 DEF OnePlace, PlainFile, ListsNone, Blank
<1>8. /\ \A s \in Servers, k \in Secrets : Held[s][k] = NoLogin
      /\ \A k \in Secrets : HeldFlat[k] = IF upgraded THEN 0 ELSE NoLogin
  BY <1>0, <1>3, <1>6, <1>7, HeldIs
<1>9. EntriesWhole /\ LoginGrows /\ TokenFirst /\ Copied /\ GotWhole
  BY <1>0, <1>6, <1>8, NoProcIs
  DEF EntriesWhole, LoginGrows, TokenFirst, Copied, GotWhole, Migrating, Secrets
<1>10. FlatFirst /\ NoneLost
  BY <1>0, <1>3, <1>6, <1>8, NoProcIs
  DEF FlatFirst, NoneLost, Migrating, Entering, Forgetting, NoLogin
<1> QED
  BY <1>4, <1>5, <1>7, <1>9, <1>10 DEF ConfigInv, Undisturbed

LEMMA ConfigStays == ConfigInv /\ [ConfigNext]_configVars => ConfigInv'
<1> SUFFICES ASSUME ConfigInv, [ConfigNext]_configVars PROVE ConfigInv'
  OBVIOUS
<1>1. CASE UNCHANGED configVars
  <2>1. ConfigTypes' /\ Staged'
    BY <1>1 DEF configVars, ConfigInv, ConfigTypes, Staged
  <2>2. ASSUME ~disturbed PROVE Undisturbed'
    <3>1. Held' = Held /\ HeldFlat' = HeldFlat /\ OnePlace'
      BY <1>1, <2>2, HeldKept DEF configVars, ConfigInv, Undisturbed
    <3> QED
      BY <1>1, <2>2, <3>1
      DEF configVars, ConfigInv, Undisturbed, GotWhole, EntriesWhole, LoginGrows, FlatFirst, Copied,
          TokenFirst, NoneLost, ListsNone, PlainFile
  <2> QED
    BY <1>1, <2>1, <2>2 DEF configVars, ConfigInv
<1>2. CASE ConfigNext
  BY <1>2, BeginKeeps, MigrateKeeps, CopyKeeps, DropKeeps, WriteServersKeeps, WriteActiveKeeps,
     CleanKeeps, GetConfigKeeps, LogoutKeeps, ForgetKeeps, UnlistKeeps, DeactivateKeeps,
     KeepSecretKeeps, EnterKeeps, ActivateKeeps, KilledKeeps
  DEF ConfigNext
<1> QED
  BY <1>1, <1>2

LEMMA ConfigSafe == ConfigSpec => []ConfigInv
BY ConfigStarts, ConfigStays, PTL DEF ConfigSpec

\* What the CLI keeps on a machine has its types.
THEOREM ConfigTypeCorrect == ConfigSpec => []ConfigTypeOK
<1>1. ConfigInv => ConfigTypeOK
  BY DEF ConfigInv, ConfigTypes, ConfigTypeOK, ConfigFiles, Entries, SecretPairs, AnyLogin, Commands
<1> QED
  BY <1>1, ConfigSafe, PTL

\* Whatever commands are run, and wherever migrations and logouts are killed: unless a
\* login is cut short or comes before the migration, or the keychain comes or goes, what a
\* command gets is of one login, and no secret of the flat configuration is lost.
THEOREM OneLoginKept == ConfigSpec => []OneLogin
<1>1. ConfigInv => OneLogin
  <2> SUFFICES ASSUME ConfigInv, ~disturbed PROVE OneLogin
    BY DEF OneLogin
  <2>1. GotWhole /\ OnePlace /\ NoneLost
    BY DEF ConfigInv, Undisturbed
  <2>2. Legacy \in Servers
    BY ConfigAssumption
  <2>3. up => \A k \in Secrets : HeldFlat[k] = chain["flat"][k] /\ Held[Legacy][k] = chain[Legacy][k]
    BY <2>1, <2>2, HeldIs
  <2> QED
    BY <2>1, <2>3 DEF OneLogin, GotWhole, NoneLost
<1> QED
  BY <1>1, ConfigSafe, PTL

(***************************************************************************)
(* The binary frames.                                                      *)
(***************************************************************************)

\* A number and its last digit.
LEMMA LastDigit ==
  ASSUME NEW n \in Nat
  PROVE  /\ n \div Base \in Nat /\ n % Base \in Bytes
         /\ n = (n \div Base) * Base + (n % Base)
<1>1. Base \in Nat /\ Base > 0
  BY FrameAssumption
<1>2. n \div Base \in Int /\ n % Base \in 0..(Base - 1)
  BY <1>1
<1>3. n = Base * (n \div Base) + (n % Base)
  BY <1>1
<1> DEFINE q == n \div Base
           r == n % Base
<1> HIDE DEF q, r
<1>4. q >= 0
  <2>1. q \in Int /\ r \in 0..(Base - 1) /\ n = Base * q + r
    BY <1>2, <1>3 DEF q, r
  <2>2. ASSUME q <= -1 PROVE FALSE
    <3>1. Base * q <= Base * (-1)
      BY <1>1, <2>1, <2>2
    <3> QED
      BY <1>1, <2>1, <3>1
  <2> QED
    BY <2>1, <2>2
<1> QED
  BY <1>1, <1>2, <1>3, <1>4 DEF q, r, Bytes

\* A number below m * Base has less than m before its last digit.
LEMMA FewerDigits ==
  ASSUME NEW n \in Nat, NEW m \in Nat, n < m * Base
  PROVE  n \div Base < m
<1> DEFINE q == n \div Base
           r == n % Base
<1>1. q \in Nat /\ r \in Int /\ r >= 0 /\ n = q * Base + r /\ Base \in Nat
  <2>1. q \in Nat /\ r \in Bytes /\ n = q * Base + r
    BY LastDigit
  <2> HIDE DEF q, r
  <2> QED
    BY <2>1, FrameAssumption DEF Bytes
<1> HIDE DEF q, r
<1>2. ASSUME q >= m PROVE FALSE
  <2>1. q * Base >= m * Base
    BY <1>1, <1>2
  <2>2. q * Base \in Nat /\ m * Base \in Nat
    BY <1>1
  <2> QED
    BY <1>1, <2>1, <2>2
<1> QED
  BY <1>1, <1>2 DEF q

\* What setUint32 writes, getUint32 reads.
LEMMA NumberOfUInt32 ==
  ASSUME NEW n \in 0..(Word - 1), NEW bytes, NEW at \in Nat,
         \A i \in 1..4 : bytes[at + i] = UInt32(n)[i]
  PROVE  Number(bytes, at) = n
<1> DEFINE second == n \div Base
           third  == second \div Base
           fourth == third \div Base
<1>1. Base \in Nat /\ Base * Base \in Nat /\ Base * Base * Base \in Nat /\ Word \in Nat
  BY FrameAssumption DEF Word
<1>2. n \in Nat /\ n < (Base * Base * Base) * Base
  BY <1>1 DEF Word
<1>3. second \in Nat /\ n = second * Base + (n % Base) /\ second < (Base * Base) * Base
  BY <1>1, <1>2, LastDigit, FewerDigits
<1> HIDE DEF second
<1>4. third \in Nat /\ second = third * Base + (second % Base) /\ third < Base * Base
  BY <1>1, <1>3, LastDigit, FewerDigits
<1> HIDE DEF third
<1>5. fourth \in Nat /\ third = fourth * Base + (third % Base) /\ fourth < Base
  BY <1>1, <1>4, LastDigit, FewerDigits
<1> HIDE DEF fourth
<1>6. fourth % Base = fourth
  BY <1>1, <1>5
<1>7. UInt32(n) = <<fourth % Base, third % Base, second % Base, n % Base>>
  BY DEF UInt32, second, third, fourth
<1>8. /\ bytes[at + 1] = fourth /\ bytes[at + 2] = third % Base
      /\ bytes[at + 3] = second % Base /\ bytes[at + 4] = n % Base
  BY <1>6, <1>7
<1>9. Number(bytes, at) = ((fourth * Base + (third % Base)) * Base + (second % Base)) * Base + (n % Base)
  BY <1>8 DEF Number
<1> QED
  BY <1>3, <1>4, <1>5, <1>9

LEMMA UInt32Bytes ==
  ASSUME NEW n \in Nat
  PROVE  UInt32(n) \in Seq(Bytes) /\ Len(UInt32(n)) = 4
<1> DEFINE second == n \div Base
           third  == second \div Base
           fourth == third \div Base
<1>1. second \in Nat /\ n % Base \in Bytes
  BY LastDigit
<1> HIDE DEF second
<1>2. third \in Nat /\ second % Base \in Bytes
  BY <1>1, LastDigit
<1> HIDE DEF third
<1>3. fourth \in Nat /\ third % Base \in Bytes
  BY <1>2, LastDigit
<1> HIDE DEF fourth
<1>4. fourth % Base \in Bytes
  BY <1>3, LastDigit
<1>5. UInt32(n) = <<fourth % Base, third % Base, second % Base, n % Base>>
  BY DEF UInt32, second, third, fourth
<1> QED
  BY <1>1, <1>2, <1>3, <1>4, <1>5

\* Bytes are numbers, and two sequences of them one behind the other.
LEMMA BytesAreNumbers ==
  ASSUME NEW s \in Seq(Bytes)
  PROVE  s \in Seq(Nat) /\ Len(s) \in Nat
<1>1. Bytes \subseteq Nat
  BY FrameAssumption DEF Bytes
<1> QED
  BY <1>1, SeqMonotonic, LenProperties

Joined(s, t) == s \o t

\* s is in e, behind the first `at` of it.
HasAt(e, at, s) == \A i \in 1..Len(s) : e[at + i] = s[i]

LEMMA JoinedIs ==
  ASSUME NEW s \in Seq(Nat), NEW t \in Seq(Nat)
  PROVE  /\ Joined(s, t) \in Seq(Nat) /\ Len(s) \in Nat /\ Len(t) \in Nat
         /\ Len(Joined(s, t)) = Len(s) + Len(t)
         /\ HasAt(Joined(s, t), 0, s) /\ HasAt(Joined(s, t), Len(s), t)
<1>1. Len(s) \in Nat /\ Len(t) \in Nat
  BY LenProperties
<1>2. /\ s \o t \in Seq(Nat) /\ Len(s \o t) = Len(s) + Len(t)
      /\ \A i \in 1..(Len(s) + Len(t)) :
           (s \o t)[i] = IF i <= Len(s) THEN s[i] ELSE t[i - Len(s)]
  BY ConcatProperties
<1>3. HasAt(Joined(s, t), 0, s) /\ HasAt(Joined(s, t), Len(s), t)
  BY <1>1, <1>2 DEF Joined, HasAt
<1> QED
  BY <1>1, <1>2, <1>3 DEF Joined

LEMMA HasAtTransitive ==
  ASSUME NEW e, NEW c, NEW s, NEW at \in Nat,
         Len(s) \in Nat, Len(c) \in Nat, at + Len(s) <= Len(c),
         HasAt(e, 0, c), HasAt(c, at, s)
  PROVE  HasAt(e, at, s)
<1> SUFFICES ASSUME NEW i \in 1..Len(s)
             PROVE  e[at + i] = s[i]
  BY DEF HasAt
<1>1. at + i \in 1..Len(c) /\ 0 + (at + i) = at + i
  OBVIOUS
<1>2. e[0 + (at + i)] = c[at + i]
  BY <1>1, Zenon DEF HasAt
<1>3. c[at + i] = s[i]
  BY Zenon DEF HasAt
<1> QED
  BY <1>1, <1>2, <1>3, Zenon

\* Five sequences one behind the other.
Concatenated(head, idLen, id, dataLen, data) ==
  Joined(Joined(Joined(Joined(head, idLen), id), dataLen), data)

LEMMA Layout ==
  ASSUME NEW head \in Seq(Nat), NEW idLen \in Seq(Nat), NEW id \in Seq(Nat),
         NEW dataLen \in Seq(Nat), NEW data \in Seq(Nat),
         Len(head) = 4, Len(idLen) = 4, Len(dataLen) = 4
  PROVE  LET e == Concatenated(head, idLen, id, dataLen, data)
         IN  /\ e \in Seq(Nat) /\ Len(e) = 12 + Len(id) + Len(data)
             /\ HasAt(e, 0, head) /\ HasAt(e, 4, idLen) /\ HasAt(e, 8, id)
             /\ HasAt(e, 8 + Len(id), dataLen) /\ HasAt(e, 12 + Len(id), data)
<1> DEFINE a == Joined(head, idLen)
           b == Joined(a, id)
           c == Joined(b, dataLen)
           e == Concatenated(head, idLen, id, dataLen, data)
<1>1. /\ a \in Seq(Nat) /\ Len(a) = 8 /\ Len(id) \in Nat /\ Len(data) \in Nat
      /\ HasAt(a, 0, head) /\ HasAt(a, 4, idLen)
  <2>1. /\ a \in Seq(Nat) /\ Len(a) = Len(head) + Len(idLen)
        /\ HasAt(a, 0, head) /\ HasAt(a, Len(head), idLen)
    BY JoinedIs
  <2>2. Len(id) \in Nat /\ Len(data) \in Nat
    BY JoinedIs
  <2> QED
    BY <2>1, <2>2
<1>2. b = Joined(a, id) /\ c = Joined(b, dataLen) /\ e = Joined(c, data)
  BY DEF Concatenated
<1> HIDE DEF a, b, c, e
<1>3. b \in Seq(Nat) /\ Len(b) = 8 + Len(id) /\ HasAt(b, 0, a) /\ HasAt(b, 8, id)
  BY <1>1, <1>2, JoinedIs
<1>4. /\ c \in Seq(Nat) /\ Len(c) = 12 + Len(id)
      /\ HasAt(c, 0, b) /\ HasAt(c, 8 + Len(id), dataLen)
  <2>1. /\ c \in Seq(Nat) /\ Len(c) = Len(b) + Len(dataLen)
        /\ HasAt(c, 0, b) /\ HasAt(c, Len(b), dataLen)
    BY <1>2, <1>3, JoinedIs, Zenon
  <2> QED
    BY <1>1, <1>3, <2>1
<1>5. /\ e \in Seq(Nat) /\ Len(e) = 12 + Len(id) + Len(data)
      /\ HasAt(e, 0, c) /\ HasAt(e, 12 + Len(id), data)
  <2>1. /\ e \in Seq(Nat) /\ Len(e) = Len(c) + Len(data)
        /\ HasAt(e, 0, c) /\ HasAt(e, Len(c), data)
    BY <1>2, <1>4, JoinedIs, Zenon
  <2> QED
    BY <1>1, <1>4, <2>1
<1>6. HasAt(e, 0, b) /\ HasAt(e, 8 + Len(id), dataLen)
  <2>1. Len(b) \in Nat /\ Len(c) \in Nat /\ 0 \in Nat /\ 0 + Len(b) <= Len(c)
    BY <1>1, <1>3, <1>4
  <2>2. 8 + Len(id) \in Nat /\ Len(dataLen) \in Nat /\ (8 + Len(id)) + Len(dataLen) <= Len(c)
    BY <1>1, <1>4
  <2>3. HasAt(e, 0, b)
    BY <1>4, <1>5, <2>1, HasAtTransitive, Zenon
  <2>4. HasAt(e, 8 + Len(id), dataLen)
    BY <1>4, <1>5, <2>1, <2>2, HasAtTransitive, Zenon
  <2> QED
    BY <2>3, <2>4, Zenon
<1>7. HasAt(e, 0, a) /\ HasAt(e, 8, id)
  <2>1. /\ Len(a) \in Nat /\ Len(b) \in Nat /\ 0 \in Nat /\ 8 \in Nat
        /\ 0 + Len(a) <= Len(b) /\ 8 + Len(id) <= Len(b)
    BY <1>1, <1>3
  <2>2. HasAt(e, 0, a)
    BY <1>1, <1>3, <1>6, <2>1, HasAtTransitive, Zenon
  <2>3. HasAt(e, 8, id)
    BY <1>1, <1>3, <1>6, <2>1, HasAtTransitive, Zenon
  <2> QED
    BY <2>2, <2>3, Zenon
<1>8. HasAt(e, 0, head) /\ HasAt(e, 4, idLen)
  <2>1. /\ Len(a) \in Nat /\ Len(head) \in Nat /\ Len(idLen) \in Nat /\ 0 \in Nat /\ 4 \in Nat
        /\ 0 + Len(head) <= Len(a) /\ 4 + Len(idLen) <= Len(a)
    BY <1>1
  <2>2. HasAt(e, 0, head)
    BY <1>1, <1>7, <2>1, HasAtTransitive, Zenon
  <2>3. HasAt(e, 4, idLen)
    BY <1>1, <1>7, <2>1, HasAtTransitive, Zenon
  <2> QED
    BY <2>2, <2>3, Zenon
<1> QED
  BY <1>5, <1>6, <1>7, <1>8, Zenon DEF e

\* Where encodeFrame puts what.
LEMMA EncodedIs ==
  ASSUME NEW f, f.type \in Nat, f.sessionId \in Seq(Bytes), f.payload \in Seq(Bytes),
         NEW e, e = Encoded(f)
  PROVE  /\ e \in Seq(Nat) /\ Len(e) = 12 + Len(f.sessionId) + Len(f.payload)
         /\ HasAt(e, 0, Magic \o <<Version, f.type>>)
         /\ HasAt(e, 4, UInt32(Len(f.sessionId))) /\ HasAt(e, 8, f.sessionId)
         /\ HasAt(e, 8 + Len(f.sessionId), UInt32(Len(f.payload)))
         /\ HasAt(e, 12 + Len(f.sessionId), f.payload)
<1> DEFINE head == Magic \o <<Version, f.type>>
           id == f.sessionId
           data == f.payload
           idLen == UInt32(Len(id))
           dataLen == UInt32(Len(data))
<1>1. id \in Seq(Nat) /\ data \in Seq(Nat) /\ Len(id) \in Nat /\ Len(data) \in Nat
  BY BytesAreNumbers
<1>2. /\ idLen \in Seq(Nat) /\ Len(idLen) = 4
      /\ dataLen \in Seq(Nat) /\ Len(dataLen) = 4
  BY <1>1, UInt32Bytes, BytesAreNumbers
<1>3. head \in Seq(Nat) /\ Len(head) = 4
  BY DEF Magic, Version
<1>4. e = Concatenated(head, idLen, id, dataLen, data)
  BY Zenon DEF Encoded, Joined, Concatenated
<1> DEFINE g == Concatenated(head, idLen, id, dataLen, data)
<1> HIDE DEF head, id, data, idLen, dataLen
<1>5. /\ g \in Seq(Nat) /\ Len(g) = 12 + Len(id) + Len(data)
      /\ HasAt(g, 0, head) /\ HasAt(g, 4, idLen) /\ HasAt(g, 8, id)
      /\ HasAt(g, 8 + Len(id), dataLen) /\ HasAt(g, 12 + Len(id), data)
  BY <1>1, <1>2, <1>3, Layout
<1>6. e = g
  BY <1>4
<1> HIDE DEF g
<1> QED
  BY <1>5, <1>6, Zenon DEF head, id, data, idLen, dataLen

\* A wire agrees with a frame as far as both go.
Agrees(w, e) == \A i \in 1..Len(w) : i <= Len(e) => w[i] = e[i]

LEMMA HasAtAgrees ==
  ASSUME NEW w, NEW e, NEW s, NEW at \in Nat, Agrees(w, e), HasAt(e, at, s),
         Len(s) \in Nat, Len(w) \in Nat, Len(e) \in Nat,
         at + Len(s) <= Len(w), at + Len(s) <= Len(e)
  PROVE  HasAt(w, at, s)
<1> SUFFICES ASSUME NEW i \in 1..Len(s)
             PROVE  w[at + i] = s[i]
  BY DEF HasAt
<1>1. at + i \in 1..Len(w) /\ at + i <= Len(e)
  OBVIOUS
<1>2. w[at + i] = e[at + i]
  BY <1>1, Zenon DEF Agrees
<1>3. e[at + i] = s[i]
  BY Zenon DEF HasAt
<1> QED
  BY <1>2, <1>3, Zenon

LEMMA NumberAt ==
  ASSUME NEW w, NEW at \in Nat, NEW n \in 0..(Word - 1), HasAt(w, at, UInt32(n))
  PROVE  Number(w, at) = n
<1>1. n \in Nat /\ Len(UInt32(n)) = 4
  BY UInt32Bytes
<1>2. \A i \in 1..4 : w[at + i] = UInt32(n)[i]
  BY <1>1, Zenon DEF HasAt
<1> QED
  BY <1>2, NumberOfUInt32

LEMMA SubSeqAt ==
  ASSUME NEW w \in Seq(Nat), NEW s \in Seq(Nat), NEW at \in Nat,
         at + Len(s) <= Len(w), HasAt(w, at, s)
  PROVE  SubSeq(w, at + 1, at + Len(s)) = s
<1> DEFINE t == SubSeq(w, at + 1, at + Len(s))
<1>1. Len(s) \in Nat /\ Len(w) \in Nat
  BY LenProperties
<1>2. /\ t \in Seq(Nat) /\ Len(t) = Len(s)
      /\ \A i \in 1..Len(s) : t[i] = w[at + i]
  <2>1. (at + 1)..(at + Len(s)) \subseteq 1..Len(w)
    BY <1>1
  <2>2. /\ Len(t) = IF at + 1 <= at + Len(s) THEN (at + Len(s)) - (at + 1) + 1 ELSE 0
        /\ t \in Seq(Nat)
        /\ \A i \in 1..((at + Len(s)) - (at + 1) + 1) : t[i] = w[(at + 1) + i - 1]
    BY <1>1, <2>1, SubSeqProperties
  <2> HIDE DEF t
  <2>3. Len(t) = Len(s)
    BY <1>1, <2>2
  <2>4. ASSUME NEW i \in 1..Len(s) PROVE t[i] = w[at + i]
    <3>1. i \in 1..((at + Len(s)) - (at + 1) + 1) /\ (at + 1) + i - 1 = at + i
      BY <1>1
    <3> QED
      BY <2>2, <3>1, Zenon
  <2> QED
    BY <2>2, <2>3, <2>4
<1> HIDE DEF t
<1>3. \A i \in 1..Len(t) : t[i] = s[i]
  BY <1>2, Zenon DEF HasAt
<1>4. t = s
  BY <1>2, <1>3, SeqEqual
<1> QED
  BY <1>4 DEF t

LEMMA MadeOf ==
  ASSUME NEW S, NEW T, NEW s \in Seq(S)
  PROVE  s \in Seq(T) <=> \A i \in DOMAIN s : s[i] \in T
<1>1. ASSUME s \in Seq(T) PROVE \A i \in DOMAIN s : s[i] \in T
  BY <1>1, ElementOfSeq, LenProperties
<1>2. ASSUME \A i \in DOMAIN s : s[i] \in T PROVE s \in Seq(T)
  <2>1. s \in [1..Len(s) -> T] /\ Len(s) \in Nat
    BY <1>2, LenProperties
  <2> QED
    BY <2>1, SeqDef
<1> QED
  BY <1>1, <1>2

Sendable ==
  [version : {Version}, type : {Code[t] : t \in DOMAIN Code},
   sessionId : {s \in Seq(Bytes) : Len(s) < Word}, payload : {s \in Seq(Bytes) : Len(s) < Word}]

LEMMA CodesAreNumbers == \A t \in DOMAIN Code : Code[t] \in Nat
  BY DEF Code

LEMMA HeaderIs ==
  ASSUME NEW type \in Nat
  PROVE  LET head == Magic \o <<Version, type>>
         IN  Len(head) = 4 /\ HasAt(<<86, 67, Version, type>>, 0, head)
<1> DEFINE s == <<86, 67>>
           t == <<1, type>>
           whole == <<86, 67, 1, type>>
<1>1. s \in Seq(Nat) /\ t \in Seq(Nat) /\ Len(s) = 2 /\ Len(t) = 2
  OBVIOUS
<1>2. \A i \in 1..4 : whole[i] = IF i <= 2 THEN s[i] ELSE t[i - 2]
  OBVIOUS
<1>3. Magic = s /\ <<Version, type>> = t /\ <<86, 67, Version, type>> = whole
  BY DEF Magic, Version
<1> HIDE DEF s, t, whole
<1>4. /\ Len(s \o t) = Len(s) + Len(t)
      /\ \A i \in 1..(Len(s) + Len(t)) : (s \o t)[i] = IF i <= Len(s) THEN s[i] ELSE t[i - Len(s)]
  BY <1>1, ConcatProperties
<1> DEFINE joined == s \o t
<1>5. /\ Len(joined) = 4
      /\ \A i \in 1..4 : joined[i] = IF i <= 2 THEN s[i] ELSE t[i - 2]
  BY <1>1, <1>4
<1>6. joined = Magic \o <<Version, type>>
  BY <1>3, Zenon
<1> HIDE DEF joined
<1>7. \A i \in 1..4 : whole[i] = joined[i]
  BY <1>2, <1>5, Zenon
<1>8. \A i \in 1..4 : whole[0 + i] = joined[i]
  BY <1>7
<1>9. HasAt(whole, 0, joined)
  BY <1>5, <1>8, Zenon DEF HasAt
<1> QED
  BY <1>3, <1>5, <1>6, <1>9, Zenon

\* What a TextDecoder drops leaves bytes, and an id of a session has nothing to drop.
LEMMA TextIs ==
  ASSUME NEW s \in Seq(Bytes)
  PROVE  Text(s) \in Seq(Bytes) /\ (s \in Seq(Letters) => Text(s) = s)
<1>1. /\ Mark \in Seq(Bytes \ Letters) /\ Mark # <<>> /\ Len(s) \in Nat
      /\ Len(Mark) \in Nat \ {0}
  BY FrameAssumption, LenProperties, EmptySeq
<1>2. SubSeq(s, Len(Mark) + 1, Len(s)) \in Seq(Bytes)
  <2>1. \A i \in (Len(Mark) + 1)..Len(s) : s[i] \in Bytes
    BY <1>1, ElementOfSeq
  <2> QED
    BY <1>1, <2>1, SubSeqProperties
<1>3. ASSUME s \in Seq(Letters), Marked(s) PROVE FALSE
  <2>1. \A i \in 1..Len(Mark) : s[i] \in Letters
    BY <1>1, <1>3, ElementOfSeq DEF Marked
  <2>2. SubSeq(s, 1, Len(Mark)) \in Seq(Letters) /\ SubSeq(s, 1, Len(Mark)) = Mark
    BY <1>1, <1>3, <2>1, SubSeqProperties DEF Marked
  <2>3. Mark \in Seq(Letters)
    BY <2>2
  <2>4. Mark[1] \in Letters
    BY <1>1, <2>3, ElementOfSeq
  <2>5. Mark[1] \in Bytes \ Letters
    BY <1>1, ElementOfSeq
  <2> QED
    BY <2>4, <2>5
<1> QED
  BY <1>2, <1>3, Zenon DEF Text

\* What decodeFrame makes of a frame that it takes.
Received(f) == [f EXCEPT !.sessionId = Text(@)]

LEMMA ReceivedIs ==
  ASSUME NEW f \in Sendable
  PROVE  Received(f) = [version |-> Version, type |-> f.type,
                        sessionId |-> Text(f.sessionId), payload |-> f.payload]
  BY DEF Received, Sendable

\* What decodeFrame finds in the bytes that arrived of a frame.
LEMMA Reads ==
  ASSUME NEW f \in Sendable, NEW w \in Seq(Nat), Agrees(w, Encoded(f))
  PROVE  LET n == Len(f.sessionId)
             m == Len(f.payload)
         IN  /\ n \in Nat /\ m \in Nat /\ Len(w) \in Nat /\ Len(Encoded(f)) = 12 + n + m
             /\ Len(w) >= 12 =>
                  /\ SubSeq(w, 1, 2) = Magic /\ w[3] = Version /\ w[4] = f.type
                  /\ IdLength(w) = n
             /\ Len(w) >= 12 + n => IdOf(w) = Text(f.sessionId) /\ PayloadLength(w) = m
             /\ Len(w) >= 12 + n + m => Decoded(w) = Received(f)
<1> DEFINE e == Encoded(f)
           id == f.sessionId
           data == f.payload
           n == Len(id)
           m == Len(data)
           head == Magic \o <<Version, f.type>>
<1>1. /\ f.type \in Nat /\ id \in Seq(Bytes) /\ data \in Seq(Bytes)
      /\ Len(id) < Word /\ Len(data) < Word
      /\ f = [version |-> Version, type |-> f.type, sessionId |-> id, payload |-> data]
  BY CodesAreNumbers DEF Sendable
<1>2. /\ id \in Seq(Nat) /\ data \in Seq(Nat) /\ n \in Nat /\ m \in Nat /\ Len(w) \in Nat
  BY <1>1, BytesAreNumbers, LenProperties
<1>3. n \in 0..(Word - 1) /\ m \in 0..(Word - 1)
  <2>1. Word \in Nat
    BY FrameAssumption DEF Word
  <2> QED
    BY <1>1, <1>2, <2>1
<1>4. /\ Len(UInt32(n)) = 4 /\ Len(UInt32(m)) = 4
  BY <1>2, UInt32Bytes
<1>5. /\ e \in Seq(Nat) /\ Len(e) = 12 + n + m
      /\ HasAt(e, 0, head) /\ HasAt(e, 4, UInt32(n)) /\ HasAt(e, 8, id)
      /\ HasAt(e, 8 + n, UInt32(m)) /\ HasAt(e, 12 + n, data)
  BY <1>1, EncodedIs
<1>6. Len(e) \in Nat
  BY <1>5, LenProperties, Zenon
<1>7. Agrees(w, e)
  OBVIOUS
<1>8. /\ Len(head) = 4
      /\ HasAt(<<86, 67, Version, f.type>>, 0, head)
  BY <1>1, HeaderIs
<1>a. Len(e) = 12 + n + m /\ Len(head) = 4 /\ Len(id) = n /\ Len(data) = m
  BY <1>5, <1>8
<1>b. f.sessionId = id /\ f.payload = data
  OBVIOUS
<1> HIDE DEF e, head, n, m, id, data
<1>9. ASSUME Len(w) >= 12
      PROVE  SubSeq(w, 1, 2) = Magic /\ w[3] = Version /\ w[4] = f.type /\ IdLength(w) = n
  <2>1. /\ 0 \in Nat /\ 4 \in Nat /\ Len(head) \in Nat /\ Len(UInt32(n)) \in Nat
        /\ 0 + Len(head) <= Len(w) /\ 0 + Len(head) <= Len(e)
        /\ 4 + Len(UInt32(n)) <= Len(w) /\ 4 + Len(UInt32(n)) <= Len(e)
    BY <1>2, <1>4, <1>9, <1>a
  <2>2. HasAt(w, 0, head) /\ HasAt(w, 4, UInt32(n))
    BY <1>2, <1>5, <1>6, <1>7, <2>1, HasAtAgrees, Zenon
  <2>3. IdLength(w) = n
    BY <1>3, <2>2, NumberAt DEF IdLength
  <2>4. \A i \in 1..4 : w[0 + i] = head[i]
    BY <1>8, <2>2, Zenon DEF HasAt
  <2>5. w[1] = 86 /\ w[2] = 67 /\ w[3] = Version /\ w[4] = f.type
    <3> DEFINE first == <<86, 67, Version, f.type>>
    <3>1. \A i \in 1..4 : first[0 + i] = head[i]
      BY <1>8, Zenon DEF HasAt
    <3>2. \A i \in 1..4 : w[0 + i] = first[0 + i]
      BY <2>4, <3>1, Zenon
    <3>3. first[1] = 86 /\ first[2] = 67 /\ first[3] = Version /\ first[4] = f.type
      OBVIOUS
    <3> HIDE DEF first
    <3>4. \A i \in 1..4 : w[i] = first[i]
      BY <3>2
    <3> QED
      BY <3>3, <3>4
  <2>6. HasAt(w, 0, Magic) /\ Len(Magic) = 2 /\ Magic \in Seq(Nat)
    BY <2>5 DEF HasAt, Magic
  <2>7. 0 + Len(Magic) <= Len(w) /\ 0 \in Nat /\ 0 + 1 = 1 /\ 0 + Len(Magic) = 2
    BY <1>9, <2>6
  <2>8. SubSeq(w, 0 + 1, 0 + Len(Magic)) = Magic
    BY <2>6, <2>7, SubSeqAt, Zenon
  <2> QED
    BY <2>3, <2>5, <2>7, <2>8, Zenon
<1>10. ASSUME Len(w) >= 12 + n
       PROVE  IdOf(w) = Text(id) /\ PayloadLength(w) = m
  <2>1. IdLength(w) = n
    BY <1>2, <1>9, <1>10
  <2>2. /\ 8 \in Nat /\ 8 + n \in Nat /\ Len(UInt32(m)) \in Nat
        /\ 8 + Len(id) <= Len(w) /\ 8 + Len(id) <= Len(e)
        /\ 8 + n + Len(UInt32(m)) <= Len(w) /\ 8 + n + Len(UInt32(m)) <= Len(e)
    BY <1>2, <1>4, <1>10, <1>a
  <2>3. Len(id) \in Nat
    BY <1>2, <1>a
  <2>4. HasAt(w, 8, id) /\ HasAt(w, 8 + n, UInt32(m))
    BY <1>2, <1>5, <1>6, <1>7, <2>2, <2>3, HasAtAgrees, Zenon
  <2>5. SubSeq(w, 8 + 1, 8 + Len(id)) = id
    BY <1>2, <2>2, <2>4, SubSeqAt
  <2>6. IdBytes(w) = id
    BY <1>a, <2>1, <2>5 DEF IdBytes
  <2>7. PayloadLength(w) = m
    BY <1>3, <2>1, <2>2, <2>4, NumberAt DEF PayloadLength
  <2> QED
    BY <2>6, <2>7, Zenon DEF IdOf
<1>11. ASSUME Len(w) >= 12 + n + m
       PROVE  Decoded(w) = Received(f)
  <2>1. /\ IdLength(w) = n /\ w[3] = Version /\ w[4] = f.type
        /\ IdOf(w) = Text(id) /\ PayloadLength(w) = m
    BY <1>2, <1>9, <1>10, <1>11
  <2>2. /\ 12 + n \in Nat /\ Len(data) \in Nat
        /\ 12 + n + Len(data) <= Len(w) /\ 12 + n + Len(data) <= Len(e)
    BY <1>2, <1>11, <1>a
  <2>3. HasAt(w, 12 + n, data)
    BY <1>2, <1>5, <1>6, <1>7, <2>2, HasAtAgrees, Zenon
  <2>4. SubSeq(w, 12 + n + 1, 12 + n + m) = data
    BY <1>2, <1>a, <2>2, <2>3, SubSeqAt
  <2>5. Decoded(w) = [version |-> Version, type |-> f.type, sessionId |-> Text(id),
                      payload |-> data]
    BY <2>1, <2>4, Zenon DEF Decoded
  <2>6. Received(f) = [version |-> Version, type |-> f.type, sessionId |-> Text(id),
                       payload |-> data]
    BY <1>b, ReceivedIs, Zenon
  <2> QED
    BY <2>5, <2>6, Zenon
<1> QED
  BY <1>2, <1>5, <1>9, <1>10, <1>11 DEF e, n, m, id, data

LEMMA WordIs == Word \in Nat /\ Word > 8
<1> DEFINE two == Base * Base
<1>1. Base \in Nat /\ Base >= 2
  BY FrameAssumption
<1>2. two \in Nat /\ two >= 4
  <2>1. Base * Base >= 2 * Base
    BY <1>1
  <2> QED
    BY <1>1, <2>1
<1>3. Word = two * two
  <2>1. Word = Base * Base * Base * Base
    BY DEF Word
  <2> QED
    BY <1>1, <2>1
<1> HIDE DEF two
<1>4. two * two >= 4 * two /\ two * two \in Nat
  BY <1>2
<1> QED
  BY <1>2, <1>3, <1>4

LEMMA ClampedIs ==
  ASSUME NEW n \in Int, NEW max \in 1..(Word - 1)
  PROVE  /\ Clamped(n, max) \in 1..max /\ Clamped(n, max) \in 0..(Word - 1)
         /\ n \in 1..max => Clamped(n, max) = n
  BY WordIs DEF Clamped

\* Who gets a RESIZE takes the size that was clamped when it was made.
LEMMA ResizeIs ==
  ASSUME NEW cols \in Int, NEW rows \in Int
  PROVE  LET payload == ResizePayload(cols, rows)
             taken == ParsedResize(payload)
         IN  /\ payload \in Seq(Bytes) /\ Len(payload) = 8
             /\ taken.cols = Clamped(cols, MaxCols) /\ taken.rows = Clamped(rows, MaxRows)
             /\ ResizePayload(taken.cols, taken.rows) = payload
<1> DEFINE c == Clamped(cols, MaxCols)
           r == Clamped(rows, MaxRows)
           first == UInt32(c)
           second == UInt32(r)
           payload == ResizePayload(cols, rows)
           taken == ParsedResize(payload)
<1>1. c \in 1..MaxCols /\ c \in 0..(Word - 1) /\ r \in 1..MaxRows /\ r \in 0..(Word - 1)
  BY FrameAssumption, ClampedIs
<1>2. c \in Int /\ r \in Int /\ c \in Nat /\ r \in Nat
  <2> HIDE DEF c, r
  <2> QED
    BY <1>1, WordIs
<1>3. Clamped(c, MaxCols) = c /\ Clamped(r, MaxRows) = r
  <2> HIDE DEF c, r
  <2> QED
    BY <1>1, <1>2, FrameAssumption, ClampedIs
<1>4. first \in Seq(Bytes) /\ Len(first) = 4 /\ second \in Seq(Bytes) /\ Len(second) = 4
  BY <1>2, UInt32Bytes
<1>5. payload = first \o second
  BY DEF ResizePayload
<1> HIDE DEF c, r
<1>6. payload \in Seq(Bytes) /\ Len(payload) = 8
  <2> HIDE DEF payload, first, second
  <2>1. first \o second \in Seq(Bytes) /\ Len(first \o second) = Len(first) + Len(second)
    BY <1>4, ConcatProperties
  <2> QED
    BY <1>4, <1>5, <2>1
<1>7. HasAt(payload, 0, first) /\ HasAt(payload, 4, second)
  <2>1. first \in Seq(Nat) /\ second \in Seq(Nat)
    BY <1>4, BytesAreNumbers
  <2>2. payload = Joined(first, second)
    BY <1>5 DEF Joined
  <2> HIDE DEF payload, first, second
  <2>3. HasAt(Joined(first, second), 0, first) /\ HasAt(Joined(first, second), Len(first), second)
    BY <2>1, JoinedIs
  <2> QED
    BY <1>4, <2>2, <2>3, Zenon
<1> HIDE DEF payload
<1>8. Number(payload, 0) = c /\ Number(payload, 4) = r
  BY <1>1, <1>7, NumberAt
<1> HIDE DEF first, second
<1>9. taken.cols = c /\ taken.rows = r
  BY <1>3, <1>8 DEF ParsedResize
<1> HIDE DEF taken
<1>10. ResizePayload(taken.cols, taken.rows) = payload
  <2>1. ResizePayload(taken.cols, taken.rows) = UInt32(Clamped(c, MaxCols)) \o UInt32(Clamped(r, MaxRows))
    BY <1>9, Zenon DEF ResizePayload
  <2> QED
    BY <1>3, <1>5, <2>1, Zenon DEF first, second
<1> QED
  BY <1>6, <1>9, <1>10, Zenon DEF c, r, payload, taken

-----------------------------------------------------------------------------
\* What was sent stays, and what arrives agrees with it as far as both go.
SentOK ==
  /\ sent \in Sendable /\ size \in [cols : Int, rows : Int]
  /\ size # NoSize => sent.payload = ResizePayload(size.cols, size.rows)

WireOK ==
  /\ wire \in Seq(Nat) /\ Agrees(wire, Encoded(sent))
  /\ \/ change = "whole" /\ Len(wire) = Len(Encoded(sent))
     \/ change = "padded" /\ Len(wire) > Len(Encoded(sent))
     \/ change = "cut" /\ Len(wire) < Len(Encoded(sent))

FrameInv == SentOK /\ WireOK

LEMMA EncodedIsASequence ==
  ASSUME NEW f \in Sendable
  PROVE  Encoded(f) \in Seq(Nat) /\ Len(Encoded(f)) \in Nat
<1>1. f.type \in Nat /\ f.sessionId \in Seq(Bytes) /\ f.payload \in Seq(Bytes)
  BY CodesAreNumbers DEF Sendable
<1>2. Encoded(f) \in Seq(Nat)
  BY <1>1, EncodedIs
<1> QED
  BY <1>2, LenProperties, Zenon

LEMMA CreatedAreSendable ==
  ASSUME NEW t \in DOMAIN Code, NEW id \in Seq(Bytes), NEW p \in Seq(Bytes),
         Len(id) < Word, Len(p) < Word
  PROVE  FrameAs(t, id, p) \in Sendable
  BY DEF FrameAs, Sendable

LEMMA FrameStarts == FrameInit => FrameInv
<1> SUFFICES ASSUME FrameInit PROVE FrameInv
  OBVIOUS
<1>1. \A s \in Ids \cup Payloads \cup {<<>>} : s \in Seq(Bytes) /\ Len(s) < Word
  <2>1. \A s \in Ids \cup Payloads : s \in Seq(Bytes) /\ Len(s) < Word
    BY FrameAssumption
  <2>2. <<>> \in Seq(Bytes) /\ Len(<<>>) < Word
    BY EmptySeq, WordIs
  <2> QED
    BY <2>1, <2>2, Zenon
<1>2. sent \in Sendable /\ SentOK
  <2>1. CASE sent \in Created /\ size = NoSize
    <3>1. Carrying \cup Bare \subseteq DOMAIN Code
      BY DEF Carrying, Bare, Ciphertexts, Tunnelled, Spawning, Subscriptions, KeepAlive,
             Announcements, Code
    <3>2. PICK t \in DOMAIN Code, id \in Ids \cup {<<>>}, p \in Payloads \cup {<<>>} :
                 sent = FrameAs(t, id, p)
      <4>1. CASE sent \in {FrameAs(t, id, p) : t \in Carrying \ Global, id \in Ids, p \in Payloads}
        BY <3>1, <4>1
      <4>2. CASE sent \in {FrameAs(t, id, <<>>) : t \in Bare \ Global, id \in Ids}
        BY <3>1, <4>2
      <4>3. CASE sent \in {FrameAs(t, <<>>, p) : t \in Carrying \cap Global, p \in Payloads}
        BY <3>1, <4>3
      <4>4. CASE sent \in {FrameAs(t, <<>>, <<>>) : t \in Bare \cap Global}
        BY <3>1, <4>4
      <4> QED
        BY <2>1, <4>1, <4>2, <4>3, <4>4 DEF Created
    <3>3. sent \in Sendable
      BY <1>1, <3>2, CreatedAreSendable
    <3>4. size \in [cols : Int, rows : Int]
      BY <2>1 DEF NoSize
    <3> QED
      BY <2>1, <3>3, <3>4 DEF SentOK
  <2>2. ASSUME NEW c \in Sizes, NEW r \in Sizes, NEW id \in Ids,
               sent = FrameAs("RESIZE", id, ResizePayload(c, r)), size = [cols |-> c, rows |-> r]
        PROVE  sent \in Sendable /\ SentOK
    <3>1. c \in Int /\ r \in Int
      BY FrameAssumption
    <3>2. ResizePayload(c, r) \in Seq(Bytes) /\ Len(ResizePayload(c, r)) < Word
      BY <3>1, ResizeIs, WordIs
    <3>3. "RESIZE" \in DOMAIN Code
      BY DEF Code
    <3>4. sent \in Sendable
      BY <1>1, <2>2, <3>2, <3>3, CreatedAreSendable
    <3>5. sent.payload = ResizePayload(size.cols, size.rows)
      BY <2>2 DEF FrameAs
    <3>6. size \in [cols : Int, rows : Int]
      BY <2>2, <3>1
    <3> QED
      BY <3>4, <3>5, <3>6 DEF SentOK
  <2> QED
    BY <2>1, <2>2 DEF FrameInit
<1>3. wire = Encoded(sent) /\ change = "whole"
  BY DEF FrameInit
<1>4. wire \in Seq(Nat)
  BY <1>2, <1>3, EncodedIsASequence
<1>5. Agrees(wire, Encoded(sent))
  BY <1>3, Zenon DEF Agrees
<1> QED
  BY <1>2, <1>3, <1>4, <1>5, Zenon DEF FrameInv, WireOK

LEMMA FrameStep == FrameInv /\ [FrameNext]_frameVars => FrameInv'
<1> SUFFICES ASSUME FrameInv, [FrameNext]_frameVars PROVE FrameInv'
  OBVIOUS
<1> DEFINE e == Encoded(sent)
<1>1. /\ wire \in Seq(Nat) /\ Len(wire) \in Nat /\ e \in Seq(Nat) /\ Len(e) \in Nat
      /\ Agrees(wire, e) /\ SentOK
  BY EncodedIsASequence, LenProperties, Zenon DEF FrameInv, SentOK, WireOK
<1>2. CASE UNCHANGED frameVars
  BY <1>2, Zenon DEF frameVars, FrameInv, SentOK, WireOK
<1>3. CASE Cut
  <2>1. /\ wire # <<>> /\ wire' = SubSeq(wire, 1, Len(wire) - 1) /\ change' = "cut"
        /\ sent' = sent /\ size' = size /\ change # "padded"
    BY <1>3 DEF Cut
  <2>2. Len(wire) >= 1 /\ Len(wire) <= Len(e)
    <3>1. Len(wire) # 0
      BY <1>1, <2>1, EmptySeq
    <3>2. Len(wire) = Len(e) \/ Len(wire) < Len(e)
      BY <2>1, Zenon DEF FrameInv, WireOK
    <3> HIDE DEF e
    <3> QED
      BY <1>1, <3>1, <3>2
  <2> HIDE DEF e
  <2>a. Len(wire) - 1 \in Nat
    BY <1>1, <2>2
  <2>3. /\ wire' \in Seq(Nat) /\ Len(wire') = Len(wire) - 1
        /\ \A i \in 1..(Len(wire) - 1) : wire'[i] = wire[i]
    <3>1. Len(wire) - 1 \in Int /\ 1 \in Int /\ 1..(Len(wire) - 1) \subseteq 1..Len(wire)
      BY <1>1
    <3>2. \A i \in 1..(Len(wire) - 1) : wire[i] \in Nat
      BY <1>1, <3>1, ElementOfSeq
    <3> DEFINE l == Len(wire) - 1
               t == SubSeq(wire, 1, l)
    <3>3. /\ t \in Seq(Nat) /\ Len(t) = IF 1 <= l THEN l - 1 + 1 ELSE 0
          /\ \A i \in 1..(l - 1 + 1) : t[i] = wire[1 + i - 1]
      BY <3>1, <3>2, SubSeqProperties
    <3>4. wire' = t
      BY <2>1
    <3> HIDE DEF t
    <3>5. Len(t) = Len(wire) - 1
      <4>1. l \in Nat
        BY <2>a
      <4>2. Len(t) = IF 1 <= l THEN l - 1 + 1 ELSE 0
        BY <3>3, Zenon
      <4> HIDE DEF l
      <4>3. Len(t) = l
        BY <4>1, <4>2
      <4> QED
        BY <4>3, Zenon DEF l
    <3>6. ASSUME NEW i \in 1..(Len(wire) - 1) PROVE t[i] = wire[i]
      <4>1. i \in 1..(l - 1 + 1) /\ 1 + i - 1 = i
        BY <1>1
      <4> QED
        BY <3>3, <4>1, Zenon
    <3> QED
      BY <3>3, <3>4, <3>5, <3>6, Zenon
  <2>4. Agrees(wire', e)
    <3> SUFFICES ASSUME NEW i \in 1..Len(wire'), i <= Len(e)
                 PROVE  wire'[i] = e[i]
      BY DEF Agrees
    <3>1. i \in 1..Len(wire) /\ i \in 1..(Len(wire) - 1)
      BY <1>1, <2>3
    <3> QED
      BY <1>1, <2>3, <3>1, Zenon DEF Agrees
  <2>5. Len(wire') < Len(e)
    BY <1>1, <2>2, <2>3
  <2>6. SentOK'
    BY <1>1, <2>1, Zenon DEF SentOK
  <2> QED
    BY <2>1, <2>3, <2>4, <2>5, <2>6, Zenon DEF FrameInv, WireOK, e
<1>4. CASE Pad
  <2>1. change = "whole" /\ change' = "padded" /\ sent' = sent /\ size' = size
    BY <1>4 DEF Pad
  <2>2. PICK b \in Bytes : wire' = Append(wire, b)
    BY <1>4 DEF Pad
  <2>3. Len(wire) = Len(e)
    BY <2>1, Zenon DEF FrameInv, WireOK
  <2> HIDE DEF e
  <2>4. b \in Nat
    BY FrameAssumption DEF Bytes
  <2>5. /\ wire' \in Seq(Nat) /\ Len(wire') = Len(wire) + 1
        /\ \A i \in 1..Len(wire) : wire'[i] = wire[i]
    <3>1. /\ Append(wire, b) \in Seq(Nat) /\ Len(Append(wire, b)) = Len(wire) + 1
          /\ \A i \in 1..Len(wire) : Append(wire, b)[i] = wire[i]
      BY <1>1, <2>4, AppendProperties
    <3> QED
      BY <2>2, <3>1, Zenon
  <2>6. Agrees(wire', e)
    <3> SUFFICES ASSUME NEW i \in 1..Len(wire'), i <= Len(e)
                 PROVE  wire'[i] = e[i]
      BY DEF Agrees
    <3>1. i \in 1..Len(wire)
      BY <1>1, <2>3, <2>5
    <3> QED
      BY <1>1, <2>5, <3>1, Zenon DEF Agrees
  <2>7. Len(wire') > Len(e)
    BY <1>1, <2>3, <2>5
  <2>8. SentOK'
    BY <1>1, <2>1, Zenon DEF SentOK
  <2> QED
    BY <2>1, <2>5, <2>6, <2>7, <2>8, Zenon DEF FrameInv, WireOK, e
<1> QED
  BY <1>2, <1>3, <1>4 DEF FrameNext

LEMMA FrameInductive == FrameSpec => []FrameInv
  BY FrameStarts, FrameStep, PTL DEF FrameSpec

\* What is sent and what arrives stay in their sets.
THEOREM FrameTypeCorrect == FrameSpec => []FrameTypeOK
<1>1. FrameInv => FrameTypeOK
  BY DEF FrameInv, SentOK, WireOK, FrameTypeOK, Sendable
<1> QED
  BY <1>1, FrameInductive, PTL

\* decodeFrame gives back what encodeFrame was given, but for a byte-order mark in front of
\* the id, whatever follows it, and refuses every frame whose end is missing; a size that
\* is asked for survives being sent on.
THEOREM FramesAreKept == FrameSpec => []FramesSurvive
<1>1. FrameInv => FramesSurvive
  <2> SUFFICES ASSUME FrameInv PROVE FramesSurvive
    OBVIOUS
  <2> DEFINE id == sent.sessionId
             n == Len(id)
             m == Len(sent.payload)
             e == Encoded(sent)
  <2>1. /\ n \in Nat /\ m \in Nat /\ Len(wire) \in Nat /\ Len(e) = 12 + n + m
        /\ Len(wire) >= 12 => SubSeq(wire, 1, 2) = Magic /\ IdLength(wire) = n
        /\ Len(wire) >= 12 + n => IdOf(wire) = Text(id) /\ PayloadLength(wire) = m
        /\ Len(wire) >= 12 + n + m => Decoded(wire) = Received(sent)
    BY Reads DEF FrameInv, SentOK, WireOK
  <2>2. id \in Seq(Bytes) /\ sent \in Sendable
    BY DEF FrameInv, SentOK, Sendable
  <2>3. Text(id) \in Seq(Letters) <=> \A i \in DOMAIN Text(id) : Text(id)[i] \in Letters
    BY <2>2, TextIs, MadeOf
  <2>a. id \in Seq(Letters) => Received(sent) = sent
    <3>1. id \in Seq(Letters) => Text(id) = id
      BY <2>2, TextIs
    <3>2. sent.sessionId = id
      OBVIOUS
    <3> HIDE DEF id
    <3> QED
      BY <2>2, <3>1, <3>2 DEF Received, Sendable
  <2>4. /\ change = "cut" => Len(wire) < Len(e)
        /\ change # "cut" => Len(wire) = Len(e) \/ Len(wire) > Len(e)
    BY DEF FrameInv, WireOK
  <2> HIDE DEF id, n, m, e
  <2>5. ASSUME change = "cut" PROVE ~Accepts(wire)
    <3> SUFFICES ASSUME Accepts(wire) PROVE FALSE
      OBVIOUS
    <3>1. /\ Len(wire) >= 12 /\ 8 + IdLength(wire) + 4 <= Len(wire)
          /\ 12 + IdLength(wire) + PayloadLength(wire) <= Len(wire)
      BY DEF Accepts
    <3> QED
      BY <2>1, <2>4, <2>5, <3>1
  <2>6. ASSUME change # "cut"
        PROVE  /\ Accepts(wire) <=> Text(id) \in Seq(Letters) /\ n <= MaxId
               /\ Decoded(wire) = Received(sent)
    <3>1. Len(wire) >= 12 /\ Len(wire) >= 12 + n /\ Len(wire) >= 12 + n + m
      BY <2>1, <2>4, <2>6
    <3>2. /\ SubSeq(wire, 1, 2) = Magic /\ IdLength(wire) = n /\ IdOf(wire) = Text(id)
          /\ PayloadLength(wire) = m /\ Decoded(wire) = Received(sent)
      BY <2>1, <3>1
    <3>3. 8 + n + 4 <= Len(wire)
      BY <2>1, <3>1
    <3>4. Accepts(wire) <=> n <= MaxId /\ \A i \in DOMAIN Text(id) : Text(id)[i] \in Letters
      BY <3>1, <3>2, <3>3, Zenon DEF Accepts
    <3> QED
      BY <2>3, <3>2, <3>4, Zenon
  <2>7. ASSUME size # NoSize
        PROVE  LET taken == ParsedResize(sent.payload)
               IN  /\ taken.cols \in 1..MaxCols /\ taken.rows \in 1..MaxRows
                   /\ size.cols \in 1..MaxCols => taken.cols = size.cols
                   /\ size.rows \in 1..MaxRows => taken.rows = size.rows
                   /\ ResizePayload(taken.cols, taken.rows) = sent.payload
    <3>1. /\ size.cols \in Int /\ size.rows \in Int
          /\ sent.payload = ResizePayload(size.cols, size.rows)
      BY <2>7 DEF FrameInv, SentOK
    <3> DEFINE taken == ParsedResize(sent.payload)
    <3>2. /\ taken.cols = Clamped(size.cols, MaxCols) /\ taken.rows = Clamped(size.rows, MaxRows)
          /\ ResizePayload(taken.cols, taken.rows) = sent.payload
      BY <3>1, ResizeIs
    <3>3. /\ Clamped(size.cols, MaxCols) \in 1..MaxCols /\ Clamped(size.rows, MaxRows) \in 1..MaxRows
          /\ size.cols \in 1..MaxCols => Clamped(size.cols, MaxCols) = size.cols
          /\ size.rows \in 1..MaxRows => Clamped(size.rows, MaxRows) = size.rows
      BY <3>1, ClampedIs, FrameAssumption
    <3> HIDE DEF taken
    <3>4. /\ taken.cols \in 1..MaxCols /\ taken.rows \in 1..MaxRows
          /\ size.cols \in 1..MaxCols => taken.cols = size.cols
          /\ size.rows \in 1..MaxRows => taken.rows = size.rows
          /\ ResizePayload(taken.cols, taken.rows) = sent.payload
      BY <3>2, <3>3, Zenon
    <3> QED
      BY <3>4, Zenon DEF taken
  <2> QED
    BY <2>5, <2>6, <2>7, <2>a, Zenon DEF FramesSurvive, Received, id, n
<1> QED
  BY <1>1, FrameInductive, PTL

=============================================================================
