------------------------ MODULE ChunkStoreLogProofs ------------------------
(***************************************************************************)
(* ChunkStore implements TerminalLog, and what follows for the stored      *)
(* chunks, for every value of the constants.                               *)
(***************************************************************************)
EXTENDS ChunkStoreProofs

(***************************************************************************)
(* What a step may do to one session.                                      *)
(***************************************************************************)

\* queueChunk accepted a chunk of s.
Accepts(s) ==
  /\ sent'[s] = sent[s] + 1
  /\ rows'[s] = rows[s] /\ snap'[s] = snap[s]
  /\ Waiting(s)' \subseteq Waiting(s) \cup {NewEntry(s)}

\* Nothing happened to s, or a batch of chunks that waited was inserted.
Stores(s) ==
  /\ sent'[s] = sent[s] /\ snap'[s] = snap[s]
  /\ Waiting(s)' \subseteq Waiting(s)
  /\ \/ rows'[s] = rows[s]
     \/ \E q \in Seq(Entry) : Range(q) \subseteq Waiting(s) /\ rows'[s] = Inserted(rows[s], q)

\* A snapshot transaction of s was committed.
Commits(s) ==
  /\ sent'[s] = sent[s]
  /\ Waiting(s)' \subseteq Waiting(s)
  /\ \E t \in txns : /\ t.session = s
                     /\ snap'[s].seq = t.seq /\ snap'[s].upto = t.upto
                     /\ rows'[s] = {r \in rows[s] : r.seq > t.seq}

\* The row of s was deleted.
Deletes(s) ==
  /\ s \notin live'
  /\ sent'[s] = sent[s] /\ rows'[s] = {}
  /\ Waiting(s)' \subseteq Waiting(s)

StepOf(s) == Accepts(s) \/ Stores(s) \/ Commits(s) \/ Deletes(s)

LEMMA UntouchedStep ==
  ASSUME NEW s \in Sessions,
         sent'[s] = sent[s], rows'[s] = rows[s], snap'[s] = snap[s],
         Waiting(s)' \subseteq Waiting(s)
  PROVE  StepOf(s)
BY DEF StepOf, Stores

LEMMA ChunkStepOf ==
  ASSUME Sane, NEW k \in Sockets, NEW r \in Sessions, Chunk(k, r), NEW s \in Sessions
  PROVE  StepOf(s)
<1>1. PICK d \in Drops : Push(d, r)
  BY DEF Chunk
<1>2. UNCHANGED <<flushes, rows, snap>>
  BY DEF Chunk, database
<1>3. Waiting(s)' \subseteq Waiting(s) \cup (IF s = r THEN {NewEntry(r)} ELSE {})
  BY <1>1, <1>2, WaitingPush DEF Sane
<1>4. sent'[s] = IF s = r THEN sent[s] + 1 ELSE sent[s]
  BY DEF Chunk, Sane, TypeOK
<1>5. CASE s = r
  BY <1>2, <1>3, <1>4, <1>5 DEF StepOf, Accepts
<1>6. CASE s # r
  BY <1>2, <1>3, <1>4, <1>6, UntouchedStep
<1> QED
  BY <1>5, <1>6

LEMMA BulkStepOf ==
  ASSUME Sane, NEW b \in bulk, NEW s \in Sessions,
         BulkOk(b) \/ BulkError(b) \/ \E r \in Sessions : BulkForeignKey(b, r)
  PROVE  StepOf(s)
<1>1. UNCHANGED <<flushes, snap, sent>> /\ bulk' = bulk \ {b}
  BY DEF BulkOk, BulkError, BulkForeignKey, BulkDone
<1>2. queue[s] \in Seq(Entry) /\ b.batch \in [Sessions -> Seq(Entry)]
  BY DEF Sane, TypeOK, Batches
<1>3. queue'[s] = queue[s] \/ queue'[s] = queue[s] \o b.batch[s]
  <2>1. ASSUME NEW r \in Sessions, BulkForeignKey(b, r)
        PROVE  queue'[s] = queue[s] \/ queue'[s] = queue[s] \o b.batch[s]
    <3>1. queue'[s] = queue[s] \o [b.batch EXCEPT ![r] = <<>>][s]
      BY <2>1 DEF BulkForeignKey, Requeue
    <3>2. queue'[s] = queue[s] \o (IF s = r THEN <<>> ELSE b.batch[s])
      BY <1>2, <3>1
    <3> QED
      BY <1>2, <3>2, ConcatEmptySeq
  <2> QED
    BY <2>1 DEF BulkOk, BulkError, Requeue
<1>4. Waiting(s)' \subseteq Waiting(s)
  BY <1>1, <1>3, WaitingBulk DEF Sane
<1>5. Range(b.batch[s]) \subseteq Waiting(s)
  BY DEF Waiting
<1>6. rows'[s] = rows[s] \/ rows'[s] = Inserted(rows[s], b.batch[s])
  BY DEF BulkOk, BulkError, BulkForeignKey
<1> QED
  BY <1>1, <1>2, <1>4, <1>5, <1>6 DEF StepOf, Stores

LEMMA FlushStepOf ==
  ASSUME Sane, NEW f \in flushes, NEW s \in Sessions,
         FlushOk(f) \/ FlushForeignKey(f) \/ FlushError(f)
  PROVE  StepOf(s)
<1>1. UNCHANGED <<bulk, snap, sent>> /\ flushes' = flushes \ {f}
  BY DEF FlushOk, FlushForeignKey, FlushError, Resume
<1>2. /\ f.session \in Sessions /\ f.batch \in Seq(Entry)
      /\ f.session = s => Range(f.batch) \subseteq Waiting(s)
  BY DEF Sane, TypeOK, Waiting
<1>3. \/ queue'[s] = queue[s]
      \/ s = f.session /\ queue'[s] = queue[s] \o f.batch
  BY DEF FlushOk, FlushForeignKey, FlushError, Sane, TypeOK, Batches
<1>4. Waiting(s)' \subseteq Waiting(s)
  BY <1>1, <1>3, WaitingFlush DEF Sane
<1>5. \/ rows'[s] = rows[s]
      \/ s = f.session /\ rows'[s] = Inserted(rows[s], f.batch)
  BY DEF FlushOk, FlushForeignKey, FlushError, Insert, Sane, TypeOK
<1> QED
  BY <1>1, <1>2, <1>4, <1>5 DEF StepOf, Stores

LEMMA CommitStepOf ==
  ASSUME Sane, NEW t \in txns, NEW s \in Sessions, TxnCommit(t)
  PROVE  StepOf(s)
<1>1. UNCHANGED <<queue, bulk, flushes, sent>>
  BY DEF TxnCommit
<1>2. Waiting(s)' = Waiting(s)
  BY <1>1, WaitingUnchanged
<1>3. CASE t.session # s \/ s \notin live
  <2>1. rows'[s] = rows[s] /\ snap'[s] = snap[s]
    BY <1>3 DEF TxnCommit, Sane, TypeOK
  <2> QED
    BY <1>1, <1>2, <2>1, UntouchedStep
<1>4. CASE t.session = s /\ s \in live
  <2> DEFINE image == [seq |-> t.seq, upto |-> t.upto]
             K == {r \in rows[s] : r.seq > t.seq}
  <2>1. snap' = [snap EXCEPT ![s] = image] /\ rows' = [rows EXCEPT ![s] = K]
    BY <1>4 DEF TxnCommit, Pruned
  <2>2. image.seq = t.seq /\ image.upto = t.upto
    OBVIOUS
  <2> HIDE DEF image, K
  <2>3. snap'[s] = image /\ rows'[s] = K
    BY <2>1 DEF Sane, TypeOK
  <2>4. rows'[s] = {r \in rows[s] : r.seq > t.seq}
    BY <2>3 DEF K
  <2> QED
    BY <1>1, <1>2, <1>4, <2>2, <2>3, <2>4 DEF StepOf, Commits
<1> QED
  BY <1>3, <1>4

LEMMA MovedStepOf ==
  ASSUME Sane, NEW k \in Sockets, NEW r \in Sessions, NEW s \in Sessions,
         Snapshot(k, r) \/ SessionEnded(k, r)
  PROVE  StepOf(s)
<1>1. UNCHANGED <<bulk, rows, snap, sent>>
  BY DEF Snapshot, SessionEnded, database
<1>2. \/ UNCHANGED <<queue, flushes>>
      \/ \E next \in Continuations, upto \in Nat :
           /\ flushes' = flushes \cup {FlushOf(r, next, upto)}
           /\ queue' = [queue EXCEPT ![r] = <<>>]
  <2>1. sent[r] \in Nat /\ "snapshot" \in Continuations /\ "ended" \in Continuations
    BY DEF Sane, TypeOK, Continuations
  <2> QED
    BY <2>1 DEF Snapshot, SessionEnded
<1>3. Waiting(s)' = Waiting(s)
  BY <1>1, <1>2, WaitingUnchanged, WaitingMoved DEF Sane
<1> QED
  BY <1>1, <1>3, UntouchedStep

LEMMA ForgetStepOf ==
  ASSUME Sane, NEW S \in SUBSET Sessions, FlushAndForget(S), NEW s \in Sessions
  PROVE  StepOf(s)
<1>1. Waiting(s)' = Waiting(s)
  BY WaitingForget DEF Sane
<1> QED
  BY <1>1, UntouchedStep DEF FlushAndForget, database

LEMMA SessionStep ==
  ASSUME Sane, [Next]_vars, NEW s \in Sessions
  PROVE  StepOf(s)
<1>1. ASSUME NEW k \in Sockets, NEW r \in Sessions, Subscribe(k, r)
      PROVE  StepOf(s)
  BY <1>1, WaitingUnchanged, UntouchedStep DEF Subscribe, database
<1>2. ASSUME NEW r \in Sessions, InitReadMax(r) \/ InitReadSnapshot(r) \/ InitFail(r)
      PROVE  StepOf(s)
  BY <1>2, WaitingUnchanged, UntouchedStep DEF InitReadMax, InitReadSnapshot, InitFail, database
<1>3. CASE FlushTimer
  BY <1>3, WaitingFlushTimer, UntouchedStep DEF FlushTimer, database, Sane
<1>4. ASSUME NEW k \in Sockets, Close(k)
      PROVE  StepOf(s)
  BY <1>4, ForgetStepOf DEF Close, Sane, TypeOK
<1>5. ASSUME NEW k \in Sockets, NEW r \in Sessions, Unsubscribe(k, r)
      PROVE  StepOf(s)
  BY <1>5, ForgetStepOf DEF Unsubscribe
<1>6. ASSUME NEW r \in Sessions, EndedEvent(r)
      PROVE  StepOf(s)
  BY <1>6, ForgetStepOf DEF EndedEvent
<1>7. ASSUME NEW t \in txns, TxnFail(t)
      PROVE  StepOf(s)
  BY <1>7, WaitingUnchanged, UntouchedStep DEF TxnFail, database
<1>8. ASSUME NEW r \in Sessions, PublishDeleted(r)
      PROVE  StepOf(s)
  BY <1>8, WaitingUnchanged, UntouchedStep DEF PublishDeleted, server, database
<1>9. ASSUME NEW r \in Sessions, DeleteRow(r)
      PROVE  StepOf(s)
  <2>1. Waiting(s)' = Waiting(s) /\ sent' = sent
    BY <1>9, WaitingUnchanged DEF DeleteRow, server
  <2>2. CASE r = s
    <3>1. s \notin live' /\ rows'[s] = {}
      BY <1>9, <2>2 DEF DeleteRow, Sane, TypeOK
    <3> QED
      BY <2>1, <3>1 DEF StepOf, Deletes
  <2>3. CASE r # s
    <3>1. rows'[s] = rows[s] /\ snap'[s] = snap[s]
      BY <1>9, <2>3 DEF DeleteRow, Sane, TypeOK
    <3> QED
      BY <2>1, <3>1, UntouchedStep
  <2> QED
    BY <2>2, <2>3
<1>10. CASE Exit
  <2>1. Waiting(s)' = {}
    BY <1>10 DEF Exit, Waiting, NoChunks, Range
  <2> QED
    BY <1>10, <2>1, UntouchedStep DEF Exit, database
<1>11. CASE UNCHANGED vars
  BY <1>11, WaitingUnchanged, UntouchedStep DEF vars, server, database
<1> QED
  BY <1>1, <1>2, <1>3, <1>4, <1>5, <1>6, <1>7, <1>8, <1>9, <1>10, <1>11,
     ChunkStepOf, BulkStepOf, FlushStepOf, CommitStepOf, MovedStepOf
  DEF Next

(***************************************************************************)
(* Retries and sequence numbers, whether the session is calm or not.       *)
(***************************************************************************)

\* A chunk has one sequence number, wherever copies of it are: this is what a
\* second insert of the same batch relies on.
OneNumberEach ==
  \A s \in Sessions : \A e, h \in Waiting(s) \cup rows[s] : e.id = h.id => e = h

\* The unique index on (session_id, seq).
UniqueIndex ==
  \A s \in Sessions : \A e, h \in rows[s] : e.seq = h.seq => e = h

LEMMA OneNumberStep ==
  ASSUME Sane, OneNumberEach, [Next]_vars
  PROVE  OneNumberEach'
<1> SUFFICES ASSUME NEW s \in Sessions
             PROVE  \A e, h \in Waiting(s)' \cup rows'[s] : e.id = h.id => e = h
  BY DEF OneNumberEach
<1>1. StepOf(s)
  BY SessionStep
<1>2. \A e, h \in Waiting(s) \cup rows[s] : e.id = h.id => e = h
  BY DEF OneNumberEach
<1>3. CASE Accepts(s)
  <2>1. NewEntry(s).id = sent[s] + 1
    BY DEF NewEntry
  <2>2. sent[s] \in Nat /\ \A e \in Waiting(s) \cup rows[s] : e.id \in 1..sent[s]
    BY DEF Sane, TypeOK, Bounded, Numbered
  <2>3. \A e \in Waiting(s) \cup rows[s] : e.id # NewEntry(s).id
    BY <2>1, <2>2
  <2>4. Waiting(s)' \cup rows'[s] \subseteq (Waiting(s) \cup rows[s]) \cup {NewEntry(s)}
    BY <1>3 DEF Accepts
  <2> QED
    BY <1>2, <2>3, <2>4
<1>4. CASE ~Accepts(s)
  <2>1. Waiting(s)' \subseteq Waiting(s)
    BY <1>1, <1>4 DEF StepOf, Stores, Commits, Deletes
  <2>2. rows'[s] \subseteq Waiting(s) \cup rows[s]
    <3>1. CASE Stores(s)
      BY <3>1, InsertedBounds DEF Stores
    <3>2. CASE Commits(s) \/ Deletes(s)
      BY <3>2 DEF Commits, Deletes
    <3> QED
      BY <1>1, <1>4, <3>1, <3>2 DEF StepOf
  <2> QED
    BY <1>2, <2>1, <2>2
<1> QED
  BY <1>3, <1>4

\* ON CONFLICT DO NOTHING adds no second row of a number, and no row of a
\* number that is taken.
LEMMA InsertedUnique ==
  ASSUME NEW R \in SUBSET Entry, NEW q \in Seq(Entry),
         \A e, h \in R : e.seq = h.seq => e = h
  PROVE  \A e, h \in Inserted(R, q) : e.seq = h.seq => e = h
<1> DEFINE Fresh == {j \in DOMAIN q : /\ \A r \in R : r.seq # q[j].seq
                                      /\ \A h \in 1..(j - 1) : q[h].seq # q[j].seq}
<1>1. Inserted(R, q) = R \cup {q[j] : j \in Fresh}
  BY DEF Inserted
<1>2. \A j \in Fresh : j \in Nat /\ j >= 1 /\ \A r \in R : r.seq # q[j].seq
  OBVIOUS
<1>3. \A i, j \in Fresh : i < j => q[i].seq # q[j].seq
  <2> SUFFICES ASSUME NEW i \in Fresh, NEW j \in Fresh, i < j
               PROVE  q[i].seq # q[j].seq
    OBVIOUS
  <2>1. i \in 1..(j - 1)
    BY <1>2
  <2> QED
    BY <2>1
<1> HIDE DEF Fresh
<1>4. \A i, j \in Fresh : q[i].seq = q[j].seq => i = j
  BY <1>2, <1>3
<1> QED
  BY <1>1, <1>2, <1>4

LEMMA UniqueStep ==
  ASSUME Sane, UniqueIndex, [Next]_vars
  PROVE  UniqueIndex'
<1> SUFFICES ASSUME NEW s \in Sessions
             PROVE  \A e, h \in rows'[s] : e.seq = h.seq => e = h
  BY DEF UniqueIndex
<1>1. StepOf(s)
  BY SessionStep
<1>2. rows[s] \in SUBSET Entry /\ \A e, h \in rows[s] : e.seq = h.seq => e = h
  BY DEF UniqueIndex, Sane, TypeOK
<1>3. CASE rows'[s] \subseteq rows[s]
  BY <1>2, <1>3
<1>4. ASSUME NEW q \in Seq(Entry), rows'[s] = Inserted(rows[s], q)
      PROVE  \A e, h \in rows'[s] : e.seq = h.seq => e = h
  BY <1>2, <1>4, InsertedUnique
<1> QED
  BY <1>1, <1>3, <1>4 DEF StepOf, Accepts, Stores, Commits, Deletes

LEMMA NumbersInit == Init => OneNumberEach /\ UniqueIndex
<1> SUFFICES ASSUME Init
             PROVE  \A s \in Sessions : Waiting(s) = {} /\ rows[s] = {}
  BY DEF OneNumberEach, UniqueIndex
<1> QED
  BY DEF Init, Waiting, NoChunks, Range

\* A retried insert never stores a chunk twice, also when the first attempt had
\* been committed and only its answer was lost.
THEOREM IdempotentRetry == Spec => []RetryIsIdempotent
<1>1. Init => Sane /\ OneNumberEach
  BY InitSane, NumbersInit
<1>2. Sane /\ OneNumberEach /\ [Next]_vars => (Sane /\ OneNumberEach)'
  BY TypeStep, BoundedStep, OneNumberStep DEF Sane
<1>3. OneNumberEach => RetryIsIdempotent
  BY DEF OneNumberEach, RetryIsIdempotent
<1> QED
  BY <1>1, <1>2, <1>3, PTL DEF Spec

\* What is stored under a number is never replaced, not even when the counter
\* started over and the number is used again.
THEOREM NothingOverwritten == Spec => StoredNeverOverwritten
<1> DEFINE Same == \A s \in Sessions : \A r \in rows[s], q \in rows'[s] : r.seq = q.seq => r = q
<1>1. Init => Sane /\ UniqueIndex
  BY InitSane, NumbersInit
<1>2. Sane /\ UniqueIndex /\ [Next]_vars => (Sane /\ UniqueIndex)'
  BY TypeStep, BoundedStep, UniqueStep DEF Sane
<1>3. Sane /\ UniqueIndex /\ [Next]_vars => Same
  <2> SUFFICES ASSUME Sane, UniqueIndex, [Next]_vars,
                      NEW s \in Sessions, NEW r \in rows[s], NEW q \in rows'[s], r.seq = q.seq
               PROVE  r = q
    OBVIOUS
  <2>1. StepOf(s)
    BY SessionStep
  <2>2. CASE rows'[s] \subseteq rows[s]
    BY <2>2 DEF UniqueIndex
  <2>3. CASE rows[s] \subseteq rows'[s]
    <3>1. UniqueIndex'
      BY UniqueStep
    <3> QED
      BY <2>3, <3>1 DEF UniqueIndex
  <2> QED
    BY <2>1, <2>2, <2>3, InsertedBounds DEF StepOf, Accepts, Stores, Commits, Deletes
<1>4. Sane /\ UniqueIndex /\ [Next]_vars => [Same]_vars
  BY <1>3
<1> QED
  BY <1>1, <1>2, <1>4, PTL DEF Spec, StoredNeverOverwritten

(***************************************************************************)
(* The refinement.                                                         *)
(***************************************************************************)

\* A session that is promised something after a step was promised it before, so
\* the numbering of CalmLog holds on both sides of the step.
LEMMA PromisedBefore ==
  ASSUME Sane, CalmInv, [Next]_vars, NEW s \in Sessions, Promised(s)'
  PROVE  Promised(s) /\ CalmLog(s) /\ CalmLog(s)' /\ Sane'
<1>1. s \in live' /\ calm'[s]
  BY DEF Promised
<1>2. s \in live /\ calm[s]
  BY <1>1, CalmBefore
<1>3. CalmLog(s) /\ CalmLog(s)'
  BY <1>1, <1>2, CalmStep DEF CalmInv
<1> QED
  BY <1>2, <1>3, TypeStep, BoundedStep DEF Promised, Sane

\* Once a viewer can see a chunk of a calm session, it can see it ever after.
THEOREM StaysShown == Spec => ShownForever
<1> DEFINE Stays == \A s \in live' : calm'[s] => \A i \in 1..sent[s] : Shown(s, i) => Shown(s, i)'
<1>1. Init => Sane /\ CalmInv
  BY InitSane, InitCalm
<1>2. Sane /\ CalmInv /\ [Next]_vars => (Sane /\ CalmInv)'
  BY TypeStep, BoundedStep, CalmStep DEF Sane
<1>3. Sane /\ CalmInv /\ [Next]_vars => Stays
  <2> SUFFICES ASSUME Sane, CalmInv, [Next]_vars,
                      NEW s \in live', calm'[s], NEW i \in 1..sent[s], Shown(s, i)
               PROVE  Shown(s, i)'
    OBVIOUS
  <2>1. s \in Sessions /\ s \in live /\ calm[s]
    BY CalmBefore
  <2>2. CalmLog(s)
    BY <2>1, PromisedBefore DEF Promised
  <2>3. StepOf(s) /\ ~Deletes(s)
    BY <2>1, SessionStep DEF Deletes
  <2>4. CASE snap'[s] = snap[s] /\ rows[s] \subseteq rows'[s]
    BY <2>4 DEF Shown, Replayed
  <2>5. CASE Commits(s)
    <3>1. PICK t \in TxnsOf(s) : /\ snap'[s].seq = t.seq /\ snap'[s].upto = t.upto
                                 /\ rows'[s] = {r \in rows[s] : r.seq > t.seq}
      BY <2>5 DEF Commits, TxnsOf
    <3>2. t.seq = t.upto /\ snap[s].seq <= t.seq /\ snap[s].seq = snap[s].upto
      BY <2>2 DEF CalmLog, SnapshotsAgree
    <3>3. t.seq \in Nat /\ snap[s].seq \in Nat /\ \A r \in rows[s] : r.seq = r.id /\ r.seq \in Nat
      BY <2>1, <2>2 DEF CalmLog, Numbering, Sane, TypeOK, TxnsOf, Entry
    <3>4. CASE i <= snap[s].upto
      BY <3>1, <3>2, <3>3, <3>4 DEF Shown
    <3>5. ASSUME NEW r \in rows[s], r.id = i
          PROVE  Shown(s, i)'
      <4>1. CASE i <= t.seq
        BY <3>1, <3>2, <4>1 DEF Shown
      <4>2. CASE r \in rows'[s] /\ r.seq > snap'[s].seq
        BY <3>5, <4>2 DEF Shown, Replayed
      <4> QED
        BY <3>1, <3>3, <3>5, <4>1, <4>2
    <3> QED
      BY <3>4, <3>5 DEF Shown, Replayed
  <2> QED
    BY <2>1, <2>3, <2>4, <2>5, InsertedBounds DEF StepOf, Accepts, Stores
<1>4. Sane /\ CalmInv /\ [Next]_vars => [Stays]_vars
  BY <1>3
<1> QED
  BY <1>1, <1>2, <1>4, PTL DEF Spec, ShownForever

\* A step of a session that stays promised is a step of the abstract log.
LEMMA PromisedLogStep ==
  ASSUME Sane, CalmInv, [Next]_vars, NEW s \in Sessions, Promised(s)'
  PROVE  Log(s)!LogNext
<1> DEFINE ids == {r.id : r \in rows[s]}
           idsAfter == {r.id : r \in rows'[s]}
<1>1. Promised(s) /\ CalmLog(s) /\ CalmLog(s)' /\ Sane'
  BY PromisedBefore
<1>2. StepOf(s) /\ ~Deletes(s)
  BY SessionStep DEF Promised, Deletes
<1>3. sent[s] \in Nat /\ idsAfter \subseteq 1..sent'[s]
  BY <1>1 DEF Sane, TypeOK, Bounded, Numbered
<1>4. CASE Accepts(s)
  <2>1. Log(s)!Accept
    BY <1>1, <1>4 DEF Accepts, Log!Accept
  <2> QED
    BY <2>1 DEF Log!LogNext
<1>5. CASE Stores(s)
  <2>1. sent'[s] = sent[s] /\ snap'[s] = snap[s] /\ rows[s] \subseteq rows'[s]
    BY <1>5, InsertedBounds DEF Stores
  <2>2. idsAfter \in SUBSET (1..sent[s]) /\ idsAfter = ids \cup idsAfter
    BY <1>3, <2>1
  <2> HIDE DEF ids, idsAfter
  <2>3. \E S \in SUBSET (1..sent[s]) : idsAfter = ids \cup S
    BY <2>2
  <2>4. Log(s)!Store
    BY <1>1, <2>1, <2>3 DEF Log!Store, ids, idsAfter
  <2> QED
    BY <2>4 DEF Log!LogNext
<1>6. CASE Commits(s)
  <2>1. PICK t \in TxnsOf(s) : /\ snap'[s].seq = t.seq /\ snap'[s].upto = t.upto
                               /\ rows'[s] = {r \in rows[s] : r.seq > t.seq}
    BY <1>6 DEF Commits, TxnsOf
  <2>2. t.seq = t.upto /\ snap[s].seq <= t.seq /\ snap[s].seq = snap[s].upto
    BY <1>1 DEF CalmLog, SnapshotsAgree
  <2>3. /\ t.seq \in Nat /\ snap[s].upto \in Nat /\ t.upto <= sent[s]
        /\ \A r \in rows[s] : r.seq = r.id /\ r.seq \in Nat /\ r.seq >= 1
    BY <1>1 DEF CalmLog, Numbering, Sane, TypeOK, Bounded, Numbered, TxnsOf, Entry
  <2>4. t.upto \in snap[s].upto..sent[s]
    BY <1>3, <2>2, <2>3
  <2>5. idsAfter = ids \ (1..t.upto)
    BY <2>1, <2>2, <2>3
  <2>6. sent'[s] = sent[s] /\ snap'[s].upto = t.upto
    BY <1>6, <2>1 DEF Commits
  <2> HIDE DEF ids, idsAfter
  <2>7. Log(s)!Cover
    BY <1>1, <2>4, <2>5, <2>6 DEF Log!Cover, ids, idsAfter
  <2> QED
    BY <2>7 DEF Log!LogNext
<1> QED
  BY <1>2, <1>4, <1>5, <1>6 DEF StepOf

\* Queue, batches, retries, early flushes, counters and snapshot transactions
\* are, for each calm session, an append-only log with one snapshot.
THEOREM ChunkStoreImplementsLog == Spec => ImplementsLog
<1> DEFINE Steps == \A s \in Sessions : [Log(s)!LogNext]_(Log(s)!logVars)
<1>1. Init => Sane /\ CalmInv
  BY InitSane, InitCalm
<1>2. Sane /\ CalmInv /\ [Next]_vars => (Sane /\ CalmInv)'
  BY TypeStep, BoundedStep, CalmStep DEF Sane
<1>3. Init => \A s \in Sessions : Log(s)!LogInit
  BY DEF Init, NoRow, Promised, Log!LogInit
<1>4. Sane /\ CalmInv /\ [Next]_vars => Steps
  <2> SUFFICES ASSUME Sane, CalmInv, [Next]_vars, NEW s \in Sessions
               PROVE  Log(s)!LogNext
    BY Zenon
  <2>1. CASE Promised(s)'
    BY <2>1, PromisedLogStep
  <2>2. CASE ~Promised(s)'
    BY <2>2, Zenon DEF Log!LogNext, Log!Over
  <2> QED
    BY <2>1, <2>2
<1>5. Sane /\ CalmInv /\ [Next]_vars => [Steps]_vars
  BY <1>4
<1> QED
  BY <1>1, <1>2, <1>3, <1>5, PTL DEF Spec, ImplementsLog
=============================================================================
