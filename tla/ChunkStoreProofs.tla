-------------------------- MODULE ChunkStoreProofs --------------------------
(***************************************************************************)
(* Proofs about ChunkStore, for every value of its constants.              *)
(***************************************************************************)
EXTENDS ChunkStore, SequenceTheorems, WellFoundedInduction, TLAPS

(***************************************************************************)
(* Operators of the model.                                                 *)
(***************************************************************************)

\* An array keeps its type when chunks are appended to it.
LEMMA RequeueType ==
  ASSUME TypeOK, NEW batch \in Batches, Requeue(batch)
  PROVE  queue' \in Batches
BY DEF TypeOK, Requeue, Batches

LEMMA NoChunksType == NoChunks \in Batches
BY DEF NoChunks, Batches

\* What the safety cap takes from each session is a number of chunks.
LEMMA DropsType ==
  ASSUME NEW d \in Drops
  PROVE  d \in [Sessions -> Nat]
<1>1. DropCount \in Nat
  BY StoreAssumption DEF DropCount
<1> QED
  BY <1>1 DEF Drops

LEMMA PushedType ==
  ASSUME TypeOK, NEW d \in Drops, NEW s \in Sessions
  PROVE  Pushed(d, s) \in Batches
<1>1. d \in [Sessions -> Nat]
  BY DropsType
<1> DEFINE kept == [r \in Sessions |-> SubSeq(queue[r], d[r] + 1, Len(queue[r]))]
<1>2. NewEntry(s) \in Entry
  BY DEF TypeOK, NewEntry, Current, NoCounter, Entry
<1>3. kept \in Batches
  <2> SUFFICES ASSUME NEW r \in Sessions
               PROVE  SubSeq(queue[r], d[r] + 1, Len(queue[r])) \in Seq(Entry)
    BY DEF Batches
  <2> QED
    BY <1>1, SubSeqProperties DEF TypeOK, Batches
<1>4. Append(kept[s], NewEntry(s)) \in Seq(Entry)
  BY <1>2, <1>3 DEF Batches
<1>5. Pushed(d, s) = [kept EXCEPT ![s] = Append(kept[s], NewEntry(s))]
  BY DEF Pushed
<1> QED
  BY <1>3, <1>4, <1>5 DEF Batches

\* A set of numbers has a least one.
LEMMA LeastNumber ==
  ASSUME NEW T \in SUBSET Nat, T # {}
  PROVE  \E m \in T : \A y \in T : m <= y
<1>1. PICK m \in T : \A y \in T : ~(<<y, m>> \in OpToRel(<, Nat))
  BY NatLessThanWellFounded, WFMin
<1>2. \A y \in T : ~(y < m)
  BY <1>1, Zenon DEF OpToRel
<1>3. m \in Nat /\ \A y \in T : y \in Nat
  OBVIOUS
<1>4. \A y \in T : m <= y
  BY <1>2, <1>3
<1> QED
  BY <1>4

\* INSERT ... ON CONFLICT DO NOTHING keeps the rows that were there and adds
\* rows of the batch only.
LEMMA InsertedBounds ==
  ASSUME NEW R, NEW q \in Seq(Entry)
  PROVE  /\ R \subseteq Inserted(R, q)
         /\ Inserted(R, q) \subseteq R \cup Range(q)
BY DEF Inserted, Range

\* Whatever the order of the batch, every number of it is stored afterwards.
LEMMA InsertedCovers ==
  ASSUME NEW R, NEW q \in Seq(Entry), NEW e \in Range(q)
  PROVE  \E r \in Inserted(R, q) : r.seq = e.seq
<1>1. PICK j \in DOMAIN q : q[j] = e
  BY DEF Range
<1>2. CASE \E r \in R : r.seq = e.seq
  BY <1>2, InsertedBounds
<1>3. CASE \A r \in R : r.seq # e.seq
  <2> DEFINE T == {h \in DOMAIN q : q[h].seq = e.seq}
  <2>1. T \in SUBSET Nat /\ T # {}
    BY <1>1
  <2>2. PICK m \in T : \A y \in T : m <= y
    BY <2>1, LeastNumber
  <2>3. \A h \in 1..(m - 1) : h \in DOMAIN q => q[h].seq # q[m].seq
    BY <2>1, <2>2
  <2>4. m \in DOMAIN q /\ \A h \in 1..(m - 1) : h \in DOMAIN q
    BY <2>2
  <2>5. q[m] \in Inserted(R, q)
    BY <1>3, <2>2, <2>3, <2>4 DEF Inserted
  <2> QED
    BY <2>2, <2>5
<1> QED
  BY <1>2, <1>3

LEMMA InsertedType ==
  ASSUME NEW R \in SUBSET Entry, NEW q \in Seq(Entry)
  PROVE  Inserted(R, q) \in SUBSET Entry
BY InsertedBounds, RangeOfSeq

(***************************************************************************)
(* What each kind of step does to the chunks that wait.                    *)
(***************************************************************************)

LEMMA WaitingUnchanged ==
  ASSUME NEW s \in Sessions, UNCHANGED <<queue, bulk, flushes>>
  PROVE  Waiting(s)' = Waiting(s)
BY DEF Waiting

LEMMA WaitingFlushTimer ==
  ASSUME TypeOK, NEW s \in Sessions, FlushTimer
  PROVE  Waiting(s)' = Waiting(s)
<1> DEFINE b == [batch |-> queue, adaptive |-> FALSE]
<1>1. Range(queue'[s]) = {}
  BY DEF FlushTimer, NoChunks, Range
<1>2. bulk' = bulk \cup {b} /\ flushes' = flushes /\ b.batch = queue
  BY DEF FlushTimer
<1> HIDE DEF b
<1> QED
  BY <1>1, <1>2 DEF Waiting

LEMMA WaitingForget ==
  ASSUME TypeOK, NEW S \in SUBSET Sessions, FlushAndForget(S), NEW s \in Sessions
  PROVE  Waiting(s)' = Waiting(s)
<1> DEFINE Started == {FlushOf(r, "nothing", 0) : r \in {x \in S : queue[x] # <<>>}}
<1>1. bulk' = bulk /\ flushes' = flushes \cup Started
  BY DEF FlushAndForget
<1>2. Range(<<>>) = {}
  BY DEF Range
<1>3. queue'[s] = IF s \in S THEN <<>> ELSE queue[s]
  BY DEF FlushAndForget
<1>4. ASSUME NEW f \in Started
      PROVE  f.session \in S /\ queue[f.session] # <<>> /\ f.batch = queue[f.session]
  <2>1. PICK x \in {y \in S : queue[y] # <<>>} : f = FlushOf(x, "nothing", 0)
    OBVIOUS
  <2> QED
    BY <2>1 DEF FlushOf
<1>5. ASSUME s \in S, queue[s] # <<>>
      PROVE  \E f \in Started : f.session = s /\ f.batch = queue[s]
  <2>1. FlushOf(s, "nothing", 0) \in Started
    BY <1>5
  <2>2. FlushOf(s, "nothing", 0).session = s /\ FlushOf(s, "nothing", 0).batch = queue[s]
    BY DEF FlushOf
  <2> QED
    BY <2>1, <2>2
<1>6. s \notin S => \A f \in Started : f.session # s
  BY <1>4
<1> HIDE DEF Started
<1>7. CASE s \in S /\ queue[s] # <<>>
  BY <1>1, <1>2, <1>3, <1>4, <1>5, <1>7 DEF Waiting
<1>8. CASE s \in S /\ queue[s] = <<>>
  BY <1>1, <1>2, <1>3, <1>4, <1>8 DEF Waiting
<1>9. CASE s \notin S
  BY <1>1, <1>3, <1>6, <1>9 DEF Waiting
<1> QED
  BY <1>7, <1>8, <1>9

\* A flush that starts moves chunks, also when something awaits it.
LEMMA WaitingMoved ==
  ASSUME TypeOK, NEW r \in Sessions, NEW next, NEW upto,
         flushes' = flushes \cup {FlushOf(r, next, upto)},
         queue' = [queue EXCEPT ![r] = <<>>],
         UNCHANGED bulk,
         NEW s \in Sessions
  PROVE  Waiting(s)' = Waiting(s)
<1> DEFINE g == FlushOf(r, next, upto)
<1>1. g.session = r /\ g.batch = queue[r]
  BY DEF FlushOf
<1>2. Range(<<>>) = {}
  BY DEF Range
<1>3. queue'[s] = IF s = r THEN <<>> ELSE queue[s]
  BY DEF TypeOK, Batches
<1>4. flushes' = flushes \cup {g}
  OBVIOUS
<1> HIDE DEF g
<1>5. CASE s = r
  BY <1>1, <1>2, <1>3, <1>4, <1>5 DEF Waiting
<1>6. CASE s # r
  BY <1>1, <1>3, <1>4, <1>6 DEF Waiting
<1> QED
  BY <1>5, <1>6

\* A completed bulk insert takes its batch out; a failed one puts it back.
LEMMA WaitingBulk ==
  ASSUME TypeOK, NEW b \in bulk, bulk' = bulk \ {b}, UNCHANGED flushes,
         NEW s \in Sessions
  PROVE  /\ queue'[s] = queue[s] => Waiting(s)' \subseteq Waiting(s)
         /\ queue'[s] = queue[s] => Waiting(s) \subseteq Waiting(s)' \cup Range(b.batch[s])
         /\ queue'[s] = queue[s] \o b.batch[s] => Waiting(s)' = Waiting(s)
<1>1. queue[s] \in Seq(Entry) /\ b.batch[s] \in Seq(Entry)
  BY DEF TypeOK, Batches
<1>2. Range(queue[s] \o b.batch[s]) = Range(queue[s]) \cup Range(b.batch[s])
  BY <1>1, RangeConcatenation
<1>3. queue'[s] = queue[s] => Waiting(s)' \subseteq Waiting(s)
  BY DEF Waiting
<1>4. queue'[s] = queue[s] => Waiting(s) \subseteq Waiting(s)' \cup Range(b.batch[s])
  BY DEF Waiting
<1>5. queue'[s] = queue[s] \o b.batch[s] => Waiting(s)' = Waiting(s)
  BY <1>2 DEF Waiting
<1> QED
  BY <1>3, <1>4, <1>5

LEMMA WaitingFlush ==
  ASSUME TypeOK, NEW f \in flushes, flushes' = flushes \ {f}, UNCHANGED bulk,
         NEW s \in Sessions
  PROVE  /\ queue'[s] = queue[s] => Waiting(s)' \subseteq Waiting(s)
         /\ queue'[s] = queue[s] =>
              Waiting(s) \subseteq Waiting(s)' \cup (IF s = f.session THEN Range(f.batch) ELSE {})
         /\ s = f.session /\ queue'[s] = queue[s] \o f.batch => Waiting(s)' = Waiting(s)
<1>1. queue[s] \in Seq(Entry) /\ f.batch \in Seq(Entry)
  BY DEF TypeOK, Batches
<1>2. Range(queue[s] \o f.batch) = Range(queue[s]) \cup Range(f.batch)
  BY <1>1, RangeConcatenation
<1>3. queue'[s] = queue[s] => Waiting(s)' \subseteq Waiting(s)
  BY DEF Waiting
<1>4. queue'[s] = queue[s] =>
        Waiting(s) \subseteq Waiting(s)' \cup (IF s = f.session THEN Range(f.batch) ELSE {})
  BY DEF Waiting
<1>5. s = f.session /\ queue'[s] = queue[s] \o f.batch => Waiting(s)' = Waiting(s)
  BY <1>2 DEF Waiting
<1> QED
  BY <1>3, <1>4, <1>5

\* queueChunk adds one chunk; what was not dropped stays.
LEMMA PushedRange ==
  ASSUME TypeOK, NEW d \in Drops, NEW s \in Sessions, NEW r \in Sessions
  PROVE  /\ Range(Pushed(d, s)[r]) \subseteq
              Range(queue[r]) \cup (IF r = s THEN {NewEntry(s)} ELSE {})
         /\ d[r] = 0 => Range(queue[r]) \subseteq Range(Pushed(d, s)[r])
         /\ NewEntry(s) \in Range(Pushed(d, s)[s])
<1>1. d \in [Sessions -> Nat]
  BY DropsType
<1> DEFINE kept(x) == SubSeq(queue[x], d[x] + 1, Len(queue[x]))
<1>2. NewEntry(s) \in Entry
  BY DEF TypeOK, NewEntry, Current, NoCounter, Entry
<1>3. ASSUME NEW x \in Sessions
      PROVE  /\ kept(x) \in Seq(Entry)
             /\ Range(kept(x)) \subseteq Range(queue[x])
             /\ d[x] = 0 => kept(x) = queue[x]
  <2>1. queue[x] \in Seq(Entry) /\ d[x] \in Nat
    BY <1>1 DEF TypeOK, Batches
  <2>2. /\ kept(x) \in Seq(Entry)
        /\ Len(kept(x)) = IF d[x] + 1 <= Len(queue[x]) THEN Len(queue[x]) - d[x] ELSE 0
        /\ \A i \in 1 .. Len(queue[x]) - d[x] : kept(x)[i] = queue[x][d[x] + i]
    BY <2>1, SubSeqProperties
  <2>3. Range(kept(x)) \subseteq Range(queue[x])
    <3> DEFINE p == kept(x)  q == queue[x]  n == d[x]
    <3>1. /\ q \in Seq(Entry) /\ n \in Nat
          /\ p \in Seq(Entry)
          /\ Len(p) = IF n + 1 <= Len(q) THEN Len(q) - n ELSE 0
          /\ \A i \in 1 .. Len(q) - n : p[i] = q[n + i]
      BY <2>1, <2>2
    <3> HIDE DEF p, q, n
    <3>2. \A i \in 1..Len(p) : n + i \in 1..Len(q) /\ p[i] = q[n + i]
      BY <3>1
    <3>3. Range(p) = {p[i] : i \in 1..Len(p)} /\ Range(q) = {q[i] : i \in 1..Len(q)}
      BY <3>1, RangeEquality
    <3>4. Range(p) \subseteq Range(q)
      BY <3>2, <3>3
    <3> QED
      BY <3>4 DEF p, q
  <2>4. d[x] = 0 => kept(x) = queue[x]
    BY <2>1, <2>2, SubSeqFull
  <2> QED
    BY <2>2, <2>3, <2>4
<1>4. Pushed(d, s)[r] = IF r = s THEN Append(kept(s), NewEntry(s)) ELSE kept(r)
  BY DEF Pushed
<1>5. Range(Append(kept(s), NewEntry(s))) = Range(kept(s)) \cup {NewEntry(s)}
  <2> DEFINE p == kept(s)  e == NewEntry(s)
  <2>1. p \in Seq(Entry) /\ e \in Entry
    BY <1>2, <1>3
  <2> HIDE DEF p, e
  <2>2. /\ Append(p, e) \in Seq(Entry)
        /\ Len(Append(p, e)) = Len(p) + 1
        /\ \A i \in 1..Len(p) : Append(p, e)[i] = p[i]
        /\ Append(p, e)[Len(p) + 1] = e
    BY <2>1, AppendProperties
  <2>3. /\ Range(Append(p, e)) = {Append(p, e)[i] : i \in 1..Len(Append(p, e))}
        /\ Range(p) = {p[i] : i \in 1..Len(p)}
    BY <2>1, <2>2, RangeEquality
  <2>4. Len(p) \in Nat
    BY <2>1
  <2>5. Range(Append(p, e)) = Range(p) \cup {e}
    BY <2>2, <2>3, <2>4
  <2> QED
    BY <2>5 DEF p, e
<1>6. Pushed(d, s)[s] = Append(kept(s), NewEntry(s))
  BY DEF Pushed
<1> HIDE DEF kept
<1> QED
  BY <1>3, <1>4, <1>5, <1>6

LEMMA WaitingPush ==
  ASSUME TypeOK, NEW d \in Drops, NEW s \in Sessions, Push(d, s), UNCHANGED flushes,
         NEW r \in Sessions
  PROVE  /\ Waiting(r)' \subseteq Waiting(r) \cup (IF r = s THEN {NewEntry(s)} ELSE {})
         /\ d[r] = 0 => Waiting(r) \subseteq Waiting(r)'
         /\ NewEntry(s) \in Waiting(s)'
<1> DEFINE b == [batch |-> Pushed(d, s), adaptive |-> TRUE]
<1>1. b.batch = Pushed(d, s)
  OBVIOUS
<1>2. CASE bulk' = bulk \cup {b} /\ queue' = NoChunks
  <2>1. Range(queue'[r]) = {}
    BY <1>2 DEF NoChunks, Range
  <2>2. b \in bulk' /\ \A c \in bulk' : c \in bulk \/ c = b
    BY <1>2
  <2> HIDE DEF b
  <2> QED
    BY <1>1, <1>2, <2>1, <2>2, PushedRange DEF Waiting
<1>3. CASE bulk' = bulk /\ queue' = Pushed(d, s)
  BY <1>3, PushedRange DEF Waiting
<1> QED
  BY <1>2, <1>3 DEF Push

(***************************************************************************)
(* Types and bounds.  TypeOK is not inductive alone: max(seq) is a number   *)
(* only because the stored sequence numbers are bounded.  They are bounded *)
(* by the number of chunks ever accepted, and so is everything else that   *)
(* becomes a sequence number or the reach of a snapshot.                   *)
(***************************************************************************)

Numbered(s, e) == e.seq \in 1..sent[s] /\ e.id \in 1..sent[s]

Bounded ==
  \A s \in Sessions :
    /\ counter[s] <= sent[s]
    /\ init[s].max <= sent[s]
    /\ snap[s].seq <= sent[s] /\ snap[s].upto <= sent[s]
    /\ \A e \in Waiting(s) \cup rows[s] : Numbered(s, e)
    /\ \A t \in txns : t.session = s => t.seq <= sent[s] /\ t.upto <= sent[s]
    /\ \A f \in flushes : f.session = s => f.upto <= sent[s]

Sane == TypeOK /\ Bounded

\* A bounded set of rows has a highest sequence number.
LEMMA MaxSeqProperties ==
  ASSUME NEW R \in SUBSET Entry, NEW n \in Nat, \A r \in R : r.seq <= n
  PROVE  /\ MaxSeq(R) \in Nat
         /\ MaxSeq(R) <= n
         /\ \A r \in R : r.seq <= MaxSeq(R)
         /\ R # {} => \E r \in R : r.seq = MaxSeq(R)
<1>1. CASE R = {}
  BY <1>1 DEF MaxSeq
<1>2. CASE R # {}
  <2> DEFINE S == {r.seq : r \in R}
             T == {m \in Nat : \A x \in S : x <= m}
  <2>1. S \subseteq Nat /\ S # {} /\ \A x \in S : x <= n
    BY <1>2 DEF Entry
  <2>2. T \subseteq Nat /\ T # {}
    BY <2>1
  <2>7. \A k \in Nat : k \in T <=> \A x \in S : x <= k
    OBVIOUS
  <2> HIDE DEF S, T
  <2>4. PICK m \in T : \A y \in T : m <= y
    BY <2>2, LeastNumber
  <2>5. m \in S
    <3> SUFFICES ASSUME m \notin S
                 PROVE  FALSE
      OBVIOUS
    <3>0. m \in Nat /\ \A x \in S : x \in Nat /\ x # m
      BY <2>1, <2>2, <2>4
    <3>1. m \in Nat /\ \A x \in S : x \in Nat /\ x < m
      BY <2>7, <3>0
    <3> PICK z \in S : TRUE
      BY <2>1
    <3>5. m - 1 \in Nat
      BY <3>1
    <3>2. m - 1 \in Nat /\ \A x \in S : x <= m - 1
      BY <3>1, <3>5
    <3>3. m - 1 \in T
      BY <2>7, <3>2
    <3>4. m <= m - 1
      BY <2>4, <3>3
    <3> QED
      BY <3>1, <3>4
  <2>6. \A r \in R : r.seq <= m
    BY <2>7, <2>2 DEF S
  <2>8. MaxSeq(R) \in S /\ \A r \in R : r.seq <= MaxSeq(R)
    BY <1>2, <2>5, <2>6 DEF MaxSeq, S
  <2> QED
    BY <1>2, <2>1, <2>8 DEF S
<1> QED
  BY <1>1, <1>2

LEMMA InitSane == Init => Sane
<1> SUFFICES ASSUME Init
             PROVE  Sane
  OBVIOUS
<1>1. TypeOK
  <2>1. queue \in Batches
    BY NoChunksType DEF Init
  <2>2. /\ counter \in [Sessions -> Nat \cup {NoCounter}]
        /\ init \in [Sessions -> [stage : {"idle", "max", "snapshot"}, max : Nat]]
        /\ snap \in [Sessions -> [seq : Nat, upto : Nat]]
    BY DEF Init, NoRow
  <2>3. /\ subscribed \in [Sockets -> SUBSET Sessions]
        /\ rows \in [Sessions -> SUBSET Entry]
        /\ sent \in [Sessions -> Nat]
        /\ calm \in [Sessions -> BOOLEAN]
    BY DEF Init
  <2> QED
    BY <2>1, <2>2, <2>3 DEF Init, TypeOK
<1>2. \A s \in Sessions : Waiting(s) = {}
  BY DEF Init, Waiting, NoChunks, Range
<1>3. Bounded
  <2> SUFFICES ASSUME NEW s \in Sessions
               PROVE  /\ counter[s] <= sent[s]
                      /\ init[s].max <= sent[s]
                      /\ snap[s].seq <= sent[s] /\ snap[s].upto <= sent[s]
                      /\ Waiting(s) \cup rows[s] = {}
                      /\ txns = {} /\ flushes = {}
    BY DEF Bounded
  <2> QED
    BY <1>2 DEF Init, NoRow, NoCounter
<1> QED
  BY <1>1, <1>3 DEF Sane

\* Every step keeps the types; max(seq) needs the bounds.
LEMMA TypeStep ==
  ASSUME Sane, [Next]_vars
  PROVE  TypeOK'
<1> USE DEF Sane
<1>1. ASSUME NEW k \in Sockets, NEW s \in Sessions, Subscribe(k, s)
      PROVE  TypeOK'
  BY <1>1 DEF TypeOK, Subscribe, database
<1>2. ASSUME NEW s \in Sessions, InitReadMax(s)
      PROVE  TypeOK'
  <2>1. MaxSeq(rows[s]) \in Nat
    <3>1. rows[s] \in SUBSET Entry /\ sent[s] \in Nat /\ \A r \in rows[s] : r.seq <= sent[s]
      BY DEF TypeOK, Bounded, Numbered
    <3> QED
      BY <3>1, MaxSeqProperties
  <2>2. calm' \in [Sessions -> BOOLEAN]
    BY <1>2 DEF TypeOK, InitReadMax, Disturb
  <2> QED
    BY <1>2, <2>1, <2>2 DEF TypeOK, InitReadMax, database
<1>3. ASSUME NEW s \in Sessions, InitReadSnapshot(s)
      PROVE  TypeOK'
  BY <1>3 DEF TypeOK, InitReadSnapshot, Larger, database
<1>4. ASSUME NEW s \in Sessions, InitFail(s)
      PROVE  TypeOK'
  BY <1>4 DEF TypeOK, InitFail, Current, Disturb, NoCounter, database
<1>5. ASSUME NEW k \in Sockets, NEW s \in Sessions, Chunk(k, s)
      PROVE  TypeOK'
  <2>1. PICK d \in Drops : Push(d, s)
    BY <1>5 DEF Chunk
  <2>2. Pushed(d, s) \in Batches
    BY PushedType
  <2>3. /\ bulk' \in SUBSET [batch : Batches, adaptive : BOOLEAN]
        /\ queue' \in Batches
        /\ flushing' \in BOOLEAN
    <3>1. [batch |-> Pushed(d, s), adaptive |-> TRUE] \in [batch : Batches, adaptive : BOOLEAN]
      BY <2>2
    <3> HIDE DEF Batches
    <3> QED
      BY <2>1, <2>2, <3>1, NoChunksType DEF TypeOK, Push
  <2>4. counter' \in [Sessions -> Nat \cup {NoCounter}] /\ sent' \in [Sessions -> Nat]
    BY <1>5 DEF TypeOK, Chunk, Current, NoCounter
  <2>5. calm' \in [Sessions -> BOOLEAN]
    BY <1>5 DEF Chunk, Disturb, TypeOK
  <2> QED
    BY <1>5, <2>3, <2>4, <2>5 DEF TypeOK, Chunk, database
<1>6. CASE FlushTimer
  <2>1. [batch |-> queue, adaptive |-> FALSE] \in [batch : Batches, adaptive : BOOLEAN]
    BY DEF TypeOK
  <2>2. bulk' \in SUBSET [batch : Batches, adaptive : BOOLEAN]
    BY <1>6, <2>1 DEF TypeOK, FlushTimer
  <2> QED
    BY <1>6, <2>2, NoChunksType DEF TypeOK, FlushTimer, database
<1>7. ASSUME NEW b \in bulk, BulkOk(b)
      PROVE  TypeOK'
  <2>1. rows' \in [Sessions -> SUBSET Entry]
    <3>1. \A s \in Sessions : rows[s] \in SUBSET Entry /\ b.batch[s] \in Seq(Entry)
      BY DEF TypeOK, Batches
    <3>2. \A s \in Sessions : Inserted(rows[s], b.batch[s]) \in SUBSET Entry
      BY <3>1, InsertedType
    <3> QED
      BY <1>7, <3>2 DEF BulkOk
  <2> QED
    BY <1>7, <2>1 DEF TypeOK, BulkOk, BulkDone
<1>8. ASSUME NEW b \in bulk, NEW s \in Sessions, BulkForeignKey(b, s)
      PROVE  TypeOK'
  <2>1. [b.batch EXCEPT ![s] = <<>>] \in Batches
    BY DEF TypeOK, Batches
  <2>2. queue' \in Batches
    BY <1>8, <2>1, RequeueType DEF BulkForeignKey
  <2>3. counter' \in [Sessions -> Nat \cup {NoCounter}]
    BY <1>8 DEF BulkForeignKey, TypeOK
  <2> QED
    BY <1>8, <2>2, <2>3 DEF TypeOK, BulkForeignKey, BulkDone
<1>9. ASSUME NEW b \in bulk, BulkError(b)
      PROVE  TypeOK'
  <2>1. queue' \in Batches
    BY <1>9, RequeueType DEF BulkError, TypeOK
  <2>2. rows' \in [Sessions -> SUBSET Entry]
    <3>1. \A s \in Sessions : rows[s] \in SUBSET Entry /\ b.batch[s] \in Seq(Entry)
      BY DEF TypeOK, Batches
    <3>2. \A s \in Sessions : Inserted(rows[s], b.batch[s]) \in SUBSET Entry
      BY <3>1, InsertedType
    <3> QED
      BY <1>9, <3>2 DEF BulkError, TypeOK
  <2> QED
    BY <1>9, <2>1, <2>2 DEF TypeOK, BulkError, BulkDone
<1>10. ASSUME NEW S \in SUBSET Sessions, FlushAndForget(S)
       PROVE  /\ queue' \in Batches
              /\ flushes' \in SUBSET [session : Sessions, batch : Seq(Entry),
                                      next : Continuations, upto : Nat]
              /\ counter' \in [Sessions -> Nat \cup {NoCounter}]
  <2>1. \A s \in Sessions : FlushOf(s, "nothing", 0) \in
                 [session : Sessions, batch : Seq(Entry), next : Continuations, upto : Nat]
    BY DEF TypeOK, FlushOf, Continuations, Batches
  <2>2. queue' \in Batches
    BY <1>10 DEF TypeOK, FlushAndForget, Batches
  <2>3. counter' \in [Sessions -> Nat \cup {NoCounter}]
    BY <1>10 DEF TypeOK, FlushAndForget
  <2> QED
    BY <1>10, <2>1, <2>2, <2>3 DEF TypeOK, FlushAndForget
<1>11. ASSUME NEW k \in Sockets, Close(k)
       PROVE  TypeOK'
  <2>1. subscribed[k] \in SUBSET Sessions /\ FlushAndForget(subscribed[k])
    BY <1>11 DEF TypeOK, Close
  <2> QED
    BY <1>10, <1>11, <2>1 DEF TypeOK, Close, FlushAndForget, database
<1>12. ASSUME NEW k \in Sockets, NEW s \in Sessions, Unsubscribe(k, s)
       PROVE  TypeOK'
  <2>1. {s} \in SUBSET Sessions /\ FlushAndForget({s})
    BY <1>12 DEF Unsubscribe
  <2> QED
    BY <1>10, <1>12, <2>1 DEF TypeOK, Unsubscribe, FlushAndForget, database
<1>13. ASSUME NEW s \in Sessions, EndedEvent(s)
       PROVE  TypeOK'
  <2>1. {s} \in SUBSET Sessions /\ FlushAndForget({s})
    BY <1>13 DEF EndedEvent
  <2> QED
    BY <1>10, <1>13, <2>1 DEF TypeOK, EndedEvent, FlushAndForget, database
<1>14. ASSUME NEW s \in Sessions, NEW next \in Continuations, NEW upto \in Nat
       PROVE  /\ FlushOf(s, next, upto) \in
                   [session : Sessions, batch : Seq(Entry), next : Continuations, upto : Nat]
              /\ [queue EXCEPT ![s] = <<>>] \in Batches
  BY DEF TypeOK, FlushOf, Batches
<1>15. ASSUME NEW s \in Sessions, NEW upto \in Nat, StoreTxn(s, upto)
       PROVE  txns' \in SUBSET [session : Sessions, seq : Nat, upto : Nat]
  BY <1>15 DEF TypeOK, StoreTxn, Current, NoCounter
<1>16. ASSUME NEW k \in Sockets, NEW s \in Sessions, Snapshot(k, s)
       PROVE  TypeOK'
  <2>1. sent[s] \in Nat /\ "snapshot" \in Continuations
    BY DEF TypeOK, Continuations
  <2>2. calm' \in [Sessions -> BOOLEAN]
    BY <1>16 DEF Snapshot, Disturb, TypeOK
  <2>3. CASE queue[s] = <<>>
    BY <1>15, <1>16, <2>1, <2>2, <2>3 DEF TypeOK, Snapshot, database
  <2>4. CASE queue[s] # <<>>
    <3>1. /\ flushes' = flushes \cup {FlushOf(s, "snapshot", sent[s])}
          /\ queue' = [queue EXCEPT ![s] = <<>>]
          /\ UNCHANGED txns
      BY <1>16, <2>4 DEF Snapshot
    <3>2. /\ FlushOf(s, "snapshot", sent[s]) \in
                   [session : Sessions, batch : Seq(Entry), next : Continuations, upto : Nat]
          /\ [queue EXCEPT ![s] = <<>>] \in Batches
      BY <1>14, <2>1
    <3> QED
      BY <1>16, <2>2, <3>1, <3>2 DEF TypeOK, Snapshot, database
  <2> QED
    BY <2>3, <2>4
<1>17. ASSUME NEW k \in Sockets, NEW s \in Sessions, SessionEnded(k, s)
       PROVE  TypeOK'
  <2>1. CASE queue[s] = <<>>
    BY <1>17, <2>1 DEF TypeOK, SessionEnded, database
  <2>2. CASE queue[s] # <<>>
    <3>1. /\ flushes' = flushes \cup {FlushOf(s, "ended", 0)}
          /\ queue' = [queue EXCEPT ![s] = <<>>]
          /\ UNCHANGED ended
      BY <1>17, <2>2 DEF SessionEnded
    <3>2. /\ FlushOf(s, "ended", 0) \in
                   [session : Sessions, batch : Seq(Entry), next : Continuations, upto : Nat]
          /\ [queue EXCEPT ![s] = <<>>] \in Batches
      BY <1>14 DEF Continuations
    <3> QED
      BY <1>17, <3>1, <3>2 DEF TypeOK, SessionEnded, database
  <2> QED
    BY <2>1, <2>2
<1>18. ASSUME NEW f \in flushes, Resume(f)
       PROVE  /\ flushes' \in SUBSET [session : Sessions, batch : Seq(Entry),
                                      next : Continuations, upto : Nat]
              /\ txns' \in SUBSET [session : Sessions, seq : Nat, upto : Nat]
              /\ ended' \in SUBSET Sessions
              /\ calm' \in [Sessions -> BOOLEAN]
  <2>1. f.session \in Sessions /\ f.upto \in Nat
    BY DEF TypeOK
  <2>2. calm' \in [Sessions -> BOOLEAN]
    BY <1>18 DEF Resume, Disturb, TypeOK
  <2>3. txns' \in SUBSET [session : Sessions, seq : Nat, upto : Nat]
    BY <1>15, <1>18, <2>1 DEF Resume, TypeOK
  <2> QED
    BY <1>18, <2>1, <2>2, <2>3 DEF Resume, TypeOK
<1>19. ASSUME NEW f \in flushes, Insert(f)
       PROVE  rows' \in [Sessions -> SUBSET Entry]
  <2>1. f.session \in Sessions /\ f.batch \in Seq(Entry) /\ rows[f.session] \in SUBSET Entry
    BY DEF TypeOK
  <2>2. Inserted(rows[f.session], f.batch) \in SUBSET Entry
    BY <2>1, InsertedType
  <2> QED
    BY <1>19, <2>1, <2>2 DEF Insert, TypeOK
<1>20. ASSUME NEW f \in flushes, FlushOk(f)
       PROVE  TypeOK'
  BY <1>18, <1>19, <1>20 DEF TypeOK, FlushOk, Resume
<1>21. ASSUME NEW f \in flushes, FlushForeignKey(f)
       PROVE  TypeOK'
  BY <1>18, <1>21 DEF TypeOK, FlushForeignKey, Resume
<1>22. ASSUME NEW f \in flushes, FlushError(f)
       PROVE  TypeOK'
  <2>1. queue' \in Batches
    BY <1>22 DEF TypeOK, FlushError, Batches
  <2>2. rows' \in [Sessions -> SUBSET Entry]
    BY <1>19, <1>22 DEF TypeOK, FlushError
  <2> QED
    BY <1>18, <1>22, <2>1, <2>2 DEF TypeOK, FlushError, Resume
<1>23. ASSUME NEW t \in txns, TxnCommit(t)
       PROVE  TypeOK'
  <2>1. t.session \in Sessions /\ t.seq \in Nat /\ t.upto \in Nat
    BY DEF TypeOK
  <2>4. /\ snap' = snap \/ snap' = [snap EXCEPT ![t.session] = [seq |-> t.seq, upto |-> t.upto]]
        /\ \/ rows' = rows
           \/ rows' = [rows EXCEPT ![t.session] = {r \in rows[t.session] : r.seq > t.seq}]
    BY <1>23 DEF TxnCommit, Pruned
  <2>2. snap' \in [Sessions -> [seq : Nat, upto : Nat]]
    <3>1. [seq |-> t.seq, upto |-> t.upto] \in [seq : Nat, upto : Nat]
      BY <2>1
    <3> DEFINE image == [seq |-> t.seq, upto |-> t.upto]
    <3>2. snap' = snap \/ snap' = [snap EXCEPT ![t.session] = image]
      BY <2>4
    <3> HIDE DEF image
    <3>3. image \in [seq : Nat, upto : Nat]
      BY <3>1 DEF image
    <3> QED
      BY <2>1, <3>2, <3>3 DEF TypeOK
  <2>3. rows' \in [Sessions -> SUBSET Entry]
    <3>1. {r \in rows[t.session] : r.seq > t.seq} \in SUBSET Entry
      BY <2>1 DEF TypeOK
    <3> QED
      BY <2>1, <2>4, <3>1 DEF TypeOK
  <2> QED
    BY <1>23, <2>2, <2>3 DEF TypeOK, TxnCommit
<1>24. ASSUME NEW t \in txns, TxnFail(t)
       PROVE  TypeOK'
  BY <1>24 DEF TypeOK, TxnFail, database
<1>25. ASSUME NEW s \in Sessions, PublishDeleted(s)
       PROVE  TypeOK'
  BY <1>25 DEF TypeOK, PublishDeleted, server, database
<1>26. ASSUME NEW s \in Sessions, DeleteRow(s)
       PROVE  TypeOK'
  BY <1>26 DEF TypeOK, DeleteRow, NoRow, server
<1>27. CASE Exit
  <2>1. calm' \in [Sessions -> BOOLEAN]
    BY <1>27 DEF Exit, Disturb, TypeOK
  <2> QED
    BY <1>27, <2>1, NoChunksType DEF TypeOK, Exit, database
<1>28. CASE UNCHANGED vars
  BY <1>28 DEF TypeOK, vars, server, database
<1> QED
  BY <1>1, <1>2, <1>3, <1>4, <1>5, <1>6, <1>7, <1>8, <1>9, <1>11, <1>12, <1>13,
     <1>16, <1>17, <1>20, <1>21, <1>22, <1>23, <1>24, <1>25, <1>26, <1>27, <1>28
  DEF Next

\* A step that accepts no chunk keeps the bounds when every number it writes is
\* one, and every chunk it stores or queues was there before.
LEMMA BoundedKept ==
  ASSUME Bounded, UNCHANGED sent,
         \A r \in Sessions :
           /\ counter'[r] <= sent[r]
           /\ init'[r].max <= sent[r]
           /\ snap'[r].seq <= sent[r] /\ snap'[r].upto <= sent[r]
           /\ Waiting(r)' \cup rows'[r] \subseteq Waiting(r) \cup rows[r],
         \A t \in txns' : t \in txns \/ (t.seq <= sent[t.session] /\ t.upto <= sent[t.session]),
         \A f \in flushes' : f \in flushes \/ f.upto <= sent[f.session]
  PROVE  Bounded'
<1> SUFFICES ASSUME NEW r \in Sessions
             PROVE  /\ \A e \in Waiting(r)' \cup rows'[r] : Numbered(r, e)'
                    /\ \A t \in txns' : t.session = r =>
                         t.seq <= sent'[r] /\ t.upto <= sent'[r]
                    /\ \A f \in flushes' : f.session = r => f.upto <= sent'[r]
  BY DEF Bounded
<1> QED
  BY DEF Bounded, Numbered

\* The same for the steps that write no counter, snapshot or transaction.
LEMMA ForgetBounded ==
  ASSUME Sane, NEW S \in SUBSET Sessions, FlushAndForget(S)
  PROVE  Bounded'
<1> USE DEF Sane
<1>1. \A r \in Sessions : Waiting(r)' = Waiting(r)
  BY WaitingForget
<1>2. \A f \in flushes' : f \in flushes \/ f.upto <= sent[f.session]
  <2> SUFFICES ASSUME NEW r \in Sessions
               PROVE  FlushOf(r, "nothing", 0).upto <= sent[FlushOf(r, "nothing", 0).session]
    BY DEF FlushAndForget
  <2> QED
    BY DEF FlushOf, TypeOK
<1>3. \A r \in Sessions : counter'[r] <= sent[r]
  BY DEF FlushAndForget, NoCounter, TypeOK, Bounded
<1> QED
  BY <1>1, <1>2, <1>3, BoundedKept DEF FlushAndForget, Bounded, database

LEMMA BoundedStep ==
  ASSUME Sane, [Next]_vars
  PROVE  Bounded'
<1> USE DEF Sane
<1>1. ASSUME NEW k \in Sockets, NEW s \in Sessions, Subscribe(k, s)
      PROVE  Bounded'
  <2>1. \A r \in Sessions : init'[r].max <= sent[r]
    BY <1>1 DEF Subscribe, Bounded, TypeOK
  <2> QED
    BY <1>1, <2>1, WaitingUnchanged, BoundedKept DEF Subscribe, Bounded, database
<1>2. ASSUME NEW s \in Sessions, InitReadMax(s)
      PROVE  Bounded'
  <2>1. MaxSeq(rows[s]) <= sent[s]
    <3>1. rows[s] \in SUBSET Entry /\ sent[s] \in Nat /\ \A r \in rows[s] : r.seq <= sent[s]
      BY DEF TypeOK, Bounded, Numbered
    <3> QED
      BY <3>1, MaxSeqProperties
  <2>2. \A r \in Sessions : init'[r].max <= sent[r]
    BY <1>2, <2>1 DEF InitReadMax, Bounded, TypeOK
  <2> QED
    BY <1>2, <2>2, WaitingUnchanged, BoundedKept DEF InitReadMax, Bounded, database
<1>3. ASSUME NEW s \in Sessions, InitReadSnapshot(s)
      PROVE  Bounded'
  <2>1. \A r \in Sessions : init'[r].max <= sent[r] /\ counter'[r] <= sent[r]
    BY <1>3 DEF InitReadSnapshot, Larger, Bounded, TypeOK
  <2> QED
    BY <1>3, <2>1, WaitingUnchanged, BoundedKept DEF InitReadSnapshot, Bounded, database
<1>4. ASSUME NEW s \in Sessions, InitFail(s)
      PROVE  Bounded'
  <2>1. \A r \in Sessions : init'[r].max <= sent[r] /\ counter'[r] <= sent[r]
    BY <1>4 DEF InitFail, Current, Bounded, TypeOK
  <2> QED
    BY <1>4, <2>1, WaitingUnchanged, BoundedKept DEF InitFail, Bounded, database
<1>5. ASSUME NEW k \in Sockets, NEW s \in Sessions, Chunk(k, s)
      PROVE  Bounded'
  <2>1. PICK d \in Drops : Push(d, s)
    BY <1>5 DEF Chunk
  <2>2. UNCHANGED <<flushes, txns, init, rows, snap>>
    BY <1>5 DEF Chunk, database
  <2>3. \A r \in Sessions :
          Waiting(r)' \subseteq Waiting(r) \cup (IF r = s THEN {NewEntry(s)} ELSE {})
    BY <2>1, <2>2, WaitingPush
  <2>4. \A r \in Sessions : sent[r] \in Nat /\ sent'[r] = IF r = s THEN sent[r] + 1 ELSE sent[r]
    BY <1>5 DEF Chunk, TypeOK
  <2>5. \A r \in Sessions : counter'[r] <= sent'[r]
    <3>1. \A r \in Sessions : counter[r] \in Nat \cup {NoCounter} /\ counter[r] <= sent[r]
      BY DEF Bounded, TypeOK
    <3>2. \A r \in Sessions : counter'[r] = IF r = s THEN Current(s) + 1 ELSE counter[r]
      BY <1>5 DEF Chunk, TypeOK
    <3> QED
      BY <2>4, <3>1, <3>2 DEF Current, NoCounter
  <2>6. \A e : e = NewEntry(s) => Numbered(s, e)'
    <3>1. Current(s) \in Nat /\ Current(s) <= sent[s]
      BY <2>4 DEF Current, Bounded, TypeOK, NoCounter
    <3>2. NewEntry(s).seq = Current(s) + 1 /\ NewEntry(s).id = sent[s] + 1
      BY DEF NewEntry
    <3> QED
      BY <2>4, <3>1, <3>2 DEF Numbered
  <2>7. \A r \in Sessions : \A e \in Waiting(r) \cup rows[r] : Numbered(r, e)'
    <3>1. \A r \in Sessions : 1..sent[r] \subseteq 1..sent'[r]
      BY <2>4
    <3>2. \A r \in Sessions : \A e \in Waiting(r) \cup rows[r] :
            e.seq \in 1..sent[r] /\ e.id \in 1..sent[r]
      BY DEF Bounded, Numbered
    <3> QED
      BY <3>1, <3>2 DEF Numbered
  <2>8. \A r \in Sessions : \A e \in Waiting(r)' \cup rows'[r] : Numbered(r, e)'
    BY <2>2, <2>3, <2>6, <2>7
  <2>9. \A r \in Sessions :
          /\ init[r].max \in Nat /\ snap[r].seq \in Nat /\ snap[r].upto \in Nat
          /\ init[r].max <= sent[r] /\ snap[r].seq <= sent[r] /\ snap[r].upto <= sent[r]
    BY DEF Bounded, TypeOK
  <2>10. \A r \in Sessions :
           /\ init'[r].max <= sent'[r]
           /\ snap'[r].seq <= sent'[r] /\ snap'[r].upto <= sent'[r]
    BY <2>2, <2>4, <2>9
  <2>11. \A r \in Sessions :
           /\ \A t \in txns' : t.session = r => t.seq <= sent'[r] /\ t.upto <= sent'[r]
           /\ \A f \in flushes' : f.session = r => f.upto <= sent'[r]
    <3> SUFFICES ASSUME NEW r \in Sessions
                 PROVE  /\ \A t \in txns : t.session = r => t.seq <= sent'[r] /\ t.upto <= sent'[r]
                        /\ \A f \in flushes : f.session = r => f.upto <= sent'[r]
      BY <2>2
    <3>1. \A n \in Nat : n <= sent[r] => n <= sent'[r]
      BY <2>4
    <3>2. /\ \A t \in txns : t.seq \in Nat /\ t.upto \in Nat
          /\ \A f \in flushes : f.upto \in Nat
      BY DEF TypeOK
    <3> QED
      BY <3>1, <3>2 DEF Bounded
  <2> QED
    BY <2>5, <2>8, <2>10, <2>11 DEF Bounded
<1>6. CASE FlushTimer
  BY <1>6, WaitingFlushTimer, BoundedKept DEF FlushTimer, Bounded, database
<1>7. ASSUME NEW b \in bulk, BulkOk(b)
      PROVE  Bounded'
  <2>1. ASSUME NEW r \in Sessions
        PROVE  Waiting(r)' \cup rows'[r] \subseteq Waiting(r) \cup rows[r]
    <3>1. Waiting(r)' \subseteq Waiting(r)
      BY <1>7, WaitingBulk DEF BulkOk, BulkDone
    <3>2. rows'[r] \subseteq rows[r] \cup Range(b.batch[r])
      BY <1>7, InsertedBounds DEF BulkOk, TypeOK, Batches
    <3> QED
      BY <3>1, <3>2 DEF Waiting
  <2> QED
    BY <1>7, <2>1, BoundedKept DEF BulkOk, BulkDone, Bounded
<1>8. ASSUME NEW b \in bulk, NEW s \in Sessions, BulkForeignKey(b, s)
      PROVE  Bounded'
  <2>1. ASSUME NEW r \in Sessions
        PROVE  Waiting(r)' \subseteq Waiting(r)
    <3>1. bulk' = bulk \ {b} /\ UNCHANGED flushes
      BY <1>8 DEF BulkForeignKey, BulkDone
    <3>3. queue[r] \in Seq(Entry) /\ b.batch \in [Sessions -> Seq(Entry)]
      BY DEF TypeOK, Batches
    <3>5. queue'[r] = queue[r] \o [b.batch EXCEPT ![s] = <<>>][r]
      BY <1>8 DEF BulkForeignKey, Requeue
    <3>2. queue'[r] = queue[r] \o (IF r = s THEN <<>> ELSE b.batch[r])
      BY <3>3, <3>5
    <3>4. queue'[r] = queue[r] \/ queue'[r] = queue[r] \o b.batch[r]
      BY <3>2, <3>3, ConcatEmptySeq
    <3> QED
      BY <3>1, <3>4, WaitingBulk
  <2>2. \A r \in Sessions : counter'[r] <= sent[r]
    BY <1>8 DEF BulkForeignKey, Bounded, TypeOK, NoCounter
  <2> QED
    BY <1>8, <2>1, <2>2, BoundedKept DEF BulkForeignKey, BulkDone, Bounded
<1>9. ASSUME NEW b \in bulk, BulkError(b)
      PROVE  Bounded'
  <2>1. ASSUME NEW r \in Sessions
        PROVE  Waiting(r)' \cup rows'[r] \subseteq Waiting(r) \cup rows[r]
    <3>1. Waiting(r)' = Waiting(r)
      BY <1>9, WaitingBulk DEF BulkError, BulkDone, Requeue
    <3>2. rows'[r] \subseteq rows[r] \cup Range(b.batch[r])
      BY <1>9, InsertedBounds DEF BulkError, TypeOK, Batches
    <3> QED
      BY <3>1, <3>2 DEF Waiting
  <2> QED
    BY <1>9, <2>1, BoundedKept DEF BulkError, BulkDone, Bounded
<1>10. ASSUME NEW k \in Sockets, Close(k)
       PROVE  Bounded'
  BY <1>10, ForgetBounded DEF Close, TypeOK
<1>11. ASSUME NEW k \in Sockets, NEW s \in Sessions, Unsubscribe(k, s)
       PROVE  Bounded'
  BY <1>11, ForgetBounded DEF Unsubscribe
<1>12. ASSUME NEW s \in Sessions, EndedEvent(s)
       PROVE  Bounded'
  BY <1>12, ForgetBounded DEF EndedEvent
<1>13. ASSUME NEW k \in Sockets, NEW s \in Sessions, Snapshot(k, s)
       PROVE  Bounded'
  <2>1. UNCHANGED <<counter, bulk, init, rows, snap, sent>>
    BY <1>13 DEF Snapshot, database
  <2>2. CASE queue[s] = <<>>
    <3>1. UNCHANGED <<queue, flushes>> /\ StoreTxn(s, sent[s])
      BY <1>13, <2>2 DEF Snapshot
    <3>2. Current(s) <= sent[s] /\ sent[s] <= sent[s]
      BY DEF Current, Bounded, TypeOK
    <3>3. \A t \in txns' : t \in txns \/ (t.seq <= sent[t.session] /\ t.upto <= sent[t.session])
      BY <3>1, <3>2 DEF StoreTxn
    <3> QED
      BY <2>1, <3>1, <3>3, WaitingUnchanged, BoundedKept DEF Bounded
  <2>3. CASE queue[s] # <<>>
    <3>1. /\ flushes' = flushes \cup {FlushOf(s, "snapshot", sent[s])}
          /\ queue' = [queue EXCEPT ![s] = <<>>]
          /\ UNCHANGED txns
      BY <1>13, <2>3 DEF Snapshot
    <3>2. \A r \in Sessions : Waiting(r)' = Waiting(r)
      BY <2>1, <3>1, WaitingMoved
    <3>3. \A f \in flushes' : f \in flushes \/ f.upto <= sent[f.session]
      BY <3>1 DEF FlushOf, TypeOK
    <3> QED
      BY <2>1, <3>1, <3>2, <3>3, BoundedKept DEF Bounded
  <2> QED
    BY <2>2, <2>3
<1>14. ASSUME NEW k \in Sockets, NEW s \in Sessions, SessionEnded(k, s)
       PROVE  Bounded'
  <2>1. UNCHANGED <<counter, bulk, txns, init, rows, snap, sent>>
    BY <1>14 DEF SessionEnded, database
  <2>2. CASE queue[s] = <<>>
    BY <1>14, <2>1, <2>2, WaitingUnchanged, BoundedKept DEF SessionEnded, Bounded
  <2>3. CASE queue[s] # <<>>
    <3>1. /\ flushes' = flushes \cup {FlushOf(s, "ended", 0)}
          /\ queue' = [queue EXCEPT ![s] = <<>>]
      BY <1>14, <2>3 DEF SessionEnded
    <3>2. \A r \in Sessions : Waiting(r)' = Waiting(r)
      BY <2>1, <3>1, WaitingMoved
    <3>3. \A f \in flushes' : f \in flushes \/ f.upto <= sent[f.session]
      BY <3>1 DEF FlushOf, TypeOK
    <3> QED
      BY <2>1, <3>1, <3>2, <3>3, BoundedKept DEF Bounded
  <2> QED
    BY <2>2, <2>3
<1>15. ASSUME NEW f \in flushes, Resume(f),
              queue'[f.session] = queue[f.session] \/ queue'[f.session] = queue[f.session] \o f.batch,
              \A r \in Sessions \ {f.session} : queue'[r] = queue[r],
              rows' = rows \/ Insert(f)
       PROVE  Bounded'
  <2>1. f.session \in Sessions /\ f.batch \in Seq(Entry) /\ f.upto <= sent[f.session]
    BY DEF TypeOK, Bounded
  <2>2. UNCHANGED <<counter, bulk, init, snap, sent>> /\ flushes' = flushes \ {f}
    BY <1>15 DEF Resume
  <2>3. \A r \in Sessions : Waiting(r)' \subseteq Waiting(r)
    BY <1>15, <2>2, WaitingFlush
  <2>4. ASSUME NEW r \in Sessions
        PROVE  rows'[r] \subseteq Waiting(r) \cup rows[r]
    <3>1. rows'[r] \subseteq rows[r] \cup (IF r = f.session THEN Range(f.batch) ELSE {})
      BY <1>15, <2>1, InsertedBounds DEF Insert, TypeOK
    <3> QED
      BY <3>1 DEF Waiting
  <2>5. Current(f.session) <= sent[f.session]
    BY <2>1 DEF Current, Bounded, TypeOK
  <2>6. \A t \in txns' : t \in txns \/ (t.seq <= sent[t.session] /\ t.upto <= sent[t.session])
    BY <1>15, <2>1, <2>5 DEF Resume, StoreTxn
  <2> QED
    BY <2>2, <2>3, <2>4, <2>6, BoundedKept DEF Bounded
<1>16. ASSUME NEW f \in flushes, FlushOk(f) \/ FlushForeignKey(f)
       PROVE  Bounded'
  BY <1>15, <1>16 DEF FlushOk, FlushForeignKey
<1>17. ASSUME NEW f \in flushes, FlushError(f)
       PROVE  Bounded'
  <2>1. /\ queue'[f.session] = queue[f.session] \o f.batch
        /\ \A r \in Sessions \ {f.session} : queue'[r] = queue[r]
    BY <1>17 DEF FlushError, TypeOK, Batches
  <2> QED
    BY <1>15, <1>17, <2>1 DEF FlushError
<1>18. ASSUME NEW t \in txns, TxnCommit(t)
       PROVE  Bounded'
  <2>1. t.session \in Sessions /\ t.seq <= sent[t.session] /\ t.upto <= sent[t.session]
    BY DEF TypeOK, Bounded
  <2>2. \A r \in Sessions : snap'[r].seq <= sent[r] /\ snap'[r].upto <= sent[r]
    <3>1. snap' = snap \/ snap' = [snap EXCEPT ![t.session] = [seq |-> t.seq, upto |-> t.upto]]
      BY <1>18 DEF TxnCommit, Pruned
    <3> DEFINE image == [seq |-> t.seq, upto |-> t.upto]
    <3>2. image.seq = t.seq /\ image.upto = t.upto
      OBVIOUS
    <3>3. \A r \in Sessions : snap'[r] = snap[r] \/ (r = t.session /\ snap'[r] = image)
      BY <3>1 DEF TypeOK
    <3> HIDE DEF image
    <3> QED
      BY <2>1, <3>2, <3>3 DEF Bounded
  <2>3. \A r \in Sessions : rows'[r] \subseteq rows[r]
    <3>1. \/ rows' = rows
          \/ rows' = [rows EXCEPT ![t.session] = {r \in rows[t.session] : r.seq > t.seq}]
      BY <1>18 DEF TxnCommit, Pruned
    <3> DEFINE K == {r \in rows[t.session] : r.seq > t.seq}
    <3>2. K \subseteq rows[t.session]
      OBVIOUS
    <3>3. rows' = rows \/ rows' = [rows EXCEPT ![t.session] = K]
      BY <3>1
    <3> HIDE DEF K
    <3> QED
      BY <2>1, <3>2, <3>3 DEF TypeOK
  <2> QED
    BY <1>18, <2>2, <2>3, WaitingUnchanged, BoundedKept DEF TxnCommit, Bounded
<1>19. ASSUME NEW t \in txns, TxnFail(t)
       PROVE  Bounded'
  BY <1>19, WaitingUnchanged, BoundedKept DEF TxnFail, Bounded, database
<1>20. ASSUME NEW s \in Sessions, PublishDeleted(s)
       PROVE  Bounded'
  BY <1>20, WaitingUnchanged, BoundedKept DEF PublishDeleted, Bounded, server, database
<1>21. ASSUME NEW s \in Sessions, DeleteRow(s)
       PROVE  Bounded'
  <2>1. \A r \in Sessions : rows'[r] \subseteq rows[r]
    BY <1>21 DEF DeleteRow, TypeOK
  <2>2. \A r \in Sessions : snap'[r].seq <= sent[r] /\ snap'[r].upto <= sent[r]
    BY <1>21 DEF DeleteRow, TypeOK, Bounded, NoRow
  <2> QED
    BY <1>21, <2>1, <2>2, WaitingUnchanged, BoundedKept DEF DeleteRow, Bounded, server
<1>22. CASE Exit
  <2>1. \A r \in Sessions : Waiting(r)' = {}
    BY <1>22 DEF Exit, Waiting, NoChunks, Range
  <2>2. \A r \in Sessions : counter'[r] <= sent[r] /\ init'[r].max <= sent[r]
    BY <1>22 DEF Exit, NoCounter, TypeOK
  <2> QED
    BY <1>22, <2>1, <2>2, BoundedKept DEF Exit, Bounded, database
<1>23. CASE UNCHANGED vars
  BY <1>23, WaitingUnchanged, BoundedKept DEF vars, server, database, Bounded
<1> QED
  BY <1>1, <1>2, <1>3, <1>4, <1>5, <1>6, <1>7, <1>8, <1>9, <1>10, <1>11, <1>12, <1>13,
     <1>14, <1>16, <1>17, <1>18, <1>19, <1>20, <1>21, <1>22, <1>23
  DEF Next

\* Every variable always has its type, for every number of sessions, sockets and
\* chunks: in particular sequence numbers stay numbers (max(seq) is defined).
THEOREM TypeCorrect == Spec => []TypeOK
<1>1. Init => Sane
  BY InitSane
<1>2. Sane /\ [Next]_vars => Sane'
  BY TypeStep, BoundedStep DEF Sane
<1>3. Sane => TypeOK
  BY DEF Sane
<1> QED
  BY <1>1, <1>2, <1>3, PTL DEF Spec

\* No sequence number and no snapshot runs ahead of the chunks accepted.
THEOREM NumbersBounded == Spec => []Bounded
<1>1. Init => Sane
  BY InitSane
<1>2. Sane /\ [Next]_vars => Sane'
  BY TypeStep, BoundedStep DEF Sane
<1>3. Sane => Bounded
  BY DEF Sane
<1> QED
  BY <1>1, <1>2, <1>3, PTL DEF Spec

(***************************************************************************)
(* The log of a calm session.  LogComplete is not inductive: that pruning  *)
(* and ON CONFLICT DO NOTHING lose nothing depends on sequence numbers     *)
(* being the numbers of the chunks, which depends on what the counter      *)
(* holds, which depends on what initSessionSeq reads.                      *)
(***************************************************************************)

AwaitedFlushes(s) == {f \in flushes : f.session = s /\ f.next = "snapshot"}

TxnsOf(s) == {t \in txns : t.session = s}

\* A sequence number names its chunk.
Numbering(s) ==
  /\ counter[s] \in {NoCounter, sent[s]}
  /\ \A e \in Waiting(s) \cup rows[s] : e.seq = e.id

\* Snapshots show exactly the chunks up to their sequence number, they are
\* stored one at a time and never go back.
SnapshotsAgree(s) ==
  /\ snap[s].seq = snap[s].upto
  /\ \A t \in TxnsOf(s) : t.seq = t.upto /\ snap[s].seq <= t.seq
  /\ \A f \in AwaitedFlushes(s) : f.upto = sent[s]
  /\ \A f, g \in AwaitedFlushes(s) : f = g
  /\ \A t, u \in TxnsOf(s) : t = u
  /\ AwaitedFlushes(s) = {} \/ TxnsOf(s) = {}

\* initSessionSeq runs while there is no counter, and finds the last number.
InitFinds(s) ==
  /\ init[s].stage # "idle" => counter[s] = NoCounter
  /\ init[s].stage = "snapshot" => init[s].max = sent[s] \/ snap[s].seq = sent[s]

Kept(s) ==
  \A i \in 1..sent[s] : \/ i <= snap[s].seq
                        \/ \E r \in rows[s] : r.id = i
                        \/ Pending(s, i)

CalmLog(s) == Numbering(s) /\ SnapshotsAgree(s) /\ InitFinds(s) /\ Kept(s)

CalmInv == \A s \in live : calm[s] => CalmLog(s)

\* A step that neither accepts a chunk of s nor touches its snapshot keeps the
\* log when no number changes and what waits is still waiting or was stored.
LEMMA CalmKept ==
  ASSUME NEW s \in Sessions, CalmLog(s),
         sent'[s] = sent[s],
         counter'[s] \in {NoCounter, counter[s]},
         init'[s] = init[s] \/ init'[s].stage = "idle",
         snap'[s] = snap[s],
         TxnsOf(s)' \subseteq TxnsOf(s),
         AwaitedFlushes(s)' \subseteq AwaitedFlushes(s),
         rows[s] \subseteq rows'[s],
         Waiting(s)' \cup rows'[s] \subseteq Waiting(s) \cup rows[s],
         \A e \in Waiting(s) : e \in Waiting(s)' \/ \E r \in rows'[s] : r.id = e.id
  PROVE  CalmLog(s)'
<1>1. Numbering(s)'
  BY DEF CalmLog, Numbering
<1>2. SnapshotsAgree(s)'
  BY DEF CalmLog, SnapshotsAgree
<1>3. InitFinds(s)'
  BY DEF CalmLog, InitFinds
<1>4. Kept(s)'
  BY DEF CalmLog, Kept, Pending
<1> QED
  BY <1>1, <1>2, <1>3, <1>4 DEF CalmLog

\* An insert stores the chunks of its batch, or rows of the same chunks are there.
LEMMA InsertKeeps ==
  ASSUME Sane, NEW s \in Sessions, Numbering(s),
         NEW q \in Seq(Entry), Range(q) \subseteq Waiting(s)
  PROVE  \A e \in Range(q) : \E r \in Inserted(rows[s], q) : r.id = e.id
<1> SUFFICES ASSUME NEW e \in Range(q)
             PROVE  \E r \in Inserted(rows[s], q) : r.id = e.id
  OBVIOUS
<1>1. PICK r \in Inserted(rows[s], q) : r.seq = e.seq
  BY InsertedCovers
<1>2. r \in Waiting(s) \cup rows[s] /\ e \in Waiting(s)
  BY InsertedBounds
<1> QED
  BY <1>1, <1>2 DEF Numbering

\* flushSessionChunks without await, then cleanupSession: the counter is gone,
\* the chunks are not.
LEMMA ForgetCalm ==
  ASSUME Sane, NEW S \in SUBSET Sessions, FlushAndForget(S), NEW s \in Sessions, CalmLog(s)
  PROVE  CalmLog(s)'
<1>1. Waiting(s)' = Waiting(s)
  BY WaitingForget DEF Sane
<1>2. AwaitedFlushes(s)' \subseteq AwaitedFlushes(s)
  BY DEF FlushAndForget, FlushOf, AwaitedFlushes
<1>3. counter'[s] \in {NoCounter, counter[s]}
  BY DEF FlushAndForget
<1> QED
  BY <1>1, <1>2, <1>3, CalmKept DEF FlushAndForget, TxnsOf, database

\* A live calm session was live and calm before.
LEMMA CalmBefore ==
  ASSUME Sane, [Next]_vars, NEW s \in live', calm'[s]
  PROVE  s \in Sessions /\ s \in live /\ calm[s]
<1>1. live' \subseteq live
  BY DEF Next, vars, server, database, Subscribe, InitReadMax, InitReadSnapshot, InitFail, Chunk,
         FlushTimer, BulkOk, BulkForeignKey, BulkError, BulkDone, FlushAndForget,
         Close, Unsubscribe, EndedEvent, Snapshot, SessionEnded, Resume, FlushOk,
         FlushForeignKey, FlushError, TxnCommit, TxnFail, PublishDeleted, DeleteRow, Exit
<1>2. s \in Sessions
  BY <1>1 DEF Sane, TypeOK
<1>3. calm' = calm \/ \E S \in SUBSET Sessions : Disturb(S)
  <2>1. CASE \/ \E r \in Sessions : InitReadMax(r) \/ InitFail(r)
             \/ \E k \in Sockets, r \in Sessions : Snapshot(k, r)
    <3>1. \A r \in Sessions : {} \in SUBSET Sessions /\ {r} \in SUBSET Sessions
      OBVIOUS
    <3> QED
      BY <2>1, <3>1 DEF InitReadMax, InitFail, Snapshot
  <2>2. CASE \E k \in Sockets, r \in Sessions : Chunk(k, r)
    <3>1. PICK k \in Sockets, r \in Sessions : Chunk(k, r)
      BY <2>2
    <3>2. PICK d \in Drops :
            Disturb({x \in Sessions : d[x] > 0}
                    \cup {x \in {r} : counter[x] = NoCounter \/ AwaitsFlush(x)})
      BY <3>1 DEF Chunk
    <3>3. {x \in Sessions : d[x] > 0}
            \cup {x \in {r} : counter[x] = NoCounter \/ AwaitsFlush(x)} \in SUBSET Sessions
      OBVIOUS
    <3> QED
      BY <3>2, <3>3
  <2>3. CASE \E f \in flushes : FlushOk(f) \/ FlushForeignKey(f) \/ FlushError(f)
    <3>1. PICK f \in flushes : Resume(f)
      BY <2>3 DEF FlushOk, FlushForeignKey, FlushError
    <3>2. {} \in SUBSET Sessions /\ {f.session} \in SUBSET Sessions
      BY DEF Sane, TypeOK
    <3> QED
      BY <3>1, <3>2 DEF Resume
  <2>4. CASE Exit
    BY <2>4 DEF Exit
  <2>5. CASE \/ \E r \in Sessions : \/ InitReadSnapshot(r) \/ EndedEvent(r)
                                   \/ PublishDeleted(r) \/ DeleteRow(r)
             \/ \E k \in Sockets, r \in Sessions : \/ Subscribe(k, r) \/ Unsubscribe(k, r)
                                                  \/ SessionEnded(k, r)
             \/ \E k \in Sockets : Close(k)
             \/ FlushTimer
             \/ \E b \in bulk : \/ BulkOk(b) \/ BulkError(b)
                                \/ \E r \in Sessions : BulkForeignKey(b, r)
             \/ \E t \in txns : TxnCommit(t) \/ TxnFail(t)
             \/ UNCHANGED vars
    BY <2>5 DEF vars, server, Subscribe, InitReadSnapshot,
         FlushTimer, BulkOk, BulkForeignKey, BulkError, BulkDone, FlushAndForget,
         Close, Unsubscribe, EndedEvent, SessionEnded,
         TxnCommit, TxnFail, PublishDeleted, DeleteRow
  <2> QED
    BY <2>1, <2>2, <2>3, <2>4, <2>5 DEF Next
<1> QED
  BY <1>1, <1>2, <1>3 DEF Disturb

\* initSessionSeq of a calm session finds the number of its last chunk.
LEMMA CalmInitReadMax ==
  ASSUME Sane, NEW s \in Sessions, CalmLog(s), InitReadMax(s), calm'[s]
  PROVE  CalmLog(s)'
<1>1. Waiting(s) = {}
  BY DEF InitReadMax, Disturb
<1>2. UNCHANGED <<counter, queue, bulk, flushes, txns, rows, snap, sent>>
  BY DEF InitReadMax, database
<1>3. /\ init[s].stage = "max"
      /\ init'[s].stage = "snapshot" /\ init'[s].max = MaxSeq(rows[s])
  BY DEF InitReadMax, Sane, TypeOK
<1>4. /\ rows[s] \in SUBSET Entry /\ sent[s] \in Nat /\ snap[s].seq \in Nat
      /\ \A r \in rows[s] : r.seq <= sent[s]
      /\ snap[s].seq <= sent[s]
  BY DEF Sane, TypeOK, Bounded, Numbered
<1>5. MaxSeq(rows[s]) = sent[s] \/ snap[s].seq = sent[s]
  <2>1. /\ MaxSeq(rows[s]) \in Nat /\ MaxSeq(rows[s]) <= sent[s]
        /\ \A r \in rows[s] : r.seq <= MaxSeq(rows[s])
    BY <1>4, MaxSeqProperties
  <2>2. CASE sent[s] = 0
    BY <1>4, <2>1, <2>2
  <2>3. CASE sent[s] # 0
    <3>1. sent[s] \in 1..sent[s]
      BY <1>4, <2>3
    <3>2. sent[s] <= snap[s].seq \/ \E r \in rows[s] : r.id = sent[s]
      BY <1>1, <3>1 DEF CalmLog, Kept, Pending
    <3>3. sent[s] <= snap[s].seq \/ \E r \in rows[s] : r.seq = sent[s]
      BY <3>2 DEF CalmLog, Numbering
    <3> QED
      BY <1>4, <2>1, <3>3
  <2> QED
    BY <2>2, <2>3
<1>6. Numbering(s)' /\ SnapshotsAgree(s)' /\ Kept(s)'
  <2>1. Waiting(s)' = Waiting(s)
    BY <1>2, WaitingUnchanged
  <2>2. TxnsOf(s)' = TxnsOf(s) /\ AwaitedFlushes(s)' = AwaitedFlushes(s)
    BY <1>2 DEF TxnsOf, AwaitedFlushes
  <2> QED
    BY <1>2, <2>1, <2>2 DEF CalmLog, Numbering, SnapshotsAgree, Kept, Pending
<1>7. InitFinds(s)'
  BY <1>2, <1>3, <1>5 DEF CalmLog, InitFinds
<1> QED
  BY <1>6, <1>7 DEF CalmLog

LEMMA CalmInitEnd ==
  ASSUME Sane, NEW s \in Sessions, CalmLog(s),
         InitReadSnapshot(s) \/ (InitFail(s) /\ calm'[s])
  PROVE  CalmLog(s)'
<1>1. UNCHANGED <<queue, bulk, flushes, txns, rows, snap, sent>>
  BY DEF InitReadSnapshot, InitFail, database
<1>2. init'[s].stage = "idle"
  BY DEF InitReadSnapshot, InitFail, Sane, TypeOK
<1>3. counter'[s] = sent[s]
  <2>1. /\ init[s].max \in Nat /\ init[s].max <= sent[s] /\ sent[s] \in Nat
        /\ snap[s].seq \in Nat /\ snap[s].seq <= sent[s]
        /\ counter[s] \in Nat \cup {NoCounter} /\ counter[s] <= sent[s]
    BY DEF Sane, TypeOK, Bounded
  <2>2. CASE InitReadSnapshot(s)
    <3>1. counter'[s] = Larger(init[s].max, snap[s].seq) /\ init[s].stage = "snapshot"
      BY <2>2 DEF InitReadSnapshot, Sane, TypeOK
    <3>2. init[s].max = sent[s] \/ snap[s].seq = sent[s]
      BY <3>1 DEF CalmLog, InitFinds
    <3> QED
      BY <2>1, <3>1, <3>2 DEF Larger
  <2>3. CASE InitFail(s) /\ calm'[s]
    <3>1. counter'[s] = Current(s)
      BY <2>3 DEF InitFail, Sane, TypeOK
    <3>2. sent[s] = 0
      <4>1. s \notin (IF sent[s] > 0 THEN {s} ELSE {})
        BY <2>3 DEF InitFail, Disturb
      <4> QED
        BY <2>1, <4>1
    <3> QED
      BY <2>1, <3>1, <3>2 DEF Current, NoCounter
  <2> QED
    BY <2>2, <2>3
<1>4. Waiting(s)' = Waiting(s)
  BY <1>1, WaitingUnchanged
<1>5. TxnsOf(s)' = TxnsOf(s) /\ AwaitedFlushes(s)' = AwaitedFlushes(s)
  BY <1>1 DEF TxnsOf, AwaitedFlushes
<1>6. Numbering(s)'
  BY <1>1, <1>3, <1>4 DEF CalmLog, Numbering
<1>7. SnapshotsAgree(s)' /\ Kept(s)'
  BY <1>1, <1>4, <1>5 DEF CalmLog, SnapshotsAgree, Kept, Pending
<1>8. InitFinds(s)'
  BY <1>2 DEF InitFinds
<1> QED
  BY <1>6, <1>7, <1>8 DEF CalmLog

\* A calm session numbers its next chunk by the count of its chunks.
LEMMA CalmChunk ==
  ASSUME Sane, NEW s \in Sessions, CalmLog(s), NEW k \in Sockets, Chunk(k, s), calm'[s]
  PROVE  CalmLog(s)'
<1>1. PICK d \in Drops :
        /\ Push(d, s)
        /\ Disturb({x \in Sessions : d[x] > 0}
                   \cup {x \in {s} : counter[x] = NoCounter \/ AwaitsFlush(x)})
  BY DEF Chunk
<1>2. d[s] \in Nat
  BY DropsType
<1>3. d[s] = 0 /\ counter[s] # NoCounter /\ ~AwaitsFlush(s)
  <2>1. s \notin {x \in Sessions : d[x] > 0}
                  \cup {x \in {s} : counter[x] = NoCounter \/ AwaitsFlush(x)}
    BY <1>1, Zenon DEF Disturb
  <2>2. ~(d[s] > 0) /\ counter[s] # NoCounter /\ ~AwaitsFlush(s)
    BY <2>1, Zenon
  <2> QED
    BY <1>2, <2>2
<1>4. counter[s] = sent[s] /\ sent[s] \in Nat
  BY <1>3 DEF CalmLog, Numbering, Sane, TypeOK
<1>5. sent'[s] = sent[s] + 1 /\ counter'[s] = sent[s] + 1
  BY <1>3, <1>4 DEF Chunk, Sane, TypeOK, Current
<1>6. UNCHANGED <<flushes, txns, init, rows, snap>>
  BY DEF Chunk, database
<1>7. /\ Waiting(s) \subseteq Waiting(s)' /\ NewEntry(s) \in Waiting(s)'
      /\ Waiting(s)' \subseteq Waiting(s) \cup {NewEntry(s)}
  <2>1. TypeOK /\ Push(d, s) /\ UNCHANGED flushes
    BY <1>1, <1>6 DEF Sane
  <2> QED
    BY <1>3, <2>1, WaitingPush
<1>8. NewEntry(s).seq = sent[s] + 1 /\ NewEntry(s).id = sent[s] + 1
  BY <1>3, <1>4 DEF NewEntry, Current
<1>9. AwaitedFlushes(s) = {}
  BY <1>3 DEF AwaitsFlush, AwaitedFlushes
<1>10. TxnsOf(s)' = TxnsOf(s) /\ AwaitedFlushes(s)' = {}
  BY <1>6, <1>9 DEF TxnsOf, AwaitedFlushes
<1>11. Numbering(s)'
  <2>1. \A e \in Waiting(s)' \cup rows'[s] : e \in Waiting(s) \cup rows[s] \/ e = NewEntry(s)
    BY <1>6, <1>7
  <2> QED
    BY <1>5, <1>8, <2>1 DEF CalmLog, Numbering
<1>12. SnapshotsAgree(s)'
  BY <1>6, <1>10 DEF CalmLog, SnapshotsAgree
<1>13. InitFinds(s)'
  BY <1>3, <1>6 DEF CalmLog, InitFinds
<1>14. Kept(s)'
  <2> SUFFICES ASSUME NEW i \in 1..sent'[s]
               PROVE  \/ i <= snap[s].seq
                      \/ \E r \in rows[s] : r.id = i
                      \/ \E e \in Waiting(s)' : e.id = i
    BY <1>6 DEF Kept, Pending
  <2>1. i \in 1..sent[s] \/ i = sent[s] + 1
    BY <1>4, <1>5
  <2>2. CASE i = sent[s] + 1
    BY <1>7, <1>8, <2>2
  <2>3. CASE i \in 1..sent[s]
    BY <1>7, <2>3 DEF CalmLog, Kept, Pending
  <2> QED
    BY <2>1, <2>2, <2>3
<1> QED
  BY <1>11, <1>12, <1>13, <1>14 DEF CalmLog

\* A snapshot of a calm session shows what its sequence number says.
LEMMA CalmSnapshot ==
  ASSUME Sane, NEW s \in Sessions, CalmLog(s), NEW k \in Sockets, Snapshot(k, s), calm'[s]
  PROVE  CalmLog(s)'
<1>1. counter[s] # NoCounter /\ ~Snapshotting(s)
  BY DEF Snapshot, Disturb
<1>2. counter[s] = sent[s]
  BY <1>1 DEF CalmLog, Numbering
<1>3. AwaitedFlushes(s) = {} /\ TxnsOf(s) = {}
  BY <1>1 DEF Snapshotting, AwaitsFlush, AwaitedFlushes, TxnsOf
<1>4. UNCHANGED <<counter, bulk, init, rows, snap, sent>>
  BY DEF Snapshot, database
<1>5. InitFinds(s)'
  BY <1>4 DEF CalmLog, InitFinds
<1>6. snap[s].seq <= sent[s]
  BY DEF Sane, Bounded
<1>7. CASE queue[s] = <<>>
  <2> DEFINE t == [session |-> s, seq |-> Current(s), upto |-> sent[s]]
  <2>1. txns' = txns \cup {t} /\ UNCHANGED <<queue, flushes>>
    BY <1>7 DEF Snapshot, StoreTxn
  <2>2. t.session = s /\ t.seq = sent[s] /\ t.upto = sent[s]
    BY <1>1, <1>2 DEF Current
  <2> HIDE DEF t
  <2>3. TxnsOf(s)' = {t} /\ AwaitedFlushes(s)' = {}
    BY <1>3, <2>1, <2>2 DEF TxnsOf, AwaitedFlushes
  <2>4. Waiting(s)' = Waiting(s)
    BY <1>4, <2>1, WaitingUnchanged
  <2>5. SnapshotsAgree(s)'
    BY <1>4, <1>6, <2>2, <2>3 DEF CalmLog, SnapshotsAgree
  <2> QED
    BY <1>4, <1>5, <2>4, <2>5 DEF CalmLog, Numbering, Kept, Pending
<1>8. CASE queue[s] # <<>>
  <2> DEFINE f == FlushOf(s, "snapshot", sent[s])
  <2>1. /\ flushes' = flushes \cup {f}
        /\ queue' = [queue EXCEPT ![s] = <<>>]
        /\ UNCHANGED txns
    BY <1>8 DEF Snapshot
  <2>2. f.session = s /\ f.next = "snapshot" /\ f.upto = sent[s]
    BY DEF FlushOf
  <2>3. Waiting(s)' = Waiting(s)
    BY <1>4, <2>1, WaitingMoved DEF Sane
  <2> HIDE DEF f
  <2>4. AwaitedFlushes(s)' = {f} /\ TxnsOf(s)' = {}
    BY <1>3, <2>1, <2>2 DEF TxnsOf, AwaitedFlushes
  <2>5. SnapshotsAgree(s)'
    BY <1>4, <2>2, <2>4 DEF CalmLog, SnapshotsAgree
  <2> QED
    BY <1>4, <1>5, <2>3, <2>5 DEF CalmLog, Numbering, Kept, Pending
<1> QED
  BY <1>7, <1>8

\* The flush a snapshot awaited is over: its chunks are stored, or queued again.
LEMMA CalmResume ==
  ASSUME Sane, NEW s \in Sessions, s \in live, CalmLog(s), NEW f \in flushes, calm'[s],
         FlushOk(f) \/ FlushForeignKey(f) \/ FlushError(f)
  PROVE  CalmLog(s)'
<1>1. Resume(f) /\ flushes' = flushes \ {f} /\ UNCHANGED <<counter, bulk, init, snap, sent>>
  BY DEF FlushOk, FlushForeignKey, FlushError, Resume
<1>2. f.session \in Sessions /\ f.batch \in Seq(Entry)
  BY DEF Sane, TypeOK
<1>3. rows[s] \subseteq rows'[s]
  <2>1. rows' = rows \/ Insert(f)
    BY DEF FlushOk, FlushForeignKey, FlushError
  <2>2. rows'[s] = rows[s] \/ rows'[s] = Inserted(rows[s], f.batch)
    BY <1>2, <2>1 DEF Insert, Sane, TypeOK
  <2> QED
    BY <1>2, <2>2, InsertedBounds
<1>4. Waiting(s)' \cup rows'[s] \subseteq Waiting(s) \cup rows[s]
  <2>1. rows' = rows \/ Insert(f)
    BY DEF FlushOk, FlushForeignKey, FlushError
  <2>2. rows'[s] \subseteq rows[s] \cup (IF s = f.session THEN Range(f.batch) ELSE {})
    BY <1>2, <2>1, InsertedBounds DEF Insert, Sane, TypeOK
  <2>3. rows'[s] \subseteq rows[s] \cup Waiting(s)
    BY <2>2 DEF Waiting
  <2>4. queue'[s] = queue[s] \/ (s = f.session /\ queue'[s] = queue[s] \o f.batch)
    <3>1. queue' = queue \/ queue' = [queue EXCEPT ![f.session] = queue[f.session] \o f.batch]
      BY DEF FlushOk, FlushForeignKey, FlushError
    <3> QED
      BY <3>1 DEF Sane, TypeOK, Batches
  <2>5. Waiting(s)' \subseteq Waiting(s)
    BY <1>1, <2>4, WaitingFlush DEF Sane
  <2> QED
    BY <2>3, <2>5
<1>5. \A e \in Waiting(s) : e \in Waiting(s)' \/ \E r \in rows'[s] : r.id = e.id
  <2>1. CASE FlushOk(f)
    <3>1. queue'[s] = queue[s]
      BY <2>1 DEF FlushOk
    <3>2. Waiting(s) \subseteq Waiting(s)' \cup (IF s = f.session THEN Range(f.batch) ELSE {})
      BY <1>1, <3>1, WaitingFlush DEF Sane
    <3>3. s = f.session => \A e \in Range(f.batch) : \E r \in rows'[s] : r.id = e.id
      <4> SUFFICES ASSUME s = f.session
                   PROVE  \A e \in Range(f.batch) : \E r \in rows'[s] : r.id = e.id
        OBVIOUS
      <4>1. Range(f.batch) \subseteq Waiting(s)
        BY DEF Waiting
      <4>2. rows'[s] = Inserted(rows[s], f.batch)
        BY <2>1 DEF FlushOk, Insert, Sane, TypeOK
      <4> QED
        BY <1>2, <4>1, <4>2, InsertKeeps DEF CalmLog
    <3> QED
      BY <3>2, <3>3
  <2>2. CASE FlushForeignKey(f)
    <3>1. queue'[s] = queue[s] /\ s # f.session
      BY <2>2 DEF FlushForeignKey
    <3> QED
      BY <1>1, <3>1, WaitingFlush DEF Sane
  <2>3. CASE FlushError(f)
    <3>1. queue'[s] = IF s = f.session THEN queue[s] \o f.batch ELSE queue[s]
      BY <1>2, <2>3 DEF FlushError, Sane, TypeOK, Batches
    <3> QED
      BY <1>1, <3>1, WaitingFlush DEF Sane
  <2> QED
    BY <2>1, <2>2, <2>3
<1>6. CASE f.session = s /\ f.next = "snapshot"
  <2>1. f \in AwaitedFlushes(s)
    BY <1>6 DEF AwaitedFlushes
  <2>2. counter[s] # NoCounter
    BY <1>1, <1>6 DEF Resume, Disturb
  <2>3. counter[s] = sent[s]
    BY <2>2 DEF CalmLog, Numbering
  <2>4. f.upto = sent[s] /\ AwaitedFlushes(s) = {f} /\ TxnsOf(s) = {}
    BY <2>1 DEF CalmLog, SnapshotsAgree
  <2> DEFINE t == [session |-> s, seq |-> Current(s), upto |-> f.upto]
  <2>5. t.session = s /\ t.seq = sent[s] /\ t.upto = sent[s]
    BY <2>2, <2>3, <2>4 DEF Current
  <2>6. txns' = txns \cup {t}
    BY <1>1, <1>6 DEF Resume, StoreTxn
  <2> HIDE DEF t
  <2>7. AwaitedFlushes(s)' = {} /\ TxnsOf(s)' = {t}
    BY <1>1, <2>4, <2>5, <2>6 DEF AwaitedFlushes, TxnsOf
  <2>8. snap[s].seq <= sent[s]
    BY DEF Sane, Bounded
  <2>9. SnapshotsAgree(s)'
    BY <1>1, <2>5, <2>7, <2>8 DEF CalmLog, SnapshotsAgree
  <2>10. Numbering(s)' /\ InitFinds(s)' /\ Kept(s)'
    BY <1>1, <1>3, <1>4, <1>5 DEF CalmLog, Numbering, InitFinds, Kept, Pending
  <2> QED
    BY <2>9, <2>10 DEF CalmLog
<1>7. CASE ~(f.session = s /\ f.next = "snapshot")
  <2>1. TxnsOf(s)' \subseteq TxnsOf(s)
    BY <1>1, <1>7 DEF Resume, StoreTxn, TxnsOf
  <2>2. AwaitedFlushes(s)' \subseteq AwaitedFlushes(s)
    BY <1>1 DEF AwaitedFlushes
  <2> QED
    BY <1>1, <1>3, <1>4, <1>5, <2>1, <2>2, CalmKept
<1> QED
  BY <1>6, <1>7

\* Pruning takes chunks the new snapshot shows.
LEMMA CalmCommit ==
  ASSUME Sane, NEW s \in Sessions, s \in live, CalmLog(s),
         NEW t \in txns, t.session = s, TxnCommit(t)
  PROVE  CalmLog(s)'
<1>1. UNCHANGED <<counter, queue, bulk, flushes, init, sent>> /\ txns' = txns \ {t}
  BY DEF TxnCommit
<1>2. t \in TxnsOf(s) /\ t.seq \in Nat /\ t.upto \in Nat
  BY DEF TxnsOf, Sane, TypeOK
<1>3. t.seq = t.upto /\ snap[s].seq <= t.seq /\ t.seq <= sent[s]
  BY <1>2 DEF CalmLog, SnapshotsAgree, Sane, Bounded
<1>4. snap'[s].seq = t.seq /\ snap'[s].upto = t.upto
  <2> DEFINE image == [seq |-> t.seq, upto |-> t.upto]
  <2>1. snap' = [snap EXCEPT ![s] = image]
    BY DEF TxnCommit, Pruned
  <2>2. image.seq = t.seq /\ image.upto = t.upto
    OBVIOUS
  <2> HIDE DEF image
  <2> QED
    BY <2>1, <2>2 DEF Sane, TypeOK
<1>5. rows'[s] = {r \in rows[s] : r.seq > t.seq}
  <2> DEFINE K == {r \in rows[s] : r.seq > t.seq}
  <2>1. rows' = [rows EXCEPT ![s] = K]
    BY DEF TxnCommit, Pruned
  <2> HIDE DEF K
  <2>2. rows'[s] = K
    BY <2>1 DEF Sane, TypeOK
  <2> QED
    BY <2>2 DEF K
<1>6. Waiting(s)' = Waiting(s)
  BY <1>1, WaitingUnchanged
<1>7. TxnsOf(s)' = {} /\ AwaitedFlushes(s)' = AwaitedFlushes(s)
  BY <1>1, <1>2 DEF CalmLog, SnapshotsAgree, TxnsOf, AwaitedFlushes
<1>8. Numbering(s)'
  BY <1>1, <1>5, <1>6 DEF CalmLog, Numbering
<1>9. SnapshotsAgree(s)'
  BY <1>1, <1>3, <1>4, <1>7 DEF CalmLog, SnapshotsAgree
<1>10. InitFinds(s)'
  <2>1. snap[s].seq = sent[s] => t.seq = sent[s]
    BY <1>2, <1>3 DEF Sane, TypeOK
  <2> QED
    BY <1>1, <1>4, <2>1 DEF CalmLog, InitFinds
<1>11. Kept(s)'
  <2> SUFFICES ASSUME NEW i \in 1..sent[s]
               PROVE  \/ i <= t.seq
                      \/ \E r \in rows'[s] : r.id = i
                      \/ Pending(s, i)
    BY <1>1, <1>4, <1>6 DEF Kept, Pending
  <2>1. i <= snap[s].seq => i <= t.seq
    BY <1>2, <1>3 DEF Sane, TypeOK
  <2>2. \A r \in rows[s] : r.id = i => r \in rows'[s] \/ i <= t.seq
    <3>1. \A r \in rows[s] : r.seq = r.id
      BY DEF CalmLog, Numbering
    <3> QED
      BY <1>2, <1>5, <3>1
  <2> QED
    BY <2>1, <2>2 DEF CalmLog, Kept
<1> QED
  BY <1>8, <1>9, <1>10, <1>11 DEF CalmLog

LEMMA CalmStep ==
  ASSUME Sane, CalmInv, [Next]_vars
  PROVE  CalmInv'
<1> SUFFICES ASSUME NEW s \in live', calm'[s]
             PROVE  CalmLog(s)'
  BY DEF CalmInv
<1>0. s \in Sessions /\ s \in live /\ calm[s] /\ CalmLog(s)
  BY CalmBefore DEF CalmInv
<1> USE <1>0
<1>1. ASSUME NEW k \in Sockets, NEW r \in Sessions, Subscribe(k, r)
      PROVE  CalmLog(s)'
  <2>1. UNCHANGED <<counter, queue, bulk, flushes, txns, rows, snap, sent>>
    BY <1>1 DEF Subscribe, database
  <2>2. \/ init'[s] = init[s]
        \/ counter[s] = NoCounter /\ init'[s].stage = "max"
    BY <1>1 DEF Subscribe, Sane, TypeOK
  <2>3. InitFinds(s)'
    BY <2>1, <2>2 DEF CalmLog, InitFinds
  <2>4. Waiting(s)' = Waiting(s)
    BY <2>1, WaitingUnchanged
  <2>5. TxnsOf(s)' = TxnsOf(s) /\ AwaitedFlushes(s)' = AwaitedFlushes(s)
    BY <2>1 DEF TxnsOf, AwaitedFlushes
  <2> QED
    BY <2>1, <2>3, <2>4, <2>5 DEF CalmLog, Numbering, SnapshotsAgree, Kept, Pending
\* A step that leaves alone what belongs to s.
<1>2. ASSUME UNCHANGED <<flushes, txns>>,
             counter'[s] = counter[s], init'[s] = init[s], sent'[s] = sent[s],
             rows'[s] = rows[s], snap'[s] = snap[s], Waiting(s)' = Waiting(s)
      PROVE  CalmLog(s)'
  <2>1. TxnsOf(s)' = TxnsOf(s) /\ AwaitedFlushes(s)' = AwaitedFlushes(s)
    BY <1>2 DEF TxnsOf, AwaitedFlushes
  <2> QED
    BY <1>2, <2>1, CalmKept
<1>3. ASSUME NEW r \in Sessions, InitReadMax(r) \/ InitReadSnapshot(r) \/ InitFail(r)
      PROVE  CalmLog(s)'
  <2>1. CASE r = s
    BY <1>3, <2>1, CalmInitReadMax, CalmInitEnd
  <2>2. CASE r # s
    <3>1. UNCHANGED <<queue, bulk, flushes, txns, rows, snap, sent>>
      BY <1>3 DEF InitReadMax, InitReadSnapshot, InitFail, database
    <3>2. counter'[s] = counter[s] /\ init'[s] = init[s]
      BY <1>3, <2>2 DEF InitReadMax, InitReadSnapshot, InitFail, Sane, TypeOK
    <3> QED
      BY <1>2, <3>1, <3>2, WaitingUnchanged
  <2> QED
    BY <2>1, <2>2
<1>4. ASSUME NEW k \in Sockets, NEW r \in Sessions, Chunk(k, r)
      PROVE  CalmLog(s)'
  <2>1. CASE r = s
    BY <1>4, <2>1, CalmChunk
  <2>2. CASE r # s
    <3>1. PICK d \in Drops :
            /\ Push(d, r)
            /\ Disturb({x \in Sessions : d[x] > 0}
                       \cup {x \in {r} : counter[x] = NoCounter \/ AwaitsFlush(x)})
      BY <1>4 DEF Chunk
    <3>2. s \notin {x \in Sessions : d[x] > 0}
      BY <3>1, Zenon DEF Disturb
    <3>3. d[s] = 0
      BY <3>2, DropsType
    <3>4. UNCHANGED <<flushes, txns, init, rows, snap>>
      BY <1>4 DEF Chunk, database
    <3>5. Waiting(s)' = Waiting(s)
      <4>1. TypeOK /\ Push(d, r) /\ UNCHANGED flushes
        BY <3>1, <3>4 DEF Sane
      <4> QED
        BY <2>2, <3>3, <4>1, WaitingPush
    <3>6. counter'[s] = counter[s] /\ sent'[s] = sent[s]
      BY <1>4, <2>2 DEF Chunk, Sane, TypeOK
    <3> QED
      BY <1>2, <3>4, <3>5, <3>6
  <2> QED
    BY <2>1, <2>2
<1>5. CASE FlushTimer
  BY <1>2, <1>5, WaitingFlushTimer DEF FlushTimer, database, Sane
<1>6. ASSUME NEW b \in bulk, BulkOk(b)
      PROVE  CalmLog(s)'
  <2>1. b.batch[s] \in Seq(Entry) /\ Range(b.batch[s]) \subseteq Waiting(s)
    BY DEF Sane, TypeOK, Batches, Waiting
  <2>2. rows'[s] = Inserted(rows[s], b.batch[s])
    BY <1>6 DEF BulkOk
  <2>3. rows[s] \subseteq rows'[s] /\ rows'[s] \subseteq rows[s] \cup Waiting(s)
    BY <2>1, <2>2, InsertedBounds
  <2>4. \A e \in Range(b.batch[s]) : \E r \in rows'[s] : r.id = e.id
    BY <2>1, <2>2, InsertKeeps DEF CalmLog
  <2>5. /\ Waiting(s)' \subseteq Waiting(s)
        /\ Waiting(s) \subseteq Waiting(s)' \cup Range(b.batch[s])
    BY <1>6, WaitingBulk DEF BulkOk, BulkDone, Sane
  <2>6. UNCHANGED <<counter, flushes, txns, init, snap, sent>>
    BY <1>6 DEF BulkOk, BulkDone
  <2>7. TxnsOf(s)' = TxnsOf(s) /\ AwaitedFlushes(s)' = AwaitedFlushes(s)
    BY <2>6 DEF TxnsOf, AwaitedFlushes
  <2> QED
    BY <2>3, <2>4, <2>5, <2>6, <2>7, CalmKept
<1>7. ASSUME NEW b \in bulk, NEW r \in Sessions, BulkForeignKey(b, r)
      PROVE  CalmLog(s)'
  <2>1. r # s
    BY <1>7 DEF BulkForeignKey
  <2>2. [b.batch EXCEPT ![r] = <<>>][s] = b.batch[s]
    BY <2>1 DEF Sane, TypeOK, Batches
  <2>3. Waiting(s)' = Waiting(s)
    BY <1>7, <2>2, WaitingBulk DEF BulkForeignKey, BulkDone, Requeue, Sane
  <2>4. counter'[s] = counter[s]
    BY <1>7, <2>1 DEF BulkForeignKey, Sane, TypeOK
  <2> QED
    BY <1>2, <1>7, <2>3, <2>4 DEF BulkForeignKey, BulkDone
<1>8. ASSUME NEW b \in bulk, BulkError(b)
      PROVE  CalmLog(s)'
  <2>1. Waiting(s)' = Waiting(s)
    BY <1>8, WaitingBulk DEF BulkError, BulkDone, Requeue, Sane
  <2>2. b.batch[s] \in Seq(Entry) /\ Range(b.batch[s]) \subseteq Waiting(s)
    BY DEF Sane, TypeOK, Batches, Waiting
  <2>3. rows'[s] = rows[s] \/ rows'[s] = Inserted(rows[s], b.batch[s])
    BY <1>8 DEF BulkError
  <2>4. rows[s] \subseteq rows'[s] /\ rows'[s] \subseteq rows[s] \cup Waiting(s)
    BY <2>2, <2>3, InsertedBounds
  <2>5. UNCHANGED <<counter, flushes, txns, init, snap, sent>>
    BY <1>8 DEF BulkError, BulkDone
  <2>6. TxnsOf(s)' = TxnsOf(s) /\ AwaitedFlushes(s)' = AwaitedFlushes(s)
    BY <2>5 DEF TxnsOf, AwaitedFlushes
  <2> QED
    BY <2>1, <2>4, <2>5, <2>6, CalmKept
<1>9. ASSUME NEW k \in Sockets, Close(k)
      PROVE  CalmLog(s)'
  BY <1>9, ForgetCalm DEF Close, Sane, TypeOK
<1>10. ASSUME NEW k \in Sockets, NEW r \in Sessions, Unsubscribe(k, r)
       PROVE  CalmLog(s)'
  BY <1>10, ForgetCalm DEF Unsubscribe
<1>11. ASSUME NEW r \in Sessions, EndedEvent(r)
       PROVE  CalmLog(s)'
  BY <1>11, ForgetCalm DEF EndedEvent
<1>12. ASSUME NEW k \in Sockets, NEW r \in Sessions, Snapshot(k, r)
       PROVE  CalmLog(s)'
  <2>1. CASE r = s
    BY <1>12, <2>1, CalmSnapshot
  <2>2. CASE r # s
    <3>1. UNCHANGED <<counter, bulk, init, rows, snap, sent>>
      BY <1>12 DEF Snapshot, database
    <3>2. Waiting(s)' = Waiting(s)
      <4>1. CASE queue[r] = <<>>
        BY <1>12, <3>1, <4>1, WaitingUnchanged DEF Snapshot
      <4>2. CASE queue[r] # <<>>
        <5>1. /\ flushes' = flushes \cup {FlushOf(r, "snapshot", sent[r])}
              /\ queue' = [queue EXCEPT ![r] = <<>>]
          BY <1>12, <4>2 DEF Snapshot
        <5> QED
          BY <3>1, <5>1, WaitingMoved DEF Sane
      <4> QED
        BY <4>1, <4>2
    <3>3. TxnsOf(s)' = TxnsOf(s) /\ AwaitedFlushes(s)' = AwaitedFlushes(s)
      BY <1>12, <2>2 DEF Snapshot, StoreTxn, FlushOf, TxnsOf, AwaitedFlushes
    <3> QED
      BY <3>1, <3>2, <3>3, CalmKept
  <2> QED
    BY <2>1, <2>2
<1>13. ASSUME NEW k \in Sockets, NEW r \in Sessions, SessionEnded(k, r)
       PROVE  CalmLog(s)'
  <2>1. UNCHANGED <<counter, bulk, txns, init, rows, snap, sent>>
    BY <1>13 DEF SessionEnded, database
  <2>2. Waiting(s)' = Waiting(s)
    <3>1. CASE queue[r] = <<>>
      BY <1>13, <2>1, <3>1, WaitingUnchanged DEF SessionEnded
    <3>2. CASE queue[r] # <<>>
      <4>1. /\ flushes' = flushes \cup {FlushOf(r, "ended", 0)}
            /\ queue' = [queue EXCEPT ![r] = <<>>]
        BY <1>13, <3>2 DEF SessionEnded
      <4> QED
        BY <2>1, <4>1, WaitingMoved DEF Sane
    <3> QED
      BY <3>1, <3>2
  <2>3. TxnsOf(s)' = TxnsOf(s) /\ AwaitedFlushes(s)' = AwaitedFlushes(s)
    BY <1>13, <2>1 DEF SessionEnded, FlushOf, TxnsOf, AwaitedFlushes
  <2> QED
    BY <2>1, <2>2, <2>3, CalmKept
<1>14. ASSUME NEW f \in flushes, FlushOk(f) \/ FlushForeignKey(f) \/ FlushError(f)
       PROVE  CalmLog(s)'
  BY <1>14, CalmResume
<1>15. ASSUME NEW t \in txns, TxnCommit(t)
       PROVE  CalmLog(s)'
  <2>1. CASE t.session = s
    BY <1>15, <2>1, CalmCommit
  <2>2. CASE t.session # s
    <3>1. UNCHANGED <<counter, queue, bulk, flushes, init, sent>>
      BY <1>15 DEF TxnCommit
    <3>2. rows'[s] = rows[s] /\ snap'[s] = snap[s]
      BY <1>15, <2>2 DEF TxnCommit, Sane, TypeOK
    <3>3. TxnsOf(s)' \subseteq TxnsOf(s) /\ AwaitedFlushes(s)' = AwaitedFlushes(s)
      BY <1>15, <3>1 DEF TxnCommit, TxnsOf, AwaitedFlushes
    <3> QED
      BY <3>1, <3>2, <3>3, WaitingUnchanged, CalmKept
  <2> QED
    BY <2>1, <2>2
<1>16. ASSUME NEW t \in txns, TxnFail(t)
       PROVE  CalmLog(s)'
  <2>1. UNCHANGED <<counter, queue, bulk, flushes, init, rows, snap, sent>>
    BY <1>16 DEF TxnFail, database
  <2>2. TxnsOf(s)' \subseteq TxnsOf(s) /\ AwaitedFlushes(s)' = AwaitedFlushes(s)
    BY <1>16, <2>1 DEF TxnFail, TxnsOf, AwaitedFlushes
  <2> QED
    BY <2>1, <2>2, WaitingUnchanged, CalmKept
<1>17. ASSUME NEW r \in Sessions, PublishDeleted(r)
       PROVE  CalmLog(s)'
  BY <1>2, <1>17, WaitingUnchanged DEF PublishDeleted, server, database
<1>18. ASSUME NEW r \in Sessions, DeleteRow(r)
       PROVE  CalmLog(s)'
  <2>1. r # s
    BY <1>18 DEF DeleteRow
  <2>2. rows'[s] = rows[s] /\ snap'[s] = snap[s]
    BY <1>18, <2>1 DEF DeleteRow, Sane, TypeOK
  <2> QED
    BY <1>2, <1>18, <2>2, WaitingUnchanged DEF DeleteRow, server
<1>19. CASE Exit
  <2>1. Waiting(s) = {}
    BY <1>19 DEF Exit, Disturb
  <2>2. Waiting(s)' = {}
    BY <1>19 DEF Exit, Waiting, NoChunks, Range
  <2>3. counter'[s] = NoCounter /\ init'[s].stage = "idle"
    BY <1>19 DEF Exit
  <2>4. TxnsOf(s)' = {} /\ AwaitedFlushes(s)' = {}
    BY <1>19 DEF Exit, TxnsOf, AwaitedFlushes
  <2> QED
    BY <1>19, <2>1, <2>2, <2>3, <2>4, CalmKept DEF Exit, database
<1>20. CASE UNCHANGED vars
  BY <1>2, <1>20, WaitingUnchanged DEF vars, server, database
<1> QED
  BY <1>1, <1>3, <1>4, <1>5, <1>6, <1>7, <1>8, <1>9, <1>10, <1>11, <1>12, <1>13,
     <1>14, <1>15, <1>16, <1>17, <1>18, <1>19, <1>20
  DEF Next

LEMMA InitCalm == Init => CalmInv
<1> SUFFICES ASSUME Init, NEW s \in Sessions
             PROVE  CalmLog(s)
  BY DEF CalmInv, Init
<1>1. Waiting(s) = {} /\ rows[s] = {} /\ sent[s] = 0
  BY DEF Init, Waiting, NoChunks, Range
<1>2. TxnsOf(s) = {} /\ AwaitedFlushes(s) = {}
  BY DEF Init, TxnsOf, AwaitedFlushes
<1> QED
  BY <1>1, <1>2 DEF Init, NoRow, CalmLog, Numbering, SnapshotsAgree, InitFinds, Kept

\* What the numbering makes of the log: complete, and replayed in order.
LEMMA CalmLogShown ==
  ASSUME Sane, CalmInv
  PROVE  LogComplete /\ ReplayInOrder
<1>1. ASSUME NEW s \in live, calm[s]
      PROVE  /\ s \in Sessions /\ CalmLog(s)
             /\ snap[s].seq \in Nat /\ snap[s].seq = snap[s].upto
             /\ \A r \in rows[s] : r.seq = r.id /\ r.seq \in Nat
  <2>1. s \in Sessions /\ CalmLog(s)
    BY <1>1 DEF CalmInv, Sane, TypeOK
  <2>2. snap[s].seq \in Nat /\ rows[s] \subseteq Entry
    BY <2>1 DEF Sane, TypeOK
  <2>3. \A r \in rows[s] : r.seq = r.id
    BY <2>1 DEF CalmLog, Numbering
  <2>4. snap[s].seq = snap[s].upto
    BY <2>1 DEF CalmLog, SnapshotsAgree
  <2> QED
    BY <2>1, <2>2, <2>3, <2>4 DEF Entry
<1>2. LogComplete
  <2> SUFFICES ASSUME NEW s \in live, calm[s], NEW i \in 1..sent[s]
               PROVE  Shown(s, i) \/ Pending(s, i)
    BY DEF LogComplete
  <2>1. i <= snap[s].seq \/ (\E r \in rows[s] : r.id = i) \/ Pending(s, i)
    BY <1>1 DEF CalmLog, Kept
  <2>2. ASSUME NEW r \in rows[s], r.id = i
        PROVE  Shown(s, i)
    <3>1. i <= snap[s].upto \/ r.seq > snap[s].seq
      BY <1>1, <2>2
    <3> QED
      BY <2>2, <3>1 DEF Shown, Replayed
  <2> QED
    BY <1>1, <2>1, <2>2 DEF Shown
<1>3. ReplayInOrder
  <2> SUFFICES ASSUME NEW s \in live, calm[s], NEW r \in Replayed(s)
               PROVE  /\ r.id > snap[s].upto
                      /\ \A q \in Replayed(s) : r.seq < q.seq => r.id < q.id
    BY DEF ReplayInOrder
  <2>1. \A q \in Replayed(s) : q.seq = q.id /\ q.seq > snap[s].seq
    BY <1>1 DEF Replayed
  <2> QED
    BY <1>1, <2>1
<1> QED
  BY <1>2, <1>3

\* No accepted chunk of a calm session is ever lost, whatever fails, is retried,
\* reconnects or is deleted around it: for any number of sessions and sockets.
THEOREM CompleteLog == Spec => []LogComplete
<1>1. Init => Sane /\ CalmInv
  BY InitSane, InitCalm
<1>2. Sane /\ CalmInv /\ [Next]_vars => (Sane /\ CalmInv)'
  BY TypeStep, BoundedStep, CalmStep DEF Sane
<1>3. Sane /\ CalmInv => LogComplete
  BY CalmLogShown
<1> QED
  BY <1>1, <1>2, <1>3, PTL DEF Spec

\* A viewer of a calm session replays its chunks in order, and none twice.
THEOREM OrderedReplay == Spec => []ReplayInOrder
<1>1. Init => Sane /\ CalmInv
  BY InitSane, InitCalm
<1>2. Sane /\ CalmInv /\ [Next]_vars => (Sane /\ CalmInv)'
  BY TypeStep, BoundedStep, CalmStep DEF Sane
<1>3. Sane /\ CalmInv => ReplayInOrder
  BY CalmLogShown
<1> QED
  BY <1>1, <1>2, <1>3, PTL DEF Spec
=============================================================================
