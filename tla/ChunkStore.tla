----------------------------- MODULE ChunkStore -----------------------------
(***************************************************************************)
(* Chunk persistence of the WebSocket relay: apps/server/src/persistence.ts *)
(* together with the hooks of ws.ts that call it.                          *)
(*                                                                         *)
(* CLIs and daemons stream encrypted terminal output over sockets.  The    *)
(* relay numbers every chunk from an in-memory counter, keeps it in an     *)
(* in-memory queue and writes the queue to PostgreSQL in batches.  A       *)
(* snapshot of the screen replaces the chunks it covers.                   *)
(*                                                                         *)
(* The server is one Node.js process, so the code between two awaits is    *)
(* one step here.  A database statement is started by one step and takes   *)
(* effect, or fails, in a later one; statements of different calls may     *)
(* complete in any order (connection pool).                                *)
(***************************************************************************)
EXTENDS Integers, Sequences, FiniteSets, Functions

CONSTANTS
  Sessions,        \* terminal sessions
  Deletable,       \* bound: the sessions their owner may delete
  Sockets,         \* CLI and daemon sockets of the relay
  Frames,          \* bound: the frames CLIs send besides SUBSCRIBE and UNSUBSCRIBE
  FlushThreshold,  \* FLUSH_THRESHOLD: queue length that triggers an early flush
  MaxPending,      \* MAX_PENDING_CHUNKS: queue length at which the oldest are dropped
  MaxChunks,       \* bound: chunks a session ever sends
  MaxInFlight      \* bound: database statements in flight at a time

ASSUME StoreAssumption ==
  /\ Deletable \subseteq Sessions
  /\ Frames \subseteq {"chunk", "snapshot", "ended"}
  /\ FlushThreshold \in Nat \ {0}
  /\ MaxPending \in Nat \ {0}
  /\ MaxChunks \in Nat
  /\ MaxInFlight \in Nat

VARIABLES
  counter,     \* sessionSeqCounters, NoCounter for a session it does not hold
  queue,       \* pendingChunks, split by session (each in array order)
  flushing,    \* flushInProgress
  bulk,        \* inserts of flushAllChunks in flight
  flushes,     \* inserts of flushSessionChunks in flight, and what awaits them
  txns,        \* transactions of storeSnapshot in flight
  init,        \* pendingInits: where initSessionSeq stands, per session
  subscribed,  \* subscribedSessions of each socket
  ended,       \* SESSION_ENDED events published and not yet delivered
  live,        \* sessions with a row in terminal_sessions
  rows,        \* terminal_chunks, per session
  snap,        \* snapshot_seq and what snapshot_data shows, per session
  sent,        \* history: number of chunks accepted, per session
  calm         \* history: FALSE once a session met a window listed in Calm below

server == <<counter, queue, flushing, bulk, flushes, txns, init>>
database == <<live, rows, snap>>
vars == <<server, database, subscribed, ended, sent, calm>>

-----------------------------------------------------------------------------
(* Data.  A chunk is the number of its acceptance: the payload is opaque.  *)

NoCounter == -1
NoRow == [seq |-> 0, upto |-> 0]

\* A queued or stored chunk: its sequence number and which chunk it is.
Entry == [seq : Nat, id : Nat]

Batches == [Sessions -> Seq(Entry)]

\* What the caller of flushSessionChunks does when the await returns.
Continuations == {"nothing", "snapshot", "ended"}

\* The default of `sessionSeqCounters.get(id) ?? 0`.
Current(s) == IF counter[s] = NoCounter THEN 0 ELSE counter[s]

Total(q) == SumFunction([s \in DOMAIN q |-> Len(q[s])])

NoChunks == [s \in Sessions |-> <<>>]

\* Highest seq of a set of rows, 0 when there is none (max(seq) ?? 0).
MaxSeq(R) == IF R = {} THEN 0
             ELSE CHOOSE n \in {r.seq : r \in R} : \A r \in R : r.seq <= n

\* Mutant: Math.max(currentMax, snapshotSeq) forgets the snapshot.
LargerFirst(a, b) == a

Larger(a, b) == IF a >= b THEN a ELSE b

\* Mutant: ON CONFLICT DO UPDATE.
InsertedUpsert(R, q) ==
  {r \in R : \A e \in Range(q) : e.seq # r.seq}
  \cup {q[i] : i \in {j \in DOMAIN q : \A h \in (j + 1)..Len(q) : q[h].seq # q[j].seq}}

\* INSERT ... ON CONFLICT DO NOTHING on the unique index (session_id, seq).
Inserted(R, q) ==
  R \cup {q[i] : i \in {j \in DOMAIN q :
                          /\ \A r \in R : r.seq # q[j].seq
                          /\ \A h \in 1..(j - 1) : q[h].seq # q[j].seq}}

\* Mutant: every chunk of the session is pruned.
PrunedAll(R, n) == {}

\* What pruning up to sequence number n leaves.
Pruned(R, n) == {r \in R : r.seq > n}

-----------------------------------------------------------------------------
(* Where a chunk that is not stored yet may be.                            *)

Waiting(s) ==
  Range(queue[s])
  \cup (UNION {Range(b.batch[s]) : b \in bulk})
  \cup (UNION {Range(f.batch) : f \in {g \in flushes : g.session = s}})

Pending(s, i) == \E e \in Waiting(s) : e.id = i

\* storeSnapshot awaits its flush, or its transaction runs.
AwaitsFlush(s) == \E f \in flushes : f.session = s /\ f.next = "snapshot"

Snapshotting(s) == AwaitsFlush(s) \/ \E t \in txns : t.session = s

\* Bound: the statements the database works on at a time.
Room == Cardinality(bulk) + Cardinality(flushes) + Cardinality(txns) < MaxInFlight

-----------------------------------------------------------------------------
(* A session is calm while none of these windows was met:                  *)
(*   - its counter was read through `?? 0` (queueChunk, storeSnapshot):    *)
(*     another socket's close or UNSUBSCRIBE removed it, or initSessionSeq *)
(*     had not set it yet;                                                 *)
(*   - initSessionSeq read max(seq) while chunks of the session were       *)
(*     queued or being inserted, or failed on a session with chunks;       *)
(*   - a chunk arrived while storeSnapshot awaited its flush;              *)
(*   - a snapshot arrived while another of the session was being stored;   *)
(*   - the safety cap dropped a chunk of it;                               *)
(*   - the process died while chunks of it were pending.                   *)
(* The properties of calm sessions say that nothing else can hurt the log. *)

Disturb(S) == calm' = [s \in Sessions |-> calm[s] /\ s \notin S]

-----------------------------------------------------------------------------
Init ==
  /\ counter = [s \in Sessions |-> NoCounter]
  /\ queue = NoChunks
  /\ flushing = FALSE
  /\ bulk = {} /\ flushes = {} /\ txns = {}
  /\ init = [s \in Sessions |-> [stage |-> "idle", max |-> 0]]
  /\ subscribed = [k \in Sockets |-> {}]
  /\ ended = {}
  /\ live = Sessions
  /\ rows = [s \in Sessions |-> {}]
  /\ snap = [s \in Sessions |-> NoRow]
  /\ sent = [s \in Sessions |-> 0]
  /\ calm = [s \in Sessions |-> TRUE]

-----------------------------------------------------------------------------
(* initSessionSeq: two queries, then the counter is set.                   *)

\* SUBSCRIBE of a CLI or daemon, once ownership is verified.
Subscribe(k, s) ==
  /\ subscribed' = [subscribed EXCEPT ![k] = @ \cup {s}]
  /\ init' = IF counter[s] = NoCounter /\ init[s].stage = "idle"
             THEN [init EXCEPT ![s] = [stage |-> "max", max |-> 0]]
             ELSE init
  /\ UNCHANGED <<counter, queue, flushing, bulk, flushes, txns,
                 database, ended, sent, calm>>

InitReadMax(s) ==
  /\ init[s].stage = "max"
  /\ init' = [init EXCEPT ![s] = [stage |-> "snapshot", max |-> MaxSeq(rows[s])]]
  /\ Disturb(IF Waiting(s) # {} THEN {s} ELSE {})
  /\ UNCHANGED <<counter, queue, flushing, bulk, flushes, txns,
                 database, subscribed, ended, sent>>

\* The second query and the unconditional set that follows it.
InitReadSnapshot(s) ==
  /\ init[s].stage = "snapshot"
  /\ counter' = [counter EXCEPT ![s] = Larger(init[s].max, snap[s].seq)]
  /\ init' = [init EXCEPT ![s] = [stage |-> "idle", max |-> 0]]
  /\ UNCHANGED <<queue, flushing, bulk, flushes, txns,
                 database, subscribed, ended, sent, calm>>

\* Either query fails: start from 0 unless somebody set the counter.
InitFail(s) ==
  /\ init[s].stage # "idle"
  /\ counter' = [counter EXCEPT ![s] = Current(s)]
  /\ init' = [init EXCEPT ![s] = [stage |-> "idle", max |-> 0]]
  /\ Disturb(IF sent[s] > 0 THEN {s} ELSE {})
  /\ UNCHANGED <<queue, flushing, bulk, flushes, txns,
                 database, subscribed, ended, sent>>

-----------------------------------------------------------------------------
(* queueChunk.                                                             *)

\* ceil(MAX_PENDING_CHUNKS * 0.1)
DropCount == (MaxPending + 9) \div 10

\* How many chunks of each session the safety cap drops.  The array drops its
\* first DropCount entries, whichever sessions they are of.
Drops ==
  IF Total(queue) < MaxPending THEN {[s \in Sessions |-> 0]}
  ELSE {d \in [Sessions -> 0..DropCount] :
          /\ SumFunction(d) = DropCount
          /\ \A s \in Sessions : d[s] <= Len(queue[s])}

NewEntry(s) == [seq |-> Current(s) + 1, id |-> sent[s] + 1]

\* The array once the cap was applied and a chunk of session s pushed.
Pushed(d, s) ==
  LET kept == [r \in Sessions |-> SubSeq(queue[r], d[r] + 1, Len(queue[r]))]
  IN [kept EXCEPT ![s] = Append(@, NewEntry(s))]

\* A long queue is flushed at once, unless such a flush is under way.
Push(d, s) ==
  \/ /\ Total(Pushed(d, s)) >= FlushThreshold
     /\ ~flushing
     /\ Room
     /\ bulk' = bulk \cup {[batch |-> Pushed(d, s), adaptive |-> TRUE]}
     /\ queue' = NoChunks
     /\ flushing' = TRUE
  \/ /\ Total(Pushed(d, s)) < FlushThreshold \/ flushing
     /\ queue' = Pushed(d, s)
     /\ UNCHANGED <<bulk, flushing>>

\* ENCRYPTED_CHUNK from a subscribed CLI.
Chunk(k, s) ==
  /\ "chunk" \in Frames
  /\ s \in subscribed[k]
  /\ sent[s] < MaxChunks
  /\ \E d \in Drops :
       /\ Push(d, s)
       /\ Disturb({r \in Sessions : d[r] > 0}
                  \cup {r \in {s} : counter[r] = NoCounter \/ AwaitsFlush(r)})
  /\ counter' = [counter EXCEPT ![s] = Current(s) + 1]
  /\ sent' = [sent EXCEPT ![s] = @ + 1]
  /\ UNCHANGED <<flushes, txns, init, database, subscribed, ended>>

-----------------------------------------------------------------------------
(* flushAllChunks.                                                         *)

\* The 2 s timer, or the final flush of a graceful shutdown.
FlushTimer ==
  /\ queue # NoChunks
  /\ Room
  /\ bulk' = bulk \cup {[batch |-> queue, adaptive |-> FALSE]}
  /\ queue' = NoChunks
  /\ UNCHANGED <<counter, flushing, flushes, txns, init,
                 database, subscribed, ended, sent, calm>>

\* The bulk insert b is over: flushInProgress is reset by the call that set it.
BulkDone(b) ==
  /\ bulk' = bulk \ {b}
  /\ flushing' = (flushing /\ ~b.adaptive)
  /\ UNCHANGED <<flushes, txns, init, live, snap, subscribed, ended, sent, calm>>

AllLive(b) == \A s \in Sessions : b.batch[s] # <<>> => s \in live

\* Mutant: chunks that are queued again get new sequence numbers.
RequeueRenumbered(batch) ==
  queue' = [s \in Sessions |->
              queue[s] \o [i \in DOMAIN batch[s] |-> [batch[s][i] EXCEPT !.seq = Current(s) + i]]]

Requeue(batch) == queue' = [s \in Sessions |-> queue[s] \o batch[s]]

BulkOk(b) ==
  /\ AllLive(b)
  /\ rows' = [s \in Sessions |-> Inserted(rows[s], b.batch[s])]
  /\ BulkDone(b)
  /\ UNCHANGED <<counter, queue>>

BulkForeignKeyRetriesAll(b, s) ==
  /\ b.batch[s] # <<>>
  /\ s \notin live
  /\ Requeue(b.batch)
  /\ BulkDone(b)
  /\ UNCHANGED <<counter, rows>>

\* Foreign key violation: session s of the batch was deleted.  Its chunks are
\* discarded, those of the other sessions go back to the queue.
BulkForeignKey(b, s) ==
  /\ b.batch[s] # <<>>
  /\ s \notin live
  /\ counter' = [counter EXCEPT ![s] = NoCounter]
  /\ Requeue([b.batch EXCEPT ![s] = <<>>])
  /\ BulkDone(b)
  /\ UNCHANGED rows

\* Any other error: the batch is queued again.  When the connection broke after
\* the commit, the rows are there nevertheless.
BulkError(b) ==
  /\ \/ UNCHANGED rows
     \/ /\ AllLive(b)
        /\ rows' = [s \in Sessions |-> Inserted(rows[s], b.batch[s])]
  /\ Requeue(b.batch)
  /\ BulkDone(b)
  /\ UNCHANGED counter

-----------------------------------------------------------------------------
(* flushSessionChunks and the calls that make it.                          *)

FlushOf(s, next, upto) ==
  [session |-> s, batch |-> queue[s], next |-> next, upto |-> upto]

\* flushSessionChunks(s) without await, then cleanupSession(s), for every s of S.
FlushAndForget(S) ==
  /\ flushes' = flushes \cup {FlushOf(s, "nothing", 0) : s \in {r \in S : queue[r] # <<>>}}
  /\ queue' = [s \in Sessions |-> IF s \in S THEN <<>> ELSE queue[s]]
  /\ counter' = [s \in Sessions |-> IF s \in S THEN NoCounter ELSE counter[s]]
  /\ UNCHANGED <<flushing, bulk, txns, init, database, sent, calm>>

\* onClose, for a CLI or daemon socket.
Close(k) ==
  /\ subscribed[k] # {}
  /\ Room
  /\ FlushAndForget(subscribed[k])
  /\ subscribed' = [subscribed EXCEPT ![k] = {}]
  /\ UNCHANGED ended

\* UNSUBSCRIBE; the handler does not ask whether the socket was subscribed.
Unsubscribe(k, s) ==
  /\ Room
  /\ FlushAndForget({s})
  /\ subscribed' = [subscribed EXCEPT ![k] = @ \ {s}]
  /\ UNCHANGED ended

\* A SESSION_ENDED event comes back over Redis.
EndedEvent(s) ==
  /\ s \in ended
  /\ Room
  /\ FlushAndForget({s})
  /\ ended' = ended \ {s}
  /\ UNCHANGED subscribed

\* Mutant: the snapshot is stored one number too low.
StoreTxnBehind(s, upto) ==
  txns' = txns \cup {[session |-> s, seq |-> Larger(Current(s) - 1, 0), upto |-> upto]}

\* storeSnapshot after its flush: afterSeq is read, the transaction starts.
\* upto is the last chunk the snapshot shows.
StoreTxn(s, upto) ==
  txns' = txns \cup {[session |-> s, seq |-> Current(s), upto |-> upto]}

\* SNAPSHOT from a subscribed CLI: it shows every chunk sent before it.
Snapshot(k, s) ==
  /\ "snapshot" \in Frames
  /\ s \in subscribed[k]
  /\ Room
  /\ IF queue[s] = <<>>
     THEN StoreTxn(s, sent[s]) /\ UNCHANGED <<queue, flushes>>
     ELSE /\ flushes' = flushes \cup {FlushOf(s, "snapshot", sent[s])}
          /\ queue' = [queue EXCEPT ![s] = <<>>]
          /\ UNCHANGED txns
  /\ Disturb(IF counter[s] = NoCounter \/ Snapshotting(s) THEN {s} ELSE {})
  /\ UNCHANGED <<counter, flushing, bulk, init, database, subscribed, ended, sent>>

\* SESSION_ENDED from a subscribed CLI: flush, then publish the event.
SessionEnded(k, s) ==
  /\ "ended" \in Frames
  /\ s \in subscribed[k]
  /\ Room
  /\ IF queue[s] = <<>>
     THEN ended' = ended \cup {s} /\ UNCHANGED <<queue, flushes>>
     ELSE /\ flushes' = flushes \cup {FlushOf(s, "ended", 0)}
          /\ queue' = [queue EXCEPT ![s] = <<>>]
          /\ UNCHANGED ended
  /\ UNCHANGED <<counter, flushing, bulk, txns, init, database, subscribed, sent, calm>>

\* The await of flush f returns, whatever became of the insert.
Resume(f) ==
  /\ flushes' = flushes \ {f}
  /\ IF f.next = "snapshot" THEN StoreTxn(f.session, f.upto) ELSE UNCHANGED txns
  /\ ended' = IF f.next = "ended" THEN ended \cup {f.session} ELSE ended
  /\ Disturb(IF f.next = "snapshot" /\ counter[f.session] = NoCounter
             THEN {f.session} ELSE {})
  /\ UNCHANGED <<counter, flushing, bulk, init, live, snap, subscribed, sent>>

Insert(f) == rows' = [rows EXCEPT ![f.session] = Inserted(@, f.batch)]

FlushOk(f) ==
  /\ f.session \in live
  /\ Insert(f)
  /\ Resume(f)
  /\ UNCHANGED queue

FlushForeignKey(f) ==
  /\ f.session \notin live
  /\ Resume(f)
  /\ UNCHANGED <<queue, rows>>

FlushError(f) ==
  /\ \/ UNCHANGED rows
     \/ f.session \in live /\ Insert(f)
  /\ queue' = [queue EXCEPT ![f.session] = @ \o f.batch]
  /\ Resume(f)

-----------------------------------------------------------------------------
(* The snapshot transaction: the row and the pruning change together.      *)

TxnCommit(t) ==
  LET s == t.session IN
  /\ txns' = txns \ {t}
  /\ IF s \in live
     THEN /\ snap' = [snap EXCEPT ![s] = [seq |-> t.seq, upto |-> t.upto]]
          /\ rows' = [rows EXCEPT ![s] = Pruned(@, t.seq)]
     ELSE UNCHANGED <<snap, rows>>
  /\ UNCHANGED <<counter, queue, flushing, bulk, flushes, init,
                 live, subscribed, ended, sent, calm>>

TxnFail(t) ==
  /\ txns' = txns \ {t}
  /\ UNCHANGED <<counter, queue, flushing, bulk, flushes, init,
                 database, subscribed, ended, sent, calm>>

-----------------------------------------------------------------------------
(* The web application, and the end of the server process.                 *)

\* deleteSession publishes SESSION_ENDED before it deletes.
PublishDeleted(s) ==
  /\ s \in live \cap Deletable
  /\ ended' = ended \cup {s}
  /\ UNCHANGED <<server, database, subscribed, sent, calm>>

\* DELETE of the session row, which cascades to its chunks: by deleteSession, or
\* by the clean-up job.
DeleteRow(s) ==
  /\ s \in live \cap Deletable
  /\ live' = live \ {s}
  /\ rows' = [rows EXCEPT ![s] = {}]
  /\ snap' = [snap EXCEPT ![s] = NoRow]
  /\ UNCHANGED <<server, subscribed, ended, sent, calm>>

\* The process exits: by a crash, or by shutdown() once its final flush returned.
\* Memory and statements not yet executed are lost, sockets are cut.
Exit ==
  /\ counter' = [s \in Sessions |-> NoCounter]
  /\ queue' = NoChunks
  /\ flushing' = FALSE
  /\ bulk' = {} /\ flushes' = {} /\ txns' = {}
  /\ init' = [s \in Sessions |-> [stage |-> "idle", max |-> 0]]
  /\ subscribed' = [k \in Sockets |-> {}]
  /\ ended' = {}
  /\ Disturb({s \in Sessions : Waiting(s) # {}})
  /\ UNCHANGED <<database, sent>>

-----------------------------------------------------------------------------
Next ==
  \/ \E s \in Sessions : \/ InitReadMax(s) \/ InitReadSnapshot(s) \/ InitFail(s)
                         \/ EndedEvent(s) \/ PublishDeleted(s) \/ DeleteRow(s)
  \/ \E k \in Sockets, s \in Sessions :
       \/ Subscribe(k, s) \/ Unsubscribe(k, s)
       \/ Chunk(k, s) \/ Snapshot(k, s) \/ SessionEnded(k, s)
  \/ \E k \in Sockets : Close(k)
  \/ FlushTimer
  \/ \E b \in bulk : \/ BulkOk(b) \/ BulkError(b)
                     \/ \E s \in Sessions : BulkForeignKey(b, s)
  \/ \E f \in flushes : FlushOk(f) \/ FlushForeignKey(f) \/ FlushError(f)
  \/ \E t \in txns : TxnCommit(t) \/ TxnFail(t)
  \/ Exit

Spec == Init /\ [][Next]_vars

\* The interval timer keeps firing, and the database does not fail for ever: a
\* statement that is retried again and again is executed in the end (or is
\* refused for good by the foreign key).
Fairness ==
  /\ WF_vars(FlushTimer)
  /\ SF_vars(\E b \in bulk : BulkOk(b) \/ \E s \in Sessions : BulkForeignKey(b, s))
  /\ SF_vars(\E f \in flushes : FlushOk(f) \/ FlushForeignKey(f))
  /\ WF_vars(\E t \in txns : TxnCommit(t) \/ TxnFail(t))

FairSpec == Spec /\ Fairness

-----------------------------------------------------------------------------
(* Properties.                                                             *)

TypeOK ==
  /\ counter \in [Sessions -> Nat \cup {NoCounter}]
  /\ queue \in Batches
  /\ flushing \in BOOLEAN
  /\ bulk \in SUBSET [batch : Batches, adaptive : BOOLEAN]
  /\ flushes \in SUBSET [session : Sessions, batch : Seq(Entry),
                         next : Continuations, upto : Nat]
  /\ txns \in SUBSET [session : Sessions, seq : Nat, upto : Nat]
  /\ init \in [Sessions -> [stage : {"idle", "max", "snapshot"}, max : Nat]]
  /\ subscribed \in [Sockets -> SUBSET Sessions]
  /\ ended \in SUBSET Sessions
  /\ live \in SUBSET Sessions
  /\ rows \in [Sessions -> SUBSET Entry]
  /\ snap \in [Sessions -> [seq : Nat, upto : Nat]]
  /\ sent \in [Sessions -> Nat]
  /\ calm \in [Sessions -> BOOLEAN]

\* What a viewer gets: the snapshot, then the chunks with seq > snapshotSeq in
\* order of seq (the chunks query, called with after = snapshotSeq).
Replayed(s) == {r \in rows[s] : r.seq > snap[s].seq}

Shown(s, i) == i <= snap[s].upto \/ i \in {r.id : r \in Replayed(s)}

\* No accepted chunk of a calm session is ever lost: the snapshot shows it, a
\* viewer replays it, or it waits for an insert (whatever failed, was retried,
\* reconnected or was deleted around it).
LogComplete ==
  \A s \in live : calm[s] => \A i \in 1..sent[s] : Shown(s, i) \/ Pending(s, i)

\* A viewer of a calm session replays the chunks in the order they were sent,
\* and none that the snapshot shows already.
ReplayInOrder ==
  \A s \in live : calm[s] =>
    \A r \in Replayed(s) :
      /\ r.id > snap[s].upto
      /\ \A q \in Replayed(s) : r.seq < q.seq => r.id < q.id

\* Whether calm or not: a retried insert never stores a chunk a second time,
\* also when the first attempt had been committed and its answer was lost.
RetryIsIdempotent ==
  \A s \in Sessions : \A r, q \in rows[s] : r.id = q.id => r = q

\* What is stored under a sequence number is never replaced, not even when the
\* counter started over and the number is used again.
StoredNeverOverwritten ==
  [][\A s \in Sessions : \A r \in rows[s], q \in rows'[s] : r.seq = q.seq => r = q]_vars

\* Once a viewer can see a chunk of a calm session, it can see it ever after:
\* pruning never outruns the snapshot that justifies it.
ShownForever ==
  [][\A s \in live' : calm'[s] => \A i \in 1..sent[s] : Shown(s, i) => Shown(s, i)']_vars

\* A chunk does not wait for ever: neither failing inserts nor the chunks of a
\* deleted session in the same batch keep it out of the database.
QueueDrains ==
  \A s \in Sessions : \A i \in 1..MaxChunks : Pending(s, i) ~> ~Pending(s, i)

-----------------------------------------------------------------------------
(* The abstract specification.                                             *)

Promised(s) == s \in live /\ calm[s]

\* The log of session s, as TerminalLog sees it.
Log(s) == INSTANCE TerminalLog WITH
            phase    <- IF Promised(s) THEN "open" ELSE "over",
            accepted <- IF Promised(s) THEN sent[s] ELSE 0,
            stored   <- IF Promised(s) THEN {r.id : r \in rows[s]} ELSE {},
            cover    <- IF Promised(s) THEN snap[s].upto ELSE 0

\* Queue, batches, retries, early flushes, counters and snapshot transactions
\* are, for each calm session, an append-only log with one snapshot.
ImplementsLog ==
  /\ \A s \in Sessions : Log(s)!LogInit
  /\ [][\A s \in Sessions : [Log(s)!LogNext]_(Log(s)!logVars)]_vars

-----------------------------------------------------------------------------
(* Statements of the repository that the code does not keep.               *)

\* packages/cli/README.md:162, "Every terminal session is saved encrypted.
\* Replay for audits": whether calm or not, only the end of the process loses a
\* chunk (in an instance whose queue never reaches the cap).
EverySessionSaved ==
  [][Exit \/ \A s \in live' : \A i \in 1..sent[s] :
               Shown(s, i) \/ Pending(s, i) => (Shown(s, i) \/ Pending(s, i))']_vars

=============================================================================
