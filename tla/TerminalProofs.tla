--------------------------- MODULE TerminalProofs ---------------------------
(***************************************************************************)
(* Proofs about PtySession, Recording and Viewing, for any amount of       *)
(* output, any threshold and any limit.                                    *)
(***************************************************************************)
EXTENDS Recording, Viewing, SequenceTheorems, WellFoundedInduction, FiniteSetTheorems, TLAPS

(***************************************************************************)
(* Both sides use the log as it is promised.                               *)
(***************************************************************************)

\* Whatever the CLI and its socket do, to the database they are a log with a
\* snapshot: what ChunkStore is shown to implement.
THEOREM RecordingUsesLog == RecordSpec => LogSpec
<1>1. RecordInit => LogInit
  BY DEF RecordInit
<1>2. [RecordNext]_recordVars => [LogNext]_logVars
  <2> SUFFICES ASSUME [RecordNext]_recordVars
               PROVE  LogNext \/ UNCHANGED logVars
    OBVIOUS
  <2>1. CASE TakeChunk
    BY <2>1 DEF TakeChunk, LogNext
  <2>2. CASE ShotCommits
    BY <2>2 DEF ShotCommits, LogNext
  <2>3. CASE DropLimited \/ DropUnjoined \/ TakeSubscribe \/ TakeSnapshot \/ TakeClose
    BY <2>3 DEF DropLimited, DropUnjoined, TakeSubscribe, TakeSnapshot, TakeClose, Dropped
  <2>4. CASE Cli \/ Answered \/ Slide \/ OtherFrame \/ ShotFails
    BY <2>4 DEF Cli, CliLosses, Answered, Slide, OtherFrame, ShotFails
  <2>5. CASE UNCHANGED recordVars
    BY <2>5 DEF recordVars
  <2> QED
    BY <2>1, <2>2, <2>3, <2>4, <2>5 DEF RecordNext, Relay
<1> QED
  BY <1>1, <1>2, PTL DEF RecordSpec, LogSpec

\* A page only watches: the log it sees grow is any log that is promised.
THEOREM ViewingUsesLog == ViewSpec => LogSpec
<1>1. ViewInit => LogInit
  BY DEF ViewInit
<1>2. [ViewNext]_viewVars => [LogNext]_logVars
  <2> SUFFICES ASSUME [ViewNext]_viewVars
               PROVE  LogNext \/ UNCHANGED logVars
    OBVIOUS
  <2>1. CASE Output \/ StoreOutput \/ CoverOutput
    BY <2>1 DEF Output, StoreOutput, CoverOutput, LogNext
  <2>2. ASSUME NEW isLive \in BOOLEAN, Start(isLive)
        PROVE  UNCHANGED logVars
    BY <2>2 DEF Start
  <2>3. CASE Load \/ ReadPage \/ ReadFails \/ Leave
    BY <2>3 DEF Load, ReadPage, ReadFails, Leave
  <2>4. CASE Joins \/ GivesUp \/ Breaks \/ ConnectsAgain \/ Deliver
    BY <2>4 DEF Joins, GivesUp, Breaks, ConnectsAgain, Deliver
  <2>5. CASE UNCHANGED viewVars
    BY <2>5 DEF viewVars
  <2> QED
    BY <2>1, <2>2, <2>3, <2>4, <2>5 DEF ViewNext
<1> QED
  BY <1>1, <1>2, PTL DEF ViewSpec, LogSpec

(***************************************************************************)
(* What a step of the CLI does to the frames on their way.                 *)
(***************************************************************************)

\* A frame of this step: the output it takes from the buffer, or the screen as it
\* is parsed, when everything sent and not parsed is noted in torn.
NewFrame(f) ==
  /\ f.kind = "chunk" => f.pieces = (batched + 1)..batched'
  /\ f.kind = "snapshot" => f.pieces = 1..parsed /\ (parsed + 1)..batched' \subseteq torn'

\* w is what was on its way, and then frames of this step.
Extends(w) ==
  /\ w \in Seq(Frames)
  /\ Len(wire) <= Len(w)
  /\ \A i \in 1..Len(wire) : w[i] = wire[i]
  /\ \A i \in (Len(wire) + 1)..Len(w) : NewFrame(w[i])

LEMMA ExtendMore ==
  ASSUME wire \in Seq(Frames), NEW w, Extends(w), NEW F \in Seq(Frames),
         \A i \in 1..Len(F) : NewFrame(F[i])
  PROVE  /\ Extends(w \o F)
         /\ \A i \in DOMAIN w : i \in DOMAIN (w \o F) /\ (w \o F)[i] = w[i]
         /\ \A i \in DOMAIN F : \E j \in DOMAIN (w \o F) : j > Len(w) /\ (w \o F)[j] = F[i]
<1>1. w \in Seq(Frames) /\ Len(w) \in Nat /\ Len(F) \in Nat /\ Len(wire) \in Nat
  BY DEF Extends
<1>2. /\ w \o F \in Seq(Frames)
      /\ Len(w \o F) = Len(w) + Len(F)
      /\ \A i \in 1..(Len(w) + Len(F)) : (w \o F)[i] = IF i <= Len(w) THEN w[i] ELSE F[i - Len(w)]
  BY <1>1, ConcatProperties
<1> DEFINE v == w \o F
<1>3. v \in Seq(Frames) /\ Len(v) = Len(w) + Len(F)
      /\ \A i \in 1..Len(v) : v[i] = IF i <= Len(w) THEN w[i] ELSE F[i - Len(w)]
  BY <1>2
<1> HIDE DEF v
<1>4. \A i \in 1..Len(wire) : v[i] = wire[i]
  BY <1>1, <1>3 DEF Extends
<1>5. \A i \in (Len(wire) + 1)..Len(v) : NewFrame(v[i])
  <2> SUFFICES ASSUME NEW i \in (Len(wire) + 1)..Len(v)
               PROVE  NewFrame(v[i])
    OBVIOUS
  <2>1. CASE i <= Len(w)
    BY <1>1, <1>3, <2>1 DEF Extends
  <2>2. CASE i > Len(w)
    <3>1. i - Len(w) \in 1..Len(F) /\ v[i] = F[i - Len(w)]
      BY <1>1, <1>3, <2>2
    <3> QED
      BY <3>1
  <2> QED
    BY <1>1, <2>1, <2>2
<1>6. Extends(v)
  <2>1. Len(wire) <= Len(v)
    BY <1>1, <1>3 DEF Extends
  <2> QED
    BY <1>3, <1>4, <1>5, <2>1, Zenon DEF Extends
<1>7. \A i \in DOMAIN w : i \in DOMAIN v /\ v[i] = w[i]
  BY <1>1, <1>3
<1>8. \A i \in DOMAIN F : \E j \in DOMAIN v : j > Len(w) /\ v[j] = F[i]
  <2> SUFFICES ASSUME NEW i \in DOMAIN F
               PROVE  \E j \in DOMAIN v : j > Len(w) /\ v[j] = F[i]
    OBVIOUS
  <2>1. i \in 1..Len(F) /\ Len(w) + i \in 1..Len(v) /\ v[Len(w) + i] = F[i]
    BY <1>1, <1>3
  <2> QED
    BY <1>1, <1>3, <2>1
<1> QED
  BY <1>6, <1>7, <1>8 DEF v

\* What holds of the variables of the CLI.
PtyTypeOK ==
  /\ printed \in 0..MaxOutput /\ batched \in 0..printed /\ parsed \in 0..batched
  /\ cleared \in BOOLEAN /\ since \in Nat
  /\ batch \in BOOLEAN /\ debounce \in BOOLEAN /\ periodic \in BOOLEAN
  /\ socket \in {"connecting", "open", "greeted", "closed", "refused"}
  /\ life \in {"running", "exiting", "gone"}
  /\ zeroed \in BOOLEAN
  /\ wire \in Seq(Frames)
  /\ torn \subseteq 1..batched

LEMMA ScreenFramesNew ==
  ASSUME PtyTypeOK, CanSnapshot => (parsed + 1)..batched' \subseteq torn'
  PROVE  /\ ScreenFrames \in Seq(Frames)
         /\ \A i \in 1..Len(ScreenFrames) : NewFrame(ScreenFrames[i])
         /\ CanSnapshot => 1 \in DOMAIN ScreenFrames /\ ScreenFrames[1] = SnapshotFrame(1..parsed, Readable)
<1>1. SnapshotFrame(1..parsed, Readable) \in Frames
  <2>1. 1..parsed \in SUBSET Pieces /\ Readable \in BOOLEAN
    BY PtyAssumption DEF PtyTypeOK, Pieces, Readable
  <2> QED
    BY <2>1 DEF SnapshotFrame, Frames
<1>2. CASE CanSnapshot
  <2>1. NewFrame(SnapshotFrame(1..parsed, Readable))
    BY <1>2 DEF NewFrame, SnapshotFrame
  <2> DEFINE f == SnapshotFrame(1..parsed, Readable)
  <2>2. ScreenFrames = <<f>> /\ f \in Frames /\ NewFrame(f)
    BY <1>1, <1>2, <2>1 DEF ScreenFrames
  <2> HIDE DEF f
  <2>3. ScreenFrames \in Seq(Frames) /\ Len(ScreenFrames) = 1 /\ ScreenFrames[1] = f
        /\ DOMAIN ScreenFrames = 1..1
    BY <2>2
  <2>4. \A i \in 1..Len(ScreenFrames) : i = 1
    BY <2>3
  <2> QED
    BY <2>2, <2>3, <2>4 DEF f
<1>3. CASE ~CanSnapshot
  BY <1>3 DEF ScreenFrames
<1> QED
  BY <1>2, <1>3

LEMMA ChunksNew ==
  ASSUME PtyTypeOK, batched' \in batched..MaxOutput
  PROVE  /\ Chunks(batched') \in Seq(Frames)
         /\ \A i \in 1..Len(Chunks(batched')) : NewFrame(Chunks(batched')[i])
         /\ IsOpen => /\ 1 \in DOMAIN Chunks(batched')
                      /\ Chunks(batched')[1] = ChunkFrame((batched + 1)..batched', Readable)
<1> DEFINE f == ChunkFrame((batched + 1)..batched', Readable)
<1>1. f \in Frames
  <2>1. (batched + 1)..batched' \in SUBSET Pieces /\ Readable \in BOOLEAN
    BY PtyAssumption DEF PtyTypeOK, Pieces, Readable
  <2> QED
    BY <2>1 DEF ChunkFrame, Frames
<1>2. NewFrame(f)
  BY DEF NewFrame, ChunkFrame
<1>3. Chunks(batched') = IF IsOpen THEN <<f>> ELSE <<>>
  BY DEF Chunks
<1> HIDE DEF f
<1>4. CASE IsOpen
  <2>1. Chunks(batched') \in Seq(Frames) /\ Len(Chunks(batched')) = 1 /\ Chunks(batched')[1] = f
        /\ DOMAIN Chunks(batched') = 1..1
    BY <1>1, <1>3, <1>4
  <2>2. \A i \in 1..Len(Chunks(batched')) : i = 1
    BY <2>1
  <2> QED
    BY <1>2, <2>1, <2>2 DEF f
<1>5. CASE ~IsOpen
  BY <1>3, <1>5
<1> QED
  BY <1>4, <1>5

\* A step that sends what it takes from the buffer, or drops it for want of a
\* socket, and perhaps the screen.
Sends ==
  /\ Extends(wire')
  /\ printed' \in printed..MaxOutput
  /\ batched' \in batched..printed'
  /\ parsed' \in parsed..batched'
  /\ torn \subseteq torn' /\ torn' \subseteq 1..batched'
  /\ IsOpen => (batched + 1)..batched' \subseteq ChunksOf(wire')
  /\ life' = "running" /\ printed' > batched' => batch' \/ UNCHANGED <<batch, printed, batched>>
  /\ since' \in Nat
  /\ life' = "running" /\ since' = 0 =>
       \/ since = 0 /\ batched' = batched
       \/ \E i \in Shots(wire') : /\ 1..parsed \subseteq wire'[i].pieces
                                  /\ (parsed + 1)..batched' \subseteq torn'

\* The socket is closed, and the end of what was on its way is lost.
Cuts ==
  /\ \E n \in 0..Len(wire) : wire' = Append(SubSeq(wire, 1, n), CloseFrame)
  /\ socket' \in {"closed", "refused"}
  /\ UNCHANGED <<output, timers>>

LEMMA ExtendsSame ==
  ASSUME PtyTypeOK, UNCHANGED wire
  PROVE  Extends(wire')
BY DEF PtyTypeOK, Extends

\* createAndSendSnapshot, on top of what the step has sent before.
LEMMA ScreenSent ==
  ASSUME PtyTypeOK, NEW w, Extends(w), (parsed + 1)..batched' \subseteq torn',
         CanSnapshot, wire' = w \o ScreenFrames
  PROVE  \E i \in Shots(wire') : /\ 1..parsed \subseteq wire'[i].pieces
                                 /\ (parsed + 1)..batched' \subseteq torn'
<1>1. /\ ScreenFrames \in Seq(Frames)
      /\ \A i \in 1..Len(ScreenFrames) : NewFrame(ScreenFrames[i])
      /\ 1 \in DOMAIN ScreenFrames /\ ScreenFrames[1] = SnapshotFrame(1..parsed, Readable)
  BY ScreenFramesNew
<1>2. \E j \in DOMAIN wire' : wire'[j] = ScreenFrames[1]
  BY <1>1, ExtendMore DEF PtyTypeOK
<1>3. PICK j \in DOMAIN wire' : wire'[j] = SnapshotFrame(1..parsed, Readable)
  BY <1>1, <1>2
<1>4. wire'[j].kind = "snapshot" /\ wire'[j].pieces = 1..parsed
  BY <1>3 DEF SnapshotFrame
<1> QED
  BY <1>4 DEF Shots

\* The chunk of the buffer is among the frames when the socket is open.
LEMMA ChunkSent ==
  ASSUME PtyTypeOK, batched' \in batched..MaxOutput, NEW w \in Seq(Frames),
         \A i \in DOMAIN (wire \o Chunks(batched')) :
           i \in DOMAIN w /\ w[i] = (wire \o Chunks(batched'))[i]
  PROVE  IsOpen => (batched + 1)..batched' \subseteq ChunksOf(w)
<1> SUFFICES ASSUME IsOpen
             PROVE  (batched + 1)..batched' \subseteq ChunksOf(w)
  OBVIOUS
<1>1. /\ Chunks(batched') \in Seq(Frames)
      /\ \A i \in 1..Len(Chunks(batched')) : NewFrame(Chunks(batched')[i])
      /\ 1 \in DOMAIN Chunks(batched')
      /\ Chunks(batched')[1] = ChunkFrame((batched + 1)..batched', Readable)
  BY ChunksNew
<1>2. Extends(wire)
  BY DEF PtyTypeOK, Extends
<1>3. \E j \in DOMAIN (wire \o Chunks(batched')) : (wire \o Chunks(batched'))[j] = Chunks(batched')[1]
  <2> DEFINE F == Chunks(batched')
  <2>1. F \in Seq(Frames) /\ 1 \in DOMAIN F /\ \A i \in 1..Len(F) : NewFrame(F[i])
    BY <1>1
  <2>2. wire \in Seq(Frames)
    BY DEF PtyTypeOK
  <2> HIDE DEF F
  <2> DEFINE v == wire \o F
             n == Len(wire) + 1
  <2>3. /\ v \in Seq(Frames)
        /\ Len(v) = Len(wire) + Len(F)
        /\ \A i \in 1..(Len(wire) + Len(F)) : v[i] = IF i <= Len(wire) THEN wire[i] ELSE F[i - Len(wire)]
    BY <2>1, <2>2, ConcatProperties
  <2> HIDE DEF v
  <2>4. n \in 1..Len(v) /\ ~(n <= Len(wire)) /\ n - Len(wire) = 1
    BY <2>1, <2>2, <2>3
  <2>5. n \in DOMAIN v /\ v[n] = F[1]
    BY <2>3, <2>4
  <2> QED
    BY <2>5, Zenon DEF F, v
<1>4. PICK j \in DOMAIN w : w[j] = ChunkFrame((batched + 1)..batched', Readable)
  BY <1>1, <1>3
<1>5. w[j].kind = "chunk" /\ w[j].pieces = (batched + 1)..batched'
  BY <1>4 DEF ChunkFrame
<1>6. w[j] \in Range(w)
  BY DEF Range
<1> QED
  BY <1>5, <1>6 DEF ChunksOf

\* flushPtyBuffer.
LEMMA FlushSends ==
  ASSUME PtyTypeOK, NEW clear \in BOOLEAN, printed' \in printed..MaxOutput,
         printed' >= batched, Flush(printed', clear), UNCHANGED parsed
  PROVE  Sends
<1>1. /\ batched' = printed' /\ batched' \in batched..MaxOutput
      /\ parsed' = parsed /\ parsed \in 0..batched
      /\ batched \in Nat /\ batched' \in Nat /\ MaxOutput \in Nat
  BY PtyAssumption DEF Flush, PtyTypeOK
<1> DEFINE w == wire \o Chunks(batched')
<1>2. Extends(w)
  <2>1. Extends(wire)
    BY DEF PtyTypeOK, Extends
  <2> QED
    BY <1>1, <2>1, ChunksNew, ExtendMore DEF PtyTypeOK
<1>3. torn \subseteq torn' /\ torn' \subseteq 1..batched'
      /\ (AtThreshold(clear) /\ CanSnapshot => (parsed + 1)..batched' \subseteq torn')
  BY <1>1 DEF Flush, Tear, PtyTypeOK
<1>4. since' \in Nat /\ (since' = 0 => AtThreshold(clear) /\ IsOpen)
  BY DEF Flush, FlushedSince, PtyTypeOK
<1>5. AtThreshold(clear) /\ IsOpen => CanSnapshot
  BY DEF AtThreshold, CanSnapshot
<1>6. w \in Seq(Frames)
  BY <1>2 DEF Extends
<1>7. CASE AtThreshold(clear)
  <2>1. wire' = w \o ScreenFrames
    BY <1>1, <1>7, <1>6, ScreenFramesNew, <1>3, ConcatAssociative, ChunksNew DEF Flush, PtyTypeOK
  <2>2. Extends(wire') /\ \A i \in DOMAIN w : i \in DOMAIN wire' /\ wire'[i] = w[i]
    BY <1>2, <1>3, <1>7, <2>1, ScreenFramesNew, ExtendMore DEF PtyTypeOK
  <2>3. IsOpen => (batched + 1)..batched' \subseteq ChunksOf(wire')
    BY <1>1, <2>2, ChunkSent DEF Extends
  <2>4. since' = 0 => \E i \in Shots(wire') : /\ 1..parsed \subseteq wire'[i].pieces
                                              /\ (parsed + 1)..batched' \subseteq torn'
    BY <1>2, <1>3, <1>4, <1>5, <1>7, <2>1, ScreenSent
  <2> QED
    BY <1>1, <1>3, <1>4, <2>2, <2>3, <2>4 DEF Sends
<1>8. CASE ~AtThreshold(clear)
  <2>1. wire' = w \o <<>>
    BY <1>1, <1>6, <1>8, ConcatAssociative, ChunksNew DEF Flush, PtyTypeOK
  <2>2. wire' = w
    BY <1>6, <2>1, ConcatEmptySeq
  <2>3. IsOpen => (batched + 1)..batched' \subseteq ChunksOf(wire')
    BY <1>1, <1>6, <2>2, ChunkSent
  <2> QED
    BY <1>1, <1>2, <1>3, <1>4, <1>8, <2>2, <2>3 DEF Sends
<1> QED
  BY <1>7, <1>8

\* createAndSendSnapshot from a timer.
LEMMA SnapshotSends ==
  ASSUME PtyTypeOK, Snapshot, UNCHANGED <<printed, batched, parsed, batch>>
  PROVE  Sends
<1>1. /\ torn \subseteq torn' /\ torn' \subseteq 1..batched
      /\ CanSnapshot => (parsed + 1)..batched' \subseteq torn'
      /\ batched \in Nat /\ printed \in printed..MaxOutput /\ batched \in batched..printed
      /\ parsed \in parsed..batched
  BY PtyAssumption DEF Snapshot, Tear, PtyTypeOK
<1>2. Extends(wire) /\ wire' = wire \o ScreenFrames
  BY DEF PtyTypeOK, Extends, Snapshot
<1>3. Extends(wire')
  BY <1>1, <1>2, ScreenFramesNew, ExtendMore DEF PtyTypeOK
<1>4. CanSnapshot => \E i \in Shots(wire') : /\ 1..parsed \subseteq wire'[i].pieces
                                             /\ (parsed + 1)..batched' \subseteq torn'
  BY <1>1, <1>2, ScreenSent
<1>5. since' \in Nat /\ (~CanSnapshot => since' = since)
  BY DEF Snapshot, PtyTypeOK
<1>6. (batched + 1)..batched' = {}
  BY <1>1
<1> QED
  BY <1>1, <1>3, <1>4, <1>5, <1>6 DEF Sends

\* The exit handler: the rest of the buffer, and the last screen.
LEMMA ExitSends ==
  ASSUME PtyTypeOK, Exit
  PROVE  Sends
<1>1. /\ batched' = printed /\ printed' = printed /\ parsed' = parsed
      /\ batched' \in batched..MaxOutput /\ printed \in Nat
      /\ printed' \in printed..MaxOutput
      /\ parsed' \in parsed..batched' /\ batched' \in batched..printed'
  BY PtyAssumption DEF Exit, PtyTypeOK
<1>2. /\ torn \subseteq torn' /\ torn' \subseteq 1..batched'
      /\ CanSnapshot => (parsed + 1)..batched' \subseteq torn'
  BY <1>1 DEF Exit, Tear, PtyTypeOK
<1> DEFINE last == IF printed > batched THEN Chunks(printed) ELSE <<>>
           early == IF printed > batched /\ AtThreshold(cleared) THEN ScreenFrames ELSE <<>>
           w == wire \o last
           v == w \o early
<1>3. wire' = v \o ScreenFrames
  BY DEF Exit
<1>4. last \in Seq(Frames) /\ \A i \in 1..Len(last) : NewFrame(last[i])
  BY <1>1, ChunksNew
<1>5. early \in Seq(Frames) /\ \A i \in 1..Len(early) : NewFrame(early[i])
  BY <1>2, ScreenFramesNew
<1>6. Extends(wire)
  BY DEF PtyTypeOK, Extends
<1>7. last = Chunks(batched') \/ batched' = batched
  BY <1>1 DEF PtyTypeOK
<1> HIDE DEF last, early
<1>8. Extends(w)
  BY <1>4, <1>6, ExtendMore DEF PtyTypeOK
<1>9. IsOpen => (batched + 1)..batched' \subseteq ChunksOf(w)
  <2>1. w \in Seq(Frames)
    BY <1>8 DEF Extends
  <2>2. CASE last = Chunks(batched')
    BY <1>1, <2>1, <2>2, ChunkSent
  <2>3. CASE batched' = batched
    BY <1>1, <2>3 DEF PtyTypeOK
  <2> QED
    BY <1>7, <2>2, <2>3
<1> HIDE DEF w
<1>10. Extends(v) /\ \A i \in DOMAIN w : i \in DOMAIN v /\ v[i] = w[i]
  BY <1>5, <1>8, ExtendMore DEF PtyTypeOK
<1> HIDE DEF v
<1>11. Extends(wire') /\ \A i \in DOMAIN v : i \in DOMAIN wire' /\ wire'[i] = v[i]
  BY <1>2, <1>3, <1>10, ScreenFramesNew, ExtendMore DEF PtyTypeOK
<1>12. ChunksOf(w) \subseteq ChunksOf(wire')
  <2>1. Range(w) \subseteq Range(wire')
    BY <1>10, <1>11 DEF Range
  <2> QED
    BY <2>1 DEF ChunksOf
<1>13. since' \in Nat /\ life' # "running"
  BY DEF Exit, PtyTypeOK
<1> QED
  BY <1>1, <1>2, <1>9, <1>11, <1>12, <1>13 DEF Sends

LEMMA QuietSends ==
  ASSUME PtyTypeOK, Extends(wire'), parsed' \in parsed..batched,
         UNCHANGED <<printed, batched, batch, since, torn>>
  PROVE  Sends
<1>1. (batched + 1)..batched = {} /\ printed \in printed..MaxOutput /\ batched \in batched..printed
  BY PtyAssumption DEF PtyTypeOK
<1> QED
  BY <1>1 DEF Sends, PtyTypeOK

LEMMA GreetedExtends ==
  ASSUME PtyTypeOK, wire' = Append(wire, SubscribeFrame)
  PROVE  Extends(wire')
<1>1. SubscribeFrame \in Frames /\ NewFrame(SubscribeFrame)
  BY DEF SubscribeFrame, Frames, NewFrame
<1> DEFINE f == SubscribeFrame
<1>2. f \in Frames /\ NewFrame(f) /\ wire \in Seq(Frames)
  BY <1>1 DEF PtyTypeOK
<1> HIDE DEF f
<1>3. wire' = Append(wire, f)
  BY DEF f
<1>4. /\ wire' \in Seq(Frames) /\ Len(wire') = Len(wire) + 1 /\ Len(wire) \in Nat
      /\ \A i \in 1..Len(wire) : wire'[i] = wire[i]
      /\ wire'[Len(wire) + 1] = f
  BY <1>2, <1>3, AppendProperties
<1>5. \A i \in (Len(wire) + 1)..Len(wire') : wire'[i] = f
  <2>1. \A i \in (Len(wire) + 1)..Len(wire') : i = Len(wire) + 1
    BY <1>4
  <2> QED
    BY <1>4, <2>1
<1>6. Len(wire) <= Len(wire')
  BY <1>4
<1> QED
  BY <1>2, <1>4, <1>5, <1>6, Zenon DEF Extends

\* Every step of the CLI sends, or cuts.
LEMMA CliShape ==
  ASSUME PtyTypeOK, PtyNext
  PROVE  Sends \/ Cuts
<1>0. /\ printed \in Nat /\ batched \in Nat /\ parsed \in Nat /\ MaxOutput \in Nat
      /\ batched <= printed /\ parsed <= batched /\ printed <= MaxOutput
  BY PtyAssumption DEF PtyTypeOK
<1>1. ASSUME NEW clear \in BOOLEAN, Prints(clear)
      PROVE  Sends
  <2>1. /\ printed' = printed + 1 /\ batch' = TRUE /\ printed < MaxOutput
        /\ UNCHANGED <<batched, parsed, since, wire, torn, socket, life>>
    BY <1>1 DEF Prints, process
  <2>2. printed' \in printed..MaxOutput /\ batched' \in batched..printed' /\ parsed' \in parsed..batched'
    BY <1>0, <2>1
  <2>3. (batched + 1)..batched' = {}
    BY <1>0, <2>1
  <2>4. Extends(wire')
    BY <2>1, ExtendsSame
  <2> QED
    BY <2>1, <2>2, <2>3, <2>4 DEF Sends, PtyTypeOK
<1>2. ASSUME NEW clear \in BOOLEAN, PrintsMuch(clear)
      PROVE  Sends
  <2>1. /\ printed' = printed + 1 /\ printed < MaxOutput /\ UNCHANGED parsed
        /\ Flush(printed', cleared \/ clear)
    BY <1>2 DEF PrintsMuch
  <2>2. (cleared \/ clear) \in BOOLEAN
    OBVIOUS
  <2>3. printed' \in printed..MaxOutput /\ printed' >= batched
    BY <1>0, <2>1
  <2> QED
    BY <2>1, <2>2, <2>3, FlushSends
<1>3. CASE BatchTimer
  <2>1. printed' = printed /\ parsed' = parsed /\ Flush(printed', cleared)
    BY <1>3 DEF BatchTimer
  <2>2. printed' \in printed..MaxOutput /\ printed' >= batched /\ cleared \in BOOLEAN
    BY <1>0, <2>1 DEF PtyTypeOK
  <2> QED
    BY <2>1, <2>2, FlushSends
<1>4. CASE Parse
  <2>1. parsed' \in parsed..batched
    BY <1>0, <1>4 DEF Parse
  <2> QED
    BY <1>4, <2>1, ExtendsSame, QuietSends DEF Parse, timers
<1>5. CASE DebounceTimer \/ PeriodicTimer
  BY <1>5, SnapshotSends DEF DebounceTimer, PeriodicTimer, timers
<1>6. CASE Greeted
  <2>1. parsed' \in parsed..batched
    BY <1>0, <1>6 DEF Greeted, output
  <2> QED
    BY <1>6, <2>1, GreetedExtends, QuietSends DEF Greeted, output
<1>7. CASE Opens \/ Reconnect \/ Signal
  <2>1. parsed' \in parsed..batched
    BY <1>0, <1>7 DEF Opens, Reconnect, Signal, output
  <2> QED
    BY <1>7, <2>1, ExtendsSame, QuietSends DEF Opens, Reconnect, Signal, output, timers
<1>8. CASE Closes
  BY <1>8 DEF Closes, Cut, Cuts
<1>9. CASE ClosesForGood
  <2>1. 0 \in 0..Len(wire) /\ SubSeq(wire, 1, 0) = <<>>
    BY SubSeqEmpty DEF PtyTypeOK
  <2>2. Append(<<>>, CloseFrame) = <<CloseFrame>>
    OBVIOUS
  <2>3. wire' = Append(SubSeq(wire, 1, 0), CloseFrame)
    BY <1>9, <2>1, <2>2 DEF ClosesForGood
  <2> QED
    BY <1>9, <2>1, <2>3 DEF ClosesForGood, Cuts
<1>10. CASE Finish
  <2>1. CASE IsOpen
    BY <1>10, <2>1 DEF Finish, Cut, Cuts
  <2>2. CASE ~IsOpen
    <3>1. parsed' \in parsed..batched
      BY <1>0, <1>10 DEF Finish, output
    <3> QED
      BY <1>10, <2>2, <3>1, ExtendsSame, QuietSends DEF Finish, output, timers
  <2> QED
    BY <2>1, <2>2
<1> QED
  BY <1>1, <1>2, <1>3, <1>4, <1>5, <1>6, <1>7, <1>8, <1>9, <1>10, ExitSends DEF PtyNext

(***************************************************************************)
(* The invariant.                                                          *)
(***************************************************************************)

Framed ==
  /\ PtyTypeOK
  /\ RecordTypeOK
  /\ accepted \in Nat /\ Len(content) = accepted
  /\ screen \in [pieces : SUBSET Pieces, ok : BOOLEAN]
  /\ shot \in [seq : 0..accepted, pieces : SUBSET Pieces, ok : BOOLEAN, busy : BOOLEAN]
  /\ unsaved \subseteq 1..batched /\ unshot \in BOOLEAN

\* The screens that are stored, being stored and on their way follow one another.
Nest ==
  /\ screen.pieces \cup shot.pieces \subseteq 1..parsed
  /\ IF shot.busy THEN screen.pieces \subseteq shot.pieces ELSE shot.pieces = {}
  /\ \A i \in Shots(wire) :
       /\ screen.pieces \cup shot.pieces \subseteq wire[i].pieces
       /\ wire[i].pieces \subseteq 1..parsed
       /\ \A j \in Shots(wire) : i <= j => wire[i].pieces \subseteq wire[j].pieces

\* A screen shows the chunks that went before it, but for what is torn.
Covered ==
  /\ \A i \in DOMAIN wire : wire[i].kind = "chunk" =>
       /\ wire[i].pieces \subseteq 1..batched
       /\ \A j \in Shots(wire) : i <= j => wire[i].pieces \subseteq wire[j].pieces \cup torn
  /\ \A k \in DOMAIN content :
       /\ content[k].pieces \subseteq 1..batched
       /\ \A j \in Shots(wire) : content[k].pieces \subseteq wire[j].pieces \cup torn
       /\ shot.busy /\ k <= shot.seq => content[k].pieces \subseteq shot.pieces \cup torn

\* When no chunk is counted, a screen shows all that was sent, or will.
Due ==
  life = "running" /\ ~unshot /\ since = 0 =>
    \A p \in (1..batched) \ torn :
      \/ p \in screen.pieces \cup shot.pieces
      \/ \E i \in Shots(wire) : p \in wire[i].pieces

Armed == Headless /\ life = "running" /\ ~zeroed /\ socket = "greeted" => periodic

RecordInv == Framed /\ Nest /\ Covered /\ OutputAccounted /\ Due /\ Armed

(***************************************************************************)
(* The shape of the steps.                                                 *)
(***************************************************************************)

\* A cut leaves a part of what was on its way, and the close frame.
LEMMA CutLeaves ==
  ASSUME PtyTypeOK, Cuts
  PROVE  /\ wire' \in Seq(Frames)
         /\ \A i \in 1..Len(wire') :
              wire'[i].kind = "close" \/ (i \in 1..Len(wire) /\ wire'[i] = wire[i])
<1>1. PICK n \in 0..Len(wire) : wire' = Append(SubSeq(wire, 1, n), CloseFrame)
  BY DEF Cuts
<1> DEFINE w == SubSeq(wire, 1, n)
           f == CloseFrame
<1>2. wire \in Seq(Frames) /\ Len(wire) \in Nat /\ n \in Nat /\ n <= Len(wire)
  BY DEF PtyTypeOK
<1>3. \A i \in 1..n : wire[i] \in Frames
  BY <1>2, ElementOfSeq
<1>4. w \in Seq(Frames) /\ Len(w) = n /\ \A i \in 1..n : w[i] = wire[i]
  <2>1. /\ SubSeq(wire, 1, n) \in Seq(Frames)
        /\ Len(SubSeq(wire, 1, n)) = IF 1 <= n THEN n - 1 + 1 ELSE 0
        /\ \A i \in 1..(n - 1 + 1) : SubSeq(wire, 1, n)[i] = wire[1 + i - 1]
    BY <1>2, <1>3, SubSeqProperties
  <2> HIDE DEF w
  <2>2. w \in Seq(Frames) /\ Len(w) = (IF 1 <= n THEN n - 1 + 1 ELSE 0)
        /\ \A i \in 1..(n - 1 + 1) : w[i] = wire[1 + i - 1]
    BY <2>1 DEF w
  <2> QED
    BY <1>2, <2>2
<1>5. f \in Frames /\ f.kind = "close"
  BY DEF CloseFrame, Frames
<1> HIDE DEF w, f
<1>6. wire' = Append(w, f)
  BY <1>1 DEF w, f
<1>7. wire' \in Seq(Frames) /\ Len(wire') = n + 1 /\ wire'[n + 1] = f
      /\ \A i \in 1..n : wire'[i] = w[i]
  BY <1>2, <1>4, <1>5, <1>6, AppendProperties
<1>8. ASSUME NEW i \in 1..Len(wire')
      PROVE  wire'[i].kind = "close" \/ (i \in 1..Len(wire) /\ wire'[i] = wire[i])
  <2>1. i = n + 1 \/ i \in 1..n
    BY <1>2, <1>7
  <2> QED
    BY <1>2, <1>4, <1>5, <1>7, <2>1
<1> QED
  BY <1>7, <1>8

\* The relay takes the first frame.
LEMMA ConsumeTakes ==
  ASSUME PtyTypeOK, Consume
  PROVE  /\ wire' \in Seq(Frames) /\ Frame \in Frames /\ Frame = wire[1]
         /\ 1 \in 1..Len(wire) /\ Len(wire') = Len(wire) - 1
         /\ \A i \in 1..Len(wire') : i + 1 \in 1..Len(wire) /\ wire'[i] = wire[i + 1]
<1>1. wire \in Seq(Frames) /\ wire # <<>>
  BY DEF PtyTypeOK, Consume
<1>2. /\ Head(wire) \in Frames /\ Tail(wire) \in Seq(Frames)
      /\ Len(Tail(wire)) = Len(wire) - 1
      /\ \A i \in 1..Len(Tail(wire)) : Tail(wire)[i] = wire[i + 1]
  BY <1>1, HeadTailProperties
<1>3. Len(wire) \in Nat \ {0}
  BY <1>1, EmptySeq
<1>4. Head(wire) = wire[1]
  BY <1>1
<1> DEFINE w == Tail(wire)
<1>5. w \in Seq(Frames) /\ Len(w) = Len(wire) - 1 /\ \A i \in 1..Len(w) : w[i] = wire[i + 1]
  BY <1>2
<1> HIDE DEF w
<1>6. wire' = w
  BY DEF Consume, w
<1>7. \A i \in 1..Len(wire') : i + 1 \in 1..Len(wire) /\ wire'[i] = wire[i + 1]
  BY <1>3, <1>5, <1>6
<1> QED
  <2>1. Frame \in Frames /\ Frame = wire[1] /\ wire' \in Seq(Frames)
    BY <1>2, <1>4, <1>5, <1>6, Zenon DEF Frame
  <2>2. 1 \in 1..Len(wire) /\ Len(wire') = Len(wire) - 1
    BY <1>3, <1>5, <1>6
  <2> QED
    BY <1>7, <2>1, <2>2
 
LEMMA PtyTypes ==
  ASSUME PtyTypeOK, PtyNext
  PROVE  PtyTypeOK'
<1>1. /\ printed' \in 0..MaxOutput /\ batched' \in 0..printed' /\ parsed' \in 0..batched'
      /\ since' \in Nat /\ wire' \in Seq(Frames) /\ torn' \subseteq 1..batched'
  <2>1. CASE Sends
    <3>1. /\ printed' \in printed..MaxOutput /\ batched' \in batched..printed'
          /\ parsed' \in parsed..batched'
          /\ since' \in Nat /\ wire' \in Seq(Frames) /\ torn' \subseteq 1..batched'
      BY <2>1 DEF Sends, Extends
    <3> QED
      BY <3>1, PtyAssumption DEF PtyTypeOK
  <2>2. CASE Cuts
    BY <2>2, CutLeaves DEF Cuts, output, PtyTypeOK
  <2> QED
    BY <2>1, <2>2, CliShape
<1> DEFINE Flags == /\ cleared \in BOOLEAN
                    /\ batch \in BOOLEAN /\ debounce \in BOOLEAN /\ periodic \in BOOLEAN
                    /\ socket \in {"connecting", "open", "greeted", "closed", "refused"}
                    /\ life \in {"running", "exiting", "gone"}
                    /\ zeroed \in BOOLEAN
<1>2. Flags
  BY DEF PtyTypeOK
<1>3. ASSUME NEW n, NEW clear \in BOOLEAN, Flush(n, clear)
      PROVE  /\ cleared' \in BOOLEAN
             /\ batch' \in BOOLEAN /\ debounce' \in BOOLEAN /\ periodic' \in BOOLEAN
  <2>1. AtThreshold(clear) \in BOOLEAN /\ FlushedDebounce(clear) \in BOOLEAN
    BY <1>2, PtyAssumption, Zenon DEF AtThreshold, FlushedDebounce
  <2> QED
    BY <1>2, <1>3, <2>1, Zenon DEF Flush
<1>4. ASSUME NEW clear \in BOOLEAN, Prints(clear)
      PROVE  Flags'
  <2>1. (cleared \/ clear) \in BOOLEAN
    BY <1>2
  <2> QED
    BY <1>2, <1>4, <2>1, Zenon DEF Prints, process
<1>5. ASSUME NEW clear \in BOOLEAN, PrintsMuch(clear)
      PROVE  Flags'
  <2>1. (cleared \/ clear) \in BOOLEAN
    BY <1>2
  <2>2. Flush(printed + 1, cleared \/ clear) /\ UNCHANGED <<socket, life, zeroed>>
    BY <1>5 DEF PrintsMuch, process
  <2>3. /\ cleared' \in BOOLEAN
        /\ batch' \in BOOLEAN /\ debounce' \in BOOLEAN /\ periodic' \in BOOLEAN
    BY <1>3, <2>1, <2>2, Zenon
  <2> QED
    BY <1>2, <2>2, <2>3
<1>6. ASSUME BatchTimer
      PROVE  Flags'
  <2>1. Flush(printed, cleared) /\ UNCHANGED <<socket, life, zeroed>>
    BY <1>6 DEF BatchTimer, process
  <2>2. /\ cleared' \in BOOLEAN
        /\ batch' \in BOOLEAN /\ debounce' \in BOOLEAN /\ periodic' \in BOOLEAN
    BY <1>2, <1>3, <2>1, Zenon
  <2> QED
    BY <1>2, <2>1, <2>2
<1>7. ASSUME Parse
      PROVE  Flags'
  BY <1>2, <1>7 DEF Parse, timers, process
<1>8. ASSUME DebounceTimer \/ PeriodicTimer
      PROVE  Flags'
  <2>1. /\ UNCHANGED <<cleared, batch, socket, life, zeroed>>
        /\ (debounce' = FALSE /\ periodic' = TRUE) \/ UNCHANGED <<debounce, periodic>>
    BY <1>8 DEF DebounceTimer, PeriodicTimer, timers, process
  <2>2. debounce' \in BOOLEAN /\ periodic' \in BOOLEAN
    BY <1>2, <2>1, Zenon
  <2> QED
    BY <1>2, <2>1, <2>2
<1>9. ASSUME Opens \/ Greeted \/ Closes \/ ClosesForGood \/ Reconnect
      PROVE  Flags'
  <2>1. /\ UNCHANGED <<cleared, batch, debounce, life, zeroed>>
        /\ socket' \in {"connecting", "open", "greeted", "closed", "refused"}
        /\ periodic' = Headless \/ periodic' = periodic
    BY <1>9 DEF Opens, Greeted, Closes, ClosesForGood, Reconnect, timers, process, output
  <2>2. periodic' \in BOOLEAN
    BY <1>2, <2>1, PtyAssumption, Zenon
  <2> QED
    BY <1>2, <2>1, <2>2
<1>10. ASSUME Signal
      PROVE  Flags'
  <2>1. /\ UNCHANGED <<cleared, batch, debounce, socket, life>>
        /\ periodic' = FALSE /\ zeroed' = TRUE
    BY <1>10 DEF Signal, output
  <2>2. periodic' \in BOOLEAN /\ zeroed' \in BOOLEAN
    BY <2>1, Zenon
  <2> QED
    BY <1>2, <2>1, <2>2
<1>11. ASSUME Exit
      PROVE  Flags'
  <2>1. UNCHANGED <<socket, zeroed>> /\ life' = "exiting"
    BY <1>11 DEF Exit
  <2>2. /\ cleared' \in BOOLEAN
        /\ batch' \in BOOLEAN /\ debounce' \in BOOLEAN /\ periodic' \in BOOLEAN
    BY <1>11, Zenon DEF Exit
  <2> QED
    BY <1>2, <2>1, <2>2
<1>12. ASSUME Finish
      PROVE  Flags'
  BY <1>2, <1>12 DEF Finish, timers, output
<1>13. Flags'
  BY <1>4, <1>5, <1>6, <1>7, <1>8, <1>9, <1>10, <1>11, <1>12 DEF PtyNext
<1> QED
  BY <1>1, <1>13 DEF PtyTypeOK

\* Nothing runs again, and the timer of the snapshots is armed with the connection.
LEMMA Rearms ==
  ASSUME PtyTypeOK, PtyNext, Armed
  PROVE  Armed' /\ (life' = "running" => life = "running")
<1>1. ASSUME NEW clear \in BOOLEAN, Prints(clear)
      PROVE  Armed' /\ (life' = "running" => life = "running")
  BY <1>1 DEF Prints, Armed, process
<1>2. ASSUME NEW clear \in BOOLEAN, PrintsMuch(clear)
      PROVE  Armed' /\ (life' = "running" => life = "running")
  BY <1>2, Zenon DEF PrintsMuch, Flush, Armed, process
<1>3. CASE BatchTimer
  BY <1>3, Zenon DEF BatchTimer, Flush, Armed, process
<1>4. CASE Parse \/ DebounceTimer \/ PeriodicTimer
  BY <1>4 DEF Parse, DebounceTimer, PeriodicTimer, Armed, timers, process
<1>5. CASE Opens \/ Closes \/ ClosesForGood \/ Reconnect
  BY <1>5 DEF Opens, Closes, ClosesForGood, Reconnect, Armed, timers, process
<1>6. CASE Greeted \/ Finish
  BY <1>6 DEF Greeted, Finish, Armed, process, output, timers
<1>7. CASE Signal
  <2>1. zeroed' = TRUE /\ UNCHANGED life
    BY <1>7 DEF Signal
  <2> QED
    BY <2>1, Zenon DEF Armed
<1>8. CASE Exit
  BY <1>8 DEF Exit, Armed
<1> QED
  BY <1>1, <1>2, <1>3, <1>4, <1>5, <1>6, <1>7, <1>8 DEF PtyNext

(***************************************************************************)
(* The steps of the CLI.                                                   *)
(***************************************************************************)

\* What a step that sends does to the frames.
LEMMA SendsFrames ==
  ASSUME PtyTypeOK, Sends
  PROVE  /\ wire' \in Seq(Frames) /\ batched <= batched' /\ parsed <= parsed'
         /\ parsed' <= batched' /\ batched \in Nat /\ batched' \in Nat /\ parsed \in Nat /\ parsed' \in Nat
         /\ torn \subseteq torn'
         /\ \A i \in 1..Len(wire') : \/ i \in 1..Len(wire) /\ wire'[i] = wire[i]
                                     \/ i > Len(wire) /\ NewFrame(wire'[i])
         /\ \A i \in 1..Len(wire) : i \in 1..Len(wire') /\ wire'[i] = wire[i]
<1>1. /\ Extends(wire') /\ torn \subseteq torn'
      /\ printed \in Nat /\ printed' \in printed..MaxOutput /\ batched' \in batched..printed'
      /\ parsed' \in parsed..batched'
      /\ batched \in Nat /\ parsed \in Nat /\ MaxOutput \in Nat
  BY PtyAssumption DEF Sends, PtyTypeOK
<1>2. /\ wire' \in Seq(Frames) /\ Len(wire) <= Len(wire')
      /\ \A i \in 1..Len(wire) : wire'[i] = wire[i]
      /\ \A i \in (Len(wire) + 1)..Len(wire') : NewFrame(wire'[i])
  BY <1>1 DEF Extends
<1>3. Len(wire) \in Nat /\ Len(wire') \in Nat
  BY <1>2 DEF PtyTypeOK
<1>4. ASSUME NEW i \in 1..Len(wire')
      PROVE  \/ i \in 1..Len(wire) /\ wire'[i] = wire[i]
             \/ i > Len(wire) /\ NewFrame(wire'[i])
  <2>1. i \in 1..Len(wire) \/ (i \in (Len(wire) + 1)..Len(wire') /\ i > Len(wire))
    BY <1>3
  <2> QED
    BY <1>2, <2>1
<1>5. \A i \in 1..Len(wire) : i \in 1..Len(wire')
  BY <1>2, <1>3
<1> QED
  BY <1>1, <1>2, <1>4, <1>5

LEMMA SendsNest ==
  ASSUME Framed, Nest, Sends, UNCHANGED <<screen, shot>>
  PROVE  Nest'
<1>1. /\ wire' \in Seq(Frames) /\ parsed <= parsed' /\ parsed \in Nat /\ parsed' \in Nat
      /\ \A i \in 1..Len(wire') : \/ i \in 1..Len(wire) /\ wire'[i] = wire[i]
                                  \/ i > Len(wire) /\ NewFrame(wire'[i])
  BY SendsFrames DEF Framed
<1>2. wire \in Seq(Frames) /\ DOMAIN wire' = 1..Len(wire') /\ DOMAIN wire = 1..Len(wire)
  BY <1>1 DEF Framed, PtyTypeOK
<1>3. 1..parsed \subseteq 1..parsed'
  BY <1>1
<1>4. ASSUME NEW i \in Shots(wire')
      PROVE  \/ i \in Shots(wire) /\ wire'[i] = wire[i]
             \/ i > Len(wire) /\ wire'[i].pieces = 1..parsed
  BY <1>1, <1>2 DEF Shots, NewFrame
<1>5. ASSUME NEW i \in Shots(wire')
      PROVE  /\ screen.pieces \cup shot.pieces \subseteq wire'[i].pieces
             /\ wire'[i].pieces \subseteq 1..parsed
  BY <1>4 DEF Nest
<1>6. ASSUME NEW i \in Shots(wire'), NEW j \in Shots(wire'), i <= j
      PROVE  wire'[i].pieces \subseteq wire'[j].pieces
  <2>1. CASE j > Len(wire) /\ wire'[j].pieces = 1..parsed
    BY <1>5, <2>1
  <2>2. CASE j \in Shots(wire) /\ wire'[j] = wire[j]
    <3>1. i \in Shots(wire) /\ wire'[i] = wire[i]
      BY <1>2, <1>4, <1>6, <2>2 DEF Shots
    <3> QED
      BY <1>6, <2>2, <3>1 DEF Nest
  <2> QED
    BY <1>4, <2>1, <2>2
<1>7. \A i \in Shots(wire') : wire'[i].pieces \subseteq 1..parsed'
  BY <1>3, <1>5
<1> QED
  BY <1>3, <1>5, <1>6, <1>7, Zenon DEF Nest

LEMMA SendsCovered ==
  ASSUME Framed, Covered, Sends, UNCHANGED <<content, shot>>
  PROVE  Covered'
<1>1. /\ wire' \in Seq(Frames) /\ batched <= batched' /\ batched \in Nat /\ batched' \in Nat
      /\ parsed \in Nat /\ torn \subseteq torn'
      /\ \A i \in 1..Len(wire') : \/ i \in 1..Len(wire) /\ wire'[i] = wire[i]
                                  \/ i > Len(wire) /\ NewFrame(wire'[i])
  BY SendsFrames DEF Framed
<1>2. wire \in Seq(Frames) /\ DOMAIN wire' = 1..Len(wire') /\ DOMAIN wire = 1..Len(wire)
  BY <1>1 DEF Framed, PtyTypeOK
<1>3. 1..batched \subseteq 1..batched' /\ (batched + 1)..batched' \subseteq 1..batched'
      /\ 1..batched' \subseteq (1..parsed) \cup ((parsed + 1)..batched')
  BY <1>1
<1>4. ASSUME NEW j \in Shots(wire')
      PROVE  \/ j \in Shots(wire) /\ wire'[j] = wire[j]
             \/ j > Len(wire) /\ 1..batched' \subseteq wire'[j].pieces \cup torn'
  BY <1>1, <1>2, <1>3 DEF Shots, NewFrame
<1>5. ASSUME NEW i \in DOMAIN wire', wire'[i].kind = "chunk"
      PROVE  /\ wire'[i].pieces \subseteq 1..batched'
             /\ (i \in DOMAIN wire /\ wire'[i] = wire[i]) \/ i > Len(wire)
  BY <1>1, <1>2, <1>3, <1>5 DEF Covered, NewFrame
<1>6. ASSUME NEW i \in DOMAIN wire', wire'[i].kind = "chunk", NEW j \in Shots(wire'), i <= j
      PROVE  wire'[i].pieces \subseteq wire'[j].pieces \cup torn'
  <2>1. CASE j > Len(wire) /\ 1..batched' \subseteq wire'[j].pieces \cup torn'
    BY <1>5, <1>6, <2>1
  <2>2. CASE j \in Shots(wire) /\ wire'[j] = wire[j]
    <3>1. i \in DOMAIN wire /\ wire'[i] = wire[i]
      BY <1>2, <1>5, <1>6, <2>2 DEF Shots
    <3> QED
      BY <1>1, <1>6, <2>2, <3>1 DEF Covered
  <2> QED
    BY <1>4, <2>1, <2>2
<1>7. ASSUME NEW k \in DOMAIN content
      PROVE  /\ content[k].pieces \subseteq 1..batched'
             /\ \A j \in Shots(wire') : content[k].pieces \subseteq wire'[j].pieces \cup torn'
             /\ shot.busy /\ k <= shot.seq => content[k].pieces \subseteq shot.pieces \cup torn'
  BY <1>1, <1>3, <1>4 DEF Covered
<1> QED
  BY <1>5, <1>6, <1>7, Zenon DEF Covered

\* What is left after a cut, or after the relay took a frame, follows on as before.
LEMMA RestKeeps ==
  ASSUME Framed, Nest, Covered, wire' \in Seq(Frames), NEW d \in {0, 1},
         \A i \in 1..Len(wire') :
           wire'[i].kind = "close" \/ (i + d \in 1..Len(wire) /\ wire'[i] = wire[i + d])
  PROVE  /\ \A i \in Shots(wire') : i + d \in Shots(wire) /\ wire'[i] = wire[i + d]
         /\ \A i \in Shots(wire') :
              /\ screen.pieces \cup shot.pieces \subseteq wire'[i].pieces
              /\ wire'[i].pieces \subseteq 1..parsed
              /\ \A j \in Shots(wire') : i <= j => wire'[i].pieces \subseteq wire'[j].pieces
         /\ \A i \in DOMAIN wire' : wire'[i].kind = "chunk" =>
              /\ wire'[i].pieces \subseteq 1..batched
              /\ \A j \in Shots(wire') : i <= j => wire'[i].pieces \subseteq wire'[j].pieces \cup torn
<1>1. /\ DOMAIN wire = 1..Len(wire) /\ DOMAIN wire' = 1..Len(wire')
      /\ Len(wire) \in Nat /\ Len(wire') \in Nat
  BY DEF Framed, PtyTypeOK
<1>2. \A i \in Shots(wire') : i + d \in Shots(wire) /\ wire'[i] = wire[i + d]
  BY <1>1 DEF Shots
<1>3. \A i, j \in 1..Len(wire') : i <= j => i + d <= j + d
  BY <1>1
<1>4. \A i \in DOMAIN wire' : wire'[i].kind = "chunk" =>
        i + d \in DOMAIN wire /\ wire'[i] = wire[i + d]
  BY <1>1
<1>5. Shots(wire') \subseteq 1..Len(wire')
  BY <1>1 DEF Shots
<1>6. ASSUME NEW i \in Shots(wire')
      PROVE  /\ screen.pieces \cup shot.pieces \subseteq wire'[i].pieces
             /\ wire'[i].pieces \subseteq 1..parsed
  BY <1>2 DEF Nest
<1>7. ASSUME NEW i \in Shots(wire'), NEW j \in Shots(wire'), i <= j
      PROVE  wire'[i].pieces \subseteq wire'[j].pieces
  BY <1>2, <1>3, <1>5, <1>7 DEF Nest
<1>8. ASSUME NEW i \in DOMAIN wire', wire'[i].kind = "chunk"
      PROVE  wire'[i].pieces \subseteq 1..batched
  BY <1>4, <1>8 DEF Covered
<1>9. ASSUME NEW i \in DOMAIN wire', wire'[i].kind = "chunk", NEW j \in Shots(wire'), i <= j
      PROVE  wire'[i].pieces \subseteq wire'[j].pieces \cup torn
  BY <1>1, <1>2, <1>3, <1>4, <1>5, <1>9 DEF Covered
<1> QED
  BY <1>2, <1>6, <1>7, <1>8, <1>9

\* Frames that stay keep their chunks.
LEMMA ChunksOfIn ==
  ASSUME NEW w \in Seq(Frames), NEW p
  PROVE  p \in ChunksOf(w) <=> \E i \in 1..Len(w) : w[i].kind = "chunk" /\ p \in w[i].pieces
<1>1. Range(w) = {w[i] : i \in 1..Len(w)}
  BY DEF Range
<1> QED
  BY <1>1 DEF ChunksOf

LEMMA SendsChunks ==
  ASSUME PtyTypeOK, Sends
  PROVE  ChunksOf(wire) \subseteq ChunksOf(wire')
<1>1. wire \in Seq(Frames) /\ wire' \in Seq(Frames)
      /\ \A i \in 1..Len(wire) : i \in 1..Len(wire') /\ wire'[i] = wire[i]
  BY SendsFrames DEF PtyTypeOK
<1>2. ASSUME NEW p \in ChunksOf(wire)
      PROVE  p \in ChunksOf(wire')
  <2>1. PICK i \in 1..Len(wire) : wire[i].kind = "chunk" /\ p \in wire[i].pieces
    BY <1>1, ChunksOfIn
  <2> QED
    BY <1>1, <2>1, ChunksOfIn
<1> QED
  BY <1>2

LEMMA ChunksSent ==
  ASSUME Framed, Covered
  PROVE  ChunksOf(wire) \subseteq 1..batched
<1>1. wire \in Seq(Frames) /\ DOMAIN wire = 1..Len(wire)
  BY DEF Framed, PtyTypeOK
<1> QED
  BY <1>1, ChunksOfIn DEF Covered

LEMMA CliKeeps ==
  ASSUME Framed, Nest, Covered, Cli
  PROVE  Nest' /\ Covered'
<1>1. UNCHANGED <<screen, shot, content>> /\ PtyTypeOK /\ PtyNext
  BY DEF Cli, CliLosses, relay, Framed
<1>2. CASE Sends
  BY <1>1, <1>2, SendsNest, SendsCovered
<1>3. CASE Cuts
  <2>1. UNCHANGED <<batched, parsed, torn>>
    BY <1>3 DEF Cuts, output
  <2>2. /\ wire' \in Seq(Frames)
        /\ \A i \in 1..Len(wire') :
             wire'[i].kind = "close" \/ (i + 0 \in 1..Len(wire) /\ wire'[i] = wire[i + 0])
    BY <1>1, <1>3, CutLeaves
  <2>3. 0 \in {0, 1}
    OBVIOUS
  <2>4. /\ \A i \in Shots(wire') : i + 0 \in Shots(wire) /\ wire'[i] = wire[i + 0]
        /\ \A i \in Shots(wire') :
             /\ screen.pieces \cup shot.pieces \subseteq wire'[i].pieces
             /\ wire'[i].pieces \subseteq 1..parsed
             /\ \A j \in Shots(wire') : i <= j => wire'[i].pieces \subseteq wire'[j].pieces
        /\ \A i \in DOMAIN wire' : wire'[i].kind = "chunk" =>
             /\ wire'[i].pieces \subseteq 1..batched
             /\ \A j \in Shots(wire') : i <= j => wire'[i].pieces \subseteq wire'[j].pieces \cup torn
    BY <2>2, <2>3, RestKeeps
  <2>5. Nest'
    BY <1>1, <2>1, <2>4 DEF Nest
  <2>6. \A j \in Shots(wire') : j \in Shots(wire) /\ wire'[j] = wire[j]
    <3>1. \A j \in Shots(wire') : j \in Int
      BY <2>2 DEF Shots
    <3> QED
      BY <2>4, <3>1
  <2>7. Covered'
    BY <1>1, <2>1, <2>4, <2>6 DEF Covered
  <2> QED
    BY <2>5, <2>7
<1> QED
  BY <1>1, <1>2, <1>3, CliShape

LEMMA CliFramed ==
  ASSUME Framed, Covered, Cli
  PROVE  Framed'
<1>1. /\ PtyTypeOK /\ PtyNext
      /\ UNCHANGED <<accepted, stored, cover, joined, window, shot, content, screen>>
  BY DEF Cli, CliLosses, relay, Framed, logVars
<1>2. PtyTypeOK'
  BY <1>1, PtyTypes
<1>3. RecordTypeOK'
  <2>1. /\ joined \in {"no", "asked", "yes"} /\ window \in 0..FrameLimit
        /\ content \in Seq([pieces : SUBSET Pieces, ok : BOOLEAN])
        /\ cover \in 0..accepted
    BY DEF Framed, RecordTypeOK
  <2> QED
    BY <1>1, <1>2, <2>1, Zenon DEF RecordTypeOK, PtyTypeOK
<1>4. batched <= batched' /\ batched \in Nat /\ batched' \in Nat
  <2>1. CASE Sends
    BY <1>1, <2>1, SendsFrames
  <2>2. CASE Cuts
    BY <1>1, <2>2 DEF Cuts, output, PtyTypeOK
  <2> QED
    BY <1>1, <2>1, <2>2, CliShape
<1>5. unsaved' \subseteq 1..batched'
  <2>1. 1..batched \subseteq 1..batched' /\ (batched + 1)..batched' \subseteq 1..batched'
    BY <1>4
  <2>2. unsaved \subseteq 1..batched
    BY DEF Framed
  <2>3. unsaved' \subseteq unsaved \cup ((batched + 1)..batched') \cup ChunksOf(wire)
    BY DEF Cli, CliLosses
  <2> QED
    BY <2>1, <2>2, <2>3, ChunksSent
<1>6. unshot' \in BOOLEAN
  BY Zenon DEF Cli, CliLosses
<1>7. accepted \in Nat /\ Len(content) = accepted
      /\ screen \in [pieces : SUBSET Pieces, ok : BOOLEAN]
      /\ shot \in [seq : 0..accepted, pieces : SUBSET Pieces, ok : BOOLEAN, busy : BOOLEAN]
  BY DEF Framed
<1> QED
  BY <1>1, <1>2, <1>3, <1>5, <1>6, <1>7, Zenon DEF Framed

LEMMA CliAccounts ==
  ASSUME Framed, Armed, OutputAccounted, Cli
  PROVE  OutputAccounted'
<1>1. /\ PtyTypeOK /\ PtyNext /\ UNCHANGED <<screen, content, cover>>
      /\ unsaved' = unsaved \cup (IF IsOpen THEN {} ELSE (batched + 1)..batched')
                            \cup (IF CutOff THEN ChunksOf(wire) \ ChunksOf(wire') ELSE {})
  BY DEF Cli, CliLosses, Framed, logVars
<1>2. Recorded' = Recorded
  BY <1>1 DEF Recorded
<1>3. life' = "running" => life = "running"
  BY <1>1, Rearms
<1>4. CASE Sends
  <2>1. /\ batched \in Nat /\ batched' \in Nat /\ printed \in Nat /\ printed' \in Nat
        /\ batched <= printed /\ batched' <= printed'
        /\ torn \subseteq torn'
        /\ IsOpen => (batched + 1)..batched' \subseteq ChunksOf(wire')
        /\ life' = "running" /\ printed' > batched' => batch' \/ UNCHANGED <<batch, printed, batched>>
    BY <1>1, <1>4, PtyAssumption DEF Sends, PtyTypeOK
  <2>2. ChunksOf(wire) \subseteq ChunksOf(wire')
    BY <1>1, <1>4, SendsChunks
  <2> SUFFICES ASSUME NEW p \in 1..printed'
               PROVE  \/ p > batched' /\ (life' = "running" => batch')
                      \/ p \in ChunksOf(wire') \cup Recorded' \cup unsaved' \cup torn'
    BY DEF OutputAccounted
  <2>3. CASE p > batched'
    <3>1. CASE life' = "running"
      <4>1. printed' > batched'
        BY <2>1, <2>3
      <4>2. CASE UNCHANGED <<batch, printed, batched>>
        <5>1. p \in 1..printed /\ p > batched /\ life = "running"
          BY <1>3, <2>3, <3>1, <4>2
        <5>2. batch \/ p \in ChunksOf(wire) \cup Recorded \cup unsaved \cup torn
          BY <5>1 DEF OutputAccounted
        <5> QED
          BY <1>1, <1>2, <2>1, <2>2, <2>3, <4>2, <5>2
      <4> QED
        BY <2>1, <2>3, <3>1, <4>1, <4>2
    <3> QED
      BY <2>3, <3>1
  <2>4. CASE p <= batched' /\ p > batched
    <3>1. p \in (batched + 1)..batched'
      BY <2>1, <2>4
    <3> QED
      BY <1>1, <2>1, <3>1
  <2>5. CASE p <= batched
    <3>1. p \in 1..printed /\ ~(p > batched)
      BY <2>1, <2>5
    <3>2. p \in ChunksOf(wire) \cup Recorded \cup unsaved \cup torn
      BY <3>1 DEF OutputAccounted
    <3> QED
      BY <1>1, <1>2, <2>1, <2>2, <3>2
  <2> QED
    BY <2>1, <2>3, <2>4, <2>5
<1>5. CASE Cuts
  <2>1. UNCHANGED <<printed, batched, torn, batch>> /\ CutOff
    BY <1>5 DEF Cuts, output, timers, CutOff
  <2>2. ChunksOf(wire) \subseteq ChunksOf(wire') \cup unsaved' /\ unsaved \subseteq unsaved'
    BY <1>1, <2>1
  <2> QED
    BY <1>2, <1>3, <2>1, <2>2 DEF OutputAccounted
<1> QED
  BY <1>1, <1>4, <1>5, CliShape

LEMMA CliDue ==
  ASSUME Framed, Armed, Due, Cli
  PROVE  Due'
<1>1. /\ PtyTypeOK /\ PtyNext /\ UNCHANGED <<screen, shot>>
      /\ unshot' = (unshot \/ (CutOff /\ ~(Shots(wire) \subseteq Shots(wire'))))
  BY DEF Cli, CliLosses, Framed, relay
<1> SUFFICES ASSUME life' = "running", ~unshot', since' = 0, NEW p \in (1..batched') \ torn'
             PROVE  \/ p \in screen.pieces \cup shot.pieces
                    \/ \E i \in Shots(wire') : p \in wire'[i].pieces
  BY <1>1 DEF Due
<1>2. life = "running"
  BY <1>1, Rearms
<1>3. ~unshot
  BY <1>1
<1>4. CASE Sends
  <2>1. /\ wire' \in Seq(Frames) /\ wire \in Seq(Frames)
        /\ batched \in Nat /\ batched' \in Nat /\ parsed \in Nat
        /\ torn \subseteq torn'
        /\ \A i \in 1..Len(wire) : i \in 1..Len(wire') /\ wire'[i] = wire[i]
    BY <1>1, <1>4, SendsFrames DEF PtyTypeOK
  <2>2. CASE since = 0 /\ batched' = batched
    <3>1. \/ p \in screen.pieces \cup shot.pieces
          \/ \E i \in Shots(wire) : p \in wire[i].pieces
      BY <1>2, <1>3, <2>1, <2>2 DEF Due
    <3>2. \A i \in Shots(wire) : i \in Shots(wire') /\ wire'[i] = wire[i]
      BY <2>1 DEF Shots
    <3> QED
      BY <3>1, <3>2
  <2>3. ASSUME NEW i \in Shots(wire'), 1..parsed \subseteq wire'[i].pieces,
               (parsed + 1)..batched' \subseteq torn'
        PROVE  p \in wire'[i].pieces
    <3>1. p \in 1..parsed \/ p \in (parsed + 1)..batched'
      BY <2>1
    <3> QED
      BY <2>3, <3>1
  <2> QED
    BY <1>4, <2>2, <2>3 DEF Sends
<1>5. CASE Cuts
  <2>1. UNCHANGED <<batched, torn, since>> /\ CutOff
    BY <1>5 DEF Cuts, output, CutOff
  <2>2. Shots(wire) \subseteq Shots(wire')
    BY <1>1, <2>1
  <2>3. wire' \in Seq(Frames)
        /\ \A i \in 1..Len(wire') :
              wire'[i].kind = "close" \/ (i \in 1..Len(wire) /\ wire'[i] = wire[i])
    BY <1>1, <1>5, CutLeaves
  <2>4. \A i \in Shots(wire) : i \in Shots(wire') /\ wire'[i] = wire[i]
    BY <2>2, <2>3 DEF Shots
  <2> QED
    BY <1>2, <1>3, <2>1, <2>4 DEF Due
<1> QED
  BY <1>1, <1>4, <1>5, CliShape

(***************************************************************************)
(* The steps of the relay.                                                 *)
(***************************************************************************)

\* What taking a frame leaves.
LEMMA ConsumeKeeps ==
  ASSUME Framed, Nest, Covered, Consume
  PROVE  /\ UNCHANGED <<printed, batched, parsed, torn, batch, since, life>>
         /\ wire' \in Seq(Frames) /\ Frame \in Frames /\ 1 \in DOMAIN wire /\ Frame = wire[1]
         /\ \A i \in Shots(wire) : i = 1 \/ (i - 1 \in Shots(wire') /\ wire'[i - 1] = wire[i])
         /\ \A i \in Shots(wire') : i + 1 \in Shots(wire) /\ wire'[i] = wire[i + 1] /\ 1 <= i + 1
         /\ \A i \in Shots(wire') :
              /\ screen.pieces \cup shot.pieces \subseteq wire'[i].pieces
              /\ wire'[i].pieces \subseteq 1..parsed
              /\ \A j \in Shots(wire') : i <= j => wire'[i].pieces \subseteq wire'[j].pieces
         /\ \A i \in DOMAIN wire' : wire'[i].kind = "chunk" =>
              /\ wire'[i].pieces \subseteq 1..batched
              /\ \A j \in Shots(wire') : i <= j => wire'[i].pieces \subseteq wire'[j].pieces \cup torn
         /\ \A k \in DOMAIN content : \A j \in Shots(wire') :
              content[k].pieces \subseteq wire'[j].pieces \cup torn
<1>1. UNCHANGED <<printed, batched, parsed, torn, batch, since, life>> /\ PtyTypeOK
  BY DEF Consume, output, timers, process, Framed
<1>2. /\ wire' \in Seq(Frames) /\ Frame \in Frames /\ Frame = wire[1]
      /\ 1 \in 1..Len(wire) /\ Len(wire') = Len(wire) - 1
      /\ \A i \in 1..Len(wire') : i + 1 \in 1..Len(wire) /\ wire'[i] = wire[i + 1]
  BY <1>1, ConsumeTakes
<1>3. DOMAIN wire = 1..Len(wire) /\ DOMAIN wire' = 1..Len(wire') /\ Len(wire) \in Nat /\ Len(wire') \in Nat
  BY <1>1, <1>2 DEF PtyTypeOK
<1>4. 1 \in {0, 1}
  OBVIOUS
<1>5. /\ \A i \in Shots(wire') : i + 1 \in Shots(wire) /\ wire'[i] = wire[i + 1]
      /\ \A i \in Shots(wire') :
           /\ screen.pieces \cup shot.pieces \subseteq wire'[i].pieces
           /\ wire'[i].pieces \subseteq 1..parsed
           /\ \A j \in Shots(wire') : i <= j => wire'[i].pieces \subseteq wire'[j].pieces
      /\ \A i \in DOMAIN wire' : wire'[i].kind = "chunk" =>
           /\ wire'[i].pieces \subseteq 1..batched
           /\ \A j \in Shots(wire') : i <= j => wire'[i].pieces \subseteq wire'[j].pieces \cup torn
  BY <1>2, <1>4, RestKeeps
<1>6. \A i \in Shots(wire') : 1 <= i + 1
  BY <1>3 DEF Shots
<1>7. \A k \in DOMAIN content : \A j \in Shots(wire') :
        content[k].pieces \subseteq wire'[j].pieces \cup torn
  BY <1>5 DEF Covered
<1>8. ASSUME NEW i \in Shots(wire), i # 1
      PROVE  i - 1 \in Shots(wire') /\ wire'[i - 1] = wire[i]
  <2>1. i \in 1..Len(wire) /\ wire[i].kind = "snapshot"
    BY <1>3 DEF Shots
  <2>2. i - 1 \in 1..Len(wire') /\ (i - 1) + 1 = i
    BY <1>2, <1>3, <1>8, <2>1
  <2>3. wire'[i - 1] = wire[i]
    BY <1>2, <2>2
  <2> QED
    BY <1>3, <2>1, <2>2, <2>3 DEF Shots
<1> QED
  BY <1>1, <1>2, <1>3, <1>5, <1>6, <1>7, <1>8

\* The chunks that are left, and those of the frame that was taken.
LEMMA ConsumeChunks ==
  ASSUME PtyTypeOK, Consume
  PROVE  /\ Frame.kind = "chunk" => ChunksOf(wire) \subseteq ChunksOf(wire') \cup Frame.pieces
         /\ Frame.kind # "chunk" => ChunksOf(wire) \subseteq ChunksOf(wire')
<1>1. /\ wire' \in Seq(Frames) /\ Frame \in Frames /\ Frame = wire[1]
      /\ 1 \in 1..Len(wire) /\ Len(wire') = Len(wire) - 1
      /\ \A i \in 1..Len(wire') : i + 1 \in 1..Len(wire) /\ wire'[i] = wire[i + 1]
  BY ConsumeTakes
<1>2. wire \in Seq(Frames) /\ Len(wire) \in Nat
  BY DEF PtyTypeOK
<1>3. ASSUME NEW p \in ChunksOf(wire)
      PROVE  p \in ChunksOf(wire') \/ (Frame.kind = "chunk" /\ p \in Frame.pieces)
  <2>1. PICK i \in 1..Len(wire) : wire[i].kind = "chunk" /\ p \in wire[i].pieces
    BY <1>2, ChunksOfIn
  <2>2. CASE i = 1
    BY <1>1, <2>1, <2>2
  <2>3. CASE i # 1
    <3>1. i - 1 \in 1..Len(wire') /\ (i - 1) + 1 = i
      BY <1>1, <1>2, <2>3
    <3>2. wire'[i - 1] = wire[i]
      BY <1>1, <3>1
    <3> QED
      BY <1>1, <2>1, <3>1, <3>2, ChunksOfIn
  <2> QED
    BY <2>2, <2>3
<1> QED
  BY <1>3

LEMMA FrameChunks ==
  ASSUME Frame \in Frames
  PROVE  /\ Frame.kind = "chunk" => ChunksOf(<<Frame>>) = Frame.pieces
         /\ Frame.kind # "chunk" => ChunksOf(<<Frame>>) = {}
<1> DEFINE f == Frame
           W == <<f>>
<1>1. f \in Frames
  OBVIOUS
<1> HIDE DEF f
<1>2. W \in Seq(Frames) /\ Len(W) = 1 /\ W[1] = f
  BY <1>1
<1>3. \A i \in 1..Len(W) : i = 1
  BY <1>2
<1> HIDE DEF W
<1>4. ASSUME NEW p
      PROVE  p \in ChunksOf(W) <=> (f.kind = "chunk" /\ p \in f.pieces)
  <2>1. p \in ChunksOf(W) <=> \E i \in 1..Len(W) : W[i].kind = "chunk" /\ p \in W[i].pieces
    BY <1>2, ChunksOfIn
  <2>2. 1 \in 1..Len(W)
    BY <1>2
  <2> QED
    BY <1>2, <1>3, <2>1, <2>2, Zenon
<1>5. f.kind = "chunk" => ChunksOf(W) = f.pieces
  BY <1>4
<1>6. f.kind # "chunk" => ChunksOf(W) = {}
  BY <1>4
<1> QED
  BY <1>5, <1>6 DEF f, W

\* The limit or a socket that has not joined drops a frame; SUBSCRIBE; a close.
Passes == DropLimited \/ DropUnjoined \/ TakeSubscribe \/ TakeClose

LEMMA PassesKeep ==
  ASSUME RecordInv, Passes
  PROVE  RecordInv'
<1>1. Framed /\ Nest /\ Covered /\ OutputAccounted /\ Due /\ Armed /\ PtyTypeOK
  BY DEF RecordInv, Framed
<1>2. Consume /\ UNCHANGED <<accepted, stored, cover, shot, content, screen>>
  BY DEF Passes, DropLimited, DropUnjoined, TakeSubscribe, TakeClose, Dropped, logVars
<1>3. UNCHANGED <<printed, batched, parsed, cleared, since, torn, batch, debounce, periodic,
                  socket, life, zeroed>>
  BY <1>2 DEF Consume, output, timers, process
<1>4. /\ wire' \in Seq(Frames) /\ Frame \in Frames /\ 1 \in DOMAIN wire /\ Frame = wire[1]
      /\ \A i \in Shots(wire) : i = 1 \/ (i - 1 \in Shots(wire') /\ wire'[i - 1] = wire[i])
      /\ \A i \in Shots(wire') :
           /\ screen.pieces \cup shot.pieces \subseteq wire'[i].pieces
           /\ wire'[i].pieces \subseteq 1..parsed
           /\ \A j \in Shots(wire') : i <= j => wire'[i].pieces \subseteq wire'[j].pieces
      /\ \A i \in DOMAIN wire' : wire'[i].kind = "chunk" =>
           /\ wire'[i].pieces \subseteq 1..batched
           /\ \A j \in Shots(wire') : i <= j => wire'[i].pieces \subseteq wire'[j].pieces \cup torn
      /\ \A k \in DOMAIN content : \A j \in Shots(wire') :
           content[k].pieces \subseteq wire'[j].pieces \cup torn
  BY <1>1, <1>2, ConsumeKeeps
<1>5. Nest'
  BY <1>1, <1>2, <1>3, <1>4 DEF Nest
<1>6. Covered'
  BY <1>1, <1>2, <1>3, <1>4 DEF Covered
<1>7. /\ unsaved \subseteq unsaved' /\ (Frame.kind = "chunk" => Frame.pieces \subseteq unsaved')
      /\ unsaved' \subseteq unsaved \cup ChunksOf(wire)
      /\ (~unshot' => ~unshot /\ Frame.kind # "snapshot")
  <2>1. ChunksOf(<<Frame>>) \subseteq ChunksOf(wire)
    <3>1. wire \in Seq(Frames) /\ 1 \in 1..Len(wire)
      BY <1>1, <1>4 DEF PtyTypeOK
    <3> QED
      BY <1>4, <3>1, FrameChunks, ChunksOfIn
  <2>2. CASE DropLimited \/ DropUnjoined
    BY <1>4, <2>1, <2>2, FrameChunks DEF DropLimited, DropUnjoined, Dropped
  <2>3. CASE TakeSubscribe \/ TakeClose
    BY <2>3 DEF TakeSubscribe, TakeClose
  <2> QED
    BY <2>2, <2>3 DEF Passes
<1>8. OutputAccounted'
  <2>1. Recorded' = Recorded
    BY <1>2 DEF Recorded
  <2>2. ChunksOf(wire) \subseteq ChunksOf(wire') \cup unsaved'
    BY <1>1, <1>2, <1>7, ConsumeChunks
  <2> QED
    BY <1>1, <1>3, <1>7, <2>1, <2>2 DEF OutputAccounted
<1>9. Due'
  <2>1. ~unshot' => \A i \in Shots(wire) : i - 1 \in Shots(wire') /\ wire'[i - 1] = wire[i]
    BY <1>4, <1>7 DEF Shots
  <2> QED
    BY <1>1, <1>2, <1>3, <1>7, <2>1 DEF Due
<1>10. Armed'
  BY <1>1, <1>3, Zenon DEF Armed
<1>11. Framed'
  <2>1. joined' \in {"no", "asked", "yes"} /\ window' \in 0..FrameLimit
    BY <1>1, RecordingAssumption DEF Passes, DropLimited, DropUnjoined, TakeSubscribe, TakeClose,
       Dropped, Admitted, Framed, RecordTypeOK
  <2>2. unsaved' \subseteq 1..batched
    BY <1>1, <1>7, ChunksSent DEF Framed
  <2>3. unshot' \in BOOLEAN
    BY <1>1, Zenon DEF Passes, DropLimited, DropUnjoined, TakeSubscribe, TakeClose, Dropped, Framed
  <2>4. PtyTypeOK'
    BY <1>1, <1>3, <1>4, Zenon DEF PtyTypeOK
  <2>5. content \in Seq([pieces : SUBSET Pieces, ok : BOOLEAN]) /\ cover \in 0..accepted
    BY <1>1 DEF Framed, RecordTypeOK
  <2>6. RecordTypeOK'
    BY <1>2, <2>1, <2>4, <2>5, Zenon DEF RecordTypeOK, PtyTypeOK
  <2>7. accepted \in Nat /\ Len(content) = accepted
        /\ screen \in [pieces : SUBSET Pieces, ok : BOOLEAN]
        /\ shot \in [seq : 0..accepted, pieces : SUBSET Pieces, ok : BOOLEAN, busy : BOOLEAN]
    BY <1>1 DEF Framed
  <2> QED
    BY <1>2, <1>3, <2>2, <2>3, <2>4, <2>6, <2>7, Zenon DEF Framed
<1> QED
  BY <1>5, <1>6, <1>8, <1>9, <1>10, <1>11, Zenon DEF RecordInv

\* The types after any step of the relay's frames.
LEMMA TakeFramed ==
  ASSUME Framed, Consume, Frame \in Frames, wire' \in Seq(Frames), Admitted, UNCHANGED <<joined, cover, screen>>,
         unsaved' = unsaved, unshot' = unshot, accepted' \in Nat, accepted <= accepted',
         content' \in Seq([pieces : SUBSET Pieces, ok : BOOLEAN]), Len(content') = accepted',
         shot' \in [seq : 0..accepted', pieces : SUBSET Pieces, ok : BOOLEAN, busy : BOOLEAN]
  PROVE  Framed'
<1>1. UNCHANGED <<printed, batched, parsed, cleared, since, torn, batch, debounce, periodic,
                  socket, life, zeroed>>
  BY DEF Consume, output, timers, process
<1>2. PtyTypeOK'
  BY <1>1, Zenon DEF Framed, PtyTypeOK
<1>3. window' \in 0..FrameLimit /\ cover' \in 0..accepted'
  BY RecordingAssumption DEF Admitted, Framed, RecordTypeOK
<1>4. joined \in {"no", "asked", "yes"} /\ screen \in [pieces : SUBSET Pieces, ok : BOOLEAN]
      /\ unsaved \subseteq 1..batched /\ unshot \in BOOLEAN
  BY Zenon DEF Framed, RecordTypeOK
<1>5. RecordTypeOK'
  BY <1>2, <1>3, <1>4, Zenon DEF RecordTypeOK, PtyTypeOK
<1> QED
  BY <1>1, <1>2, <1>4, <1>5, Zenon DEF Framed

LEMMA TakeChunkKeeps ==
  ASSUME RecordInv, TakeChunk
  PROVE  RecordInv'
<1>1. Framed /\ Nest /\ Covered /\ OutputAccounted /\ Due /\ Armed /\ PtyTypeOK
  BY DEF RecordInv, Framed
<1>2. /\ Consume /\ Frame.kind = "chunk" /\ Admitted
      /\ accepted' = accepted + 1
      /\ content' = Append(content, Chunk(Frame.pieces, Frame.ok))
      /\ UNCHANGED <<joined, cover, shot, screen, unsaved, unshot>>
  BY DEF TakeChunk, Accept
<1>3. /\ UNCHANGED <<printed, batched, parsed, cleared, since, torn, batch, debounce, periodic,
                     socket, life, zeroed>>
  BY <1>2 DEF Consume, output, timers, process
<1>4. /\ wire' \in Seq(Frames) /\ Frame \in Frames /\ 1 \in DOMAIN wire /\ Frame = wire[1]
      /\ \A i \in Shots(wire) : i = 1 \/ (i - 1 \in Shots(wire') /\ wire'[i - 1] = wire[i])
      /\ \A i \in Shots(wire') : i + 1 \in Shots(wire) /\ wire'[i] = wire[i + 1] /\ 1 <= i + 1
      /\ \A i \in Shots(wire') :
           /\ screen.pieces \cup shot.pieces \subseteq wire'[i].pieces
           /\ wire'[i].pieces \subseteq 1..parsed
           /\ \A j \in Shots(wire') : i <= j => wire'[i].pieces \subseteq wire'[j].pieces
      /\ \A i \in DOMAIN wire' : wire'[i].kind = "chunk" =>
           /\ wire'[i].pieces \subseteq 1..batched
           /\ \A j \in Shots(wire') : i <= j => wire'[i].pieces \subseteq wire'[j].pieces \cup torn
      /\ \A k \in DOMAIN content : \A j \in Shots(wire') :
           content[k].pieces \subseteq wire'[j].pieces \cup torn
  BY <1>1, <1>2, ConsumeKeeps
<1> DEFINE c == Chunk(Frame.pieces, Frame.ok)
<1>5. c \in [pieces : SUBSET Pieces, ok : BOOLEAN] /\ c.pieces = Frame.pieces
  BY <1>4 DEF Chunk, Frames
<1>6. /\ content \in Seq([pieces : SUBSET Pieces, ok : BOOLEAN])
      /\ Len(content) = accepted /\ accepted \in Nat /\ cover \in 0..accepted
      /\ shot \in [seq : 0..accepted, pieces : SUBSET Pieces, ok : BOOLEAN, busy : BOOLEAN]
  BY <1>1 DEF Framed, RecordTypeOK
<1> HIDE DEF c
<1>7. content' = Append(content, c)
  BY <1>2 DEF c
<1>8. /\ content' \in Seq([pieces : SUBSET Pieces, ok : BOOLEAN])
      /\ Len(content') = accepted' /\ content'[accepted'] = c
      /\ DOMAIN content' = 1..accepted' /\ DOMAIN content = 1..accepted
      /\ \A k \in 1..accepted : content'[k] = content[k]
  BY <1>2, <1>5, <1>6, <1>7, AppendProperties
<1>9. \A k \in 1..accepted' : k \in 1..accepted \/ k = accepted'
  BY <1>2, <1>6
<1>10. Framed'
  <2>1. accepted' \in Nat /\ accepted <= accepted'
    BY <1>2, <1>6
  <2>2. shot' \in [seq : 0..accepted', pieces : SUBSET Pieces, ok : BOOLEAN, busy : BOOLEAN]
    BY <1>2, <1>6, <2>1
  <2> QED
    BY <1>1, <1>2, <1>4, <1>8, <2>1, <2>2, TakeFramed
<1>11. Nest'
  BY <1>1, <1>2, <1>3, <1>4 DEF Nest
<1>12. Covered'
  <2>1. ASSUME NEW k \in 1..accepted
        PROVE  /\ content[k].pieces \subseteq 1..batched
               /\ shot.busy /\ k <= shot.seq => content[k].pieces \subseteq shot.pieces \cup torn
    BY <1>1, <1>8 DEF Covered
  <2>2. c.pieces \subseteq 1..batched
    BY <1>1, <1>2, <1>4, <1>5 DEF Covered
  <2>3. ASSUME NEW j \in Shots(wire')
        PROVE  c.pieces \subseteq wire'[j].pieces \cup torn
    BY <1>1, <1>2, <1>4, <1>5 DEF Covered
  <2>4. ~(accepted' <= shot.seq)
    BY <1>2, <1>6
  <2>5. ASSUME NEW k \in DOMAIN content'
        PROVE  /\ content'[k].pieces \subseteq 1..batched
               /\ \A j \in Shots(wire') : content'[k].pieces \subseteq wire'[j].pieces \cup torn
               /\ shot.busy /\ k <= shot.seq => content'[k].pieces \subseteq shot.pieces \cup torn
    <3>1. CASE k \in 1..accepted
      BY <1>4, <1>8, <2>1, <3>1
    <3>2. CASE k = accepted'
      BY <1>8, <2>2, <2>3, <2>4, <3>2
    <3> QED
      BY <1>8, <1>9, <3>1, <3>2
  <2>6. UNCHANGED <<batched, torn, shot>>
    BY <1>2, <1>3
  <2> QED
    BY <1>4, <2>5, <2>6 DEF Covered
<1>13. OutputAccounted'
  <2>1. ChunksOf(wire) \subseteq ChunksOf(wire') \cup Frame.pieces
    BY <1>1, <1>2, ConsumeChunks
  <2>2. Recorded \cup Frame.pieces \subseteq Recorded'
    <3>1. accepted' \in DOMAIN content' /\ accepted' > cover'
      BY <1>2, <1>6, <1>8
    <3>2. Frame.pieces \subseteq Recorded'
      BY <1>5, <1>8, <3>1 DEF Recorded
    <3>3. \A k \in DOMAIN content : k \in DOMAIN content' /\ content'[k] = content[k]
      BY <1>2, <1>6, <1>8
    <3>4. Recorded \subseteq Recorded'
      BY <1>2, <3>3 DEF Recorded
    <3> QED
      BY <3>2, <3>4
  <2> QED
    BY <1>1, <1>2, <1>3, <2>1, <2>2 DEF OutputAccounted
<1>14. Due'
  <2>1. \A i \in Shots(wire) : i - 1 \in Shots(wire') /\ wire'[i - 1] = wire[i]
    BY <1>2, <1>4 DEF Shots
  <2> QED
    BY <1>1, <1>2, <1>3, <2>1 DEF Due
<1>15. Armed'
  BY <1>1, <1>3, Zenon DEF Armed
<1> QED
  BY <1>10, <1>11, <1>12, <1>13, <1>14, <1>15, Zenon DEF RecordInv

LEMMA TakeSnapshotKeeps ==
  ASSUME RecordInv, TakeSnapshot
  PROVE  RecordInv'
<1>1. Framed /\ Nest /\ Covered /\ OutputAccounted /\ Due /\ Armed /\ PtyTypeOK
  BY DEF RecordInv, Framed
<1>2. /\ Consume /\ Frame.kind = "snapshot" /\ Admitted /\ ~shot.busy
      /\ shot' = [busy |-> TRUE, seq |-> accepted, pieces |-> Frame.pieces, ok |-> Frame.ok]
      /\ UNCHANGED <<joined, accepted, cover, content, screen, unsaved, unshot>>
  BY DEF TakeSnapshot, logVars
<1>3. /\ UNCHANGED <<printed, batched, parsed, cleared, since, torn, batch, debounce, periodic,
                     socket, life, zeroed>>
  BY <1>2 DEF Consume, output, timers, process
<1>4. /\ wire' \in Seq(Frames) /\ Frame \in Frames /\ 1 \in DOMAIN wire /\ Frame = wire[1]
      /\ \A i \in Shots(wire) : i = 1 \/ (i - 1 \in Shots(wire') /\ wire'[i - 1] = wire[i])
      /\ \A i \in Shots(wire') : i + 1 \in Shots(wire) /\ wire'[i] = wire[i + 1] /\ 1 <= i + 1
      /\ \A i \in Shots(wire') :
           /\ screen.pieces \cup shot.pieces \subseteq wire'[i].pieces
           /\ wire'[i].pieces \subseteq 1..parsed
           /\ \A j \in Shots(wire') : i <= j => wire'[i].pieces \subseteq wire'[j].pieces
      /\ \A i \in DOMAIN wire' : wire'[i].kind = "chunk" =>
           /\ wire'[i].pieces \subseteq 1..batched
           /\ \A j \in Shots(wire') : i <= j => wire'[i].pieces \subseteq wire'[j].pieces \cup torn
      /\ \A k \in DOMAIN content : \A j \in Shots(wire') :
           content[k].pieces \subseteq wire'[j].pieces \cup torn
  BY <1>1, <1>2, ConsumeKeeps
<1>5. shot.pieces = {} /\ shot'.pieces = Frame.pieces
  BY <1>1, <1>2 DEF Nest
<1>5a. shot'.busy
  BY <1>2, Zenon
<1>6. 1 \in Shots(wire)
  BY <1>2, <1>4 DEF Shots
<1>7. Framed'
  <2>1. /\ content \in Seq([pieces : SUBSET Pieces, ok : BOOLEAN])
        /\ Len(content) = accepted /\ accepted \in Nat
    BY <1>1 DEF Framed, RecordTypeOK
  <2>2. accepted \in 0..accepted /\ Frame.pieces \in SUBSET Pieces /\ Frame.ok \in BOOLEAN
    BY <1>4, <2>1 DEF Frames
  <2>3. shot' \in [seq : 0..accepted, pieces : SUBSET Pieces, ok : BOOLEAN, busy : BOOLEAN]
    BY <1>2, <2>2
  <2>4. accepted' \in Nat /\ accepted <= accepted'
    BY <1>2, <2>1
  <2> QED
    BY <1>1, <1>2, <1>4, <2>1, <2>3, <2>4, TakeFramed
<1>8. Nest'
  <2>1. screen.pieces \subseteq Frame.pieces /\ Frame.pieces \subseteq 1..parsed
    BY <1>1, <1>4, <1>6 DEF Nest
  <2>2. ASSUME NEW i \in Shots(wire')
        PROVE  Frame.pieces \subseteq wire'[i].pieces
    BY <1>1, <1>4, <1>6 DEF Nest
  <2> QED
    BY <1>2, <1>3, <1>4, <1>5, <1>5a, <2>1, <2>2 DEF Nest
<1>9. Covered'
  <2>1. ASSUME NEW k \in DOMAIN content
        PROVE  content[k].pieces \subseteq Frame.pieces \cup torn /\ content[k].pieces \subseteq 1..batched
    BY <1>1, <1>4, <1>6 DEF Covered
  <2> QED
    BY <1>2, <1>3, <1>4, <1>5, <2>1 DEF Covered
<1>10. OutputAccounted'
  <2>1. ChunksOf(wire) \subseteq ChunksOf(wire')
    BY <1>1, <1>2, ConsumeChunks
  <2>2. Recorded' = Recorded
    BY <1>2 DEF Recorded
  <2> QED
    BY <1>1, <1>2, <1>3, <2>1, <2>2 DEF OutputAccounted
<1>11. Due'
  <2> SUFFICES ASSUME life = "running", ~unshot, since = 0, NEW p \in (1..batched) \ torn
               PROVE  \/ p \in screen.pieces \cup shot'.pieces
                      \/ \E i \in Shots(wire') : p \in wire'[i].pieces
    BY <1>2, <1>3 DEF Due
  <2>1. p \in screen.pieces \cup shot.pieces \/ \E i \in Shots(wire) : p \in wire[i].pieces
    BY <1>1 DEF Due
  <2>2. ASSUME NEW i \in Shots(wire), p \in wire[i].pieces
        PROVE  p \in Frame.pieces \/ \E j \in Shots(wire') : p \in wire'[j].pieces
    BY <1>4, <2>2
  <2> QED
    BY <1>5, <2>1, <2>2
<1>12. Armed'
  BY <1>1, <1>3, Zenon DEF Armed
<1> QED
  BY <1>7, <1>8, <1>9, <1>10, <1>11, <1>12, Zenon DEF RecordInv

\* The transaction of a snapshot.
LEMMA CommitKeeps ==
  ASSUME RecordInv, ShotCommits
  PROVE  RecordInv' /\ screen.pieces \subseteq screen'.pieces
<1>1. Framed /\ Nest /\ Covered /\ OutputAccounted /\ Due /\ Armed /\ PtyTypeOK
  BY DEF RecordInv, Framed
<1>2. /\ shot.busy /\ screen' = Chunk(shot.pieces, shot.ok) /\ shot' = NoShot
      /\ cover' = shot.seq /\ UNCHANGED <<accepted, ptyVars, joined, window, content, unsaved, unshot>>
  BY DEF ShotCommits, Cover
<1>3. UNCHANGED <<printed, batched, parsed, cleared, since, torn, batch, debounce, periodic,
                  socket, life, zeroed, wire>>
  BY <1>2 DEF ptyVars, output, timers, process
<1>4. /\ shot \in [seq : 0..accepted, pieces : SUBSET Pieces, ok : BOOLEAN, busy : BOOLEAN]
      /\ accepted \in Nat
  BY <1>1 DEF Framed
<1>5. screen'.pieces = shot.pieces /\ shot'.pieces = {} /\ shot'.seq = 0
      /\ screen.pieces \subseteq shot.pieces
  BY <1>1, <1>2 DEF Chunk, NoShot, Nest
<1>6. shot'.busy = FALSE
  BY <1>2 DEF NoShot
<1>7. Framed'
  <2>1. shot.pieces \in SUBSET Pieces /\ shot.ok \in BOOLEAN /\ shot.seq \in 0..accepted
    BY <1>4
  <2>2. screen' \in [pieces : SUBSET Pieces, ok : BOOLEAN]
    BY <1>2, <2>1 DEF Chunk
  <2>3. 0 \in 0..accepted /\ {} \in SUBSET Pieces
    BY <1>4
  <2>4. shot' \in [seq : 0..accepted, pieces : SUBSET Pieces, ok : BOOLEAN, busy : BOOLEAN]
    BY <1>2, <2>3 DEF NoShot
  <2>5. PtyTypeOK'
    BY <1>1, <1>3, Zenon DEF PtyTypeOK
  <2>6. /\ joined \in {"no", "asked", "yes"} /\ window \in 0..FrameLimit
        /\ content \in Seq([pieces : SUBSET Pieces, ok : BOOLEAN])
    BY <1>1 DEF Framed, RecordTypeOK
  <2>7. RecordTypeOK'
    BY <1>2, <2>1, <2>5, <2>6, Zenon DEF RecordTypeOK, PtyTypeOK
  <2>8. Len(content) = accepted /\ unsaved \subseteq 1..batched /\ unshot \in BOOLEAN
    BY <1>1 DEF Framed
  <2> QED
    BY <1>2, <1>3, <1>4, <2>2, <2>4, <2>5, <2>7, <2>8, Zenon DEF Framed
<1>8. Nest'
  BY <1>1, <1>3, <1>5, <1>6 DEF Nest
<1>9. Covered'
  BY <1>1, <1>2, <1>3, <1>6 DEF Covered
<1>10. OutputAccounted'
  <2>1. Recorded \subseteq Recorded' \cup torn
    <3>1. \A k \in DOMAIN content : k > cover' \/ content[k].pieces \subseteq shot.pieces \cup torn
      <4>1. DOMAIN content = 1..accepted /\ shot.seq \in Nat
        BY <1>1, <1>4 DEF Framed, RecordTypeOK
      <4>2. \A k \in DOMAIN content : k > shot.seq \/ k <= shot.seq
        BY <4>1
      <4> QED
        BY <1>1, <1>2, <4>2 DEF Covered
    <3> QED
      BY <1>2, <1>5, <3>1 DEF Recorded
  <2> QED
    BY <1>1, <1>2, <1>3, <2>1 DEF OutputAccounted
<1>11. Due'
  BY <1>1, <1>2, <1>3, <1>5 DEF Due
<1>12. Armed'
  BY <1>1, <1>3, Zenon DEF Armed
<1> QED
  BY <1>5, <1>7, <1>8, <1>9, <1>10, <1>11, <1>12, Zenon DEF RecordInv

\* The transaction fails; or nothing of the output is touched.
LEMMA QuietKeeps ==
  ASSUME RecordInv, ShotFails \/ Answered \/ Slide \/ OtherFrame
  PROVE  RecordInv'
<1>1. Framed /\ Nest /\ Covered /\ OutputAccounted /\ Due /\ Armed /\ PtyTypeOK
  BY DEF RecordInv, Framed
<1>2. /\ UNCHANGED <<ptyVars, logVars, content, screen, unsaved>>
      /\ UNCHANGED <<shot, unshot>> \/ (shot' = NoShot /\ unshot' = TRUE)
  BY DEF ShotFails, Answered, Slide, OtherFrame
<1>3. UNCHANGED <<printed, batched, parsed, cleared, since, torn, batch, debounce, periodic,
                  socket, life, zeroed, wire, accepted, cover>>
  BY <1>2 DEF ptyVars, logVars, output, timers, process
<1>4. UNCHANGED <<shot, unshot>> \/ (shot'.pieces = {} /\ shot'.busy = FALSE)
  BY <1>2 DEF NoShot
<1>5. (~unshot' => ~unshot /\ UNCHANGED shot) /\ unshot' \in BOOLEAN
  BY <1>1, <1>2, Zenon DEF Framed
<1>6. Framed'
  <2>1. /\ shot \in [seq : 0..accepted, pieces : SUBSET Pieces, ok : BOOLEAN, busy : BOOLEAN]
        /\ accepted \in Nat
    BY <1>1 DEF Framed
  <2>2. NoShot \in [seq : 0..accepted, pieces : SUBSET Pieces, ok : BOOLEAN, busy : BOOLEAN]
    <3>1. 0 \in 0..accepted /\ {} \in SUBSET Pieces
      BY <2>1
    <3> QED
      BY <3>1 DEF NoShot
  <2>3. shot' \in [seq : 0..accepted, pieces : SUBSET Pieces, ok : BOOLEAN, busy : BOOLEAN]
    BY <1>2, <2>1, <2>2
  <2>4. PtyTypeOK'
    BY <1>1, <1>3, Zenon DEF PtyTypeOK
  <2>5. window \in 0..FrameLimit
    BY <1>1 DEF Framed, RecordTypeOK
  <2>6. joined' \in {"no", "asked", "yes"} /\ window' \in 0..FrameLimit
    BY <1>1, <2>5, RecordingAssumption
       DEF ShotFails, Answered, Slide, OtherFrame, Admitted, Framed, RecordTypeOK
  <2>7. content \in Seq([pieces : SUBSET Pieces, ok : BOOLEAN]) /\ cover \in 0..accepted
    BY <1>1 DEF Framed, RecordTypeOK
  <2>8. RecordTypeOK'
    BY <1>2, <1>3, <2>4, <2>6, <2>7, Zenon DEF RecordTypeOK, PtyTypeOK
  <2>9. /\ Len(content) = accepted /\ screen \in [pieces : SUBSET Pieces, ok : BOOLEAN]
        /\ unsaved \subseteq 1..batched
    BY <1>1 DEF Framed
  <2> QED
    BY <1>2, <1>3, <1>5, <2>1, <2>3, <2>4, <2>8, <2>9, Zenon DEF Framed
<1>7. Nest'
  BY <1>1, <1>2, <1>3, <1>4 DEF Nest
<1>8. Covered'
  BY <1>1, <1>2, <1>3, <1>4 DEF Covered
<1>9. OutputAccounted'
  <2>1. Recorded' = Recorded
    BY <1>2, <1>3 DEF Recorded
  <2> QED
    BY <1>1, <1>2, <1>3, <2>1 DEF OutputAccounted
<1>10. Due'
  BY <1>1, <1>2, <1>3, <1>5 DEF Due
<1>11. Armed'
  BY <1>1, <1>3, Zenon DEF Armed
<1> QED
  BY <1>6, <1>7, <1>8, <1>9, <1>10, <1>11, Zenon DEF RecordInv

LEMMA StutterKeeps ==
  ASSUME RecordInv, UNCHANGED recordVars
  PROVE  RecordInv'
<1>1. UNCHANGED <<printed, batched, parsed, cleared, since, torn, batch, debounce, periodic,
                  socket, life, zeroed, wire, accepted, cover, joined, window, shot, content,
                  screen, unsaved, unshot>>
  BY DEF recordVars, ptyVars, logVars, relay, output, timers, process
<1>2. Recorded' = Recorded
  BY <1>1 DEF Recorded
<1>3. Framed'
  <2>1. PtyTypeOK'
    BY <1>1 DEF RecordInv, Framed, PtyTypeOK
  <2>2. RecordTypeOK'
    BY <1>1 DEF RecordInv, Framed, RecordTypeOK
  <2> QED
    BY <1>1, <2>1, <2>2 DEF RecordInv, Framed
<1>6. Armed'
  BY <1>1, Zenon DEF RecordInv, Armed
<1>4. OutputAccounted'
  BY <1>1, <1>2 DEF RecordInv, OutputAccounted
<1>5. Nest' /\ Covered' /\ Due'
  BY <1>1 DEF RecordInv, Nest, Covered, Due
<1> QED
  BY <1>3, <1>4, <1>5, <1>6 DEF RecordInv

LEMMA RecordInductive == RecordSpec => []RecordInv
<1>1. RecordInit => RecordInv
  <2> SUFFICES ASSUME RecordInit
               PROVE  RecordInv
    OBVIOUS
  <2>1. /\ printed = 0 /\ batched = 0 /\ parsed = 0 /\ since = 0 /\ wire = <<>> /\ torn = {}
        /\ socket = "connecting" /\ life = "running"
        /\ accepted = 0 /\ stored = {} /\ cover = 0 /\ content = <<>>
        /\ joined = "no" /\ window = 0 /\ unsaved = {}
    BY DEF RecordInit, PtyInit, LogInit
  <2>2. /\ cleared \in BOOLEAN /\ batch \in BOOLEAN /\ debounce \in BOOLEAN /\ periodic \in BOOLEAN
        /\ zeroed \in BOOLEAN /\ unshot \in BOOLEAN
    BY Zenon DEF RecordInit, PtyInit
  <2>3. /\ screen = [pieces |-> {}, ok |-> TRUE]
        /\ shot = [seq |-> 0, pieces |-> {}, ok |-> TRUE, busy |-> FALSE]
    BY DEF RecordInit, NoScreen, Chunk, NoShot
  <2>4. 0 \in 0..MaxOutput /\ 0 \in 0..0 /\ 0 \in Nat /\ 0 \in 0..FrameLimit /\ {} \subseteq 1..0
    BY PtyAssumption, RecordingAssumption
  <2>5. wire \in Seq(Frames) /\ content \in Seq([pieces : SUBSET Pieces, ok : BOOLEAN])
        /\ Len(content) = 0 /\ DOMAIN wire = {} /\ DOMAIN content = {}
    BY <2>1
  <2>6. PtyTypeOK
    BY <2>1, <2>2, <2>4, <2>5, Zenon DEF PtyTypeOK
  <2>7. RecordTypeOK
    BY <2>1, <2>4, <2>5, <2>6, Zenon DEF RecordTypeOK, PtyTypeOK
  <2>8. screen \in [pieces : SUBSET Pieces, ok : BOOLEAN]
        /\ shot \in [seq : 0..0, pieces : SUBSET Pieces, ok : BOOLEAN, busy : BOOLEAN]
    BY <2>3, <2>4
  <2>9. Framed
    BY <2>1, <2>2, <2>4, <2>5, <2>6, <2>7, <2>8, Zenon DEF Framed
  <2>10. Shots(wire) = {}
    BY <2>5 DEF Shots
  <2>11. Nest
    BY <2>3, <2>10 DEF Nest
  <2>12. Covered
    BY <2>5 DEF Covered
  <2>13. OutputAccounted /\ Due
    BY <2>1 DEF OutputAccounted, Due
  <2>14. Armed
    BY <2>1 DEF Armed
  <2> QED
    BY <2>9, <2>11, <2>12, <2>13, <2>14 DEF RecordInv
<1>2. RecordInv /\ [RecordNext]_recordVars => RecordInv'
  <2> SUFFICES ASSUME RecordInv, [RecordNext]_recordVars
               PROVE  RecordInv'
    OBVIOUS
  <2>1. CASE Cli
    <3>1. Framed /\ Nest /\ Covered /\ OutputAccounted /\ Due /\ Armed /\ PtyTypeOK /\ PtyNext
      BY <2>1 DEF RecordInv, Framed, Cli
    <3> QED
      BY <2>1, <3>1, CliFramed, CliKeeps, CliAccounts, CliDue, Rearms DEF RecordInv
  <2>2. CASE DropLimited \/ DropUnjoined \/ TakeSubscribe \/ TakeClose
    BY <2>2, PassesKeep DEF Passes
  <2>3. CASE ShotFails \/ Answered \/ Slide \/ OtherFrame
    BY <2>3, QuietKeeps
  <2> QED
    BY <2>1, <2>2, <2>3, TakeChunkKeeps, TakeSnapshotKeeps, CommitKeeps, StutterKeeps
       DEF RecordNext, Relay
<1> QED
  BY <1>1, <1>2, PTL DEF RecordSpec

(***************************************************************************)
(* What a recording keeps.                                                 *)
(***************************************************************************)

\* The buffer, the frames on their way, the socket at the relay and what is recorded
\* have their types, and no snapshot covers chunks that were never accepted.
THEOREM RecordTypeCorrect == RecordSpec => []RecordTypeOK
<1>1. RecordInv => RecordTypeOK
  BY DEF RecordInv, Framed
<1> QED
  BY <1>1, RecordInductive, PTL

\* No batch, no snapshot, no reconnection and no exit loses output.
THEOREM OutputKept == RecordSpec => []OutputAccounted
<1>1. RecordInv => OutputAccounted
  BY DEF RecordInv
<1> QED
  BY <1>1, RecordInductive, PTL

\* A chunk that was dropped comes back with a snapshot that is on its way or armed.
THEOREM DroppedComesBack == RecordSpec => []DroppedIsDue
<1>1. RecordInv => DroppedIsDue
  <2> SUFFICES ASSUME RecordInv, Headless, life = "running", ~zeroed, ~unshot
               PROVE  /\ \A p \in (unsaved \ torn) \ screen.pieces :
                           \/ since > 0
                           \/ p \in shot.pieces
                           \/ \E f \in Range(wire) : f.kind = "snapshot" /\ p \in f.pieces
                      /\ socket = "greeted" => periodic
    BY Zenon DEF DroppedIsDue
  <2>1. socket = "greeted" => periodic
    BY Zenon DEF RecordInv, Armed
  <2>2. ASSUME NEW p \in (unsaved \ torn) \ screen.pieces, ~(since > 0)
        PROVE  \/ p \in shot.pieces
               \/ \E f \in Range(wire) : f.kind = "snapshot" /\ p \in f.pieces
    <3>1. since = 0 /\ p \in (1..batched) \ torn
      BY <2>2 DEF RecordInv, Framed, PtyTypeOK
    <3>2. p \in shot.pieces \/ \E i \in Shots(wire) : p \in wire[i].pieces
      BY <2>2, <3>1 DEF RecordInv, Due
    <3>3. \A i \in Shots(wire) : wire[i] \in Range(wire) /\ wire[i].kind = "snapshot"
      BY DEF Shots, Range
    <3> QED
      BY <3>2, <3>3
  <2> QED
    BY <2>1, <2>2
<1> QED
  BY <1>1, RecordInductive, PTL

\* The stored screen never shows less than it did.
THEOREM ScreenOnlyGrows == RecordSpec => ScreenGrows
<1>1. RecordInv /\ [RecordNext]_recordVars => [screen.pieces \subseteq screen'.pieces]_recordVars
  <2> SUFFICES ASSUME RecordInv, RecordNext
               PROVE  screen.pieces \subseteq screen'.pieces
    OBVIOUS
  <2>1. CASE Cli
    BY <2>1 DEF Cli, CliLosses
  <2>2. CASE Relay
    BY <2>2 DEF Relay, DropLimited, DropUnjoined, TakeSubscribe, TakeChunk, TakeSnapshot, TakeClose, Dropped
  <2>3. CASE Answered \/ Slide \/ OtherFrame \/ ShotFails
    BY <2>3 DEF Answered, Slide, OtherFrame, ShotFails
  <2> QED
    BY <2>1, <2>2, <2>3, CommitKeeps DEF RecordNext
<1> QED
  BY <1>1, RecordInductive, PTL DEF RecordSpec, ScreenGrows

(***************************************************************************)
(* The page.                                                               *)
(***************************************************************************)

\* A set of numbers has a least one.
LEMMA LeastNumber ==
  ASSUME NEW S \in SUBSET Nat, S # {}
  PROVE  \E n \in S : \A m \in S : n <= m
<1> DEFINE Upto == {0..n : n \in S}
<1>1. Upto \subseteq FiniteSubsetsOf(Nat) /\ Upto # {}
  <2>1. ASSUME NEW n \in S
        PROVE  0..n \in FiniteSubsetsOf(Nat)
    <3>1. IsFiniteSet(0..n)
      BY FS_Interval
    <3> QED
      BY <3>1 DEF FiniteSubsetsOf
  <2> QED
    BY <2>1
<1>2. PICK A \in Upto : \A B \in Upto : <<B, A>> \notin StrictSubsetOrdering(Nat)
  <2> HIDE DEF Upto
  <2> QED
    BY <1>1, FS_StrictSubsetOrderingWellFounded, WFMin
<1>3. PICK n \in S : A = 0..n
  OBVIOUS
<1>4. ASSUME NEW m \in S, ~(n <= m)
      PROVE  FALSE
  <2>1. 0..m \subseteq 0..n /\ n \in 0..n /\ n \notin 0..m
    BY <1>4
  <2>2. <<0..m, A>> \in StrictSubsetOrdering(Nat)
    BY <1>3, <2>1 DEF StrictSubsetOrdering
  <2> QED
    BY <1>2, <2>2
<1> QED
  BY <1>4

\* What is in order, of a set of numbers.
LEMMA HasOrder ==
  ASSUME NEW S \in SUBSET Nat, IsFiniteSet(S)
  PROVE  \E s \in [1..Cardinality(S) -> S] : Increasing(s)
<1> DEFINE Ordered(T) == \E s \in [1..Cardinality(T) -> T] : Increasing(s)
           Sets == {T \in SUBSET Nat : IsFiniteSet(T)}
           Sizes == {n \in Nat : \E T \in Sets : Cardinality(T) = n /\ ~Ordered(T)}
<1>1. ASSUME Sizes # {}
      PROVE  FALSE
  <2>1. PICK n \in Sizes : \A m \in Sizes : n <= m
    BY <1>1, LeastNumber
  <2>2. PICK T \in Sets : Cardinality(T) = n /\ ~Ordered(T)
    OBVIOUS
  <2>3. T # {}
    <3> SUFFICES ASSUME T = {} PROVE FALSE
      OBVIOUS
    <3>1. Cardinality(T) = 0
      BY FS_EmptySet
    <3>2. <<>> \in [1..Cardinality(T) -> T] /\ Increasing(<<>>)
      BY <3>1 DEF Increasing
    <3> QED
      BY <2>2, <3>2
  <2>4. PICK first \in T : \A m \in T : first <= m
    BY <2>3, LeastNumber
  <2> DEFINE U == T \ {first}
  <2>5. /\ U \in Sets /\ U \subseteq T /\ n \in Nat
        /\ Cardinality(U) = n - 1 /\ Cardinality(U) \in Nat
    BY <2>2, FS_RemoveElement, FS_CardinalityType
  <2>6. \A u \in U : u \in Nat /\ first < u
    BY <2>4
  <2>7. Ordered(U)
    <3> HIDE DEF U, Ordered
    <3> SUFFICES ASSUME ~Ordered(U) PROVE FALSE
      OBVIOUS
    <3>1. n - 1 \in Sizes
      BY <2>5
    <3> QED
      BY <2>1, <2>5, <3>1
  <2> HIDE DEF U
  <2>8. PICK u \in [1..(n - 1) -> U] : Increasing(u)
    BY <2>5, <2>7
  <2> DEFINE s == [i \in 1..n |-> IF i = 1 THEN first ELSE u[i - 1]]
  <2>9. s \in [1..n -> T]
    <3> SUFFICES ASSUME NEW i \in 1..n PROVE (IF i = 1 THEN first ELSE u[i - 1]) \in T
      OBVIOUS
    <3>1. CASE i # 1
      <4>1. i - 1 \in 1..(n - 1)
        BY <2>5, <3>1
      <4> QED
        BY <2>5, <3>1, <4>1
    <3> QED
      BY <3>1
  <2>10. Increasing(s)
    <3> SUFFICES ASSUME NEW i \in 1..n, NEW j \in 1..n, i < j PROVE s[i] < s[j]
      BY DEF Increasing
    <3>1. j # 1 /\ j - 1 \in 1..(n - 1) /\ s[j] = u[j - 1]
      BY <2>5
    <3>2. CASE i = 1
      BY <2>6, <3>1, <3>2
    <3>3. CASE i # 1
      <4>1. i - 1 \in 1..(n - 1) /\ s[i] = u[i - 1] /\ i - 1 < j - 1
        BY <2>5, <3>3
      <4>2. u[i - 1] < u[j - 1]
        BY <2>8, <3>1, <4>1 DEF Increasing
      <4> QED
        BY <3>1, <4>1, <4>2
    <3> QED
      BY <3>2, <3>3
  <2> HIDE DEF s
  <2> QED
    BY <2>2, <2>9, <2>10
<1>2. S \in Sets /\ Cardinality(S) \in Nat
  BY FS_CardinalityType
<1> QED
  BY <1>1, <1>2

\* A set of numbers in order: from the least on, and none is left out.
LEMMA InOrderIs ==
  ASSUME NEW S \in SUBSET Nat, IsFiniteSet(S)
  PROVE  /\ Cardinality(S) \in Nat
         /\ InOrder(S) \in [1..Cardinality(S) -> S]
         /\ Increasing(InOrder(S))
         /\ \A x \in S : \E i \in 1..Cardinality(S) : InOrder(S)[i] = x
<1> DEFINE n == Cardinality(S)
           s == InOrder(S)
<1>1. n \in Nat
  BY FS_CardinalityType
<1>2. s \in [1..n -> S] /\ Increasing(s)
  <2>1. \E t \in [1..n -> S] : Increasing(t)
    BY HasOrder
  <2> QED
    BY <2>1, Zenon DEF InOrder
<1> HIDE DEF s
<1>3. s \in Injection(1..n, S)
  <2> SUFFICES ASSUME NEW i \in 1..n, NEW j \in 1..n, s[i] = s[j]
               PROVE  i = j
    BY <1>2 DEF Injection, IsInjective
  <2>1. s[i] \in Nat /\ s[j] \in Nat /\ DOMAIN s = 1..n
    BY <1>2
  <2>2. ~(s[i] < s[j]) /\ ~(s[j] < s[i])
    BY <2>1
  <2>3. ~(i < j) /\ ~(j < i)
    BY <1>2, <2>1, <2>2 DEF Increasing
  <2> QED
    BY <1>1, <2>3
<1>4. IsFiniteSet(1..n) /\ Cardinality(1..n) = n
  BY <1>1, FS_Interval
<1>5. s \in Surjection(1..n, S)
  BY <1>3, <1>4, FS_Injection
<1> QED
  BY <1>1, <1>2, <1>5 DEF Surjection, s

-----------------------------------------------------------------------------
(* Sequences of chunks.                                                    *)

Rises(s, lo, hi) == \A i, j \in lo..hi : i < j => s[i] < s[j]
Below(s, lo, t) == \A i \in lo..Len(s), j \in 1..Len(t) : s[i] < t[j]

Added(s, x) == Append(s, x)
Rest(s) == Tail(s)
Then(s, t) == s \o t

LEMMA InRange ==
  ASSUME NEW S, NEW s \in Seq(S)
  PROVE  /\ Len(s) \in Nat /\ Range(s) \subseteq S
         /\ \A i \in 1..Len(s) : s[i] \in S /\ s[i] \in Range(s)
         /\ \A x \in Range(s) : \E i \in 1..Len(s) : s[i] = x
<1>1. Len(s) \in Nat /\ DOMAIN s = 1..Len(s) /\ \A i \in 1..Len(s) : s[i] \in S
  BY LenProperties, ElementOfSeq
<1> QED
  BY <1>1, Zenon DEF Range

LEMMA AddedIs ==
  ASSUME NEW S, NEW s \in Seq(S), NEW x \in S
  PROVE  /\ Added(s, x) \in Seq(S) /\ Len(Added(s, x)) = Len(s) + 1
         /\ \A i \in 1..Len(s) : Added(s, x)[i] = s[i]
         /\ Added(s, x)[Len(s) + 1] = x
         /\ Range(Added(s, x)) = Range(s) \cup {x}
<1> DEFINE t == Added(s, x)
<1>1. /\ t \in Seq(S) /\ Len(t) = Len(s) + 1
      /\ \A i \in 1..Len(s) : t[i] = s[i]
      /\ t[Len(s) + 1] = x
  BY AppendProperties DEF Added
<1> HIDE DEF t
<1>2. Len(s) \in Nat /\ DOMAIN s = 1..Len(s) /\ DOMAIN t = 1..Len(t)
  BY <1>1, LenProperties
<1>3. /\ DOMAIN t = DOMAIN s \cup {Len(s) + 1}
      /\ \A i \in DOMAIN s : t[i] = s[i]
  <2>1. \A n \in Nat : 1..(n + 1) = 1..n \cup {n + 1}
    OBVIOUS
  <2> QED
    BY <1>1, <1>2, <2>1, Zenon
<1>4. Range(t) = Range(s) \cup {x}
  BY <1>1, <1>3, Zenon DEF Range
<1> QED
  BY <1>1, <1>4, Zenon DEF t

LEMMA RestIs ==
  ASSUME NEW S, NEW s \in Seq(S), s # <<>>
  PROVE  /\ Head(s) \in S /\ Head(s) = s[1] /\ Rest(s) \in Seq(S)
         /\ Len(s) \in Nat /\ Len(s) >= 1 /\ Len(Rest(s)) = Len(s) - 1
         /\ \A i \in 1..(Len(s) - 1) : Rest(s)[i] = s[i + 1]
         /\ Range(s) = Range(Rest(s)) \cup {Head(s)}
<1> DEFINE t == Rest(s)
<1>1. /\ Head(s) \in S /\ t \in Seq(S) /\ Len(t) = Len(s) - 1
      /\ \A i \in 1..Len(t) : t[i] = s[i + 1]
  BY HeadTailProperties DEF Rest
<1>2. Len(s) \in Nat /\ Len(s) >= 1 /\ Head(s) = s[1]
  BY EmptySeq, LenProperties
<1> HIDE DEF t
<1>3. DOMAIN s = 1..Len(s) /\ DOMAIN t = 1..(Len(s) - 1)
  BY <1>1, LenProperties, Zenon
<1>4. Range(s) = Range(t) \cup {Head(s)}
  <2>1. ASSUME NEW x \in Range(s) PROVE x \in Range(t) \cup {Head(s)}
    <3>1. PICK i \in 1..Len(s) : s[i] = x
      BY <1>3, Zenon DEF Range
    <3>2. CASE i = 1
      BY <1>2, <3>1, <3>2, Zenon
    <3>3. CASE i # 1
      <4>1. i - 1 \in 1..(Len(s) - 1) /\ (i - 1) + 1 = i
        BY <1>2, <3>3
      <4>2. t[i - 1] = s[(i - 1) + 1]
        BY <1>1, <4>1, Zenon
      <4> QED
        BY <1>3, <3>1, <4>1, <4>2, Zenon DEF Range
    <3> QED
      BY <3>2, <3>3
  <2>2. ASSUME NEW x \in Range(t) PROVE x \in Range(s)
    <3>1. PICK i \in 1..(Len(s) - 1) : t[i] = x
      BY <1>3, Zenon DEF Range
    <3>2. i + 1 \in 1..Len(s)
      BY <1>2
    <3>3. s[i + 1] = x
      BY <1>1, <3>1, Zenon
    <3> QED
      BY <1>3, <3>2, <3>3, Zenon DEF Range
  <2>3. Head(s) \in Range(s)
    <3>1. 1 \in 1..Len(s)
      BY <1>2
    <3> QED
      BY <1>2, <1>3, <3>1, Zenon DEF Range
  <2> QED
    BY <2>1, <2>2, <2>3, Zenon
<1> QED
  BY <1>1, <1>2, <1>4, Zenon DEF t

LEMMA ThenIs ==
  ASSUME NEW S, NEW s \in Seq(S), NEW t \in Seq(S)
  PROVE  /\ Then(s, t) \in Seq(S) /\ Len(Then(s, t)) = Len(s) + Len(t)
         /\ Len(s) \in Nat /\ Len(t) \in Nat
         /\ \A i \in 1..Len(s) : Then(s, t)[i] = s[i]
         /\ \A i \in 1..Len(t) : Then(s, t)[Len(s) + i] = t[i]
         /\ Range(Then(s, t)) = Range(s) \cup Range(t)
<1> DEFINE e == Then(s, t)
<1>1. Len(s) \in Nat /\ Len(t) \in Nat
  BY LenProperties
<1>2. /\ s \o t \in Seq(S) /\ Len(s \o t) = Len(s) + Len(t)
      /\ \A i \in 1..(Len(s) + Len(t)) :
           (s \o t)[i] = IF i <= Len(s) THEN s[i] ELSE t[i - Len(s)]
  BY ConcatProperties
<1>3. /\ e \in Seq(S) /\ Len(e) = Len(s) + Len(t)
      /\ \A i \in 1..Len(s) : e[i] = s[i]
      /\ \A i \in 1..Len(t) : e[Len(s) + i] = t[i]
  BY <1>1, <1>2 DEF Then
<1> HIDE DEF e
<1>4. DOMAIN s = 1..Len(s) /\ DOMAIN t = 1..Len(t) /\ DOMAIN e = 1..(Len(s) + Len(t))
  BY <1>3, LenProperties, Zenon
<1>5. Range(e) = Range(s) \cup Range(t)
  <2>1. ASSUME NEW x \in Range(e) PROVE x \in Range(s) \cup Range(t)
    <3>1. PICK i \in 1..(Len(s) + Len(t)) : e[i] = x
      BY <1>4, Zenon DEF Range
    <3>2. CASE i \in 1..Len(s)
      BY <1>3, <1>4, <3>1, <3>2, Zenon DEF Range
    <3>3. CASE i \notin 1..Len(s)
      <4>1. i - Len(s) \in 1..Len(t) /\ Len(s) + (i - Len(s)) = i
        BY <1>1, <3>3
      <4>2. e[Len(s) + (i - Len(s))] = t[i - Len(s)]
        BY <1>3, <4>1, Zenon
      <4> QED
        BY <1>4, <3>1, <4>1, <4>2, Zenon DEF Range
    <3> QED
      BY <3>2, <3>3
  <2>2. ASSUME NEW x \in Range(s) PROVE x \in Range(e)
    <3>1. PICK i \in 1..Len(s) : s[i] = x
      BY <1>4, Zenon DEF Range
    <3>2. i \in 1..(Len(s) + Len(t))
      BY <1>1
    <3> QED
      BY <1>3, <1>4, <3>1, <3>2, Zenon DEF Range
  <2>3. ASSUME NEW x \in Range(t) PROVE x \in Range(e)
    <3>1. PICK i \in 1..Len(t) : t[i] = x
      BY <1>4, Zenon DEF Range
    <3>2. Len(s) + i \in 1..(Len(s) + Len(t))
      BY <1>1
    <3> QED
      BY <1>3, <1>4, <3>1, <3>2, Zenon DEF Range
  <2> QED
    BY <2>1, <2>2, <2>3, Zenon
<1> QED
  BY <1>1, <1>3, <1>5, Zenon DEF e

LEMMA RangesOf ==
  /\ \A s \in Seq(Nat), x \in Nat : Range(Added(s, x)) = Range(s) \cup {x}
  /\ \A s \in Seq(Nat) : s # <<>> => Range(s) = Range(Rest(s)) \cup {Head(s)}
  /\ \A s, t \in Seq(Nat) : Range(Then(s, t)) = Range(s) \cup Range(t)
<1>1. ASSUME NEW s \in Seq(Nat), NEW x \in Nat
      PROVE  Range(Added(s, x)) = Range(s) \cup {x}
  BY AddedIs
<1>2. ASSUME NEW s \in Seq(Nat), s # <<>>
      PROVE  Range(s) = Range(Rest(s)) \cup {Head(s)}
  BY <1>2, RestIs
<1>3. ASSUME NEW s \in Seq(Nat), NEW t \in Seq(Nat)
      PROVE  Range(Then(s, t)) = Range(s) \cup Range(t)
  BY ThenIs
<1> QED
  BY <1>1, <1>2, <1>3, Zenon

LEMMA PartsOf ==
  /\ \A s, t \in Seq(Nat) : \A i \in 1..Len(s) : Then(s, t)[i] = s[i]
  /\ \A s \in Seq(Nat), x \in Nat : \A i \in 1..Len(s) : Added(s, x)[i] = s[i]
<1>1. ASSUME NEW s \in Seq(Nat), NEW t \in Seq(Nat)
      PROVE  \A i \in 1..Len(s) : Then(s, t)[i] = s[i]
  BY ThenIs
<1>2. ASSUME NEW s \in Seq(Nat), NEW x \in Nat
      PROVE  \A i \in 1..Len(s) : Added(s, x)[i] = s[i]
  BY AppendProperties DEF Added
<1> QED
  BY <1>1, <1>2, Zenon

LEMMA AddedRises ==
  ASSUME NEW s \in Seq(Nat), NEW x \in Nat, NEW lo \in Nat, lo >= 1, Rises(s, lo, Len(s)),
         \A i \in lo..Len(s) : s[i] < x
  PROVE  Rises(Added(s, x), lo, Len(Added(s, x)))
<1> DEFINE t == Added(s, x)
<1>1. /\ Len(s) \in Nat /\ Len(t) = Len(s) + 1
      /\ \A i \in 1..Len(s) : t[i] = s[i]
      /\ t[Len(s) + 1] = x
  BY AddedIs, LenProperties
<1> HIDE DEF t
<1> SUFFICES ASSUME NEW i \in lo..Len(t), NEW j \in lo..Len(t), i < j
             PROVE  t[i] < t[j]
  BY DEF Rises, t
<1>2. i \in 1..Len(s) /\ i \in lo..Len(s)
  BY <1>1
<1>3. CASE j \in lo..Len(s)
  <2>1. j \in 1..Len(s)
    BY <1>1, <1>3
  <2>2. s[i] < s[j]
    BY <1>2, <1>3, Zenon DEF Rises
  <2>3. t[i] = s[i] /\ t[j] = s[j]
    BY <1>1, <1>2, <2>1, Zenon
  <2> QED
    BY <2>2, <2>3, Zenon
<1>4. CASE j = Len(s) + 1
  <2>1. t[i] = s[i] /\ t[j] = x
    BY <1>1, <1>2, <1>4, Zenon
  <2> QED
    BY <1>2, <2>1, Zenon
<1> QED
  BY <1>1, <1>3, <1>4

LEMMA RestRises ==
  ASSUME NEW s \in Seq(Nat), s # <<>>, Rises(s, 1, Len(s))
  PROVE  /\ Rises(Rest(s), 1, Len(Rest(s)))
         /\ \A i \in 1..Len(Rest(s)) : Head(s) < Rest(s)[i]
<1> DEFINE t == Rest(s)
<1>1. /\ Len(s) \in Nat /\ Len(s) >= 1 /\ Len(t) = Len(s) - 1 /\ Head(s) = s[1]
      /\ \A i \in 1..(Len(s) - 1) : t[i] = s[i + 1]
  BY RestIs
<1> HIDE DEF t
<1>2. ASSUME NEW i \in 1..Len(t)
      PROVE  i \in 1..(Len(s) - 1) /\ i + 1 \in 1..Len(s) /\ 1 \in 1..Len(s) /\ 1 < i + 1
  BY <1>1
<1>3. ASSUME NEW i \in 1..Len(t), NEW j \in 1..Len(t), i < j
      PROVE  t[i] < t[j]
  <2>1. i + 1 < j + 1
    BY <1>3
  <2>2. s[i + 1] < s[j + 1]
    BY <1>2, <2>1, Zenon DEF Rises
  <2>3. t[i] = s[i + 1] /\ t[j] = s[j + 1]
    BY <1>1, <1>2, Zenon
  <2> QED
    BY <2>2, <2>3, Zenon
<1>4. ASSUME NEW i \in 1..Len(t)
      PROVE  Head(s) < t[i]
  <2>1. s[1] < s[i + 1]
    BY <1>2, Zenon DEF Rises
  <2>2. t[i] = s[i + 1]
    BY <1>1, <1>2, Zenon
  <2> QED
    BY <1>1, <2>1, <2>2, Zenon
<1> QED
  BY <1>3, <1>4, Zenon DEF Rises, t

LEMMA BelowAdded ==
  ASSUME NEW s, NEW lo, NEW t \in Seq(Nat), NEW x \in Nat, Below(s, lo, t),
         \A i \in lo..Len(s) : s[i] < x
  PROVE  Below(s, lo, Added(t, x))
<1> DEFINE u == Added(t, x)
<1>1. /\ Len(t) \in Nat /\ Len(u) = Len(t) + 1
      /\ \A i \in 1..Len(t) : u[i] = t[i]
      /\ u[Len(t) + 1] = x
  BY AddedIs, LenProperties
<1> HIDE DEF u
<1> SUFFICES ASSUME NEW i \in lo..Len(s), NEW j \in 1..Len(u)
             PROVE  s[i] < u[j]
  BY DEF Below, u
<1>2. CASE j \in 1..Len(t)
  BY <1>1, <1>2, Zenon DEF Below
<1>3. CASE j = Len(t) + 1
  BY <1>1, <1>3, Zenon
<1> QED
  BY <1>1, <1>2, <1>3

LEMMA AddedBelow ==
  ASSUME NEW s \in Seq(Nat), NEW lo \in Nat, lo >= 1, NEW u, NEW x \in Nat,
         Below(s, lo, u), \A i \in 1..Len(u) : x < u[i]
  PROVE  Below(Added(s, x), lo, u)
<1> DEFINE v == Added(s, x)
<1>1. /\ Len(s) \in Nat /\ Len(v) = Len(s) + 1
      /\ \A i \in 1..Len(s) : v[i] = s[i]
      /\ v[Len(s) + 1] = x
  BY AddedIs, LenProperties
<1> HIDE DEF v
<1> SUFFICES ASSUME NEW i \in lo..Len(v), NEW j \in 1..Len(u)
             PROVE  v[i] < u[j]
  BY DEF Below, v
<1>2. CASE i = Len(s) + 1
  BY <1>1, <1>2, Zenon
<1>3. CASE i # Len(s) + 1
  <2>1. i \in lo..Len(s) /\ i \in 1..Len(s)
    BY <1>1, <1>3
  <2> QED
    BY <1>1, <2>1, Zenon DEF Below
<1> QED
  BY <1>2, <1>3

\* The first of what waits is put behind what it is above.
LEMMA BelowMoved ==
  ASSUME NEW s \in Seq(Nat), NEW lo \in Nat, lo >= 1, NEW t \in Seq(Nat), t # <<>>,
         Rises(t, 1, Len(t)), Below(s, lo, t)
  PROVE  /\ Below(Added(s, Head(t)), lo, Rest(t)) /\ Below(s, lo, Rest(t))
         /\ \A i \in lo..Len(s) : s[i] < Head(t)
<1> DEFINE u == Rest(t)
           x == Head(t)
<1>1. /\ Len(t) \in Nat /\ Len(t) >= 1 /\ Len(u) = Len(t) - 1 /\ x = t[1] /\ x \in Nat
      /\ \A i \in 1..(Len(t) - 1) : u[i] = t[i + 1]
  BY RestIs
<1>2. \A i \in 1..Len(u) : x < u[i]
  BY RestRises
<1> HIDE DEF u, x
<1>3. ASSUME NEW i \in lo..Len(s)
      PROVE  s[i] < x
  <2>1. 1 \in 1..Len(t)
    BY <1>1
  <2> QED
    BY <1>1, <2>1, Zenon DEF Below
<1>4. ASSUME NEW i \in lo..Len(s), NEW j \in 1..Len(u)
      PROVE  s[i] < u[j]
  <2>1. j \in 1..(Len(t) - 1) /\ j + 1 \in 1..Len(t)
    BY <1>1
  <2>2. s[i] < t[j + 1]
    BY <2>1, Zenon DEF Below
  <2> QED
    BY <1>1, <2>1, <2>2, Zenon
<1>5. Below(s, lo, u)
  BY <1>4, Zenon DEF Below
<1>6. Below(Added(s, x), lo, u)
  BY <1>1, <1>2, <1>5, AddedBelow
<1> QED
  BY <1>3, <1>5, <1>6, Zenon DEF u, x

LEMMA ThenRises ==
  ASSUME NEW s \in Seq(Nat), NEW t \in Seq(Nat), Rises(s, 1, Len(s)), Rises(t, 1, Len(t))
  PROVE  /\ Rises(Then(s, t), 1, Len(s)) /\ Rises(Then(s, t), Len(s) + 1, Len(Then(s, t)))
         /\ Below(s, 1, t) => Rises(Then(s, t), 1, Len(Then(s, t)))
<1> DEFINE e == Then(s, t)
           n == Len(s)
           m == Len(t)
<1>1. /\ n \in Nat /\ m \in Nat /\ Len(e) = n + m
      /\ \A i \in 1..n : e[i] = s[i]
      /\ \A i \in 1..m : e[n + i] = t[i]
  <2>1. Len(s) \in Nat /\ Len(t) \in Nat /\ Len(Then(s, t)) = Len(s) + Len(t)
    BY ThenIs
  <2>2. \A i \in 1..Len(s) : Then(s, t)[i] = s[i]
    BY ThenIs
  <2>3. \A i \in 1..Len(t) : Then(s, t)[Len(s) + i] = t[i]
    BY ThenIs
  <2> QED
    BY <2>1, <2>2, <2>3, Zenon
<1>2. Rises(s, 1, n) /\ Rises(t, 1, m) /\ (Below(s, 1, t) => \A i \in 1..n, j \in 1..m : s[i] < t[j])
  BY DEF Below
<1> HIDE DEF e, n, m
<1>3. ASSUME NEW i \in (n + 1)..(n + m)
      PROVE  \E k \in 1..m : n + k = i /\ e[i] = t[k]
  <2>1. i - n \in 1..m /\ n + (i - n) = i
    BY <1>1
  <2> QED
    BY <1>1, <2>1, Zenon
<1>4. ASSUME NEW i \in 1..n, NEW j \in 1..n, i < j
      PROVE  e[i] < e[j]
  <2>1. s[i] < s[j]
    BY <1>2, <1>4, Zenon DEF Rises
  <2> QED
    BY <1>1, <2>1, Zenon
<1>5. ASSUME NEW i \in (n + 1)..(n + m), NEW j \in (n + 1)..(n + m), i < j
      PROVE  e[i] < e[j]
  <2>1. PICK k \in 1..m : n + k = i /\ e[i] = t[k]
    BY <1>3
  <2>2. PICK l \in 1..m : n + l = j /\ e[j] = t[l]
    BY <1>3
  <2>3. k < l
    <3>1. n + k < n + l
      BY <1>5, <2>1, <2>2, Zenon
    <3> QED
      BY <1>1, <3>1
  <2>4. t[k] < t[l]
    BY <1>2, <2>3, Zenon DEF Rises
  <2> QED
    BY <2>1, <2>2, <2>4, Zenon
<1>6. ASSUME Below(s, 1, t), NEW i \in 1..n, NEW j \in (n + 1)..(n + m)
      PROVE  e[i] < e[j]
  <2>1. PICK l \in 1..m : e[j] = t[l]
    BY <1>3
  <2>2. s[i] < t[l]
    BY <1>2, <1>6, Zenon
  <2> QED
    BY <1>1, <2>1, <2>2, Zenon
<1>7. \A i \in 1..(n + m) : i \in 1..n \/ i \in (n + 1)..(n + m)
  BY <1>1
<1>8. ASSUME NEW i \in (n + 1)..(n + m), NEW j \in 1..n
      PROVE  ~(i < j)
  BY <1>1
<1>9. Rises(e, 1, n) /\ Rises(e, n + 1, n + m)
  BY <1>4, <1>5, Zenon DEF Rises
<1>10. ASSUME Below(s, 1, t)
       PROVE  Rises(e, 1, n + m)
  BY <1>4, <1>5, <1>6, <1>7, <1>8, <1>10, Zenon DEF Rises
<1> QED
  BY <1>1, <1>9, <1>10, Zenon DEF e, n, m

-----------------------------------------------------------------------------
(* The page of chunks that is read.                                        *)

LEMMA NumbersBelow ==
  ASSUME NEW n \in Nat, NEW s \in Seq(1..n)
  PROVE  /\ s \in Seq(Nat) /\ Len(s) \in Nat
         /\ \A i \in 1..Len(s) : s[i] \in 1..n /\ s[i] \in Nat
<1>1. 1..n \subseteq Nat
  OBVIOUS
<1> QED
  BY <1>1, SeqMonotonic, InRange

\* The beginning of what rises.
LEMMA RisesFrom ==
  ASSUME NEW s, NEW t, NEW lo \in Nat, NEW hi \in Int, NEW k \in Int, NEW l \in Nat,
         Rises(s, lo, k), hi <= k, l >= lo, \A i \in l..hi : t[i] = s[i]
  PROVE  Rises(t, l, hi)
<1> SUFFICES ASSUME NEW i \in l..hi, NEW j \in l..hi, i < j
             PROVE  t[i] < t[j]
  BY DEF Rises
<1>1. i \in lo..k /\ j \in lo..k
  OBVIOUS
<1>2. s[i] < s[j]
  BY <1>1, Zenon DEF Rises
<1> QED
  BY <1>2, Zenon

\* The query gives the first rows after `after`, in order; all of them, if they are
\* fewer than a page, or else all up to the last that it gives.
LEMMA PageIs ==
  ASSUME NEW n \in Nat, stored \subseteq 1..n, after \in Nat
  PROVE  LET w == PageOf(Rows)
         IN  /\ w \in Seq(1..n) /\ w \in Seq(Nat) /\ Len(w) \in Nat
             /\ Rises(w, 1, Len(w))
             /\ \A i \in 1..Len(w) : w[i] \in stored /\ w[i] > after
             /\ \A x \in stored :
                  /\ x > after
                  /\ Len(w) < PageSize \/ (w # <<>> /\ x <= w[Len(w)])
                  => x \in Range(w)
<1> DEFINE S == {i \in stored : i > after}
           c == Cardinality(S)
           r == Rows
           k == IF c < PageSize THEN c ELSE PageSize
           w == PageOf(Rows)
<1>1. S \in SUBSET Nat /\ S \subseteq 1..n /\ S \subseteq stored /\ IsFiniteSet(S)
  <2>0. S \subseteq 1..n
    OBVIOUS
  <2> HIDE DEF S
  <2>1. IsFiniteSet(1..n) /\ S \subseteq 1..n
    BY <2>0, FS_Interval
  <2>2. IsFiniteSet(S)
    BY <2>1, FS_Subset
  <2>3. S \subseteq stored
    BY DEF S
  <2> QED
    BY <2>1, <2>2, <2>3
<1>2. /\ c \in Nat /\ r \in [1..c -> S] /\ Increasing(r)
      /\ \A x \in S : \E i \in 1..c : r[i] = x
  BY <1>1, InOrderIs DEF Rows
<1>3. \A x \in S : x \in stored /\ x > after /\ x \in 1..n
  BY <1>1
<1>4. \A x \in stored : x > after => x \in S
  OBVIOUS
<1> HIDE DEF S, c, r
<1>5. r \in Seq(S) /\ Len(r) = c
  BY <1>2
<1>6. k \in Nat /\ k <= c /\ PageSize \in Nat /\ PageSize >= 1
  BY <1>2, ViewingAssumption
<1>7. w = SubSeq(r, 1, k)
  BY <1>5 DEF PageOf, r
<1> HIDE DEF k, w
<1>8. \A i \in 1..c : r[i] \in S
  BY <1>2
<1>9. /\ w \in Seq(S) /\ Len(w) = k
      /\ \A i \in 1..k : w[i] = r[i]
  <2> DEFINE t == SubSeq(r, 1, k)
  <2>1. /\ t \in Seq(S) /\ Len(t) = IF 1 <= k THEN k - 1 + 1 ELSE 0
        /\ \A i \in 1..(k - 1 + 1) : t[i] = r[1 + i - 1]
    <3>1. \A i \in 1..k : r[i] \in S
      BY <1>2, <1>6, <1>8
    <3>2. 1 \in Int /\ k \in Int
      BY <1>6
    <3> QED
      BY <3>1, <3>2, SubSeqProperties
  <2> HIDE DEF t
  <2>2. Len(t) = k
    BY <1>6, <2>1
  <2>3. ASSUME NEW i \in 1..k PROVE t[i] = r[i]
    <3>1. i \in 1..(k - 1 + 1) /\ 1 + i - 1 = i
      BY <1>6
    <3> QED
      BY <2>1, <3>1, Zenon
  <2> QED
    BY <1>7, <2>1, <2>2, <2>3, Zenon DEF t
<1>10. w \in Seq(1..n)
  BY <1>1, <1>9, SeqMonotonic
<1>11. w \in Seq(Nat) /\ Len(w) \in Nat
  BY <1>10, NumbersBelow
<1>12. Rises(r, 1, c)
  BY <1>2, Zenon DEF Increasing, Rises
<1>13. Rises(w, 1, Len(w))
  <2>1. \A i \in 1..k : w[i] = r[i]
    BY <1>9
  <2>2. Rises(w, 1, k)
    BY <1>2, <1>6, <1>12, <2>1, RisesFrom
  <2> QED
    BY <1>9, <2>2, Zenon
<1>14. ASSUME NEW i \in 1..Len(w)
       PROVE  w[i] \in stored /\ w[i] > after
  <2>1. w[i] \in S
    BY <1>9, ElementOfSeq
  <2> QED
    BY <1>3, <2>1, Zenon
<1>15. ASSUME NEW x \in stored, x > after,
              Len(w) < PageSize \/ (w # <<>> /\ x <= w[Len(w)])
       PROVE  x \in Range(w)
  <2>1. PICK i \in 1..c : r[i] = x
    BY <1>2, <1>4, <1>15
  <2>2. CASE i <= k
    <3>1. i \in 1..k /\ i \in 1..Len(w) /\ w[i] = x
      BY <1>6, <1>9, <2>1, <2>2
    <3>2. w[i] \in Range(w)
      BY <1>9, <3>1, InRange
    <3> QED
      BY <3>1, <3>2, Zenon
  <2>3. CASE ~(i <= k)
    <3>1. ~(Len(w) < PageSize) /\ k = PageSize /\ k \in 1..c /\ k < i
      BY <1>2, <1>6, <1>9, <2>3 DEF k
    <3>2. k \in 1..Len(w) /\ w[k] = r[k]
      BY <1>6, <1>9, <3>1
    <3>3. r[k] < x
      BY <1>12, <2>1, <3>1, Zenon DEF Rises
    <3>4. x <= r[k]
      BY <1>9, <1>15, <3>1, <3>2, Zenon
    <3>5. r[k] \in Nat /\ x \in Nat
      BY <1>1, <1>8, <2>1, <3>1
    <3> QED
      BY <3>3, <3>4, <3>5
  <2> QED
    BY <2>2, <2>3
<1> QED
  BY <1>10, <1>11, <1>13, <1>14, <1>15, Zenon DEF w

-----------------------------------------------------------------------------
(* The invariant.                                                          *)

LogOK ==
  /\ phase = "open" /\ accepted \in Nat /\ stored \in SUBSET (1..accepted) /\ cover \in 0..accepted

Away == stage \in {"away", "loaded"} => line = "off"

Accounted ==
  /\ stage = "loaded" => 1..accepted \subseteq Range(published) \cup missed
  /\ stage \in {"replaying", "live"} =>
       (shownTo + 1)..accepted \subseteq Range(view) \cup Range(buffer) \cup Range(published) \cup missed

Held ==
  /\ Rises(published, 1, Len(published))
  /\ stage = "replaying" => Rises(buffer, 1, Len(buffer)) /\ Below(buffer, 1, published)
  /\ stage = "live" => buffer = <<>> /\ Below(view, replayed + 1, published)

Replay ==
  stage = "replaying" =>
    /\ replayed = 0 /\ ~failed
    /\ shownTo <= after
    /\ \A i \in 1..Len(view) : shownTo < view[i] /\ view[i] <= after
    /\ \A i \in firm : i <= after => i \in Range(view)

Firm == stage = "live" /\ ~failed => firm \subseteq Range(view)

Parted ==
  /\ Rises(view, 1, replayed) /\ Rises(view, replayed + 1, Len(view))
  /\ stage \in {"replaying", "live"} => \A i \in 1..replayed : shownTo < view[i]

ViewInv == LogOK /\ ViewTypeOK /\ Away /\ Accounted /\ Held /\ Replay /\ Firm /\ Parted

-----------------------------------------------------------------------------
(* It holds at the start, and every step keeps it.                         *)

LEMMA ViewStarts == ViewInit => ViewInv
<1> SUFFICES ASSUME ViewInit PROVE ViewInv
  OBVIOUS
<1>1. /\ phase = "open" /\ accepted = 0 /\ stored = {} /\ cover = 0 /\ published = <<>>
      /\ stage = "away" /\ line = "off" /\ meta = 0 /\ shownTo = 0 /\ after = 0
      /\ buffer = <<>> /\ view = <<>> /\ replayed = 0 /\ failed = FALSE
      /\ missed = {} /\ firm = {}
  BY DEF ViewInit, LogInit
<1>2. <<>> \in Seq(1..accepted) /\ Len(<<>>) = 0
  BY EmptySeq
<1>3. LogOK /\ ViewTypeOK
  <2>1. LogOK
    BY <1>1 DEF LogOK
  <2>2. 0 \in 0..accepted /\ 0 \in 0..Len(<<>>) /\ {} \subseteq 1..accepted
    BY <1>1, <1>2
  <2>3. ViewTypeOK
    BY <1>1, <1>2, <2>2, Zenon DEF ViewTypeOK
  <2> QED
    BY <2>1, <2>3
<1>4. Away /\ Accounted /\ Replay /\ Firm
  BY <1>1 DEF Away, Accounted, Replay, Firm
<1>5. Held
  BY <1>1, <1>2 DEF Held, Rises
<1>6. Parted
  BY <1>1, <1>2 DEF Parted, Rises
<1> QED
  BY <1>3, <1>4, <1>5, <1>6 DEF ViewInv

\* What the steps need of the types.
LEMMA ViewFacts ==
  ASSUME ViewInv
  PROVE  /\ LogOK /\ ViewTypeOK /\ Away /\ Accounted /\ Held /\ Replay /\ Firm /\ Parted
         /\ accepted \in Nat /\ 1..accepted \subseteq Nat
         /\ published \in Seq(Nat) /\ buffer \in Seq(Nat) /\ view \in Seq(Nat)
         /\ Len(published) \in Nat /\ Len(buffer) \in Nat /\ Len(view) \in Nat
         /\ \A i \in 1..Len(published) : published[i] \in 1..accepted
         /\ \A i \in 1..Len(buffer) : buffer[i] \in 1..accepted
         /\ \A i \in 1..Len(view) : view[i] \in 1..accepted
         /\ replayed \in Nat /\ replayed <= Len(view)
         /\ shownTo \in Nat /\ after \in Nat /\ after <= accepted /\ stored \subseteq 1..accepted
<1>1. accepted \in Nat /\ 1..accepted \subseteq Nat
  BY DEF ViewInv, LogOK
<1>2. published \in Seq(1..accepted) /\ buffer \in Seq(1..accepted) /\ view \in Seq(1..accepted)
  BY DEF ViewInv, ViewTypeOK
<1>3. /\ published \in Seq(Nat) /\ buffer \in Seq(Nat) /\ view \in Seq(Nat)
      /\ Len(published) \in Nat /\ Len(buffer) \in Nat /\ Len(view) \in Nat
      /\ \A i \in 1..Len(published) : published[i] \in 1..accepted
      /\ \A i \in 1..Len(buffer) : buffer[i] \in 1..accepted
      /\ \A i \in 1..Len(view) : view[i] \in 1..accepted
  BY <1>1, <1>2, NumbersBelow, Zenon
<1>4. replayed \in 0..Len(view) /\ shownTo \in 0..accepted /\ after \in 0..accepted
  BY DEF ViewInv, ViewTypeOK
<1>5. stored \subseteq 1..accepted
  BY DEF ViewInv, LogOK
<1>6. replayed \in Nat /\ replayed <= Len(view)
  <2>1. Len(view) \in Nat /\ replayed \in 0..Len(view)
    BY <1>3, <1>4, Zenon
  <2> QED
    BY <2>1
<1>7. shownTo \in Nat /\ after \in Nat /\ after <= accepted
  BY <1>1, <1>4
<1> QED
  BY <1>1, <1>3, <1>5, <1>6, <1>7, Zenon DEF ViewInv

LEMMA OutputKeeps == ViewInv /\ Output => ViewInv'
<1> SUFFICES ASSUME ViewInv, Output PROVE ViewInv'
  OBVIOUS
<1> DEFINE x == accepted + 1
<1>1. /\ accepted' = x /\ phase' = phase /\ stored' = stored /\ cover' = cover
      /\ published' = Added(published, x)
      /\ UNCHANGED <<stage, meta, shownTo, after, buffer, view, replayed, failed, firm, line, missed>>
  BY DEF Output, Accept, Added, page
<1>2. /\ LogOK /\ ViewTypeOK /\ Away /\ Accounted /\ Held /\ Replay /\ Firm /\ Parted
      /\ accepted \in Nat /\ 1..accepted \subseteq Nat
      /\ published \in Seq(Nat) /\ buffer \in Seq(Nat) /\ view \in Seq(Nat)
      /\ Len(published) \in Nat /\ Len(buffer) \in Nat /\ Len(view) \in Nat
      /\ \A i \in 1..Len(published) : published[i] \in 1..accepted
      /\ \A i \in 1..Len(buffer) : buffer[i] \in 1..accepted
      /\ \A i \in 1..Len(view) : view[i] \in 1..accepted
      /\ replayed \in Nat
  BY ViewFacts, Zenon
<1>3. x \in Nat /\ 1..accepted \subseteq 1..x /\ x \in 1..x /\ 1..x = 1..accepted \cup {x}
  BY <1>2
<1>4. LogOK'
  BY <1>1, <1>2, <1>3 DEF LogOK
<1>5. \A i \in 1..accepted : i < x
  BY <1>2
<1>6. ViewTypeOK'
  <2>1. /\ published \in Seq(1..x) /\ buffer \in Seq(1..x) /\ view \in Seq(1..x)
    BY <1>2, <1>3, SeqMonotonic DEF ViewTypeOK
  <2>2. Added(published, x) \in Seq(1..x)
    BY <1>3, <2>1, AddedIs
  <2>3. meta \in 0..x /\ shownTo \in 0..x /\ after \in 0..x
    BY <1>2 DEF ViewTypeOK
  <2>4. missed \subseteq 1..x
    BY <1>2, <1>3 DEF ViewTypeOK
  <2>5. /\ stage \in {"away", "loaded", "replaying", "live"}
        /\ line \in {"off", "asking", "joined", "closed"}
        /\ replayed \in 0..Len(view) /\ failed \in BOOLEAN /\ firm \subseteq stored
    BY <1>2 DEF ViewTypeOK
  <2> HIDE DEF x
  <2> QED
    BY <1>1, <2>1, <2>2, <2>3, <2>4, <2>5, Zenon DEF ViewTypeOK
<1> HIDE DEF x
<1>7. Range(published') = Range(published) \cup {x}
  <2>1. Range(Added(published, x)) = Range(published) \cup {x}
    <3>1. published \in Seq(Nat) /\ x \in Nat
      BY <1>2, <1>3, Zenon
    <3> QED
      BY <3>1, RangesOf, Zenon
  <2> QED
    BY <1>1, <2>1, Zenon
<1>8. Accounted'
  <2>1. (shownTo + 1)..x \subseteq (shownTo + 1)..accepted \cup {x}
    BY <1>2 DEF ViewTypeOK, x
  <2> QED
    BY <1>1, <1>2, <1>3, <1>7, <2>1, Zenon DEF Accounted
<1>9. Held'
  <2>1. Rises(published', 1, Len(published'))
    <3>1. \A i \in 1..Len(published) : published[i] < x
      BY <1>2, <1>5, Zenon
    <3>2. Rises(published, 1, Len(published))
      BY <1>2, Zenon DEF Held
    <3>3. Rises(Added(published, x), 1, Len(Added(published, x)))
      BY <1>2, <1>3, <3>1, <3>2, AddedRises
    <3> QED
      BY <1>1, <3>3, Zenon
  <2>2. ASSUME Below(buffer, 1, published) PROVE Below(buffer, 1, published')
    <3>1. \A i \in 1..Len(buffer) : buffer[i] < x
      BY <1>2, <1>5, Zenon
    <3>2. Below(buffer, 1, Added(published, x))
      BY <1>2, <1>3, <2>2, <3>1, BelowAdded
    <3> QED
      BY <1>1, <3>2, Zenon
  <2>3. ASSUME Below(view, replayed + 1, published) PROVE Below(view, replayed + 1, published')
    <3>1. \A i \in (replayed + 1)..Len(view) : i \in 1..Len(view)
      BY <1>2
    <3>2. \A i \in (replayed + 1)..Len(view) : view[i] < x
      BY <1>2, <1>5, <3>1, Zenon
    <3>3. Below(view, replayed + 1, Added(published, x))
      BY <1>2, <1>3, <2>3, <3>2, BelowAdded
    <3> QED
      BY <1>1, <3>3, Zenon
  <2> QED
    BY <1>1, <1>2, <2>1, <2>2, <2>3, Zenon DEF Held
<1>10. Away' /\ Replay' /\ Firm' /\ Parted'
  BY <1>1, <1>2, Zenon DEF Away, Replay, Firm, Parted
<1> QED
  BY <1>4, <1>6, <1>8, <1>9, <1>10, Zenon DEF ViewInv

LEMMA StoreKeeps == ViewInv /\ StoreOutput => ViewInv'
<1> SUFFICES ASSUME ViewInv, StoreOutput PROVE ViewInv'
  OBVIOUS
<1>1. /\ accepted' = accepted /\ phase' = phase /\ cover' = cover
      /\ UNCHANGED <<published, stage, meta, shownTo, after, buffer, view, replayed, failed,
                     firm, line, missed>>
  BY DEF StoreOutput, Store, page
<1>2. PICK S \in SUBSET (1..accepted) : stored' = stored \cup S
  BY DEF StoreOutput, Store
<1>3. LogOK /\ ViewTypeOK /\ Away /\ Accounted /\ Held /\ Replay /\ Firm /\ Parted
  BY DEF ViewInv
<1>4. LogOK'
  BY <1>1, <1>2, <1>3 DEF LogOK
<1>5. ViewTypeOK'
  BY <1>1, <1>2, <1>3, Zenon DEF ViewTypeOK
<1>6. Away' /\ Accounted' /\ Held' /\ Replay' /\ Firm' /\ Parted'
  BY <1>1, <1>3, Zenon DEF Away, Accounted, Held, Replay, Firm, Parted
<1> QED
  BY <1>4, <1>5, <1>6, Zenon DEF ViewInv

LEMMA CoverKeeps == ViewInv /\ CoverOutput => ViewInv'
<1> SUFFICES ASSUME ViewInv, CoverOutput PROVE ViewInv'
  OBVIOUS
<1>1. /\ accepted' = accepted /\ phase' = phase
      /\ cover' \in cover..accepted /\ stored' = stored \ (1..cover') /\ firm' = firm \ (1..cover')
      /\ UNCHANGED <<published, stage, meta, shownTo, after, buffer, view, replayed, failed,
                     line, missed>>
  BY DEF CoverOutput, Cover
<1>2. LogOK /\ ViewTypeOK /\ Away /\ Accounted /\ Held /\ Replay /\ Firm /\ Parted
  BY DEF ViewInv
<1>3. LogOK'
  BY <1>1, <1>2 DEF LogOK
<1>4. ViewTypeOK'
  <2>1. firm' \subseteq stored'
    BY <1>1, <1>2, Zenon DEF ViewTypeOK
  <2> QED
    BY <1>1, <1>2, <2>1, Zenon DEF ViewTypeOK
<1>5. Away' /\ Accounted' /\ Held' /\ Parted'
  BY <1>1, <1>2, Zenon DEF Away, Accounted, Held, Parted
<1>6. Replay' /\ Firm'
  <2>1. firm' \subseteq firm
    BY <1>1
  <2> QED
    BY <1>1, <1>2, <2>1, Zenon DEF Replay, Firm
<1> QED
  BY <1>3, <1>4, <1>5, <1>6, Zenon DEF ViewInv

\* The page is loaded, and left.
LEMMA LoadKeeps == ViewInv /\ Load => ViewInv'
<1> SUFFICES ASSUME ViewInv, Load PROVE ViewInv'
  OBVIOUS
<1>1. /\ stage = "away" /\ stage' = "loaded" /\ meta' = cover
      /\ missed' = {i \in 1..accepted : i \notin Range(published)}
      /\ UNCHANGED <<phase, accepted, stored, cover, published, shownTo, after, buffer, view,
                     replayed, failed, firm, line>>
  BY DEF Load, logVars
<1>2. LogOK /\ ViewTypeOK /\ Away /\ Accounted /\ Held /\ Replay /\ Firm /\ Parted
  BY DEF ViewInv
<1>3. LogOK'
  BY <1>1, <1>2, Zenon DEF LogOK
<1>4. ViewTypeOK'
  <2>1. meta' \in 0..accepted /\ missed' \subseteq 1..accepted
    BY <1>1, <1>2 DEF LogOK
  <2> QED
    BY <1>1, <1>2, <2>1, Zenon DEF ViewTypeOK
<1>5. Away' /\ Accounted' /\ Held' /\ Replay' /\ Firm' /\ Parted'
  <2>1. stage' \notin {"away", "replaying", "live"} /\ stage' = "loaded" /\ line = "off"
    BY <1>1, <1>2 DEF Away
  <2>2. 1..accepted \subseteq Range(published) \cup missed'
    BY <1>1
  <2> QED
    BY <1>1, <1>2, <2>1, <2>2 DEF Away, Accounted, Held, Replay, Firm, Parted
<1> QED
  BY <1>3, <1>4, <1>5, Zenon DEF ViewInv

LEMMA LeaveKeeps == ViewInv /\ Leave => ViewInv'
<1> SUFFICES ASSUME ViewInv, Leave PROVE ViewInv'
  OBVIOUS
<1>1. /\ stage' = "away" /\ line' = "off"
      /\ UNCHANGED <<phase, accepted, stored, cover, published, meta, shownTo, after, buffer, view,
                     replayed, failed, firm, missed>>
  BY DEF Leave, logVars
<1>2. LogOK /\ ViewTypeOK /\ Away /\ Accounted /\ Held /\ Replay /\ Firm /\ Parted
  BY DEF ViewInv
<1>3. LogOK' /\ ViewTypeOK'
  BY <1>1, <1>2, Zenon DEF LogOK, ViewTypeOK
<1>4. Away' /\ Accounted' /\ Held' /\ Replay' /\ Firm' /\ Parted'
  BY <1>1, <1>2 DEF Away, Accounted, Held, Replay, Firm, Parted
<1> QED
  BY <1>3, <1>4, Zenon DEF ViewInv

LEMMA StartKeeps ==
  ASSUME NEW isLive \in BOOLEAN
  PROVE  ViewInv /\ Start(isLive) => ViewInv'
<1> SUFFICES ASSUME ViewInv, Start(isLive) PROVE ViewInv'
  OBVIOUS
<1>1. /\ stage = "loaded" /\ stage' = "replaying" /\ line' \in {"asking", "off"}
      /\ buffer' = <<>> /\ view' = <<>> /\ replayed' = 0 /\ failed' = FALSE
      /\ UNCHANGED <<phase, accepted, stored, cover, published, meta, missed>>
  BY DEF Start, logVars
<1>2. PICK n \in {0, meta} : shownTo' = n /\ after' = n /\ firm' = stored \ (1..n)
  BY DEF Start
<1>3. /\ LogOK /\ ViewTypeOK /\ Away /\ Accounted /\ Held /\ Replay /\ Firm /\ Parted
      /\ accepted \in Nat
  BY ViewFacts, Zenon
<1>4. n \in 0..accepted /\ n \in Nat
  BY <1>3 DEF ViewTypeOK
<1>5. <<>> \in Seq(1..accepted) /\ Len(<<>>) = 0 /\ 0 \in 0..0
  BY EmptySeq
<1>6. LogOK'
  BY <1>1, <1>3, Zenon DEF LogOK
<1>7. ViewTypeOK'
  <2>1. firm' \subseteq stored
    BY <1>2
  <2>2. /\ published \in Seq(1..accepted) /\ meta \in 0..accepted /\ missed \subseteq 1..accepted
    BY <1>3 DEF ViewTypeOK
  <2> QED
    BY <1>1, <1>2, <1>4, <1>5, <2>1, <2>2 DEF ViewTypeOK
<1>8. Away' /\ Firm'
  BY <1>1 DEF Away, Firm
<1>9. Accounted'
  <2>1. (n + 1)..accepted \subseteq 1..accepted
    BY <1>4
  <2>2. (n + 1)..accepted \subseteq Range(published) \cup missed
    BY <1>1, <1>3, <2>1, Zenon DEF Accounted
  <2>3. stage' # "loaded"
    BY <1>1
  <2> QED
    BY <1>1, <1>2, <2>2, <2>3, Zenon DEF Accounted
<1>10. Held'
  BY <1>1, <1>3, <1>5 DEF Held, Rises, Below
<1>11. Replay'
  <2>1. n <= n /\ \A i \in firm' : ~(i <= n)
    <3>1. ASSUME NEW i \in firm', i <= n PROVE FALSE
      <4>1. i \in stored /\ i \notin 1..n
        BY <1>2
      <4>2. i \in 1..accepted
        BY <1>3, <4>1 DEF LogOK
      <4> QED
        BY <1>4, <3>1, <4>1, <4>2
    <3> QED
      BY <1>4, <3>1
  <2>2. \A i \in 1..Len(view') : FALSE
    BY <1>1, <1>5
  <2> QED
    BY <1>1, <1>2, <2>1, <2>2, Zenon DEF Replay
<1>12. Parted'
  BY <1>1, <1>5 DEF Parted, Rises
<1> QED
  BY <1>6, <1>7, <1>8, <1>9, <1>10, <1>11, <1>12, Zenon DEF ViewInv

LEMMA LineKeeps == ViewInv /\ (Joins \/ GivesUp \/ Breaks \/ ConnectsAgain) => ViewInv'
<1> SUFFICES ASSUME ViewInv, Joins \/ GivesUp \/ Breaks \/ ConnectsAgain PROVE ViewInv'
  OBVIOUS
<1>1. /\ line # "off" /\ line' \in {"off", "asking", "joined", "closed"}
      /\ UNCHANGED <<phase, accepted, stored, cover, published, stage, meta, shownTo, after, buffer,
                     view, replayed, failed, firm, missed>>
  BY DEF Joins, GivesUp, Breaks, ConnectsAgain, logVars, page
<1>2. LogOK /\ ViewTypeOK /\ Away /\ Accounted /\ Held /\ Replay /\ Firm /\ Parted
  BY DEF ViewInv
<1>3. LogOK' /\ ViewTypeOK'
  BY <1>1, <1>2, Zenon DEF LogOK, ViewTypeOK
<1>4. Away'
  BY <1>1, <1>2, Zenon DEF Away
<1>5. Accounted' /\ Held' /\ Replay' /\ Firm' /\ Parted'
  BY <1>1, <1>2, Zenon DEF Accounted, Held, Replay, Firm, Parted
<1> QED
  BY <1>3, <1>4, <1>5, Zenon DEF ViewInv

-----------------------------------------------------------------------------
(* The replay, and its end.                                                *)

LEMMA ThenBelow ==
  ASSUME NEW s \in Seq(Nat), NEW t \in Seq(Nat), NEW u, Below(t, 1, u)
  PROVE  Below(Then(s, t), Len(s) + 1, u)
<1> DEFINE e == Then(s, t)
           n == Len(s)
           m == Len(t)
<1>1. n \in Nat /\ m \in Nat /\ Len(e) = n + m
  BY ThenIs
<1>2. \A i \in 1..m : e[n + i] = t[i]
  BY ThenIs
<1>3. \A i \in 1..m, j \in 1..Len(u) : t[i] < u[j]
  BY Zenon DEF Below
<1> HIDE DEF e, n, m
<1> SUFFICES ASSUME NEW i \in (n + 1)..Len(e), NEW j \in 1..Len(u)
             PROVE  e[i] < u[j]
  BY DEF Below, e, n
<1>4. i - n \in 1..m /\ n + (i - n) = i
  BY <1>1
<1>5. e[i] = t[i - n]
  BY <1>2, <1>4, Zenon
<1> QED
  BY <1>3, <1>4, <1>5, Zenon

\* What a property that all elements of two sequences have says of both.
LEMMA ThenAbove ==
  ASSUME NEW s \in Seq(Nat), NEW t \in Seq(Nat), NEW x \in Nat,
         \A i \in 1..Len(s) : x < s[i], \A i \in 1..Len(t) : x < t[i]
  PROVE  \A i \in 1..Len(Then(s, t)) : x < Then(s, t)[i]
<1> DEFINE e == Then(s, t)
           n == Len(s)
           m == Len(t)
<1>1. n \in Nat /\ m \in Nat /\ Len(e) = n + m
  BY ThenIs
<1>2. \A i \in 1..n : e[i] = s[i]
  BY ThenIs
<1>3. \A i \in 1..m : e[n + i] = t[i]
  BY ThenIs
<1>4. (\A i \in 1..n : x < s[i]) /\ (\A i \in 1..m : x < t[i])
  OBVIOUS
<1> HIDE DEF e, n, m
<1> SUFFICES ASSUME NEW i \in 1..Len(e)
             PROVE  x < e[i]
  BY DEF e
<1>5. CASE i \in 1..n
  BY <1>2, <1>4, <1>5, Zenon
<1>6. CASE i \notin 1..n
  <2>1. i - n \in 1..m /\ n + (i - n) = i
    BY <1>1, <1>6
  <2>2. e[i] = t[i - n]
    BY <1>3, <2>1, Zenon
  <2> QED
    BY <1>4, <2>1, <2>2, Zenon
<1> QED
  BY <1>5, <1>6

\* The last page was written, or none could be read: the buffer is drained.
LEMMA GoesLive ==
  ASSUME ViewInv, stage = "replaying", NEW w \in Seq(1..accepted), GoLive(w),
         UNCHANGED <<logVars, published, meta, shownTo, firm, line, missed>>,
         after' \in 0..accepted, failed' \in BOOLEAN,
         Rises(w, 1, Len(w)), \A i \in 1..Len(w) : after < w[i],
         failed' \/ \A x \in firm : x > after => x \in Range(w)
  PROVE  ViewInv'
<1> DEFINE v == Then(view, w)
           e == Then(v, buffer)
<1>1. /\ stage' = "live" /\ buffer' = <<>> /\ view' = e /\ replayed' = Len(view) + Len(w)
      /\ UNCHANGED <<phase, accepted, stored, cover, published, meta, shownTo, firm, line, missed>>
  BY DEF GoLive, logVars, Then
<1>2. /\ LogOK /\ ViewTypeOK /\ Away /\ Accounted /\ Held /\ Replay /\ Firm /\ Parted
      /\ accepted \in Nat
      /\ published \in Seq(Nat) /\ buffer \in Seq(Nat) /\ view \in Seq(Nat)
      /\ Len(published) \in Nat /\ Len(buffer) \in Nat /\ Len(view) \in Nat
      /\ shownTo \in Nat /\ after \in Nat /\ stored \subseteq 1..accepted
  BY ViewFacts, Zenon
<1>3. w \in Seq(Nat) /\ Len(w) \in Nat
  BY <1>2, NumbersBelow
<1>4. /\ replayed = 0 /\ ~failed /\ shownTo <= after
      /\ \A i \in 1..Len(view) : shownTo < view[i] /\ view[i] <= after
      /\ \A i \in firm : i <= after => i \in Range(view)
  BY <1>2 DEF Replay
<1>5. /\ v \in Seq(Nat) /\ Len(v) = Len(view) + Len(w) /\ Len(v) \in Nat
  BY <1>2, <1>3, ThenIs
<1>6. Range(v) = Range(view) \cup Range(w)
  BY <1>2, <1>3, RangesOf, Zenon
<1>7. Rises(v, 1, Len(v))
  <2>1. Rises(view, 1, Len(view))
    BY <1>2, <1>4 DEF Parted
  <2>2. Below(view, 1, w)
    <3> SUFFICES ASSUME NEW i \in 1..Len(view), NEW j \in 1..Len(w)
                 PROVE  view[i] < w[j]
      BY DEF Below
    <3>1. view[i] <= after /\ after < w[j]
      BY <1>4, Zenon
    <3>2. view[i] \in Nat /\ w[j] \in Nat
      BY <1>2, <1>3, ElementOfSeq, Zenon
    <3> QED
      BY <1>2, <3>1, <3>2
  <2> QED
    BY <1>2, <1>3, <2>1, <2>2, ThenRises, Zenon
<1>8. \A i \in 1..Len(v) : shownTo < v[i]
  <2>1. \A i \in 1..Len(view) : shownTo < view[i]
    BY <1>4, Zenon
  <2>2. ASSUME NEW i \in 1..Len(w) PROVE shownTo < w[i]
    <3>1. after < w[i] /\ w[i] \in Nat
      BY <1>3, ElementOfSeq, Zenon
    <3> QED
      BY <1>2, <1>4, <3>1
  <2> QED
    BY <1>2, <1>3, <2>1, <2>2, ThenAbove, Zenon
<1>9. v \in Seq(1..accepted)
  <2>1. view \in Seq(1..accepted)
    BY <1>2 DEF ViewTypeOK
  <2> QED
    BY <2>1, ThenIs
<1> HIDE DEF v
<1>10. /\ e \in Seq(Nat) /\ Len(e) = Len(v) + Len(buffer) /\ Len(e) \in Nat
       /\ \A i \in 1..Len(v) : e[i] = v[i]
  <2>1. e \in Seq(Nat) /\ Len(e) = Len(v) + Len(buffer)
    BY <1>2, <1>5, ThenIs, Zenon
  <2>2. \A i \in 1..Len(v) : e[i] = v[i]
    BY <1>2, <1>5, PartsOf, Zenon
  <2> QED
    BY <1>2, <1>5, <2>1, <2>2
<1>11. Range(e) = Range(view) \cup Range(w) \cup Range(buffer)
  <2>1. Range(e) = Range(v) \cup Range(buffer)
    BY <1>2, <1>5, RangesOf, Zenon
  <2> QED
    BY <1>6, <2>1, Zenon
<1>12. Rises(e, 1, Len(v)) /\ Rises(e, Len(v) + 1, Len(e)) /\ Below(e, Len(v) + 1, published)
  <2>1. Rises(buffer, 1, Len(buffer)) /\ Below(buffer, 1, published)
    BY <1>2 DEF Held
  <2>2. Rises(e, 1, Len(v)) /\ Rises(e, Len(v) + 1, Len(e))
    BY <1>2, <1>5, <1>7, <2>1, ThenRises, Zenon
  <2>3. Below(e, Len(v) + 1, published)
    BY <1>2, <1>5, <2>1, ThenBelow, Zenon
  <2> QED
    BY <2>2, <2>3
<1>13. e \in Seq(1..accepted)
  <2>1. buffer \in Seq(1..accepted)
    BY <1>2 DEF ViewTypeOK
  <2> QED
    BY <1>9, <2>1, ThenIs
<1> HIDE DEF e
<1>14. LogOK' /\ Away'
  BY <1>1, <1>2, Zenon DEF LogOK, Away
<1>15. ViewTypeOK'
  <2>1. replayed' \in 0..Len(e)
    BY <1>1, <1>2, <1>3, <1>5, <1>10
  <2>2. <<>> \in Seq(1..accepted)
    BY EmptySeq
  <2> QED
    BY <1>1, <1>2, <1>13, <2>1, <2>2, Zenon DEF ViewTypeOK
<1>16. Accounted'
  <2>1. (shownTo + 1)..accepted \subseteq Range(view) \cup Range(buffer) \cup Range(published) \cup missed
    BY <1>2, Zenon DEF Accounted
  <2>2. (shownTo + 1)..accepted \subseteq Range(e) \cup Range(<<>>) \cup Range(published) \cup missed
    BY <1>11, <2>1, Zenon
  <2>3. stage' # "loaded"
    BY <1>1
  <2> QED
    BY <1>1, <2>2, <2>3, Zenon DEF Accounted
<1>17. Held'
  <2>1. stage' # "replaying" /\ replayed' = Len(v)
    BY <1>1, <1>5
  <2> QED
    BY <1>1, <1>2, <1>12, <2>1, Zenon DEF Held
<1>18. Replay'
  BY <1>1 DEF Replay
<1>19. Firm'
  <2> SUFFICES ASSUME ~failed', NEW x \in firm PROVE x \in Range(e)
    BY <1>1, Zenon DEF Firm
  <2>1. x \in 1..accepted
    BY <1>2 DEF ViewTypeOK
  <2>2. x <= after \/ x > after
    BY <1>2, <2>1
  <2> QED
    BY <1>4, <1>11, <2>2, Zenon
<1>20. Parted'
  <2>1. \A i \in 1..Len(v) : shownTo < e[i]
    BY <1>8, <1>10, Zenon
  <2>2. replayed' = Len(v)
    BY <1>1, <1>5
  <2> QED
    BY <1>1, <1>12, <2>1, <2>2, Zenon DEF Parted
<1> QED
  BY <1>14, <1>15, <1>16, <1>17, <1>18, <1>19, <1>20, Zenon DEF ViewInv

LEMMA FailKeeps == ViewInv /\ ReadFails => ViewInv'
<1> SUFFICES ASSUME ViewInv, ReadFails PROVE ViewInv'
  OBVIOUS
<1>1. /\ stage = "replaying" /\ GoLive(<<>>) /\ failed' = TRUE /\ after' = after
      /\ UNCHANGED <<logVars, published, meta, shownTo, firm, line, missed>>
  BY DEF ReadFails
<1>2. after \in 0..accepted
  BY DEF ViewInv, ViewTypeOK
<1>3. <<>> \in Seq(1..accepted) /\ Len(<<>>) = 0
  BY EmptySeq
<1>4. Rises(<<>>, 1, Len(<<>>)) /\ \A i \in 1..Len(<<>>) : after < <<>>[i]
  BY <1>3 DEF Rises
<1>5. after' \in 0..accepted /\ failed' \in BOOLEAN /\ failed'
  BY <1>1, <1>2
<1> DEFINE w == <<>>
<1>6. /\ w \in Seq(1..accepted) /\ GoLive(w) /\ Rises(w, 1, Len(w))
      /\ \A i \in 1..Len(w) : after < w[i]
  BY <1>1, <1>3, <1>4
<1> HIDE DEF w
<1> QED
  BY <1>1, <1>5, <1>6, GoesLive

LEMMA PageKeeps == ViewInv /\ ReadPage => ViewInv'
<1> SUFFICES ASSUME ViewInv, ReadPage PROVE ViewInv'
  OBVIOUS
<1> DEFINE w == PageOf(Rows)
<1>1. /\ stage = "replaying"
      /\ after' = IF w = <<>> THEN after ELSE w[Len(w)]
      /\ Len(w) < PageSize => GoLive(w)
      /\ ~(Len(w) < PageSize) => view' = Then(view, w) /\ UNCHANGED <<stage, buffer, replayed>>
      /\ UNCHANGED <<logVars, published, meta, shownTo, failed, firm, line, missed>>
  BY DEF ReadPage, Then
<1>2. /\ LogOK /\ ViewTypeOK /\ Away /\ Accounted /\ Held /\ Replay /\ Firm /\ Parted
      /\ accepted \in Nat
      /\ view \in Seq(Nat) /\ Len(view) \in Nat
      /\ shownTo \in Nat /\ after \in Nat /\ stored \subseteq 1..accepted
  BY ViewFacts, Zenon
<1>3. /\ w \in Seq(1..accepted) /\ w \in Seq(Nat) /\ Len(w) \in Nat
      /\ Rises(w, 1, Len(w))
      /\ \A i \in 1..Len(w) : w[i] \in stored /\ w[i] > after
      /\ \A x \in stored :
           /\ x > after
           /\ Len(w) < PageSize \/ (w # <<>> /\ x <= w[Len(w)])
           => x \in Range(w)
  BY <1>2, PageIs
<1> HIDE DEF w
<1>4. \A i \in 1..Len(w) : w[i] \in 1..accepted /\ after < w[i]
  <2>1. \A x \in 1..accepted : x > after => after < x
    BY <1>2
  <2> QED
    BY <1>2, <1>3, <2>1, Zenon
<1>5. w # <<>> => Len(w) \in 1..Len(w)
  BY <1>3, EmptySeq
<1>6. after' \in 0..accepted /\ after <= after'
  <2>1. CASE w = <<>>
    BY <1>1, <1>2, <2>1 DEF ViewTypeOK
  <2>2. CASE w # <<>>
    <3>1. after' \in 1..accepted /\ after < after'
      BY <1>1, <1>4, <1>5, <2>2, Zenon
    <3> QED
      BY <1>2, <3>1
  <2> QED
    BY <2>1, <2>2
<1>7. firm \subseteq stored /\ failed \in BOOLEAN
  BY <1>2 DEF ViewTypeOK
<1>8. CASE Len(w) < PageSize
  <2>1. GoLive(w) /\ failed' \in BOOLEAN
    BY <1>1, <1>7, <1>8
  <2>2. \A x \in firm : x > after => x \in Range(w)
    BY <1>3, <1>7, <1>8, Zenon
  <2>3. \A i \in 1..Len(w) : after < w[i]
    BY <1>4, Zenon
  <2>4. UNCHANGED <<logVars, published, meta, shownTo, firm, line, missed>>
    BY <1>1
  <2> QED
    BY <1>1, <1>3, <1>6, <2>1, <2>2, <2>3, <2>4, GoesLive, Zenon
<1>9. CASE ~(Len(w) < PageSize)
  <2> DEFINE v == Then(view, w)
  <2>1. /\ view' = v /\ stage' = "replaying"
        /\ UNCHANGED <<phase, accepted, stored, cover, published, meta, shownTo, buffer, replayed,
                       failed, firm, line, missed>>
    BY <1>1, <1>9 DEF logVars
  <2>2. w # <<>>
    <3>1. Len(w) >= 1
      BY <1>3, <1>9, ViewingAssumption
    <3> QED
      BY <3>1, EmptySeq
  <2>3. after' = w[Len(w)]
    BY <1>1, <2>2, Zenon
  <2>4. /\ replayed = 0 /\ ~failed /\ shownTo <= after
        /\ \A i \in 1..Len(view) : shownTo < view[i] /\ view[i] <= after
        /\ \A i \in firm : i <= after => i \in Range(view)
    BY <1>1, <1>2 DEF Replay
  <2>5. Range(v) = Range(view) \cup Range(w)
    BY <1>2, <1>3, RangesOf, Zenon
  <2>6. v \in Seq(1..accepted) /\ v \in Seq(Nat) /\ Len(v) \in Nat
    <3>1. view \in Seq(1..accepted)
      BY <1>2 DEF ViewTypeOK
    <3>2. v \in Seq(1..accepted)
      BY <1>3, <3>1, ThenIs
    <3> QED
      BY <1>2, <3>2, NumbersBelow
  <2>7. \A i \in 1..Len(view) : view[i] \in Nat
    BY <1>2, ElementOfSeq
  <2>8. Rises(v, 1, Len(v))
    <3>1. Rises(view, 1, Len(view))
      BY <1>2, <2>4 DEF Parted
    <3>2. Below(view, 1, w)
      <4> SUFFICES ASSUME NEW i \in 1..Len(view), NEW j \in 1..Len(w)
                   PROVE  view[i] < w[j]
        BY DEF Below
      <4>1. view[i] <= after /\ after < w[j] /\ view[i] \in Nat /\ w[j] \in 1..accepted
        BY <1>4, <2>4, <2>7, Zenon
      <4> QED
        BY <1>2, <4>1
    <3> QED
      BY <1>2, <1>3, <3>1, <3>2, ThenRises, Zenon
  <2>9. \A i \in 1..Len(v) : shownTo < v[i] /\ v[i] <= after'
    <3>1. ASSUME NEW i \in 1..Len(view) PROVE shownTo < view[i] /\ view[i] <= after'
      <4>1. shownTo < view[i] /\ view[i] <= after /\ view[i] \in Nat
        BY <2>4, <2>7, Zenon
      <4> QED
        BY <1>2, <1>6, <4>1
    <3>2. ASSUME NEW i \in 1..Len(w) PROVE shownTo < w[i] /\ w[i] <= after'
      <4>1. after < w[i] /\ w[i] \in 1..accepted
        BY <1>4, Zenon
      <4>2. i = Len(w) \/ i < Len(w)
        BY <1>3
      <4>3. i = Len(w) \/ w[i] < w[Len(w)]
        BY <1>3, <1>5, <2>2, <4>2, Zenon DEF Rises
      <4>4. w[i] = after' \/ w[i] < after'
        BY <2>3, <4>3, Zenon
      <4> QED
        BY <1>2, <1>6, <2>4, <4>1, <4>4
    <3>3. ASSUME NEW i \in 1..Len(v) PROVE shownTo < v[i] /\ v[i] <= after'
      <4>1. v[i] \in Range(v)
        BY <2>6, InRange
      <4>2. CASE v[i] \in Range(view)
        <5>1. PICK j \in 1..Len(view) : view[j] = v[i]
          BY <1>2, <4>2, InRange
        <5> QED
          BY <3>1, <5>1, Zenon
      <4>3. CASE v[i] \in Range(w)
        <5>1. PICK j \in 1..Len(w) : w[j] = v[i]
          BY <1>3, <4>3, InRange
        <5> QED
          BY <3>2, <5>1, Zenon
      <4> QED
        BY <2>5, <4>1, <4>2, <4>3, Zenon
    <3> QED
      BY <3>3, Zenon
  <2> HIDE DEF v
  <2>10. LogOK' /\ Away' /\ Firm'
    BY <2>1, <1>2 DEF LogOK, Away, Firm
  <2>11. ViewTypeOK'
    <3>1. replayed' \in 0..Len(v)
      BY <2>1, <2>4, <2>6
    <3> QED
      BY <1>2, <1>6, <2>1, <2>6, <3>1, Zenon DEF ViewTypeOK
  <2>12. Accounted'
    <3>1. (shownTo + 1)..accepted \subseteq Range(view) \cup Range(buffer) \cup Range(published) \cup missed
      BY <1>1, <1>2, Zenon DEF Accounted
    <3>2. (shownTo + 1)..accepted \subseteq Range(v) \cup Range(buffer) \cup Range(published) \cup missed
      BY <2>5, <3>1, Zenon
    <3>3. stage' # "loaded"
      BY <2>1
    <3> QED
      BY <2>1, <3>2, <3>3, Zenon DEF Accounted
  <2>13. Held'
    <3>1. stage' # "live" /\ stage = stage'
      BY <1>1, <2>1
    <3> QED
      BY <1>2, <2>1, <3>1, Zenon DEF Held
  <2>14. Replay'
    <3>1. shownTo <= after'
      BY <1>2, <1>6, <2>4
    <3>2. ASSUME NEW x \in firm, x <= after' PROVE x \in Range(v)
      <4>1. x \in stored /\ x \in 1..accepted
        BY <1>2, <1>7
      <4>2. x <= after \/ x > after
        BY <1>2, <4>1
      <4>3. x <= w[Len(w)]
        BY <2>3, <3>2, Zenon
      <4> QED
        BY <1>3, <2>2, <2>4, <2>5, <3>2, <4>1, <4>2, <4>3, Zenon
    <3> QED
      BY <2>1, <2>4, <2>9, <3>1, <3>2, Zenon DEF Replay
  <2>15. Parted'
    <3>1. Rises(v, 1, 0) /\ Rises(v, 0 + 1, Len(v))
      BY <2>8 DEF Rises
    <3>2. \A i \in 1..0 : FALSE
      OBVIOUS
    <3> QED
      BY <2>1, <2>4, <3>1, <3>2, Zenon DEF Parted
  <2> QED
    BY <2>10, <2>11, <2>12, <2>13, <2>14, <2>15, Zenon DEF ViewInv
<1> QED
  BY <1>8, <1>9

\* A chunk comes: it was missed, it is shown, or it is kept for the end of the replay.
LEMMA DeliverKeeps == ViewInv /\ Deliver => ViewInv'
<1> SUFFICES ASSUME ViewInv, Deliver PROVE ViewInv'
  OBVIOUS
<1> DEFINE h == Head(published)
           rest == Rest(published)
           shown == Added(view, h)
           kept == Added(buffer, h)
<1>1. /\ published # <<>> /\ published' = rest
      /\ UNCHANGED <<phase, accepted, stored, cover, stage, meta, shownTo, after, replayed, failed,
                     firm, line>>
  BY DEF Deliver, Rest, logVars
<1>2. /\ LogOK /\ ViewTypeOK /\ Away /\ Accounted /\ Held /\ Replay /\ Firm /\ Parted
      /\ accepted \in Nat /\ 1..accepted \subseteq Nat
      /\ published \in Seq(Nat) /\ buffer \in Seq(Nat) /\ view \in Seq(Nat)
      /\ Len(published) \in Nat /\ Len(buffer) \in Nat /\ Len(view) \in Nat
      /\ replayed \in Nat /\ replayed <= Len(view)
  BY ViewFacts, Zenon
<1>3. /\ \/ /\ line # "joined"
            /\ missed' = missed \cup {h} /\ UNCHANGED <<view, buffer>>
         \/ /\ line = "joined" /\ stage = "live"
            /\ view' = shown /\ UNCHANGED <<buffer, missed>>
         \/ /\ line = "joined" /\ stage # "live"
            /\ buffer' = kept /\ UNCHANGED <<view, missed>>
  BY DEF Deliver, Added
<1>4. h \in 1..accepted /\ h \in Nat /\ rest \in Seq(1..accepted) /\ rest \in Seq(Nat)
  <2>1. published \in Seq(1..accepted)
    BY <1>2 DEF ViewTypeOK
  <2>2. h \in 1..accepted /\ rest \in Seq(1..accepted)
    BY <1>1, <2>1, RestIs
  <2> QED
    BY <1>2, <2>2, NumbersBelow
<1>5. Range(published) = Range(rest) \cup {h}
  BY <1>1, <1>2, RangesOf, Zenon
<1>6. Rises(published, 1, Len(published)) /\ Rises(rest, 1, Len(rest))
  <2>1. Rises(published, 1, Len(published))
    BY <1>2 DEF Held
  <2> QED
    BY <1>1, <1>2, <2>1, RestRises, Zenon
<1>7. ASSUME Below(buffer, 1, published)
      PROVE  /\ Below(kept, 1, rest) /\ Below(buffer, 1, rest)
             /\ \A i \in 1..Len(buffer) : buffer[i] < h
  BY <1>1, <1>2, <1>6, <1>7, BelowMoved
<1>8. replayed + 1 \in Nat /\ replayed + 1 >= 1
  BY <1>2
<1>9. ASSUME Below(view, replayed + 1, published)
      PROVE  /\ Below(shown, replayed + 1, rest) /\ Below(view, replayed + 1, rest)
             /\ \A i \in (replayed + 1)..Len(view) : view[i] < h
  BY <1>1, <1>2, <1>6, <1>8, <1>9, BelowMoved, Zenon
<1>10. Range(shown) = Range(view) \cup {h} /\ Range(kept) = Range(buffer) \cup {h}
  BY <1>2, <1>4, RangesOf, Zenon
<1>11. /\ shown \in Seq(1..accepted) /\ Len(shown) = Len(view) + 1
       /\ kept \in Seq(1..accepted)
  <2>1. view \in Seq(1..accepted) /\ buffer \in Seq(1..accepted)
    BY <1>2 DEF ViewTypeOK
  <2> QED
    BY <1>4, <2>1, AddedIs
<1>12. \A i \in 1..Len(view) : shown[i] = view[i]
  BY <1>2, <1>4, PartsOf, Zenon
<1>13. Rises(buffer, 1, Len(buffer)) /\ (\A i \in 1..Len(buffer) : buffer[i] < h)
         => Rises(kept, 1, Len(kept))
  <2>1. 1 \in Nat /\ 1 >= 1
    OBVIOUS
  <2> QED
    BY <1>2, <1>4, <2>1, AddedRises, Zenon
<1>14. /\ Rises(view, replayed + 1, Len(view)) /\ (\A i \in (replayed + 1)..Len(view) : view[i] < h)
         => Rises(shown, replayed + 1, Len(shown))
  BY <1>2, <1>4, <1>8, AddedRises, Zenon
<1> HIDE DEF h, rest, shown, kept
<1>15. LogOK'
  BY <1>1, <1>2, Zenon DEF LogOK
<1>16. CASE line # "joined"
  <2>1. missed' = missed \cup {h} /\ view' = view /\ buffer' = buffer
    BY <1>3, <1>16
  <2>2. ViewTypeOK'
    <3>1. missed' \subseteq 1..accepted
      BY <1>2, <1>4, <2>1, Zenon DEF ViewTypeOK
    <3> QED
      BY <1>1, <1>2, <1>4, <2>1, <3>1, Zenon DEF ViewTypeOK
  <2>3. Away' /\ Replay' /\ Firm' /\ Parted'
    BY <1>1, <1>2, <2>1, Zenon DEF Away, Replay, Firm, Parted
  <2>4. Accounted'
    BY <1>1, <1>2, <1>5, <2>1, Zenon DEF Accounted
  <2>5. Held'
    BY <1>1, <1>2, <1>6, <1>7, <1>9, <2>1, Zenon DEF Held
  <2> QED
    BY <1>15, <2>2, <2>3, <2>4, <2>5, Zenon DEF ViewInv
<1>17. CASE line = "joined" /\ stage = "live"
  <2>1. view' = shown /\ buffer' = buffer /\ missed' = missed
    BY <1>3, <1>17
  <2>2. buffer = <<>> /\ Below(view, replayed + 1, published)
    BY <1>2, <1>17 DEF Held
  <2>3. Rises(view, 1, replayed) /\ Rises(view, replayed + 1, Len(view))
        /\ \A i \in 1..replayed : shownTo < view[i]
    BY <1>2, <1>17 DEF Parted
  <2>4. \A i \in 1..replayed : i \in 1..Len(view) /\ shown[i] = view[i]
    <3>1. \A i \in 1..replayed : i \in 1..Len(view)
      BY <1>2
    <3> QED
      BY <1>12, <3>1, Zenon
  <2>5. ViewTypeOK'
    <3>1. replayed \in 0..Len(shown)
      BY <1>2, <1>11
    <3> QED
      BY <1>1, <1>2, <1>4, <1>11, <2>1, <3>1, Zenon DEF ViewTypeOK
  <2>6. Away' /\ Replay'
    BY <1>1, <1>2, <1>17, <2>1 DEF Away, Replay
  <2>7. Accounted'
    <3>1. (shownTo + 1)..accepted \subseteq Range(view) \cup Range(buffer) \cup Range(published) \cup missed
      BY <1>2, <1>17, Zenon DEF Accounted
    <3>2. (shownTo + 1)..accepted \subseteq Range(shown) \cup Range(buffer) \cup Range(rest) \cup missed
      BY <1>5, <1>10, <3>1, Zenon
    <3>3. stage' # "loaded"
      BY <1>1, <1>17
    <3> QED
      BY <1>1, <2>1, <3>2, <3>3, Zenon DEF Accounted
  <2>8. Held'
    <3>1. stage' # "replaying"
      BY <1>1, <1>17
    <3> QED
      BY <1>1, <1>6, <1>9, <2>1, <2>2, <3>1, Zenon DEF Held
  <2>9. Firm'
    BY <1>1, <1>2, <1>10, <1>17, <2>1, Zenon DEF Firm
  <2>10. Parted'
    <3>1. Rises(shown, 1, replayed)
      <4>1. Rises(view, 1, replayed) /\ \A i \in 1..replayed : shown[i] = view[i]
        BY <2>3, <2>4, Zenon
      <4> QED
        BY <4>1, Zenon DEF Rises
    <3>2. Rises(shown, replayed + 1, Len(shown))
      BY <1>9, <1>14, <2>2, <2>3, Zenon
    <3>3. \A i \in 1..replayed : shownTo < shown[i]
      BY <2>3, <2>4, Zenon
    <3> QED
      BY <1>1, <2>1, <3>1, <3>2, <3>3, Zenon DEF Parted
  <2> QED
    BY <1>15, <2>5, <2>6, <2>7, <2>8, <2>9, <2>10, Zenon DEF ViewInv
<1>18. CASE line = "joined" /\ stage # "live"
  <2>1. view' = view /\ buffer' = kept /\ missed' = missed
    BY <1>3, <1>18
  <2>2. stage = "replaying"
    BY <1>2, <1>18 DEF Away, ViewTypeOK
  <2>3. Rises(buffer, 1, Len(buffer)) /\ Below(buffer, 1, published)
    BY <1>2, <2>2 DEF Held
  <2>4. ViewTypeOK'
    BY <1>1, <1>2, <1>4, <1>11, <2>1, Zenon DEF ViewTypeOK
  <2>5. Away' /\ Replay' /\ Firm' /\ Parted'
    BY <1>1, <1>2, <2>1, Zenon DEF Away, Replay, Firm, Parted
  <2>6. Accounted'
    <3>1. (shownTo + 1)..accepted \subseteq Range(view) \cup Range(buffer) \cup Range(published) \cup missed
      BY <1>2, <2>2, Zenon DEF Accounted
    <3>2. (shownTo + 1)..accepted \subseteq Range(view) \cup Range(kept) \cup Range(rest) \cup missed
      BY <1>5, <1>10, <3>1, Zenon
    <3>3. stage' # "loaded"
      BY <1>1, <2>2
    <3> QED
      BY <1>1, <2>1, <3>2, <3>3, Zenon DEF Accounted
  <2>7. Held'
    <3>1. stage' # "live"
      BY <1>1, <2>2
    <3> QED
      BY <1>1, <1>6, <1>7, <1>13, <2>1, <2>3, <3>1, Zenon DEF Held
  <2> QED
    BY <1>15, <2>4, <2>5, <2>6, <2>7, Zenon DEF ViewInv
<1> QED
  BY <1>3, <1>16, <1>17, <1>18

LEMMA ViewInductive == ViewSpec => []ViewInv
<1>1. ViewInv /\ [ViewNext]_viewVars => ViewInv'
  <2> SUFFICES ASSUME ViewInv, [ViewNext]_viewVars PROVE ViewInv'
    OBVIOUS
  <2>1. CASE UNCHANGED viewVars
    <3>1. UNCHANGED <<phase, accepted, stored, cover, published, stage, meta, shownTo, after, buffer,
                      view, replayed, failed, firm, line, missed>>
      BY <2>1 DEF viewVars, logVars, page
    <3>2. LogOK' /\ ViewTypeOK' /\ Away' /\ Accounted'
      BY <3>1, Zenon DEF ViewInv, LogOK, ViewTypeOK, Away, Accounted
    <3>3. Held' /\ Replay' /\ Firm' /\ Parted'
      BY <3>1, Zenon DEF ViewInv, Held, Replay, Firm, Parted
    <3> QED
      BY <3>2, <3>3, Zenon DEF ViewInv
  <2>2. CASE Output
    BY <2>2, OutputKeeps
  <2>3. CASE StoreOutput
    BY <2>3, StoreKeeps
  <2>4. CASE CoverOutput
    BY <2>4, CoverKeeps
  <2>5. CASE Load
    BY <2>5, LoadKeeps
  <2>6. CASE ReadPage
    BY <2>6, PageKeeps
  <2>7. CASE ReadFails
    BY <2>7, FailKeeps
  <2>8. CASE Leave
    BY <2>8, LeaveKeeps
  <2>9. CASE \E isLive \in BOOLEAN : Start(isLive)
    BY <2>9, StartKeeps
  <2>10. CASE Joins \/ GivesUp \/ Breaks \/ ConnectsAgain
    BY <2>10, LineKeeps
  <2>11. CASE Deliver
    BY <2>11, DeliverKeeps
  <2> QED
    BY <2>1, <2>2, <2>3, <2>4, <2>5, <2>6, <2>7, <2>8, <2>9, <2>10, <2>11 DEF ViewNext
<1> QED
  BY <1>1, ViewStarts, PTL DEF ViewSpec

\* What the page holds stays in its sets.
THEOREM ViewTypeCorrect == ViewSpec => []ViewTypeOK
<1>1. ViewInv => ViewTypeOK
  BY DEF ViewInv
<1> QED
  BY <1>1, ViewInductive, PTL

\* A live page shows every chunk but those on their way, those that came while it had
\* not joined, and those that the snapshot stands for; the replay leaves none out,
\* however many pages it takes.
THEOREM NothingSlipsBetween == ViewSpec => []ShownUnlessMissed
<1>1. ViewInv => ShownUnlessMissed
  <2> SUFFICES ASSUME ViewInv, stage = "live" PROVE ShownUnlessMissed
    BY DEF ShownUnlessMissed
  <2>1. /\ (shownTo + 1)..accepted \subseteq Range(view) \cup Range(buffer) \cup Range(published) \cup missed
        /\ buffer = <<>>
        /\ ~failed => firm \subseteq Range(view)
    BY DEF ViewInv, Accounted, Held, Firm
  <2>2. Range(<<>>) = {}
    BY DEF Range
  <2> QED
    BY <2>1, <2>2, Zenon DEF ShownUnlessMissed
<1> QED
  BY <1>1, ViewInductive, PTL

\* What is written is history in order, none of what the snapshot shows, and then live
\* output in order.
THEOREM HistoryComesFirst == ViewSpec => []NotInterleaved
<1>1. ViewInv => NotInterleaved
  <2> SUFFICES ASSUME ViewInv PROVE NotInterleaved
    OBVIOUS
  <2>1. /\ Parted /\ view \in Seq(Nat) /\ Len(view) \in Nat
        /\ \A i \in 1..Len(view) : view[i] \in 1..accepted
        /\ replayed \in Nat /\ replayed <= Len(view) /\ shownTo \in Nat /\ accepted \in Nat
    BY ViewFacts, Zenon
  <2>2. ASSUME NEW lo \in 1..(Len(view) + 1), NEW hi \in 0..Len(view), Rises(view, lo, hi)
        PROVE  Increasing(SubSeq(view, lo, hi))
    <3> DEFINE t == SubSeq(view, lo, hi)
    <3>1. \A i \in lo..hi : view[i] \in Nat
      <4>1. \A i \in lo..hi : i \in 1..Len(view)
        BY <2>1
      <4> QED
        BY <2>1, <4>1, ElementOfSeq, Zenon
    <3>2. lo \in Int /\ hi \in Int
      OBVIOUS
    <3>3. /\ t \in Seq(Nat) /\ Len(t) = IF lo <= hi THEN hi - lo + 1 ELSE 0
          /\ \A i \in 1..(hi - lo + 1) : t[i] = view[lo + i - 1]
      BY <3>1, <3>2, SubSeqProperties
    <3> HIDE DEF t
    <3>4. DOMAIN t = 1..Len(t)
      BY <3>3, LenProperties, Zenon
    <3> SUFFICES ASSUME NEW i \in 1..Len(t), NEW j \in 1..Len(t), i < j
                 PROVE  t[i] < t[j]
      BY <3>4, Zenon DEF Increasing, t
    <3>5. \A k \in 1..Len(t) : k \in 1..(hi - lo + 1) /\ lo + k - 1 \in lo..hi
      BY <3>3
    <3>6. lo + i - 1 < lo + j - 1
      OBVIOUS
    <3>7. view[lo + i - 1] < view[lo + j - 1]
      BY <2>2, <3>5, <3>6, Zenon DEF Rises
    <3> QED
      BY <3>3, <3>5, <3>7, Zenon
  <2>3. Increasing(SubSeq(view, 1, replayed))
    <3>1. 1 \in 1..(Len(view) + 1) /\ replayed \in 0..Len(view) /\ Rises(view, 1, replayed)
      BY <2>1 DEF Parted
    <3> QED
      BY <2>2, <3>1, Zenon
  <2>4. Increasing(SubSeq(view, replayed + 1, Len(view)))
    <3>1. /\ replayed + 1 \in 1..(Len(view) + 1) /\ Len(view) \in 0..Len(view)
          /\ Rises(view, replayed + 1, Len(view))
      BY <2>1 DEF Parted
    <3> QED
      BY <2>2, <3>1, Zenon
  <2>5. ASSUME stage \in {"replaying", "live"}, NEW i \in 1..replayed
        PROVE  view[i] > shownTo
    <3>1. i \in 1..Len(view) /\ view[i] \in 1..accepted
      BY <2>1
    <3>2. shownTo < view[i]
      BY <2>1, <2>5, Zenon DEF Parted
    <3> QED
      BY <2>1, <3>1, <3>2
  <2> QED
    BY <2>3, <2>4, <2>5, Zenon DEF NotInterleaved
<1> QED
  BY <1>1, ViewInductive, PTL

=============================================================================
