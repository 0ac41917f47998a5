----------------------------- MODULE FrameCodec -----------------------------
(***************************************************************************)
(* The binary frames that CLI, relay and browser exchange (packages/utils/ *)
(* src/protocol/index.ts): magic, version and type, the id of the session  *)
(* and a payload, each behind its length in four bytes, big end first.     *)
(*                                                                         *)
(* A string is the sequence of its UTF-8 bytes.  A TextDecoder makes them  *)
(* a string again, but for a byte-order mark in front, which it drops;     *)
(* what is not UTF-8 becomes a character that no id may have.              *)
(***************************************************************************)
EXTENDS Integers, Sequences

CONSTANTS
  Base,      \* values of a byte (256)
  MaxId,     \* longest id that is taken (256)
  MaxCols, MaxRows,
  Letters,   \* A-Z a-z 0-9 _ -
  Mark,      \* the byte-order mark (EF BB BF)
  Ids, Payloads, Sizes  \* bounds: ids, payloads, columns or rows that are sent

Bytes == 0..(Base - 1)

\* The numbers of four bytes, 4 GB; the relay drops what is longer than 2 MB and
\* 512 bytes (ws.ts:359), so no session sends as much.
Word == Base * Base * Base * Base

ASSUME FrameAssumption ==
  /\ Base \in Nat \ {0, 1} /\ MaxId \in Nat
  /\ MaxCols \in 1..(Word - 1) /\ MaxRows \in 1..(Word - 1)
  /\ Letters \subseteq Bytes /\ Mark \in Seq(Bytes \ Letters) \ {<<>>}
  /\ Ids \subseteq Seq(Bytes) /\ Payloads \subseteq Seq(Bytes) /\ Sizes \subseteq Int
  /\ \A bytes \in Ids \cup Payloads : Len(bytes) < Word

VARIABLES
  sent,    \* the frame that was given to encodeFrame
  wire,    \* the bytes that arrive
  change,  \* what became of them: "whole", "cut" (the end is missing), "padded"
  size     \* the columns and rows a RESIZE was made for

frameVars == <<sent, wire, change, size>>

-----------------------------------------------------------------------------
(* The types, and what a frame of each type carries.                       *)

Code ==
  [SUBSCRIBE |-> 1, UNSUBSCRIBE |-> 2, ENCRYPTED_CHUNK |-> 3, ENCRYPTED_INPUT |-> 4,
   EVENT |-> 5, RESIZE |-> 6, PING |-> 7, PONG |-> 8, ERROR |-> 9, SESSION_ENDED |-> 10,
   HTTP_REQUEST |-> 11, HTTP_RESPONSE |-> 12, CLI_CONNECTED |-> 13,
   CLI_DISCONNECTED |-> 14, SNAPSHOT |-> 15, SPAWN_REQUEST |-> 16, SPAWN_RESPONSE |-> 17,
   HANDSHAKE_OK |-> 18]

Subscriptions == {"SUBSCRIBE", "UNSUBSCRIBE"}
Ciphertexts == {"ENCRYPTED_CHUNK", "ENCRYPTED_INPUT"}
KeepAlive == {"PING", "PONG"}
Tunnelled == {"HTTP_REQUEST", "HTTP_RESPONSE"}
Announcements == {"CLI_CONNECTED", "CLI_DISCONNECTED"}
Spawning == {"SPAWN_REQUEST", "SPAWN_RESPONSE"}

\* Frames without an id, and without a payload.
Global == KeepAlive \cup Spawning \cup {"HANDSHAKE_OK", "ERROR"}
Bare == Subscriptions \cup KeepAlive \cup Announcements \cup {"SESSION_ENDED", "HANDSHAKE_OK"}
Carrying == Ciphertexts \cup Tunnelled \cup Spawning \cup {"EVENT", "SNAPSHOT", "ERROR"}

Clamped(n, max) == IF n < 1 THEN 1 ELSE IF n > max THEN max ELSE n

\* setUint32: the digits of n to that base.
UInt32(n) ==
  LET second == n \div Base
      third  == second \div Base
      fourth == third \div Base
  IN  <<fourth % Base, third % Base, second % Base, n % Base>>

\* getUint32: the number in the four bytes behind the first `at`.
Number(bytes, at) ==
  ((bytes[at + 1] * Base + bytes[at + 2]) * Base + bytes[at + 3]) * Base + bytes[at + 4]

ResizePayload(cols, rows) == UInt32(Clamped(cols, MaxCols)) \o UInt32(Clamped(rows, MaxRows))

ParsedResize(payload) ==
  [cols |-> Clamped(Number(payload, 0), MaxCols), rows |-> Clamped(Number(payload, 4), MaxRows)]

-----------------------------------------------------------------------------
Magic == <<86, 67>>
Version == 1

\* encodeFrame checks nothing, and writes its own version.
Encoded(f) ==
  Magic \o <<Version, f.type>>
        \o UInt32(Len(f.sessionId)) \o f.sessionId
        \o UInt32(Len(f.payload)) \o f.payload

Marked(bytes) == Len(bytes) >= Len(Mark) /\ SubSeq(bytes, 1, Len(Mark)) = Mark

\* decoder.decode: the string, as its bytes.
Text(bytes) == IF Marked(bytes) THEN SubSeq(bytes, Len(Mark) + 1, Len(bytes)) ELSE bytes

IdLength(bytes) == Number(bytes, 4)
IdBytes(bytes) == SubSeq(bytes, 9, 8 + IdLength(bytes))
IdOf(bytes) == Text(IdBytes(bytes))
PayloadLength(bytes) == Number(bytes, 8 + IdLength(bytes))

\* Mutant: the end of the payload is not looked at.
AcceptsTruncated(bytes) ==
  /\ Len(bytes) >= 12
  /\ SubSeq(bytes, 1, 2) = Magic
  /\ IdLength(bytes) <= MaxId
  /\ 8 + IdLength(bytes) + 4 <= Len(bytes)
  /\ \A i \in DOMAIN IdOf(bytes) : IdOf(bytes)[i] \in Letters

\* decodeFrame throws in any other case.
Accepts(bytes) ==
  /\ Len(bytes) >= 12
  /\ SubSeq(bytes, 1, 2) = Magic
  /\ IdLength(bytes) <= MaxId
  /\ 8 + IdLength(bytes) + 4 <= Len(bytes)
  /\ \A i \in DOMAIN IdOf(bytes) : IdOf(bytes)[i] \in Letters
  /\ 12 + IdLength(bytes) + PayloadLength(bytes) <= Len(bytes)

\* Neither the version nor the type is looked at, nor what follows the payload.
Decoded(bytes) ==
  LET start == 12 + IdLength(bytes)
  IN  [version |-> bytes[3], type |-> bytes[4], sessionId |-> IdOf(bytes),
       payload |-> SubSeq(bytes, start + 1, start + PayloadLength(bytes))]

-----------------------------------------------------------------------------
FrameAs(type, id, payload) ==
  [version |-> Version, type |-> Code[type], sessionId |-> id, payload |-> payload]

NoSize == [cols |-> 0, rows |-> 0]

\* The frame creators.
Created ==
  {FrameAs(t, id, p) : t \in Carrying \ Global, id \in Ids, p \in Payloads}
  \cup {FrameAs(t, id, <<>>) : t \in Bare \ Global, id \in Ids}
  \cup {FrameAs(t, <<>>, p) : t \in Carrying \cap Global, p \in Payloads}
  \cup {FrameAs(t, <<>>, <<>>) : t \in Bare \cap Global}

FrameInit ==
  /\ \/ sent \in Created /\ size = NoSize
     \/ \E c, r \in Sizes, id \in Ids :
          /\ sent = FrameAs("RESIZE", id, ResizePayload(c, r))
          /\ size = [cols |-> c, rows |-> r]
  /\ wire = Encoded(sent)
  /\ change = "whole"

\* The last byte is missing; a byte follows the frame.
Cut ==
  /\ change # "padded" /\ wire # <<>>
  /\ wire' = SubSeq(wire, 1, Len(wire) - 1)
  /\ change' = "cut"
  /\ UNCHANGED <<sent, size>>

Pad ==
  /\ change = "whole"
  /\ \E b \in Bytes : wire' = Append(wire, b)
  /\ change' = "padded"
  /\ UNCHANGED <<sent, size>>

FrameNext == Cut \/ Pad

FrameSpec == FrameInit /\ [][FrameNext]_frameVars

-----------------------------------------------------------------------------
(* Properties.                                                             *)

FrameTypeOK ==
  /\ sent \in [version : {Version}, type : {Code[t] : t \in DOMAIN Code},
               sessionId : Seq(Bytes), payload : Seq(Bytes)]
  /\ change \in {"whole", "cut", "padded"}
  /\ size \in [cols : Int, rows : Int]

\* A frame is taken, whatever follows it, exactly when its id is one that a session may
\* have, with or without a byte-order mark in front; decodeFrame then gives back what
\* encodeFrame was given, but for that mark, and so always for the id of a session.  A
\* frame whose end is missing is refused at every length.  And who gets a RESIZE takes
\* the size that was asked for, or the nearest that a terminal may have, and it survives
\* being sent on.
FramesSurvive ==
  /\ IF change = "cut"
     THEN ~Accepts(wire)
     ELSE /\ Accepts(wire) <=>
               Text(sent.sessionId) \in Seq(Letters) /\ Len(sent.sessionId) <= MaxId
          /\ Accepts(wire) => Decoded(wire) = [sent EXCEPT !.sessionId = Text(@)]
          /\ Accepts(wire) /\ sent.sessionId \in Seq(Letters) => Decoded(wire) = sent
  /\ size # NoSize =>
       LET taken == ParsedResize(sent.payload)
       IN  /\ taken.cols \in 1..MaxCols /\ taken.rows \in 1..MaxRows
           /\ size.cols \in 1..MaxCols => taken.cols = size.cols
           /\ size.rows \in 1..MaxRows => taken.rows = size.rows
           /\ ResizePayload(taken.cols, taken.rows) = sent.payload

=============================================================================
