\* One socket that closes and connects again, no failure, and no output before
\* initSessionSeq is over: a sequence number is used twice.
CONSTANTS
  Sessions = {s1}
  Deletable = {}
  Sockets = {k1}
  Frames = {"chunk"}
  FlushThreshold = 2
  MaxPending = 10
  MaxChunks = 2
  MaxInFlight = 2
SPECIFICATION ReconnectSpec
PROPERTIES EverySessionSaved
