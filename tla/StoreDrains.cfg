\* Two sessions that share the queue; the owner may delete one of them.
CONSTANTS
  Sessions = {s1, s2}
  Deletable = {s2}
  Sockets = {k1}
  Frames = {"chunk"}
  FlushThreshold = 1
  MaxPending = 1
  MaxChunks = 1
  MaxInFlight = 2
SPECIFICATION FairSpec
PROPERTIES QueueDrains
