\* One session, two sockets: statements of different calls overlap.
CONSTANTS
  Sessions = {s1}
  Deletable = {s1}
  Sockets = {k1, k2}
  Frames = {"chunk", "snapshot", "ended"}
  FlushThreshold = 2
  MaxPending = 2
  MaxChunks = 2
  MaxInFlight = 2
SPECIFICATION Spec
SYMMETRY Symmetry
INVARIANTS LogComplete ReplayInOrder RetryIsIdempotent
PROPERTIES ImplementsLog StoredNeverOverwritten ShownForever
