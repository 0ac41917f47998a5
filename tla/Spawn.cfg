\* Two calls, as many as the user may have, and one session.
CONSTANTS
  Calls = {r1, r2}
  MaxSpawns = 2
  MaxActive = 1
SPECIFICATION FairSpec
INVARIANTS SlotsHeld ServedHasRun JoinedIsActive LimitKept
PROPERTIES EveryCallEnds
