\* A spawn that began before a reconnect.
CONSTANTS
  Calls = {r1, r2}
  MaxSpawns = 2
  MaxActive = 1
SPECIFICATION Spec
INVARIANTS ReconnectionsAreTransparent
