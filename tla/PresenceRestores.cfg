CONSTANTS
  Clis = {c1}
  Browsers = {}
  MaxWrites = 1
  MaxTimers = 1
SPECIFICATION Spec
INVARIANTS BackIsRunning
