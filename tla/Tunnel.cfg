CONSTANTS
  Requests = {r1, r2}
  c1 = c1
  c2 = c2
  s1 = s1
  s2 = s2
  Clis = {c1, c2}
  Sessions = {s1, s2}
  Ports = {1, 2}
  Serves <- MCServes
  Forwarded <- MCForwarded
  Watched = s1
  CrossOrigin = TRUE
  MaxProbes = 2
  MaxCycles = 2
SPECIFICATION Spec
INVARIANTS AskedIsOwn DeletedNotForwarded PaneFollowsProbes
PROPERTIES OneReply
SYMMETRY Symmetry
CHECK_DEADLOCK FALSE
