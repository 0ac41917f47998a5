\* Three sockets for two connections and one machine.
CONSTANTS
  Sockets = {k1, k2, k3}
  Machines = {m1}
  MaxConnections = 2
  NoMachine = NoMachine
  NoSocket = NoSocket
SPECIFICATION FairSpec
INVARIANTS CountedOnce NoGhostClient OneDaemonPerMachine DaemonReachable
PROPERTIES GoneIsNoticed
