SPECIFICATION Spec
CONSTANTS
  t1 = t1
  t2 = t2
  s1 = s1
  s2 = s2
  g1 = g1
  g2 = g2
  Threads <- MCThreads
  Servers <- MCServers
  Gates <- MCTwoGates
  Monitor = Monitor
  NoOwner = NoOwner
  NoServer = NoServer
  Impatient = FALSE
  WithMonitor = FALSE
  MaxDrops = 1
  MaxRestarts = 0
SYMMETRY Symmetry
INVARIANTS
  UnwantedIsCancelled
  DisconnectHitsConnected
  AdapterFreeToDial
PROPERTIES
  CancelHonoured
