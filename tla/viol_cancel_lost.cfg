SPECIFICATION Spec
CONSTANTS
  t1 = t1
  t2 = t2
  s1 = s1
  s2 = s2
  g1 = g1
  g2 = g2
  Threads <- MCThreads
  Servers <- MCServers
  Gates <- MCGates
  Monitor = Monitor
  NoOwner = NoOwner
  NoServer = NoServer
  Impatient = TRUE
  WithMonitor = FALSE
  MaxDrops = 0
  MaxRestarts = 0
SYMMETRY Symmetry
INVARIANTS
  UnwantedIsCancelled
