SPECIFICATION FairSpec
CONSTANTS
  t1 = t1
  t2 = t2
  s1 = s1
  s2 = s2
  g1 = g1
  g2 = g2
  Threads <- MCOneThread
  Servers <- MCOneServer
  Gates <- MCNoGates
  Monitor = Monitor
  NoOwner = NoOwner
  NoServer = NoServer
  Impatient = FALSE
  WithMonitor = TRUE
  MaxDrops = 1
  MaxRestarts = 1
INVARIANTS
  TypeOK
  AttemptsExclusive
  NeedServerJustified
  ButtonAgrees
PROPERTIES
  AttemptEnds
  LossIsRepaired
