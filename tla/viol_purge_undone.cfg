SPECIFICATION Spec
CONSTANTS
  s1 = s1
  s2 = s2
  Servers <- MCServers
  AccountServers <- MCAccount
  Gates <- MCGates
  NoServer = NoServer
  Contains <- MCDistinct
INVARIANTS
  PurgedStaysForgotten
