SPECIFICATION FairSpec
CONSTANTS
  a = a
  b = b
  c = c
  Addresses <- MCAddresses
  Known <- MCUpToTwo
  New <- MCNew
  MaxSorts = 1
INVARIANTS
  TypeOK
  EveryServerTried
  LikelyDownComeLast
  ReportsAreEarned
  ReportedIsRecorded
PROPERTIES
  RefinesSweep
  AttemptReturns
