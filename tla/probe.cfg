SPECIFICATION FairSpec
CONSTANTS
  Checks = 4
  RoundMax = 3
  HangupMax = 2
  WaitMax = 15
  Nap = 3
INVARIANTS
  TypeOK
  NoUseAfterDelete
  StatusTruthful
PROPERTIES
  DialEnds
