SPECIFICATION FairSpec
CONSTANTS
  r1 = r1
  r2 = r2
  Requests <- MCTwo
  NoReceiver = NoReceiver
  Other = Other
  Looks = 2
  MaxOther = 1
INVARIANTS
  TypeOK
  OneReceiver
  CancelIsMeant
PROPERTIES
  ReplyKept
  EveryRequestEnds
  ButtonsComeBack
