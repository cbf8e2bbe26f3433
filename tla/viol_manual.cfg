SPECIFICATION Spec
CONSTANTS
  a1 = a1
  a2 = a2
  b1 = b1
  b2 = b2
  Asyncs <- MCTwoAsync
  Blocking <- MCTwoBlocking
  NoOp = NoOp
  Nothing = Nothing
CHECK_DEADLOCK FALSE
INVARIANTS
  ReplyToInitiator
