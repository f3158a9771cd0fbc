SPECIFICATION FairSpec
CONSTANTS
  e1 = e1
  e2 = e2
  u1 = u1
  u2 = u2
  f1 = f1
  f2 = f2
  w1 = w1
  w2 = w2
  long = long
  Founder = founder
  FoundersRow <- MCFoundersRow
  Email = {e1, e2}
  Username = {u1, u2}
  FullName = {f1, f2}
  Word = {w1, w2}
  LongWord = {long}
  First72 <- MCFirst72
  None = none
  Req = {r1, r2, r3}
  Calls <- MCCalls
INVARIANTS
  TypeOK
  OneAccountPerKey
  NoTraceOfFailure
  NoFalseConflict
PROPERTIES
  UndisturbedChangeIsExact
  EveryRequestEnds
CHECK_DEADLOCK FALSE
