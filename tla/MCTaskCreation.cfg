SPECIFICATION FairSpec
CONSTANTS
  ann = ann
  ben = ben
  n1 = n1
  Name = {n1}
  Person = {ann, ben}
  Ghost = ghost
  Stamp = {}
  None = none
  Req = {r1, r2}
  Calls <- MCCalls
  PoolLimit = 1
  InitialProject <- MCProject
INVARIANTS
  TypeOK
  AnswerTellsTheTruth
  AbsentOllamaIsNoError
PROPERTIES
  StoredUnderTheRules
  EveryRequestEnds
CHECK_DEADLOCK FALSE
