SPECIFICATION Spec
CONSTANTS
  ann = ann
  ben = ben
  n1 = n1
  Name = {n1}
  Person = {ann, ben}
  Ghost = ghost
  Stamp = {}
  None = none
  Req = {r1, r2}
  Calls <- MCCalls
  PoolLimit = 1
  InitialProject <- MCProject
INVARIANT
  EmbeddingNeverBlocksCreation
CHECK_DEADLOCK FALSE
