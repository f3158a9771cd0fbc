SPECIFICATION FairSpec
CONSTANTS
  ann = ann
  ben = ben
  n1 = n1
  Name = {n1}
  Person = {ann, ben}
  Ghost = ghost
  None = none
  Req = {r1, r2, r3}
  Stamp = {r1, r2, r3}
  PoolLimit = 3
  Calls <- MCCalls
  InitialProjects <- MCProjects
INVARIANTS
  TypeOK
  OneRowPerMember
  NoTraceOfFailure
PROPERTIES
  FollowsTheDomain
  EveryRequestEnds
CHECK_DEADLOCK FALSE
