SPECIFICATION Spec
CONSTANTS
  ann = ann
  ben = ben
  n1 = n1
  Name = {n1}
  Person = {ann, ben}
  Ghost = ghost
  None = none
  Req = {r1, r2}
  Stamp = {r1, r2}
  PoolLimit = 2
  Calls <- MCCalls
  InitialProjects <- MCProjects
PROPERTIES
  MembersReconciled
CHECK_DEADLOCK FALSE
