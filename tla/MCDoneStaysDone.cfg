SPECIFICATION Spec
CONSTANTS
  alice = alice
  bob = bob
  low = low
  high = high
  t1 = t1
  t2 = t2
  Tag = {g1}
  Normal <- MCNormal
  TagLists <- MCTagLists
  Title = {t1, t2}
  Priority = {low, high}
  User = {alice, bob}
  Owner = alice
  Ghost = ghost
  Naive = naive
  None = none
  Req = {r1, r2}
  PoolLimit = 2
  Calls <- MCCalls
  Times <- MCTimes
  InitialTasks <- MCTasks
PROPERTIES
  DoneStaysDone
CHECK_DEADLOCK FALSE
