SPECIFICATION Spec
CONSTANTS
  Title = {t1, t2}
  upper = upper
  lower = lower
  blank = blank
  Tag = {upper, lower, blank}
  Normal <- MCNormal
  TagLists <- MCTagLists
  Priority = {low, high}
  User = {alice}
  Ghost = ghost
  Naive = naive
  None = none
  Times <- Instants
  InitialTasks <- CreatedTasks
INVARIANTS
  TypeOK
  CompletionDateMeansDone
  WorkHasStarted
  TimelineInOrder
PROPERTIES
  DoneIsFinal
  TerminalTakesNoWork
  FirstStartKept
CHECK_DEADLOCK FALSE
