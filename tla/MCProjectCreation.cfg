SPECIFICATION FairSpec
CONSTANTS
  n1 = n1
  n2 = n2
  odd = odd
  s1 = s1
  e = e
  Name = {n1, n2, odd}
  Slug = {s1, e}
  Sound = {s1}
  None = none
  SlugOf <- MCSlugOf
  Calls <- MCCalls
  Req = {r1, r2, r3}
INVARIANTS
  TypeOK
  OneProjectPerSlug
  AnswerTellsTheTruth
  TakenBeforeIsConflict
PROPERTIES
  EveryRequestEnds
CHECK_DEADLOCK FALSE
