SPECIFICATION Spec
CONSTANTS
  t1 = t1
  t2 = t2
  a = a
  b = b
  MaxRows = 3
  MaxEdits = 1
  Text = {t1, t2}
  Item = {a, b}
  Blank = blank
  None = none
  Distance <- MCDistance
  Instant = {1, 2}
  Births <- MCBirths
  Queries <- MCQueries
  Answers <- MCAnswers
INVARIANT EmbeddingFollowsText
CHECK_DEADLOCK FALSE
