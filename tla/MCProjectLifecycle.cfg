SPECIFICATION Spec
CONSTANTS
  Name = {n1, n2}
  Person = {ann, ben, cat}
  Ghost = ghost
  Stamp = {s1, s2}
  None = none
  InitialProjects <- CreatedProjects
INVARIANTS
  TypeOK
  OwnerIsNoMember
PROPERTIES
  ArchivedForGood
  NobodyLeavesUnasked
