-------------------------- MODULE MCTaskLifecycle --------------------------
EXTENDS TaskLifecycle

CONSTANTS upper, lower, blank

\* Two spellings of one tag and an empty one; a list with all of them, one with
\* a tag twice, and the empty list.
MCNormal == [x \in Tag |-> IF x = blank THEN None ELSE lower]

NoTags == [x \in Tag |-> 0]

MCTagLists == {NoTags, [x \in Tag |-> 1], [NoTags EXCEPT ![lower] = 2]}

\* A task as create_task stores it: in the backlog, never started, with or
\* without an assignee and a deadline.
CreatedTasks ==
  {t \in [title: Title, tags: {NoTags}, status: {"backlog"}, priority: Priority,
          assignee: User \cup {None}, due: {None, 3},
          started: {None}, completed: {None}, updated: {0}] : TRUE}

Instants == 1..7
=============================================================================
