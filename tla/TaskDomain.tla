----------------------------- MODULE TaskDomain -----------------------------
(***************************************************************************)
(* The Task entity (app/domain/models/task.py) as values and operators.    *)
(* A task is a record; a method is a pair of operators: the condition      *)
(* under which it does not raise, and the entity it leaves.  Every method  *)
(* reads the clock, so the time is a parameter.                            *)
(*                                                                         *)
(* `title' stands for title and description, which a member writes without *)
(* any domain check.  A list of tags is known by how often each occurs.    *)
(* Immutable columns (project, reporter, parent, created_at) are left out. *)
(***************************************************************************)
EXTENDS Naturals

CONSTANTS Title,     \* values of the unchecked text columns
          Tag,       \* texts of tags
          Normal,    \* strip().lower() of a text, None where nothing is left
          TagLists,  \* lists of tags a PATCH may bring, as they are
          Priority,  \* TaskPriority
          User,      \* ids of rows of the users table
          Ghost,     \* a well-formed user id that no row of users has
          Naive,     \* a due date sent without a time zone
          None       \* Python's None, SQL's NULL

ASSUME SentinelAssumption ==
  /\ Normal \in [Tag -> Tag \cup {None}]
  /\ TagLists \subseteq [Tag -> Nat]
  /\ None \notin Nat \cup Tag \cup TagLists \cup Title \cup Priority \cup User \cup {Ghost, Naive}
  /\ Naive \notin Nat
  /\ Ghost \notin User

Status == {"backlog", "todo", "in_progress", "in_review", "done", "cancelled"}

IsTerminal(s) == s \in {"done", "cancelled"}

Task == [title: Title, tags: [Tag -> Nat], status: Status, priority: Priority,
         assignee: User \cup {None, Ghost}, due: Nat \cup {None},
         started: Nat \cup {None}, completed: Nat \cup {None}, updated: Nat]

Column == {"title", "tags", "status", "priority", "assignee", "due",
           "started", "completed", "updated"}

(***************************************************************************)
(* Status transitions.                                                     *)
(***************************************************************************)
\* Faulty table: work may go to review without having been started.
TransitionSkipsWork ==
  {<<"backlog", "todo">>, <<"backlog", "cancelled">>,
   <<"todo", "in_progress">>, <<"todo", "in_review">>, <<"todo", "cancelled">>,
   <<"in_progress", "in_review">>, <<"in_progress", "todo">>,
   <<"in_review", "done">>, <<"in_review", "cancelled">>,
   <<"cancelled", "backlog">>}

\* Faulty table: a finished task can be put back into the backlog.
TransitionReopensDone ==
  {<<"backlog", "todo">>, <<"todo", "in_progress">>,
   <<"in_progress", "in_review">>, <<"in_review", "done">>,
   <<"done", "backlog">>, <<"cancelled", "backlog">>}

Transition ==
  {<<"backlog", "todo">>, <<"backlog", "cancelled">>,
   <<"todo", "in_progress">>, <<"todo", "backlog">>, <<"todo", "cancelled">>,
   <<"in_progress", "in_review">>, <<"in_progress", "todo">>,
   <<"in_progress", "cancelled">>,
   <<"in_review", "done">>, <<"in_review", "in_progress">>,
   <<"in_review", "cancelled">>,
   <<"cancelled", "backlog">>}

CanTransition(t, s) ==
  /\ IsTerminal(t.status) => s = "backlog"
  /\ <<t.status, s>> \in Transition

\* Faulty variants of Transitioned.
TransitionedStampsEveryEnd(t, s, now) ==
  [t EXCEPT !.status = s,
            !.started = IF s = "in_progress" /\ @ = None THEN now ELSE @,
            !.completed = IF IsTerminal(s) THEN now ELSE @,
            !.updated = now]

TransitionedWithoutTouch(t, s, now) ==
  [t EXCEPT !.status = s,
            !.started = IF s = "in_progress" /\ @ = None THEN now ELSE @,
            !.completed = IF s = "done" THEN now ELSE @]

TransitionedRestamps(t, s, now) ==
  [t EXCEPT !.status = s,
            !.started = IF s = "in_progress" THEN now ELSE @,
            !.completed = IF s = "done" THEN now ELSE @,
            !.updated = now]

\* started_at keeps the first start; only BACKLOG clears completed_at.
Transitioned(t, s, now) ==
  [t EXCEPT !.status = s,
            !.started = IF s = "in_progress" /\ @ = None THEN now ELSE @,
            !.completed = CASE s = "done" -> now
                            [] s = "backlog" -> None
                            [] OTHER -> @,
            !.updated = now]

\* start() takes a BACKLOG task through TODO in the same call.
ViaTodo(t, now) ==
  IF t.status = "backlog" THEN Transitioned(t, "todo", now) ELSE t

CanStart(t, now) == CanTransition(ViaTodo(t, now), "in_progress")

Started(t, now) == Transitioned(ViaTodo(t, now), "in_progress", now)

(***************************************************************************)
(* Assignment, priority and deadline.                                      *)
(***************************************************************************)
CanAssign(t) == ~IsTerminal(t.status)

Assigned(t, u, now) == [t EXCEPT !.assignee = u, !.updated = now]

\* unassign() does not look at the status.
CanUnassign(t) == t.assignee # None

CanChangePriority(t, p) == ~IsTerminal(t.status) /\ t.priority # p

\* Faulty variants: the terminal check, or the time zone check, is missing.
CanSetDueDateAnyStatus(t, d, now) == d # Naive /\ d > now

CanSetDueDateAnyZone(t, d, now) ==
  ~IsTerminal(t.status) /\ (d # Naive => d > now)

CanSetDueDate(t, d, now) == ~IsTerminal(t.status) /\ d # Naive /\ d > now

DueDateCleared(t, now) == [t EXCEPT !.due = None, !.updated = now]

(***************************************************************************)
(* Tags.  They are looked for in normal form, and added and removed in it; *)
(* lists that came in by a PATCH may hold others, and the same one twice.  *)
(* Neither method looks at the status.                                     *)
(***************************************************************************)
CanAddTag(t, x) == Normal[x] # None /\ t.tags[Normal[x]] = 0

TagAdded(t, x, now) == [t EXCEPT !.tags[Normal[x]] = 1, !.updated = now]

CanRemoveTag(t, x) == Normal[x] # None /\ t.tags[Normal[x]] > 0

TagRemoved(t, x, now) == [t EXCEPT !.tags[Normal[x]] = @ - 1, !.updated = now]

(***************************************************************************)
(* One PATCH of a task (TaskUpdate): None leaves a field alone.  The text  *)
(* and the tags are written without a check; a refused priority or         *)
(* deadline refuses the whole request.  A PATCH with no field touches      *)
(* nothing.                                                                *)
(***************************************************************************)
Patch == [title: Title \cup {None}, tags: TagLists \cup {None},
          priority: Priority \cup {None}, due: Nat \cup {Naive, None}]

Given(v, old) == IF v = None THEN old ELSE v

IsEmpty(p) ==
  p.title = None /\ p.tags = None /\ p.priority = None /\ p.due = None

CanPatch(t, p, now) ==
  /\ p.priority # None => CanChangePriority(t, p.priority)
  /\ p.due # None => CanSetDueDate(t, p.due, now)

Patched(t, p, now) ==
  [t EXCEPT !.title = Given(p.title, @),
            !.tags = Given(p.tags, @),
            !.priority = Given(p.priority, @),
            !.due = Given(p.due, @),
            !.updated = IF IsEmpty(p) THEN @ ELSE now]

(***************************************************************************)
(* The operations the API offers on an existing task, as values.           *)
(***************************************************************************)
Operation == [kind: {"transition"}, arg: Status]
        \cup [kind: {"assign"}, arg: User \cup {Ghost}]
        \cup [kind: {"unassign"}, arg: {None}]
        \cup [kind: {"patch"}, arg: Patch]

Accepts(op, t, now) ==
  \/ op.kind = "transition" /\ CanTransition(t, op.arg)
  \/ op.kind = "assign" /\ CanAssign(t)
  \/ op.kind = "unassign" /\ CanUnassign(t)
  \/ op.kind = "patch" /\ CanPatch(t, op.arg, now)

Effect(op, t, now) ==
  CASE op.kind = "transition" -> Transitioned(t, op.arg, now)
    [] op.kind = "patch" -> Patched(t, op.arg, now)
    [] OTHER -> Assigned(t, op.arg, now)

(***************************************************************************)
(* What the methods preserve, one task at a time.                          *)
(***************************************************************************)
CompletedIffDone(t) == t.completed # None <=> t.status = "done"

StartedWhenWorked(t) ==
  t.status \in {"in_progress", "in_review", "done"} => t.started # None

TimelineOrdered(t) ==
  /\ t.started # None => t.started <= t.updated
  /\ t.completed # None => t.completed <= t.updated
  /\ t.started # None /\ t.completed # None => t.started <= t.completed

Consistent(t) ==
  CompletedIffDone(t) /\ StartedWhenWorked(t) /\ TimelineOrdered(t)
=============================================================================
