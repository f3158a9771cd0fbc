--------------------------- MODULE TaskLifecycle ---------------------------
(***************************************************************************)
(* The life of one task when its operations happen one at a time: what the *)
(* domain model promises, and the abstract specification that TaskRequests *)
(* is compared with.  Every operation happens at a later instant than the  *)
(* last one; `Times' bounds the instants a run uses.                       *)
(***************************************************************************)
EXTENDS TaskDomain

CONSTANTS Times,        \* instants at which an operation may happen
          InitialTasks  \* tasks as TaskService.create_task stores them, or later

ASSUME TimesAssumption == Times \subseteq Nat \ {0}
ASSUME InitialAssumption == \A t \in InitialTasks : t \in Task /\ Consistent(t)

VARIABLE task

Init == task \in InitialTasks

TransitionStatus(s, now) ==
  /\ CanTransition(task, s)
  /\ task' = Transitioned(task, s, now)

Start(now) ==
  /\ CanStart(task, now)
  /\ task' = Started(task, now)

Reopen(now) ==
  /\ task.status = "cancelled"
  /\ task' = Transitioned(task, "backlog", now)

AssignTo(u, now) ==
  /\ CanAssign(task)
  /\ task' = Assigned(task, u, now)

Unassign(now) ==
  /\ CanUnassign(task)
  /\ task' = Assigned(task, None, now)

UpdateTask(p, now) ==
  /\ CanPatch(task, p, now)
  /\ task' = Patched(task, p, now)

ClearDueDate(now) == task' = DueDateCleared(task, now)

AddTag(x, now) ==
  /\ CanAddTag(task, x)
  /\ task' = TagAdded(task, x, now)

RemoveTag(x, now) ==
  /\ CanRemoveTag(task, x)
  /\ task' = TagRemoved(task, x, now)

Deadline == Times \cup {Naive}

Next ==
  \E now \in Times :
    /\ now > task.updated
    /\ \/ \E s \in Status : TransitionStatus(s, now)
       \/ Start(now)
       \/ Reopen(now)
       \/ \E u \in User : AssignTo(u, now)
       \/ Unassign(now)
       \/ \E x \in Title \cup {None}, g \in TagLists \cup {None},
             p \in Priority \cup {None}, d \in Deadline \cup {None} :
            UpdateTask([title |-> x, tags |-> g, priority |-> p, due |-> d], now)
       \/ ClearDueDate(now)
       \/ \E x \in Tag : AddTag(x, now) \/ RemoveTag(x, now)

Spec == Init /\ [][Next]_task
-----------------------------------------------------------------------------
\* Every field holds a value of its column's type.
TypeOK == task \in Task

\* completed_at is set exactly while the task is DONE: cancelling, reopening
\* and moving back never leave a completion date on an unfinished task
\* (task.py:58, 93-98).
CompletionDateMeansDone == CompletedIffDone(task)

\* A task in work, in review or done has a start date, whatever way through
\* cancellation, reopening and sending back it took there (task.py:57, 91-92).
WorkHasStarted == StartedWhenWorked(task)

\* started_at <= completed_at <= updated_at: no operation stamps out of order
\* and none that stamps forgets to touch() (base.py:43-45).
TimelineInOrder == TimelineOrdered(task)

\* A DONE task never changes status again nor loses its completion date, by
\* any method, start() and reopen() included (task.py:28).
DoneIsFinal ==
  [][task.status = "done" =>
       task'.status = "done" /\ task'.completed = task.completed]_task

\* A DONE or CANCELLED task is never given a priority, a deadline or a new
\* assignee, not even by a PATCH whose text fields are accepted
\* (task.py:144, 160, 174); only clearing is possible.
TerminalTakesNoWork ==
  [][IsTerminal(task.status) =>
       /\ task'.priority = task.priority
       /\ task'.due \in {task.due, None}
       /\ task'.assignee \in {task.assignee, None}]_task

\* The first start is kept: no reopening, sending back or restarting moves
\* or erases started_at (task.py:91).
FirstStartKept ==
  [][task.started # None => task'.started = task.started]_task
=============================================================================
