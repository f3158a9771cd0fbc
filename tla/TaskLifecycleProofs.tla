------------------------ MODULE TaskLifecycleProofs ------------------------
(***************************************************************************)
(* Proofs about one task, for every set of users, priorities, texts and    *)
(* instants.  The inductive invariant is TypeOK together with Consistent;  *)
(* the three parts of Consistent lean on each other: a task can only reach *)
(* DONE from IN_REVIEW, where StartedWhenWorked gives it a start date.     *)
(***************************************************************************)
EXTENDS TaskLifecycle, TLAPS

\* A status change keeps a task well formed and consistent when the clock has
\* moved on since its last change (task.py:68-102).
LEMMA TransitionedConsistent ==
  ASSUME NEW t \in Task, NEW s \in Status, NEW now \in Nat,
         now > t.updated, Consistent(t), CanTransition(t, s)
  PROVE  Transitioned(t, s, now) \in Task /\ Consistent(Transitioned(t, s, now))
<1> DEFINE u == Transitioned(t, s, now)
<1>1. /\ t.title \in Title /\ t.tags \in [Tag -> Nat] /\ t.status \in Status /\ t.priority \in Priority
      /\ t.assignee \in User \cup {None, Ghost} /\ t.due \in Nat \cup {None}
      /\ t.started \in Nat \cup {None} /\ t.completed \in Nat \cup {None}
      /\ t.updated \in Nat
  BY DEF Task
<1>2. /\ u.status = s
      /\ u.started = IF s = "in_progress" /\ t.started = None THEN now ELSE t.started
      /\ u.completed = CASE s = "done" -> now
                         [] s = "backlog" -> None
                         [] OTHER -> t.completed
      /\ u.updated = now
  BY DEF Transitioned, Task
<1>3. u \in Task
  BY <1>1 DEF Task, Transitioned
<1>4. None \notin Nat
  BY SentinelAssumption
<1>5. CompletedIffDone(u)
  BY <1>1, <1>2, <1>4 DEF Consistent, CompletedIffDone, CanTransition, Transition, IsTerminal
<1>6. StartedWhenWorked(u)
  BY <1>1, <1>2, <1>4 DEF Consistent, StartedWhenWorked, CanTransition, Transition, IsTerminal
<1>7. TimelineOrdered(u)
  BY <1>1, <1>2, <1>4
  DEF Consistent, CompletedIffDone, StartedWhenWorked, TimelineOrdered, CanTransition, Transition, IsTerminal
<1> QED
  BY <1>3, <1>5, <1>6, <1>7 DEF Consistent
-----------------------------------------------------------------------------
\* Writing an assignee, or clearing one, touches the task and nothing that
\* Consistent speaks of (task.py:137-154).
LEMMA AssignedConsistent ==
  ASSUME NEW t \in Task, NEW x \in User \cup {None, Ghost}, NEW now \in Nat,
         now > t.updated, Consistent(t)
  PROVE  Assigned(t, x, now) \in Task /\ Consistent(Assigned(t, x, now))
<1>1. Assigned(t, x, now) \in Task
  BY DEF Task, Assigned
<1>2. Consistent(Assigned(t, x, now))
  BY SentinelAssumption
  DEF Task, Assigned, Consistent, CompletedIffDone, StartedWhenWorked, TimelineOrdered
<1> QED
  BY <1>1, <1>2

\* So does clearing the deadline (task.py:184-187).
LEMMA ClearedConsistent ==
  ASSUME NEW t \in Task, NEW now \in Nat, now > t.updated, Consistent(t)
  PROVE  DueDateCleared(t, now) \in Task /\ Consistent(DueDateCleared(t, now))
<1>1. DueDateCleared(t, now) \in Task
  BY DEF Task, DueDateCleared
<1>2. Consistent(DueDateCleared(t, now))
  BY SentinelAssumption
  DEF Task, DueDateCleared, Consistent, CompletedIffDone, StartedWhenWorked, TimelineOrdered
<1> QED
  BY <1>1, <1>2

\* Tags come and go without anything else (task.py:191-207).
LEMMA TaggedConsistent ==
  ASSUME NEW t \in Task, NEW x \in Tag, NEW now \in Nat,
         now > t.updated, Consistent(t)
  PROVE  /\ CanAddTag(t, x) =>
              TagAdded(t, x, now) \in Task /\ Consistent(TagAdded(t, x, now))
         /\ CanRemoveTag(t, x) =>
              TagRemoved(t, x, now) \in Task /\ Consistent(TagRemoved(t, x, now))
<1>1. ASSUME NEW g \in [Tag -> Nat]
      PROVE  /\ [t EXCEPT !.tags = g, !.updated = now] \in Task
             /\ Consistent([t EXCEPT !.tags = g, !.updated = now])
  <2>1. [t EXCEPT !.tags = g, !.updated = now] \in Task
    BY DEF Task
  <2>2. Consistent([t EXCEPT !.tags = g, !.updated = now])
    BY SentinelAssumption
    DEF Task, Consistent, CompletedIffDone, StartedWhenWorked, TimelineOrdered
  <2> QED
    BY <2>1, <2>2
<1>2. t.tags \in [Tag -> Nat] /\ (Normal[x] # None => Normal[x] \in Tag)
  BY SentinelAssumption DEF Task
<1>3. ASSUME CanAddTag(t, x)
      PROVE  TagAdded(t, x, now) \in Task /\ Consistent(TagAdded(t, x, now))
  <2> DEFINE g == [t.tags EXCEPT ![Normal[x]] = 1]
  <2>1. g \in [Tag -> Nat]
    BY <1>2, <1>3 DEF CanAddTag
  <2>2. TagAdded(t, x, now) = [t EXCEPT !.tags = g, !.updated = now]
    BY DEF TagAdded, Task
  <2> HIDE DEF g
  <2> QED
    BY <1>1, <2>1, <2>2
<1>4. ASSUME CanRemoveTag(t, x)
      PROVE  TagRemoved(t, x, now) \in Task /\ Consistent(TagRemoved(t, x, now))
  <2> DEFINE g == [t.tags EXCEPT ![Normal[x]] = @ - 1]
  <2>1. g \in [Tag -> Nat]
    BY <1>2, <1>4 DEF CanRemoveTag
  <2>2. TagRemoved(t, x, now) = [t EXCEPT !.tags = g, !.updated = now]
    BY DEF TagRemoved, Task
  <2> HIDE DEF g
  <2> QED
    BY <1>1, <2>1, <2>2
<1> QED
  BY <1>3, <1>4

\* An accepted PATCH keeps a task well formed: what is not a legal deadline
\* was refused before (task_service.py:126-164).
LEMMA PatchedConsistent ==
  ASSUME NEW t \in Task, NEW p \in Patch, NEW now \in Nat,
         now > t.updated, Consistent(t), CanPatch(t, p, now)
  PROVE  Patched(t, p, now) \in Task /\ Consistent(Patched(t, p, now))
<1>1. /\ Given(p.title, t.title) \in Title
      /\ Given(p.tags, t.tags) \in [Tag -> Nat]
      /\ Given(p.priority, t.priority) \in Priority
      /\ Given(p.due, t.due) \in Nat \cup {None}
  BY SentinelAssumption DEF Task, Patch, Given, CanPatch, CanSetDueDate
<1>2. Patched(t, p, now) \in Task
  BY <1>1 DEF Task, Patched
<1>3. Consistent(Patched(t, p, now))
  BY SentinelAssumption
  DEF Task, Patched, Consistent, CompletedIffDone, StartedWhenWorked, TimelineOrdered
<1> QED
  BY <1>2, <1>3

\* start() is one or two status changes at the same instant, so it is done by
\* hand: the intermediate TODO is never stamped late (task.py:108-115).
LEMMA StartedConsistent ==
  ASSUME NEW t \in Task, NEW now \in Nat,
         now > t.updated, Consistent(t), CanStart(t, now)
  PROVE  Started(t, now) \in Task /\ Consistent(Started(t, now))
<1>1. CASE t.status = "backlog"
  <2>1. CanTransition(t, "todo")
    BY <1>1 DEF CanTransition, Transition, IsTerminal
  <2> DEFINE m == Transitioned(t, "todo", now)
             u == Started(t, now)
  <2>2. m \in Task /\ Consistent(m)
    BY <2>1, TransitionedConsistent DEF Status
  <2>3. m.status = "todo" /\ m.updated = now
    BY DEF Transitioned, Task
  <2>4. u = Transitioned(m, "in_progress", now)
    BY <1>1 DEF Started, ViaTodo
  <2>5. u \in Task
    BY <2>2, <2>4 DEF Transitioned, Task, Status
  <2>6. Consistent(u)
    BY <2>2, <2>3, <2>4, SentinelAssumption
    DEF Transitioned, Task, Consistent, CompletedIffDone, StartedWhenWorked, TimelineOrdered
  <2> QED
    BY <2>5, <2>6
<1>2. CASE t.status # "backlog"
  BY <1>2, TransitionedConsistent DEF Started, ViaTodo, CanStart, Status
<1> QED
  BY <1>1, <1>2
-----------------------------------------------------------------------------
Inv == TypeOK /\ Consistent(task)

LEMMA InitInv == Init => Inv
  BY InitialAssumption DEF Init, Inv, TypeOK

LEMMA NextInv == Inv /\ [Next]_task => Inv'
<1> SUFFICES ASSUME Inv, [Next]_task PROVE Inv'
  OBVIOUS
<1> USE DEF Inv, TypeOK
<1>1. CASE UNCHANGED task
  BY <1>1
<1>2. ASSUME NEW now \in Times, now > task.updated,
             NEW s \in Status, TransitionStatus(s, now)
      PROVE  Inv'
  BY <1>2, TransitionedConsistent, TimesAssumption DEF TransitionStatus
<1>3. ASSUME NEW now \in Times, now > task.updated, Start(now)
      PROVE  Inv'
  BY <1>3, StartedConsistent, TimesAssumption DEF Start
<1>4. ASSUME NEW now \in Times, now > task.updated, Reopen(now)
      PROVE  Inv'
  <2>1. CanTransition(task, "backlog")
    BY <1>4 DEF Reopen, CanTransition, Transition, IsTerminal
  <2> QED
    BY <1>4, <2>1, TransitionedConsistent, TimesAssumption DEF Reopen, Status
<1>5. ASSUME NEW now \in Times, now > task.updated,
             NEW u \in User, AssignTo(u, now)
      PROVE  Inv'
  BY <1>5, AssignedConsistent, TimesAssumption DEF AssignTo
<1>6. ASSUME NEW now \in Times, now > task.updated, Unassign(now)
      PROVE  Inv'
  BY <1>6, AssignedConsistent, TimesAssumption DEF Unassign
<1>7. ASSUME NEW now \in Times, now > task.updated,
             NEW x \in Title \cup {None}, NEW g \in TagLists \cup {None},
             NEW p \in Priority \cup {None}, NEW d \in Deadline \cup {None},
             UpdateTask([title |-> x, tags |-> g, priority |-> p, due |-> d], now)
      PROVE  Inv'
  <2> DEFINE e == [title |-> x, tags |-> g, priority |-> p, due |-> d]
  <2>1. e \in Patch
    BY TimesAssumption DEF Patch, Deadline
  <2> HIDE DEF e
  <2>2. CanPatch(task, e, now) /\ task' = Patched(task, e, now)
    BY <1>7 DEF UpdateTask, e
  <2> QED
    BY <1>7, <2>1, <2>2, PatchedConsistent, TimesAssumption
<1>8. ASSUME NEW now \in Times, now > task.updated, ClearDueDate(now)
      PROVE  Inv'
  BY <1>8, ClearedConsistent, TimesAssumption DEF ClearDueDate
<1>9. ASSUME NEW now \in Times, now > task.updated,
             NEW x \in Tag, AddTag(x, now) \/ RemoveTag(x, now)
      PROVE  Inv'
  BY <1>9, TaggedConsistent, TimesAssumption DEF AddTag, RemoveTag
<1> QED
  BY <1>1, <1>2, <1>3, <1>4, <1>5, <1>6, <1>7, <1>8, <1>9 DEF Next

LEMMA Invariance == Spec => []Inv
<1>1. Init => Inv
  BY InitInv
<1>2. Inv /\ [Next]_task => Inv'
  BY NextInv
<1> QED
  BY <1>1, <1>2, PTL DEF Spec

\* The task stays well typed.
THEOREM TypeCorrect == Spec => []TypeOK
<1>1. Inv => TypeOK
  BY DEF Inv
<1> QED
  BY <1>1, Invariance, PTL

\* completed_at is set exactly on DONE tasks, for every use of the entity.
THEOREM CompletionDates == Spec => []CompletionDateMeansDone
<1>1. Inv => CompletionDateMeansDone
  BY DEF Inv, Consistent, CompletionDateMeansDone
<1> QED
  BY <1>1, Invariance, PTL

\* Work, review and completion only happen to started tasks.
THEOREM WorkStarted == Spec => []WorkHasStarted
<1>1. Inv => WorkHasStarted
  BY DEF Inv, Consistent, WorkHasStarted
<1> QED
  BY <1>1, Invariance, PTL

\* Start, completion and last change are ordered in time.
THEOREM Timeline == Spec => []TimelineInOrder
<1>1. Inv => TimelineInOrder
  BY DEF Inv, Consistent, TimelineInOrder
<1> QED
  BY <1>1, Invariance, PTL
-----------------------------------------------------------------------------
\* What one step may not do to a finished, a terminal or a started task.
LEMMA StepIsTame ==
  ASSUME TypeOK, Next
  PROVE  /\ task.status = "done" =>
              task'.status = "done" /\ task'.completed = task.completed
         /\ IsTerminal(task.status) =>
              /\ task'.priority = task.priority
              /\ task'.due \in {task.due, None}
              /\ task'.assignee \in {task.assignee, None}
         /\ task.started # None => task'.started = task.started
<1> DEFINE Tame ==
       /\ task.status = "done" =>
            task'.status = "done" /\ task'.completed = task.completed
       /\ IsTerminal(task.status) =>
            /\ task'.priority = task.priority
            /\ task'.due \in {task.due, None}
            /\ task'.assignee \in {task.assignee, None}
       /\ task.started # None => task'.started = task.started
<1> USE DEF TypeOK, Task, IsTerminal
<1>1. ASSUME NEW now \in Times, NEW s \in Status, TransitionStatus(s, now)
      PROVE  Tame
  BY <1>1 DEF TransitionStatus, CanTransition, Transition, Transitioned
<1>2. ASSUME NEW now \in Times, Start(now)
      PROVE  Tame
  <2>1. CASE task.status = "backlog"
    BY <1>2, <2>1 DEF Start, Started, ViaTodo, Transitioned
  <2>2. CASE task.status # "backlog"
    BY <1>2, <2>2
    DEF Start, CanStart, Started, ViaTodo, CanTransition, Transition, Transitioned
  <2> QED
    BY <2>1, <2>2
<1>3. ASSUME NEW now \in Times, Reopen(now)
      PROVE  Tame
  BY <1>3 DEF Reopen, Transitioned
<1>4. ASSUME NEW now \in Times, NEW u \in User, AssignTo(u, now)
      PROVE  Tame
  BY <1>4 DEF AssignTo, CanAssign, Assigned
<1>5. ASSUME NEW now \in Times, Unassign(now)
      PROVE  Tame
  BY <1>5 DEF Unassign, Assigned
<1>6. ASSUME NEW now \in Times, NEW p, UpdateTask(p, now)
      PROVE  Tame
  BY <1>6
  DEF UpdateTask, CanPatch, CanChangePriority, CanSetDueDate, Patched, Given
<1>7. ASSUME NEW now \in Times, ClearDueDate(now)
      PROVE  Tame
  BY <1>7 DEF ClearDueDate, DueDateCleared
<1>8. ASSUME NEW now \in Times, NEW x \in Tag, AddTag(x, now) \/ RemoveTag(x, now)
      PROVE  Tame
  BY <1>8 DEF AddTag, RemoveTag, TagAdded, TagRemoved
<1> HIDE DEF TypeOK, Task, IsTerminal
<1>9. Tame
  BY <1>1, <1>2, <1>3, <1>4, <1>5, <1>6, <1>7, <1>8 DEF Next
<1> QED
  BY <1>9

\* DONE is final for every sequence of calls of the entity's methods.
THEOREM DoneForever == Spec => DoneIsFinal
<1>1. TypeOK /\ [Next]_task =>
        [task.status = "done" =>
           task'.status = "done" /\ task'.completed = task.completed]_task
  BY StepIsTame
<1> QED
  BY <1>1, TypeCorrect, PTL DEF Spec, DoneIsFinal

\* Terminal tasks are never given anything to do.
THEOREM TerminalQuiet == Spec => TerminalTakesNoWork
<1>1. TypeOK /\ [Next]_task =>
        [IsTerminal(task.status) =>
           /\ task'.priority = task.priority
           /\ task'.due \in {task.due, None}
           /\ task'.assignee \in {task.assignee, None}]_task
  BY StepIsTame
<1> QED
  BY <1>1, TypeCorrect, PTL DEF Spec, TerminalTakesNoWork

\* The first start date survives everything.
THEOREM FirstStart == Spec => FirstStartKept
<1>1. TypeOK /\ [Next]_task =>
        [task.started # None => task'.started = task.started]_task
  BY StepIsTame
<1> QED
  BY <1>1, TypeCorrect, PTL DEF Spec, FirstStartKept
=============================================================================
