------------------------- MODULE TaskRequestsProofs -------------------------
(***************************************************************************)
(* Proofs about concurrent requests on one task, for any number of         *)
(* requests, any pool and any operations.  The inductive invariant Inv     *)
(* says, request by request, what it knows of the stored row: while        *)
(* nothing was committed since it loaded the task (fresh), its entity is   *)
(* the effect of its operation on the stored row and its reloaded row is   *)
(* the stored row, so that the columns it writes give back the entity.     *)
(***************************************************************************)
EXTENDS TaskRequests, TLAPS

\* What an accepted operation makes of a task, consistent or not, is a task;
\* it carries the instant of the operation, or its old one if it is a PATCH
\* without fields.
LEMMA EffectTyped ==
  ASSUME NEW t \in Task, NEW o \in Operation, NEW now \in Nat, Accepts(o, t, now)
  PROVE  /\ Effect(o, t, now) \in Task
         /\ Effect(o, t, now).updated \in {t.updated, now}
<1>1. CASE o.kind = "transition"
  <2>1. o.arg \in Status
    BY <1>1 DEF Operation
  <2> QED
    BY <1>1, <2>1 DEF Effect, Transitioned, Task
<1>2. CASE o.kind = "patch"
  <2>1. o.arg \in Patch /\ CanPatch(t, o.arg, now)
    BY <1>2 DEF Operation, Accepts
  <2>2. /\ Given(o.arg.title, t.title) \in Title
        /\ Given(o.arg.tags, t.tags) \in [Tag -> Nat]
        /\ Given(o.arg.priority, t.priority) \in Priority
        /\ Given(o.arg.due, t.due) \in Nat \cup {None}
    BY <2>1, SentinelAssumption DEF Task, Patch, Given, CanPatch, CanSetDueDate
  <2> QED
    BY <1>2, <2>2 DEF Effect, Patched, Task
<1>3. CASE o.kind \in {"assign", "unassign"}
  <2>1. o.arg \in User \cup {None, Ghost}
    BY <1>3 DEF Operation
  <2> QED
    BY <1>3, <2>1 DEF Effect, Assigned, Task
<1> QED
  BY <1>1, <1>2, <1>3 DEF Operation

\* An accepted operation keeps the dates of a task in step with its status
\* when the clock has moved on since its last change.
LEMMA EffectConsistent ==
  ASSUME NEW t \in Task, NEW o \in Operation, NEW now \in Nat,
         Accepts(o, t, now), now > t.updated, Consistent(t)
  PROVE  Consistent(Effect(o, t, now))
<1> USE SentinelAssumption
    DEF Task, Consistent, CompletedIffDone, StartedWhenWorked, TimelineOrdered
<1>1. CASE o.kind = "transition"
  <2>1. o.arg \in Status /\ CanTransition(t, o.arg)
    BY <1>1 DEF Operation, Accepts
  <2>2. Effect(o, t, now) = Transitioned(t, o.arg, now)
    BY <1>1 DEF Effect
  <2>3. Consistent(Transitioned(t, o.arg, now))
    BY <2>1 DEF Transitioned, CanTransition, Transition, IsTerminal
  <2> QED
    BY <2>2, <2>3
<1>2. CASE o.kind = "patch"
  <2> DEFINE u == Patched(t, o.arg, now)
  <2>1. /\ u.status = t.status /\ u.started = t.started /\ u.completed = t.completed
        /\ u.updated \in {t.updated, now}
    BY DEF Patched
  <2>2. Effect(o, t, now) = u
    BY <1>2 DEF Effect
  <2> HIDE DEF u
  <2> QED
    BY <2>1, <2>2
<1>3. CASE o.kind \in {"assign", "unassign"}
  BY <1>3 DEF Effect, Assigned
<1> QED
  BY <1>1, <1>2, <1>3 DEF Operation
-----------------------------------------------------------------------------
Worked(r) ==
  \E now \in Times :
    /\ now > db.updated
    /\ Accepts(op[r], db, now)
    /\ entity[r] = Effect(op[r], db, now)

RequestInv(r) ==
  /\ phase[r] # "new" => /\ entity[r] \in Task
                         /\ entity[r].updated <= clock
                         /\ op[r] \in {call[1] : call \in Calls}
  /\ phase[r] = "loaded" /\ fresh[r] => entity[r] = db
  /\ phase[r] \in {"applied", "reloaded", "flushed"} /\ fresh[r] => Worked(r)
  /\ phase[r] \in {"reloaded", "flushed"} =>
       base[r] \in Task /\ (fresh[r] => base[r] = db)
  /\ phase[r] = "flushed" => dirty[r] = Changed(r) /\ ForeignKeyHolds(r)
  /\ phase[r] # "flushed" => dirty[r] = {}

Inv == /\ TypeOK
       /\ db.updated <= clock
       /\ \A r \in Req : RequestInv(r)

\* The row a commit leaves: the written columns from the entity, the others
\* from the newest stored row.
Merged(r) == [c \in Column |-> IF c \in dirty[r] THEN entity[r][c] ELSE db[c]]

LEMMA MergedTyped ==
  ASSUME Inv, NEW r \in Req, phase[r] = "flushed"
  PROVE  /\ Merged(r) \in Task
         /\ Merged(r).assignee # Ghost
         /\ Merged(r).updated <= clock
         /\ dirty[r] = {} => Merged(r) = db
<1>1. db \in Task /\ entity[r] \in Task /\ db.assignee # Ghost
  BY DEF Inv, RequestInv, TypeOK
<1>2. entity[r].updated <= clock /\ db.updated <= clock /\ clock \in Nat
  BY DEF Inv, RequestInv, TypeOK
<1>3. "assignee" \in dirty[r] => entity[r].assignee # Ghost
  BY DEF Inv, RequestInv, ForeignKeyHolds
<1>4. Merged(r) \in Task
  BY <1>1 DEF Merged, Task, Column
<1>5. /\ Merged(r).assignee = IF "assignee" \in dirty[r] THEN entity[r].assignee ELSE db.assignee
      /\ Merged(r).updated = IF "updated" \in dirty[r] THEN entity[r].updated ELSE db.updated
  BY <1>1 DEF Merged, Task, Column
<1>6. dirty[r] = {} => Merged(r) = db
  BY <1>1 DEF Merged, Task, Column
<1> QED
  BY <1>1, <1>2, <1>3, <1>4, <1>5, <1>6

LEMMA InitInv == Init => Inv
<1> SUFFICES ASSUME Init PROVE Inv
  OBVIOUS
<1>1. db \in Task /\ db.assignee # Ghost /\ db.updated \in Nat
  BY RequestAssumption DEF Init, Task
<1>2. TypeOK
  BY <1>1 DEF Init, TypeOK
<1>3. db.updated <= clock
  BY <1>1 DEF Init
<1>4. ASSUME NEW r \in Req PROVE RequestInv(r)
  BY DEF Init, RequestInv
<1> QED
  BY <1>2, <1>3, <1>4 DEF Inv

\* Ending a request, in whatever phase, keeps the invariant.
LEMMA RollBackInv ==
  ASSUME Inv, NEW r \in Req, NEW x \in EndPhase, phase[r] # "new", RollBack(r, x)
  PROVE  Inv'
<1>1. TypeOK'
  BY DEF Inv, TypeOK, RollBack, EndPhase, request
<1>2. (db.updated <= clock)'
  BY DEF Inv, RollBack
<1>3. ASSUME NEW q \in Req PROVE RequestInv(q)'
  <2>1. CASE q = r
    BY <2>1 DEF Inv, TypeOK, RequestInv, RollBack, EndPhase, request
  <2>2. CASE q # r
    BY <2>2 DEF Inv, TypeOK, RequestInv, RollBack, EndPhase, request, Worked, Changed, ForeignKeyHolds
  <2> QED
    BY <2>1, <2>2
<1> QED
  BY <1>1, <1>2, <1>3 DEF Inv

LEMMA LoadInv == ASSUME Inv, NEW r \in Req, Load(r) PROVE Inv'
<1>1. TypeOK'
  BY RequestAssumption DEF Inv, TypeOK, Load, OpenPhase
<1>2. (db.updated <= clock)'
  BY DEF Inv, Load
<1>3. ASSUME NEW q \in Req PROVE RequestInv(q)'
  <2>1. CASE q = r
    BY <2>1 DEF Inv, TypeOK, RequestInv, Load
  <2>2. CASE q # r
    BY <2>2 DEF Inv, TypeOK, RequestInv, Load, Worked, Changed, ForeignKeyHolds
  <2> QED
    BY <2>1, <2>2
<1> QED
  BY <1>1, <1>2, <1>3 DEF Inv

LEMMA ApplyInv == ASSUME Inv, NEW r \in Req, Apply(r) PROVE Inv'
<1> DEFINE now == clock + 1
           e == Effect(op[r], entity[r], now)
<1>1. /\ entity[r] \in Task /\ op[r] \in Operation /\ now \in Nat
      /\ Accepts(op[r], entity[r], now) /\ entity[r].updated <= clock
  BY RequestAssumption DEF Inv, RequestInv, TypeOK, Apply
<1>2. e \in Task /\ e.updated \in {entity[r].updated, now}
  BY <1>1, EffectTyped
<1>3. entity' = [entity EXCEPT ![r] = e] /\ clock' = now
  BY DEF Apply
<1> HIDE DEF e
<1>4. e.updated <= now
  <2>1. entity[r].updated \in Nat /\ clock \in Nat
    BY <1>1 DEF Task, Inv, TypeOK
  <2> QED
    BY <1>1, <1>2, <2>1
<1>5. TypeOK'
  BY <1>1, <1>2, <1>3 DEF Inv, TypeOK, Apply, OpenPhase, request
<1>6. (db.updated <= clock)'
  BY <1>3 DEF Inv, Apply, TypeOK, Task
<1>7. RequestInv(r)'
  <2>1. fresh'[r] => Worked(r)'
    <3> SUFFICES ASSUME fresh[r] PROVE Worked(r)'
      BY DEF Apply
    <3>1. entity[r] = db
      BY DEF Inv, RequestInv, Apply
    <3>2. now \in Times /\ now > db.updated /\ Accepts(op[r], db, now)
      BY <1>1, <3>1 DEF Apply, Inv, TypeOK, Task
    <3>3. /\ entity'[r] = Effect(op'[r], db', now)
          /\ now > db'.updated /\ Accepts(op'[r], db', now)
      BY <1>3, <3>1, <3>2 DEF e, Apply, Inv, TypeOK, request
    <3> HIDE DEF now
    <3> QED
      BY <3>2, <3>3 DEF Worked
  <2>2. entity'[r] \in Task /\ entity'[r].updated <= clock' /\ op'[r] \in {call[1] : call \in Calls}
    BY <1>2, <1>4, <1>3 DEF Inv, RequestInv, TypeOK, Apply, request
  <2> QED
    BY <2>1, <2>2 DEF RequestInv, Inv, TypeOK, Apply
<1>8. ASSUME NEW q \in Req, q # r PROVE RequestInv(q)'
  <2>1. entity'[q] = entity[q] /\ phase'[q] = phase[q]
    BY <1>8, <1>3 DEF Inv, TypeOK, Apply
  <2>2. entity[q] \in Task /\ entity[q].updated <= clock => entity[q].updated <= clock'
    BY <1>3 DEF Inv, TypeOK, Task
  <2> QED
    BY <2>1, <2>2
    DEF Inv, TypeOK, RequestInv, Apply, Worked, Changed, ForeignKeyHolds, request
<1> QED
  BY <1>5, <1>6, <1>7, <1>8 DEF Inv

LEMMA ReloadInv == ASSUME Inv, NEW r \in Req, Reload(r) PROVE Inv'
<1>1. TypeOK'
  BY DEF Inv, TypeOK, Reload, OpenPhase, request
<1>2. (db.updated <= clock)'
  BY DEF Inv, Reload
<1>3. ASSUME NEW q \in Req PROVE RequestInv(q)'
  <2>1. CASE q = r
    BY <2>1 DEF Inv, TypeOK, RequestInv, Reload, Worked, request
  <2>2. CASE q # r
    BY <2>2 DEF Inv, TypeOK, RequestInv, Reload, Worked, Changed, ForeignKeyHolds, request
  <2> QED
    BY <2>1, <2>2
<1> QED
  BY <1>1, <1>2, <1>3 DEF Inv

LEMMA FlushInv == ASSUME Inv, NEW r \in Req, Flush(r) PROVE Inv'
<1>1. TypeOK'
  BY DEF Inv, TypeOK, Flush, OpenPhase, request, Changed, Mapped
<1>2. (db.updated <= clock)'
  BY DEF Inv, Flush
<1>3. ASSUME NEW q \in Req PROVE RequestInv(q)'
  <2>1. CASE q = r
    BY <2>1 DEF Inv, TypeOK, RequestInv, Flush, Worked, Changed, ForeignKeyHolds, request
  <2>2. CASE q # r
    BY <2>2 DEF Inv, TypeOK, RequestInv, Flush, Worked, Changed, ForeignKeyHolds, request
  <2> QED
    BY <2>1, <2>2
<1> QED
  BY <1>1, <1>2, <1>3 DEF Inv

LEMMA CommitInv == ASSUME Inv, NEW r \in Req, Commit(r) PROVE Inv'
<1>1. phase[r] = "flushed" /\ db' = Merged(r)
  BY DEF Commit, Merged
<1>2. /\ db' \in Task /\ db'.assignee # Ghost /\ db'.updated <= clock
      /\ dirty[r] = {} => db' = db
  BY <1>1, MergedTyped
<1>3. TypeOK'
  BY <1>2 DEF Inv, TypeOK, Commit, EndPhase, request
<1>4. (db.updated <= clock)'
  BY <1>2 DEF Commit
<1>5. RequestInv(r)'
  BY <1>1 DEF Inv, TypeOK, RequestInv, Commit, request
<1>6. ASSUME NEW q \in Req, q # r PROVE RequestInv(q)'
  <2>1. /\ phase'[q] = phase[q] /\ dirty'[q] = dirty[q] /\ entity' = entity
        /\ op' = op /\ base' = base /\ clock' = clock
    BY <1>6 DEF Commit, Inv, TypeOK, request
  <2>2. phase[q] \in OpenPhase => (fresh'[q] => fresh[q] /\ db' = db)
    BY <1>2, <1>6 DEF Commit
  <2> QED
    BY <2>1, <2>2
    DEF Inv, RequestInv, Worked, Changed, ForeignKeyHolds, OpenPhase
<1> QED
  BY <1>3, <1>4, <1>5, <1>6 DEF Inv

LEMMA NextInv == Inv /\ [Next]_vars => Inv'
<1> SUFFICES ASSUME Inv, [Next]_vars PROVE Inv'
  OBVIOUS
<1>1. CASE UNCHANGED vars
  BY <1>1
  DEF vars, Inv, TypeOK, RequestInv, Worked, Changed, ForeignKeyHolds
<1>2. ASSUME NEW r \in Req, Load(r) PROVE Inv'
  BY <1>2, LoadInv
<1>3. ASSUME NEW r \in Req, Refuse(r) PROVE Inv'
  BY <1>3, RollBackInv DEF Refuse, EndPhase
<1>4. ASSUME NEW r \in Req, Apply(r) PROVE Inv'
  BY <1>4, ApplyInv
<1>5. ASSUME NEW r \in Req, Reload(r) PROVE Inv'
  BY <1>5, ReloadInv
<1>6. ASSUME NEW r \in Req, Flush(r) PROVE Inv'
  BY <1>6, FlushInv
<1>7. ASSUME NEW r \in Req, FlushFails(r) PROVE Inv'
  BY <1>7, RollBackInv DEF FlushFails, EndPhase
<1>8. ASSUME NEW r \in Req, Commit(r) PROVE Inv'
  BY <1>8, CommitInv
<1>9. ASSUME NEW r \in Req, Crash(r) PROVE Inv'
  BY <1>9, RollBackInv DEF Crash, Open, OpenPhase, EndPhase
<1>10. CASE ChangeMembers
  BY <1>10, RequestAssumption
  DEF ChangeMembers, Inv, TypeOK, RequestInv, Worked, Changed, ForeignKeyHolds, request, Open
<1> QED
  BY <1>1, <1>2, <1>3, <1>4, <1>5, <1>6, <1>7, <1>8, <1>9, <1>10 DEF Next, Proceed

LEMMA Invariance == Spec => []Inv
  BY InitInv, NextInv, PTL DEF Spec

\* Types, and no stored assignee without its users row.
THEOREM TypeCorrect == Spec => []TypeOK
<1>1. Inv => TypeOK
  BY DEF Inv
<1> QED
  BY <1>1, Invariance, PTL
-----------------------------------------------------------------------------
\* A committed request has passed Load, so its entity no longer changes.
LEMMA CommittedStays ==
  ASSUME Inv, Next, NEW r \in Committed
  PROVE  r \in Committed' /\ entity'[r] = entity[r]
  BY DEF Inv, TypeOK, Next, Proceed, Load, Refuse, Apply, Reload, Flush, FlushFails,
         Commit, Crash, ChangeMembers, RollBack, Committed, Open, OpenPhase, request

\* Only Commit writes the row.
LEMMA OnlyCommitWrites ==
  ASSUME Next, db' # db
  PROVE  \E r \in Req : Commit(r)
  BY DEF Next, Proceed, Load, Refuse, Apply, Reload, Flush, FlushFails, Crash,
         ChangeMembers, RollBack

\* Refused, failed and lost requests leave no value in the row, for every
\* interleaving and every crash.
THEOREM FailuresLeaveNoTrace == Spec => []NoTraceOfFailure
<1>1. Init => NoTraceOfFailure
  BY DEF Init, NoTraceOfFailure
<1>2. Inv /\ NoTraceOfFailure /\ [Next]_vars => NoTraceOfFailure'
  <2> SUFFICES ASSUME Inv, NoTraceOfFailure, [Next]_vars, NEW c \in Column
               PROVE  \/ \E t \in InitialTasks : db'[c] = t[c]
                      \/ \E r \in Committed' : db'[c] = entity'[r][c]
    BY DEF NoTraceOfFailure
  <2>1. CASE UNCHANGED vars
    BY <2>1 DEF vars, NoTraceOfFailure, Committed
  <2>2. CASE Next /\ db'[c] = db[c]
    BY <2>2, CommittedStays DEF NoTraceOfFailure
  <2>3. CASE Next /\ db'[c] # db[c]
    <3>1. PICK r \in Req : Commit(r)
      BY <2>3, OnlyCommitWrites
    <3>2. db'[c] = entity'[r][c]
      BY <2>3, <3>1 DEF Commit
    <3>3. r \in Committed'
      BY <3>1 DEF Commit, Committed, Inv, TypeOK
    <3> QED
      BY <3>2, <3>3
  <2> QED
    BY <2>1, <2>2, <2>3
<1> QED
  BY <1>1, <1>2, Invariance, PTL DEF Spec
-----------------------------------------------------------------------------
\* A caller who is a member while the request is open has been seen as one, and
\* so has every caller who got past the check.
Vouched ==
  \A r \in Req :
    /\ r \in Open /\ caller[r] \in members => r \in admitted
    /\ phase[r] \in {"applied", "reloaded", "flushed", "ok", "unacked"} => r \in admitted

\* A caller outside the project from the request's arrival to its end changes
\* nothing, whoever joins and leaves meanwhile.
THEOREM OnlyMembersWrite == Spec => []StrangersChangeNothing
<1>1. Init => Vouched
  BY DEF Init, Vouched, Open, OpenPhase
<1>2. Inv /\ Vouched /\ [Next]_vars => Vouched'
  <2> SUFFICES ASSUME Inv, Vouched, [Next]_vars PROVE Vouched'
    OBVIOUS
  <2>1. ASSUME NEW r \in Req, Load(r) PROVE Vouched'
    BY <2>1 DEF Load, Vouched, Inv, TypeOK, Open, OpenPhase
  <2>2. ASSUME NEW r \in Req, Apply(r) PROVE Vouched'
    BY <2>2 DEF Apply, request, Vouched, Inv, TypeOK, Open, OpenPhase
  <2>3. ASSUME NEW r \in Req, Reload(r) \/ Flush(r) \/ Commit(r) PROVE Vouched'
    BY <2>3 DEF Reload, Flush, Commit, request, Vouched, Inv, TypeOK, Open, OpenPhase
  <2>4. ASSUME NEW r \in Req, NEW x \in {"refused", "error", "lost"}, RollBack(r, x)
        PROVE  Vouched'
    BY <2>4 DEF RollBack, request, Vouched, Inv, TypeOK, Open, OpenPhase
  <2>5. CASE ChangeMembers
    BY <2>5 DEF ChangeMembers, request, Vouched, Open
  <2>6. CASE UNCHANGED vars
    BY <2>6 DEF vars, Vouched, Open
  <2> QED
    BY <2>1, <2>2, <2>3, <2>4, <2>5, <2>6
    DEF Next, Proceed, Refuse, FlushFails, Crash
<1>3. Vouched => StrangersChangeNothing
  BY DEF Vouched, StrangersChangeNothing, Committed
<1> QED
  BY <1>1, <1>2, <1>3, Invariance, PTL DEF Spec
-----------------------------------------------------------------------------
\* The abstract module's copies of the entity's operators are the ones used
\* here: the instance renames them and replaces nothing in them.
LEMMA SameMethods ==
  /\ Domain!Status = Status
  /\ Domain!Deadline = Times \cup {Naive}
  /\ \A t, s : Domain!CanTransition(t, s) <=> CanTransition(t, s)
  /\ \A t, s, now : Domain!Transitioned(t, s, now) = Transitioned(t, s, now)
  /\ \A t : Domain!CanAssign(t) <=> CanAssign(t)
  /\ \A t, u, now : Domain!Assigned(t, u, now) = Assigned(t, u, now)
  /\ \A t : Domain!CanUnassign(t) <=> CanUnassign(t)
  /\ \A t, p, now : Domain!CanPatch(t, p, now) <=> CanPatch(t, p, now)
  /\ \A t, p, now : Domain!Patched(t, p, now) = Patched(t, p, now)
<1>1. Domain!Status = Status /\ Domain!Deadline = Times \cup {Naive}
  BY DEF Domain!Status, Status, Domain!Deadline
<1>2. \A t, s : Domain!CanTransition(t, s) <=> CanTransition(t, s)
  BY DEF Domain!CanTransition, CanTransition, Domain!Transition, Transition,
         Domain!IsTerminal, IsTerminal
<1>3. \A t, s, now : Domain!Transitioned(t, s, now) = Transitioned(t, s, now)
  BY DEF Domain!Transitioned, Transitioned
<1>4. /\ \A t : Domain!CanAssign(t) <=> CanAssign(t)
      /\ \A t, u, now : Domain!Assigned(t, u, now) = Assigned(t, u, now)
      /\ \A t : Domain!CanUnassign(t) <=> CanUnassign(t)
  BY DEF Domain!CanAssign, CanAssign, Domain!IsTerminal, IsTerminal,
         Domain!Assigned, Assigned, Domain!CanUnassign, CanUnassign
<1>5. \A t, p, now : Domain!CanPatch(t, p, now) <=> CanPatch(t, p, now)
  BY DEF Domain!CanPatch, CanPatch, Domain!CanChangePriority, CanChangePriority,
         Domain!CanSetDueDate, CanSetDueDate, Domain!IsTerminal, IsTerminal
<1>6. \A t, p, now : Domain!Patched(t, p, now) = Patched(t, p, now)
  BY DEF Domain!Patched, Patched, Domain!Given, Given, Domain!IsEmpty, IsEmpty
<1> QED
  BY <1>1, <1>2, <1>3, <1>4, <1>5, <1>6

\* What an accepted operation does to the stored task is one call of one of
\* the entity's methods.
LEMMA EffectIsDomainStep ==
  ASSUME Inv, NEW call \in Calls, NEW o, o = call[1], NEW now \in Times, now > db.updated,
         Accepts(o, db, now), db' = Effect(o, db, now),
         o.kind = "assign" => o.arg # Ghost
  PROVE  Domain!Next
<1>1. o \in Operation
  BY RequestAssumption
<1>2. CASE o.kind = "transition"
  <2>1. o.arg \in Domain!Status /\ Domain!TransitionStatus(o.arg, now)
    BY <1>1, <1>2, SameMethods
    DEF Operation, Accepts, Effect, Domain!TransitionStatus
  <2> QED
    BY <2>1 DEF Domain!Next
<1>3. CASE o.kind = "assign"
  <2>1. o.arg \in User /\ Domain!AssignTo(o.arg, now)
    BY <1>1, <1>3, SameMethods DEF Operation, Accepts, Effect, Domain!AssignTo
  <2> QED
    BY <2>1 DEF Domain!Next
<1>4. CASE o.kind = "unassign"
  <2>1. Domain!Unassign(now)
    BY <1>1, <1>4, SameMethods DEF Operation, Accepts, Effect, Domain!Unassign
  <2> QED
    BY <2>1 DEF Domain!Next
<1>5. CASE o.kind = "patch"
  <2>1. /\ o.arg \in Patch
        /\ o.arg.due \in Times \cup {Naive, None}
    BY <1>1, <1>5, RequestAssumption DEF Operation
  <2>2. PICK x \in Title \cup {None}, g \in TagLists \cup {None},
             p \in Priority \cup {None}, d \in Domain!Deadline \cup {None} :
          o.arg = [title |-> x, tags |-> g, priority |-> p, due |-> d]
    BY <2>1, SameMethods DEF Patch
  <2>3. Domain!UpdateTask(o.arg, now)
    BY <1>5, SameMethods DEF Accepts, Effect, Domain!UpdateTask
  <2> QED
    BY <2>2, <2>3 DEF Domain!Next
<1> QED
  BY <1>1, <1>2, <1>3, <1>4, <1>5 DEF Operation

\* A commit by a request that missed nothing writes its entity back whole.
LEMMA FreshCommit ==
  ASSUME Inv, NEW r \in Req, Commit(r), fresh[r]
  PROVE  db' = entity[r]
<1>1. /\ entity[r] \in Task /\ base[r] = db /\ db \in Task
      /\ dirty[r] = {c \in Column : entity[r][c] # db[c]}
  BY DEF Inv, TypeOK, RequestInv, Commit, Changed, Mapped
<1>2. db' = [c \in Column |->
               IF c \in {d \in Column : entity[r][d] # db[d]}
               THEN entity[r][c] ELSE db[c]]
  BY <1>1 DEF Commit
<1> QED
  BY <1>1, <1>2 DEF Task, Column

\* Whatever changes the stored task, without overwriting something unseen, is
\* what one of the calls makes of it.
LEMMA SeeingCommit ==
  ASSUME Inv, Next, db' # db, ~OverwritesUnseenChange
  PROVE  \E call \in Calls, now \in Times :
           /\ now > db.updated
           /\ Accepts(call[1], db, now)
           /\ db' = Effect(call[1], db, now)
           /\ call[1].kind = "assign" => call[1].arg # Ghost
<1>1. PICK r \in Req : Commit(r)
  BY OnlyCommitWrites
<1>2. fresh[r]
  BY <1>1 DEF OverwritesUnseenChange, Commit, Committed, Inv, TypeOK
<1>3. db' = entity[r]
  BY <1>1, <1>2, FreshCommit
<1>4. PICK now \in Times :
        /\ now > db.updated
        /\ Accepts(op[r], db, now)
        /\ entity[r] = Effect(op[r], db, now)
  BY <1>1, <1>2 DEF Inv, RequestInv, Commit, Worked
<1>5. op[r] \in {call[1] : call \in Calls}
  BY <1>1 DEF Inv, RequestInv, Commit
<1>6. op[r].kind = "assign" => op[r].arg # Ghost
  <2> SUFFICES ASSUME op[r].kind = "assign", op[r].arg = Ghost PROVE FALSE
    OBVIOUS
  <2>1. db \in Task /\ db.assignee # Ghost
    BY DEF Inv, TypeOK
  <2>2. entity[r].assignee = Ghost
    BY <1>4, <2>1 DEF Effect, Assigned, Task
  <2>3. base[r] = db /\ ForeignKeyHolds(r)
    BY <1>1, <1>2 DEF Inv, RequestInv, Commit
  <2> QED
    BY <2>1, <2>2, <2>3 DEF ForeignKeyHolds, Changed, Mapped, Column
<1> QED
  BY <1>3, <1>4, <1>5, <1>6

\* Unless a commit overwrites a change its request has not seen, the stored
\* task moves exactly as the abstract TaskLifecycle allows.
THEOREM StoredTaskFollowsTheDomain == Spec => FollowsTheDomain
<1>1. Init => Domain!Init
  BY DEF Init, Domain!Init
<1>2. Inv /\ [Next]_vars => [OverwritesUnseenChange \/ Domain!Next]_db
  <2> SUFFICES ASSUME Inv, Next, db' # db, ~OverwritesUnseenChange
               PROVE  Domain!Next
    BY DEF vars
  <2> QED
    BY SeeingCommit, EffectIsDomainStep
<1> QED
  BY <1>1, <1>2, Invariance, PTL DEF Spec, FollowsTheDomain

\* The stored dates agree with the stored status until a commit overwrites a
\* change its request has not seen: the reload, the diff and the column-wise
\* UPDATE never tear a task apart by themselves (task_repository.py:44-60).
THEOREM OnlyUnseenOverwritesCorrupt ==
  Spec => /\ Consistent(db)
          /\ [][Consistent(db) => Consistent(db)' \/ OverwritesUnseenChange]_db
<1>1. Init => Consistent(db)
  BY RequestAssumption DEF Init
<1>2. Inv /\ [Next]_vars => [Consistent(db) => Consistent(db)' \/ OverwritesUnseenChange]_db
  <2> SUFFICES ASSUME Inv, Next, db' # db, ~OverwritesUnseenChange, Consistent(db)
               PROVE  Consistent(db')
    BY DEF vars
  <2>1. PICK call \in Calls, now \in Times :
          /\ now > db.updated
          /\ Accepts(call[1], db, now)
          /\ db' = Effect(call[1], db, now)
    BY SeeingCommit
  <2>2. db \in Task /\ call[1] \in Operation /\ now \in Nat
    BY RequestAssumption DEF Inv, TypeOK
  <2> QED
    BY <2>1, <2>2, EffectConsistent
<1> QED
  BY <1>1, <1>2, Invariance, PTL DEF Spec

\* DONE is lost only to a request that loaded the task before it was done: the
\* one way in which task.py:28 is not kept.
THEOREM OnlyUnseenOverwritesUndoDone ==
  Spec => [][db.status = "done" => db'.status = "done" \/ OverwritesUnseenChange]_db
<1>1. Inv /\ [Next]_vars =>
        [db.status = "done" => db'.status = "done" \/ OverwritesUnseenChange]_db
  <2> SUFFICES ASSUME Inv, Next, db' # db, ~OverwritesUnseenChange, db.status = "done"
               PROVE  db'.status = "done"
    BY DEF vars
  <2>1. PICK call \in Calls, now \in Times :
          /\ now > db.updated
          /\ Accepts(call[1], db, now)
          /\ db' = Effect(call[1], db, now)
    BY SeeingCommit
  <2>2. db \in Task /\ call[1] \in Operation
    BY RequestAssumption DEF Inv, TypeOK
  <2>3. ~(call[1].kind = "transition" /\ CanTransition(db, call[1].arg))
    BY DEF CanTransition, Transition, IsTerminal
  <2>4. call[1].kind # "transition"
    BY <2>1, <2>3 DEF Accepts
  <2> QED
    BY <2>1, <2>2, <2>4 DEF Effect, Patched, Assigned, Task
<1> QED
  BY <1>1, Invariance, PTL DEF Spec
-----------------------------------------------------------------------------
\* The row is held by one transaction at a time, and only by one that has
\* nothing left to wait for but its COMMIT: requests on one task never wait for
\* each other in a circle (task_repository.py:57, session.py:48-50).
THEOREM RowHeldByOne ==
  Spec => []\A q, r \in Req : HoldsRow(q) => /\ phase[q] = "flushed"
                                             /\ (HoldsRow(r) => q = r)
<1> DEFINE Alone == \A q, r \in Req : HoldsRow(q) /\ HoldsRow(r) => q = r
<1>1. Init => Alone
  BY DEF Init, HoldsRow
<1>2. Inv /\ Alone /\ [Next]_vars => Alone'
  <2> SUFFICES ASSUME Inv, Alone, [Next]_vars PROVE Alone'
    OBVIOUS
  <2>1. CASE dirty' = dirty
    BY <2>1 DEF HoldsRow
  <2>2. ASSUME NEW r \in Req, dirty' = [dirty EXCEPT ![r] = {}] PROVE Alone'
    BY <2>2 DEF HoldsRow, Inv, TypeOK
  <2>3. ASSUME NEW r \in Req, Flush(r) PROVE Alone'
    <3>1. /\ Changed(r) # {} => \A q \in Req \ {r} : dirty[q] = {}
          /\ dirty' = [dirty EXCEPT ![r] = Changed(r)]
      BY <2>3 DEF Flush, HoldsRow
    <3>2. CASE Changed(r) = {}
      BY <3>1, <3>2 DEF HoldsRow, Inv, TypeOK
    <3>3. CASE Changed(r) # {}
      BY <3>1, <3>3 DEF HoldsRow, Inv, TypeOK
    <3> QED
      BY <3>2, <3>3
  <2>4. \/ dirty' = dirty
        \/ \E r \in Req : dirty' = [dirty EXCEPT ![r] = {}] \/ Flush(r)
    BY DEF Next, Proceed, Load, Refuse, Apply, Reload, FlushFails, Commit, Crash,
           ChangeMembers, RollBack, vars
  <2> QED
    BY <2>1, <2>2, <2>3, <2>4
<1>3. Inv /\ Alone => \A q, r \in Req : HoldsRow(q) => /\ phase[q] = "flushed"
                                                       /\ (HoldsRow(r) => q = r)
  BY DEF Inv, RequestInv, HoldsRow
<1> QED
  BY <1>1, <1>2, <1>3, Invariance, PTL DEF Spec
=============================================================================
