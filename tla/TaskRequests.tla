---------------------------- MODULE TaskRequests ----------------------------
(***************************************************************************)
(* Requests that change one task, running side by side.  A request is one  *)
(* call of TaskService.update_task, transition_status or assign_task with  *)
(* its database session: it loads the task, checks membership, calls the   *)
(* domain method, reloads the row (TaskRepository.update), flushes and     *)
(* commits.  Each awaited database call is a step, so other requests run   *)
(* between any two of them.                                                *)
(*                                                                         *)
(* The database is PostgreSQL under READ COMMITTED, reached through        *)
(* SQLAlchemy: a SELECT sees what is committed, an UPDATE writes only the  *)
(* columns whose value differs from the reloaded row and holds the row     *)
(* until its transaction ends; a second UPDATE waits and then applies to   *)
(* the newest row.                                                         *)
(***************************************************************************)
EXTENDS TaskDomain, FiniteSets

CONSTANTS Req,           \* requests, each made once
          Calls,         \* what they may ask for and who may ask: pairs
          Owner,         \* the project's owner
          PoolLimit,     \* connections the pool hands out at once
          Times,         \* bound of the clock
          InitialTasks   \* the task before the first request

ASSUME RequestAssumption ==
  /\ Calls \subseteq Operation \X User
  /\ \A call \in Calls :
       call[1].kind = "patch" => call[1].arg.due \in Times \cup {Naive, None}
  /\ Owner \in User
  /\ Times \subseteq Nat \ {0}
  /\ \A t \in InitialTasks : t \in Task /\ Consistent(t) /\ t.assignee # Ghost

VARIABLES db,       \* the committed row of tasks
          members,  \* users for whom Project.is_member holds
          clock,    \* the last instant a domain method stamped
          phase,    \* how far each request is
          op,       \* what it asks for
          caller,   \* who makes it
          entity,   \* the Task object in its hands
          base,     \* the row TaskRepository.update reloaded
          dirty,    \* columns it has written and not yet committed
          fresh,    \* history: no commit changed the row since it was loaded
          admitted  \* history: requests whose caller was a member at some
                    \* moment while they were under way

vars == <<db, members, clock, phase, op, caller, entity, base, dirty, fresh,
          admitted>>
request == <<op, caller>>

OpenPhase == {"loaded", "applied", "reloaded", "flushed"}
\* ok: 200; unacked: committed, but the client never learns it; refused: 403
\* or 422; error: 500; lost: the connection or the worker died before COMMIT.
EndPhase == {"ok", "unacked", "refused", "error", "lost"}

Open == {r \in Req : phase[r] \in OpenPhase}
Committed == {r \in Req : phase[r] \in {"ok", "unacked"}}
HoldsRow(r) == dirty[r] # {}

Init ==
  /\ db \in InitialTasks
  /\ members \in {m \in SUBSET User : Owner \in m}
  /\ clock = db.updated
  /\ phase = [r \in Req |-> "new"]
  /\ op = [r \in Req |-> None]
  /\ caller = [r \in Req |-> None]
  /\ entity = [r \in Req |-> None]
  /\ base = [r \in Req |-> None]
  /\ dirty = [r \in Req |-> {}]
  /\ fresh = [r \in Req |-> TRUE]
  /\ admitted = {}

\* The request gets a connection and loads the task (get_by_id).
Load(r) ==
  /\ phase[r] = "new"
  /\ Cardinality(Open) < PoolLimit
  /\ \E call \in Calls : /\ op' = [op EXCEPT ![r] = call[1]]
                         /\ caller' = [caller EXCEPT ![r] = call[2]]
  /\ entity' = [entity EXCEPT ![r] = db]
  /\ phase' = [phase EXCEPT ![r] = "loaded"]
  /\ admitted' = IF caller'[r] \in members THEN admitted \cup {r} ELSE admitted
  /\ UNCHANGED <<db, members, clock, base, dirty, fresh>>

\* Faulty variants: the connection goes back with its transaction open; the
\* session commits although the request failed.
EndWithoutRollback(r, outcome) ==
  /\ phase' = [phase EXCEPT ![r] = outcome]
  /\ UNCHANGED <<db, members, admitted, clock, request, entity, base, dirty, fresh>>

EndWithCommit(r, outcome) ==
  /\ phase' = [phase EXCEPT ![r] = outcome]
  /\ db' = [c \in Column |-> IF c \in dirty[r] THEN entity[r][c] ELSE db[c]]
  /\ dirty' = [dirty EXCEPT ![r] = {}]
  /\ UNCHANGED <<members, admitted, clock, request, entity, base, fresh>>

\* get_db_session rolls back, and the connection goes back to the pool.
RollBack(r, outcome) ==
  /\ phase' = [phase EXCEPT ![r] = outcome]
  /\ dirty' = [dirty EXCEPT ![r] = {}]
  /\ UNCHANGED <<db, members, admitted, clock, request, entity, base, fresh>>

\* AuthorizationError when the caller is no member, ValidationError when the
\* domain method raises.
Refuse(r) ==
  /\ phase[r] = "loaded"
  /\ \/ caller[r] \notin members
     \/ ~Accepts(op[r], entity[r], clock + 1)
  /\ RollBack(r, "refused")

\* Faulty variant: the check is left to the caller.
ApplyUnchecked(r) ==
  /\ phase[r] = "loaded"
  /\ clock + 1 \in Times
  /\ Accepts(op[r], entity[r], clock + 1)
  /\ clock' = clock + 1
  /\ entity' = [entity EXCEPT ![r] = Effect(op[r], @, clock + 1)]
  /\ phase' = [phase EXCEPT ![r] = "applied"]
  /\ UNCHANGED <<db, members, admitted, request, base, dirty, fresh>>

\* The domain method changes the object in memory, stamping the time.
Apply(r) ==
  /\ phase[r] = "loaded"
  /\ clock + 1 \in Times
  /\ caller[r] \in members
  /\ Accepts(op[r], entity[r], clock + 1)
  /\ clock' = clock + 1
  /\ entity' = [entity EXCEPT ![r] = Effect(op[r], @, clock + 1)]
  /\ phase' = [phase EXCEPT ![r] = "applied"]
  /\ UNCHANGED <<db, members, admitted, request, base, dirty, fresh>>

\* TaskRepository.update selects the row again.  The first object is gone
\* from the session by then, so this reads what is committed now.
Reload(r) ==
  /\ phase[r] = "applied"
  /\ base' = [base EXCEPT ![r] = db]
  /\ phase' = [phase EXCEPT ![r] = "reloaded"]
  /\ UNCHANGED <<db, members, admitted, clock, request, entity, dirty, fresh>>

\* Faulty variant: update_task_orm forgets one column.
MappedWithoutCompletion == Column \ {"completed"}

\* The columns update_task_orm copies.
Mapped == Column

\* Columns of the UPDATE statement.
Changed(r) == {c \in Mapped : entity[r][c] # base[r][c]}

\* Faulty variant: the column has no foreign key.
NoForeignKey(r) == TRUE

\* A new assignee must have a users row.
ForeignKeyHolds(r) == "assignee" \in Changed(r) => entity[r].assignee # Ghost

\* The UPDATE waits for the row if another transaction holds it.
Flush(r) ==
  /\ phase[r] = "reloaded"
  /\ Changed(r) # {} => \A q \in Req \ {r} : ~HoldsRow(q)
  /\ ForeignKeyHolds(r)
  /\ dirty' = [dirty EXCEPT ![r] = Changed(r)]
  /\ phase' = [phase EXCEPT ![r] = "flushed"]
  /\ UNCHANGED <<db, members, admitted, clock, request, entity, base, fresh>>

\* The foreign key refuses the UPDATE, and nothing in the application turns
\* IntegrityError into a client error.
FlushFails(r) ==
  /\ phase[r] = "reloaded"
  /\ \A q \in Req \ {r} : ~HoldsRow(q)
  /\ ~ForeignKeyHolds(r)
  /\ RollBack(r, "error")

\* get_db_session commits; then the answer is sent, and may be lost.
Commit(r) ==
  /\ phase[r] = "flushed"
  /\ \E outcome \in {"ok", "unacked"} : phase' = [phase EXCEPT ![r] = outcome]
  /\ db' = [c \in Column |-> IF c \in dirty[r] THEN entity[r][c] ELSE db[c]]
  /\ dirty' = [dirty EXCEPT ![r] = {}]
  /\ fresh' = [q \in Req |->
                 fresh[q] /\ (phase[q] \in OpenPhase /\ q # r => dirty[r] = {})]
  /\ UNCHANGED <<members, admitted, clock, request, entity, base>>

\* The worker or the connection dies: the server rolls the transaction back.
Crash(r) ==
  /\ r \in Open
  /\ RollBack(r, "lost")

\* The owner adds or removes a member meanwhile (ProjectRequests).
ChangeMembers ==
  /\ \E u \in User \ {Owner} :
       members' = IF u \in members THEN members \ {u} ELSE members \cup {u}
  /\ admitted' = admitted \cup {r \in Open : caller[r] \in members'}
  /\ UNCHANGED <<db, clock, phase, request, entity, base, dirty, fresh>>

\* What a request does of its own accord once the server has taken it up.
Proceed(r) ==
  \/ Refuse(r)
  \/ Apply(r)
  \/ Reload(r)
  \/ Flush(r)
  \/ FlushFails(r)
  \/ Commit(r)

Next ==
  \/ \E r \in Req : Load(r) \/ Proceed(r) \/ Crash(r)
  \/ ChangeMembers

\* Every await of a request the server took up is resumed in the end: the
\* event loop and PostgreSQL keep running.  Nothing makes a client call.
Fairness == \A r \in Req : WF_vars(Proceed(r))

Spec == Init /\ [][Next]_vars

FairSpec == Spec /\ Fairness
-----------------------------------------------------------------------------
\* Every variable has its type, and a stored assignee has its users row,
\* although assign_task never looks the user up (task_service.py:191-212).
TypeOK ==
  /\ db \in Task /\ db.assignee # Ghost
  /\ members \subseteq User
  /\ clock \in Nat
  /\ phase \in [Req -> {"new"} \cup OpenPhase \cup EndPhase]
  /\ op \in [Req -> {call[1] : call \in Calls} \cup {None}]
  /\ caller \in [Req -> User \cup {None}]
  /\ entity \in [Req -> Task \cup {None}]
  /\ base \in [Req -> Task \cup {None}]
  /\ dirty \in [Req -> SUBSET Column]
  /\ fresh \in [Req -> BOOLEAN]
  /\ admitted \subseteq Req

\* Every value stored in the row was there at the start or was put there by a
\* request that committed: nothing a refused, failed or lost request computed
\* survives it, wherever it stopped (session.py:45-56).
NoTraceOfFailure ==
  \A c \in Column : \/ \E t \in InitialTasks : db[c] = t[c]
                    \/ \E r \in Committed : db[c] = entity[r][c]

\* The membership check may be out of date when the change is committed, but
\* not by more than the request itself: who was outside the project from its
\* arrival to its end changes nothing (task_service.py:139-141).
StrangersChangeNothing == Committed \subseteq admitted

Domain == INSTANCE TaskLifecycle WITH task <- db

\* A commit over a row that changed while the request was under way.
OverwritesUnseenChange ==
  \E r \in Req : phase[r] = "flushed" /\ r \in Committed' /\ ~fresh[r]

\* Apart from such commits the stored task lives as TaskLifecycle says: load,
\* check, reload, diff and column-wise UPDATE together amount to one call of
\* one domain method on the stored task, or to nothing.
FollowsTheDomain == Domain!Init /\ [][OverwritesUnseenChange \/ Domain!Next]_db

\* Requests that were taken up all end, and free their connections: waiting
\* for the row never lasts for ever, whoever crashes while holding it.
EveryRequestEnds == Open # {} ~> Open = {}

\* task.py:28 calls DONE a terminal status; the table allows nothing from it.
DoneStaysDone == [][db.status = "done" => db'.status = "done"]_db
=============================================================================
