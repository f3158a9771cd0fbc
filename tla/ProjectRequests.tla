--------------------------- MODULE ProjectRequests ---------------------------
(***************************************************************************)
(* Requests that change one project, running side by side.  A request is   *)
(* one call of ProjectService.update_project, transition_status,           *)
(* add_member or remove_member with its session.  It loads the project row *)
(* and then its member rows, checks the owner, calls the domain method and *)
(* hands the aggregate to ProjectRepository.update: reload the row, DELETE *)
(* every member row, UPDATE the changed columns, INSERT a row per member   *)
(* of the aggregate, commit.                                               *)
(*                                                                         *)
(* PostgreSQL, READ COMMITTED: a statement sees what is committed when it  *)
(* starts.  A DELETE waits for rows another transaction is deleting and    *)
(* skips those that are gone; rows inserted since it started it does not   *)
(* see.  An INSERT waits while another transaction is deleting or          *)
(* inserting a row with its key, and fails on one that stays.  A circle of *)
(* waiting transactions is broken by failing one of them.                  *)
(***************************************************************************)
EXTENDS ProjectDomain, Naturals, FiniteSets

CONSTANTS Req,              \* requests, each made once
          Calls,            \* what they may ask for and who may ask: pairs
          PoolLimit,        \* connections the pool hands out at once
          InitialProjects   \* the project before the first request

ASSUME RequestAssumption ==
  /\ Calls \subseteq Operation \X Person
  /\ Req = Stamp
  /\ \A p \in InitialProjects :
       /\ p \in Project /\ p.owner \notin p.members /\ Ghost \notin p.members
       /\ p.updated = None

VARIABLES row,      \* the committed row of projects
          rows,     \* the committed rows of project_members, with who wrote them
          phase,    \* how far each request is
          op,       \* what it asks for
          caller,   \* who makes it
          entity,   \* the Project object in its hands
          base,     \* the row ProjectRepository.update reloaded
          targets,  \* member rows its DELETE still has to delete
          del,      \* member rows it has deleted, not yet committed
          ins,      \* member rows it has inserted, not yet committed
          dirty,    \* columns it has written, not yet committed
          fresh     \* history: no commit changed anything since its first read

vars == <<row, rows, phase, op, caller, entity, base, targets, del, ins,
          dirty, fresh>>
request == <<op, caller>>
stored == <<row, rows>>
writes == <<targets, del, ins, dirty>>

Column == {"name", "status", "owner", "updated"}

ProjectRow == [name: Name, status: ProjectStatus, owner: Person,
               updated: Stamp \cup {None}]

MemberRow == [user: Person, by: Req \cup {None}]

OpenPhase == {"found", "loaded", "applied", "reloaded", "deleting", "inserting"}
\* ok: 200; unacked: committed, but the client never learns it; refused: 403
\* or 422; error: 500; lost: the connection or the worker died before COMMIT.
EndPhase == {"ok", "unacked", "refused", "error", "lost"}

Open == {r \in Req : phase[r] \in OpenPhase}
Committed == {r \in Req : phase[r] \in {"ok", "unacked"}}

\* orm_to_project: the aggregate made of a row and member rows.
Aggregate(w, ms) ==
  [name |-> w.name, status |-> w.status, owner |-> w.owner,
   members |-> {m.user : m \in ms}, updated |-> w.updated]

Init ==
  /\ \E p \in InitialProjects :
       /\ row = [name |-> p.name, status |-> p.status, owner |-> p.owner,
                 updated |-> p.updated]
       /\ rows = [user: p.members, by: {None}]
  /\ phase = [r \in Req |-> "new"]
  /\ op = [r \in Req |-> None]
  /\ caller = [r \in Req |-> None]
  /\ entity = [r \in Req |-> None]
  /\ base = [r \in Req |-> None]
  /\ targets = [r \in Req |-> {}]
  /\ del = [r \in Req |-> {}]
  /\ ins = [r \in Req |-> {}]
  /\ dirty = [r \in Req |-> {}]
  /\ fresh = [r \in Req |-> TRUE]

Goto(r, p) == phase' = [phase EXCEPT ![r] = p]

\* The request gets a connection; get_by_id selects the project row ...
LoadRow(r) ==
  /\ phase[r] = "new"
  /\ Cardinality(Open) < PoolLimit
  /\ \E call \in Calls : /\ op' = [op EXCEPT ![r] = call[1]]
                         /\ caller' = [caller EXCEPT ![r] = call[2]]
  /\ entity' = [entity EXCEPT ![r] = Aggregate(row, {})]
  /\ Goto(r, "found")
  /\ UNCHANGED <<stored, base, writes, fresh>>

\* Faulty variant: the aggregate is made without its members.
LoadNoMembers(r) ==
  /\ phase[r] = "found"
  /\ Goto(r, "loaded")
  /\ UNCHANGED <<stored, request, entity, base, writes, fresh>>

\* ... and in a second statement the member rows.
LoadMembers(r) ==
  /\ phase[r] = "found"
  /\ entity' = [entity EXCEPT ![r] = Aggregate(@, rows)]
  /\ Goto(r, "loaded")
  /\ UNCHANGED <<stored, request, base, writes, fresh>>

Leave(r, outcome) ==
  /\ Goto(r, outcome)
  /\ targets' = [targets EXCEPT ![r] = {}]
  /\ del' = [del EXCEPT ![r] = {}]
  /\ ins' = [ins EXCEPT ![r] = {}]
  /\ dirty' = [dirty EXCEPT ![r] = {}]

\* Faulty variants: the connection goes back with its transaction open; the
\* session commits although the request failed.
EndWithoutRollback(r, outcome) ==
  /\ Goto(r, outcome)
  /\ UNCHANGED <<stored, request, entity, base, writes, fresh>>

EndWithCommit(r, outcome) ==
  /\ Leave(r, outcome)
  /\ rows' = (rows \ del[r]) \cup ins[r]
  /\ UNCHANGED <<row, request, entity, base, fresh>>

\* get_db_session rolls back, and the connection goes back to the pool.
RollBack(r, outcome) ==
  /\ Leave(r, outcome)
  /\ UNCHANGED <<stored, request, entity, base, fresh>>

\* AuthorizationError for anybody but the owner, ValidationError when the
\* domain method raises.
Refuse(r) ==
  /\ phase[r] = "loaded"
  /\ \/ caller[r] # entity[r].owner
     \/ ~Accepts(op[r], entity[r])
  /\ RollBack(r, "refused")

Apply(r) ==
  /\ phase[r] = "loaded"
  /\ caller[r] = entity[r].owner
  /\ Accepts(op[r], entity[r])
  /\ entity' = [entity EXCEPT ![r] = Effect(op[r], @, r)]
  /\ Goto(r, "applied")
  /\ UNCHANGED <<stored, request, base, writes, fresh>>

\* ProjectRepository.update selects the row again, and sees what is
\* committed now.
Reload(r) ==
  /\ phase[r] = "applied"
  /\ base' = [base EXCEPT ![r] = row]
  /\ Goto(r, "reloaded")
  /\ UNCHANGED <<stored, request, entity, writes, fresh>>

\* The DELETE of all member rows starts: these are the rows it sees.
StartDelete(r) ==
  /\ phase[r] = "reloaded"
  /\ targets' = [targets EXCEPT ![r] = rows]
  /\ Goto(r, "deleting")
  /\ UNCHANGED <<stored, request, entity, base, del, ins, dirty, fresh>>

\* It takes the rows one by one, waiting for those another transaction is
\* deleting and skipping those that are gone.
DeleteRow(r) ==
  /\ phase[r] = "deleting"
  /\ \E m \in targets[r] :
       /\ \A q \in Req \ {r} : m \notin del[q]
       /\ targets' = [targets EXCEPT ![r] = @ \ {m}]
       /\ del' = [del EXCEPT ![r] = IF m \in rows THEN @ \cup {m} ELSE @]
  /\ UNCHANGED <<stored, phase, request, entity, base, ins, dirty, fresh>>

\* Columns of the UPDATE statement (update_project_orm copies all).
Changed(r) == {c \in Column : entity[r][c] # base[r][c]}

\* The flush first sends the UPDATE, if anything differs; it waits for the row.
UpdateRow(r) ==
  /\ phase[r] = "deleting"
  /\ targets[r] = {}
  /\ Changed(r) # {} => \A q \in Req \ {r} : dirty[q] = {}
  /\ dirty' = [dirty EXCEPT ![r] = Changed(r)]
  /\ Goto(r, "inserting")
  /\ UNCHANGED <<stored, request, entity, base, targets, del, ins, fresh>>

\* Faulty variant: a row for the owner as well.
ToInsertWithOwner(r) ==
  (entity[r].members \cup {entity[r].owner}) \ {m.user : m \in ins[r]}

\* Members of the aggregate still without a row (build_member_orm_rows).
ToInsert(r) == entity[r].members \ {m.user : m \in ins[r]}

\* Transactions whose end decides whether r may insert a row for u.
Rivals(r, u) == {q \in Req \ {r} : \E m \in del[q] \cup ins[q] : m.user = u}

\* Faulty variant: the table has no unique constraint.
NoUniqueConstraint(r, u) == FALSE

\* uq_project_member: somebody else's committed row for u stands in the way.
Taken(r, u) == \E m \in rows \ del[r] : m.user = u

\* Then it sends the INSERTs, one per member.
InsertRow(r) ==
  /\ phase[r] = "inserting"
  /\ \E u \in ToInsert(r) \ {Ghost} :
       /\ Rivals(r, u) = {}
       /\ ~Taken(r, u)
       /\ ins' = [ins EXCEPT ![r] = @ \cup {[user |-> u, by |-> r]}]
  /\ UNCHANGED <<stored, phase, request, entity, base, targets, del, dirty, fresh>>

\* uq_project_member refuses a second row for a member, and the foreign key
\* an unknown user: IntegrityError, which no handler turns into a client error.
InsertFails(r) ==
  /\ phase[r] = "inserting"
  /\ \E u \in ToInsert(r) : u = Ghost \/ (Rivals(r, u) = {} /\ Taken(r, u))
  /\ RollBack(r, "error")

\* get_db_session commits; then the answer is sent, and may be lost.
Commit(r) ==
  /\ phase[r] = "inserting"
  /\ ToInsert(r) = {}
  /\ \E outcome \in {"ok", "unacked"} : Leave(r, outcome)
  /\ row' = [c \in Column |-> IF c \in dirty[r] THEN entity[r][c] ELSE row[c]]
  /\ rows' = (rows \ del[r]) \cup ins[r]
  /\ fresh' = [q \in Req |-> fresh[q] /\ (q \in Open \ {r} => stored' = stored)]
  /\ UNCHANGED <<request, entity, base>>

\* r cannot go on before q ends.
WaitsFor(r, q) ==
  /\ r # q
  /\ \/ /\ phase[r] = "deleting"
        /\ targets[r] # {}
        /\ \A m \in targets[r] : \E p \in Req \ {r} : m \in del[p]
        /\ targets[r] \cap del[q] # {}
     \/ /\ phase[r] = "deleting"
        /\ targets[r] = {}
        /\ Changed(r) # {}
        /\ dirty[q] # {}
     \/ /\ phase[r] = "inserting"
        /\ ToInsert(r) # {}
        /\ \A u \in ToInsert(r) : Rivals(r, u) # {}
        /\ \E u \in ToInsert(r) : q \in Rivals(r, u)

\* Requests that wait for one another in a circle.
Circle(S) ==
  \A r \in S : /\ \E q \in S : WaitsFor(r, q)
               /\ \E q \in S : WaitsFor(q, r)

\* PostgreSQL fails one transaction of a circle.
BreakDeadlock(r) ==
  /\ \E S \in SUBSET Req : r \in S /\ Circle(S)
  /\ RollBack(r, "error")

\* The worker or the connection dies: the server rolls the transaction back.
Crash(r) ==
  /\ r \in Open
  /\ RollBack(r, "lost")

\* What a request does of its own accord once the server has taken it up.
Proceed(r) ==
  \/ LoadMembers(r)
  \/ Refuse(r)
  \/ Apply(r)
  \/ Reload(r)
  \/ StartDelete(r)
  \/ DeleteRow(r)
  \/ UpdateRow(r)
  \/ InsertRow(r)
  \/ InsertFails(r)
  \/ Commit(r)
  \/ BreakDeadlock(r)

Next == \E r \in Req : LoadRow(r) \/ Proceed(r) \/ Crash(r)

\* The event loop and PostgreSQL keep running, its deadlock detector included;
\* nothing makes a client call.
Fairness == \A r \in Req : WF_vars(Proceed(r))

Spec == Init /\ [][Next]_vars

FairSpec == Spec /\ Fairness
-----------------------------------------------------------------------------
Listed == {m.user : m \in rows}

\* Every variable has its type; member rows are of known users and never of
\* the owner (database/models/project.py:25-26).
TypeOK ==
  /\ row \in ProjectRow
  /\ rows \subseteq [user: Person \ {row.owner}, by: Req \cup {None}]
  /\ phase \in [Req -> {"new"} \cup OpenPhase \cup EndPhase]
  /\ op \in [Req -> Operation \cup {None}]
  /\ caller \in [Req -> Person \cup {None}]
  /\ entity \in [Req -> Project \cup {None}]
  /\ base \in [Req -> ProjectRow \cup {None}]
  /\ targets \in [Req -> SUBSET MemberRow]
  /\ del \in [Req -> SUBSET MemberRow]
  /\ ins \in [Req -> SUBSET MemberRow]
  /\ \A r \in Req : \A m \in ins[r] : m.by = r
  /\ dirty \in [Req -> SUBSET Column]
  /\ fresh \in [Req -> BOOLEAN]

\* A member has one row, although every update deletes and re-inserts the rows
\* of all members without looking at what others are doing to them
\* (project_repository.py:111-120).
OneRowPerMember == \A m, n \in rows : m.user = n.user => m = n

\* What is stored was there at the start or was written by a request that
\* committed: refused, failed, deadlocked and lost requests leave nothing.
NoTraceOfFailure ==
  /\ \A m \in rows : m.by \in Committed => m.user \in entity[m.by].members
  /\ \A m \in rows : m.by \in Committed \cup {None}
  /\ row.updated \in Committed \cup {None}

Domain == INSTANCE ProjectLifecycle WITH project <- Aggregate(row, rows)

\* A commit over something that changed while the request was under way.
OverwritesUnseenChange ==
  \E r \in Req : phase[r] = "inserting" /\ r \in Committed' /\ ~fresh[r]

\* Apart from such commits the stored aggregate lives as ProjectLifecycle
\* says: two SELECTs, DELETE all, UPDATE and INSERT all amount to one call of
\* one method of the aggregate.
FollowsTheDomain ==
  Domain!Init /\ [][OverwritesUnseenChange \/ Domain!Next]_stored

\* Requests that were taken up all end, and free their connections, whoever
\* they wait for and whoever crashes.
EveryRequestEnds == Open # {} ~> Open = {}

\* project_repository.py:94-95 calls "DELETE all existing rows, INSERT fresh
\* rows from entity" simple and correct: a commit changes the members as its
\* request asked, and no others.
MembersReconciled ==
  [][\A r \in Committed' \ Committed :
       CASE op[r].kind = "add" -> Listed' = Listed \cup {op[r].arg}
         [] op[r].kind = "remove" -> Listed' = Listed \ {op[r].arg}
         [] OTHER -> Listed' = Listed]_vars
=============================================================================
