---------------------------- MODULE TaskCreation ----------------------------
(***************************************************************************)
(* TaskService.create_task and what it waits for: a connection of the      *)
(* pool, the project (which other requests change meanwhile), the INSERT,  *)
(* Ollama's embedding of the text, the embedding's own INSERT and the      *)
(* commit of both.  The connection and the open transaction are held while *)
(* Ollama thinks.                                                          *)
(*                                                                         *)
(* Tasks and embeddings are known by the request that makes them.          *)
(***************************************************************************)
EXTENDS ProjectDomain, Naturals, FiniteSets

CONSTANTS Req,             \* requests, each made once
          Calls,           \* what they may ask for
          PoolLimit,       \* connections the pool hands out: pool_size + max_overflow
          InitialProject

\* What TaskCreate says that matters here: who calls, whether assignee_id and
\* parent_task_id name rows there are, and whether set_due_date accepts the
\* due date, if there is one.
Call == [caller: Person, links: {"good", "dangling"}, due: {"fit", "unfit"}]

ASSUME CreationAssumption ==
  /\ Calls \subseteq Call
  /\ IsFiniteSet(Req)
  /\ PoolLimit \in Nat \ {0}
  /\ InitialProject \in Project
  /\ InitialProject.owner \notin InitialProject.members
  /\ Ghost \notin InitialProject.members

\* What Ollama's answer amounts to: a vector of the column's dimension, one of
\* another dimension (OLLAMA_MODEL is configurable, the column is not), or
\* nothing: every exception becomes None.
Reply == {"vector", "misfit", "nothing"}

VARIABLES project,     \* the committed aggregate
          tasks,       \* requests whose task is committed
          embeddings,  \* requests whose embedding is committed
          phase,       \* how far each request is
          call,        \* what it asks for
          seen,        \* the project row it has read
          reply,       \* Ollama's answer
          fresh        \* history: the project is as it was when it was read

vars == <<project, tasks, embeddings, phase, call, seen, reply, fresh>>
stored == <<project, tasks, embeddings>>

\* InsidePhase: with a connection.
InsidePhase == {"found", "inserted", "answered", "flushed", "poisoned"}
\* ok: 201; unacked: committed, but the client never learns it; refused: 403
\* or 422; busy: no connection within pool_timeout; error: 500; lost: died.
EndPhase == {"ok", "unacked", "refused", "busy", "error", "lost"}

Inside == {r \in Req : phase[r] \in InsidePhase}
Open == Inside \cup {r \in Req : phase[r] = "queued"}

Init ==
  /\ project = InitialProject
  /\ tasks = {}
  /\ embeddings = {}
  /\ phase = [r \in Req |-> "new"]
  /\ call = [r \in Req |-> None]
  /\ seen = [r \in Req |-> None]
  /\ reply = [r \in Req |-> None]
  /\ fresh = [r \in Req |-> TRUE]

Goto(r, p) == phase' = [phase EXCEPT ![r] = p]

Arrive(r) ==
  /\ phase[r] = "new"
  /\ \E c \in Calls : call' = [call EXCEPT ![r] = c]
  /\ Goto(r, "queued")
  /\ UNCHANGED <<stored, seen, reply, fresh>>

\* Faulty variant: no limit.
AlwaysConnected == TRUE

ConnectionFree == Cardinality(Inside) < PoolLimit

\* The first statement gets a connection; then the project row is read.
LoadRow(r) ==
  /\ phase[r] = "queued"
  /\ ConnectionFree
  /\ seen' = [seen EXCEPT ![r] = [project EXCEPT !.members = {}]]
  /\ Goto(r, "found")
  /\ UNCHANGED <<stored, call, reply, fresh>>

\* Nobody gave a connection back in time.
PoolTimeout(r) ==
  /\ phase[r] = "queued"
  /\ ~ConnectionFree
  /\ Goto(r, "busy")
  /\ UNCHANGED <<stored, call, seen, reply, fresh>>

IsMember(p, u) == u \in p.members \cup {p.owner}

CanAcceptTasks(p) == p.status = "active"

\* Faulty variant: the status is not looked at.
AdmitsAnyStatus(p, c) == IsMember(p, c.caller) /\ c.due = "fit"

Admits(p, c) ==
  /\ IsMember(p, c.caller)
  /\ CanAcceptTasks(p)
  /\ c.due = "fit"

\* The member rows are read in a statement of their own.
Loaded(r) == [seen[r] EXCEPT !.members = project.members]

\* Faulty variant: the task stays although the request failed.
EndWithCommit(r, outcome) ==
  /\ Goto(r, outcome)
  /\ tasks' = IF phase[r] \in {"inserted", "answered", "flushed", "poisoned"}
              THEN tasks \cup {r} ELSE tasks
  /\ UNCHANGED <<project, embeddings, call, seen, reply, fresh>>

\* get_db_session rolls back, and the connection goes back to the pool.
RollBack(r, outcome) ==
  /\ Goto(r, outcome)
  /\ UNCHANGED <<stored, call, seen, reply, fresh>>

\* AuthorizationError or ValidationError.
Refuse(r) ==
  /\ phase[r] = "found"
  /\ ~Admits(Loaded(r), call[r])
  /\ RollBack(r, "refused")

\* TaskRepository.save flushes the INSERT; the transaction stays open.
InsertTask(r) ==
  /\ phase[r] = "found"
  /\ Admits(Loaded(r), call[r])
  /\ call[r].links = "good"
  /\ Goto(r, "inserted")
  /\ UNCHANGED <<stored, call, seen, reply, fresh>>

\* A foreign key refuses it; nothing turns IntegrityError into a client error.
InsertFails(r) ==
  /\ phase[r] = "found"
  /\ Admits(Loaded(r), call[r])
  /\ call[r].links = "dangling"
  /\ RollBack(r, "error")

\* Ollama answers, or the attempt fails.
Answer(r) ==
  /\ phase[r] = "inserted"
  /\ \E a \in Reply : reply' = [reply EXCEPT ![r] = a]
  /\ Goto(r, "answered")
  /\ UNCHANGED <<stored, call, seen, fresh>>

\* Faulty variants: an answer that does not fit is asked for again; having no
\* answer is an error like any other.
RetriesMisfit(r) ==
  /\ phase[r] = "answered"
  /\ Goto(r, IF reply[r] = "misfit" THEN "inserted" ELSE "flushed")
  /\ UNCHANGED <<stored, call, seen, reply, fresh>>

NothingIsAnError(r) ==
  /\ phase[r] = "answered"
  /\ Goto(r, IF reply[r] = "vector" THEN "flushed" ELSE "poisoned")
  /\ UNCHANGED <<stored, call, seen, reply, fresh>>

\* _save_embedding flushes the second INSERT, if there is a vector.  When the
\* flush fails SQLAlchemy rolls the transaction back, the task's INSERT with
\* it, and the session refuses to commit until somebody rolls it back; the
\* exception itself is swallowed by _store_embedding_safe.
SaveEmbedding(r) ==
  /\ phase[r] = "answered"
  /\ Goto(r, IF reply[r] = "misfit" THEN "poisoned" ELSE "flushed")
  /\ UNCHANGED <<stored, call, seen, reply, fresh>>

\* get_db_session commits both rows; then the answer is sent, and may be lost.
Commit(r) ==
  /\ phase[r] = "flushed"
  /\ \E outcome \in {"ok", "unacked"} : Goto(r, outcome)
  /\ tasks' = tasks \cup {r}
  /\ embeddings' = IF reply[r] = "vector" THEN embeddings \cup {r} ELSE embeddings
  /\ UNCHANGED <<project, call, seen, reply, fresh>>

\* PendingRollbackError.
CommitFails(r) ==
  /\ phase[r] = "poisoned"
  /\ RollBack(r, "error")

\* The worker or the connection dies: the server rolls the transaction back.
Crash(r) ==
  /\ r \in Open
  /\ RollBack(r, "lost")

\* Requests on the project commit meanwhile.  A commit may write back columns
\* and members its request read long before (ProjectRequests), so after it the
\* project may be any aggregate of its owner; users without an account cannot
\* be stored.
ChangeProject ==
  /\ \E p \in Project \ {project} :
       /\ p.owner = project.owner
       /\ p.members \subseteq Person \ {p.owner}
       /\ project' = p
  /\ fresh' = [r \in Req |-> fresh[r] /\ r \notin Inside]
  /\ UNCHANGED <<tasks, embeddings, phase, call, seen, reply>>

\* What a request does of its own accord once the server has taken it up.
Proceed(r) ==
  \/ LoadRow(r)
  \/ PoolTimeout(r)
  \/ Refuse(r)
  \/ InsertTask(r)
  \/ InsertFails(r)
  \/ SaveEmbedding(r)
  \/ Commit(r)
  \/ CommitFails(r)

Next ==
  \/ \E r \in Req : Arrive(r) \/ Proceed(r) \/ Answer(r) \/ Crash(r)
  \/ ChangeProject

\* The event loop and PostgreSQL keep running.
Fairness == \A r \in Req : WF_vars(Proceed(r))

\* Nothing in the code bounds the wait for Ollama: that it answers is assumed.
OllamaAnswers == \A r \in Req : WF_vars(Answer(r))

Spec == Init /\ [][Next]_vars

FairSpec == Spec /\ Fairness /\ OllamaAnswers
-----------------------------------------------------------------------------
\* Every variable has its type, and the pool never hands out more connections
\* than it has, however many requests wait for Ollama (session.py:28-34).
TypeOK ==
  /\ project \in Project
  /\ tasks \subseteq Req
  /\ embeddings \subseteq Req
  /\ phase \in [Req -> {"new", "queued"} \cup InsidePhase \cup EndPhase]
  /\ call \in [Req -> Calls \cup {None}]
  /\ seen \in [Req -> Project \cup {None}]
  /\ reply \in [Req -> Reply \cup {None}]
  /\ fresh \in [Req -> BOOLEAN]
  /\ Cardinality(Inside) <= PoolLimit

\* The answer tells the truth about both tables: 201 exactly when the task is
\* stored, with its embedding exactly when Ollama gave a usable one; any other
\* end leaves neither (task_service.py:108-115, session.py:45-56).
AnswerTellsTheTruth ==
  \A r \in Req :
    /\ phase[r] \in {"ok", "unacked"} <=> r \in tasks
    /\ r \in embeddings <=> r \in tasks /\ reply[r] = "vector"

\* Ollama being down costs no task: 500 has another cause (ai_service.py:8-9).
AbsentOllamaIsNoError ==
  \A r \in Req : phase[r] = "error" =>
    call[r].links = "dangling" \/ reply[r] = "misfit"

\* When a task is stored the project is active and its reporter a member,
\* unless the project changed after it was read (task_service.py:84-92).
StoredUnderTheRules ==
  [][\A r \in tasks' \ tasks :
       fresh[r] => CanAcceptTasks(project) /\ IsMember(project, call[r].caller)]_vars

\* Requests that arrived all end, with the pool's time limit or without.
EveryRequestEnds == Open # {} ~> Open = {}

\* task_service.py:12: "Embedding failure NEVER blocks task creation".
EmbeddingNeverBlocksCreation ==
  \A r \in Req : phase[r] = "error" => call[r].links = "dangling"
=============================================================================
