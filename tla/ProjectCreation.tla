--------------------------- MODULE ProjectCreation ---------------------------
(***************************************************************************)
(* ProjectService.create_project: resolve the slug, look it up, INSERT,    *)
(* commit.  Requests run side by side; two requests with the same call are *)
(* a client that repeats itself, after an answer was lost or while the     *)
(* first one is still under way.                                           *)
(*                                                                         *)
(* A project is known by the request that makes it.                        *)
(***************************************************************************)
CONSTANTS Req,     \* requests, each made once
          Calls,   \* what they may ask for
          Name,    \* texts a client may give as name or as slug
          Slug,
          SlugOf,  \* _slugify: several texts have the same slug
          Sound,   \* slugs with three characters or more that fit the pattern
          None     \* no slug is given

Call == [name: Name, slug: Name \cup {None}]

ASSUME CreationAssumption ==
  /\ None \notin Name
  /\ SlugOf \in [Name -> Slug]
  /\ Sound \subseteq Slug
  /\ Calls \subseteq Call
  /\ None \notin Calls

VARIABLES projects,  \* requests whose project is committed
          phase,     \* how far each request is
          call,      \* what it asks for
          late       \* history: its slug was taken before it came

vars == <<projects, phase, call, late>>

OpenPhase == {"asked", "free", "inserted"}
\* ok: 201; unacked: committed, but the client never learns it; malformed: 422;
\* conflict: 409; error: 500; lost: the connection or the worker died.
EndPhase == {"ok", "unacked", "malformed", "conflict", "error", "lost"}

Open == {r \in Req : phase[r] \in OpenPhase}

\* Faulty variant: a slug the client gives is stored as it is.
AnyText(c) == TRUE

\* The validators of ProjectCreate: a slug that was given is slugified first
\* and must be sound then.  One made of the name is not looked at.
WellFormed(c) == c.slug # None => SlugOf[c.slug] \in Sound

\* resolve_slug
Resolved(c) == SlugOf[IF c.slug = None THEN c.name ELSE c.slug]

Wanted(r) == Resolved(call[r])

\* Faulty variant: the lookup takes the name's slug, whatever slug was given.
TakenName(c) == \E p \in projects : Wanted(p) = SlugOf[c.name]

\* get_by_slug finds a committed row.
Taken(c) == \E p \in projects : Wanted(p) = Resolved(c)

Init ==
  /\ projects = {}
  /\ phase = [r \in Req |-> "new"]
  /\ call = [r \in Req |-> None]
  /\ late = [r \in Req |-> FALSE]

Goto(r, p) == phase' = [phase EXCEPT ![r] = p]

Post(r) ==
  /\ phase[r] = "new"
  /\ \E c \in Calls :
       /\ call' = [call EXCEPT ![r] = c]
       /\ late' = [late EXCEPT ![r] = \E p \in projects : Wanted(p) = Resolved(c)]
       /\ Goto(r, IF WellFormed(c) THEN "asked" ELSE "malformed")
  /\ UNCHANGED projects

\* Faulty variant: the session commits although the request failed.
EndWithCommit(r, outcome) ==
  /\ Goto(r, outcome)
  /\ projects' = IF phase[r] = "inserted" THEN projects \cup {r} ELSE projects
  /\ UNCHANGED <<call, late>>

\* get_db_session rolls back.
RollBack(r, outcome) ==
  /\ Goto(r, outcome)
  /\ UNCHANGED <<projects, call, late>>

\* Faulty variant: it waits for the slug to become free.
LookUpUntilFree(r) ==
  /\ phase[r] = "asked"
  /\ ~Taken(call[r])
  /\ Goto(r, "free")
  /\ UNCHANGED <<projects, call, late>>

\* ConflictError, if there is a project with this slug.
LookUp(r) ==
  /\ phase[r] = "asked"
  /\ \/ Taken(call[r]) /\ RollBack(r, "conflict")
     \/ ~Taken(call[r]) /\ Goto(r, "free") /\ UNCHANGED <<projects, call, late>>

\* Faulty variant: the table has no unique constraint.
NoUniqueConstraint(r) == FALSE

\* uq_projects_slug: somebody's committed row has the key.
KeyTaken(r) == \E p \in projects : Wanted(p) = Wanted(r)

\* An INSERT waits for the transaction that holds its key.
KeyPending(r) ==
  \E q \in Req \ {r} : phase[q] = "inserted" /\ Wanted(q) = Wanted(r)

\* save() flushes the INSERT; a new project has no members to insert.
InsertProject(r) ==
  /\ phase[r] = "free"
  /\ ~KeyPending(r)
  /\ ~KeyTaken(r)
  /\ Goto(r, "inserted")
  /\ UNCHANGED <<projects, call, late>>

\* IntegrityError, which no handler turns into a client error.
InsertFails(r) ==
  /\ phase[r] = "free"
  /\ ~KeyPending(r)
  /\ KeyTaken(r)
  /\ RollBack(r, "error")

\* get_db_session commits; then the answer is sent, and may be lost.
Commit(r) ==
  /\ phase[r] = "inserted"
  /\ \E outcome \in {"ok", "unacked"} : Goto(r, outcome)
  /\ projects' = projects \cup {r}
  /\ UNCHANGED <<call, late>>

\* The worker or the connection dies: the server rolls the transaction back.
Crash(r) ==
  /\ r \in Open
  /\ RollBack(r, "lost")

\* What a request does of its own accord once the server has taken it up.
Proceed(r) ==
  \/ LookUp(r)
  \/ InsertProject(r)
  \/ InsertFails(r)
  \/ Commit(r)

Next == \E r \in Req : Post(r) \/ Proceed(r) \/ Crash(r)

\* The event loop and PostgreSQL keep running.
Fairness == \A r \in Req : WF_vars(Proceed(r))

Spec == Init /\ [][Next]_vars

FairSpec == Spec /\ Fairness
-----------------------------------------------------------------------------
\* Every variable has its type, and a slug a client gave is stored only if it
\* is sound (project_dtos.py:35-48).
TypeOK ==
  /\ projects \subseteq Req
  /\ phase \in [Req -> {"new"} \cup OpenPhase \cup EndPhase]
  /\ call \in [Req -> Calls \cup {None}]
  /\ late \in [Req -> BOOLEAN]
  /\ \A p \in projects : call[p].slug # None => SlugOf[call[p].slug] \in Sound

\* Two projects never share a slug, so a client that repeats its call, with or
\* without knowing how the first one ended, gets no second project
\* (project_service.py:60-63, database/models/project.py:51).
OneProjectPerSlug ==
  \A p, q \in projects : Wanted(p) = Wanted(q) => p = q

\* The project is stored exactly when the answer is 201, and a request that
\* loses, early or late, loses to a project that is there: two rivals are never
\* both turned away (project_service.py:60-74, session.py:50-56).
AnswerTellsTheTruth ==
  \A r \in Req :
    /\ phase[r] \in {"ok", "unacked"} <=> r \in projects
    /\ phase[r] \in {"conflict", "error"} =>
         \E p \in projects \ {r} : Wanted(p) = Wanted(r)

\* A slug that was taken when the request came is answered 409 and nothing
\* else; only rivals that overlap can see the 500 of the constraint
\* (endpoints/projects.py:48-49).
TakenBeforeIsConflict ==
  \A r \in Req : late[r] => phase[r] \in {"malformed", "asked", "conflict", "lost"}

\* Requests that were taken up all end, whichever rival they wait for and
\* whoever crashes.
EveryRequestEnds == Open # {} ~> Open = {}
=============================================================================
