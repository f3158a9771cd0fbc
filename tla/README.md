# TLA+ for the task management service

A FastAPI service in four layers (domain, application, infrastructure, API)
keeps users, projects, tasks and task embeddings in PostgreSQL. Several worker
processes serve requests; inside one, requests interleave at every `await`.
Everything they share is the database: an object of the domain model lives in
one request only. What is hard about this code is therefore not the domain
rules themselves but whether they survive the way *load, change in memory,
select again, write what differs, commit* is interleaved with itself.

This directory specifies both: the rules, one operation at a time, and the
requests that carry them out, step by step.

## 1. Inventory

| Component | State | Operations | What makes it correct |
|---|---|---|---|
| `domain/models/task.py` Task | status, priority, assignee, due / started / completed / updated instants, texts, tags | transitions and their shorthands, `start`, `reopen`, `assign_to`, `unassign`, `change_priority`, `set_due_date`, `clear_due_date`, `add_tag`, `remove_tag` | dates agree with the status and with each other; finished tasks take no work |
| `domain/models/project.py` Project | status, owner, member set | transitions, `add_member`, `remove_member`, `transfer_ownership` | owner is never a member; ARCHIVED is final; nobody leaves unasked |
| `domain/models/user.py` User | role, flags, hash, names | profile changes; role and activation methods that nothing calls | one account per e-mail and user name |
| `TaskService`, `TaskRepository` | the `tasks` row | `create_task`, `update_task`, `transition_status`, `assign_task`, listings | the stored task lives by the domain's rules; failures leave no trace |
| `ProjectService`, `ProjectRepository` | the `projects` row and `project_members` rows | `create_project`, `update_project`, `transition_status`, `add_member`, `remove_member`, listings | one row per member; the stored aggregate lives by the domain's rules |
| `UserService`, `UserRepository` | the `users` row | `register`, `login`, `update_profile`, listing | unique keys, exact updates, honest conflicts |
| `AIService`, embeddings | `task_embeddings` row | embed on creation, semantic search, subtask suggestions | Ollama's absence costs no task |
| `database/session.py` | pool, transaction | open, commit, roll back, close | all or nothing; connections come back |
| `api/`, `main.py`, `core/` | none | routing, token check, error mapping, start-up | each failure maps to one answer |
| `alembic/`, `nginx/`, `gunicorn.conf.py`, Docker files | schema, processes | deployment | not modelled |

How they interact: an endpoint gets a service, the service repositories, the
repositories one `AsyncSession` (`api/dependencies.py`), all of one request.
`get_db_session` commits after the endpoint returned and rolls back on any
exception. Services call domain methods and turn their `ValueError` into
`ValidationError`; `main.py` turns the `AppError` family into 403, 404, 409,
422 or 401 and leaves everything else, `IntegrityError` included, to a 500.
Tasks refer to projects (membership and status are asked when a task is
created or changed), users and parents by foreign keys.

Hard behaviours, each with its line in `PROJECT.json` ("hazards"): two requests
on one row; the second SELECT in every `update`; the DELETE-all and INSERT-all
of member rows; checks made long before the write (slug, e-mail, membership,
project status); the wait for Ollama inside a transaction; a flush that fails
and is swallowed; crashes between flush and commit; waiting for rows, for
unique keys and for connections, in circles too.

## 2. Modules

| Module | Models | Source |
|---|---|---|
| `TaskDomain` | operators: the task record, the status graph, what each operation requires and does | `domain/models/task.py`, field handling of `TaskService` |
| `TaskLifecycle` | one task, one operation at a time; the abstract specification of `TaskRequests` | the same |
| `TaskRequests` | several requests on one stored task, one action per awaited database call | `task_service.py:126-212`, `task_repository.py:28-60`, `session.py` |
| `TaskCreation` | `create_task` with pool, project, Ollama, embedding and commit | `task_service.py:65-117, 251-333`, `ai_service.py:81-112` |
| `ProjectDomain`, `ProjectLifecycle` | the aggregate, one operation at a time | `domain/models/project.py` |
| `ProjectRequests` | several requests on one stored aggregate: row, member rows, locks, deadlocks | `project_repository.py:34-124`, `project_service.py:97-188` |
| `ProjectCreation` | `create_project` several times at once: slug, lookup, INSERT, commit, repeated calls | `project_service.py:44-76`, `project_dtos.py:19-51`, `project_repository.py:57-88` |
| `TaskQueries` | one reader (lists page by page, semantic search, suggestions) of rows that are created and changed meanwhile | `task_repository.py:62-113`, `task_service.py:214-247, 337-464`, `ai_service.py:114-177`, `ai_tasks.py` |
| `UserAccounts` | register, login and update_profile side by side | `user_service.py`, `user_repository.py` |
| `*Proofs` | theorems of the module they extend | |
| `MC*` | the instances TLC explores | |

`TaskDomain` and `ProjectDomain` are shared: the lifecycles and the request modules
of tasks and projects use the same `Accepts(op, x)` (no `ValueError`) and
`Effect(op, x, now)` (the object afterwards), or the operators these are made of.
`TaskRequests` and `ProjectRequests` instantiate the lifecycle with the stored row
(`task <- db`, `project <- Aggregate(row, rows)`). `TaskCreation` asks the
aggregate of `ProjectDomain` for admission, and its `ChangeProject` puts any
aggregate of the same owner in place of the present one, not only what one domain
step makes of it: a stale commit of `ProjectRequests` may revive a project or
bring members back.
In `TaskRequests` the members change by themselves
(`ChangeMembers`), as `ProjectRequests` lets them.

A list of tags is known by how often it holds each text (a function from `Tag` to
the naturals); its order is left out. `Normal` is `strip().lower()`: `add_tag` and
`remove_tag` look for and leave the normal form, while a PATCH brings any of
`TagLists` as it is, spelling and duplicates included.

In `UserAccounts` a row enters its two unique indexes one after the other, e-mail
first (`InsertRow`, `EnterUsername`): a registration that waits for its user name
(phase `inserting`) already holds its e-mail, and others wait for that. A word the
hash takes (`Word`) or not (`LongWord`) is told by the number of characters, which
is what `user_service.py:42, 50` counts; bcrypt itself sees the first 72 bytes,
which is the constant function `First72`, and two words may share them.

In `ProjectCreation` a project is known by the request that makes it, and the
slug of a text is a constant function: several texts share one, and that is all
the code can tell.

In `TaskQueries` rows are numbered in the order of their commits, and `created_at`
is a field: an object gets its date before the wait for Ollama and is committed
after it, so a new row may turn up anywhere in a list. Nothing makes `created_at`
unique and no list has a further sort key. `Before` is therefore a partial
order, `Listings` the *set* of sequences that `ORDER BY` allows, and each page is
cut out of a listing of its own: two SELECTs over an unchanged table may place
rows with equal keys differently. `first` and `since` are history: what matched
at the first page, and what has happened to the table since.

`Init` of `TaskLifecycle`, `ProjectLifecycle`, `TaskRequests` and
`ProjectRequests` is any state earlier requests may have left (a constant set
of tasks or aggregates). In `ProjectCreation` and `TaskQueries` it is the empty
table that start-up creates (`main.py`, `lifespan`).

How state corresponds to code, in all request modules: `phase[r]` is the await
a request stands at (or how it ended: `ok`, `unacked` for an answer lost after
COMMIT, `refused`, `conflict`, `error` for 500, `lost` for a crash); `entity[r]`
is the domain object in its hands; `base[r]` the ORM row `update` selected
again; `dirty[r]` / `written[r]` / `del[r]` / `ins[r]` what its open transaction
has written; `fresh[r]` is history: no commit has changed what it loaded;
`admitted` is history: whose caller was a member at some moment so far.
`db`, `users`, `row` and `rows`, `project`, `tasks` are what is committed.

### Facts about the libraries the models use

* PostgreSQL runs at READ COMMITTED, the default, which `session.py` leaves
  alone: a statement sees what is committed when it starts; an UPDATE or DELETE
  waits for the transaction that holds the row, then works on the newest
  version; an INSERT waits for a pending equal key; circles of waiting are
  found and one member fails.
* A session refers to loaded objects weakly. Repositories convert the row to a
  domain object and drop it, so the SELECT in `update` is a real reload; it
  compares with the committed row, and the UPDATE has the differing columns.
* FastAPI runs the code after `yield` before it sends the response
  (`requirements.txt` pins a release that does), so an `ok` answer follows the
  COMMIT. A failing flush rolls the whole transaction back and leaves the
  session unable to commit.
* pgvector's column type refuses a vector of another dimension, when a row is
  stored and when a query is compared; `ORDER BY` leaves ties in any order, and
  not in the same one twice; priorities are stored as text and sorted as text.
* bcrypt salts: hashing a word twice gives two column values. Identifiers are
  random UUIDs, taken as unique. The clock never steps back.
* No endpoint deletes a user, project or task, so a row that was found is found
  again and the `is None` branches of the repositories cannot be taken.

## 3. Runs and bounds

| Run | Question | Instance |
|---|---|---|
| `task_lifecycle` | Do the rules of Task fit together? | one user, two titles and priorities, two spellings of a tag and a blank one, seven instants: enough for a task to be started, sent back, reopened after cancelling, and finished |
| `task_requests` | Does the stored task live by those rules, and do requests end, when two overlap? | three initial tasks, one call of each kind, the refused, failing (unknown assignee) and empty ones included; two members, of whom one may be removed and come back; six instants |
| `project_lifecycle` | Do the rules of Project fit together? | three people (owner, member, outsider all change places), two names |
| `project_requests` | The same for the aggregate and its member rows | three requests of five calls on one project with one possible member row: a request that holds the member row and one that holds the project row or the key wait for each other, while a third one waits for either; an unknown user. Circles of three need more member rows than this; `SomebodyCanGoOn` (section 4) covers them |
| `accounts` | Are keys unique, updates exact, conflicts honest? | three requests: two that collide and one more, in e-mail, user name, both or with the founder; a long password, and a login with another word of the same first 72 bytes; a registration that holds its e-mail while it waits for its user name; four kinds of profile change |
| `task_creation` | Is the answer true, whatever Ollama and the project do? | two creations and one connection, so that one queues; four calls; every answer of Ollama; every aggregate the project may turn into |
| `project_creation` | Is there one project per slug, and is the answer true? | three requests of four calls: two texts with one slug, the same slug given and derived, an unsound one, an equal call repeated; so the second may come before the first is inserted, while it is pending, after it is stored or after it was rolled back |
| `task_queries` | What may a reader miss? | three rows, each of one of three kinds, which turn up anywhere in the list between two pages of one row (and of two, and one refused limit); rows of one kind share their keys in every list, rows of two kinds their `created_at`; two priorities, filtered and not; two texts; one change of a row; answers with a blank among the first three entries, with more than three, with none, and no list at all |

Four runs check a sentence of the documentation that the code does not keep, and
TLC shows how:

| Run | Sentence | What happens instead |
|---|---|---|
| `done_stays_done` | "Terminalni status" (`task.py:28`) | a request that loaded the task earlier writes its status over DONE |
| `members_reconciled` | "Simple and correct for small member sets" (`project_repository.py:95`) | a status change removes a member added since it loaded |
| `embedding_never_blocks` | "Embedding failure NEVER blocks task creation" (`task_service.py:12`) | a failing embedding flush takes the task with it |
| `embedding_follows_text` | "updated when task title/description changes" (`task_embedding.py:47`) | `update_task` leaves the vector of the old text |

They are properties of the same instances as the passing runs. For the first two
the complement is proved: a commit of a request that missed no change leaves a
DONE task done (`OnlyUnseenOverwritesUndoDone`), an archived project archived
(`OnlyUnseenOverwritesRevive`) and changes the members exactly as asked
(`SeeingCommitsReconcile`), so an overwritten change is the only cause there is.
The passing runs state what *does* hold in the presence of these: `FollowsTheDomain` says
that every change of the stored row is a domain operation or a commit of a
request that did not see an earlier change, and nothing else;
`UndisturbedChangeIsExact` and `StoredUnderTheRules` are exact up to the same
history; `StrangersChangeNothing` says how stale a membership check can be.

That also means that some hazards are bounded by the passing runs rather than
excluded, since the code does not exclude them:

* a caller removed from the project between the check and the write still
  writes; `StrangersChangeNothing` only says that he was a member at some moment
  of the request;
* the aggregate that mixes two states (row and member rows are read by two
  statements) is `fresh` no more when its commit comes, and `FollowsTheDomain`
  lets that commit overwrite;
* `StoredUnderTheRules` excepts a project that changed while the creation waited;
* queueing for a connection past the pool's time limit ends in the phase `busy`,
  which the model allows: the properties only say that the bound is kept and
  that the request ends;
* `UndisturbedChangeIsExact` excepts a profile somebody else changed meanwhile;
* `UndisturbedListIsExact` and `CreationsHideOnlyTies` except rows with equal sort
  keys: one may be shown twice and its like never, with no change at all.

Divergences that have no run of their own, because a passing property already
says how far the promise is kept, or because reading the two lines is enough:

* "Omit a field to leave it unchanged" (`users.py:35`): a change of name that
  overlaps a change of password brings the old password back. The history
  condition in `UndisturbedChangeIsExact` excludes exactly this.
* "409 if email or username already exists" (`auth.py:30`), "409 if slug already
  exists" (`projects.py:49`): the loser of an overlap gets 500.
  `NoFalseConflict` and `AnswerTellsTheTruth` allow that 500 only when somebody
  else's row is there; `TakenBeforeIsConflict` says that without an overlap it
  is a 409.
* An archived project "cannot receive new tasks" (`project.py:10`): it can, if it
  is archived while a creation waits, which `StoredUnderTheRules` excepts.
* Lists are "ordered by priority (ascending sort_order)" (`task_repository.py:74`)
  but sorted by the text, low before medium (`:79`). `Alphabetical` in
  `TaskQueries` is the order of the code, so its properties speak of that one,
  not of the one the sentence promises.
* "ValidationError → 422 if Ollama is unavailable" (`ai_tasks.py:118`): the
  suggestions are then an empty list and 200.
* A task in a terminal status "cannot be changed" (`task.py:10`): title,
  description and tags can (`task_service.py:143-161`); `TerminalTakesNoWork`
  states what is kept.
* COMPLETED means "all tasks finished" (`value_objects.py:34`); nothing looks at
  the tasks.
* A slug derived from a name is never checked against the pattern a given slug
  must fit, and may be empty; `ProjectCreation.TypeOK` speaks of given slugs
  only.

The project id in a task's URL is not compared with the task's project;
membership is asked of the task's own project, so the model has no such id.

Bounds are CONSTANTS: `Times` (instants a clock can show), `Req` (requests,
each made once), `Calls`, `PoolLimit`, `MaxRows` and `MaxEdits`.
`CHECK_DEADLOCK FALSE` stands in the runs of the request modules and of
`TaskQueries`, and only there, because all requests may have ended.
Symmetry is not used: the calls name requests and people individually.

### Fairness

`FairSpec` asks for weak fairness of `Proceed(r)`, the steps a request takes by
itself once it was taken up: the event loop resumes a coroutine whose await is
done, PostgreSQL answers, and its deadlock detector runs. Nothing is asked of
clients (`Load`, `Arrive`, ...), of crashes or of other people's changes.
`TaskCreation` also needs `OllamaAnswers`: no line of the code bounds that wait
(`ai_service.py:102`), so the assumption is stated apart. Without it a creation,
its connection and its transaction can stay for ever. Weak fairness is enough
because a request that waits for a row, a key or a connection is the only one
that has to move when the holder ends, or the holder's successors, each made
once, end in turn. `TaskQueries` states no fairness: whether a client asks for
another page is its own affair.

## 4. Proofs

TLC checks the instances above; tlapm checks these for every value of the
constants that meets the named assumptions (`SentinelAssumption`,
`TimesAssumption`, `InitialAssumption`, `RequestAssumption`, ...: sentinel values
are outside the sets they are added to, initial rows are rows the application
can have stored, calls are well-formed).

| Module | Theorems | Argument |
|---|---|---|
| `TaskLifecycleProofs` | `TypeCorrect`, `CompletionDates`, `WorkStarted`, `Timeline`; `DoneForever`, `TerminalQuiet`, `FirstStart` | `Consistent`, the conjunction of the three invariants, is inductive and no part is alone: `completed` is set only from IN_REVIEW, which the second part says has a start, which the third needs. Each operation is a lemma about records. |
| `TaskRequestsProofs` | `TypeCorrect`, `FailuresLeaveNoTrace`, `StoredTaskFollowsTheDomain`; `OnlyMembersWrite`; `OnlyUnseenOverwritesCorrupt`, `OnlyUnseenOverwritesUndoDone`, `RowHeldByOne` | the invariant says per request what it knows of the stored row: while fresh, its entity is `Effect(op, db, now)` for some later `now`, its reloaded row is `db`, and the columns it holds are exactly those in which the two differ; hence a fresh commit writes the entity back whole, which is a step of `TaskLifecycle`. `dirty` is empty outside `flushed`, which is why a rolled back request leaves nothing. `OnlyMembersWrite` has an invariant of its own: whoever is a member while his request is open has been seen as one. A commit that is a step of `TaskLifecycle` keeps the dates consistent and DONE done, by the lemmas on its operations. `RowHeldByOne` is the reason why this module needs no deadlock detector: who holds the row has only its COMMIT left. |
| `ProjectLifecycleProofs` | `TypeCorrect`, `OwnerNeverListed`, `ArchivedStays`, `PeopleStay` | type and disjointness of owner and members are inductive together; what each method does to owner and members (`MethodsKeepTheAggregate`) leaves `remove_member` as the only one after which somebody is missing |
| `ProjectRequestsProofs` | `TypeCorrect`, `OneRowEach`, `FailuresLeaveNoTrace`, `StoredProjectFollowsTheDomain`; `OnlyUnseenOverwritesRevive`, `SeeingCommitsReconcile`, `CommittedMembersAreListed`, `OnlyTheOwnerWrites`; `SomebodyCanGoOn`, `EveryStepAdvances` | what a transaction has deleted is stored and nobody else's; where it has inserted a row for a user, each stored row for him is one it has deleted, and no other transaction has inserted one. So commits in any order leave one row per member. While fresh, the deleted and targeted rows are all rows, the inserted ones are the aggregate's members, and the commit stores the aggregate: a step of `ProjectLifecycle`. `CommittedMembersAreListed` holds of stale commits too: who is in the aggregate has a row in `ins`, which the commit stores |
| `ProjectCreationProofs` | `TypeCorrect`, `SlugsUnique`, `AnswersAreTrue`, `LateIsConflict` | a pending row differs in its slug from all stored and all other pending ones, by the constraint alone: the lookup plays no part in uniqueness. A slug once taken stays taken, so a request that came later cannot get past the lookup |
| `TaskCreationProofs` | `TypeCorrect`, `AnswersAreTrue`, `OllamaMayBeDown`, `RulesHoldWhenStored` | the invariant ties each phase to what the request has seen: beyond `found`, a fresh request was admitted by the project as it is; a poisoned one has a misfit reply; the pool's limit needs the cardinality lemmas of the library |
| `UserAccountsProofs` | `TypeCorrect`, `KeysUnique`, `FailuresLeaveNoTrace`, `ConflictsAreReal`; `UndisturbedChangesAreExact`; `AccountsKeepTheirKeys`, `PasswordsAreTheAccountsOwn` | each key a row has entered in its index and not committed, the e-mail alone or both, differs from all committed ones and from all other pending ones (the unique constraint made its transaction wait or fail); a profile change never leaves the keys of its account, so committing it disturbs neither; while fresh, its object is exactly what was asked for and its written columns are the difference. `Given`, the pairs of accounts and secrets they were given, only grows, and objects in flight, stale ones included, carry a secret given to their own account |
| `TaskQueriesProofs` | `TypeCorrect`, `UndisturbedListsAreExact`, `CreationsHideNoOther` | `Before` is a weak order of a finite set: in any listing a row stands behind those with better keys and in front of those with worse ones (`ListingStands`), and between these bounds there are only rows that share its keys (`FirstPlaceTies`). Each shown row so far stands where its keys allow, or, once rows have turned up, no later than that: a creation moves no row forward (`CreationMovesBack`). So the place right behind the rows that are before a row shows that row or its like. Pages without ties, or a single page, are a listing (`UntiedIsListing`) |

`StoredTaskFollowsTheDomain` and `StoredProjectFollowsTheDomain` are safety
refinements; the lifecycles state no liveness. Every invariant and action
property of the runs is proved. Only model-checked are the five
`EveryRequestEnds`: liveness under fairness is outside the prover's reach.

For `ProjectRequests`, where transactions do wait for one another in circles,
the two halves of that argument which speak of states and steps are proved for
any number of requests. `SomebodyCanGoOn`: a request that cannot go on waits for
another one under way (`BlockedWaits`); if all of them waited, finitely many
would contain a smallest set that waits within itself, and in a smallest one
everybody is also waited for, since leaving out one who is not would give a
smaller set (`WaitingInACircle`); that is a circle as PostgreSQL breaks it.
`CanProceed(r)` lists the guards of the disjuncts of `Proceed(r)`, since the
prover knows nothing of ENABLED. `EveryStepAdvances`: each step takes one request to a later phase, or
leaves it fewer rows to delete or to insert, and sets back none. What is left
to fairness is that the step which can be taken is taken.

## 5. Not modelled, and why

* HTTP routing, tokens and the lookup of the caller: a request starts with a
  caller who has an account. The lookup reads one row that is never deleted.
* Single reads (`get_task`, `get_project`, `get_user`, ...): one SELECT each,
  after which nothing is kept. The members shown in a list of projects are read
  one project at a time, so such a list may mix states; nothing promises more.
* The role, activation and verification methods of `User`: nothing calls them.
* The update branch of `_save_embedding`: its one caller has just created the
  task, so the row cannot be there.
* Start-up (`main.py`) and the migrations: what may go wrong there (`create_all`
  from several workers, casts, the `vector` extension) happens inside SQLAlchemy
  and PostgreSQL. A model would consist of guesses about them, not of this code.
* Configuration, logging, wrappers of libraries, repository interfaces,
  deployment files: no state. What deployment implies, several workers that may
  die, is in every request module as interleaving and `Crash`.
* Fields that behave like a modelled one: the description as the title, the
  project's description and visibility as its name.
* Repeated POST of a task: two tasks, by design of the code; there is no
  property to state. Projects are protected by their slug.
