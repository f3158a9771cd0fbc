------------------------- MODULE TaskCreationProofs -------------------------
(***************************************************************************)
(* Proofs about the creation of tasks, for every finite set of requests,   *)
(* every pool size and every set of people.  Inv adds to the checked       *)
(* invariants what a request knows while it is under way: the row it read  *)
(* is the stored one and the rules held, as long as nobody changed the     *)
(* project (fresh), and a poisoned session had a misfit to save.           *)
(***************************************************************************)
EXTENDS TaskCreation, FiniteSetTheorems, TLAPS

RequestInv(r) ==
  /\ phase[r] = "poisoned" => reply[r] = "misfit"
  /\ phase[r] = "error" => call[r].links = "dangling" \/ reply[r] = "misfit"
  /\ phase[r] = "found" /\ fresh[r] => seen[r] = [project EXCEPT !.members = {}]
  /\ phase[r] \in {"inserted", "answered", "flushed"} /\ fresh[r]
       => Admits(project, call[r])

Typed ==
  /\ project \in Project
  /\ tasks \subseteq Req
  /\ embeddings \subseteq Req
  /\ phase \in [Req -> {"new", "queued"} \cup InsidePhase \cup EndPhase]
  /\ call \in [Req -> Calls \cup {None}]
  /\ seen \in [Req -> Project \cup {None}]
  /\ reply \in [Req -> Reply \cup {None}]
  /\ fresh \in [Req -> BOOLEAN]

Inv == Typed /\ AnswerTellsTheTruth /\ \A r \in Req : RequestInv(r)

LEMMA InitInv == Init => Inv
  BY CreationAssumption
  DEF Init, Inv, Typed, AnswerTellsTheTruth, RequestInv

\* A request that ends without a commit leaves the stored rows as they are.
LEMMA RollBackInv ==
  ASSUME Inv, NEW r \in Req, NEW outcome \in {"refused", "busy", "error", "lost"},
         phase[r] \in {"queued"} \cup InsidePhase, RollBack(r, outcome),
         outcome = "error" => call[r].links = "dangling" \/ reply[r] = "misfit"
  PROVE  Inv'
<1> USE DEF RollBack, Goto, stored
<1>1. Typed'
  BY DEF Inv, Typed, EndPhase
<1>2. AnswerTellsTheTruth'
  BY DEF Inv, Typed, AnswerTellsTheTruth, InsidePhase
<1>3. \A q \in Req : RequestInv(q)'
  BY DEF Inv, Typed, RequestInv
<1> QED
  BY <1>1, <1>2, <1>3 DEF Inv

LEMMA NextInv == Inv /\ [Next]_vars => Inv'
<1> SUFFICES ASSUME Inv, [Next]_vars PROVE Inv'
  OBVIOUS
<1> USE DEF Goto, stored
<1>1. CASE UNCHANGED vars
  BY <1>1 DEF vars, Inv, Typed, AnswerTellsTheTruth, RequestInv
<1>2. ASSUME NEW r \in Req, Arrive(r) PROVE Inv'
  BY <1>2 DEF Arrive, Inv, Typed, AnswerTellsTheTruth, RequestInv, InsidePhase, EndPhase
<1>3. ASSUME NEW r \in Req, LoadRow(r) PROVE Inv'
  <2>1. [project EXCEPT !.members = {}] \in Project
    BY DEF Inv, Typed, Project
  <2> QED
    BY <1>3, <2>1
    DEF LoadRow, Inv, Typed, AnswerTellsTheTruth, RequestInv, InsidePhase, EndPhase
<1>4. ASSUME NEW r \in Req, PoolTimeout(r) PROVE Inv'
  BY <1>4, RollBackInv DEF PoolTimeout, RollBack
<1>5. ASSUME NEW r \in Req, Refuse(r) PROVE Inv'
  BY <1>5, RollBackInv DEF Refuse, InsidePhase
<1>6. ASSUME NEW r \in Req, InsertTask(r) PROVE Inv'
  <2>1. fresh[r] => Loaded(r) = project
    BY <1>6 DEF InsertTask, Inv, Typed, RequestInv, Loaded, Project
  <2>2. fresh[r] => Admits(project, call[r])
    BY <1>6, <2>1 DEF InsertTask
  <2> QED
    BY <1>6, <2>2
    DEF InsertTask, Inv, Typed, AnswerTellsTheTruth, RequestInv, InsidePhase, EndPhase
<1>7. ASSUME NEW r \in Req, InsertFails(r) PROVE Inv'
  BY <1>7, RollBackInv DEF InsertFails, InsidePhase
<1>8. ASSUME NEW r \in Req, Answer(r) PROVE Inv'
  BY <1>8
  DEF Answer, Inv, Typed, AnswerTellsTheTruth, RequestInv, InsidePhase, EndPhase, Reply
<1>9. ASSUME NEW r \in Req, SaveEmbedding(r) PROVE Inv'
  BY <1>9
  DEF SaveEmbedding, Inv, Typed, AnswerTellsTheTruth, RequestInv, InsidePhase, EndPhase
<1>10. ASSUME NEW r \in Req, Commit(r) PROVE Inv'
  BY <1>10
  DEF Commit, Inv, Typed, AnswerTellsTheTruth, RequestInv, InsidePhase, EndPhase
<1>11. ASSUME NEW r \in Req, CommitFails(r) PROVE Inv'
  <2>1. reply[r] = "misfit"
    BY <1>11 DEF CommitFails, Inv, RequestInv
  <2> QED
    BY <1>11, <2>1, RollBackInv DEF CommitFails, InsidePhase
<1>12. ASSUME NEW r \in Req, Crash(r) PROVE Inv'
  BY <1>12, RollBackInv DEF Crash, Open, Inside
<1>13. CASE ChangeProject
  <2>1. Typed'
    BY <1>13 DEF ChangeProject, Inv, Typed
  <2>2. AnswerTellsTheTruth'
    BY <1>13 DEF ChangeProject, Inv, AnswerTellsTheTruth
  <2>3. ASSUME NEW q \in Req PROVE RequestInv(q)'
    BY <1>13 DEF ChangeProject, Inv, Typed, RequestInv, Inside, InsidePhase
  <2> QED
    BY <2>1, <2>2, <2>3 DEF Inv
<1> QED
  BY <1>1, <1>2, <1>3, <1>4, <1>5, <1>6, <1>7, <1>8, <1>9, <1>10, <1>11, <1>12, <1>13
  DEF Next, Proceed

LEMMA Invariance == Spec => []Inv
  BY InitInv, NextInv, PTL DEF Spec
-----------------------------------------------------------------------------
\* A step adds at most one request to those holding a connection, and only
\* when one is free.
LEMMA PoolStep ==
  ASSUME Inv, [Next]_vars, Cardinality(Inside) <= PoolLimit
  PROVE  Cardinality(Inside') <= PoolLimit
<1>1. IsFiniteSet(Inside) /\ Cardinality(Inside) \in Nat
  BY CreationAssumption, FS_Subset, FS_CardinalityType DEF Inside
<1>2. CASE \E r \in Req : LoadRow(r)
  <2>1. PICK r \in Req : LoadRow(r)
    BY <1>2
  <2>2. Inside' = Inside \cup {r} /\ r \notin Inside
    BY <2>1 DEF LoadRow, Goto, Inside, InsidePhase, Inv, Typed
  <2>3. Cardinality(Inside') = Cardinality(Inside) + 1
    BY <1>1, <2>2, FS_AddElement
  <2> QED
    BY <1>1, <2>1, <2>3, CreationAssumption DEF LoadRow, ConnectionFree
<1>3. CASE ~ \E r \in Req : LoadRow(r)
  <2>1. Inside' \subseteq Inside
    BY <1>3
    DEF Inside, InsidePhase, Inv, Typed, vars, Next, Proceed, Arrive, PoolTimeout,
        Refuse, InsertTask, InsertFails, Answer, SaveEmbedding, Commit, CommitFails,
        Crash, Open, ChangeProject, RollBack, Goto
  <2>2. Cardinality(Inside') \in Nat /\ Cardinality(Inside') <= Cardinality(Inside)
    BY <1>1, <2>1, FS_Subset, FS_CardinalityType
  <2> QED
    BY <1>1, <2>2, CreationAssumption
<1> QED
  BY <1>2, <1>3

\* Types, and a pool that is never overdrawn, whatever its size and however
\* many requests there are.
THEOREM TypeCorrect == Spec => []TypeOK
<1>1. Init => Cardinality(Inside) <= PoolLimit
  <2> SUFFICES ASSUME Init PROVE Inside = {}
    BY FS_EmptySet, CreationAssumption
  <2> QED
    BY DEF Init, Inside, InsidePhase
<1>2. Inv /\ Cardinality(Inside) <= PoolLimit /\ [Next]_vars =>
        (Cardinality(Inside) <= PoolLimit)'
  BY PoolStep
<1>3. Inv /\ Cardinality(Inside) <= PoolLimit => TypeOK
  BY DEF Inv, Typed, TypeOK
<1> QED
  BY <1>1, <1>2, <1>3, Invariance, PTL DEF Spec

\* 201 if and only if the task is stored, with the embedding if and only if
\* there was a usable one: for every interleaving, crash and answer.
THEOREM AnswersAreTrue == Spec => []AnswerTellsTheTruth
<1>1. Inv => AnswerTellsTheTruth
  BY DEF Inv
<1> QED
  BY <1>1, Invariance, PTL

\* An Ollama that is down makes no creation fail.
THEOREM OllamaMayBeDown == Spec => []AbsentOllamaIsNoError
<1>1. Inv => AbsentOllamaIsNoError
  BY DEF Inv, RequestInv, AbsentOllamaIsNoError
<1> QED
  BY <1>1, Invariance, PTL

\* A task is stored in an active project for one of its members, unless the
\* project was changed while the request was under way.
THEOREM RulesHoldWhenStored == Spec => StoredUnderTheRules
<1> DEFINE Ruled == \A r \in tasks' \ tasks :
        fresh[r] => CanAcceptTasks(project) /\ IsMember(project, call[r].caller)
<1>1. Inv /\ [Next]_vars => [Ruled]_vars
  <2> SUFFICES ASSUME Inv, Next, NEW r \in tasks' \ tasks, fresh[r]
               PROVE  CanAcceptTasks(project) /\ IsMember(project, call[r].caller)
    OBVIOUS
  <2>1. r \in Req /\ Commit(r)
    BY DEF Next, Proceed, Arrive, LoadRow, PoolTimeout, Refuse, InsertTask, InsertFails,
           Answer, SaveEmbedding, Commit, CommitFails, Crash, ChangeProject, RollBack,
           stored
  <2>2. Admits(project, call[r])
    BY <2>1 DEF Commit, Inv, Typed, RequestInv
  <2> QED
    BY <2>2 DEF Admits
<1> QED
  BY <1>1, Invariance, PTL DEF Spec, StoredUnderTheRules
=============================================================================
