----------------------- MODULE ProjectCreationProofs -----------------------
(***************************************************************************)
(* Proofs about the creation of projects, for any number of requests and   *)
(* any mapping from texts to slugs.  A pending row differs in its slug     *)
(* from every stored one and from every other pending one: that is what    *)
(* makes its commit safe, and the lookup plays no part in it.  A slug that *)
(* was taken once stays taken, which is what makes late requests lose at   *)
(* the lookup.                                                             *)
(***************************************************************************)
EXTENDS ProjectCreation, TLAPS

Holds(r) == phase[r] = "inserted"

SomeoneHas(r) == \E p \in projects : Wanted(p) = Wanted(r)

RequestInv(r) ==
  /\ phase[r] # "new" => call[r] \in Calls
  /\ phase[r] \in OpenPhase => WellFormed(call[r])
  /\ phase[r] = "new" => ~late[r]
  /\ late[r] => SomeoneHas(r)
  /\ Holds(r) => ~SomeoneHas(r)

PairInv ==
  \A q, r \in Req : q # r /\ Holds(q) /\ Holds(r) => Wanted(q) # Wanted(r)

Inv == /\ TypeOK
       /\ OneProjectPerSlug
       /\ AnswerTellsTheTruth
       /\ TakenBeforeIsConflict
       /\ PairInv
       /\ \A r \in Req : RequestInv(r)

LEMMA InitInv == Init => Inv
  BY CreationAssumption DEF Init, Inv, TypeOK, OneProjectPerSlug,
     AnswerTellsTheTruth, TakenBeforeIsConflict, PairInv, RequestInv, Holds,
     SomeoneHas, OpenPhase

-----------------------------------------------------------------------------
\* A request moves and nothing else changes: what has to be asked of the move.

LEMMA MoveInv ==
  ASSUME Inv, NEW r \in Req, phase[r] # "new",
         NEW p \in OpenPhase \cup EndPhase,
         Goto(r, p), UNCHANGED <<projects, call, late>>,
         p \in OpenPhase => WellFormed(call[r]),
         p \notin {"ok", "unacked"}, phase[r] \notin {"ok", "unacked"},
         p \in {"conflict", "error"} => SomeoneHas(r),
         late[r] => p \in {"asked", "conflict", "lost"},
         p = "inserted" => ~SomeoneHas(r) /\ ~KeyPending(r)
  PROVE  Inv'
<1>1. TypeOK'
  BY DEF Inv, TypeOK, Goto
<1>2. /\ phase'[r] = p
      /\ \A q \in Req \ {r} : phase'[q] = phase[q]
  BY DEF Goto, Inv, TypeOK
<1>3. \A q \in Req : Wanted(q)' = Wanted(q) /\ SomeoneHas(q)' = SomeoneHas(q)
  BY DEF Wanted, SomeoneHas
<1>4. r \notin projects
  BY DEF Inv, AnswerTellsTheTruth
<1>5. AnswerTellsTheTruth'
  BY <1>2, <1>3, <1>4 DEF Inv, AnswerTellsTheTruth, SomeoneHas, Wanted
<1>6. TakenBeforeIsConflict'
  BY <1>2 DEF Inv, TakenBeforeIsConflict
<1>7. PairInv'
  BY <1>2, <1>3 DEF Inv, PairInv, Holds, KeyPending
<1>8. \A q \in Req : RequestInv(q)'
  <2> TAKE q \in Req
  <2>1. CASE q = r
    BY <1>2, <1>3, <2>1 DEF Inv, RequestInv, Holds, OpenPhase, EndPhase
  <2>2. CASE q # r
    BY <1>2, <1>3, <2>2 DEF Inv, RequestInv, Holds
  <2> QED
    BY <2>1, <2>2
<1>9. OneProjectPerSlug'
  BY <1>3 DEF Inv, OneProjectPerSlug, TypeOK, Wanted
<1> QED
  BY <1>1, <1>5, <1>6, <1>7, <1>8, <1>9 DEF Inv

LEMMA PostInv ==
  ASSUME Inv, NEW r \in Req, Post(r)
  PROVE  Inv'
<1> PICK c \in Calls :
      /\ call' = [call EXCEPT ![r] = c]
      /\ late' = [late EXCEPT ![r] = \E p \in projects : Wanted(p) = Resolved(c)]
      /\ Goto(r, IF WellFormed(c) THEN "asked" ELSE "malformed")
  BY DEF Post
<1>1. phase[r] = "new" /\ projects' = projects
  BY DEF Post
<1>2. r \notin projects
  BY <1>1 DEF Inv, AnswerTellsTheTruth
<1>3. /\ call'[r] = c /\ phase'[r] = IF WellFormed(c) THEN "asked" ELSE "malformed"
      /\ late'[r] = \E p \in projects : Wanted(p) = Resolved(c)
      /\ \A q \in Req \ {r} : /\ phase'[q] = phase[q] /\ call'[q] = call[q]
                              /\ late'[q] = late[q]
  BY DEF Goto, Inv, TypeOK
<1>4. TypeOK'
  BY <1>1, <1>2, <1>3 DEF Inv, TypeOK, Goto, OpenPhase, EndPhase
<1>5. \A q \in Req \ {r} : Wanted(q)' = Wanted(q)
  BY <1>3 DEF Wanted
<1>6. projects \subseteq Req \ {r}
  BY <1>2 DEF Inv, TypeOK
<1>7. \A q \in Req \ {r} : SomeoneHas(q)' = SomeoneHas(q)
  BY <1>1, <1>5, <1>6 DEF SomeoneHas
<1>8. late'[r] => SomeoneHas(r)'
  BY <1>1, <1>3, <1>5, <1>6 DEF SomeoneHas, Wanted
<1>9. OneProjectPerSlug'
  BY <1>1, <1>5, <1>6 DEF Inv, OneProjectPerSlug
<1>10. AnswerTellsTheTruth'
  BY <1>1, <1>2, <1>3, <1>5, <1>6 DEF Inv, AnswerTellsTheTruth
<1>11. TakenBeforeIsConflict'
  BY <1>3 DEF Inv, TakenBeforeIsConflict
<1>12. PairInv'
  BY <1>3, <1>5 DEF Inv, PairInv, Holds
<1>13. \A q \in Req : RequestInv(q)'
  <2> TAKE q \in Req
  <2>1. CASE q = r
    BY <1>3, <1>8, <2>1 DEF RequestInv, Holds, OpenPhase
  <2>2. CASE q # r
    BY <1>3, <1>7, <2>2 DEF Inv, RequestInv, Holds
  <2> QED
    BY <2>1, <2>2
<1> QED
  BY <1>4, <1>9, <1>10, <1>11, <1>12, <1>13 DEF Inv

LEMMA CommitInv ==
  ASSUME Inv, NEW r \in Req, Commit(r)
  PROVE  Inv'
<1> PICK o \in {"ok", "unacked"} : Goto(r, o)
  BY DEF Commit
<1>1. /\ phase[r] = "inserted" /\ projects' = projects \cup {r}
      /\ UNCHANGED <<call, late>>
  BY DEF Commit
<1>2. phase'[r] = o /\ \A q \in Req \ {r} : phase'[q] = phase[q]
  BY DEF Goto, Inv, TypeOK
<1>3. \A q \in Req : Wanted(q)' = Wanted(q)
  BY <1>1 DEF Wanted
<1>4. ~SomeoneHas(r) /\ WellFormed(call[r]) /\ ~late[r]
  BY <1>1 DEF Inv, RequestInv, Holds, OpenPhase, TakenBeforeIsConflict
<1>5. TypeOK'
  BY <1>1, <1>2, <1>4 DEF Inv, TypeOK, Goto, EndPhase, WellFormed
<1>6. OneProjectPerSlug'
  BY <1>1, <1>3, <1>4 DEF Inv, TypeOK, OneProjectPerSlug, SomeoneHas
<1>7. AnswerTellsTheTruth'
  BY <1>1, <1>2, <1>3 DEF Inv, TypeOK, AnswerTellsTheTruth
<1>8. TakenBeforeIsConflict'
  BY <1>1, <1>2, <1>4 DEF Inv, TakenBeforeIsConflict
<1>9. PairInv'
  BY <1>2, <1>3 DEF Inv, PairInv, Holds
<1>10. \A q \in Req : RequestInv(q)'
  <2> TAKE q \in Req
  <2>1. SomeoneHas(q) => SomeoneHas(q)'
    BY <1>1, <1>3 DEF SomeoneHas, Inv, TypeOK
  <2>2. CASE q = r
    BY <1>1, <1>2, <2>1, <2>2 DEF Inv, RequestInv, Holds, OpenPhase
  <2>3. CASE q # r
    <3>1. Holds(q)' => Wanted(q)' # Wanted(r)' /\ ~SomeoneHas(q)
      BY <1>1, <1>2, <1>3, <2>3 DEF Inv, PairInv, RequestInv, Holds
    <3>2. Holds(q)' => ~SomeoneHas(q)'
      BY <1>1, <1>3, <3>1 DEF SomeoneHas, Inv, TypeOK
    <3> QED
      BY <1>1, <1>2, <2>1, <2>3, <3>2 DEF Inv, RequestInv
  <2> QED
    BY <2>2, <2>3
<1> QED
  BY <1>5, <1>6, <1>7, <1>8, <1>9, <1>10 DEF Inv

LEMMA NextInv == Inv /\ [Next]_vars => Inv'
<1> SUFFICES ASSUME Inv, [Next]_vars PROVE Inv'
  OBVIOUS
<1>1. ASSUME NEW r \in Req, Post(r) PROVE Inv'
  BY <1>1, PostInv
<1>2. ASSUME NEW r \in Req, LookUp(r) PROVE Inv'
  <2>1. WellFormed(call[r]) /\ (late[r] => SomeoneHas(r)) /\ phase[r] = "asked"
    BY <1>2 DEF LookUp, Inv, RequestInv, OpenPhase
  <2>2. Taken(call[r]) <=> SomeoneHas(r)
    BY DEF Taken, SomeoneHas, Wanted
  <2>3. CASE Taken(call[r])
    BY <1>2, <2>1, <2>2, <2>3, MoveInv DEF LookUp, RollBack, OpenPhase, EndPhase
  <2>4. CASE ~Taken(call[r])
    BY <1>2, <2>1, <2>2, <2>4, MoveInv DEF LookUp, OpenPhase, EndPhase
  <2> QED
    BY <2>3, <2>4
<1>3. ASSUME NEW r \in Req, InsertProject(r) PROVE Inv'
  <2>1. WellFormed(call[r]) /\ ~late[r]
    BY <1>3 DEF InsertProject, Inv, RequestInv, OpenPhase, TakenBeforeIsConflict
  <2> QED
    BY <1>3, <2>1, MoveInv DEF InsertProject, KeyTaken, SomeoneHas, OpenPhase, EndPhase
<1>4. ASSUME NEW r \in Req, InsertFails(r) PROVE Inv'
  <2>1. ~late[r]
    BY <1>4 DEF InsertFails, Inv, TakenBeforeIsConflict
  <2> QED
    BY <1>4, <2>1, MoveInv DEF InsertFails, RollBack, KeyTaken, SomeoneHas, OpenPhase, EndPhase
<1>5. ASSUME NEW r \in Req, Commit(r) PROVE Inv'
  BY <1>5, CommitInv
<1>6. ASSUME NEW r \in Req, Crash(r) PROVE Inv'
  BY <1>6, MoveInv DEF Crash, RollBack, Open, OpenPhase, EndPhase
<1>7. CASE UNCHANGED vars
  BY <1>7 DEF vars, Inv, TypeOK, OneProjectPerSlug, AnswerTellsTheTruth,
     TakenBeforeIsConflict, PairInv, RequestInv, Holds, SomeoneHas, Wanted
<1> QED
  BY <1>1, <1>2, <1>3, <1>4, <1>5, <1>6, <1>7 DEF Next, Proceed

-----------------------------------------------------------------------------
LEMMA Invariant == Spec => []Inv
  BY InitInv, NextInv, PTL DEF Spec

\* Types, and no unsound slug that a client gave (project_dtos.py:35-48).
THEOREM TypeCorrect == Spec => []TypeOK
<1>1. Inv => TypeOK
  BY DEF Inv
<1> QED
  BY <1>1, Invariant, PTL

\* No two projects share a slug, however many requests overlap or repeat
\* themselves (project_service.py:60-63).
THEOREM SlugsUnique == Spec => []OneProjectPerSlug
<1>1. Inv => OneProjectPerSlug
  BY DEF Inv
<1> QED
  BY <1>1, Invariant, PTL

\* 201 exactly when the project is stored; who loses loses to a stored project
\* (project_service.py:60-74).
THEOREM AnswersAreTrue == Spec => []AnswerTellsTheTruth
<1>1. Inv => AnswerTellsTheTruth
  BY DEF Inv
<1> QED
  BY <1>1, Invariant, PTL

\* A slug taken beforehand is a conflict and never a server error
\* (endpoints/projects.py:48-49).
THEOREM LateIsConflict == Spec => []TakenBeforeIsConflict
<1>1. Inv => TakenBeforeIsConflict
  BY DEF Inv
<1> QED
  BY <1>1, Invariant, PTL
=============================================================================
