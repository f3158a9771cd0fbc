----------------------- MODULE ProjectRequestsProofs -----------------------
(***************************************************************************)
(* Proofs about concurrent requests on one project, for any number of      *)
(* requests, any pool and any people.  The inductive invariant Inv has     *)
(* three parts.  Known: a request holds an aggregate of the right owner.   *)
(* Holding and Apart: the rows a transaction has deleted are stored and    *)
(* nobody else's, and where it has inserted a row for a user, each stored  *)
(* row for that user is one it has deleted; so commits in any order leave  *)
(* one row per member.  Seen: while nothing was committed since its first  *)
(* read, its aggregate is the effect of its operation on the stored one.   *)
(***************************************************************************)
EXTENDS ProjectRequests, FiniteSetTheorems, TLAPS

Stored == Aggregate(row, rows)

Known(r) ==
  phase[r] # "new" => /\ entity[r] \in Project
                      /\ entity[r].owner = row.owner
                      /\ row.owner \notin entity[r].members
                      /\ entity[r].updated \in Committed \cup {None, r}
                      /\ op[r] \in Operation

Holding(r) ==
  /\ phase[r] # "deleting" => targets[r] = {}
  /\ phase[r] \notin {"deleting", "inserting"} => del[r] = {}
  /\ phase[r] # "inserting" => ins[r] = {} /\ dirty[r] = {}
  /\ del[r] \subseteq rows
  /\ \A m \in ins[r] : /\ m.user \in entity[r].members
                       /\ \A n \in rows : n.user = m.user => n \in del[r]

Apart(q, r) ==
  q # r => /\ del[q] \cap del[r] = {}
           /\ \A m \in ins[q], n \in ins[r] : m.user # n.user

Worked(r) ==
  Accepts(op[r], Stored) /\ entity[r] = Effect(op[r], Stored, r)

Seen(r) ==
  fresh[r] =>
    /\ phase[r] = "found" => entity[r] = Aggregate(row, {})
    /\ phase[r] = "loaded" => entity[r] = Stored
    /\ phase[r] \in {"applied", "reloaded", "deleting", "inserting"} => Worked(r)
    /\ phase[r] \in {"reloaded", "deleting", "inserting"} => base[r] = row
    /\ phase[r] \in {"deleting", "inserting"} => rows \subseteq targets[r] \cup del[r]
    /\ phase[r] = "inserting" => dirty[r] = Changed(r)

RequestInv(r) == Known(r) /\ Holding(r) /\ Seen(r)

Inv == /\ TypeOK
       /\ OneRowPerMember
       /\ NoTraceOfFailure
       /\ \A r \in Req : RequestInv(r)
       /\ \A q, r \in Req : Apart(q, r)

-----------------------------------------------------------------------------
\* The aggregate of what is stored, with all or none of its members.
LEMMA AggregateTyped ==
  ASSUME TypeOK
  PROVE  \A ms \in {rows, {}} :
           LET p == Aggregate(row, ms)
           IN  /\ p \in Project /\ p.owner = row.owner /\ p.updated = row.updated
               /\ row.owner \notin p.members
  BY DEF TypeOK, ProjectRow, Aggregate, Project

\* An accepted operation keeps the owner, does not list him, and stamps the
\* aggregate or leaves the stamp alone.
LEMMA EffectTyped ==
  ASSUME NEW p \in Project, NEW o \in Operation, NEW now \in Stamp,
         Accepts(o, p), p.owner \notin p.members
  PROVE  /\ Effect(o, p, now) \in Project
         /\ Effect(o, p, now).owner = p.owner
         /\ p.owner \notin Effect(o, p, now).members
         /\ Effect(o, p, now).updated \in {p.updated, now}
<1>1. CASE o.kind = "transition"
  <2>1. o.arg \in ProjectStatus
    BY <1>1 DEF Operation
  <2>2. Effect(o, p, now) = Transitioned(p, o.arg, now)
    BY <1>1 DEF Effect
  <2> QED
    BY <2>1, <2>2 DEF Transitioned, Project
<1>2. CASE o.kind = "add"
  <2>1. o.arg \in Person \cup {Ghost} /\ o.arg # p.owner
    BY <1>2 DEF Operation, Accepts, CanAddMember
  <2>2. Effect(o, p, now) = MemberAdded(p, o.arg, now)
    BY <1>2 DEF Effect
  <2> QED
    BY <2>1, <2>2 DEF MemberAdded, Project
<1>3. CASE o.kind = "remove"
  <2>1. Effect(o, p, now) = MemberRemoved(p, o.arg, now)
    BY <1>3 DEF Effect
  <2> QED
    BY <2>1 DEF MemberRemoved, Project
<1>4. CASE o.kind = "patch"
  <2>1. o.arg \in Name \cup {None}
    BY <1>4 DEF Operation
  <2>2. Effect(o, p, now) = Renamed(p, o.arg, now)
    BY <1>4 DEF Effect
  <2> QED
    BY <2>1, <2>2 DEF Renamed, Project
<1> QED
  BY <1>1, <1>2, <1>3, <1>4 DEF Operation

LEMMA InitInv == Init => Inv
<1> SUFFICES ASSUME Init PROVE Inv
  OBVIOUS
<1>1. PICK p \in InitialProjects :
        /\ row = [name |-> p.name, status |-> p.status, owner |-> p.owner,
                  updated |-> p.updated]
        /\ rows = [user: p.members, by: {None}]
  BY DEF Init
<1>2. p \in Project /\ p.owner \notin p.members /\ Ghost \notin p.members
  BY RequestAssumption
<1>3. /\ row \in ProjectRow
      /\ rows \subseteq [user: Person \ {row.owner}, by: Req \cup {None}]
  BY <1>1, <1>2 DEF Project, ProjectRow
<1>4. TypeOK
  BY <1>3 DEF Init, TypeOK
<1>5. OneRowPerMember
  BY <1>1 DEF OneRowPerMember
<1>6. None \notin Req /\ Committed = {} /\ row.updated = None
  BY <1>1, RequestAssumption, ProjectSentinels DEF Init, Committed
<1>7. NoTraceOfFailure
  BY <1>1, <1>6 DEF NoTraceOfFailure
<1>8. ASSUME NEW r \in Req PROVE RequestInv(r)
  BY DEF Init, RequestInv, Known, Holding, Seen
<1>9. \A q, r \in Req : Apart(q, r)
  BY DEF Init, Apart
<1> QED
  BY <1>4, <1>5, <1>7, <1>8, <1>9 DEF Inv

-----------------------------------------------------------------------------
\* A step of one request that stores nothing and writes only its own entries.
Own(r) ==
  /\ UNCHANGED <<stored, fresh>>
  /\ \A q \in Req \ {r} :
       /\ phase'[q] = phase[q] /\ op'[q] = op[q] /\ entity'[q] = entity[q]
       /\ base'[q] = base[q] /\ targets'[q] = targets[q] /\ del'[q] = del[q]
       /\ ins'[q] = ins[q] /\ dirty'[q] = dirty[q]

\* Such a step has to be looked at for that request alone.
LEMMA OwnInv ==
  ASSUME Inv, NEW r \in Req, Own(r), TypeOK', RequestInv(r)',
         phase[r] \notin {"ok", "unacked"}, phase'[r] \notin {"ok", "unacked"},
         \A q \in Req : Apart(q, r)'
  PROVE  Inv'
<1>1. Committed' = Committed /\ r \notin Committed /\ Committed \subseteq Req
  BY DEF Own, Committed
<1>2. row' = row /\ rows' = rows /\ fresh' = fresh /\ Stored' = Stored
  BY DEF Own, stored, Stored, Aggregate
<1>3. ASSUME NEW q \in Req PROVE RequestInv(q)'
  <2>1. CASE q = r
    BY <2>1
  <2>2. CASE q # r
    <3>1. Known(q)'
      BY <1>1, <1>2, <2>2 DEF Inv, RequestInv, Known, Own
    <3>2. Holding(q)'
      BY <1>2, <2>2 DEF Inv, RequestInv, Holding, Own
    <3>3. (Worked(q) <=> Worked(q)') /\ Changed(q)' = Changed(q)
      BY <1>2, <2>2 DEF Worked, Changed, Own
    <3>4. Seen(q)'
      BY <1>2, <2>2, <3>3 DEF Inv, RequestInv, Seen, Own, Aggregate
    <3> QED
      BY <3>1, <3>2, <3>4 DEF RequestInv
  <2> QED
    BY <2>1, <2>2
<1>4. OneRowPerMember'
  BY <1>2 DEF Inv, OneRowPerMember
<1>5. NoTraceOfFailure'
  BY <1>1, <1>2 DEF Inv, NoTraceOfFailure, Own, TypeOK
<1>6. \A p, q \in Req : Apart(p, q)'
  <2> TAKE p, q \in Req
  <2>1. Apart(q, p)' => Apart(p, q)'
    BY DEF Apart
  <2>2. CASE p # r /\ q # r
    BY <2>2 DEF Inv, Apart, Own
  <2>3. CASE p = r \/ q = r
    BY <2>1, <2>3
  <2> QED
    BY <2>2, <2>3
<1> QED
  BY <1>3, <1>4, <1>5, <1>6 DEF Inv

\* A request that ends without a commit lets go of everything.
LEMMA RollBackInv ==
  ASSUME Inv, NEW r \in Req, NEW x \in {"refused", "error", "lost"},
         phase[r] \in OpenPhase, RollBack(r, x)
  PROVE  Inv'
<1>1. TypeOK'
  BY DEF Inv, TypeOK, RollBack, Leave, Goto, EndPhase, OpenPhase, stored, request
<1>2. Own(r) /\ phase'[r] = x /\ entity' = entity /\ op' = op
  BY DEF Own, Inv, TypeOK, RollBack, Leave, Goto, stored, request
<1>3. targets'[r] = {} /\ del'[r] = {} /\ ins'[r] = {} /\ dirty'[r] = {}
  BY DEF Inv, TypeOK, RollBack, Leave
<1>4. Committed' = Committed
  BY <1>2 DEF Committed, Own, OpenPhase
<1>5. RequestInv(r)'
  BY <1>2, <1>3, <1>4 DEF Inv, RequestInv, Known, Holding, Seen, Own, stored, OpenPhase
<1>6. \A q \in Req : Apart(q, r)'
  BY <1>3 DEF Apart
<1> QED
  BY <1>1, <1>2, <1>5, <1>6, OwnInv DEF OpenPhase

\* Until its DELETE a request holds no rows, and is apart from all others.
LEMMA EmptyHanded ==
  ASSUME NEW r \in Req, del'[r] = {}, ins'[r] = {}
  PROVE  \A q \in Req : Apart(q, r)'
  BY DEF Apart

LEMMA LoadRowInv == ASSUME Inv, NEW r \in Req, LoadRow(r) PROVE Inv'
<1>1. PICK call \in Calls : op' = [op EXCEPT ![r] = call[1]]
                          /\ caller' = [caller EXCEPT ![r] = call[2]]
  BY DEF LoadRow
<1>2. call[1] \in Operation /\ call[2] \in Person
  BY RequestAssumption
<1>3. /\ Aggregate(row, {}) \in Project
      /\ Aggregate(row, {}).owner = row.owner
      /\ Aggregate(row, {}).updated = row.updated
      /\ row.owner \notin Aggregate(row, {}).members
  BY AggregateTyped DEF Inv
<1>4. /\ phase[r] = "new" /\ phase' = [phase EXCEPT ![r] = "found"]
      /\ entity' = [entity EXCEPT ![r] = Aggregate(row, {})]
      /\ UNCHANGED <<row, rows, base, targets, del, ins, dirty, fresh>>
  BY DEF LoadRow, Goto, stored, writes
<1>5. TypeOK'
  BY <1>1, <1>2, <1>3, <1>4 DEF Inv, TypeOK, OpenPhase
<1>6. Own(r)
  BY <1>1, <1>4 DEF Own, Inv, TypeOK, stored
<1>7. phase'[r] = "found" /\ entity'[r] = Aggregate(row, {}) /\ op'[r] = call[1]
  BY <1>1, <1>4 DEF Inv, TypeOK
<1>8. Committed' = Committed /\ row.updated \in Committed \cup {None}
  BY <1>4, <1>7 DEF Committed, Inv, TypeOK, NoTraceOfFailure
<1>9. /\ targets'[r] = {} /\ del'[r] = {} /\ ins'[r] = {} /\ dirty'[r] = {}
  BY <1>4 DEF Inv, RequestInv, Holding
<1>10. RequestInv(r)'
  <2>1. Known(r)'
    BY <1>2, <1>3, <1>4, <1>7, <1>8 DEF Known
  <2>2. Holding(r)'
    BY <1>9 DEF Holding
  <2>3. Seen(r)'
    BY <1>4, <1>7 DEF Seen, Aggregate
  <2> QED
    BY <2>1, <2>2, <2>3 DEF RequestInv
<1> QED
  BY <1>4, <1>5, <1>6, <1>7, <1>9, <1>10, EmptyHanded, OwnInv

LEMMA LoadMembersInv == ASSUME Inv, NEW r \in Req, LoadMembers(r) PROVE Inv'
<1> DEFINE p == Aggregate(entity[r], rows)
<1>1. /\ phase[r] = "found" /\ phase' = [phase EXCEPT ![r] = "loaded"]
      /\ entity' = [entity EXCEPT ![r] = p]
      /\ UNCHANGED <<row, rows, op, caller, base, targets, del, ins, dirty, fresh>>
  BY DEF LoadMembers, Goto, stored, request, writes
<1>2. Known(r) /\ entity[r] \in Project /\ entity[r].owner = row.owner
  BY <1>1 DEF Inv, RequestInv, Known
<1>3. /\ p \in Project /\ p.owner = row.owner /\ p.updated = entity[r].updated
      /\ row.owner \notin p.members
  BY <1>2 DEF Inv, TypeOK, Aggregate, Project
<1>4. fresh[r] => p = Stored
  <2>1. fresh[r] => entity[r] = Aggregate(row, {})
    BY <1>1 DEF Inv, RequestInv, Seen
  <2>2. Aggregate(Aggregate(row, {}), rows) = Aggregate(row, rows)
    BY DEF Aggregate
  <2> QED
    BY <2>1, <2>2 DEF Stored
<1> HIDE DEF p
<1>5. TypeOK'
  BY <1>1, <1>3 DEF Inv, TypeOK, OpenPhase
<1>6. Own(r)
  BY <1>1 DEF Own, Inv, TypeOK, stored
<1>7. phase'[r] = "loaded" /\ entity'[r] = p
  BY <1>1 DEF Inv, TypeOK
<1>8. Committed' = Committed
  BY <1>1, <1>7 DEF Committed, Inv, TypeOK
<1>9. /\ targets'[r] = {} /\ del'[r] = {} /\ ins'[r] = {} /\ dirty'[r] = {}
  BY <1>1 DEF Inv, RequestInv, Holding
<1>10. RequestInv(r)'
  <2>1. Known(r)'
    BY <1>1, <1>2, <1>3, <1>7, <1>8 DEF Known
  <2>2. Holding(r)'
    BY <1>9 DEF Holding
  <2>3. Seen(r)'
    BY <1>1, <1>4, <1>7 DEF Seen, Stored, Aggregate
  <2> QED
    BY <2>1, <2>2, <2>3 DEF RequestInv
<1> QED
  BY <1>1, <1>5, <1>6, <1>7, <1>9, <1>10, EmptyHanded, OwnInv

LEMMA ApplyInv == ASSUME Inv, NEW r \in Req, Apply(r) PROVE Inv'
<1> DEFINE p == Effect(op[r], entity[r], r)
<1>1. /\ phase[r] = "loaded" /\ phase' = [phase EXCEPT ![r] = "applied"]
      /\ entity' = [entity EXCEPT ![r] = p]
      /\ UNCHANGED <<row, rows, op, caller, base, targets, del, ins, dirty, fresh>>
  BY DEF Apply, Goto, stored, request, writes
<1>2. /\ entity[r] \in Project /\ entity[r].owner = row.owner
      /\ row.owner \notin entity[r].members /\ op[r] \in Operation
      /\ entity[r].updated \in Committed \cup {None, r}
  BY <1>1 DEF Inv, RequestInv, Known
<1>3. Accepts(op[r], entity[r]) /\ r \in Stamp
  BY RequestAssumption DEF Apply
<1>4. /\ p \in Project /\ p.owner = row.owner /\ row.owner \notin p.members
      /\ p.updated \in {entity[r].updated, r}
  BY <1>2, <1>3, EffectTyped
<1>5. fresh[r] => p = Effect(op[r], Stored, r) /\ Accepts(op[r], Stored)
  BY <1>1, <1>3 DEF Inv, RequestInv, Seen
<1> HIDE DEF p
<1>6. TypeOK'
  BY <1>1, <1>4 DEF Inv, TypeOK, OpenPhase
<1>7. Own(r)
  BY <1>1 DEF Own, Inv, TypeOK, stored
<1>8. phase'[r] = "applied" /\ entity'[r] = p
  BY <1>1 DEF Inv, TypeOK
<1>9. Committed' = Committed
  BY <1>1, <1>8 DEF Committed, Inv, TypeOK
<1>10. /\ targets'[r] = {} /\ del'[r] = {} /\ ins'[r] = {} /\ dirty'[r] = {}
  BY <1>1 DEF Inv, RequestInv, Holding
<1>11. RequestInv(r)'
  <2>1. Known(r)'
    BY <1>1, <1>2, <1>4, <1>8, <1>9 DEF Known
  <2>2. Holding(r)'
    BY <1>10 DEF Holding
  <2>3. Stored' = Stored
    BY <1>1 DEF Stored, Aggregate
  <2>4. Seen(r)'
    BY <1>1, <1>5, <1>8, <2>3 DEF Seen, Worked
  <2> QED
    BY <2>1, <2>2, <2>4 DEF RequestInv
<1> QED
  BY <1>1, <1>6, <1>7, <1>8, <1>10, <1>11, EmptyHanded, OwnInv

LEMMA ReloadInv == ASSUME Inv, NEW r \in Req, Reload(r) PROVE Inv'
<1>1. /\ phase[r] = "applied" /\ phase' = [phase EXCEPT ![r] = "reloaded"]
      /\ base' = [base EXCEPT ![r] = row]
      /\ UNCHANGED <<row, rows, op, caller, entity, targets, del, ins, dirty, fresh>>
  BY DEF Reload, Goto, stored, request, writes
<1>2. TypeOK'
  BY <1>1 DEF Inv, TypeOK, OpenPhase
<1>3. Own(r) /\ phase'[r] = "reloaded" /\ base'[r] = row
  BY <1>1 DEF Own, Inv, TypeOK, stored
<1>4. Committed' = Committed /\ Stored' = Stored
  BY <1>1, <1>3 DEF Committed, Inv, TypeOK, Stored, Aggregate
<1>5. Known(r) /\ Holding(r) /\ (fresh[r] => Worked(r))
  BY <1>1 DEF Inv, RequestInv, Seen
<1>6. del'[r] = {} /\ ins'[r] = {}
  BY <1>1, <1>5 DEF Holding
<1>7. RequestInv(r)'
  BY <1>1, <1>3, <1>4, <1>5 DEF RequestInv, Known, Holding, Seen, Worked
<1> QED
  BY <1>1, <1>2, <1>3, <1>6, <1>7, EmptyHanded, OwnInv

LEMMA StartDeleteInv == ASSUME Inv, NEW r \in Req, StartDelete(r) PROVE Inv'
<1>1. /\ phase[r] = "reloaded" /\ phase' = [phase EXCEPT ![r] = "deleting"]
      /\ targets' = [targets EXCEPT ![r] = rows]
      /\ UNCHANGED <<row, rows, op, caller, entity, base, del, ins, dirty, fresh>>
  BY DEF StartDelete, Goto, stored, request
<1>2. TypeOK'
  BY <1>1 DEF Inv, TypeOK, OpenPhase, MemberRow
<1>3. Own(r) /\ phase'[r] = "deleting" /\ targets'[r] = rows
  BY <1>1 DEF Own, Inv, TypeOK, stored
<1>4. Committed' = Committed /\ Stored' = Stored
  BY <1>1, <1>3 DEF Committed, Inv, TypeOK, Stored, Aggregate
<1>5. Known(r) /\ Holding(r) /\ (fresh[r] => Worked(r) /\ base[r] = row)
  BY <1>1 DEF Inv, RequestInv, Seen
<1>6. del'[r] = {} /\ ins'[r] = {}
  BY <1>1, <1>5 DEF Holding
<1>7. RequestInv(r)'
  BY <1>1, <1>3, <1>4, <1>5 DEF RequestInv, Known, Holding, Seen, Worked
<1> QED
  BY <1>1, <1>2, <1>3, <1>6, <1>7, EmptyHanded, OwnInv

LEMMA DeleteRowInv == ASSUME Inv, NEW r \in Req, DeleteRow(r) PROVE Inv'
<1>1. PICK m \in targets[r] :
        /\ \A q \in Req \ {r} : m \notin del[q]
        /\ targets' = [targets EXCEPT ![r] = @ \ {m}]
        /\ del' = [del EXCEPT ![r] = IF m \in rows THEN @ \cup {m} ELSE @]
  BY DEF DeleteRow
<1>2. /\ phase[r] = "deleting"
      /\ UNCHANGED <<row, rows, phase, op, caller, entity, base, ins, dirty, fresh>>
  BY DEF DeleteRow, stored, request
<1>3. /\ targets'[r] = targets[r] \ {m}
      /\ del'[r] = IF m \in rows THEN del[r] \cup {m} ELSE del[r]
      /\ m \in MemberRow
  BY <1>1 DEF Inv, TypeOK
<1>4. TypeOK'
  BY <1>1, <1>2, <1>3 DEF Inv, TypeOK
<1>5. Own(r)
  BY <1>1, <1>2 DEF Own, Inv, TypeOK, stored
<1>6. Committed' = Committed /\ Stored' = Stored /\ Changed(r)' = Changed(r)
  BY <1>2 DEF Committed, Stored, Aggregate, Changed
<1>7. RequestInv(r)'
  <2>1. Known(r) /\ Holding(r) /\ Seen(r)
    BY DEF Inv, RequestInv
  <2>2. Known(r)'
    BY <1>2, <1>6, <2>1 DEF Known
  <2>3. Holding(r)'
    BY <1>2, <1>3, <2>1 DEF Holding
  <2>4. fresh[r] => rows' \subseteq targets'[r] \cup del'[r]
    BY <1>2, <1>3, <2>1 DEF Seen
  <2>5. Seen(r)'
    BY <1>2, <1>6, <2>1, <2>4 DEF Seen, Worked
  <2> QED
    BY <2>2, <2>3, <2>5 DEF RequestInv
<1>8. ASSUME NEW q \in Req PROVE Apart(q, r)'
  BY <1>1, <1>2, <1>3, <1>5 DEF Inv, Apart, Own
<1> QED
  BY <1>2, <1>4, <1>5, <1>7, <1>8, OwnInv

LEMMA UpdateRowInv == ASSUME Inv, NEW r \in Req, UpdateRow(r) PROVE Inv'
<1>1. /\ phase[r] = "deleting" /\ phase' = [phase EXCEPT ![r] = "inserting"]
      /\ targets[r] = {} /\ dirty' = [dirty EXCEPT ![r] = Changed(r)]
      /\ UNCHANGED <<row, rows, op, caller, entity, base, targets, del, ins, fresh>>
  BY DEF UpdateRow, Goto, stored, request
<1>2. TypeOK'
  BY <1>1 DEF Inv, TypeOK, OpenPhase, Changed
<1>3. Own(r) /\ phase'[r] = "inserting" /\ dirty'[r] = Changed(r)
  BY <1>1 DEF Own, Inv, TypeOK, stored
<1>4. Committed' = Committed /\ Stored' = Stored /\ Changed(r)' = Changed(r)
  BY <1>1, <1>3 DEF Committed, Inv, TypeOK, Stored, Aggregate, Changed
<1>5. Known(r) /\ Holding(r) /\ Seen(r)
  BY DEF Inv, RequestInv
<1>6. RequestInv(r)'
  <2>1. Known(r)'
    BY <1>1, <1>3, <1>4, <1>5 DEF Known
  <2>2. Holding(r)'
    BY <1>1, <1>3, <1>5 DEF Holding
  <2>3. Seen(r)'
    BY <1>1, <1>3, <1>4, <1>5 DEF Seen, Worked
  <2> QED
    BY <2>1, <2>2, <2>3 DEF RequestInv
<1>7. ASSUME NEW q \in Req PROVE Apart(q, r)'
  BY <1>1 DEF Inv, Apart
<1> QED
  BY <1>1, <1>2, <1>3, <1>6, <1>7, OwnInv

LEMMA InsertRowInv == ASSUME Inv, NEW r \in Req, InsertRow(r) PROVE Inv'
<1>1. PICK u \in ToInsert(r) \ {Ghost} :
        /\ Rivals(r, u) = {}
        /\ ~Taken(r, u)
        /\ ins' = [ins EXCEPT ![r] = @ \cup {[user |-> u, by |-> r]}]
  BY DEF InsertRow
<1>2. /\ phase[r] = "inserting"
      /\ UNCHANGED <<row, rows, phase, op, caller, entity, base, targets, del, dirty, fresh>>
  BY DEF InsertRow, stored, request
<1>3. Known(r) /\ Holding(r) /\ Seen(r)
  BY DEF Inv, RequestInv
<1>4. u \in entity[r].members /\ u \in Person
  BY <1>1, <1>2, <1>3 DEF ToInsert, Known, Project
<1>5. ins'[r] = ins[r] \cup {[user |-> u, by |-> r]}
  BY <1>1 DEF Inv, TypeOK
<1>6. TypeOK'
  BY <1>1, <1>2, <1>4, <1>5 DEF Inv, TypeOK, MemberRow
<1>7. Own(r)
  BY <1>1, <1>2 DEF Own, Inv, TypeOK, stored
<1>8. Committed' = Committed /\ Stored' = Stored /\ Changed(r)' = Changed(r)
  BY <1>2 DEF Committed, Stored, Aggregate, Changed
<1>9. RequestInv(r)'
  <2>1. Known(r)'
    BY <1>2, <1>3, <1>8 DEF Known
  <2>2. Holding(r)'
    BY <1>1, <1>2, <1>3, <1>4, <1>5 DEF Holding, Taken
  <2>3. Seen(r)'
    BY <1>2, <1>3, <1>8 DEF Seen, Worked
  <2> QED
    BY <2>1, <2>2, <2>3 DEF RequestInv
<1>10. ASSUME NEW q \in Req PROVE Apart(q, r)'
  <2> SUFFICES ASSUME q # r PROVE Apart(q, r)'
    BY DEF Apart
  <2>1. \A m \in ins[q] : m.user # u
    BY <1>1 DEF Rivals
  <2> QED
    BY <1>2, <1>5, <1>7, <2>1 DEF Inv, Apart, Own
<1> QED
  BY <1>2, <1>6, <1>7, <1>9, <1>10, OwnInv

-----------------------------------------------------------------------------
\* What a commit leaves in the two tables.
LEMMA CommitStores ==
  ASSUME Inv, NEW r \in Req, Commit(r)
  PROVE  /\ row' \in ProjectRow /\ row'.owner = row.owner
         /\ row'.updated \in {row.updated, entity[r].updated}
         /\ rows' = (rows \ del[r]) \cup ins[r]
         /\ \A m \in ins[r] : /\ m \in [user: Person \ {row.owner}, by: {r}]
                              /\ m.user \in entity[r].members
<1>1. /\ entity[r] \in Project /\ entity[r].owner = row.owner
      /\ row.owner \notin entity[r].members /\ row \in ProjectRow
  BY DEF Inv, RequestInv, Known, Commit, TypeOK
<1>2. row' = [c \in Column |-> IF c \in dirty[r] THEN entity[r][c] ELSE row[c]]
  BY DEF Commit
<1>3. /\ row' \in ProjectRow /\ row'.owner = row.owner
      /\ row'.updated \in {row.updated, entity[r].updated}
  BY <1>1, <1>2 DEF Column, Project, ProjectRow
<1>4. \A m \in ins[r] : /\ m \in [user: Person \ {row.owner}, by: {r}]
                        /\ m.user \in entity[r].members
  BY <1>1 DEF Inv, RequestInv, Holding, TypeOK, MemberRow
<1> QED
  BY <1>3, <1>4 DEF Commit

LEMMA CommitInv == ASSUME Inv, NEW r \in Req, Commit(r) PROVE Inv'
<1>1. PICK o \in {"ok", "unacked"} : Leave(r, o)
  BY DEF Commit
<1>2. /\ phase[r] = "inserting" /\ phase' = [phase EXCEPT ![r] = o]
      /\ targets' = [targets EXCEPT ![r] = {}] /\ del' = [del EXCEPT ![r] = {}]
      /\ ins' = [ins EXCEPT ![r] = {}] /\ dirty' = [dirty EXCEPT ![r] = {}]
      /\ fresh' = [q \in Req |-> fresh[q] /\ (q \in Open \ {r} => stored' = stored)]
      /\ UNCHANGED <<op, caller, entity, base>>
  BY <1>1 DEF Commit, Leave, Goto, request
<1>3. /\ row' \in ProjectRow /\ row'.owner = row.owner
      /\ row'.updated \in {row.updated, entity[r].updated}
      /\ rows' = (rows \ del[r]) \cup ins[r]
      /\ \A m \in ins[r] : /\ m \in [user: Person \ {row.owner}, by: {r}]
                           /\ m.user \in entity[r].members
  BY CommitStores
<1>4. /\ phase'[r] = o /\ targets'[r] = {} /\ del'[r] = {} /\ ins'[r] = {} /\ dirty'[r] = {}
      /\ \A q \in Req \ {r} :
           /\ phase'[q] = phase[q] /\ targets'[q] = targets[q] /\ del'[q] = del[q]
           /\ ins'[q] = ins[q] /\ dirty'[q] = dirty[q]
  BY <1>2 DEF Inv, TypeOK
<1>5. Committed' = Committed \cup {r} /\ r \notin Committed /\ Committed \subseteq Req
  BY <1>2, <1>4 DEF Committed
<1>6. RequestInv(r)
  BY DEF Inv
<1>7. rows' \subseteq [user: Person \ {row'.owner}, by: Req \cup {None}]
  BY <1>3 DEF Inv, TypeOK
<1>8. TypeOK'
  BY <1>2, <1>3, <1>4, <1>7 DEF Inv, TypeOK, EndPhase
<1>9. OneRowPerMember'
  <2> SUFFICES ASSUME NEW m \in rows', NEW n \in rows', m.user = n.user
               PROVE  m = n
    BY DEF OneRowPerMember
  <2>1. CASE m \in rows /\ n \in rows
    BY <2>1 DEF Inv, OneRowPerMember
  <2>2. CASE m \in ins[r] /\ n \in ins[r]
    BY <1>3, <2>2
  <2>3. \A x \in ins[r], y \in rows \ del[r] : x.user # y.user
    BY <1>6 DEF RequestInv, Holding
  <2> QED
    BY <1>3, <2>1, <2>2, <2>3
<1>10. NoTraceOfFailure'
  <2>1. row'.updated \in Committed' \cup {None}
    BY <1>2, <1>3, <1>5, <1>6 DEF Inv, NoTraceOfFailure, RequestInv, Known
  <2>2. ASSUME NEW m \in rows'
        PROVE  /\ m.by \in Committed' \cup {None}
               /\ m.by \in Committed' => m.user \in entity'[m.by].members
    <3>1. None \notin Req
      BY RequestAssumption, ProjectSentinels
    <3>2. CASE m \in ins[r]
      BY <1>2, <1>3, <1>5, <3>2
    <3>3. CASE m \in rows
      BY <1>2, <1>5, <3>1, <3>3 DEF Inv, NoTraceOfFailure
    <3> QED
      BY <1>3, <3>2, <3>3
  <2> QED
    BY <2>1, <2>2 DEF NoTraceOfFailure
<1>11. ASSUME NEW q \in Req PROVE RequestInv(q)'
  <2> Known(q) /\ Holding(q) /\ Seen(q)
    BY DEF Inv, RequestInv
  <2>1. CASE q = r
    <3>1. Known(q)'
      BY <1>2, <1>3, <1>5, <2>1 DEF Known
    <3>2. Holding(q)' /\ Seen(q)'
      BY <1>4, <2>1 DEF Holding, Seen
    <3> QED
      BY <3>1, <3>2 DEF RequestInv
  <2>2. CASE q # r
    <3>1. Known(q)'
      BY <1>2, <1>3, <1>4, <1>5, <2>2 DEF Known
    <3>2. Apart(q, r)
      BY DEF Inv
    <3>3. Holding(q)'
      <4>1. del'[q] \subseteq rows'
        BY <1>3, <1>4, <2>2, <3>2 DEF Holding, Apart
      <4>2. \A m \in ins'[q] : /\ m.user \in entity'[q].members
                               /\ \A n \in rows' : n.user = m.user => n \in del'[q]
        BY <1>2, <1>3, <1>4, <2>2, <3>2 DEF Holding, Apart
      <4> QED
        BY <1>4, <2>2, <4>1, <4>2 DEF Holding
    <3>4. Seen(q)'
      <4> SUFFICES ASSUME fresh'[q], q \in Open PROVE Seen(q)'
        BY <1>4, <2>2 DEF Seen, Open, OpenPhase
      <4>1. fresh[q] /\ row' = row /\ rows' = rows
        BY <1>2, <2>2 DEF stored
      <4>2. Stored' = Stored /\ Changed(q)' = Changed(q)
        BY <1>2, <4>1 DEF Stored, Aggregate, Changed
      <4> QED
        BY <1>2, <1>4, <2>2, <4>1, <4>2 DEF Seen, Worked, Aggregate
    <3> QED
      BY <3>1, <3>3, <3>4 DEF RequestInv
  <2> QED
    BY <2>1, <2>2
<1>12. ASSUME NEW p \in Req, NEW q \in Req PROVE Apart(p, q)'
  BY <1>4 DEF Inv, Apart
<1> QED
  BY <1>8, <1>9, <1>10, <1>11, <1>12 DEF Inv

LEMMA NextInv == Inv /\ [Next]_vars => Inv'
<1> SUFFICES ASSUME Inv, [Next]_vars PROVE Inv'
  OBVIOUS
<1>1. ASSUME NEW r \in Req, LoadRow(r) PROVE Inv'
  BY <1>1, LoadRowInv
<1>2. ASSUME NEW r \in Req, LoadMembers(r) PROVE Inv'
  BY <1>2, LoadMembersInv
<1>3. ASSUME NEW r \in Req, Refuse(r) PROVE Inv'
  BY <1>3, RollBackInv DEF Refuse, OpenPhase
<1>4. ASSUME NEW r \in Req, Apply(r) PROVE Inv'
  BY <1>4, ApplyInv
<1>5. ASSUME NEW r \in Req, Reload(r) PROVE Inv'
  BY <1>5, ReloadInv
<1>6. ASSUME NEW r \in Req, StartDelete(r) PROVE Inv'
  BY <1>6, StartDeleteInv
<1>7. ASSUME NEW r \in Req, DeleteRow(r) PROVE Inv'
  BY <1>7, DeleteRowInv
<1>8. ASSUME NEW r \in Req, UpdateRow(r) PROVE Inv'
  BY <1>8, UpdateRowInv
<1>9. ASSUME NEW r \in Req, InsertRow(r) PROVE Inv'
  BY <1>9, InsertRowInv
<1>10. ASSUME NEW r \in Req, InsertFails(r) PROVE Inv'
  BY <1>10, RollBackInv DEF InsertFails, OpenPhase
<1>11. ASSUME NEW r \in Req, Commit(r) PROVE Inv'
  BY <1>11, CommitInv
<1>12. ASSUME NEW r \in Req, BreakDeadlock(r) PROVE Inv'
  <2>1. PICK q \in Req : WaitsFor(r, q)
    BY <1>12 DEF BreakDeadlock, Circle
  <2>2. phase[r] \in OpenPhase
    BY <2>1 DEF WaitsFor, OpenPhase
  <2> QED
    BY <1>12, <2>2, RollBackInv DEF BreakDeadlock
<1>13. ASSUME NEW r \in Req, Crash(r) PROVE Inv'
  BY <1>13, RollBackInv DEF Crash, Open
<1>14. CASE UNCHANGED vars
  <2>1. /\ UNCHANGED <<row, rows, phase, op, caller, entity, base, targets, del,
                        ins, dirty, fresh>>
        /\ Committed' = Committed /\ Stored' = Stored
    BY <1>14 DEF vars, Committed, Stored, Aggregate
  <2>2. TypeOK' /\ OneRowPerMember' /\ NoTraceOfFailure'
    BY <2>1 DEF Inv, TypeOK, OneRowPerMember, NoTraceOfFailure
  <2>3. ASSUME NEW r \in Req PROVE RequestInv(r)'
    <3>1. Known(r)' /\ Holding(r)'
      BY <2>1 DEF Inv, RequestInv, Known, Holding
    <3>2. Changed(r)' = Changed(r) /\ (Worked(r) <=> Worked(r)')
      BY <2>1 DEF Changed, Worked
    <3>3. Seen(r)'
      BY <2>1, <3>2 DEF Inv, RequestInv, Seen, Aggregate
    <3> QED
      BY <3>1, <3>3 DEF RequestInv
  <2>4. ASSUME NEW q \in Req, NEW r \in Req PROVE Apart(q, r)'
    BY <2>1 DEF Inv, Apart
  <2> QED
    BY <2>2, <2>3, <2>4 DEF Inv
<1> QED
  BY <1>1, <1>2, <1>3, <1>4, <1>5, <1>6, <1>7, <1>8, <1>9, <1>10, <1>11,
     <1>12, <1>13, <1>14 DEF Next, Proceed

LEMMA Invariance == Spec => []Inv
  BY InitInv, NextInv, PTL DEF Spec

\* Types; member rows are of known users and never of the owner
\* (database/models/project.py:25-26).
THEOREM TypeCorrect == Spec => []TypeOK
<1>1. Inv => TypeOK
  BY DEF Inv
<1> QED
  BY <1>1, Invariance, PTL

\* However many requests delete and re-insert the member rows of a project, a
\* member has one row (project_repository.py:111-120).
THEOREM OneRowEach == Spec => []OneRowPerMember
<1>1. Inv => OneRowPerMember
  BY DEF Inv
<1> QED
  BY <1>1, Invariance, PTL

\* What is stored comes from requests that committed (session.py:50-56).
THEOREM FailuresLeaveNoTrace == Spec => []NoTraceOfFailure
<1>1. Inv => NoTraceOfFailure
  BY DEF Inv
<1> QED
  BY <1>1, Invariance, PTL

-----------------------------------------------------------------------------
LEMMA OnlyCommitWrites ==
  ASSUME Next, stored' # stored
  PROVE  \E r \in Req : Commit(r)
  BY DEF Next, Proceed, LoadRow, LoadMembers, Refuse, Apply, Reload, StartDelete,
     DeleteRow, UpdateRow, InsertRow, InsertFails, BreakDeadlock, Crash, RollBack

\* A commit by a request that missed nothing stores its aggregate.
LEMMA FreshCommit ==
  ASSUME Inv, NEW r \in Req, Commit(r), fresh[r]
  PROVE  /\ Stored' = entity[r]
         /\ entity[r].members \subseteq Person
<1>1. /\ entity[r] \in Project /\ base[r] = row /\ row \in ProjectRow
      /\ dirty[r] = {c \in Column : entity[r][c] # row[c]}
      /\ rows \subseteq del[r]
  BY DEF Inv, TypeOK, RequestInv, Known, Seen, Holding, Commit, Changed
<1>2. row' = [c \in Column |-> entity[r][c]] /\ rows' = ins[r]
  BY <1>1 DEF Commit
<1>3. {m.user : m \in ins[r]} = entity[r].members
  BY DEF Commit, ToInsert, Inv, RequestInv, Holding
<1>4. entity[r].members \subseteq Person
  BY <1>3 DEF Inv, TypeOK, MemberRow
<1>5. /\ row'.name = entity[r].name /\ row'.status = entity[r].status
      /\ row'.owner = entity[r].owner /\ row'.updated = entity[r].updated
  BY <1>2 DEF Column
<1>6. Stored' = [name |-> entity[r].name, status |-> entity[r].status,
                 owner |-> entity[r].owner, members |-> entity[r].members,
                 updated |-> entity[r].updated]
  BY <1>2, <1>3, <1>5 DEF Stored, Aggregate
<1>7. entity[r] = [name |-> entity[r].name, status |-> entity[r].status,
                   owner |-> entity[r].owner, members |-> entity[r].members,
                   updated |-> entity[r].updated]
  BY <1>1 DEF Project
<1> QED
  BY <1>4, <1>6, <1>7

\* Requests and the lifecycle share their methods.
LEMMA SameMethods ==
  /\ Domain!ProjectStatus = ProjectStatus
  /\ \A p, s : Domain!CanTransition(p, s) <=> CanTransition(p, s)
  /\ \A p, s, now : Domain!Transitioned(p, s, now) = Transitioned(p, s, now)
  /\ \A p, u : Domain!CanAddMember(p, u) <=> CanAddMember(p, u)
  /\ \A p, u, now : Domain!MemberAdded(p, u, now) = MemberAdded(p, u, now)
  /\ \A p, u : Domain!CanRemoveMember(p, u) <=> CanRemoveMember(p, u)
  /\ \A p, u, now : Domain!MemberRemoved(p, u, now) = MemberRemoved(p, u, now)
  /\ \A p, n, now : Domain!Renamed(p, n, now) = Renamed(p, n, now)
<1>1. Domain!ProjectStatus = ProjectStatus
  BY DEF Domain!ProjectStatus, ProjectStatus
<1>2. /\ \A p, s : Domain!CanTransition(p, s) <=> CanTransition(p, s)
      /\ \A p, s, now : Domain!Transitioned(p, s, now) = Transitioned(p, s, now)
  BY DEF Domain!CanTransition, CanTransition, Domain!Transition, Transition,
         Domain!Transitioned, Transitioned
<1>3. /\ \A p, u : Domain!CanAddMember(p, u) <=> CanAddMember(p, u)
      /\ \A p, u, now : Domain!MemberAdded(p, u, now) = MemberAdded(p, u, now)
  BY DEF Domain!CanAddMember, CanAddMember, Domain!MemberAdded, MemberAdded
<1>4. /\ \A p, u : Domain!CanRemoveMember(p, u) <=> CanRemoveMember(p, u)
      /\ \A p, u, now : Domain!MemberRemoved(p, u, now) = MemberRemoved(p, u, now)
  BY DEF Domain!CanRemoveMember, CanRemoveMember, Domain!MemberRemoved, MemberRemoved
<1>5. \A p, n, now : Domain!Renamed(p, n, now) = Renamed(p, n, now)
  BY DEF Domain!Renamed, Renamed
<1> QED
  BY <1>1, <1>2, <1>3, <1>4, <1>5

\* What an accepted operation does to the stored aggregate is one call of one
\* of its methods.
LEMMA EffectIsDomainStep ==
  ASSUME Inv, NEW o \in Operation, NEW now \in Stamp,
         Accepts(o, Stored), Stored' = Effect(o, Stored, now),
         Effect(o, Stored, now).members \subseteq Person
  PROVE  Domain!Next
<1>1. CASE o.kind = "transition"
  <2>1. o.arg \in Domain!ProjectStatus /\ Domain!TransitionStatus(o.arg, now)
    BY <1>1, SameMethods
    DEF Operation, Accepts, Effect, Domain!TransitionStatus, Stored
  <2> QED
    BY <2>1 DEF Domain!Next
<1>2. CASE o.kind = "add"
  <2>1. o.arg \in Person
    BY <1>2 DEF Effect, MemberAdded, Stored, Aggregate
  <2>2. Domain!AddMember(o.arg, now)
    BY <1>2, SameMethods DEF Accepts, Effect, Domain!AddMember, Stored
  <2> QED
    BY <2>1, <2>2 DEF Domain!Next
<1>3. CASE o.kind = "remove"
  <2>1. o.arg \in Person
    BY <1>3 DEF Accepts, CanRemoveMember, Stored, Aggregate, Inv, TypeOK
  <2>2. Domain!RemoveMember(o.arg, now)
    BY <1>3, SameMethods DEF Accepts, Effect, Domain!RemoveMember, Stored
  <2> QED
    BY <2>1, <2>2 DEF Domain!Next
<1>4. CASE o.kind = "patch"
  <2>1. o.arg \in Name \cup {None}
    BY <1>4 DEF Operation
  <2>2. Domain!UpdateProject(o.arg, now)
    BY <1>4, SameMethods DEF Effect, Domain!UpdateProject, Stored
  <2> QED
    BY <2>1, <2>2 DEF Domain!Next
<1> QED
  BY <1>1, <1>2, <1>3, <1>4 DEF Operation

\* Every commit that overwrites nothing unseen is a step of the aggregate's life.
LEMMA SeeingStep ==
  Inv /\ [Next]_vars => [OverwritesUnseenChange \/ Domain!Next]_stored
<1> SUFFICES ASSUME Inv, Next, stored' # stored, ~OverwritesUnseenChange
             PROVE  Domain!Next
  BY DEF vars, stored
<1>1. PICK r \in Req : Commit(r)
  BY OnlyCommitWrites
<1>2. phase[r] = "inserting" /\ r \in Committed'
  BY <1>1 DEF Commit, Committed, Leave, Goto, Inv, TypeOK
<1>3. fresh[r]
  BY <1>2 DEF OverwritesUnseenChange
<1>4. Worked(r) /\ op[r] \in Operation /\ r \in Stamp
  BY <1>2, <1>3, RequestAssumption DEF Inv, RequestInv, Known, Seen
<1>5. Stored' = entity[r] /\ entity[r].members \subseteq Person
  BY <1>1, <1>3, FreshCommit
<1> QED
  BY <1>4, <1>5, EffectIsDomainStep DEF Worked

\* Unless a commit overwrites a change its request has not seen, two SELECTs,
\* DELETE all, UPDATE and INSERT all are one call of one method of the stored
\* aggregate (project_repository.py:90-124).
THEOREM StoredProjectFollowsTheDomain == Spec => FollowsTheDomain
<1>1. Init => Domain!Init
  <2> SUFFICES ASSUME Init PROVE Domain!Init
    OBVIOUS
  <2>1. PICK p \in InitialProjects :
          /\ row = [name |-> p.name, status |-> p.status, owner |-> p.owner,
                    updated |-> p.updated]
          /\ rows = [user: p.members, by: {None}]
    BY DEF Init
  <2>2. {m.user : m \in rows} = p.members
    <3>1. ASSUME NEW u \in p.members PROVE u \in {m.user : m \in rows}
      <4> DEFINE m == [user |-> u, by |-> None]
      <4>1. m \in rows /\ m.user = u
        BY <2>1
      <4> HIDE DEF m
      <4> QED
        BY <4>1
    <3> QED
      BY <2>1, <3>1
  <2>3. p = [name |-> p.name, status |-> p.status, owner |-> p.owner,
             members |-> p.members, updated |-> p.updated]
    BY RequestAssumption DEF Project
  <2>4. Aggregate(row, rows) = p
    BY <2>1, <2>2, <2>3 DEF Aggregate
  <2> QED
    BY <2>4 DEF Domain!Init
<1> QED
  BY <1>1, SeeingStep, Invariance, PTL DEF Spec, FollowsTheDomain


\* A request is committed by its own Commit alone.
LEMMA OnlyCommitCommits ==
  ASSUME TypeOK, Next, NEW r \in Committed' \ Committed
  PROVE  r \in Req /\ Commit(r)
<1>1. r \in Req /\ phase'[r] \in {"ok", "unacked"} /\ phase[r] \notin {"ok", "unacked"}
  BY DEF Committed
<1>2. ASSUME NEW q \in Req, NEW x,
             x \notin {"ok", "unacked"}, Goto(q, x)
      PROVE  FALSE
  BY <1>1, <1>2 DEF Goto, TypeOK
<1>3. ASSUME NEW q \in Req, LoadRow(q) \/ Proceed(q) \/ Crash(q)
      PROVE  Commit(q)
  <2>1. ~LoadRow(q) /\ ~Crash(q)
    BY <1>2 DEF LoadRow, Crash, RollBack, Leave
  <2>2. ~LoadMembers(q) /\ ~Apply(q) /\ ~Reload(q) /\ ~StartDelete(q) /\ ~UpdateRow(q)
    BY <1>2 DEF LoadMembers, Apply, Reload, StartDelete, UpdateRow
  <2>3. ~Refuse(q) /\ ~InsertFails(q) /\ ~BreakDeadlock(q)
    BY <1>2 DEF Refuse, InsertFails, BreakDeadlock, RollBack, Leave
  <2>4. ~DeleteRow(q) /\ ~InsertRow(q)
    BY <1>1 DEF DeleteRow, InsertRow
  <2> QED
    BY <1>3, <2>1, <2>2, <2>3, <2>4 DEF Proceed
<1>4. PICK q \in Req : Commit(q)
  BY <1>3 DEF Next
<1>5. q = r
  BY <1>1, <1>4 DEF Commit, Leave, Goto, TypeOK
<1> QED
  BY <1>1, <1>4, <1>5

\* A commit of a request that missed nothing changes the members as that
\* request asked, and no others: what project_repository.py:94-95 promises fails
\* only by overwriting a change the request has not seen.
THEOREM SeeingCommitsReconcile ==
  Spec => [][\A r \in Committed' \ Committed : fresh[r] =>
               CASE op[r].kind = "add" -> Listed' = Listed \cup {op[r].arg}
                 [] op[r].kind = "remove" -> Listed' = Listed \ {op[r].arg}
                 [] OTHER -> Listed' = Listed]_vars
<1> DEFINE Reconciled(r) ==
             CASE op[r].kind = "add" -> Listed' = Listed \cup {op[r].arg}
               [] op[r].kind = "remove" -> Listed' = Listed \ {op[r].arg}
               [] OTHER -> Listed' = Listed
<1>1. ASSUME Inv, Next, NEW r \in Committed' \ Committed, fresh[r]
      PROVE  Reconciled(r)
  <2>1. r \in Req /\ Commit(r)
    BY <1>1, OnlyCommitCommits DEF Inv
  <2>2. Stored' = entity[r]
    BY <1>1, <2>1, FreshCommit
  <2>3. op[r] \in Operation /\ entity[r] = Effect(op[r], Stored, r)
    BY <1>1, <2>1 DEF Inv, RequestInv, Known, Seen, Worked, Commit
  <2>4. Stored.members = Listed /\ Stored'.members = Listed'
    BY DEF Stored, Aggregate, Listed
  <2>5. Stored \in Project
    BY <1>1, AggregateTyped DEF Inv, Stored
  <2>6. Effect(op[r], Stored, r).members =
          CASE op[r].kind = "add" -> Stored.members \cup {op[r].arg}
            [] op[r].kind = "remove" -> Stored.members \ {op[r].arg}
            [] OTHER -> Stored.members
    BY <2>3, <2>5
    DEF Operation, Effect, Transitioned, MemberAdded, MemberRemoved, Renamed, Project
  <2> QED
    BY <2>2, <2>3, <2>4, <2>6
<1>2. Inv /\ [Next]_vars => [\A r \in Committed' \ Committed : fresh[r] => Reconciled(r)]_vars
  BY <1>1
<1> QED
  BY <1>2, Invariance, PTL DEF Spec

\* A project that is archived stays archived, unless a commit overwrites the
\* archiving without having seen it: the aggregate's own rule (project.py:26)
\* fails under concurrency for that one reason.
THEOREM OnlyUnseenOverwritesRevive ==
  Spec => [][row.status = "archived" =>
               row'.status = "archived" \/ OverwritesUnseenChange]_stored
<1>1. Inv /\ [Next]_vars => [row.status = "archived" =>
                               row'.status = "archived" \/ OverwritesUnseenChange]_stored
  <2> SUFFICES ASSUME Inv, [Next]_vars, stored' # stored, ~OverwritesUnseenChange,
                      row.status = "archived"
               PROVE  row'.status = "archived"
    OBVIOUS
  <2>1. Domain!Next
    BY SeeingStep
  <2>2. /\ Stored \in Project /\ Stored.status = "archived"
        /\ Stored'.status = row'.status
    BY AggregateTyped DEF Inv, Stored, Aggregate
  <2>3. Stored'.status = "archived"
    BY <2>1, <2>2
    DEF Domain!Next, Domain!TransitionStatus, Domain!AddMember, Domain!RemoveMember,
        Domain!TransferOwnership, Domain!UpdateProject, Domain!CanTransition, Domain!Transition,
        Domain!MemberAdded, Domain!MemberRemoved, Domain!OwnershipTransferred,
        Domain!Renamed, Project, Stored
  <2> QED
    BY <2>2, <2>3
<1> QED
  BY <1>1, Invariance, PTL DEF Spec

-----------------------------------------------------------------------------
\* What a request that was accepted asked for is in the aggregate it holds.
Asked(r) ==
  /\ phase[r] \in {"applied", "reloaded", "deleting", "inserting"}
  /\ op[r].kind = "add"
  => op[r].arg \in entity[r].members

\* Whatever a commit has or has not seen, every member of the aggregate it
\* stores is listed afterwards, the one it was asked to add among them, and
\* nobody else who was not listed before: an add that was answered 200 has
\* happened (project_repository.py:108-122).  Of a removal this cannot be said
\* (MembersReconciled).
THEOREM CommittedMembersAreListed ==
  Spec => [][\A r \in Committed' \ Committed :
               /\ entity[r].members \subseteq Listed'
               /\ op[r].kind = "add" => op[r].arg \in Listed'
               /\ Listed' \subseteq Listed \cup entity[r].members]_vars
<1>1. Init => \A r \in Req : Asked(r)
  BY DEF Init, Asked
<1>2. Inv /\ (\A r \in Req : Asked(r)) /\ [Next]_vars => (\A r \in Req : Asked(r))'
  <2> SUFFICES ASSUME Inv, \A r \in Req : Asked(r), [Next]_vars, NEW q \in Req
               PROVE  Asked(q)'
    OBVIOUS
  <2>1. CASE UNCHANGED vars
    BY <2>1 DEF vars, Asked
  <2>2. ASSUME NEW r \in Req, LoadRow(r) \/ LoadMembers(r) PROVE Asked(q)'
    BY <2>2 DEF LoadRow, LoadMembers, Goto, request, Inv, TypeOK, Asked
  <2>3. ASSUME NEW r \in Req, Apply(r) PROVE Asked(q)'
    <3>1. entity[r] \in Project
      BY <2>3 DEF Inv, RequestInv, Known, Apply
    <3>2. op[r].kind = "add" => op[r].arg \in Effect(op[r], entity[r], r).members
      BY <3>1 DEF Effect, MemberAdded, Project
    <3> QED
      BY <2>3, <3>2 DEF Apply, Goto, request, Inv, TypeOK, Asked
  <2>4. ASSUME NEW r \in Req,
               Refuse(r) \/ InsertFails(r) \/ BreakDeadlock(r) \/ Crash(r)
        PROVE  Asked(q)'
    BY <2>4
    DEF Refuse, InsertFails, BreakDeadlock, Crash, RollBack, Leave, Goto, request,
        Inv, TypeOK, Asked
  <2>5. ASSUME NEW r \in Req,
               Reload(r) \/ StartDelete(r) \/ DeleteRow(r) \/ UpdateRow(r) \/ InsertRow(r)
        PROVE  Asked(q)'
    BY <2>5
    DEF Reload, StartDelete, DeleteRow, UpdateRow, InsertRow, Goto, request,
        Inv, TypeOK, Asked
  <2>6. ASSUME NEW r \in Req, Commit(r) PROVE Asked(q)'
    BY <2>6 DEF Commit, Leave, Goto, request, Inv, TypeOK, Asked
  <2> QED
    BY <2>1, <2>2, <2>3, <2>4, <2>5, <2>6 DEF Next, Proceed
<1>3. Inv /\ (\A r \in Req : Asked(r)) /\ [Next]_vars =>
        [\A r \in Committed' \ Committed :
           /\ entity[r].members \subseteq Listed'
           /\ op[r].kind = "add" => op[r].arg \in Listed'
           /\ Listed' \subseteq Listed \cup entity[r].members]_vars
  <2> SUFFICES ASSUME Inv, \A r \in Req : Asked(r), Next, NEW r \in Committed' \ Committed
               PROVE  /\ entity[r].members \subseteq Listed'
                      /\ op[r].kind = "add" => op[r].arg \in Listed'
                      /\ Listed' \subseteq Listed \cup entity[r].members
    OBVIOUS
  <2>1. r \in Req /\ Commit(r)
    BY OnlyCommitCommits DEF Inv
  <2>2. /\ rows' = (rows \ del[r]) \cup ins[r]
        /\ \A m \in ins[r] : m.user \in entity[r].members
    BY <2>1, CommitStores
  <2>3. entity[r].members \subseteq {m.user : m \in ins[r]}
    BY <2>1 DEF Commit, ToInsert
  <2>4. entity[r].members \subseteq Listed'
    BY <2>2, <2>3 DEF Listed
  <2>5. Listed' \subseteq Listed \cup entity[r].members
    BY <2>2 DEF Listed
  <2>6. op[r].kind = "add" => op[r].arg \in entity[r].members
    BY <2>1 DEF Commit, Asked
  <2> QED
    BY <2>4, <2>5, <2>6
<1> QED
  BY <1>1, <1>2, <1>3, Invariance, PTL DEF Spec

\* Only requests made by the owner are ever committed, and none of them makes
\* somebody else the owner, so the check that was made on the loaded aggregate
\* is still right when the transaction commits (project_service.py:116-188).
THEOREM OnlyTheOwnerWrites ==
  Spec => /\ [](\A r \in Committed : caller[r] = row.owner)
          /\ [][row'.owner = row.owner]_row
<1> DEFINE Checked(r) ==
             phase[r] \in {"applied", "reloaded", "deleting", "inserting", "ok", "unacked"}
               => caller[r] = row.owner
<1>1. Init => \A r \in Req : Checked(r)
  BY DEF Init
<1>2. Inv /\ [Next]_vars => [row'.owner = row.owner]_row
  BY OnlyCommitWrites, CommitStores DEF vars, stored
<1>3. Inv /\ (\A r \in Req : Checked(r)) /\ [Next]_vars => (\A r \in Req : Checked(r))'
  <2> SUFFICES ASSUME Inv, \A r \in Req : Checked(r), [Next]_vars, NEW q \in Req
               PROVE  Checked(q)'
    OBVIOUS
  <2>1. row'.owner = row.owner
    BY <1>2
  <2>2. CASE UNCHANGED vars
    BY <2>2 DEF vars
  <2>3. ASSUME NEW r \in Req, LoadRow(r) PROVE Checked(q)'
    BY <2>1, <2>3 DEF LoadRow, Goto, Inv, TypeOK
  <2>4. ASSUME NEW r \in Req, Apply(r) PROVE Checked(q)'
    <3>1. entity[r].owner = row.owner
      BY <2>4 DEF Inv, RequestInv, Known, Apply
    <3> QED
      BY <2>1, <2>4, <3>1 DEF Apply, Goto, request, Inv, TypeOK
  <2>5. ASSUME NEW r \in Req,
               LoadMembers(r) \/ Refuse(r) \/ InsertFails(r) \/ BreakDeadlock(r) \/ Crash(r)
        PROVE  Checked(q)'
    BY <2>1, <2>5
    DEF LoadMembers, Refuse, InsertFails, BreakDeadlock, Crash, RollBack, Leave, Goto,
        request, Inv, TypeOK
  <2>6. ASSUME NEW r \in Req,
               Reload(r) \/ StartDelete(r) \/ DeleteRow(r) \/ UpdateRow(r) \/ InsertRow(r)
        PROVE  Checked(q)'
    BY <2>1, <2>6
    DEF Reload, StartDelete, DeleteRow, UpdateRow, InsertRow, Goto, request, Inv, TypeOK
  <2>7. ASSUME NEW r \in Req, Commit(r) PROVE Checked(q)'
    BY <2>1, <2>7 DEF Commit, Leave, Goto, request, Inv, TypeOK
  <2> QED
    BY <2>2, <2>3, <2>4, <2>5, <2>6, <2>7 DEF Next, Proceed
<1>4. (\A r \in Req : Checked(r)) => \A r \in Committed : caller[r] = row.owner
  BY DEF Committed
<1> HIDE DEF Checked
<1> QED
  BY <1>1, <1>2, <1>3, <1>4, Invariance, PTL DEF Spec
-----------------------------------------------------------------------------
(***************************************************************************)
(* Nobody is stuck.  What EveryRequestEnds says of a small instance under  *)
(* fairness rests on a fact about single states, proved here for any       *)
(* number of requests: requests that cannot go on wait for one another in  *)
(* a circle, and PostgreSQL breaks circles.                                *)
(***************************************************************************)

\* A guard of some disjunct of Proceed holds.
CanProceed(r) ==
  \/ phase[r] \in {"found", "loaded", "applied", "reloaded"}
  \/ /\ phase[r] = "deleting"
     /\ \E m \in targets[r] : \A q \in Req \ {r} : m \notin del[q]
  \/ /\ phase[r] = "deleting"
     /\ targets[r] = {}
     /\ Changed(r) # {} => \A q \in Req \ {r} : dirty[q] = {}
  \/ /\ phase[r] = "inserting"
     /\ ToInsert(r) # {} => \E u \in ToInsert(r) : u = Ghost \/ Rivals(r, u) = {}
  \/ \E S \in SUBSET Req : r \in S /\ Circle(S)

\* Among finitely many requests that all wait for one among them some wait in a
\* circle: of the sets of such requests take a smallest one.
LEMMA WaitingInACircle ==
  ASSUME NEW S \in SUBSET Req, IsFiniteSet(S), S # {},
         \A r \in S : \E q \in S : WaitsFor(r, q)
  PROVE  \E C \in SUBSET S : C # {} /\ Circle(C)
<1> DEFINE Stuck == {C \in SUBSET S : C # {} /\ \A r \in C : \E q \in C : WaitsFor(r, q)}
           Smaller == StrictSubsetOrdering(S)
<1>1. PICK C \in Stuck : \A D \in Stuck : <<D, C>> \notin Smaller
  <2>1. IsWellFoundedOn(Smaller, SUBSET S)
    BY FS_StrictSubsetOrderingWellFounded, FS_FiniteSubsetsOfFinite
  <2>2. Stuck \subseteq SUBSET S /\ S \in Stuck
    OBVIOUS
  <2> HIDE DEF Stuck, Smaller
  <2> QED
    BY <2>1, <2>2, WFMin
<1>2. ASSUME NEW r \in C PROVE \E q \in C : WaitsFor(q, r)
  <2> SUFFICES ASSUME \A q \in C : ~WaitsFor(q, r) PROVE FALSE
    OBVIOUS
  <2> DEFINE D == C \ {r}
  <2>1. PICK q \in C : WaitsFor(r, q)
    OBVIOUS
  <2>2. q \in D
    BY <2>1 DEF WaitsFor
  <2>3. \A p \in D : \E n \in D : WaitsFor(p, n)
    OBVIOUS
  <2>4. D \in Stuck
    BY <2>2, <2>3
  <2>5. <<D, C>> \in Smaller
    BY DEF StrictSubsetOrdering
  <2> QED
    BY <1>1, <2>4, <2>5
<1>3. Circle(C)
  BY <1>2 DEF Circle
<1> QED
  BY <1>3

\* A request that was taken up can go on or waits for one that was taken up.
LEMMA BlockedWaits ==
  ASSUME Inv, NEW r \in Open
  PROVE  CanProceed(r) \/ \E q \in Open : WaitsFor(r, q)
<1>1. \A q \in Req : del[q] # {} \/ ins[q] # {} \/ dirty[q] # {} => q \in Open
  BY DEF Inv, RequestInv, Holding, Open, OpenPhase
<1>2. r \in Req /\ phase[r] \in OpenPhase
  BY DEF Open
<1>3. CASE phase[r] \in {"found", "loaded", "applied", "reloaded"}
  BY <1>3 DEF CanProceed
<1>4. CASE phase[r] = "deleting" /\ targets[r] # {}
  <2> SUFFICES ASSUME ~CanProceed(r) PROVE \E q \in Open : WaitsFor(r, q)
    OBVIOUS
  <2>1. \A m \in targets[r] : \E q \in Req \ {r} : m \in del[q]
    BY <1>4 DEF CanProceed
  <2>2. PICK m \in targets[r], q \in Req \ {r} : m \in del[q]
    BY <1>4, <2>1
  <2> QED
    BY <1>1, <1>4, <2>1, <2>2 DEF WaitsFor
<1>5. CASE phase[r] = "deleting" /\ targets[r] = {}
  BY <1>1, <1>5 DEF CanProceed, WaitsFor
<1>6. CASE phase[r] = "inserting"
  <2> SUFFICES ASSUME ~CanProceed(r) PROVE \E q \in Open : WaitsFor(r, q)
    OBVIOUS
  <2>1. ToInsert(r) # {} /\ \A u \in ToInsert(r) : Rivals(r, u) # {}
    BY <1>6 DEF CanProceed
  <2>2. PICK u \in ToInsert(r) : \E q \in Req : q \in Rivals(r, u)
    BY <2>1 DEF Rivals
  <2>3. PICK q \in Rivals(r, u) : q \in Open /\ q # r
    BY <1>1, <2>2 DEF Rivals
  <2> QED
    BY <1>6, <2>1, <2>2, <2>3 DEF WaitsFor
<1> QED
  BY <1>2, <1>3, <1>4, <1>5, <1>6 DEF OpenPhase

\* While requests are under way one of them can take a step of its own accord,
\* and whoever cannot waits for another one under way: connections and locks
\* never hang on a request that has ended (session.py:28-56,
\* project_repository.py:111-122).
THEOREM SomebodyCanGoOn ==
  Spec => [](/\ Open # {} => \E r \in Open : CanProceed(r)
             /\ \A r \in Open : CanProceed(r) \/ \E q \in Open : WaitsFor(r, q))
<1>1. Init => IsFiniteSet(Open)
  <2> SUFFICES ASSUME Init PROVE Open = {}
    BY FS_EmptySet
  <2> QED
    BY DEF Init, Open, OpenPhase
<1>2. Inv /\ IsFiniteSet(Open) /\ [Next]_vars => IsFiniteSet(Open)'
  <2> SUFFICES ASSUME Inv, IsFiniteSet(Open), [Next]_vars PROVE IsFiniteSet(Open')
    OBVIOUS
  <2>1. CASE UNCHANGED vars
    BY <2>1 DEF vars, Open
  <2>2. CASE Next
    <3>1. PICK r \in Req : LoadRow(r) \/ Proceed(r) \/ Crash(r)
      BY <2>2 DEF Next
    <3>2. phase' = phase \/ \E x : phase' = [phase EXCEPT ![r] = x]
      BY <3>1
      DEF LoadRow, Proceed, LoadMembers, Refuse, Apply, Reload, StartDelete, DeleteRow,
          UpdateRow, InsertRow, InsertFails, BreakDeadlock, Commit, Crash, RollBack,
          Leave, Goto
    <3>3. Open' \subseteq Open \cup {r}
      BY <3>2 DEF Open, Inv, TypeOK
    <3> QED
      BY <3>3, FS_AddElement, FS_Subset
  <2> QED
    BY <2>1, <2>2
<1>3. ASSUME Inv, IsFiniteSet(Open), Open # {}
      PROVE  \E r \in Open : CanProceed(r)
  <2> SUFFICES ASSUME \A r \in Open : ~CanProceed(r) PROVE FALSE
    OBVIOUS
  <2>1. \A r \in Open : \E q \in Open : WaitsFor(r, q)
    BY <1>3, BlockedWaits
  <2>2. PICK C \in SUBSET Open : C # {} /\ Circle(C)
    BY <1>3, <2>1, WaitingInACircle DEF Open
  <2>3. PICK r \in C : r \in Open /\ C \in SUBSET Req
    BY <2>2 DEF Open
  <2> QED
    BY <2>2, <2>3 DEF CanProceed
<1>4. Inv => \A r \in Open : CanProceed(r) \/ \E q \in Open : WaitsFor(r, q)
  BY BlockedWaits
<1> QED
  BY <1>1, <1>2, <1>3, <1>4, Invariance, PTL DEF Spec
\* How far a phase is on the way through a request.
Stage(p) ==
  CASE p = "new" -> 0
    [] p = "found" -> 1
    [] p = "loaded" -> 2
    [] p = "applied" -> 3
    [] p = "reloaded" -> 4
    [] p = "deleting" -> 5
    [] p = "inserting" -> 6
    [] OTHER -> 7

\* A step brings r to a later phase, or leaves it fewer rows to delete, or fewer
\* to insert.
Advances(r) ==
  \/ Stage(phase[r]) < Stage(phase'[r])
  \/ /\ UNCHANGED <<phase[r], ToInsert(r)>>
     /\ targets'[r] \subseteq targets[r] /\ targets'[r] # targets[r]
  \/ /\ UNCHANGED <<phase[r], targets[r]>>
     /\ ToInsert(r)' \subseteq ToInsert(r) /\ ToInsert(r)' # ToInsert(r)

Unmoved(q) == UNCHANGED <<phase[q], targets[q], ToInsert(q)>>

\* Every step brings one request nearer to its end and none of the others
\* farther from theirs, so nothing is done over again.  With SomebodyCanGoOn
\* that leaves only fairness for EveryRequestEnds to ask for, as long as
\* projects have finitely many members (project_repository.py:90-124).
THEOREM EveryStepAdvances ==
  Spec => [][\E r \in Req :
               /\ Advances(r)
               /\ \A q \in Req \ {r} : Unmoved(q)]_vars
<1>1. ASSUME Inv, NEW r \in Req, LoadRow(r) \/ Proceed(r) \/ Crash(r)
      PROVE  Advances(r) /\ \A q \in Req \ {r} : Unmoved(q)
  <2>1. ASSUME NEW q \in Req \ {r} PROVE Unmoved(q)
    <3>1. /\ phase'[q] = phase[q] /\ targets'[q] = targets[q]
          /\ entity'[q] = entity[q] /\ ins'[q] = ins[q]
      BY <1>1
      DEF LoadRow, Proceed, LoadMembers, Refuse, Apply, Reload, StartDelete, DeleteRow,
          UpdateRow, InsertRow, InsertFails, BreakDeadlock, Commit, Crash, RollBack,
          Leave, Goto, writes, Inv, TypeOK
    <3> QED
      BY <3>1 DEF Unmoved, ToInsert
  <2>2. ASSUME NEW x, Goto(r, x), Stage(phase[r]) < Stage(x) PROVE Advances(r)
    BY <1>1, <2>2 DEF Goto, Advances, Inv, TypeOK
  <2>3. CASE \/ LoadRow(r) \/ LoadMembers(r) \/ Apply(r) \/ Reload(r)
             \/ StartDelete(r) \/ UpdateRow(r)
    BY <2>1, <2>2, <2>3
    DEF LoadRow, LoadMembers, Apply, Reload, StartDelete, UpdateRow, Stage
  <2>4. ASSUME NEW x \in EndPhase, phase[r] \in OpenPhase PROVE Stage(phase[r]) < Stage(x)
    BY <2>4 DEF Stage, EndPhase, OpenPhase
  <2>5. CASE Refuse(r) \/ InsertFails(r) \/ BreakDeadlock(r) \/ Commit(r) \/ Crash(r)
    <3>1. phase[r] \in OpenPhase
      BY <2>5
      DEF Refuse, InsertFails, BreakDeadlock, Circle, WaitsFor, Commit, Crash, Open, OpenPhase
    <3>2. \E x \in EndPhase : Goto(r, x)
      BY <2>5
      DEF Refuse, InsertFails, BreakDeadlock, Commit, Crash, RollBack, Leave, EndPhase
    <3> QED
      BY <2>1, <2>2, <2>4, <3>1, <3>2
  <2>6. CASE DeleteRow(r)
    <3>1. PICK m \in targets[r] : targets' = [targets EXCEPT ![r] = @ \ {m}]
      BY <2>6 DEF DeleteRow
    <3>2. phase' = phase /\ ToInsert(r)' = ToInsert(r)
      BY <2>6 DEF DeleteRow, ToInsert
    <3>3. targets'[r] = targets[r] \ {m}
      BY <1>1, <3>1 DEF Inv, TypeOK
    <3>4. Advances(r)
      BY <2>1, <3>2, <3>3 DEF Advances
    <3> QED
      BY <2>1, <3>4
  <2>7. CASE InsertRow(r)
    <3>1. PICK u \in ToInsert(r) : ins' = [ins EXCEPT ![r] = @ \cup {[user |-> u, by |-> r]}]
      BY <2>7 DEF InsertRow
    <3>2. /\ phase' = phase /\ entity' = entity /\ targets' = targets
          /\ ins'[r] = ins[r] \cup {[user |-> u, by |-> r]}
      BY <1>1, <2>7, <3>1 DEF InsertRow, Inv, TypeOK
    <3> DEFINE new == [user |-> u, by |-> r]
    <3>3. {m.user : m \in ins'[r]} = {m.user : m \in ins[r]} \cup {u}
      <4>1. new.user = u /\ ins'[r] = ins[r] \cup {new}
        BY <3>2
      <4> HIDE DEF new
      <4> QED
        BY <4>1
    <3>4. ToInsert(r)' = ToInsert(r) \ {u}
      BY <3>2, <3>3 DEF ToInsert
    <3> QED
      BY <2>1, <3>2, <3>4 DEF Advances
  <2> QED
    BY <1>1, <2>1, <2>3, <2>5, <2>6, <2>7 DEF Proceed
<1>2. Inv /\ [Next]_vars =>
        [\E r \in Req :
           /\ Advances(r)
           /\ \A q \in Req \ {r} : Unmoved(q)]_vars
  BY <1>1 DEF Next
<1> QED
  BY <1>2, Invariance, PTL DEF Spec
=============================================================================
