------------------------- MODULE UserAccountsProofs -------------------------
(***************************************************************************)
(* Proofs about accounts, for any number of requests, accounts and calls.  *)
(* The inductive invariant Inv says of a registration whose row is         *)
(* inserted and not committed that the keys it has entered, its e-mail or  *)
(* both, differ from every stored one and from every one another request   *)
(* has entered (so the commit is safe), and of a                           *)
(* profile change that its object never leaves the keys of its account;    *)
(* while nothing interfered (fresh) the object is exactly what was asked   *)
(* for, and the written columns are those in which it differs from the     *)
(* stored row.                                                             *)
(***************************************************************************)
EXTENDS UserAccounts, TLAPS

SameKeys(a, b) == a.email = b.email /\ a.username = b.username
DistinctKeys(a, b) == a.email # b.email /\ a.username # b.username

\* A registration whose row is inserted, with its e-mail or with both keys, and
\* not yet committed.
Pending(r) == phase[r] = "flushed" /\ call[r].kind = "register"
Inserted(r) == phase[r] = "inserting" \/ Pending(r)

\* A profile change in flight; one that has selected its row again.
Changing(r) == \/ phase[r] \in {"changed", "reloaded"}
               \/ phase[r] = "flushed" /\ call[r].kind = "profile"
HasBase(r) == \/ phase[r] = "reloaded"
              \/ phase[r] = "flushed" /\ call[r].kind = "profile"

CallInv(r) ==
  /\ phase[r] # "new" => call[r] \in Calls
  /\ phase[r] \in {"email_free", "name_free", "inserting", "conflict", "error"} =>
       call[r].kind = "register"
  /\ phase[r] \in {"changed", "reloaded"} => call[r].kind = "profile"
  /\ phase[r] = "flushed" => call[r].kind \in {"register", "profile"}
  /\ phase[r] \notin {"inserting", "flushed"} => written[r] = {}

PendingInv(r) ==
  /\ Inserted(r) => /\ call[r].word \in Word
                    /\ entity[r] = NewAccount(r)
                    /\ written[r] = Column
                    /\ \A i \in Registered : users[i].email # entity[r].email
  /\ Pending(r) => \A i \in Registered : users[i].username # entity[r].username

ChangingInv(r) ==
  /\ Changing(r) =>
       /\ call[r].id \in Registered
       /\ entity[r] \in Account
       /\ SameKeys(entity[r], users[call[r].id])
       /\ {entity[r].secret.by, entity[r].updated} \subseteq Committed \cup {Founder, r}
       /\ fresh[r] => entity[r] = Changed(users[call[r].id], call[r], r)
  /\ HasBase(r) =>
       /\ base[r] \in Account
       /\ SameKeys(base[r], users[call[r].id])
       /\ fresh[r] => base[r] = users[call[r].id]
  /\ phase[r] = "flushed" /\ call[r].kind = "profile" => written[r] = Differing(r)

TakenInv(r) ==
  phase[r] \in {"conflict", "error"} =>
    EmailTaken(call[r].email) \/ UsernameTaken(call[r].username)

RequestInv(r) == CallInv(r) /\ PendingInv(r) /\ ChangingInv(r) /\ TakenInv(r)

PairInv ==
  \A q, r \in Req : q # r =>
    /\ Inserted(q) /\ Inserted(r) => entity[q].email # entity[r].email
    /\ Pending(q) /\ Pending(r) => entity[q].username # entity[r].username

Inv == /\ TypeOK
       /\ OneAccountPerKey
       /\ NoTraceOfFailure
       /\ PairInv
       /\ \A r \in Req : RequestInv(r)

-----------------------------------------------------------------------------
\* Small facts about constants and records.

LEMMA ConstantFacts ==
  /\ Founder \notin Req
  /\ FoundersRow \in Account /\ FoundersRow.secret.by = Founder
  /\ FoundersRow.updated = Founder
  /\ None \notin Account
  BY AccountsAssumption

LEMMA CallFields ==
  ASSUME NEW c \in Calls
  PROVE  /\ c.kind \in {"register", "login", "profile"}
         /\ c.kind = "register" => /\ c.email \in Email /\ c.username \in Username
                                   /\ c.word \in Word \cup LongWord
         /\ c.kind = "profile" => /\ c.id \in Id
                                  /\ c.full \in FullName \cup {None}
                                  /\ c.word \in Word \cup LongWord \cup {None}
  BY AccountsAssumption DEF Registration, Login, ProfileChange

LEMMA RegisteredRows ==
  ASSUME TypeOK
  PROVE  Registered \subseteq Id /\ \A i \in Id : i \in Registered <=> users[i] \in Account
  BY ConstantFacts DEF TypeOK, Registered

LEMMA NewAccountTyped ==
  ASSUME NEW r \in Req, call[r] \in Calls, call[r].kind = "register",
         call[r].word \in Word
  PROVE  /\ NewAccount(r) \in Account
         /\ NewAccount(r).secret.by = r /\ NewAccount(r).updated = r
         /\ NewAccount(r).email = call[r].email
         /\ NewAccount(r).username = call[r].username
<1>1. call[r].email \in Email /\ call[r].username \in Username
  BY CallFields
<1>2. (CHOOSE f \in FullName : TRUE) \in FullName
  BY ConstantFacts DEF Account
<1> QED
  BY <1>1, <1>2 DEF NewAccount, Account, Secret, Id

LEMMA ChangedTyped ==
  ASSUME NEW a \in Account, NEW r \in Req, NEW c \in Calls, c.kind = "profile",
         c.word # None => Hashable(c.word)
  PROVE  /\ Changed(a, c, r) \in Account
         /\ SameKeys(Changed(a, c, r), a)
         /\ Changed(a, c, r).secret.by \in {a.secret.by, r}
         /\ Changed(a, c, r).updated \in {a.updated, r}
<1>1. c.full \in FullName \cup {None} /\ (c.word # None => c.word \in Word)
  BY CallFields DEF Hashable
<1> DEFINE f == IF c.full = None THEN a.full ELSE c.full
           s == IF c.word = None THEN a.secret ELSE [word |-> c.word, by |-> r]
           u == IF c.full = None /\ c.word = None THEN a.updated ELSE r
<1>2. f \in FullName /\ s \in Secret /\ u \in Id
  BY <1>1 DEF Account, Secret, Id
<1>3. s.by \in {a.secret.by, r} /\ u \in {a.updated, r}
  OBVIOUS
<1>4. Changed(a, c, r) = [a EXCEPT !.full = f, !.secret = s, !.updated = u]
  BY DEF Changed
<1> HIDE DEF f, s, u
<1> QED
  BY <1>2, <1>3, <1>4 DEF Account, SameKeys

-----------------------------------------------------------------------------
\* What a step of one request leaves to the others.

LEMMA OthersInv ==
  ASSUME Inv, NEW r \in Req, NEW q \in Req \ {r},
         users' = users, Committed \subseteq Committed',
         phase'[q] = phase[q], call'[q] = call[q], entity'[q] = entity[q],
         base'[q] = base[q], written'[q] = written[q], fresh'[q] = fresh[q]
  PROVE  RequestInv(q)'
<1>1. RequestInv(q)
  BY DEF Inv
<1>2. CallInv(q)'
  BY <1>1 DEF RequestInv, CallInv
<1>3. PendingInv(q)'
  BY <1>1 DEF RequestInv, PendingInv, Pending, Inserted, NewAccount, Registered
<1>4. ChangingInv(q)'
  BY <1>1 DEF RequestInv, ChangingInv, Changing, HasBase, Registered, Differing
<1>5. TakenInv(q)'
  BY <1>1 DEF RequestInv, TakenInv, EmailTaken, UsernameTaken, Registered
<1> QED
  BY <1>2, <1>3, <1>4, <1>5 DEF RequestInv

\* A step of r that stores nothing: what is left to show.
LEMMA QuietInv ==
  ASSUME Inv, NEW r \in Req,
         users' = users, TypeOK', Committed \subseteq Committed',
         \A q \in Req \ {r} :
           /\ phase'[q] = phase[q] /\ call'[q] = call[q]
           /\ entity'[q] = entity[q] /\ base'[q] = base[q]
           /\ written'[q] = written[q] /\ fresh'[q] = fresh[q],
         RequestInv(r)',
         Inserted(r)' => \A q \in Req \ {r} :
                           Inserted(q) => entity[q].email # entity'[r].email,
         Pending(r)' => \A q \in Req \ {r} :
                          Pending(q) => entity[q].username # entity'[r].username
  PROVE  Inv'
<1>1. OneAccountPerKey'
  BY DEF Inv, OneAccountPerKey, Registered
<1>2. NoTraceOfFailure'
  BY DEF Inv, NoTraceOfFailure, Registered
<1>3. PairInv'
  <2>1. \A q \in Req \ {r} : Pending(q)' = Pending(q) /\ Inserted(q)' = Inserted(q)
    BY DEF Pending, Inserted
  <2> QED
    BY <2>1 DEF Inv, PairInv
<1>4. ASSUME NEW q \in Req PROVE RequestInv(q)'
  BY <1>4, OthersInv
<1> QED
  BY <1>1, <1>2, <1>3, <1>4 DEF Inv

\* Ending a request without success.
LEMMA RollBackInv ==
  ASSUME Inv, NEW r \in Req, phase[r] \in OpenPhase,
         NEW x \in EndPhase \ {"ok", "unacked"}, RollBack(r, x),
         x \in {"conflict", "error"} =>
           /\ call[r].kind = "register"
           /\ EmailTaken(call[r].email) \/ UsernameTaken(call[r].username)
  PROVE  Inv'
<1>1. TypeOK'
  BY DEF Inv, TypeOK, RollBack, Goto, EndPhase
<1>2. Committed \subseteq Committed'
  BY DEF Inv, TypeOK, RollBack, Goto, Committed, OpenPhase
<1>3. phase'[r] = x /\ written'[r] = {} /\ call'[r] = call[r] /\ users' = users
  BY DEF Inv, TypeOK, RollBack, Goto
<1>4. call[r] \in Calls
  BY DEF Inv, RequestInv, CallInv, OpenPhase
<1>5. RequestInv(r)'
  <2>1. CallInv(r)'
    BY <1>3, <1>4 DEF CallInv, EndPhase
  <2>2. PendingInv(r)' /\ ChangingInv(r)'
    BY <1>3 DEF PendingInv, ChangingInv, Inserted, Pending, Changing, HasBase, EndPhase
  <2>3. TakenInv(r)'
    BY <1>3 DEF TakenInv, EmailTaken, UsernameTaken, Registered
  <2> QED
    BY <2>1, <2>2, <2>3 DEF RequestInv
<1>6. ~Inserted(r)' /\ ~Pending(r)'
  BY <1>3 DEF Inserted, Pending, EndPhase
<1>7. \A q \in Req \ {r} :
        /\ phase'[q] = phase[q] /\ call'[q] = call[q]
        /\ entity'[q] = entity[q] /\ base'[q] = base[q]
        /\ written'[q] = written[q] /\ fresh'[q] = fresh[q]
  BY DEF Inv, TypeOK, RollBack, Goto
<1> QED
  BY <1>1, <1>2, <1>3, <1>5, <1>6, <1>7, QuietInv

-----------------------------------------------------------------------------
\* One lemma per action.

LEMMA InitInv == Init => Inv
<1> SUFFICES ASSUME Init PROVE Inv
  OBVIOUS
<1>1. users[Founder] = FoundersRow /\ \A r \in Req : users[r] = None
  BY ConstantFacts DEF Init, Id
<1>2. Registered = {Founder}
  BY <1>1, ConstantFacts DEF Registered, Id
<1>3. TypeOK
  BY ConstantFacts DEF Init, TypeOK
<1>4. OneAccountPerKey /\ NoTraceOfFailure
  BY <1>1, <1>2, ConstantFacts DEF OneAccountPerKey, NoTraceOfFailure
<1>5. PairInv /\ \A r \in Req : RequestInv(r)
  BY DEF Init, PairInv, RequestInv, CallInv, PendingInv, ChangingInv, TakenInv,
         Inserted, Pending, Changing, HasBase
<1> QED
  BY <1>3, <1>4, <1>5 DEF Inv

\* The steps that only choose a call and a phase.
LEMMA StartInv ==
  ASSUME Inv, NEW r \in Req, phase[r] \in {"new", "email_free"},
         NEW c \in Calls, NEW x \in {"conflict", "email_free", "name_free", "ok", "refused"},
         phase' = [phase EXCEPT ![r] = x], call' = [call EXCEPT ![r] = c],
         UNCHANGED <<users, entity, base, written, fresh>>,
         x \in {"conflict", "email_free", "name_free"} => c.kind = "register",
         x = "conflict" => EmailTaken(c.email) \/ UsernameTaken(c.username)
  PROVE  Inv'
<1>1. TypeOK'
  BY DEF Inv, TypeOK, EndPhase, OpenPhase
<1>2. Committed \subseteq Committed'
  BY DEF Inv, TypeOK, Committed
<1>3. phase'[r] = x /\ call'[r] = c /\ written'[r] = {}
  BY DEF Inv, TypeOK, RequestInv, CallInv
<1>4. RequestInv(r)'
  <2>1. CallInv(r)'
    BY <1>3 DEF CallInv
  <2>2. PendingInv(r)' /\ ChangingInv(r)'
    BY <1>3 DEF PendingInv, ChangingInv, Inserted, Pending, Changing, HasBase
  <2>3. TakenInv(r)'
    BY <1>3 DEF TakenInv, EmailTaken, UsernameTaken, Registered
  <2> QED
    BY <2>1, <2>2, <2>3 DEF RequestInv
<1>5. ~Inserted(r)' /\ ~Pending(r)'
  BY <1>3 DEF Inserted, Pending
<1>6. \A q \in Req \ {r} :
        /\ phase'[q] = phase[q] /\ call'[q] = call[q]
        /\ entity'[q] = entity[q] /\ base'[q] = base[q]
        /\ written'[q] = written[q] /\ fresh'[q] = fresh[q]
  BY DEF Inv, TypeOK
<1> QED
  BY <1>1, <1>2, <1>4, <1>5, <1>6, QuietInv

LEMMA CheckEmailInv == ASSUME Inv, NEW r \in Req, CheckEmail(r) PROVE Inv'
<1>1. PICK c \in Calls : /\ c.kind = "register"
                         /\ call' = [call EXCEPT ![r] = c]
                         /\ Goto(r, IF EmailTaken(c.email) THEN "conflict" ELSE "email_free")
  BY DEF CheckEmail
<1> QED
  BY <1>1, StartInv DEF CheckEmail, Goto

LEMMA LogInInv == ASSUME Inv, NEW r \in Req, LogIn(r) PROVE Inv'
<1>1. PICK c \in Calls : /\ call' = [call EXCEPT ![r] = c]
                         /\ Goto(r, IF Credentials(c) THEN "ok" ELSE "refused")
  BY DEF LogIn
<1> QED
  BY <1>1, StartInv DEF LogIn, Goto

LEMMA CheckUsernameInv == ASSUME Inv, NEW r \in Req, CheckUsername(r) PROVE Inv'
<1>1. call[r] \in Calls /\ call[r].kind = "register" /\ phase[r] = "email_free"
  BY DEF Inv, RequestInv, CallInv, CheckUsername
<1>2. CASE UsernameTaken(call[r].username)
  BY <1>1, <1>2, RollBackInv DEF CheckUsername, EndPhase, OpenPhase
<1>3. CASE ~UsernameTaken(call[r].username)
  <2>1. call' = [call EXCEPT ![r] = call[r]]
    BY <1>3 DEF CheckUsername, Inv, TypeOK
  <2> QED
    BY <1>1, <1>3, <2>1, StartInv DEF CheckUsername, Goto
<1> QED
  BY <1>2, <1>3

LEMMA PasswordTooLongInv == ASSUME Inv, NEW r \in Req, PasswordTooLong(r) PROVE Inv'
  BY RollBackInv DEF PasswordTooLong, EndPhase, OpenPhase

LEMMA InsertFailsInv == ASSUME Inv, NEW r \in Req, InsertFails(r) PROVE Inv'
<1>1. call[r].kind = "register" /\ phase[r] \in {"name_free", "inserting"}
  BY DEF Inv, RequestInv, CallInv, InsertFails
<1>2. EmailTaken(call[r].email) \/ UsernameTaken(call[r].username)
  BY DEF InsertFails, KeyTaken, EmailTaken, UsernameTaken
<1> QED
  BY <1>1, <1>2, RollBackInv DEF InsertFails, EndPhase, OpenPhase

LEMMA CrashInv == ASSUME Inv, NEW r \in Req, Crash(r) PROVE Inv'
  BY RollBackInv DEF Crash, Open, EndPhase

\* One key of a row that is being inserted: it is nobody else's.
LEMMA KeyIsFree ==
  ASSUME Inv, NEW r \in Req, NEW key \in {"email", "username"},
         ~KeyPending(r, key), ~KeyTaken(r, key)
  PROVE  /\ \A i \in Registered : users[i][key] # call[r][key]
         /\ \A q \in Req \ {r} :
              (IF key = "email" THEN Inserted(q) ELSE Pending(q))
                => entity[q][key] # call[r][key]
<1>1. \A i \in Registered : users[i][key] # call[r][key]
  BY DEF KeyTaken
<1>2. ASSUME NEW q \in Req \ {r}, IF key = "email" THEN Inserted(q) ELSE Pending(q)
      PROVE  entity[q][key] # call[r][key]
  <2>1. Inserted(q) /\ (key = "username" => phase[q] # "inserting")
    BY <1>2 DEF Inserted, Pending
  <2>2. written[q] # {} /\ call[q].kind = "register"
    BY <2>1 DEF Inv, RequestInv, CallInv, PendingInv, Inserted, Pending, Column
  <2> QED
    BY <2>1, <2>2 DEF KeyPending
<1> QED
  BY <1>1, <1>2

LEMMA InsertRowInv == ASSUME Inv, NEW r \in Req, InsertRow(r) PROVE Inv'
<1>1. /\ call[r] \in Calls /\ call[r].kind = "register" /\ call[r].word \in Word
      /\ phase[r] = "name_free"
  BY DEF Inv, RequestInv, CallInv, InsertRow, Hashable
<1>2. NewAccount(r) \in Account /\ NewAccount(r).email = call[r].email
  BY <1>1, NewAccountTyped
<1>3. /\ phase'[r] = "inserting" /\ call'[r] = call[r] /\ entity'[r] = NewAccount(r)
      /\ written'[r] = Column /\ users' = users /\ NewAccount(r)' = NewAccount(r)
  BY DEF InsertRow, Goto, Inv, TypeOK, NewAccount
<1>4. TypeOK'
  BY <1>2 DEF InsertRow, Goto, Inv, TypeOK, OpenPhase
<1>5. Committed \subseteq Committed'
  BY DEF InsertRow, Goto, Inv, TypeOK, Committed
<1>6. /\ \A i \in Registered : users[i].email # NewAccount(r).email
      /\ \A q \in Req \ {r} : Inserted(q) => entity[q].email # NewAccount(r).email
  BY <1>2, KeyIsFree DEF InsertRow
<1>7. ~Pending(r)'
  BY <1>3 DEF Pending
<1>8. RequestInv(r)'
  <2>1. CallInv(r)'
    BY <1>1, <1>3 DEF CallInv
  <2>2. PendingInv(r)'
    BY <1>1, <1>3, <1>6, <1>7 DEF PendingInv, Registered
  <2>3. ChangingInv(r)' /\ TakenInv(r)'
    BY <1>1, <1>3 DEF ChangingInv, Changing, HasBase, TakenInv
  <2> QED
    BY <2>1, <2>2, <2>3 DEF RequestInv
<1>9. \A q \in Req \ {r} :
        /\ phase'[q] = phase[q] /\ call'[q] = call[q]
        /\ entity'[q] = entity[q] /\ base'[q] = base[q]
        /\ written'[q] = written[q] /\ fresh'[q] = fresh[q]
  BY DEF InsertRow, Goto, Inv, TypeOK
<1> QED
  BY <1>3, <1>4, <1>5, <1>6, <1>7, <1>8, <1>9, QuietInv

LEMMA EnterUsernameInv == ASSUME Inv, NEW r \in Req, EnterUsername(r) PROVE Inv'
<1>1. /\ call[r] \in Calls /\ call[r].kind = "register" /\ phase[r] = "inserting"
      /\ Inserted(r) /\ PendingInv(r)
  BY DEF Inv, RequestInv, CallInv, EnterUsername, Inserted
<1>2. /\ call[r].word \in Word /\ entity[r] = NewAccount(r) /\ written[r] = Column
      /\ \A i \in Registered : users[i].email # entity[r].email
  BY <1>1 DEF PendingInv
<1>3. entity[r].username = call[r].username
  BY <1>1, <1>2, NewAccountTyped
<1>4. /\ phase'[r] = "flushed" /\ UNCHANGED <<users, call, entity, base, written, fresh>>
      /\ NewAccount(r)' = NewAccount(r)
  BY DEF EnterUsername, Goto, Inv, TypeOK, NewAccount
<1>5. TypeOK'
  BY DEF EnterUsername, Goto, Inv, TypeOK, OpenPhase
<1>6. Committed \subseteq Committed'
  BY DEF EnterUsername, Goto, Inv, TypeOK, Committed
<1>7. /\ \A i \in Registered : users[i].username # entity[r].username
      /\ \A q \in Req \ {r} : Pending(q) => entity[q].username # entity[r].username
  BY <1>3, KeyIsFree DEF EnterUsername
<1>8. \A q \in Req \ {r} : Inserted(q) => entity[q].email # entity[r].email
  BY <1>1 DEF Inv, PairInv
<1>9. RequestInv(r)'
  <2>1. CallInv(r)'
    BY <1>1, <1>4 DEF CallInv
  <2>2. PendingInv(r)'
    BY <1>2, <1>4, <1>7 DEF PendingInv, Registered
  <2>3. ChangingInv(r)' /\ TakenInv(r)'
    BY <1>1, <1>4 DEF ChangingInv, Changing, HasBase, TakenInv
  <2> QED
    BY <2>1, <2>2, <2>3 DEF RequestInv
<1>10. \A q \in Req \ {r} : phase'[q] = phase[q]
  BY DEF EnterUsername, Goto, Inv, TypeOK
<1> QED
  BY <1>4, <1>5, <1>6, <1>7, <1>8, <1>9, <1>10, QuietInv

LEMMA ChangeProfileInv == ASSUME Inv, NEW r \in Req, ChangeProfile(r) PROVE Inv'
<1>1. PICK c \in Calls :
        /\ c.kind = "profile"
        /\ call' = [call EXCEPT ![r] = c]
        /\ IF c.id \in Registered /\ (c.word # None => Hashable(c.word))
           THEN /\ entity' = [entity EXCEPT ![r] = Changed(users[c.id], c, r)]
                /\ Goto(r, "changed")
           ELSE /\ Goto(r, "refused")
                /\ UNCHANGED entity
  BY DEF ChangeProfile
<1>2. CASE ~(c.id \in Registered /\ (c.word # None => Hashable(c.word)))
  BY <1>1, <1>2, StartInv DEF ChangeProfile, Goto
<1>3. CASE c.id \in Registered /\ (c.word # None => Hashable(c.word))
  <2> DEFINE a == users[c.id]
             e == Changed(a, c, r)
  <2>1. a \in Account /\ c.id \in Id
    BY <1>3, RegisteredRows DEF Inv
  <2>2. /\ e \in Account /\ SameKeys(e, a)
        /\ e.secret.by \in {a.secret.by, r} /\ e.updated \in {a.updated, r}
    BY <1>1, <1>3, <2>1, ChangedTyped
  <2>3. {a.secret.by, a.updated} \subseteq Committed \cup {Founder}
    BY <1>3 DEF Inv, NoTraceOfFailure
  <2> HIDE DEF e
  <2>4. /\ phase'[r] = "changed" /\ call'[r] = c /\ entity'[r] = e
        /\ users' = users /\ written'[r] = {}
    BY <1>1, <1>3 DEF ChangeProfile, Goto, Inv, TypeOK, RequestInv, CallInv, e
  <2>5. TypeOK'
    BY <1>1, <1>3, <2>2 DEF ChangeProfile, Goto, Inv, TypeOK, OpenPhase, e
  <2>6. Committed \subseteq Committed'
    BY <1>1, <1>3 DEF ChangeProfile, Goto, Inv, TypeOK, Committed
  <2>7. CallInv(r)' /\ PendingInv(r)' /\ TakenInv(r)'
    BY <1>1, <2>4 DEF CallInv, PendingInv, Inserted, Pending, TakenInv
  <2>8. ChangingInv(r)'
    <3>1. c.id \in Registered'
      BY <1>3, <2>4 DEF Registered
    <3>2. SameKeys(e, users'[c.id])
      BY <2>2, <2>4
    <3>3. {e.secret.by, e.updated} \subseteq Committed' \cup {Founder, r}
      BY <2>2, <2>3, <2>6
    <3>4. e = Changed(users'[c.id], c, r)
      BY <2>4 DEF e
    <3>5. ~HasBase(r)'
      BY <2>4 DEF HasBase
    <3> QED
      BY <2>2, <2>4, <3>1, <3>2, <3>3, <3>4, <3>5 DEF ChangingInv, HasBase, SameKeys, Registered
  <2>9. ~Inserted(r)' /\ ~Pending(r)'
    BY <2>4 DEF Inserted, Pending
  <2>10. \A q \in Req \ {r} :
           /\ phase'[q] = phase[q] /\ call'[q] = call[q]
           /\ entity'[q] = entity[q] /\ base'[q] = base[q]
           /\ written'[q] = written[q] /\ fresh'[q] = fresh[q]
    BY <1>1, <1>3 DEF ChangeProfile, Goto, Inv, TypeOK
  <2> QED
    BY <2>4, <2>5, <2>6, <2>7, <2>8, <2>9, <2>10, QuietInv DEF RequestInv
<1> QED
  BY <1>2, <1>3

LEMMA ReloadInv == ASSUME Inv, NEW r \in Req, Reload(r) PROVE Inv'
<1> DEFINE a == users[call[r].id]
<1>1. /\ phase[r] = "changed" /\ call[r] \in Calls /\ call[r].kind = "profile"
      /\ call[r].id \in Registered
  BY DEF Inv, RequestInv, CallInv, ChangingInv, Changing, Reload
<1>2. a \in Account
  BY <1>1, RegisteredRows DEF Inv
<1>3. /\ phase'[r] = "reloaded" /\ call'[r] = call[r] /\ entity'[r] = entity[r]
      /\ base'[r] = a /\ users' = users /\ written'[r] = {} /\ fresh'[r] = fresh[r]
  BY DEF Reload, Goto, Inv, TypeOK, RequestInv, CallInv
<1>4. TypeOK'
  BY <1>2 DEF Reload, Goto, Inv, TypeOK, OpenPhase
<1>5. Committed \subseteq Committed'
  BY DEF Reload, Goto, Inv, TypeOK, Committed
<1>6. CallInv(r)' /\ PendingInv(r)' /\ TakenInv(r)'
  BY <1>1, <1>3 DEF CallInv, PendingInv, Inserted, Pending, TakenInv
<1>7. ChangingInv(r)'
  <2>1. ChangingInv(r) /\ Changing(r)
    BY <1>1 DEF Inv, RequestInv, Changing
  <2> QED
    BY <1>2, <1>3, <1>5, <2>1 DEF ChangingInv, SameKeys, Registered
<1>8. ~Inserted(r)' /\ ~Pending(r)'
  BY <1>3 DEF Inserted, Pending
<1>9. \A q \in Req \ {r} :
        /\ phase'[q] = phase[q] /\ call'[q] = call[q]
        /\ entity'[q] = entity[q] /\ base'[q] = base[q]
        /\ written'[q] = written[q] /\ fresh'[q] = fresh[q]
  BY DEF Reload, Goto, Inv, TypeOK
<1> QED
  BY <1>3, <1>4, <1>5, <1>6, <1>7, <1>8, <1>9, QuietInv DEF RequestInv

LEMMA FlushInv == ASSUME Inv, NEW r \in Req, Flush(r) PROVE Inv'
<1>1. /\ phase[r] = "reloaded" /\ call[r] \in Calls /\ call[r].kind = "profile"
  BY DEF Inv, RequestInv, CallInv, Flush
<1>2. /\ phase'[r] = "flushed" /\ call'[r] = call[r] /\ entity'[r] = entity[r]
      /\ base'[r] = base[r] /\ users' = users /\ written'[r] = Differing(r)
      /\ fresh'[r] = fresh[r] /\ Differing(r)' = Differing(r)
  BY DEF Flush, Goto, Inv, TypeOK, Differing
<1>3. TypeOK'
  BY DEF Flush, Goto, Inv, TypeOK, OpenPhase, Differing, Mapped
<1>4. Committed \subseteq Committed'
  BY DEF Flush, Goto, Inv, TypeOK, Committed
<1>5. CallInv(r)' /\ PendingInv(r)' /\ TakenInv(r)'
  BY <1>1, <1>2 DEF CallInv, PendingInv, Inserted, Pending, TakenInv
<1>6. ChangingInv(r)'
  <2>1. ChangingInv(r) /\ Changing(r) /\ HasBase(r)
    BY <1>1 DEF Inv, RequestInv, Changing, HasBase
  <2> QED
    BY <1>2, <1>4, <2>1 DEF ChangingInv, SameKeys, Registered
<1>7. ~Inserted(r)' /\ ~Pending(r)'
  BY <1>1, <1>2 DEF Inserted, Pending
<1>8. \A q \in Req \ {r} :
        /\ phase'[q] = phase[q] /\ call'[q] = call[q]
        /\ entity'[q] = entity[q] /\ base'[q] = base[q]
        /\ written'[q] = written[q] /\ fresh'[q] = fresh[q]
  BY DEF Flush, Goto, Inv, TypeOK
<1> QED
  BY <1>2, <1>3, <1>4, <1>5, <1>6, <1>7, <1>8, QuietInv DEF RequestInv

\* What a request that is about to commit will store, and where.
LEMMA WrittenFacts ==
  ASSUME Inv, NEW r \in Req, phase[r] = "flushed"
  PROVE  /\ Target(r) \in Id /\ Written(r) \in Account
         /\ {Written(r).secret.by, Written(r).updated} \subseteq Committed \cup {Founder, r}
         /\ call[r].kind = "register" =>
              /\ Target(r) = r /\ r \notin Registered /\ Written(r) = entity[r]
              /\ \A i \in Registered : DistinctKeys(users[i], Written(r))
         /\ call[r].kind # "register" =>
              /\ Target(r) = call[r].id /\ Target(r) \in Registered
              /\ SameKeys(Written(r), users[Target(r)])
              /\ written[r] = {} => Written(r) = users[Target(r)]
              /\ fresh[r] => Written(r) = entity[r]
<1>1. call[r] \in Calls /\ call[r].kind \in {"register", "profile"}
  BY DEF Inv, RequestInv, CallInv
<1>2. CASE call[r].kind = "register"
  <2>1. /\ call[r].word \in Word /\ entity[r] = NewAccount(r) /\ written[r] = Column
        /\ \A i \in Registered : DistinctKeys(users[i], entity[r])
    BY <1>2 DEF Inv, RequestInv, PendingInv, Inserted, Pending, DistinctKeys
  <2>2. /\ entity[r] \in Account /\ entity[r].secret.by = r /\ entity[r].updated = r
    BY <1>1, <1>2, <2>1, NewAccountTyped
  <2>3. Target(r) = r /\ Written(r) = [c \in Column |-> entity[r][c]]
    BY <1>2, <2>1 DEF Target, Written
  <2>4. Written(r) = entity[r]
    BY <2>2, <2>3 DEF Account, Column
  <2>5. r \notin Registered
    BY ConstantFacts DEF Inv, NoTraceOfFailure, Committed
  <2> QED
    BY <1>2, <2>1, <2>2, <2>3, <2>4, <2>5 DEF Id
<1>3. CASE call[r].kind = "profile"
  <2> DEFINE a == users[call[r].id]
             e == entity[r]
             w == Written(r)
  <2>1. ChangingInv(r) /\ Changing(r) /\ HasBase(r)
    BY <1>3 DEF Inv, RequestInv, Changing, HasBase
  <2>2. call[r].id \in Registered /\ a \in Account /\ call[r].id \in Id
    BY <2>1, RegisteredRows DEF Inv, ChangingInv
  <2>3. /\ e \in Account /\ SameKeys(e, a)
        /\ {e.secret.by, e.updated} \subseteq Committed \cup {Founder, r}
        /\ base[r] \in Account /\ SameKeys(base[r], a)
        /\ fresh[r] => base[r] = a
        /\ written[r] = Differing(r)
    BY <1>3, <2>1 DEF ChangingInv
  <2>4. {a.secret.by, a.updated} \subseteq Committed \cup {Founder}
    BY <2>2 DEF Inv, NoTraceOfFailure
  <2>5. Target(r) = call[r].id
    BY <1>3 DEF Target
  <2>6. w = [c \in Column |-> IF c \in written[r] THEN e[c] ELSE a[c]]
    BY <2>5 DEF Written
  <2>7. w \in Account
    BY <2>2, <2>3, <2>6 DEF Account, Column
  <2>8. /\ w.email = IF "email" \in written[r] THEN e.email ELSE a.email
        /\ w.username = IF "username" \in written[r] THEN e.username ELSE a.username
        /\ w.secret = IF "secret" \in written[r] THEN e.secret ELSE a.secret
        /\ w.updated = IF "updated" \in written[r] THEN e.updated ELSE a.updated
    BY <2>6 DEF Column
  <2>9. written[r] = {} => w = a
    BY <2>2, <2>6 DEF Account, Column
  <2>10. fresh[r] => w = e
    BY <2>2, <2>3, <2>6 DEF Account, Column, Differing, Mapped
  <2>11. SameKeys(w, a)
    BY <2>3, <2>8 DEF SameKeys
  <2>12. {w.secret.by, w.updated} \subseteq Committed \cup {Founder, r}
    BY <2>3, <2>4, <2>8
  <2> QED
    BY <1>3, <2>2, <2>5, <2>7, <2>9, <2>10, <2>11, <2>12
<1> QED
  BY <1>1, <1>2, <1>3

LEMMA CommitInv == ASSUME Inv, NEW r \in Req, Commit(r) PROVE Inv'
<1> DEFINE t == Target(r)
           w == Written(r)
<1>1. phase[r] = "flushed" /\ call[r] \in Calls
  BY DEF Inv, RequestInv, CallInv, Commit
<1>2. /\ t \in Id /\ w \in Account
      /\ {w.secret.by, w.updated} \subseteq Committed \cup {Founder, r}
      /\ t \notin Registered =>
           t = r /\ Pending(r) /\ w = entity[r]
             /\ \A i \in Registered : DistinctKeys(users[i], w)
      /\ t \in Registered =>
           /\ SameKeys(w, users[t])
           /\ written[r] = {} => w = users[t]
  BY <1>1, WrittenFacts DEF Pending
<1> HIDE DEF t, w
<1>3. users' = [users EXCEPT ![t] = w]
  BY DEF Commit, t, w
<1>4. /\ users'[t] = w /\ \A i \in Id \ {t} : users'[i] = users[i]
      /\ Registered' = Registered \cup {t}
  BY <1>2, <1>3, ConstantFacts DEF Inv, TypeOK, Registered
<1>5. \A i \in Registered : SameKeys(users'[i], users[i])
  BY <1>2, <1>4 DEF SameKeys, Registered
<1>6. /\ phase'[r] \in {"ok", "unacked"} /\ Committed' = Committed \cup {r}
      /\ \A q \in Req \ {r} : phase'[q] = phase[q] /\ written'[q] = written[q]
      /\ written'[r] = {} /\ UNCHANGED <<call, entity, base>>
  BY DEF Commit, Goto, Inv, TypeOK, Committed
<1>7. TypeOK'
  <2>1. users' \in [Id -> Account \cup {None}]
    BY <1>2, <1>3 DEF Inv, TypeOK
  <2>2. phase' \in [Req -> {"new"} \cup OpenPhase \cup EndPhase]
    BY DEF Inv, TypeOK, Commit, Goto, EndPhase
  <2>3. /\ call' \in [Req -> Calls \cup {None}]
        /\ entity' \in [Req -> Account \cup {None}]
        /\ base' \in [Req -> Account \cup {None}]
    BY <1>6 DEF Inv, TypeOK
  <2>4. written' \in [Req -> SUBSET Column]
    BY DEF Inv, TypeOK, Commit
  <2>5. fresh' \in [Req -> BOOLEAN]
    <3> DEFINE Kept(q) == fresh[q] /\ ~(/\ q \in Open \ {r}
                                       /\ call[q].kind = "profile"
                                       /\ call[q].id = Target(r)
                                       /\ written[r] # {})
    <3>1. fresh' = [q \in Req |-> Kept(q)]
      BY DEF Commit
    <3>2. \A q \in Req : Kept(q) \in BOOLEAN
      OBVIOUS
    <3> HIDE DEF Kept
    <3> QED
      BY <3>1, <3>2
  <2> QED
    BY <2>1, <2>2, <2>3, <2>4, <2>5 DEF TypeOK
<1>8. OneAccountPerKey'
  <2> SUFFICES ASSUME NEW i \in Registered', NEW j \in Registered', i # j
               PROVE  DistinctKeys(users'[i], users'[j])
    BY DEF OneAccountPerKey, DistinctKeys
  <2>1. CASE i \in Registered /\ j \in Registered
    BY <1>5, <2>1 DEF Inv, OneAccountPerKey, SameKeys, DistinctKeys
  <2>2. CASE i \notin Registered
    <3>1. i = t /\ j \in Registered
      BY <1>4, <2>2
    <3> QED
      BY <1>2, <1>4, <1>5, <2>2, <3>1 DEF SameKeys, DistinctKeys
  <2>3. CASE j \notin Registered
    <3>1. j = t /\ i \in Registered
      BY <1>4, <2>3
    <3> QED
      BY <1>2, <1>4, <1>5, <2>3, <3>1 DEF SameKeys, DistinctKeys
  <2> QED
    BY <2>1, <2>2, <2>3
<1>9. NoTraceOfFailure'
  <2> SUFFICES ASSUME NEW i \in Registered'
               PROVE  {i, users'[i].secret.by, users'[i].updated}
                        \subseteq Committed' \cup {Founder}
    BY DEF NoTraceOfFailure
  <2>1. CASE i = t
    <3>1. i \in Committed \cup {Founder, r}
      BY <1>2, <2>1 DEF Inv, NoTraceOfFailure
    <3> QED
      BY <1>2, <1>4, <1>6, <2>1, <3>1
  <2>2. CASE i # t
    BY <1>4, <1>6, <2>2 DEF Inv, NoTraceOfFailure, Registered
  <2> QED
    BY <2>1, <2>2
<1>10. PairInv'
  <2>1. \A q \in Req \ {r} : Pending(q)' = Pending(q) /\ Inserted(q)' = Inserted(q)
    BY <1>6 DEF Pending, Inserted
  <2>2. ~Inserted(r)' /\ ~Pending(r)'
    BY <1>6 DEF Inserted, Pending
  <2> QED
    BY <1>6, <2>1, <2>2 DEF Inv, PairInv
<1>11. ASSUME NEW q \in Req \ {r} PROVE RequestInv(q)'
  <2>1. RequestInv(q)
    BY DEF Inv
  <2>2. CallInv(q)'
    BY <1>6, <2>1 DEF RequestInv, CallInv
  <2>3. PendingInv(q)'
    <3>1. PendingInv(q) /\ Pending(q)' = Pending(q) /\ Inserted(q)' = Inserted(q)
          /\ (Pending(q) => Inserted(q))
      BY <1>6, <2>1 DEF RequestInv, Pending, Inserted
    <3>2. ASSUME Inserted(q), NEW i \in Registered'
          PROVE  /\ users'[i].email # entity[q].email
                 /\ Pending(q) => users'[i].username # entity[q].username
      <4>1. CASE i \in Registered
        BY <1>5, <3>1, <3>2, <4>1 DEF SameKeys, PendingInv
      <4>2. CASE i \notin Registered
        <5>1. i = r /\ Pending(r) /\ Inserted(r) /\ users'[i] = entity[r]
          BY <1>2, <1>4, <4>2 DEF Inserted
        <5> QED
          BY <3>2, <5>1 DEF Inv, PairInv
      <4> QED
        BY <4>1, <4>2
    <3> QED
      BY <1>6, <3>1, <3>2 DEF PendingInv, NewAccount
  <2>4. ChangingInv(q)'
    <3> DEFINE k == call[q].id
    <3>1. ChangingInv(q)
      BY <2>1 DEF RequestInv
    <3>2. Changing(q)' = Changing(q) /\ HasBase(q)' = HasBase(q)
      BY <1>6 DEF Changing, HasBase
    <3>3. ASSUME Changing(q) PROVE fresh'[q] => fresh[q] /\ users'[k] = users[k]
      <4>1. q \in Open /\ call[q].kind = "profile" /\ k \in Registered
        BY <2>1, <3>1, <3>3 DEF RequestInv, CallInv, ChangingInv, Changing, Open, OpenPhase
      <4>2. fresh'[q] => fresh[q] /\ (k = t => written[r] = {})
        BY <4>1 DEF Commit, t
      <4> QED
        BY <1>2, <1>4, <4>1, <4>2 DEF Registered
    <3>4. HasBase(q) => Changing(q)
      BY DEF HasBase, Changing
    <3>5. ASSUME Changing(q) PROVE k \in Registered /\ SameKeys(users'[k], users[k])
      BY <1>5, <3>1, <3>5 DEF ChangingInv
    <3>6. Differing(q)' = Differing(q)
      BY <1>6 DEF Differing
    <3> HIDE DEF k
    <3>7. Changing(q) => /\ k \in Registered'
                         /\ entity[q] \in Account
                         /\ SameKeys(entity[q], users'[k])
                         /\ {entity[q].secret.by, entity[q].updated}
                              \subseteq Committed' \cup {Founder, q}
                         /\ fresh'[q] => entity[q] = Changed(users'[k], call[q], q)
      BY <1>4, <1>6, <3>1, <3>3, <3>5 DEF ChangingInv, SameKeys, k
    <3>8. HasBase(q) => /\ base[q] \in Account
                        /\ SameKeys(base[q], users'[k])
                        /\ fresh'[q] => base[q] = users'[k]
      BY <3>1, <3>3, <3>4, <3>5 DEF ChangingInv, SameKeys, k
    <3> QED
      BY <1>6, <3>1, <3>2, <3>6, <3>7, <3>8 DEF ChangingInv, SameKeys, k
  <2>5. TakenInv(q)'
    <3>1. \A i \in Registered : /\ i \in Registered'
                                 /\ users'[i].email = users[i].email
                                 /\ users'[i].username = users[i].username
      BY <1>4, <1>5 DEF SameKeys
    <3> QED
      BY <1>6, <2>1, <3>1 DEF RequestInv, TakenInv, EmailTaken, UsernameTaken
  <2> QED
    BY <2>2, <2>3, <2>4, <2>5 DEF RequestInv
<1>12. RequestInv(r)'
  BY <1>1, <1>6 DEF RequestInv, CallInv, PendingInv, ChangingInv, TakenInv,
                    Inserted, Pending, Changing, HasBase
<1> QED
  BY <1>7, <1>8, <1>9, <1>10, <1>11, <1>12 DEF Inv

-----------------------------------------------------------------------------
LEMMA NextInv == Inv /\ [Next]_vars => Inv'
<1> SUFFICES ASSUME Inv, [Next]_vars PROVE Inv'
  OBVIOUS
<1>1. CASE UNCHANGED vars
  <2>1. UNCHANGED <<TypeOK, OneAccountPerKey, NoTraceOfFailure>>
    BY <1>1 DEF vars, TypeOK, OneAccountPerKey, NoTraceOfFailure, Registered, Committed
  <2>2. PairInv'
    BY <1>1 DEF vars, Inv, PairInv, Inserted, Pending, DistinctKeys
  <2>3. ASSUME NEW r \in Req PROVE RequestInv(r)'
    <3>1. RequestInv(r)
      BY DEF Inv
    <3> QED
      BY <1>1, <3>1
      DEF vars, RequestInv, CallInv, PendingInv, ChangingInv, TakenInv, Inserted, Pending, Changing,
          HasBase, Registered, Committed, NewAccount, Differing, EmailTaken, UsernameTaken
  <2> QED
    BY <2>1, <2>2, <2>3 DEF Inv
<1>2. ASSUME NEW r \in Req,
             CheckEmail(r) \/ LogIn(r) \/ ChangeProfile(r) \/ Proceed(r) \/ Crash(r)
      PROVE  Inv'
  BY <1>2, CheckEmailInv, LogInInv, ChangeProfileInv, CheckUsernameInv, PasswordTooLongInv,
     InsertRowInv, EnterUsernameInv, InsertFailsInv, ReloadInv, FlushInv, CommitInv, CrashInv DEF Proceed
<1> QED
  BY <1>1, <1>2 DEF Next

LEMMA Invariance == Spec => []Inv
  BY InitInv, NextInv, PTL DEF Spec

\* Every variable keeps its type; no password is stored that the hash refuses
\* (user_service.py:50).
THEOREM TypeCorrect == Spec => []TypeOK
<1>1. Inv => TypeOK
  BY DEF Inv
<1> QED
  BY <1>1, Invariance, PTL

\* However many registrations overlap, no two accounts share an e-mail or a
\* user name (user_service.py:97-114 with the two unique constraints).
THEOREM KeysUnique == Spec => []OneAccountPerKey
<1>1. Inv => OneAccountPerKey
  BY DEF Inv
<1> QED
  BY <1>1, Invariance, PTL

\* Accounts, hashes and change stamps come from committed requests only
\* (session.py:45-56).
THEOREM FailuresLeaveNoTrace == Spec => []NoTraceOfFailure
<1>1. Inv => NoTraceOfFailure
  BY DEF Inv
<1> QED
  BY <1>1, Invariance, PTL

\* A registration fails over its keys only when a committed account has one of
\* them, 500 instead of 409 or not (user_service.py:97-100, user_repository.py:66).
THEOREM ConflictsAreReal == Spec => []NoFalseConflict
<1>1. Inv => NoFalseConflict
  BY DEF Inv, RequestInv, TakenInv, NoFalseConflict
<1> QED
  BY <1>1, Invariance, PTL

\* A profile change nobody interfered with stores exactly what was asked for
\* (user_service.py:158-165, user_repository.py:80-87).
THEOREM UndisturbedChangesAreExact == Spec => UndisturbedChangeIsExact
<1> DEFINE Exact(r) ==
      (/\ r \in Committed' \ Committed
       /\ call'[r].kind = "profile"
       /\ fresh[r])
      => users' = [users EXCEPT ![call[r].id] = Changed(@, call[r], r)]
<1>1. Inv /\ [Next]_vars => [\A r \in Req : Exact(r)]_vars
  <2> SUFFICES ASSUME Inv, Next, NEW r \in Req, r \in Committed' \ Committed,
                      call'[r].kind = "profile", fresh[r]
               PROVE  users' = [users EXCEPT ![call[r].id] = Changed(@, call[r], r)]
    OBVIOUS
  <2>1. PICK q \in Req : \/ CheckEmail(q) \/ LogIn(q) \/ ChangeProfile(q)
                         \/ Proceed(q) \/ Crash(q)
    BY DEF Next
  <2>2. CASE Commit(q)
    <3>1. q = r
      BY <2>2 DEF Commit, Goto, Inv, TypeOK, Committed
    <3>2. phase[r] = "flushed" /\ call[r].kind = "profile"
      BY <2>2, <3>1 DEF Commit
    <3>3. /\ Target(r) = call[r].id /\ Written(r) = entity[r]
          /\ call[r].id \in Id
      BY <3>2, WrittenFacts
    <3>4. entity[r] = Changed(users[call[r].id], call[r], r)
      BY <3>2 DEF Inv, RequestInv, ChangingInv, Changing
    <3> QED
      BY <2>2, <3>1, <3>3, <3>4 DEF Commit
  <2>3. CASE LogIn(q)
    <3>1. PICK c \in Calls : /\ c.kind = "login"
                             /\ call' = [call EXCEPT ![q] = c]
                             /\ Goto(q, IF Credentials(c) THEN "ok" ELSE "refused")
      BY <2>3 DEF LogIn
    <3> QED
      BY <3>1 DEF Goto, Inv, TypeOK, Committed
  <2>4. CASE ~Commit(q) /\ ~LogIn(q)
    BY <2>1, <2>4
    DEF Proceed, CheckEmail, CheckUsername, PasswordTooLong, InsertRow, EnterUsername, InsertFails,
        ChangeProfile, Reload, Flush, Crash, RollBack, Goto, Inv, TypeOK, Committed
  <2> QED
    BY <2>2, <2>3, <2>4
<1> QED
  BY <1>1, Invariance, PTL DEF Spec, UndisturbedChangeIsExact
-----------------------------------------------------------------------------
(***************************************************************************)
(* What a stale object may and may not spoil: the keys of an account and   *)
(* whose password it carries survive any interleaving of profile changes.  *)
(***************************************************************************)

\* An account that was registered stays registered with its e-mail and user
\* name, although update_user_orm copies both from objects that may be stale
\* (user_repository.py:80-87).
THEOREM AccountsKeepTheirKeys ==
  Spec => [][\A i \in Registered : i \in Registered' /\ SameKeys(users'[i], users[i])]_vars
<1>1. Inv /\ [Next]_vars =>
        [\A i \in Registered : i \in Registered' /\ SameKeys(users'[i], users[i])]_vars
  <2> SUFFICES ASSUME Inv, Next, NEW i \in Registered
               PROVE  i \in Registered' /\ SameKeys(users'[i], users[i])
    OBVIOUS
  <2>1. CASE users' = users
    BY <2>1 DEF Registered, SameKeys
  <2>2. ASSUME NEW r \in Req, Commit(r)
        PROVE  i \in Registered' /\ SameKeys(users'[i], users[i])
    <3>1. call[r] \in Calls /\ phase[r] = "flushed"
      BY <2>2 DEF Inv, RequestInv, CallInv, Commit
    <3>2. /\ Target(r) \in Id /\ Written(r) \in Account
          /\ Target(r) \in Registered => SameKeys(Written(r), users[Target(r)])
      BY <3>1, WrittenFacts
    <3>3. users' = [users EXCEPT ![Target(r)] = Written(r)]
      BY <2>2 DEF Commit
    <3> HIDE DEF Target, Written
    <3> QED
      BY <3>2, <3>3, ConstantFacts DEF Inv, TypeOK, Registered, SameKeys
  <2> QED
    BY <2>1, <2>2
    DEF Next, Proceed, CheckEmail, CheckUsername, PasswordTooLong, InsertRow, EnterUsername,
        InsertFails, LogIn, ChangeProfile, Reload, Flush, Crash, RollBack
<1> QED
  BY <1>1, Invariance, PTL DEF Spec

\* Accounts and the secrets they were given, by their own registrations or by
\* changes of their own profiles.
Given == {<<Founder, FoundersRow.secret>>} \cup
         {<<Target(r), [word |-> call[r].word, by |-> r]>> :
            r \in {q \in Req : phase[q] # "new" /\ call[q].kind # "login"}}

Owned ==
  /\ \A i \in Registered : <<i, users[i].secret>> \in Given
  /\ \A r \in Req : Changing(r) => <<call[r].id, entity[r].secret>> \in Given

\* A request that has started keeps its call, so what was given stays given.
LEMMA GivenStays ==
  ASSUME Inv, [Next]_vars
  PROVE  Given \subseteq Given'
<1>1. \A r \in Req : phase[r] # "new" => phase'[r] # "new" /\ call'[r] = call[r]
  <2>1. CASE UNCHANGED vars
    BY <2>1 DEF vars
  <2>2. ASSUME NEW q \in Req, CheckEmail(q) \/ LogIn(q) \/ ChangeProfile(q)
        PROVE  \A r \in Req : phase[r] # "new" => phase'[r] # "new" /\ call'[r] = call[r]
    BY <2>2 DEF CheckEmail, LogIn, ChangeProfile, Goto, Inv, TypeOK
  <2>3. ASSUME NEW q \in Req, Proceed(q) \/ Crash(q)
        PROVE  \A r \in Req : phase[r] # "new" => phase'[r] # "new" /\ call'[r] = call[r]
    BY <2>3
    DEF Proceed, CheckUsername, PasswordTooLong, InsertRow, EnterUsername, InsertFails, Reload, Flush,
        Commit, Crash, RollBack, Goto, Inv, TypeOK
  <2> QED
    BY <2>1, <2>2, <2>3 DEF Next
<1> QED
  BY <1>1 DEF Given, Target

\* The word an account can be entered with was set by its own registration or
\* by a profile change made with its own token, never by somebody else's request
\* that held another object (user_service.py:158-165).
THEOREM PasswordsAreTheAccountsOwn ==
  Spec => [](\A i \in Registered : /\ <<i, users[i].secret>> \in Given
                                   /\ users[i].secret.by \in Committed \cup {Founder})
<1>1. Init => Owned
  BY ConstantFacts DEF Init, Owned, Registered, Given, Changing
<1>2. Inv /\ Owned /\ [Next]_vars => Owned'
  <2> SUFFICES ASSUME Inv, Owned, [Next]_vars PROVE Owned'
    OBVIOUS
  <2>1. CASE UNCHANGED vars
    <3>1. Registered' = Registered /\ Given \subseteq Given'
      BY <2>1, GivenStays DEF vars, Registered
    <3>2. \A r \in Req : Changing(r)' = Changing(r)
      BY <2>1 DEF vars, Changing
    <3> QED
      BY <2>1, <3>1, <3>2 DEF vars, Owned
  <2>2. ASSUME NEW q \in Req, ChangeProfile(q) PROVE Owned'
    <3>1. \A i \in Registered' : <<i, users'[i].secret>> \in Given'
      BY <2>2, GivenStays DEF ChangeProfile, Owned, Registered
    <3>2. ASSUME NEW r \in Req, r # q, Changing(r)'
          PROVE  (<<call[r].id, entity[r].secret>> \in Given)'
      <4>1. Changing(r) /\ call'[r] = call[r] /\ entity'[r] = entity[r]
        BY <2>2, <3>2 DEF ChangeProfile, Goto, Inv, TypeOK, Changing
      <4>2. <<call[r].id, entity[r].secret>> \in Given
        BY <4>1 DEF Owned
      <4> QED
        BY <4>1, <4>2, GivenStays
    <3>3. ASSUME Changing(q)' PROVE (<<call[q].id, entity[q].secret>> \in Given)'
      <4>1. PICK c \in Calls :
              /\ c.kind = "profile" /\ call'[q] = c /\ phase'[q] = "changed"
              /\ c.id \in Registered /\ (c.word # None => Hashable(c.word))
              /\ entity'[q] = Changed(users[c.id], c, q)
        BY <2>2, <3>3 DEF ChangeProfile, Goto, Inv, TypeOK, Changing
      <4>2. users[c.id] \in Account
        BY <4>1, RegisteredRows DEF Inv
      <4>3. entity'[q].secret = IF c.word = None THEN users[c.id].secret
                                ELSE [word |-> c.word, by |-> q]
        BY <4>1, <4>2 DEF Changed, Account
      <4>4. CASE c.word = None
        <5>1. <<c.id, users[c.id].secret>> \in Given
          BY <4>1 DEF Owned
        <5>2. users' = users
          BY <2>2 DEF ChangeProfile
        <5> QED
          BY <4>1, <4>3, <4>4, <5>1, <5>2, GivenStays
      <4>5. CASE c.word # None
        <5>1. Target(q)' = c.id /\ entity'[q].secret = [word |-> c.word, by |-> q]
          BY <4>1, <4>3, <4>5 DEF Target
        <5>2. <<Target(q)', [word |-> call'[q].word, by |-> q]>> \in Given'
          BY <4>1 DEF Given
        <5> QED
          BY <4>1, <5>1, <5>2
      <4> QED
        BY <4>4, <4>5
    <3> QED
      BY <3>1, <3>2, <3>3 DEF Owned
  <2>3. ASSUME NEW q \in Req, Commit(q) PROVE Owned'
    <3>1. PICK o \in {"ok", "unacked"} : Goto(q, o)
      BY <2>3 DEF Commit
    <3>2. /\ phase[q] = "flushed" /\ UNCHANGED <<call, entity>>
          /\ users' = [users EXCEPT ![Target(q)] = Written(q)]
      BY <2>3 DEF Commit
    <3>3. ASSUME NEW r \in Req, Changing(r)' PROVE (<<call[r].id, entity[r].secret>> \in Given)'
      <4>1. Changing(r)
        BY <3>1, <3>2, <3>3 DEF Goto, Inv, TypeOK, Changing
      <4>2. <<call[r].id, entity[r].secret>> \in Given
        BY <4>1 DEF Owned
      <4> QED
        BY <3>2, <4>2, GivenStays
    <3>4. <<Target(q), Written(q).secret>> \in Given
      <4>1. Written(q).secret = IF "secret" \in written[q] THEN entity[q].secret
                                ELSE users[Target(q)].secret
        BY DEF Written, Column
      <4>2. CASE call[q].kind = "register"
        <5>1. PendingInv(q) /\ Pending(q)
          BY <3>2, <4>2 DEF Inv, RequestInv, Pending
        <5>2. entity[q] = NewAccount(q) /\ "secret" \in written[q]
          BY <5>1 DEF PendingInv, Inserted, Column
        <5>3. entity[q].secret = [word |-> call[q].word, by |-> q]
          BY <5>2 DEF NewAccount
        <5>4. <<Target(q), [word |-> call[q].word, by |-> q]>> \in Given
          BY <3>2, <4>2 DEF Given
        <5> QED
          BY <4>1, <5>2, <5>3, <5>4
      <4>3. CASE call[q].kind # "register"
        <5>1. Changing(q) /\ Target(q) = call[q].id /\ call[q].id \in Registered
          BY <3>2, <4>3
          DEF Inv, RequestInv, CallInv, ChangingInv, Changing, Target
        <5> QED
          BY <4>1, <5>1 DEF Owned
      <4> QED
        BY <4>2, <4>3
    <3>5. ASSUME NEW i \in Registered' PROVE (<<i, users[i].secret>> \in Given)'
      <4>1. CASE i = Target(q)
        <5>1. users'[i] = Written(q)
          BY <3>2, <4>1 DEF Inv, TypeOK, Registered
        <5> QED
          BY <3>4, <4>1, <5>1, GivenStays
      <4>2. CASE i # Target(q)
        <5>1. users'[i] = users[i] /\ i \in Registered
          BY <3>2, <4>2 DEF Inv, TypeOK, Registered
        <5> QED
          BY <5>1, GivenStays DEF Owned
      <4> QED
        BY <4>1, <4>2
    <3> QED
      BY <3>3, <3>5 DEF Owned
  <2>4. ASSUME NEW q \in Req,
               CheckEmail(q) \/ LogIn(q) \/ (Proceed(q) /\ ~Commit(q)) \/ Crash(q)
        PROVE  Owned'
    <3>1. users' = users
      BY <2>4
      DEF CheckEmail, LogIn, Proceed, CheckUsername, PasswordTooLong, InsertRow, EnterUsername,
          InsertFails, Reload, Flush, Crash, RollBack
    <3>2. ASSUME NEW r \in Req, Changing(r)'
          PROVE  Changing(r) /\ call'[r] = call[r] /\ entity'[r] = entity[r]
      BY <2>4, <3>2
      DEF CheckEmail, LogIn, Proceed, CheckUsername, PasswordTooLong, InsertRow, EnterUsername,
          InsertFails, Reload, Flush, Crash, RollBack, Goto, Inv, TypeOK, RequestInv,
          CallInv, Changing
    <3>3. ASSUME NEW r \in Req, Changing(r)' PROVE (<<call[r].id, entity[r].secret>> \in Given)'
      <4>1. <<call[r].id, entity[r].secret>> \in Given
        BY <3>2, <3>3 DEF Owned
      <4> QED
        BY <3>2, <3>3, <4>1, GivenStays
    <3>4. \A i \in Registered' : (<<i, users[i].secret>> \in Given)'
      BY <3>1, GivenStays DEF Owned, Registered
    <3> QED
      BY <3>3, <3>4 DEF Owned
  <2> QED
    BY <2>1, <2>2, <2>3, <2>4 DEF Next, Proceed
<1>3. Inv /\ Owned => \A i \in Registered : /\ <<i, users[i].secret>> \in Given
                                            /\ users[i].secret.by \in Committed \cup {Founder}
  BY DEF Inv, NoTraceOfFailure, Owned
<1> QED
  BY <1>1, <1>2, <1>3, Invariance, PTL DEF Spec
=============================================================================
