---------------------------- MODULE UserAccounts ----------------------------
(***************************************************************************)
(* Registration, login and profile changes (UserService), running side by  *)
(* side.  register looks for the e-mail, then for the user name, hashes    *)
(* the password and inserts the row: between each of these and the commit  *)
(* other requests run.  update_profile loads the row, changes the object,  *)
(* reloads the row, writes the columns that differ and commits.            *)
(*                                                                         *)
(* An account is known by the request that registered it.  A stored        *)
(* password is the word and the request that hashed it: hashing salts, so  *)
(* the same word never gives the same column value twice.  E-mail, user    *)
(* name, role and flags never change once stored.                          *)
(***************************************************************************)
EXTENDS Naturals

CONSTANTS Req,       \* requests, each made once
          Calls,     \* what they may ask for
          Founder,   \* the account there is at the start
          FoundersRow,
          Email, Username, FullName,
          Word,      \* passwords of 8 to 72 characters
          LongWord,  \* longer ones: accepted by the DTOs up to 128, at login all
          First72,   \* the 72 bytes of a word, not characters, that bcrypt uses
          None

Id == Req \cup {Founder}

Secret == [word: Word, by: Id]

Account == [email: Email, username: Username, full: FullName, secret: Secret,
            updated: Id]

Column == {"email", "username", "full", "secret", "updated"}

Registration == [kind: {"register"}, email: Email, username: Username,
                 word: Word \cup LongWord]

Login == [kind: {"login"}, email: Email, word: Word \cup LongWord]

ProfileChange == [kind: {"profile"}, id: Id, full: FullName \cup {None},
                  word: Word \cup LongWord \cup {None}]

ASSUME AccountsAssumption ==
  /\ Calls \subseteq Registration \cup Login \cup ProfileChange
  /\ Founder \notin Req
  /\ FoundersRow \in Account
  /\ FoundersRow.secret.by = Founder /\ FoundersRow.updated = Founder
  /\ None \notin Email \cup Username \cup FullName \cup Word \cup LongWord
                 \cup Req \cup Account
  /\ Word \cap LongWord = {}
  /\ DOMAIN First72 = Word \cup LongWord

VARIABLES users,    \* the committed rows of users
          phase,    \* how far each request is
          call,     \* what it asks for
          entity,   \* the User object in its hands
          base,     \* the row UserRepository.update reloaded
          written,  \* columns it has written and not yet committed
          fresh     \* history: the account is as it was when it was loaded

vars == <<users, phase, call, entity, base, written, fresh>>

Registered == {i \in Id : users[i] # None}

\* inserting: the row's e-mail is in its index, the user name not yet.
OpenPhase == {"email_free", "name_free", "inserting", "changed", "reloaded", "flushed"}
\* ok: 200 or 201; unacked: committed, but the client never learns it;
\* conflict: 409; refused: 401; error: 500; lost: died before COMMIT.
EndPhase == {"ok", "unacked", "conflict", "refused", "error", "lost"}

Open == {r \in Req : phase[r] \in OpenPhase}
Committed == {r \in Req : phase[r] \in {"ok", "unacked"}}

Init ==
  /\ users = [i \in Id |-> IF i = Founder THEN FoundersRow ELSE None]
  /\ phase = [r \in Req |-> "new"]
  /\ call = [r \in Req |-> None]
  /\ entity = [r \in Req |-> None]
  /\ base = [r \in Req |-> None]
  /\ written = [r \in Req |-> {}]
  /\ fresh = [r \in Req |-> TRUE]

Goto(r, p) == phase' = [phase EXCEPT ![r] = p]

Target(r) == IF call[r].kind = "register" THEN r ELSE call[r].id

\* The stored account with the columns the request has written.
Written(r) ==
  [c \in Column |-> IF c \in written[r] THEN entity[r][c] ELSE users[Target(r)][c]]

\* Faulty variants: the connection goes back with its transaction open; the
\* session commits although the request failed.
EndWithoutRollback(r, outcome) ==
  /\ Goto(r, outcome)
  /\ UNCHANGED <<users, call, entity, base, written, fresh>>

EndWithCommit(r, outcome) ==
  /\ Goto(r, outcome)
  /\ users' = IF written[r] = {} THEN users
              ELSE [users EXCEPT ![Target(r)] = Written(r)]
  /\ written' = [written EXCEPT ![r] = {}]
  /\ UNCHANGED <<call, entity, base, fresh>>

\* get_db_session rolls back, and the connection goes back to the pool.
RollBack(r, outcome) ==
  /\ Goto(r, outcome)
  /\ written' = [written EXCEPT ![r] = {}]
  /\ UNCHANGED <<users, call, entity, base, fresh>>

\* Faulty variant: bcrypt is given whatever comes in.
HashesAnything(w) == TRUE

\* _hash_password counts characters; what is longer in bytes bcrypt truncates.
Hashable(w) == w \in Word

EmailTaken(e) == \E i \in Registered : users[i].email = e
UsernameTaken(n) == \E i \in Registered : users[i].username = n

(***************************************************************************)
(* register                                                                *)
(***************************************************************************)
CheckEmail(r) ==
  /\ phase[r] = "new"
  /\ \E c \in Calls : /\ c.kind = "register"
                      /\ call' = [call EXCEPT ![r] = c]
                      /\ Goto(r, IF EmailTaken(c.email) THEN "conflict"
                                 ELSE "email_free")
  /\ UNCHANGED <<users, entity, base, written, fresh>>

CheckUsername(r) ==
  /\ phase[r] = "email_free"
  /\ IF UsernameTaken(call[r].username)
     THEN RollBack(r, "conflict")
     ELSE /\ Goto(r, "name_free")
          /\ UNCHANGED <<users, call, entity, base, written, fresh>>

\* _hash_password refuses a long password with AuthenticationError.
PasswordTooLong(r) ==
  /\ phase[r] = "name_free"
  /\ ~Hashable(call[r].word)
  /\ RollBack(r, "refused")

NewAccount(r) ==
  [email |-> call[r].email, username |-> call[r].username,
   full |-> CHOOSE f \in FullName : TRUE,
   secret |-> [word |-> call[r].word, by |-> r], updated |-> r]

\* Faulty variant: the table has no unique constraints.
NoUniqueConstraint(r, key) == FALSE

\* uq_users_email and uq_users_username against committed rows.
KeyTaken(r, key) == \E i \in Registered : users[i][key] = call[r][key]

\* Another transaction has entered the same key and not ended: wait.
KeyPending(r, key) ==
  \E q \in Req \ {r} :
    /\ written[q] # {} /\ call[q].kind = "register"
    /\ key = "username" => phase[q] # "inserting"
    /\ entity[q][key] = call[r][key]

\* The row is stored and its keys are entered one by one, the e-mail first: a
\* request that waits for its user name already holds its e-mail.
InsertRow(r) ==
  /\ phase[r] = "name_free"
  /\ Hashable(call[r].word)
  /\ ~KeyPending(r, "email") /\ ~KeyTaken(r, "email")
  /\ entity' = [entity EXCEPT ![r] = NewAccount(r)]
  /\ written' = [written EXCEPT ![r] = Column]
  /\ Goto(r, "inserting")
  /\ UNCHANGED <<users, call, base, fresh>>

EnterUsername(r) ==
  /\ phase[r] = "inserting"
  /\ ~KeyPending(r, "username") /\ ~KeyTaken(r, "username")
  /\ Goto(r, "flushed")
  /\ UNCHANGED <<users, call, entity, base, written, fresh>>

\* Faulty variant: the answer does not wait for the other transaction's end.
InsertFailsEarly(r) ==
  /\ phase[r] = "name_free"
  /\ Hashable(call[r].word)
  /\ KeyPending(r, "email") \/ KeyTaken(r, "email")
  /\ RollBack(r, "error")

\* IntegrityError: no handler turns it into ConflictError.
InsertFails(r) ==
  /\ \E key \in {"email", "username"} :
       /\ phase[r] = IF key = "email" THEN "name_free" ELSE "inserting"
       /\ ~KeyPending(r, key) /\ KeyTaken(r, key)
  /\ Hashable(call[r].word)
  /\ RollBack(r, "error")

(***************************************************************************)
(* login: one SELECT by e-mail.                                            *)
(***************************************************************************)
Credentials(c) ==
  \E i \in Registered : /\ users[i].email = c.email
                        /\ First72[users[i].secret.word] = First72[c.word]

LogIn(r) ==
  /\ phase[r] = "new"
  /\ \E c \in Calls : /\ c.kind = "login"
                      /\ call' = [call EXCEPT ![r] = c]
                      /\ Goto(r, IF Credentials(c) THEN "ok" ELSE "refused")
  /\ UNCHANGED <<users, entity, base, written, fresh>>

(***************************************************************************)
(* update_profile                                                          *)
(***************************************************************************)
Changed(a, c, r) ==
  [a EXCEPT !.full = IF c.full = None THEN @ ELSE c.full,
            !.secret = IF c.word = None THEN @ ELSE [word |-> c.word, by |-> r],
            !.updated = IF c.full = None /\ c.word = None THEN @ ELSE r]

\* The token's user is loaded and changed in memory in one go; 401 when the
\* token's user is unknown or the password is too long.
ChangeProfile(r) ==
  /\ phase[r] = "new"
  /\ \E c \in Calls :
       /\ c.kind = "profile"
       /\ call' = [call EXCEPT ![r] = c]
       /\ IF c.id \in Registered /\ (c.word # None => Hashable(c.word))
          THEN /\ entity' = [entity EXCEPT ![r] = Changed(users[c.id], c, r)]
               /\ Goto(r, "changed")
          ELSE /\ Goto(r, "refused")
               /\ UNCHANGED entity
  /\ UNCHANGED <<users, base, written, fresh>>

Reload(r) ==
  /\ phase[r] = "changed"
  /\ base' = [base EXCEPT ![r] = users[call[r].id]]
  /\ Goto(r, "reloaded")
  /\ UNCHANGED <<users, call, entity, written, fresh>>

\* Faulty variant: update_user_orm forgets the password.
MappedWithoutSecret == Column \ {"secret"}

\* The columns update_user_orm copies.
Mapped == Column

Differing(r) == {c \in Mapped : entity[r][c] # base[r][c]}

\* The UPDATE waits for the row if another transaction has updated it.
Flush(r) ==
  /\ phase[r] = "reloaded"
  /\ Differing(r) # {} =>
       \A q \in Req \ {r} : ~(/\ written[q] # {} /\ call[q].kind = "profile"
                              /\ call[q].id = call[r].id)
  /\ written' = [written EXCEPT ![r] = Differing(r)]
  /\ Goto(r, "flushed")
  /\ UNCHANGED <<users, call, entity, base, fresh>>

(***************************************************************************)
(* The end of a request.                                                   *)
(***************************************************************************)
Commit(r) ==
  /\ phase[r] = "flushed"
  /\ \E outcome \in {"ok", "unacked"} : Goto(r, outcome)
  /\ users' = [users EXCEPT ![Target(r)] = Written(r)]
  /\ written' = [written EXCEPT ![r] = {}]
  /\ fresh' = [q \in Req |->
                 fresh[q] /\ ~(/\ q \in Open \ {r} /\ call[q].kind = "profile"
                               /\ call[q].id = Target(r) /\ written[r] # {})]
  /\ UNCHANGED <<call, entity, base>>

\* The worker or the connection dies, or an exception ends the request
\* between two awaits.
Crash(r) ==
  /\ r \in Open
  /\ RollBack(r, "lost")

\* What a request does of its own accord once the server has taken it up.
Proceed(r) ==
  \/ CheckUsername(r)
  \/ PasswordTooLong(r)
  \/ InsertRow(r)
  \/ EnterUsername(r)
  \/ InsertFails(r)
  \/ Reload(r)
  \/ Flush(r)
  \/ Commit(r)

Next ==
  \E r \in Req :
    \/ CheckEmail(r)
    \/ LogIn(r)
    \/ ChangeProfile(r)
    \/ Proceed(r)
    \/ Crash(r)

\* The event loop and PostgreSQL keep running; nothing makes a client call.
Fairness == \A r \in Req : WF_vars(Proceed(r))

Spec == Init /\ [][Next]_vars

FairSpec == Spec /\ Fairness
-----------------------------------------------------------------------------
\* Every variable has its type.
TypeOK ==
  /\ users \in [Id -> Account \cup {None}]
  /\ phase \in [Req -> {"new"} \cup OpenPhase \cup EndPhase]
  /\ call \in [Req -> Calls \cup {None}]
  /\ entity \in [Req -> Account \cup {None}]
  /\ base \in [Req -> Account \cup {None}]
  /\ written \in [Req -> SUBSET Column]
  /\ fresh \in [Req -> BOOLEAN]

\* No two accounts share an e-mail or a user name, although register looks
\* before it inserts and others insert in between (user_service.py:97-114).
OneAccountPerKey ==
  \A i, j \in Registered :
    i # j => /\ users[i].email # users[j].email
             /\ users[i].username # users[j].username

\* An account, a password hash and a change stamp come from requests that
\* committed, never from one that was refused, failed or was lost.
NoTraceOfFailure ==
  \A i \in Registered :
    {i, users[i].secret.by, users[i].updated} \subseteq Committed \cup {Founder}

\* A registration is turned away as a duplicate only when an account with its
\* e-mail or user name is stored, never because of one that is later undone.
NoFalseConflict ==
  \A r \in Req : phase[r] \in {"conflict", "error"} =>
    EmailTaken(call[r].email) \/ UsernameTaken(call[r].username)

\* A profile change nobody interfered with stores exactly what it was given
\* and leaves the omitted fields alone (users.py:35).
UndisturbedChangeIsExact ==
  [][\A r \in Req :
       /\ r \in Committed' \ Committed
       /\ call'[r].kind = "profile"
       /\ fresh[r]
       => users' = [users EXCEPT ![call[r].id] = Changed(@, call[r], r)]]_vars

\* Requests that were taken up all end, whoever crashes holding a key or a row.
EveryRequestEnds == Open # {} ~> Open = {}
=============================================================================
