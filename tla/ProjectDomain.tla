--------------------------- MODULE ProjectDomain ---------------------------
(***************************************************************************)
(* The Project aggregate (app/domain/models/project.py) as values and      *)
(* operators, in the style of TaskDomain.  `name' stands for the columns   *)
(* the owner writes without a domain check (name, description, is_public); *)
(* the slug never changes.  `updated' holds the stamp of the last touch(); *)
(* stamps are only compared for equality here.                             *)
(***************************************************************************)
CONSTANTS Name,    \* values of the unchecked columns
          Person,  \* ids of rows of the users table
          Ghost,   \* a user id without a row
          Stamp,   \* values of updated_at
          None     \* Python's None, and the stamp of creation

ASSUME ProjectSentinels ==
  /\ None \notin Name \cup Person \cup Stamp \cup {Ghost}
  /\ Ghost \notin Person

ProjectStatus == {"planning", "active", "on_hold", "completed", "archived"}

Project == [name: Name, status: ProjectStatus, owner: Person,
            members: SUBSET (Person \cup {Ghost}), updated: Stamp \cup {None}]

\* Faulty table: an archived project can be activated again.
TransitionRevives ==
  {<<"planning", "active">>, <<"active", "archived">>, <<"archived", "active">>}

Transition ==
  {<<"planning", "active">>, <<"planning", "archived">>,
   <<"active", "on_hold">>, <<"active", "completed">>, <<"active", "archived">>,
   <<"on_hold", "active">>, <<"on_hold", "archived">>,
   <<"completed", "archived">>}

CanTransition(p, s) == <<p.status, s>> \in Transition

Transitioned(p, s, now) == [p EXCEPT !.status = s, !.updated = now]

CanAddMember(p, u) ==
  /\ p.status # "archived"
  /\ u # p.owner
  /\ u \notin p.members

MemberAdded(p, u, now) ==
  [p EXCEPT !.members = @ \cup {u}, !.updated = now]

\* remove_member() does not look at the status.
CanRemoveMember(p, u) == u # p.owner /\ u \in p.members

MemberRemoved(p, u, now) ==
  [p EXCEPT !.members = @ \ {u}, !.updated = now]

\* Faulty variants: the new owner stays a member; the old owner is dropped.
OwnershipKeepsMembership(p, u, now) ==
  [p EXCEPT !.members = @ \cup {p.owner}, !.owner = u, !.updated = now]

OwnershipDropsOwner(p, u, now) ==
  [p EXCEPT !.members = @ \ {u}, !.owner = u, !.updated = now]

\* The old owner becomes a member and the new one stops being one.
OwnershipTransferred(p, u, now) ==
  [p EXCEPT !.members = (@ \ {u}) \cup {p.owner}, !.owner = u, !.updated = now]

\* Faulty variant: an omitted name is stored.
RenamedToNothing(p, n, now) == [p EXCEPT !.name = n, !.updated = now]

\* A PATCH (ProjectUpdate); without any field it touches nothing.
Renamed(p, n, now) ==
  IF n = None THEN p ELSE [p EXCEPT !.name = n, !.updated = now]

(***************************************************************************)
(* The operations the API offers on an existing project, as values.        *)
(***************************************************************************)
Operation == [kind: {"transition"}, arg: ProjectStatus]
        \cup [kind: {"add", "remove"}, arg: Person \cup {Ghost}]
        \cup [kind: {"patch"}, arg: Name \cup {None}]

Accepts(op, p) ==
  \/ op.kind = "transition" /\ CanTransition(p, op.arg)
  \/ op.kind = "add" /\ CanAddMember(p, op.arg)
  \/ op.kind = "remove" /\ CanRemoveMember(p, op.arg)
  \/ op.kind = "patch"

Effect(op, p, now) ==
  CASE op.kind = "transition" -> Transitioned(p, op.arg, now)
    [] op.kind = "add" -> MemberAdded(p, op.arg, now)
    [] op.kind = "remove" -> MemberRemoved(p, op.arg, now)
    [] OTHER -> Renamed(p, op.arg, now)
=============================================================================
