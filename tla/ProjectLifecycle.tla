-------------------------- MODULE ProjectLifecycle --------------------------
(***************************************************************************)
(* The life of one project when its operations happen one at a time, all   *)
(* the methods of the aggregate included: what ProjectRequests is compared *)
(* with.                                                                   *)
(***************************************************************************)
EXTENDS ProjectDomain

CONSTANT InitialProjects  \* as ProjectService.create_project stores them, or later

ASSUME InitialProjectsAssumption ==
  \A p \in InitialProjects :
    p \in Project /\ p.owner \notin p.members /\ Ghost \notin p.members

VARIABLE project

Init == project \in InitialProjects

TransitionStatus(s, now) ==
  /\ CanTransition(project, s)
  /\ project' = Transitioned(project, s, now)

AddMember(u, now) ==
  /\ CanAddMember(project, u)
  /\ project' = MemberAdded(project, u, now)

RemoveMember(u, now) ==
  /\ CanRemoveMember(project, u)
  /\ project' = MemberRemoved(project, u, now)

TransferOwnership(u, now) ==
  /\ u # project.owner
  /\ project' = OwnershipTransferred(project, u, now)

UpdateProject(n, now) == project' = Renamed(project, n, now)

Next ==
  \E now \in Stamp :
    \/ \E s \in ProjectStatus : TransitionStatus(s, now)
    \/ \E u \in Person : \/ AddMember(u, now)
                         \/ RemoveMember(u, now)
                         \/ TransferOwnership(u, now)
    \/ \E n \in Name \cup {None} : UpdateProject(n, now)

Spec == Init /\ [][Next]_project
-----------------------------------------------------------------------------
People(p) == p.members \cup {p.owner}

TypeOK == project \in Project /\ Ghost \notin project.members

\* The owner is never listed among the members, however often ownership goes
\* back and forth (project.py:100, 119-131; total_members counts on it, 144).
OwnerIsNoMember == project.owner \notin project.members

\* An archived project never leaves that status, by any method (project.py:26).
ArchivedForGood ==
  [][project.status = "archived" => project'.status = "archived"]_project

\* Whoever leaves the project was taken out by remove_member called for that
\* person, alone; giving the project away, like every other method, expels
\* nobody, and the owner of before always stays (project.py:105-131).
NobodyLeavesUnasked ==
  [][/\ project.owner \in People(project')
     /\ \A u \in People(project) \ People(project') :
          /\ \E now \in Stamp : RemoveMember(u, now)
          /\ People(project') = People(project) \ {u}]_project
=============================================================================
