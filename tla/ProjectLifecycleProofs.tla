----------------------- MODULE ProjectLifecycleProofs -----------------------
(***************************************************************************)
(* Proofs about the project aggregate, for every set of people, names and  *)
(* stamps.  TypeOK and OwnerIsNoMember are inductive together.             *)
(***************************************************************************)
EXTENDS ProjectLifecycle, TLAPS

Inv == TypeOK /\ OwnerIsNoMember

\* Each method returns a well-typed aggregate whose owner is not listed.
LEMMA MethodsKeepTheAggregate ==
  ASSUME NEW p \in Project, Ghost \notin p.members, p.owner \notin p.members,
         NEW now \in Stamp
  PROVE  /\ \A s \in ProjectStatus :
              LET q == Transitioned(p, s, now)
              IN  q \in Project /\ q.owner = p.owner /\ q.members = p.members
         /\ \A u \in Person : CanAddMember(p, u) =>
              LET q == MemberAdded(p, u, now)
              IN  /\ q \in Project /\ q.owner = p.owner
                  /\ q.members = p.members \cup {u} /\ u # p.owner
         /\ \A u \in Person :
              LET q == MemberRemoved(p, u, now)
              IN  /\ q \in Project /\ q.owner = p.owner
                  /\ q.members = p.members \ {u}
         /\ \A u \in Person :
              LET q == OwnershipTransferred(p, u, now)
              IN  /\ q \in Project /\ q.owner = u
                  /\ q.members = (p.members \ {u}) \cup {p.owner}
         /\ \A n \in Name \cup {None} :
              LET q == Renamed(p, n, now)
              IN  q \in Project /\ q.owner = p.owner /\ q.members = p.members
<1>1. \A s \in ProjectStatus :
        LET q == Transitioned(p, s, now)
        IN  q \in Project /\ q.owner = p.owner /\ q.members = p.members
  BY DEF Transitioned, Project
<1>2. \A u \in Person : CanAddMember(p, u) =>
        LET q == MemberAdded(p, u, now)
        IN  /\ q \in Project /\ q.owner = p.owner
            /\ q.members = p.members \cup {u} /\ u # p.owner
  BY DEF CanAddMember, MemberAdded, Project
<1>3. \A u \in Person :
        LET q == MemberRemoved(p, u, now)
        IN  q \in Project /\ q.owner = p.owner /\ q.members = p.members \ {u}
  BY DEF MemberRemoved, Project
<1>4. \A u \in Person :
        LET q == OwnershipTransferred(p, u, now)
        IN  /\ q \in Project /\ q.owner = u
            /\ q.members = (p.members \ {u}) \cup {p.owner}
  BY DEF OwnershipTransferred, Project
<1>5. \A n \in Name \cup {None} :
        LET q == Renamed(p, n, now)
        IN  q \in Project /\ q.owner = p.owner /\ q.members = p.members
  BY DEF Renamed, Project
<1> QED
  BY <1>1, <1>2, <1>3, <1>4, <1>5

LEMMA InitInv == Init => Inv
  BY InitialProjectsAssumption DEF Init, Inv, TypeOK, OwnerIsNoMember

LEMMA NextInv == Inv /\ [Next]_project => Inv'
<1> SUFFICES ASSUME Inv, [Next]_project PROVE Inv'
  OBVIOUS
<1> USE DEF Inv, TypeOK, OwnerIsNoMember
<1>1. CASE UNCHANGED project
  BY <1>1
<1>2. ASSUME NEW now \in Stamp, NEW s \in ProjectStatus, TransitionStatus(s, now)
      PROVE  Inv'
  BY <1>2, MethodsKeepTheAggregate DEF TransitionStatus
<1>3. ASSUME NEW now \in Stamp, NEW u \in Person, AddMember(u, now)
      PROVE  Inv'
  BY <1>3, MethodsKeepTheAggregate, ProjectSentinels DEF AddMember
<1>4. ASSUME NEW now \in Stamp, NEW u \in Person, RemoveMember(u, now)
      PROVE  Inv'
  BY <1>4, MethodsKeepTheAggregate DEF RemoveMember
<1>5. ASSUME NEW now \in Stamp, NEW u \in Person, TransferOwnership(u, now)
      PROVE  Inv'
  <2>1. project.owner \in Person /\ u # project.owner
    BY <1>5 DEF TransferOwnership, Project
  <2> QED
    BY <1>5, <2>1, MethodsKeepTheAggregate, ProjectSentinels DEF TransferOwnership
<1>6. ASSUME NEW now \in Stamp, NEW n \in Name \cup {None}, UpdateProject(n, now)
      PROVE  Inv'
  BY <1>6, MethodsKeepTheAggregate DEF UpdateProject
<1> QED
  BY <1>1, <1>2, <1>3, <1>4, <1>5, <1>6 DEF Next

LEMMA Invariance == Spec => []Inv
  BY InitInv, NextInv, PTL DEF Spec

\* The aggregate stays well typed.
THEOREM TypeCorrect == Spec => []TypeOK
<1>1. Inv => TypeOK
  BY DEF Inv
<1> QED
  BY <1>1, Invariance, PTL

\* However ownership and membership change, the owner is never listed twice.
THEOREM OwnerNeverListed == Spec => []OwnerIsNoMember
<1>1. Inv => OwnerIsNoMember
  BY DEF Inv
<1> QED
  BY <1>1, Invariance, PTL
-----------------------------------------------------------------------------
\* No method takes an archived project out of that status.
THEOREM ArchivedStays == Spec => ArchivedForGood
<1>1. Inv /\ [Next]_project =>
        [project.status = "archived" => project'.status = "archived"]_project
  <2> SUFFICES ASSUME project \in Project, project.status = "archived", Next
               PROVE  project'.status = "archived"
    BY DEF Inv, TypeOK
  <2>1. PICK now \in Stamp :
          \/ \E s \in ProjectStatus : TransitionStatus(s, now)
          \/ \E u \in Person : \/ AddMember(u, now)
                               \/ RemoveMember(u, now)
                               \/ TransferOwnership(u, now)
          \/ \E n \in Name \cup {None} : UpdateProject(n, now)
    BY DEF Next
  <2>2. ~ \E s \in ProjectStatus : TransitionStatus(s, now)
    BY DEF TransitionStatus, CanTransition, Transition
  <2>3. ~ \E u \in Person : AddMember(u, now)
    BY DEF AddMember, CanAddMember
  <2>4. ASSUME NEW u \in Person, RemoveMember(u, now) \/ TransferOwnership(u, now)
        PROVE  project'.status = "archived"
    BY <2>4 DEF RemoveMember, MemberRemoved, TransferOwnership,
                OwnershipTransferred, Project
  <2>5. ASSUME NEW n \in Name \cup {None}, UpdateProject(n, now)
        PROVE  project'.status = "archived"
    BY <2>5 DEF UpdateProject, Renamed, Project
  <2> QED
    BY <2>1, <2>2, <2>3, <2>4, <2>5
<1> QED
  BY <1>1, Invariance, PTL DEF Spec, ArchivedForGood

\* Only remove_member takes anybody out, only the one it is called for, and
\* never the owner.
THEOREM PeopleStay == Spec => NobodyLeavesUnasked
<1> DEFINE Removed(u) == /\ \E now \in Stamp : RemoveMember(u, now)
                         /\ People(project') = People(project) \ {u}
           Asked == /\ project.owner \in People(project')
                    /\ \A u \in People(project) \ People(project') : Removed(u)
<1>1. Inv /\ [Next]_project => [Asked]_project
  <2> SUFFICES ASSUME Inv, Next PROVE Asked
    OBVIOUS
  <2> USE DEF Inv, TypeOK, OwnerIsNoMember
  <2>1. ASSUME project.owner \in People(project'), People(project) \subseteq People(project')
        PROVE  Asked
    BY <2>1
  <2>2. ASSUME NEW now \in Stamp, NEW s \in ProjectStatus, TransitionStatus(s, now)
        PROVE  Asked
    BY <2>1, <2>2, MethodsKeepTheAggregate DEF TransitionStatus, People
  <2>3. ASSUME NEW now \in Stamp, NEW u \in Person, AddMember(u, now)
        PROVE  Asked
    BY <2>1, <2>3, MethodsKeepTheAggregate DEF AddMember, People
  <2>4. ASSUME NEW now \in Stamp, NEW u \in Person, RemoveMember(u, now)
        PROVE  Asked
    <3>1. u # project.owner
      BY <2>4 DEF RemoveMember, CanRemoveMember
    <3>2. project'.owner = project.owner /\ project'.members = project.members \ {u}
      BY <2>4, MethodsKeepTheAggregate DEF RemoveMember
    <3>3. /\ project.owner \in People(project')
          /\ People(project') = People(project) \ {u}
      BY <3>1, <3>2 DEF People
    <3>4. \A v \in People(project) \ People(project') : v = u
      BY <3>3
    <3> QED
      BY <2>4, <3>3, <3>4
  <2>5. ASSUME NEW now \in Stamp, NEW u \in Person, TransferOwnership(u, now)
        PROVE  Asked
    BY <2>1, <2>5, MethodsKeepTheAggregate DEF TransferOwnership, People
  <2>6. ASSUME NEW now \in Stamp, NEW n \in Name \cup {None}, UpdateProject(n, now)
        PROVE  Asked
    BY <2>1, <2>6, MethodsKeepTheAggregate DEF UpdateProject, People
  <2> QED
    BY <2>2, <2>3, <2>4, <2>5, <2>6 DEF Next
<1> QED
  BY <1>1, Invariance, PTL DEF Spec, NobodyLeavesUnasked
=============================================================================
