------------------------- MODULE MCProjectLifecycle -------------------------
EXTENDS ProjectLifecycle

\* create_project stores a project in PLANNING, without members.
CreatedProjects ==
  {p \in [name: Name, status: {"planning"}, owner: Person,
          members: {{}}, updated: {None}] : TRUE}
=============================================================================
